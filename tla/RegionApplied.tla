---------------------------- MODULE RegionApplied ----------------------------
(***************************************************************************)
(* One Region and the lattice regions it caches: of its reference image in *)
(* _lcregion, of a matched image in a RegionConverter that is made on      *)
(* demand.  Tasks apply the region while the main thread updates it.       *)
(*                                                                         *)
(* A state of the region is its number, the states in Outside lie outside  *)
(* the images.  A lattice region is the state it was made from; 0 stands   *)
(* for a null pointer.  The conversion of points is exact.                 *)
(***************************************************************************)
EXTENDS Naturals

CONSTANTS Appliers,      \* tasks that apply the region
          MaxUpdates,    \* bound on the states
          MaxConverters, \* bound on the RegionConverters
          Outside        \* the states outside the images

ASSUME UpdatesAssumption == MaxUpdates \in Nat

VARIABLES shape,         \* "ellipse" (or rectangle), "rotbox" (or polygon), "point"
          region_state,  \* _region_state
          update,        \* UpdateRegion: the state it sets, or 0; and its place
          lcregion,      \* _lcregion
          lcregion_set,  \* _lcregion_set: the attempt was made
          converter,     \* _region_converter: [id, state, converted, polygon]
          converters,    \* RegionConverters made so far
          apply          \* the tasks

VARIABLES leftover,      \* history: a cache was filled by a task that
                         \* overlapped with an update
          spent,         \* history: the attempt was spent on computed stokes
          freed          \* history: a RegionConverter was used after its end

appliedVars == <<shape, region_state, update, lcregion, lcregion_set, converter,
                 converters, apply, leftover, spent, freed>>

States == 1..MaxUpdates + 1
Null == 0
NoConverter == [id |-> Null, state |-> Null, converted |-> Null, polygon |-> Null]
NoApply == [at |-> "idle", file |-> "reference", original |-> TRUE, result |-> Null,
            converter |-> Null, overlap |-> FALSE, raced |-> FALSE]

\* LCRegion::fromRecord, WCRegion::toLCRegion: null outside the image.
InImage(s) == IF s \in Outside THEN Null ELSE s

RegionAppliedTypeOK ==
    /\ shape \in {"ellipse", "rotbox", "point"}
    /\ region_state \in States
    /\ update.state \in States \cup {Null}
    /\ lcregion \in States \cup {Null} /\ lcregion_set \in BOOLEAN
    /\ converter.id \in 0..converters
    /\ {converter.state, converter.converted, converter.polygon} \subseteq States \cup {Null}
    /\ \A t \in Appliers : apply[t].result \in States \cup {Null}
    /\ leftover \in BOOLEAN /\ spent \in BOOLEAN /\ freed \in BOOLEAN

RegionAppliedInit ==
    /\ shape \in {"ellipse", "rotbox", "point"}
    /\ region_state = 1 /\ update = [state |-> Null, at |-> "idle"]
    /\ lcregion = Null /\ lcregion_set = FALSE
    /\ converter = NoConverter /\ converters = 0
    /\ apply = [t \in Appliers |-> NoApply]
    /\ leftover = FALSE /\ spent = FALSE /\ freed = FALSE

-----------------------------------------------------------------------------
(***************************************************************************)
(* UpdateRegion, on the main thread.  The caches are reset first, and the  *)
(* new state is set afterwards.                                            *)
(***************************************************************************)

MarkOverlap == [t \in Appliers |->
    IF apply[t].at = "idle" THEN apply[t] ELSE [apply[t] EXCEPT !.overlap = TRUE]]

\* Mutant of ResetRegionCache: the converter of the matched image is kept.
ResetLCRegion ==
    /\ update.at = "idle" /\ region_state <= MaxUpdates
    /\ update' = [state |-> region_state + 1, at |-> "reset"]
    /\ lcregion' = Null /\ lcregion_set' = FALSE
    /\ apply' = MarkOverlap
    /\ leftover' = FALSE /\ spent' = FALSE
    /\ UNCHANGED <<shape, region_state, converter, converters, freed>>

ResetRegionCache ==
    /\ update.at = "idle" /\ region_state <= MaxUpdates
    /\ update' = [state |-> region_state + 1, at |-> "reset"]
    /\ lcregion' = Null /\ lcregion_set' = FALSE
    /\ converter' = NoConverter
    /\ apply' = MarkOverlap
    /\ leftover' = FALSE /\ spent' = FALSE
    /\ UNCHANGED <<shape, region_state, converters, freed>>

SetRegionState ==
    /\ update.at = "reset"
    /\ region_state' = update.state
    /\ update' = [state |-> Null, at |-> "idle"]
    /\ UNCHANGED <<shape, lcregion, lcregion_set, converter, converters, apply,
                   leftover, spent, freed>>

-----------------------------------------------------------------------------
(***************************************************************************)
(* GetImageRegion, in a task.                                              *)
(***************************************************************************)

ApplyGoto(t, where) == apply' = [apply EXCEPT ![t].at = where]
Return(t, result) == apply' = [apply EXCEPT ![t].at = "done", ![t].result = result]
KeepRegion == UNCHANGED <<shape, region_state, update>>

Busy(t) == apply[t].at \notin {"idle", "done"}

\* A task applies the region to one of the images, for its own stokes or for
\* stokes that are computed.
GetImageRegion(t, file, original) ==
    /\ ~Busy(t)
    /\ apply' = [u \in Appliers |->
           IF u = t
           THEN [NoApply EXCEPT
                    !.at = IF file = "reference" THEN "cached" ELSE "convert",
                    !.file = file, !.original = original,
                    !.overlap = update.at # "idle",
                    !.raced = \E v \in Appliers \ {t} : Busy(v)]
           ELSE [apply[u] EXCEPT !.raced = @ \/ Busy(u)]]
    /\ KeepRegion
    /\ UNCHANGED <<lcregion, lcregion_set, converter, converters, leftover, spent, freed>>

\* GetCachedLCRegion of the reference image, then the flag.
GetCachedLCRegion(t) ==
    /\ apply[t].at = "cached"
    /\ \/ lcregion # Null /\ apply[t].original /\ Return(t, lcregion)
       \/ (lcregion = Null \/ ~apply[t].original) /\ ApplyGoto(t, "test")
    /\ KeepRegion
    /\ UNCHANGED <<lcregion, lcregion_set, converter, converters, leftover, spent, freed>>

TestSet(t) ==
    /\ apply[t].at = "test"
    /\ IF lcregion_set THEN Return(t, Null) ELSE ApplyGoto(t, "record")
    /\ KeepRegion
    /\ UNCHANGED <<lcregion, lcregion_set, converter, converters, leftover, spent, freed>>

\* The record is made of the state, and a lattice region of the record.
MakeLCRegion(t) ==
    /\ apply[t].at = "record"
    /\ apply' = [apply EXCEPT ![t].at = "keep", ![t].result = InImage(region_state)]
    /\ lcregion_set' = TRUE
    /\ spent' = (spent \/ ~apply[t].original)
    /\ leftover' = (leftover \/ apply[t].overlap)
    /\ KeepRegion /\ UNCHANGED <<lcregion, converter, converters, freed>>

\* Mutant of CacheLCRegion: the region is found and never kept.
NeverCacheLCRegion(t) ==
    /\ apply[t].at = "keep"
    /\ ApplyGoto(t, "done") /\ UNCHANGED <<lcregion, leftover>>
    /\ KeepRegion /\ UNCHANGED <<lcregion_set, converter, converters, spent, freed>>

CacheLCRegion(t) ==
    /\ apply[t].at = "keep"
    /\ ApplyGoto(t, "done")
    /\ IF apply[t].result # Null /\ apply[t].original
       THEN lcregion' = apply[t].result /\ leftover' = (leftover \/ apply[t].overlap)
       ELSE UNCHANGED <<lcregion, leftover>>
    /\ KeepRegion /\ UNCHANGED <<lcregion_set, converter, converters, spent, freed>>

\* The converter is made of the region's state when there is none; one that
\* another task made in the meantime ends.
UseConverter(t) ==
    /\ apply[t].at = "convert"
    /\ IF converter.id # Null
       THEN /\ apply' = [apply EXCEPT ![t].at = "using", ![t].converter = converter.id]
            /\ UNCHANGED <<converter, converters, leftover>>
       ELSE /\ ApplyGoto(t, "make") /\ UNCHANGED <<converter, converters, leftover>>
    /\ KeepRegion /\ UNCHANGED <<lcregion, lcregion_set, spent, freed>>

MakeConverter(t) ==
    /\ apply[t].at = "make" /\ converters < MaxConverters
    /\ converters' = converters + 1
    /\ converter' = [NoConverter EXCEPT !.id = converters', !.state = region_state]
    /\ apply' = [apply EXCEPT ![t].at = "using", ![t].converter = converters']
    /\ leftover' = (leftover \/ apply[t].overlap)
    /\ KeepRegion /\ UNCHANGED <<lcregion, lcregion_set, spent, freed>>

\* GetReferencePolygonPoints, GetApproximatePolygonPoints: a point has no side
\* to put points on.
HasPolygonPoints == shape # "point"

\* RegionConverter::GetImageRegion: cached, converted directly, or as a
\* polygon of points on the region's sides.
ConvertedRegion(state) == IF HasPolygonPoints THEN InImage(state) ELSE Null

Convert(t) ==
    /\ apply[t].at = "using"
    /\ IF converter.id # apply[t].converter
       THEN freed' = TRUE /\ UNCHANGED <<apply, converter>>
       ELSE LET known == IF converter.converted # Null THEN converter.converted
                                                       ELSE converter.polygon
                made == ConvertedRegion(converter.state)
            IN  /\ UNCHANGED freed
                /\ IF known # Null /\ apply[t].original
                   THEN Return(t, known) /\ UNCHANGED converter
                   ELSE /\ Return(t, made)
                        /\ converter' = IF ~apply[t].original THEN converter
                                        ELSE IF shape = "ellipse"
                                        THEN [converter EXCEPT !.converted = made]
                                        ELSE [converter EXCEPT !.polygon = made]
    /\ KeepRegion
    /\ UNCHANGED <<lcregion, lcregion_set, converters, leftover, spent>>

Apply(t) ==
    \/ \E file \in {"reference", "matched"}, original \in BOOLEAN :
          GetImageRegion(t, file, original)
    \/ GetCachedLCRegion(t) \/ TestSet(t) \/ MakeLCRegion(t) \/ CacheLCRegion(t)
    \/ UseConverter(t) \/ MakeConverter(t) \/ Convert(t)

RegionAppliedNext == ~freed /\ (ResetRegionCache \/ SetRegionState \/ \E t \in Appliers : Apply(t))

RegionAppliedSpec == RegionAppliedInit /\ [][RegionAppliedNext]_appliedVars

-----------------------------------------------------------------------------
(***************************************************************************)
(* Properties.                                                             *)
(***************************************************************************)

\* A lattice region that is applied, from a cache or new, is of the region's
\* state, unless the task itself, or one that filled the cache, overlapped
\* with an update: the old state can be read after the caches are reset.
AppliedRegionCurrent ==
    \A t \in Appliers :
        (apply[t].at = "done" /\ apply[t].result # Null /\ ~apply[t].overlap) =>
            apply[t].result = region_state \/ leftover

\* "Returns nullptr if is annotation, is not a closed region (line/polyline),
\* or outside image" (Region.cc): a region inside the image is found, unless
\* another task was making it at the time, or a point is applied to a matched
\* image.  In the reference image one attempt serves all: computed stokes find
\* the region only when they make the attempt, and then nobody else does.
RegionInsideIsFound ==
    \A t \in Appliers :
        (apply[t].at = "done" /\ apply[t].result = Null /\ ~apply[t].overlap) =>
            \/ region_state \in Outside
            \/ apply[t].raced \/ leftover
            \/ shape = "point" /\ apply[t].file = "matched"
            \/ apply[t].file = "reference" /\ (spent \/ ~apply[t].original)

\* A region that is applied is the present one, and is found.
RegionAppliedCorrect == AppliedRegionCurrent /\ RegionInsideIsFound
=============================================================================
