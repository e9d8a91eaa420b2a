--------------------------- MODULE Regions_proofs ---------------------------
(***************************************************************************)
(* Proofs about RegionHandler: the lattice regions applied to the images   *)
(* (RegionApplied), the results of the regions (Regions), and the regions  *)
(* in files (RegionFiles).  They share no variable, and the parts use      *)
(* nothing of each other.                                                  *)
(***************************************************************************)
EXTENDS Regions, RegionApplied, RegionFiles, Profiles_proofs

-----------------------------------------------------------------------------
(***************************************************************************)
(* Proofs about RegionApplied, for any lattice regions and number of       *)
(* updates.                                                                *)
(*                                                                         *)
(* A lattice region and a converter are of the state they were made for.   *)
(* A task that began before an update and ends after it may leave one of   *)
(* the state before: it overlapped, and "leftover" says that it did.       *)
(***************************************************************************)

AppliedPlaces == {"idle", "cached", "test", "record", "keep", "convert", "make", "using", "done"}
AppliedRecords == [at : AppliedPlaces, file : {"reference", "matched"}, original : BOOLEAN,
                   result : States \cup {Null}, converter : Nat, overlap : BOOLEAN, raced : BOOLEAN]
RegionConverters == [id : Nat, state : States \cup {Null}, converted : States \cup {Null},
                     polygon : States \cup {Null}]

AppliedTyped ==
    /\ shape \in {"ellipse", "rotbox", "point"}
    /\ region_state \in States
    /\ update \in [state : States \cup {Null}, at : {"idle", "reset"}]
    /\ update.at = "reset" => update.state # Null
    /\ lcregion \in States \cup {Null} /\ lcregion_set \in BOOLEAN
    /\ converter \in RegionConverters /\ converters \in Nat /\ converter.id <= converters
    /\ apply \in [Appliers -> AppliedRecords]
    /\ leftover \in BOOLEAN /\ spent \in BOOLEAN /\ freed \in BOOLEAN

\* A task that runs, or has run, while the caches are reset and the new state
\* is not set yet overlaps with the update.
UpdateOverlaps ==
    update.at # "idle" => \A t \in Appliers : apply[t].at = "idle" \/ apply[t].overlap

\* What the caches hold is of the region's state, and none is held during an
\* update, unless a task that overlapped filled one.
CachesFollow ==
    leftover \/ /\ lcregion # Null => update.at = "idle" /\ lcregion = region_state
                /\ converter.id # Null => update.at = "idle" /\ converter.state = region_state
                /\ lcregion_set => update.at = "idle"

\* The lattice regions of a converter are of its state.
ConverterWhole ==
    /\ converter.id # Null => converter.state # Null
    /\ converter.id = Null => converter = NoConverter
    /\ {converter.converted, converter.polygon} \subseteq {Null, converter.state}

\* Where a task is, what it found there is.
ApplySteps ==
    \A t \in Appliers :
        /\ apply[t].at \in {"cached", "test", "record", "keep"} => apply[t].file = "reference"
        /\ apply[t].at \in {"convert", "make", "using"} => apply[t].file = "matched"
        /\ apply[t].at = "using" => apply[t].converter # Null
        /\ apply[t].at = "keep" /\ ~apply[t].overlap => apply[t].result = InImage(region_state)
        /\ apply[t].at = "test" /\ apply[t].original /\ ~apply[t].raced => lcregion = Null

\* Two tasks at work know of each other.
RacersKnown ==
    \A t, u \in Appliers : (t # u /\ Busy(t) /\ Busy(u)) => apply[t].raced

\* When the one attempt was made for the region's own stokes, the region was
\* found, or is about to be kept, or lies outside the image.
Attempted ==
    \/ leftover \/ spent \/ ~lcregion_set
    \/ lcregion # Null
    \/ region_state \in Outside
    \/ \E t \in Appliers : /\ apply[t].at = "keep" /\ apply[t].original
                           /\ ~apply[t].overlap /\ apply[t].result # Null

AppliedIInv == AppliedTyped /\ UpdateOverlaps /\ CachesFollow /\ ConverterWhole /\ ApplySteps
               /\ RacersKnown /\ Attempted /\ AppliedRegionCurrent /\ RegionInsideIsFound

-----------------------------------------------------------------------------
LEMMA AppliedInitOK == RegionAppliedInit => AppliedIInv
<1> SUFFICES ASSUME RegionAppliedInit PROVE AppliedIInv
  OBVIOUS
<1>1. NoApply \in AppliedRecords /\ NoApply.at = "idle" /\ NoApply.result = Null
  BY DEF NoApply, AppliedRecords, AppliedPlaces, Null
<1>2. \A t \in Appliers : apply[t] = NoApply
  BY DEF RegionAppliedInit
<1>3. apply \in [Appliers -> AppliedRecords]
  BY <1>1 DEF RegionAppliedInit
<1>4. 1 \in States
  BY UpdatesAssumption DEF States
<1>5. NoConverter \in RegionConverters
  BY DEF NoConverter, RegionConverters, Null
<1>6. [state |-> Null, at |-> "idle"] \in [state : States \cup {Null}, at : {"idle", "reset"}]
  OBVIOUS
<1>7. AppliedTyped
  <2>1. update \in [state : States \cup {Null}, at : {"idle", "reset"}] /\ update.at = "idle"
    BY <1>6 DEF RegionAppliedInit
  <2>2. converter \in RegionConverters /\ converters \in Nat /\ converter.id <= converters
    BY <1>5 DEF RegionAppliedInit, NoConverter, Null
  <2>3. /\ shape \in {"ellipse", "rotbox", "point"} /\ region_state \in States
        /\ lcregion \in States \cup {Null} /\ lcregion_set \in BOOLEAN
        /\ leftover \in BOOLEAN /\ spent \in BOOLEAN /\ freed \in BOOLEAN
    BY <1>4 DEF RegionAppliedInit
  <2> QED BY <1>3, <2>1, <2>2, <2>3 DEF AppliedTyped
<1>8. UpdateOverlaps /\ CachesFollow /\ ConverterWhole /\ Attempted
  BY <1>2 DEF UpdateOverlaps, CachesFollow, ConverterWhole, Attempted, RegionAppliedInit, NoConverter, Null
<1>9. ApplySteps /\ RacersKnown /\ AppliedRegionCurrent /\ RegionInsideIsFound
  BY <1>1, <1>2 DEF ApplySteps, RacersKnown, AppliedRegionCurrent, RegionInsideIsFound, Busy
<1> QED BY <1>7, <1>8, <1>9 DEF AppliedIInv

-----------------------------------------------------------------------------
\* A task moves on to a place, with a result and a converter; the others stay.
ApplyMoves(t, place, result, con) ==
    /\ apply' \in [Appliers -> AppliedRecords]
    /\ apply'[t].at = place /\ apply'[t].result = result /\ apply'[t].converter = con
    /\ apply'[t].file = apply[t].file /\ apply'[t].original = apply[t].original
    /\ apply'[t].overlap = apply[t].overlap /\ apply'[t].raced = apply[t].raced
    /\ \A u \in Appliers : u # t => apply'[u] = apply[u]

\* The task at work that applies the region does not disturb what is known of
\* updates and of tasks at work at the same time.
LEMMA MovesKeep ==
    ASSUME AppliedIInv, NEW t \in Appliers, Busy(t), NEW w \in AppliedPlaces, NEW r, NEW n,
           ApplyMoves(t, w, r, n), w # "idle", UNCHANGED update
    PROVE  (UpdateOverlaps /\ RacersKnown)'
<1>1. UpdateOverlaps'
  BY DEF AppliedIInv, UpdateOverlaps, ApplyMoves, Busy
<1>2. RacersKnown'
  BY DEF AppliedIInv, RacersKnown, ApplyMoves, Busy
<1> QED BY <1>1, <1>2

LEMMA GotoMoves ==
    ASSUME AppliedTyped, NEW t \in Appliers, NEW w \in AppliedPlaces,
           apply' = [apply EXCEPT ![t].at = w]
    PROVE  ApplyMoves(t, w, apply[t].result, apply[t].converter)
<1> DEFINE a == apply[t]
<1>1. a \in AppliedRecords
  BY DEF AppliedTyped
<1>2. /\ apply'[t] = [a EXCEPT !.at = w]
      /\ \A u \in Appliers : u # t => apply'[u] = apply[u]
  BY DEF AppliedTyped
<1>3. /\ [a EXCEPT !.at = w] \in AppliedRecords
      /\ [a EXCEPT !.at = w].at = w /\ [a EXCEPT !.at = w].result = a.result
      /\ [a EXCEPT !.at = w].converter = a.converter /\ [a EXCEPT !.at = w].file = a.file
      /\ [a EXCEPT !.at = w].original = a.original /\ [a EXCEPT !.at = w].overlap = a.overlap
      /\ [a EXCEPT !.at = w].raced = a.raced
  <2> HIDE DEF a
  <2> QED BY <1>1 DEF AppliedRecords
<1>4. apply' \in [Appliers -> AppliedRecords]
  BY <1>2, <1>3 DEF AppliedTyped
<1> QED BY <1>2, <1>3, <1>4 DEF ApplyMoves

LEMMA ResultMoves ==
    ASSUME AppliedTyped, NEW t \in Appliers, NEW w \in AppliedPlaces, NEW r \in States \cup {Null},
           apply' = [apply EXCEPT ![t].at = w, ![t].result = r]
    PROVE  ApplyMoves(t, w, r, apply[t].converter)
<1> DEFINE a == apply[t]
           b == [a EXCEPT !.at = w, !.result = r]
<1>1. a \in AppliedRecords
  BY DEF AppliedTyped
<1>2. /\ apply'[t] = b
      /\ \A u \in Appliers : u # t => apply'[u] = apply[u]
  BY DEF AppliedTyped
<1>3. /\ b \in AppliedRecords
      /\ b.at = w /\ b.result = r /\ b.converter = a.converter /\ b.file = a.file
      /\ b.original = a.original /\ b.overlap = a.overlap /\ b.raced = a.raced
  <2> HIDE DEF a
  <2> QED BY <1>1 DEF AppliedRecords
<1>4. apply' \in [Appliers -> AppliedRecords]
  BY <1>2, <1>3 DEF AppliedTyped
<1> QED BY <1>2, <1>3, <1>4 DEF ApplyMoves

LEMMA ConverterMoves ==
    ASSUME AppliedTyped, NEW t \in Appliers, NEW w \in AppliedPlaces, NEW n \in Nat,
           apply' = [apply EXCEPT ![t].at = w, ![t].converter = n]
    PROVE  ApplyMoves(t, w, apply[t].result, n)
<1> DEFINE a == apply[t]
           b == [a EXCEPT !.at = w, !.converter = n]
<1>1. a \in AppliedRecords
  BY DEF AppliedTyped
<1>2. /\ apply'[t] = b
      /\ \A u \in Appliers : u # t => apply'[u] = apply[u]
  BY DEF AppliedTyped
<1>3. /\ b \in AppliedRecords
      /\ b.at = w /\ b.result = a.result /\ b.converter = n /\ b.file = a.file
      /\ b.original = a.original /\ b.overlap = a.overlap /\ b.raced = a.raced
  <2> HIDE DEF a
  <2> QED BY <1>1 DEF AppliedRecords
<1>4. apply' \in [Appliers -> AppliedRecords]
  BY <1>2, <1>3 DEF AppliedTyped
<1> QED BY <1>2, <1>3, <1>4 DEF ApplyMoves

-----------------------------------------------------------------------------
\* The caches are reset: every task that runs or has run overlaps, and nothing
\* is cached that could be old.
LEMMA ResetStep == ASSUME AppliedIInv, ResetRegionCache PROVE AppliedIInv'
<1>1. AppliedTyped /\ RacersKnown /\ ApplySteps
  BY DEF AppliedIInv
<1>2. \A u \in Appliers :
         /\ apply'[u] \in AppliedRecords /\ (apply'[u].at = "idle" \/ apply'[u].overlap)
         /\ apply'[u].at = apply[u].at /\ apply'[u].file = apply[u].file
         /\ apply'[u].original = apply[u].original /\ apply'[u].result = apply[u].result
         /\ apply'[u].converter = apply[u].converter /\ apply'[u].raced = apply[u].raced
  <2> SUFFICES ASSUME NEW u \in Appliers
               PROVE  /\ apply'[u] \in AppliedRecords /\ (apply'[u].at = "idle" \/ apply'[u].overlap)
                      /\ apply'[u].at = apply[u].at /\ apply'[u].file = apply[u].file
                      /\ apply'[u].original = apply[u].original /\ apply'[u].result = apply[u].result
                      /\ apply'[u].converter = apply[u].converter /\ apply'[u].raced = apply[u].raced
    OBVIOUS
  <2> DEFINE a == apply[u]
             b == [a EXCEPT !.overlap = TRUE]
  <2>1. a \in AppliedRecords
    BY <1>1 DEF AppliedTyped
  <2>2. /\ b \in AppliedRecords /\ b.overlap
        /\ b.at = a.at /\ b.file = a.file /\ b.original = a.original /\ b.result = a.result
        /\ b.converter = a.converter /\ b.raced = a.raced
    <3> HIDE DEF a
    <3> QED BY <2>1 DEF AppliedRecords
  <2>3. apply'[u] = IF a.at = "idle" THEN a ELSE b
    BY DEF ResetRegionCache, MarkOverlap
  <2> HIDE DEF b
  <2>4. CASE a.at = "idle"
    BY <2>1, <2>3, <2>4
  <2>5. CASE a.at # "idle"
    BY <2>2, <2>3, <2>5
  <2> QED BY <2>4, <2>5
<1>3. AppliedTyped'
  <2>1. apply' \in [Appliers -> AppliedRecords]
    BY <1>2 DEF ResetRegionCache, MarkOverlap
  <2>2. region_state + 1 \in States /\ region_state + 1 # Null
    BY <1>1, UpdatesAssumption DEF ResetRegionCache, AppliedTyped, States, Null
  <2>3. NoConverter \in RegionConverters /\ NoConverter.id = 0
    BY DEF NoConverter, RegionConverters, Null
  <2>4. /\ update' = [state |-> region_state + 1, at |-> "reset"]
        /\ lcregion' = Null /\ lcregion_set' = FALSE /\ converter' = NoConverter
        /\ leftover' = FALSE /\ spent' = FALSE
        /\ UNCHANGED <<shape, region_state, converters, freed>>
    BY DEF ResetRegionCache
  <2>5. /\ update' \in [state : States \cup {Null}, at : {"idle", "reset"}]
        /\ update'.at = "reset" => update'.state # Null
    BY <2>2, <2>4
  <2>6. converter' \in RegionConverters /\ converter'.id <= converters'
    BY <1>1, <2>3, <2>4 DEF AppliedTyped
  <2>7. /\ shape' \in {"ellipse", "rotbox", "point"} /\ region_state' \in States
        /\ lcregion' \in States \cup {Null} /\ lcregion_set' \in BOOLEAN /\ converters' \in Nat
        /\ leftover' \in BOOLEAN /\ spent' \in BOOLEAN /\ freed' \in BOOLEAN
    BY <1>1, <2>4 DEF AppliedTyped
  <2> QED BY <2>1, <2>5, <2>6, <2>7 DEF AppliedTyped
<1>4. UpdateOverlaps'
  BY <1>2 DEF UpdateOverlaps
<1>5. (CachesFollow /\ ConverterWhole /\ Attempted)'
  BY DEF ResetRegionCache, CachesFollow, ConverterWhole, Attempted, NoConverter, Null
<1>6. ApplySteps'
  BY <1>1, <1>2 DEF ApplySteps, ResetRegionCache
<1>7. RacersKnown'
  BY <1>1, <1>2 DEF RacersKnown, Busy
<1>8. (AppliedRegionCurrent /\ RegionInsideIsFound)'
  BY <1>2 DEF AppliedRegionCurrent, RegionInsideIsFound
<1> QED BY <1>3, <1>4, <1>5, <1>6, <1>7, <1>8 DEF AppliedIInv

\* The new state is set while every task that is not idle overlaps.
LEMMA SetStateStep == ASSUME AppliedIInv, SetRegionState PROVE AppliedIInv'
<1> USE DEF AppliedIInv
<1>1. \A u \in Appliers : apply[u].at = "idle" \/ apply[u].overlap
  BY DEF UpdateOverlaps, SetRegionState
<1>2. AppliedTyped'
  BY DEF AppliedTyped, SetRegionState
<1>3. (UpdateOverlaps /\ ConverterWhole /\ RacersKnown)'
  BY DEF SetRegionState, UpdateOverlaps, ConverterWhole, RacersKnown, Busy
<1>4. CachesFollow'
  BY DEF SetRegionState, CachesFollow
<1>5. ApplySteps'
  BY <1>1 DEF SetRegionState, ApplySteps
<1>6. Attempted'
  BY DEF SetRegionState, Attempted, CachesFollow
<1>7. (AppliedRegionCurrent /\ RegionInsideIsFound)'
  BY <1>1 DEF SetRegionState, AppliedRegionCurrent, RegionInsideIsFound
<1> QED BY <1>2, <1>3, <1>4, <1>5, <1>6, <1>7

-----------------------------------------------------------------------------
LEMMA ApplyStart ==
    ASSUME AppliedIInv, NEW t \in Appliers, NEW file \in {"reference", "matched"},
           NEW original \in BOOLEAN, GetImageRegion(t, file, original)
    PROVE  AppliedIInv'
<1>1. AppliedTyped /\ UpdateOverlaps /\ CachesFollow /\ ConverterWhole /\ ApplySteps
      /\ RacersKnown /\ Attempted /\ AppliedRegionCurrent /\ RegionInsideIsFound
  BY DEF AppliedIInv
<1> DEFINE first == IF file = "reference" THEN "cached" ELSE "convert"
           overlapping == update.at # "idle"
           race == \E v \in Appliers \ {t} : Busy(v)
           a == [at |-> first, file |-> file, original |-> original, result |-> Null,
                 converter |-> Null, overlap |-> overlapping, raced |-> race]
<1>2. apply'[t] = a
  BY Zenon DEF GetImageRegion, NoApply
<1>3. a \in AppliedRecords
  <2>1. first \in AppliedPlaces /\ overlapping \in BOOLEAN /\ race \in BOOLEAN
    BY DEF AppliedPlaces
  <2> HIDE DEF first, overlapping, race
  <2> QED BY <2>1 DEF AppliedRecords, Null
<1>4. /\ a.at = first /\ a.file = file /\ a.result = Null
      /\ (a.overlap <=> overlapping) /\ (a.raced <=> race)
  <2> HIDE DEF first, overlapping, race
  <2> QED BY Zenon
<1>5. \A u \in Appliers \ {t} :
         /\ apply'[u] \in AppliedRecords
         /\ apply'[u].at = apply[u].at /\ apply'[u].file = apply[u].file
         /\ apply'[u].original = apply[u].original /\ apply'[u].result = apply[u].result
         /\ apply'[u].converter = apply[u].converter /\ apply'[u].overlap = apply[u].overlap
         /\ (apply'[u].raced <=> (apply[u].raced \/ Busy(u)))
  <2> SUFFICES ASSUME NEW u \in Appliers \ {t}
               PROVE  /\ apply'[u] \in AppliedRecords
                      /\ apply'[u].at = apply[u].at /\ apply'[u].file = apply[u].file
                      /\ apply'[u].original = apply[u].original /\ apply'[u].result = apply[u].result
                      /\ apply'[u].converter = apply[u].converter /\ apply'[u].overlap = apply[u].overlap
                      /\ (apply'[u].raced <=> (apply[u].raced \/ Busy(u)))
    OBVIOUS
  <2> DEFINE b == apply[u]
             raced == b.raced \/ Busy(u)
             c == [b EXCEPT !.raced = raced]
  <2>1. b \in AppliedRecords
    BY <1>1 DEF AppliedTyped
  <2>2. apply'[u] = c
    BY Zenon DEF GetImageRegion
  <2>3. raced \in BOOLEAN
    OBVIOUS
  <2>4. /\ c \in AppliedRecords
        /\ c.at = b.at /\ c.file = b.file /\ c.original = b.original /\ c.result = b.result
        /\ c.converter = b.converter /\ c.overlap = b.overlap /\ c.raced = raced
    <3> HIDE DEF b, raced
    <3> QED BY <2>1, <2>3, SMTT(30) DEF AppliedRecords
  <2> HIDE DEF c
  <2> QED BY <2>2, <2>4
<1> HIDE DEF a
<1>6. apply' \in [Appliers -> AppliedRecords]
  BY <1>2, <1>3, <1>5, Zenon DEF GetImageRegion
<1>7. UNCHANGED <<shape, region_state, update, lcregion, lcregion_set, converter, converters,
                  leftover, spent, freed>>
  BY Zenon DEF GetImageRegion, KeepRegion
<1>8. AppliedTyped'
  BY <1>1, <1>6, <1>7 DEF AppliedTyped
<1>9. UpdateOverlaps'
  BY <1>1, <1>2, <1>4, <1>5, <1>7 DEF UpdateOverlaps
<1>10. (CachesFollow /\ ConverterWhole)'
  BY <1>1, <1>7 DEF CachesFollow, ConverterWhole
<1>11. ApplySteps'
  <2>1. \A u \in Appliers \ {t} :
          /\ apply'[u].at \in {"cached", "test", "record", "keep"} => apply'[u].file = "reference"
          /\ apply'[u].at \in {"convert", "make", "using"} => apply'[u].file = "matched"
          /\ apply'[u].at = "using" => apply'[u].converter # Null
          /\ apply'[u].at = "keep" /\ ~apply'[u].overlap => apply'[u].result = InImage(region_state)
          /\ apply'[u].at = "test" /\ apply'[u].original /\ ~apply'[u].raced => lcregion = Null
    BY <1>1, <1>5 DEF ApplySteps
  <2>2. /\ apply'[t].at \in {"cached", "convert"} /\ apply'[t].file = file
        /\ apply'[t].at = "cached" => file = "reference"
        /\ apply'[t].at = "convert" => file = "matched"
    BY <1>2, <1>4
  <2> QED BY <2>1, <2>2, <1>7 DEF ApplySteps, InImage
<1>12. RacersKnown'
  <2>1. \A u \in Appliers : Busy(u)' => u = t \/ Busy(u)
    BY <1>5 DEF Busy
  <2>2. \A u \in Appliers \ {t} : Busy(u)' => apply'[u].raced
    BY <1>5, <2>1
  <2>3. \A v \in Appliers : v # t /\ Busy(v)' => apply'[t].raced
    BY <1>2, <1>4, <2>1
  <2> QED BY <2>2, <2>3 DEF RacersKnown
<1>13. Attempted'
  <2>1. ~Busy(t)
    BY Zenon DEF GetImageRegion
  <2>2. CASE \E u \in Appliers : /\ apply[u].at = "keep" /\ apply[u].original
                                 /\ ~apply[u].overlap /\ apply[u].result # Null
    BY <2>1, <2>2, <1>5 DEF Attempted, Busy
  <2> QED BY <2>2, <1>1, <1>7 DEF Attempted
<1>14. AppliedRegionCurrent'
  BY <1>1, <1>2, <1>4, <1>5, <1>7 DEF AppliedRegionCurrent
<1>15. RegionInsideIsFound'
  <2>1. apply'[t].at # "done"
    BY <1>2, <1>4
  <2>2. \A u \in Appliers \ {t} :
          (apply'[u].at = "done" /\ apply'[u].result = Null /\ ~apply'[u].overlap) =>
            \/ region_state \in Outside
            \/ apply'[u].raced \/ leftover
            \/ shape = "point" /\ apply'[u].file = "matched"
            \/ apply'[u].file = "reference" /\ (spent \/ ~apply'[u].original)
    BY <1>1, <1>5 DEF RegionInsideIsFound
  <2> QED BY <2>1, <2>2, <1>7 DEF RegionInsideIsFound
<1> QED BY <1>8, <1>9, <1>10, <1>11, <1>12, <1>13, <1>14, <1>15 DEF AppliedIInv

-----------------------------------------------------------------------------
LEMMA CachedStep == ASSUME AppliedIInv, NEW t \in Appliers, GetCachedLCRegion(t) PROVE AppliedIInv'
<1>1. AppliedTyped /\ UpdateOverlaps /\ CachesFollow /\ ConverterWhole /\ ApplySteps
      /\ RacersKnown /\ Attempted /\ AppliedRegionCurrent /\ RegionInsideIsFound
  BY DEF AppliedIInv
<1>2. /\ apply[t].at = "cached" /\ Busy(t)
      /\ UNCHANGED <<shape, region_state, update, lcregion, lcregion_set, converter, converters,
                     leftover, spent, freed>>
  BY DEF GetCachedLCRegion, KeepRegion, Busy
<1>3. \/ ApplyMoves(t, "done", lcregion, apply[t].converter) /\ lcregion # Null
      \/ ApplyMoves(t, "test", apply[t].result, apply[t].converter) /\ (lcregion = Null \/ ~apply[t].original)
  BY <1>1, GotoMoves, ResultMoves DEF GetCachedLCRegion, Return, ApplyGoto, AppliedPlaces, AppliedTyped
<1>4. (UpdateOverlaps /\ RacersKnown)'
  BY <1>2, <1>3, MovesKeep DEF AppliedPlaces
<1>5. AppliedTyped'
  BY <1>1, <1>2, <1>3 DEF AppliedTyped, ApplyMoves
<1>6. (CachesFollow /\ ConverterWhole)'
  BY <1>1, <1>2 DEF CachesFollow, ConverterWhole
<1>7. ApplySteps'
  BY <1>1, <1>2, <1>3 DEF ApplySteps, ApplyMoves, InImage
<1>8. Attempted'
  BY <1>1, <1>2, <1>3 DEF Attempted, ApplyMoves
<1>9. AppliedRegionCurrent'
  BY <1>1, <1>2, <1>3 DEF AppliedRegionCurrent, ApplyMoves, CachesFollow
<1>10. RegionInsideIsFound'
  BY <1>1, <1>2, <1>3 DEF RegionInsideIsFound, ApplyMoves
<1> QED BY <1>4, <1>5, <1>6, <1>7, <1>8, <1>9, <1>10 DEF AppliedIInv

\* The attempt was made: the region is outside the image, or the task was raced.
LEMMA TestStep == ASSUME AppliedIInv, NEW t \in Appliers, TestSet(t) PROVE AppliedIInv'
<1>1. AppliedTyped /\ UpdateOverlaps /\ CachesFollow /\ ConverterWhole /\ ApplySteps
      /\ RacersKnown /\ Attempted /\ AppliedRegionCurrent /\ RegionInsideIsFound
  BY DEF AppliedIInv
<1>2. /\ apply[t].at = "test" /\ Busy(t)
      /\ UNCHANGED <<shape, region_state, update, lcregion, lcregion_set, converter, converters,
                     leftover, spent, freed>>
  BY DEF TestSet, KeepRegion, Busy
<1>3. \/ ApplyMoves(t, "done", Null, apply[t].converter) /\ lcregion_set
      \/ ApplyMoves(t, "record", apply[t].result, apply[t].converter)
  <2>1. Null \in States \cup {Null}
    OBVIOUS
  <2> QED BY <1>1, <2>1, GotoMoves, ResultMoves DEF TestSet, Return, ApplyGoto, AppliedPlaces
<1>4. (UpdateOverlaps /\ RacersKnown)'
  BY <1>2, <1>3, MovesKeep DEF AppliedPlaces
<1>5. AppliedTyped'
  BY <1>1, <1>2, <1>3 DEF AppliedTyped, ApplyMoves
<1>6. (CachesFollow /\ ConverterWhole)'
  BY <1>1, <1>2 DEF CachesFollow, ConverterWhole
<1>7. ApplySteps'
  BY <1>1, <1>2, <1>3 DEF ApplySteps, ApplyMoves, InImage
<1>8. Attempted'
  BY <1>1, <1>2, <1>3 DEF Attempted, ApplyMoves
<1>9. AppliedRegionCurrent'
  BY <1>1, <1>2, <1>3 DEF AppliedRegionCurrent, ApplyMoves, CachesFollow
<1>10. RegionInsideIsFound'
  <2>1. \A u \in Appliers : (u # t /\ apply[u].at = "keep") => apply[t].raced
    BY <1>1, <1>2 DEF RacersKnown, Busy
  <2>2. (lcregion_set /\ apply[t].original /\ ~apply[t].raced) =>
            leftover \/ spent \/ region_state \in Outside
    BY <1>1, <1>2, <2>1 DEF Attempted, ApplySteps
  <2>3. apply[t].file = "reference"
    BY <1>1, <1>2 DEF ApplySteps
  <2> QED BY <1>1, <1>2, <1>3, <2>2, <2>3 DEF RegionInsideIsFound, ApplyMoves
<1> QED BY <1>4, <1>5, <1>6, <1>7, <1>8, <1>9, <1>10 DEF AppliedIInv

LEMMA MakeRegionStep == ASSUME AppliedIInv, NEW t \in Appliers, MakeLCRegion(t) PROVE AppliedIInv'
<1>1. AppliedTyped /\ UpdateOverlaps /\ CachesFollow /\ ConverterWhole /\ ApplySteps
      /\ RacersKnown /\ Attempted /\ AppliedRegionCurrent /\ RegionInsideIsFound
  BY DEF AppliedIInv
<1> DEFINE made == InImage(region_state)
<1>2. /\ apply[t].at = "record" /\ Busy(t) /\ lcregion_set' = TRUE
      /\ spent' = (spent \/ ~apply[t].original) /\ leftover' = (leftover \/ apply[t].overlap)
      /\ UNCHANGED <<shape, region_state, update, lcregion, converter, converters, freed>>
  BY DEF MakeLCRegion, KeepRegion, Busy
<1>3. ApplyMoves(t, "keep", made, apply[t].converter)
  <2>1. made \in States \cup {Null}
    BY <1>1 DEF InImage, AppliedTyped
  <2> HIDE DEF made
  <2> QED BY <1>1, <2>1, ResultMoves DEF MakeLCRegion, AppliedPlaces, made
<1>4. (UpdateOverlaps /\ RacersKnown)'
  BY <1>2, <1>3, MovesKeep DEF AppliedPlaces
<1>5. AppliedTyped'
  BY <1>1, <1>2, <1>3 DEF AppliedTyped, ApplyMoves
<1>6. (CachesFollow /\ ConverterWhole)'
  BY <1>1, <1>2 DEF CachesFollow, ConverterWhole, UpdateOverlaps
<1>7. ApplySteps'
  BY <1>1, <1>2, <1>3 DEF ApplySteps, ApplyMoves, InImage
<1>8. Attempted'
  <2>1. CASE apply[t].overlap \/ ~apply[t].original \/ region_state \in Outside
    BY <1>2, <2>1 DEF Attempted
  <2>2. CASE ~(apply[t].overlap \/ ~apply[t].original \/ region_state \in Outside)
    <3>1. made = region_state /\ region_state # Null
      BY <1>1, <2>2, UpdatesAssumption DEF InImage, AppliedTyped, States, Null
    <3>2. /\ apply'[t].at = "keep" /\ apply'[t].original /\ ~apply'[t].overlap /\ apply'[t].result # Null
      BY <1>3, <2>2, <3>1 DEF ApplyMoves
    <3> QED BY <3>2 DEF Attempted
  <2> QED BY <2>1, <2>2
<1>9. AppliedRegionCurrent'
  BY <1>1, <1>2, <1>3 DEF AppliedRegionCurrent, ApplyMoves
<1>10. RegionInsideIsFound'
  BY <1>1, <1>2, <1>3 DEF RegionInsideIsFound, ApplyMoves
<1> QED BY <1>4, <1>5, <1>6, <1>7, <1>8, <1>9, <1>10 DEF AppliedIInv

LEMMA CacheRegionStep == ASSUME AppliedIInv, NEW t \in Appliers, CacheLCRegion(t) PROVE AppliedIInv'
<1>1. AppliedTyped /\ UpdateOverlaps /\ CachesFollow /\ ConverterWhole /\ ApplySteps
      /\ RacersKnown /\ Attempted /\ AppliedRegionCurrent /\ RegionInsideIsFound
  BY DEF AppliedIInv
<1>2. /\ apply[t].at = "keep" /\ Busy(t)
      /\ UNCHANGED <<shape, region_state, update, lcregion_set, converter, converters, spent, freed>>
  BY DEF CacheLCRegion, KeepRegion, Busy
<1>3. ApplyMoves(t, "done", apply[t].result, apply[t].converter)
  BY <1>1, GotoMoves DEF CacheLCRegion, ApplyGoto, AppliedPlaces
<1>4. \/ /\ apply[t].result # Null /\ apply[t].original /\ lcregion' = apply[t].result
         /\ leftover' = (leftover \/ apply[t].overlap)
      \/ ~(apply[t].result # Null /\ apply[t].original) /\ UNCHANGED <<lcregion, leftover>>
  BY DEF CacheLCRegion
<1>5. (UpdateOverlaps /\ RacersKnown)'
  BY <1>2, <1>3, MovesKeep DEF AppliedPlaces
<1>6. AppliedTyped'
  BY <1>1, <1>2, <1>3, <1>4 DEF AppliedTyped, ApplyMoves, AppliedRecords
<1>7. ~apply[t].overlap => apply[t].result = InImage(region_state) /\ update.at = "idle"
  BY <1>1, <1>2 DEF ApplySteps, UpdateOverlaps
<1>8. (CachesFollow /\ ConverterWhole)'
  BY <1>1, <1>2, <1>4, <1>7 DEF CachesFollow, ConverterWhole, InImage
<1>9. ApplySteps'
  <2>1. \A u \in Appliers : u # t /\ Busy(u) => apply[u].raced
    BY <1>1, <1>2 DEF RacersKnown
  <2> QED BY <1>1, <1>2, <1>3, <1>4, <2>1, SMTT(30) DEF ApplySteps, ApplyMoves, InImage, Busy
<1>10. Attempted'
  BY <1>1, <1>2, <1>3, <1>4 DEF Attempted, ApplyMoves
<1>11. AppliedRegionCurrent'
  <2>1. leftover => leftover'
    BY <1>4
  <2>2. \A u \in Appliers : u # t => apply'[u] = apply[u]
    BY <1>3 DEF ApplyMoves
  <2>3. /\ apply'[t].result = apply[t].result
        /\ apply[t].result # Null /\ ~apply'[t].overlap => apply[t].result = region_state
    BY <1>3, <1>7 DEF ApplyMoves, InImage
  <2> QED BY <1>1, <1>2, <2>1, <2>2, <2>3 DEF AppliedRegionCurrent
<1>12. RegionInsideIsFound'
  BY <1>1, <1>2, <1>3, <1>4, <1>7, UpdatesAssumption
     DEF RegionInsideIsFound, ApplyMoves, InImage, AppliedTyped, States, Null
<1> QED BY <1>5, <1>6, <1>8, <1>9, <1>10, <1>11, <1>12 DEF AppliedIInv

-----------------------------------------------------------------------------
LEMMA UseStep == ASSUME AppliedIInv, NEW t \in Appliers, UseConverter(t) PROVE AppliedIInv'
<1>1. AppliedTyped /\ UpdateOverlaps /\ CachesFollow /\ ConverterWhole /\ ApplySteps
      /\ RacersKnown /\ Attempted /\ AppliedRegionCurrent /\ RegionInsideIsFound
  BY DEF AppliedIInv
<1>2. /\ apply[t].at = "convert" /\ Busy(t)
      /\ UNCHANGED <<shape, region_state, update, lcregion, lcregion_set, converter, converters,
                     leftover, spent, freed>>
  BY DEF UseConverter, KeepRegion, Busy
<1>3. \/ ApplyMoves(t, "using", apply[t].result, converter.id) /\ converter.id # Null
      \/ ApplyMoves(t, "make", apply[t].result, apply[t].converter)
  <2>1. converter.id \in Nat
    BY <1>1 DEF AppliedTyped, RegionConverters
  <2> QED BY <1>1, <2>1, GotoMoves, ConverterMoves DEF UseConverter, ApplyGoto, AppliedPlaces
<1>4. (UpdateOverlaps /\ RacersKnown)'
  BY <1>2, <1>3, MovesKeep DEF AppliedPlaces
<1>5. AppliedTyped'
  BY <1>1, <1>2, <1>3 DEF AppliedTyped, ApplyMoves
<1>6. (CachesFollow /\ ConverterWhole)'
  BY <1>1, <1>2 DEF CachesFollow, ConverterWhole
<1>7. ApplySteps'
  BY <1>1, <1>2, <1>3 DEF ApplySteps, ApplyMoves, InImage
<1>8. Attempted'
  BY <1>1, <1>2, <1>3 DEF Attempted, ApplyMoves
<1>9. AppliedRegionCurrent'
  BY <1>1, <1>2, <1>3 DEF AppliedRegionCurrent, ApplyMoves
<1>10. RegionInsideIsFound'
  BY <1>1, <1>2, <1>3 DEF RegionInsideIsFound, ApplyMoves
<1> QED BY <1>4, <1>5, <1>6, <1>7, <1>8, <1>9, <1>10 DEF AppliedIInv

\* A converter that a task makes outside an update is of the region's state.
LEMMA MakeConverterStep == ASSUME AppliedIInv, NEW t \in Appliers, MakeConverter(t) PROVE AppliedIInv'
<1>1. AppliedTyped /\ UpdateOverlaps /\ CachesFollow /\ ConverterWhole /\ ApplySteps
      /\ RacersKnown /\ Attempted /\ AppliedRegionCurrent /\ RegionInsideIsFound
  BY DEF AppliedIInv
<1> DEFINE n == converters + 1
<1>2. /\ apply[t].at = "make" /\ Busy(t) /\ converters' = n
      /\ leftover' = (leftover \/ apply[t].overlap)
      /\ UNCHANGED <<shape, region_state, update, lcregion, lcregion_set, spent, freed>>
  BY DEF MakeConverter, KeepRegion, Busy
<1>3. n \in Nat /\ n # Null
  BY <1>1 DEF AppliedTyped, Null
<1>4. converter' = [id |-> n, state |-> region_state, converted |-> Null, polygon |-> Null]
  BY DEF MakeConverter, NoConverter
<1>5. ApplyMoves(t, "using", apply[t].result, n)
  BY <1>1, <1>3, ConverterMoves DEF MakeConverter, AppliedPlaces
<1> HIDE DEF n
<1>6. (UpdateOverlaps /\ RacersKnown)'
  BY <1>2, <1>5, MovesKeep DEF AppliedPlaces
<1>7. AppliedTyped'
  <2>1. region_state \in States
    BY <1>1 DEF AppliedTyped
  <2>2. converter' \in RegionConverters /\ converter'.id = n
    BY <1>3, <1>4, <2>1 DEF RegionConverters
  <2>3. converters' \in Nat /\ converter'.id <= converters' /\ leftover' \in BOOLEAN
    BY <1>1, <1>2, <1>3, <2>2 DEF AppliedTyped
  <2> QED BY <1>1, <1>2, <1>5, <2>2, <2>3 DEF AppliedTyped, ApplyMoves
<1>8. ConverterWhole'
  BY <1>1, <1>3, <1>4, UpdatesAssumption DEF ConverterWhole, AppliedTyped, States, Null
<1>9. CachesFollow'
  BY <1>1, <1>2, <1>4 DEF CachesFollow, UpdateOverlaps
<1>10. ApplySteps'
  BY <1>1, <1>2, <1>3, <1>5 DEF ApplySteps, ApplyMoves, InImage
<1>11. Attempted'
  BY <1>1, <1>2, <1>5 DEF Attempted, ApplyMoves
<1>12. AppliedRegionCurrent'
  BY <1>1, <1>2, <1>5 DEF AppliedRegionCurrent, ApplyMoves
<1>13. RegionInsideIsFound'
  BY <1>1, <1>2, <1>5 DEF RegionInsideIsFound, ApplyMoves
<1> QED BY <1>6, <1>7, <1>8, <1>9, <1>10, <1>11, <1>12, <1>13 DEF AppliedIInv

\* What a converter finds is of its state.
LEMMA ConvertStep == ASSUME AppliedIInv, NEW t \in Appliers, Convert(t) PROVE AppliedIInv'
<1>1. AppliedTyped /\ UpdateOverlaps /\ CachesFollow /\ ConverterWhole /\ ApplySteps
      /\ RacersKnown /\ Attempted /\ AppliedRegionCurrent /\ RegionInsideIsFound
  BY DEF AppliedIInv
<1> DEFINE known == IF converter.converted # Null THEN converter.converted ELSE converter.polygon
           made == ConvertedRegion(converter.state)
<1>2. /\ apply[t].at = "using" /\ Busy(t)
      /\ UNCHANGED <<shape, region_state, update, lcregion, lcregion_set, converters, leftover, spent>>
  BY DEF Convert, KeepRegion, Busy
<1>3. CASE converter.id # apply[t].converter
  <2>1. UNCHANGED <<apply, converter>> /\ freed' = TRUE
    BY <1>3 DEF Convert
  <2>2. AppliedTyped'
    BY <1>1, <1>2, <2>1 DEF AppliedTyped
  <2>3. (UpdateOverlaps /\ CachesFollow /\ ConverterWhole /\ RacersKnown /\ Attempted)'
    BY <1>1, <1>2, <2>1 DEF UpdateOverlaps, CachesFollow, ConverterWhole, RacersKnown, Attempted, Busy
  <2>4. (ApplySteps /\ AppliedRegionCurrent /\ RegionInsideIsFound)'
    BY <1>1, <1>2, <2>1 DEF ApplySteps, AppliedRegionCurrent, RegionInsideIsFound, InImage
  <2> QED BY <2>2, <2>3, <2>4 DEF AppliedIInv
<1>4. CASE converter.id = apply[t].converter
  <2>1. converter.id # Null /\ converter.state \in States /\ converter.state # Null
        /\ apply[t].file = "matched"
    BY <1>1, <1>2, <1>4 DEF ApplySteps, ConverterWhole, AppliedTyped, RegionConverters
  <2>2. known \in {Null, converter.state}
    BY <1>1 DEF ConverterWhole
  <2>3. /\ made \in {Null, converter.state}
        /\ made = Null => shape = "point" \/ converter.state \in Outside
    BY <2>1 DEF ConvertedRegion, HasPolygonPoints, InImage
  <2>4. /\ freed' = freed
        /\ \/ known # Null /\ Return(t, known) /\ UNCHANGED converter
           \/ /\ Return(t, made)
              /\ \/ UNCHANGED converter
                 \/ converter' = [converter EXCEPT !.converted = made]
                 \/ converter' = [converter EXCEPT !.polygon = made]
    BY <1>4, Zenon DEF Convert
  <2> HIDE DEF known, made
  <2>5. PICK r \in States \cup {Null} :
           /\ ApplyMoves(t, "done", r, apply[t].converter)
           /\ r \in {Null, converter.state}
           /\ r = Null => shape = "point" \/ converter.state \in Outside
    <3>1. "done" \in AppliedPlaces /\ known \in States \cup {Null} /\ made \in States \cup {Null}
      BY <2>1, <2>2, <2>3 DEF AppliedPlaces
    <3> QED BY <1>1, <2>2, <2>3, <2>4, <3>1, ResultMoves DEF Return
  <2>6. /\ converter' \in RegionConverters
        /\ converter'.id = converter.id /\ converter'.state = converter.state
        /\ {converter'.converted, converter'.polygon} \subseteq {Null, converter.state}
    <3>1. /\ converter \in RegionConverters /\ made \in States \cup {Null}
          /\ {converter.converted, converter.polygon} \subseteq {Null, converter.state}
      BY <1>1, <2>1, <2>3 DEF AppliedTyped, ConverterWhole
    <3>2. CASE UNCHANGED converter
      BY <3>1, <3>2
    <3>3. CASE converter' = [converter EXCEPT !.converted = made]
      BY <3>1, <3>3, <2>3 DEF RegionConverters
    <3>4. CASE converter' = [converter EXCEPT !.polygon = made]
      BY <3>1, <3>4, <2>3 DEF RegionConverters
    <3> QED BY <2>4, <3>2, <3>3, <3>4
  <2>7. leftover \/ converter.state = region_state
    BY <1>1, <2>1 DEF CachesFollow
  <2>8. (UpdateOverlaps /\ RacersKnown)'
    BY <1>2, <2>5, MovesKeep DEF AppliedPlaces
  <2>9. AppliedTyped'
    BY <1>1, <1>2, <2>4, <2>5, <2>6 DEF AppliedTyped, ApplyMoves
  <2>10. CachesFollow'
    BY <1>1, <1>2, <2>6 DEF CachesFollow
  <2>11. ConverterWhole'
    BY <2>1, <2>6 DEF ConverterWhole
  <2>12. ApplySteps'
    BY <1>1, <1>2, <2>5 DEF ApplySteps, ApplyMoves, InImage
  <2>13. Attempted'
    BY <1>1, <1>2, <2>5 DEF Attempted, ApplyMoves
  <2>14. AppliedRegionCurrent'
    BY <1>1, <1>2, <2>5, <2>7 DEF AppliedRegionCurrent, ApplyMoves
  <2>15. RegionInsideIsFound'
    BY <1>1, <1>2, <2>1, <2>5, <2>7 DEF RegionInsideIsFound, ApplyMoves
  <2> QED BY <2>8, <2>9, <2>10, <2>11, <2>12, <2>13, <2>14, <2>15 DEF AppliedIInv
<1> QED BY <1>3, <1>4

-----------------------------------------------------------------------------
\* The conjunction holds in every state of a Region, however many tasks apply
\* it while it is updated.
THEOREM AppliedInductive == RegionAppliedSpec => []AppliedIInv
<1>1. AppliedIInv /\ [RegionAppliedNext]_appliedVars => AppliedIInv'
  <2> SUFFICES ASSUME AppliedIInv, [RegionAppliedNext]_appliedVars
               PROVE  AppliedIInv'
    OBVIOUS
  <2>1. CASE UNCHANGED appliedVars
    <3>1. (AppliedTyped /\ UpdateOverlaps /\ CachesFollow /\ ConverterWhole)'
      BY <2>1 DEF appliedVars, AppliedIInv, AppliedTyped, UpdateOverlaps, CachesFollow, ConverterWhole
    <3>2. (ApplySteps /\ RacersKnown /\ Attempted /\ AppliedRegionCurrent /\ RegionInsideIsFound)'
      BY <2>1 DEF appliedVars, AppliedIInv, ApplySteps, RacersKnown, Busy, Attempted, InImage,
                  AppliedRegionCurrent, RegionInsideIsFound
    <3> QED BY <3>1, <3>2 DEF AppliedIInv
  <2>2. CASE RegionAppliedNext
    BY <2>2, ResetStep, SetStateStep, ApplyStart, CachedStep, TestStep, MakeRegionStep, CacheRegionStep,
       UseStep, MakeConverterStep, ConvertStep DEF RegionAppliedNext, Apply
  <2> QED
    BY <2>1, <2>2
<1> QED
  BY <1>1, AppliedInitOK, PTL DEF RegionAppliedSpec

\* The variables of a Region have their types.
THEOREM AppliedTypeCorrect == RegionAppliedSpec => []RegionAppliedTypeOK
<1>1. AppliedIInv => RegionAppliedTypeOK
  <2> SUFFICES ASSUME AppliedIInv PROVE RegionAppliedTypeOK
    OBVIOUS
  <2>1. AppliedTyped
    BY DEF AppliedIInv
  <2>2. converter.id \in 0..converters
    BY <2>1 DEF AppliedTyped, RegionConverters
  <2>3. {converter.state, converter.converted, converter.polygon} \subseteq States \cup {Null}
    BY <2>1 DEF AppliedTyped, RegionConverters
  <2>4. \A t \in Appliers : apply[t].result \in States \cup {Null}
    BY <2>1 DEF AppliedTyped, AppliedRecords
  <2> QED BY <2>1, <2>2, <2>3, <2>4 DEF AppliedTyped, RegionAppliedTypeOK
<1> QED
  BY <1>1, AppliedInductive, PTL

\* Region::GetImageRegion gives a lattice region of the region as it is, and
\* gives one when the region is in the image, outside updates and races.
THEOREM AppliedRegionsAreRight == RegionAppliedSpec => []RegionAppliedCorrect
  BY AppliedInductive, PTL DEF AppliedIInv, RegionAppliedCorrect

-----------------------------------------------------------------------------
(***************************************************************************)
(* Proofs about Regions, for any shapes, statistics, tasks and number of   *)
(* Region objects and messages.                                            *)
(*                                                                         *)
(* The main thread changes a region in several accesses to its state, and  *)
(* the tasks read it in several.  The proof says for every point between   *)
(* them what main thread and task know there (MainKnows, TasksNamed,       *)
(* ObjectsHeld, TasksCurrent), what the caches may hold (CachesCurrent),   *)
(* and which task owes a statistic that is required and was not sent       *)
(* (ProfilesOwed).  Two lemmas, WorkStep and the Stay ones, say what a step *)
(* of a task and one of the main thread owe this conjunction; each action  *)
(* is shown to pay it.                                                     *)
(***************************************************************************)

TaskPlaces == {"free", "start", "check", "get", "at", "lock", "locked", "apply", "initial",
               "calculate", "send", "store", "value", "keep"}
Todos == {<< >>, <<"spectral", "histogram", "stats">>, <<"histogram", "stats">>, <<"stats">>,
          <<"spectral">>, <<"histogram">>, <<"require", "stats">>, <<"require", "histogram">>}
TaskRecords == [id : 0..MaxObjects, todo : Todos, at : TaskPlaces, need : SUBSET Stats,
                obj : 0..MaxObjects, of : Results, initial : Results, overlap : BOOLEAN, tardy : BOOLEAN]

RegionsTyped ==
    /\ regions \in [Ids -> 0..MaxObjects] /\ created \in 0..MaxObjects
    /\ object \in [1..MaxObjects -> [points : Points \cup {Nothing}, connected : BOOLEAN]]
    /\ region_frame \in {"open", "closing", "gone"}
    /\ spectral_req \in [Ids -> [all : SUBSET Stats, new : SUBSET Stats]]
    /\ value_req \in [Values -> SUBSET Ids]
    /\ spectral_cache \in [Ids -> Results]
    /\ value_cache \in [Values -> [Ids -> Results]]
    /\ task \in [RegionTasks -> TaskRecords]
    /\ main \in [at : {"idle", "renew", "clear", "stream", "erase", "purge", "close"}, id : 0..MaxObjects]
    /\ messages \in 0..MaxRegionMessages
    /\ profile_sent \in [Ids -> [Stats -> Results]]
    /\ stale \subseteq Ids /\ unsent \subseteq Ids /\ terminated \in BOOLEAN

\* What the main thread found when it received the message it works on.
MainKnows ==
    /\ main.at \in {"idle", "close"} <=> main.id = 0
    /\ main.at \in {"renew", "clear", "stream"} => RegionSet(main.id)
    /\ main.at = "clear" => spectral_req[main.id].new = spectral_req[main.id].all
    /\ main.at = "erase" => regions[main.id] # 0 /\ ~object[regions[main.id]].connected
    /\ main.at = "purge" => regions[main.id] = 0
    /\ main.at = "close" => region_frame # "open"

\* An object is the region of one id.
ObjectsOwned ==
    /\ \A i \in Ids : regions[i] <= created
    /\ \A i, j \in Ids : (regions[i] = regions[j] /\ regions[i] # 0) => i = j

\* A task that is not idle has an id and parts to do, and nothing else between
\* the parts.
TasksNamed ==
    \A t \in RegionTasks :
        /\ task[t].at # "free" => task[t].id \in Ids /\ task[t].todo # << >>
        /\ task[t].at \in {"check", "get", "at", "lock", "locked", "apply", "initial",
                           "calculate", "send", "store"} => Part(t) = "spectral"
        /\ task[t].at \in {"value", "keep"} => Part(t) \in Values

\* The object a task got is that of its id as long as it is connected, and until
\* the task lets go of its mutex if it was connected when it was locked.
ObjectsHeld ==
    \A t \in RegionTasks : task[t].at \in Locked \cup {"lock"} =>
        /\ task[t].obj \in 1..created
        /\ \A i \in Ids : regions[i] = task[t].obj => i = task[t].id
        /\ \/ task[t].at = "lock" /\ ~object[task[t].obj].connected
           \/ task[t].at # "lock" /\ task[t].tardy
           \/ regions[task[t].id] = task[t].obj

\* A task that does not overlap with a change works for the region as it is.
TasksCurrent ==
    \A t \in RegionTasks : (task[t].at \in {"value", "keep", "send", "store"} /\ ~task[t].overlap) =>
        /\ RegionFileIdsValid(task[t].id)
        /\ task[t].at # "value" => task[t].of = PointsOf(task[t].id)

HoldsOnly(id, results) ==
    spectral_cache[id] \in results /\ \A d \in Values : value_cache[d][id] \in results

\* The caches of a region are current while it is not being changed, and those
\* of an id that is not set are empty, but for late results.
CachesCurrent ==
    \A id \in Ids \ stale :
        /\ (regions[id] # 0 /\ ~(main.id = id /\ main.at \in {"renew", "clear", "erase"})) =>
              HoldsOnly(id, {Nothing, PointsOf(id)})
        /\ (regions[id] = 0 /\ main.id # id) => HoldsOnly(id, {Nothing})

\* Nothing is required of an id that is not set.
NothingRequired == \A id \in Ids : (regions[id] = 0 /\ main.id # id) => spectral_req[id].all = {}

\* A task that will send a statistic of its region, unless it finds the region
\* or its file gone.
Owes(t, s) ==
    \/ task[t].at = "start" /\ Part(t) = "spectral" /\ s \in spectral_req[task[t].id].new
    \/ task[t].at \in {"check", "get", "at", "lock", "locked", "apply", "initial", "send"}
       /\ s \in task[t].need
    \/ /\ task[t].at = "calculate" /\ s \in task[t].need
       /\ object[task[t].obj].points = task[t].initial

\* What is required of a region was sent, or will be.
ProfilesOwed ==
    \A id \in Ids \ (stale \cup unsent) : RegionFileIdsValid(id) =>
        \/ main.id = id /\ main.at \in {"renew", "clear"}
        \/ \A s \in spectral_req[id].all :
              \/ profile_sent[id][s] = PointsOf(id)
              \/ main.id = id /\ main.at = "stream" /\ s \in spectral_req[id].new
              \/ \E t \in RegionTasks : task[t].id = id /\ Owes(t, s)

RegionsIInv == RegionsTyped /\ MainKnows /\ ObjectsOwned /\ TasksNamed /\ ObjectsHeld /\ TasksCurrent
               /\ CachesCurrent /\ NothingRequired /\ ProfilesOwed

-----------------------------------------------------------------------------
LEMMA TodoParts ==
    /\ \A parts \in Todos \ {<< >>} :
          /\ Head(parts) \in {"spectral", "require"} \cup Values
          /\ Len(parts) > 1 => Tail(parts) \in Todos \ {<< >>}
    /\ Stream \in Todos \ {<< >>} /\ Head(Stream) = "spectral"
    /\ <<"spectral">> \in Todos \ {<< >>} /\ Head(<<"spectral">>) = "spectral"
    /\ \A d \in Values : <<"require", d>> \in Todos \ {<< >>} /\ Head(<<"require", d>>) = "require"
<1> DEFINE Right(parts) == /\ Head(parts) \in {"spectral", "require"} \cup Values
                           /\ Len(parts) > 1 => Tail(parts) \in Todos \ {<< >>}
<1>1. Right(<<"spectral", "histogram", "stats">>) /\ Right(<<"histogram", "stats">>)
  BY DEF Todos, Values
<1>2. Right(<<"stats">>) /\ Right(<<"spectral">>) /\ Right(<<"histogram">>)
  BY DEF Todos, Values
<1>3. Right(<<"require", "stats">>) /\ Right(<<"require", "histogram">>)
  BY DEF Todos, Values
<1>4. \A parts \in Todos \ {<< >>} : Right(parts)
  <2> HIDE DEF Right
  <2> QED BY <1>1, <1>2, <1>3 DEF Todos
<1>5. Stream \in Todos \ {<< >>} /\ Head(Stream) = "spectral"
  BY DEF Todos, Stream
<1>6. <<"spectral">> \in Todos \ {<< >>} /\ Head(<<"spectral">>) = "spectral"
  BY DEF Todos
<1>7. \A d \in Values : <<"require", d>> \in Todos \ {<< >>} /\ Head(<<"require", d>>) = "require"
  BY DEF Todos, Values
<1> QED BY <1>4, <1>5, <1>6, <1>7

LEMMA NoTaskType == NoTask \in TaskRecords /\ NoTask.at = "free" /\ ~NoTask.overlap
<1>1. Nothing \in Results /\ {} \in SUBSET Stats /\ 0 \in 0..MaxObjects /\ << >> \in Todos
  BY RegionsAssumption DEF Results, Todos
<1> QED BY <1>1 DEF NoTask, TaskRecords, TaskPlaces

\* A task gets new parts to do.
LEMMA NewTaskEffect ==
    ASSUME RegionsTyped, NEW t \in RegionTasks, NEW id \in Ids, NEW parts \in Todos,
           task' = NewTask(task, t, id, parts)
    PROVE  /\ task' \in [RegionTasks -> TaskRecords]
           /\ \A u \in RegionTasks : u # t => task'[u] = task[u]
           /\ task'[t].at = "start" /\ task'[t].id = id /\ task'[t].todo = parts
<1> DEFINE a == [NoTask EXCEPT !.id = id, !.todo = parts, !.at = "start"]
<1>1. /\ task \in [RegionTasks -> TaskRecords] /\ id \in 0..MaxObjects
  BY RegionsAssumption DEF RegionsTyped, Ids
<1>2. /\ a \in TaskRecords /\ a.at = "start" /\ a.id = id /\ a.todo = parts
  BY <1>1, NoTaskType DEF TaskRecords, TaskPlaces
<1>3. task' = [task EXCEPT ![t] = a]
  BY DEF NewTask
<1> HIDE DEF a
<1> QED BY <1>1, <1>2, <1>3

\* What marks the tasks that work on some ids leaves everything else of them.
LEMMA OverlapEffect ==
    ASSUME RegionsTyped, NEW ids \in SUBSET Ids, NEW tasks, tasks = Overlap(ids)
    PROVE  /\ tasks \in [RegionTasks -> TaskRecords]
           /\ \A u \in RegionTasks :
                /\ tasks[u].id = task[u].id /\ tasks[u].todo = task[u].todo
                /\ tasks[u].at = task[u].at /\ tasks[u].need = task[u].need
                /\ tasks[u].obj = task[u].obj /\ tasks[u].of = task[u].of
                /\ tasks[u].initial = task[u].initial /\ (tasks[u].tardy <=> task[u].tardy)
                /\ tasks[u].overlap <=> (task[u].overlap \/ (task[u].id \in ids /\ task[u].at # "free"))
<1>1. \A u \in RegionTasks :
         /\ tasks[u] \in TaskRecords
         /\ tasks[u].id = task[u].id /\ tasks[u].todo = task[u].todo
         /\ tasks[u].at = task[u].at /\ tasks[u].need = task[u].need
         /\ tasks[u].obj = task[u].obj /\ tasks[u].of = task[u].of
         /\ tasks[u].initial = task[u].initial /\ (tasks[u].tardy <=> task[u].tardy)
         /\ tasks[u].overlap <=> (task[u].overlap \/ (task[u].id \in ids /\ task[u].at # "free"))
  <2> SUFFICES ASSUME NEW u \in RegionTasks
               PROVE  /\ tasks[u] \in TaskRecords
                      /\ tasks[u].id = task[u].id /\ tasks[u].todo = task[u].todo
                      /\ tasks[u].at = task[u].at /\ tasks[u].need = task[u].need
                      /\ tasks[u].obj = task[u].obj /\ tasks[u].of = task[u].of
                      /\ tasks[u].initial = task[u].initial /\ (tasks[u].tardy <=> task[u].tardy)
                      /\ tasks[u].overlap <=>
                            (task[u].overlap \/ (task[u].id \in ids /\ task[u].at # "free"))
    OBVIOUS
  <2> DEFINE a == task[u]
             overlaps == a.overlap \/ (a.id \in ids /\ a.at # "free")
             b == [a EXCEPT !.overlap = overlaps]
  <2>1. a \in TaskRecords
    BY DEF RegionsTyped
  <2>2. tasks[u] = b
    BY DEF Overlap
  <2>3. overlaps \in BOOLEAN
    OBVIOUS
  <2>4. /\ b \in TaskRecords
        /\ b.id = a.id /\ b.todo = a.todo /\ b.at = a.at /\ b.need = a.need
        /\ b.obj = a.obj /\ b.of = a.of /\ b.initial = a.initial /\ b.tardy = a.tardy
        /\ b.overlap = overlaps
    <3> HIDE DEF a, overlaps
    <3> QED BY <2>1, <2>3 DEF TaskRecords
  <2> HIDE DEF b
  <2> QED BY <2>2, <2>4
<1> QED BY <1>1 DEF Overlap

-----------------------------------------------------------------------------
LEMMA RegionsInitOK == RegionsInit => RegionsIInv
<1> SUFFICES ASSUME RegionsInit PROVE RegionsIInv
  OBVIOUS
<1>1. FirstPoints \in Points /\ FirstStat \subseteq Stats
  BY RegionsAssumption DEF FirstPoints, FirstStat
<1>2. 1 \in Ids /\ 1 \in 0..MaxObjects /\ 0 \in 0..MaxObjects /\ 0 \notin Ids
  BY RegionsAssumption DEF Ids
<1>3. \A t \in RegionTasks : task[t].at = "free"
  BY NoTaskType DEF RegionsInit
<1>4. RegionsTyped
  <2>1. /\ regions \in [Ids -> 0..MaxObjects]
    BY <1>2 DEF RegionsInit
  <2>7. created \in 0..MaxObjects
    BY <1>2 DEF RegionsInit
  <2>8. messages \in 0..MaxRegionMessages
    BY RegionsAssumption DEF RegionsInit
  <2>9. /\ region_frame \in {"open", "closing", "gone"}
        /\ stale \subseteq Ids /\ unsent \subseteq Ids /\ terminated \in BOOLEAN
    BY DEF RegionsInit
  <2>2. object \in [1..MaxObjects -> [points : Points \cup {Nothing}, connected : BOOLEAN]]
    BY <1>1 DEF RegionsInit
  <2>3. spectral_req \in [Ids -> [all : SUBSET Stats, new : SUBSET Stats]]
    BY <1>1 DEF RegionsInit
  <2>4. /\ value_req \in [Values -> SUBSET Ids]
        /\ spectral_cache \in [Ids -> Results]
        /\ value_cache \in [Values -> [Ids -> Results]]
        /\ profile_sent \in [Ids -> [Stats -> Results]]
    BY <1>1 DEF RegionsInit, Results
  <2>5. task \in [RegionTasks -> TaskRecords]
    BY NoTaskType DEF RegionsInit
  <2>6. main \in [at : {"idle", "renew", "clear", "stream", "erase", "purge", "close"}, id : 0..MaxObjects]
    BY <1>2 DEF RegionsInit, IdleRegionTask
  <2> QED BY <2>1, <2>2, <2>3, <2>4, <2>5, <2>6, <2>7, <2>8, <2>9 DEF RegionsTyped
<1>5. /\ main.at = "idle" /\ main.id = 0 /\ regions[1] = 1 /\ object[1].points = FirstPoints
      /\ \A i \in Ids : i # 1 => regions[i] = 0
  <2>1. 1 \in 1..MaxObjects
    BY RegionsAssumption
  <2> QED BY <1>2, <2>1 DEF RegionsInit, IdleRegionTask
<1>6. MainKnows
  BY <1>5 DEF MainKnows
<1>7. ObjectsOwned
  BY <1>5 DEF ObjectsOwned, RegionsInit
<1>8. TasksNamed /\ ObjectsHeld /\ TasksCurrent
  BY <1>3 DEF TasksNamed, ObjectsHeld, TasksCurrent, Locked
<1>9. CachesCurrent
  BY <1>2, <1>5 DEF CachesCurrent, HoldsOnly, PointsOf, RegionsInit
<1>10. NothingRequired
  BY <1>5 DEF NothingRequired, RegionsInit
<1>11. ProfilesOwed
  <2> SUFFICES ASSUME NEW id \in Ids, regions[id] # 0, NEW s \in spectral_req[id].all
               PROVE  profile_sent[id][s] = PointsOf(id)
    BY DEF ProfilesOwed, RegionFileIdsValid, RegionSet
  <2>1. id = 1 /\ s \in FirstStat /\ s \in Stats
    BY <1>1, <1>5 DEF RegionsInit
  <2> QED BY <1>5, <2>1 DEF RegionsInit, PointsOf
<1> QED BY <1>4, <1>6, <1>7, <1>8, <1>9, <1>10, <1>11 DEF RegionsIInv

-----------------------------------------------------------------------------
\* What a step of a task keeps: the regions, the requirements and the other
\* tasks.
OnlyTaskMoves(t) ==
    /\ UNCHANGED <<regions, object, created, region_frame, spectral_req, main, messages, unsent>>
    /\ task' \in [RegionTasks -> TaskRecords]
    /\ \A u \in RegionTasks : u # t => task'[u] = task[u]

\* What a step of a task owes the invariant: ...
TaskRight(t) ==
    /\ task[t].at # "free" => task[t].id \in Ids /\ task[t].todo # << >>
    /\ task[t].at \in {"check", "get", "at", "lock", "locked", "apply", "initial",
                       "calculate", "send", "store"} => Part(t) = "spectral"
    /\ task[t].at \in {"value", "keep"} => Part(t) \in Values
    /\ task[t].at \in Locked \cup {"lock"} =>
        /\ task[t].obj \in 1..created
        /\ \A i \in Ids : regions[i] = task[t].obj => i = task[t].id
        /\ \/ task[t].at = "lock" /\ ~object[task[t].obj].connected
           \/ task[t].at # "lock" /\ task[t].tardy
           \/ regions[task[t].id] = task[t].obj
    /\ (task[t].at \in {"value", "keep", "send", "store"} /\ ~task[t].overlap) =>
        /\ RegionFileIdsValid(task[t].id)
        /\ task[t].at # "value" => task[t].of = PointsOf(task[t].id)

\* ... what it caches and sends is of the region as it is, or late, ...
CachesRight ==
    /\ spectral_cache' \in [Ids -> Results] /\ value_cache' \in [Values -> [Ids -> Results]]
    /\ value_req' \in [Values -> SUBSET Ids] /\ terminated' \in BOOLEAN
    /\ stale' \subseteq Ids /\ stale \subseteq stale'
    /\ \A id \in Ids \ stale' :
          /\ spectral_cache'[id] = spectral_cache[id]
             \/ (regions[id] # 0 /\ spectral_cache'[id] = PointsOf(id))
          /\ \A d \in Values : value_cache'[d][id] = value_cache[d][id]
                               \/ (regions[id] # 0 /\ value_cache'[d][id] = PointsOf(id))

\* ... and a statistic that the task owed and does not owe any more was sent.
ProfilesRight(t) ==
    /\ profile_sent' \in [Ids -> [Stats -> Results]]
    /\ \A id \in Ids \ (stale' \cup unsent), s \in Stats :
          (RegionFileIdsValid(id) /\ ~(main.id = id /\ main.at \in {"renew", "clear"})) =>
             /\ profile_sent'[id][s] = profile_sent[id][s] \/ profile_sent'[id][s] = PointsOf(id)
             /\ (task[t].id = id /\ Owes(t, s) /\ s \in spectral_req[id].all) =>
                   \/ profile_sent'[id][s] = PointsOf(id)
                   \/ task'[t].id = id /\ Owes(t, s)'

LEMMA WorkStep ==
    ASSUME RegionsIInv, NEW t \in RegionTasks, OnlyTaskMoves(t), TaskRight(t)', CachesRight, ProfilesRight(t)
    PROVE  RegionsIInv'
<1>1. RegionsTyped /\ MainKnows /\ ObjectsOwned /\ TasksNamed /\ ObjectsHeld /\ TasksCurrent
      /\ CachesCurrent /\ NothingRequired /\ ProfilesOwed
  BY DEF RegionsIInv
<1>2. /\ UNCHANGED <<regions, object, created, region_frame, spectral_req, main, messages, unsent>>
      /\ task' \in [RegionTasks -> TaskRecords]
      /\ \A u \in RegionTasks : u # t => task'[u] = task[u]
  BY DEF OnlyTaskMoves
<1>3. RegionsTyped'
  BY <1>1, <1>2 DEF RegionsTyped, CachesRight, ProfilesRight
<1>4. (MainKnows /\ ObjectsOwned /\ NothingRequired)'
  BY <1>1, <1>2 DEF MainKnows, ObjectsOwned, NothingRequired, RegionSet
<1>5. TasksNamed'
  BY <1>1, <1>2 DEF TasksNamed, TaskRight, Part
<1>6. ObjectsHeld'
  BY <1>1, <1>2, SMTT(30) DEF ObjectsHeld, TaskRight
<1>7. TasksCurrent'
  BY <1>1, <1>2, SMTT(30) DEF TasksCurrent, TaskRight, RegionFileIdsValid, RegionSet, FrameSet, PointsOf
<1>8. CachesCurrent'
  BY <1>1, <1>2 DEF CachesCurrent, CachesRight, HoldsOnly, PointsOf
<1>9. ProfilesOwed'
  <2> SUFFICES ASSUME NEW id \in Ids, id \notin stale', id \notin unsent, RegionFileIdsValid(id),
                      ~(main.id = id /\ main.at \in {"renew", "clear"}),
                      NEW s \in spectral_req[id].all,
                      ~(main.id = id /\ main.at = "stream" /\ s \in spectral_req[id].new)
               PROVE  \/ profile_sent'[id][s] = PointsOf(id)
                      \/ \E u \in RegionTasks : task'[u].id = id /\ Owes(u, s)'
    BY <1>2 DEF ProfilesOwed, RegionFileIdsValid, RegionSet, FrameSet, PointsOf
  <2>1. s \in Stats /\ id \notin stale
    BY <1>1 DEF RegionsTyped, CachesRight
  <2>2. \/ profile_sent[id][s] = PointsOf(id)
        \/ \E u \in RegionTasks : task[u].id = id /\ Owes(u, s)
    BY <1>1, <2>1 DEF ProfilesOwed
  <2>3. CASE profile_sent[id][s] = PointsOf(id)
    BY <2>1, <2>3 DEF ProfilesRight
  <2>4. CASE \E u \in RegionTasks : task[u].id = id /\ Owes(u, s)
    <3>1. PICK u \in RegionTasks : task[u].id = id /\ Owes(u, s)
      BY <2>4
    <3>2. CASE u = t
      BY <2>1, <3>1, <3>2 DEF ProfilesRight
    <3>3. CASE u # t
      <4>1. task'[u] = task[u]
        BY <1>2, <3>3
      <4> QED BY <1>2, <3>1, <4>1 DEF Owes, Part
    <3> QED BY <3>2, <3>3
  <2> QED BY <2>2, <2>3, <2>4
<1> QED BY <1>3, <1>4, <1>5, <1>6, <1>7, <1>8, <1>9 DEF RegionsIInv

\* The caches and what was sent stay as they are.
LEMMA QuietCaches ==
    ASSUME RegionsTyped, UNCHANGED <<spectral_cache, value_cache, stale>>,
           value_req' \in [Values -> SUBSET Ids], terminated' \in BOOLEAN
    PROVE  CachesRight
BY DEF RegionsTyped, CachesRight

LEMMA QuietProfiles ==
    ASSUME RegionsTyped, NEW t \in RegionTasks, UNCHANGED profile_sent,
           \A s \in Stats : (/\ Owes(t, s) /\ s \in spectral_req[task[t].id].all
                             /\ RegionFileIdsValid(task[t].id)) =>
                                task'[t].id = task[t].id /\ Owes(t, s)'
    PROVE  ProfilesRight(t)
BY DEF RegionsTyped, ProfilesRight

\* The next part of a task, or its end, is always right.
LEMMA NextPartRight ==
    ASSUME RegionsIInv, NEW t \in RegionTasks, task[t].at # "free", task' = NextPart(t)
    PROVE  /\ task' \in [RegionTasks -> TaskRecords]
           /\ \A u \in RegionTasks : u # t => task'[u] = task[u]
           /\ TaskRight(t)'
<1>1. /\ task \in [RegionTasks -> TaskRecords]
      /\ task[t].id \in Ids /\ task[t].todo \in Todos \ {<< >>}
  BY DEF RegionsIInv, RegionsTyped, TasksNamed, TaskRecords
<1>2. CASE Len(task[t].todo) > 1
  <2>1. task' = NewTask(task, t, task[t].id, Tail(task[t].todo))
    BY <1>2 DEF NextPart
  <2>2. Tail(task[t].todo) \in Todos \ {<< >>}
    BY <1>1, <1>2, TodoParts
  <2>3. /\ task' \in [RegionTasks -> TaskRecords]
        /\ \A u \in RegionTasks : u # t => task'[u] = task[u]
        /\ task'[t].at = "start" /\ task'[t].id = task[t].id /\ task'[t].todo = Tail(task[t].todo)
    BY <1>1, <2>1, <2>2, NewTaskEffect DEF RegionsIInv
  <2> QED BY <1>1, <2>2, <2>3 DEF TaskRight, Locked
<1>3. CASE ~(Len(task[t].todo) > 1)
  <2>1. task' = [task EXCEPT ![t] = NoTask]
    BY <1>3 DEF NextPart
  <2> QED BY <1>1, <2>1, NoTaskType DEF TaskRight, Locked
<1> QED BY <1>2, <1>3

-----------------------------------------------------------------------------
\* A task goes somewhere else.
LEMMA GotoEffect ==
    ASSUME RegionsTyped, NEW t \in RegionTasks, NEW w \in TaskPlaces, task' = RegionTaskGoto(t, w)
    PROVE  /\ task' \in [RegionTasks -> TaskRecords]
           /\ \A u \in RegionTasks : u # t => task'[u] = task[u]
           /\ task'[t].at = w /\ task'[t].id = task[t].id /\ task'[t].todo = task[t].todo
           /\ task'[t].need = task[t].need /\ task'[t].obj = task[t].obj /\ task'[t].of = task[t].of
           /\ task'[t].initial = task[t].initial
           /\ task'[t].overlap = task[t].overlap /\ task'[t].tardy = task[t].tardy
<1> DEFINE a == task[t]
           b == [a EXCEPT !.at = w]
<1>1. a \in TaskRecords
  BY DEF RegionsTyped
<1>2. /\ task'[t] = b /\ \A u \in RegionTasks : u # t => task'[u] = task[u]
      /\ task' \in [RegionTasks -> {task'[u] : u \in RegionTasks}]
  BY DEF RegionsTyped, RegionTaskGoto
<1>3. /\ b \in TaskRecords
      /\ b.at = w /\ b.id = a.id /\ b.todo = a.todo /\ b.need = a.need /\ b.obj = a.obj
      /\ b.of = a.of /\ b.initial = a.initial /\ b.overlap = a.overlap /\ b.tardy = a.tardy
  <2> HIDE DEF a
  <2> QED BY <1>1 DEF TaskRecords
<1> HIDE DEF b
<1> QED BY <1>2, <1>3 DEF RegionsTyped, RegionTaskGoto

\* A task does not leave what it owes when it only changes its place, to one
\* where it still owes it.
LEMMA FillProfileStep == ASSUME RegionsIInv, NEW t \in RegionTasks, FillSpectralProfileData(t) PROVE RegionsIInv'
<1> DEFINE new == spectral_req[task[t].id].new
<1>1. RegionsTyped /\ task[t].at = "start" /\ Part(t) = "spectral" /\ task[t].id \in Ids
  BY DEF RegionsIInv, FillSpectralProfileData, RegionTaskAt, TasksNamed
<1>2. /\ UNCHANGED <<regions, object, created, region_frame, spectral_req, value_req, spectral_cache,
                     value_cache, main, messages>>
      /\ UNCHANGED <<profile_sent, stale, unsent, terminated>>
  BY DEF FillSpectralProfileData, OnlyTask, history
<1>3. CachesRight
  BY <1>1, <1>2, QuietCaches DEF RegionsTyped
<1>4. CASE RegionFileIdsValid(task[t].id) /\ new # {}
  <2> DEFINE a == task[t]
             b == [a EXCEPT !.at = "check", !.need = new]
  <2>1. a \in TaskRecords /\ new \in SUBSET Stats
    BY <1>1 DEF RegionsTyped
  <2>2. task' = [task EXCEPT ![t].at = "check", ![t].need = new]
    BY <1>4, Zenon DEF FillSpectralProfileData
  <2>3. /\ task'[t] = b /\ \A u \in RegionTasks : u # t => task'[u] = task[u]
    BY <1>1, <2>2 DEF RegionsTyped
  <2>4. /\ b \in TaskRecords /\ b.at = "check" /\ b.id = a.id /\ b.todo = a.todo /\ b.need = new
    <3> HIDE DEF a, new
    <3> QED BY <2>1 DEF TaskRecords, TaskPlaces
  <2> HIDE DEF b
  <2>5. OnlyTaskMoves(t)
    BY <1>1, <1>2, <2>2, <2>3, <2>4 DEF OnlyTaskMoves, RegionsTyped
  <2>6. TaskRight(t)'
    BY <1>1, <2>3, <2>4 DEF TaskRight, Part, Locked, RegionsIInv, TasksNamed
  <2>7. \A s \in Stats : Owes(t, s) => task'[t].id = task[t].id /\ Owes(t, s)'
    BY <1>1, <2>3, <2>4 DEF Owes
  <2>8. ProfilesRight(t)
    BY <1>1, <1>2, <2>7, QuietProfiles
  <2> QED BY <1>3, <2>5, <2>6, <2>8, WorkStep
<1>5. CASE ~(RegionFileIdsValid(task[t].id) /\ new # {})
  <2>1. task' = NextPart(t)
    BY <1>5, Zenon DEF FillSpectralProfileData
  <2>2. OnlyTaskMoves(t) /\ TaskRight(t)'
    BY <1>1, <1>2, <2>1, NextPartRight DEF OnlyTaskMoves
  <2>3. \A s \in Stats : ~(Owes(t, s) /\ RegionFileIdsValid(task[t].id))
    BY <1>1, <1>5 DEF Owes
  <2>4. ProfilesRight(t)
    BY <1>1, <1>2, <2>3, QuietProfiles
  <2> QED BY <1>3, <2>2, <2>4, WorkStep
<1> QED BY <1>4, <1>5

LEMMA CheckStep == ASSUME RegionsIInv, NEW t \in RegionTasks, CheckCancel(t) PROVE RegionsIInv'
<1>1. RegionsTyped /\ task[t].at = "check" /\ task[t].id \in Ids /\ Part(t) = "spectral"
      /\ task[t].todo # << >>
  BY DEF RegionsIInv, CheckCancel, RegionTaskAt, TasksNamed
<1>2. /\ UNCHANGED <<regions, object, created, region_frame, spectral_req, value_req, spectral_cache,
                     value_cache, main, messages>>
      /\ UNCHANGED <<profile_sent, stale, unsent, terminated>>
  BY DEF CheckCancel, OnlyTask, history
<1>3. CachesRight
  BY <1>1, <1>2, QuietCaches DEF RegionsTyped
<1>4. CASE RegionFileIdsValid(task[t].id) /\ HasSpectralRequirements(t)
  <2>1. task' = RegionTaskGoto(t, "get")
    BY <1>4 DEF CheckCancel
  <2>2. /\ task' \in [RegionTasks -> TaskRecords]
        /\ \A u \in RegionTasks : u # t => task'[u] = task[u]
        /\ task'[t].at = "get" /\ task'[t].id = task[t].id /\ task'[t].todo = task[t].todo
        /\ task'[t].need = task[t].need
    BY <1>1, <2>1, GotoEffect DEF TaskPlaces
  <2>3. OnlyTaskMoves(t)
    BY <1>2, <2>2 DEF OnlyTaskMoves
  <2>4. TaskRight(t)'
    BY <1>1, <2>2 DEF TaskRight, Part, Locked
  <2>5. \A s \in Stats : Owes(t, s) => task'[t].id = task[t].id /\ Owes(t, s)'
    BY <1>1, <2>2 DEF Owes
  <2> QED BY <1>1, <1>2, <1>3, <2>3, <2>4, <2>5, QuietProfiles, WorkStep
<1>5. CASE ~(RegionFileIdsValid(task[t].id) /\ HasSpectralRequirements(t))
  <2>1. task' = NextPart(t)
    BY <1>5 DEF CheckCancel
  <2>2. OnlyTaskMoves(t) /\ TaskRight(t)'
    BY <1>1, <1>2, <2>1, NextPartRight DEF OnlyTaskMoves
  <2>3. \A s \in Stats : ~(Owes(t, s) /\ s \in spectral_req[task[t].id].all /\ RegionFileIdsValid(task[t].id))
    BY <1>1, <1>5 DEF Owes, HasSpectralRequirements
  <2> QED BY <1>1, <1>2, <1>3, <2>2, <2>3, QuietProfiles, WorkStep
<1> QED BY <1>4, <1>5

\* The region is found in the map, at once or with the second lock.
LEMMA FoundStep ==
    ASSUME RegionsIInv, NEW t \in RegionTasks, task[t].at \in {"get", "at"}, regions[task[t].id] # 0,
           task' = [task EXCEPT ![t].at = "lock", ![t].obj = regions[task[t].id]],
           UNCHANGED <<regions, object, created, region_frame, spectral_req, value_req, spectral_cache,
                       value_cache, main, messages>>,
           UNCHANGED <<profile_sent, stale, unsent, terminated>>
    PROVE  RegionsIInv'
<1>1. RegionsTyped /\ task[t].id \in Ids /\ Part(t) = "spectral" /\ task[t].todo # << >> /\ ObjectsOwned
  BY DEF RegionsIInv, TasksNamed
<1> DEFINE a == task[t]
           o == regions[task[t].id]
           b == [a EXCEPT !.at = "lock", !.obj = o]
<1>2. a \in TaskRecords /\ o \in 0..MaxObjects /\ o \in 1..created
  BY <1>1 DEF RegionsTyped, ObjectsOwned
<1>3. task'[t] = b /\ \A u \in RegionTasks : u # t => task'[u] = task[u]
  BY <1>1 DEF RegionsTyped
<1>4. b \in TaskRecords /\ b.at = "lock" /\ b.id = a.id /\ b.todo = a.todo /\ b.need = a.need /\ b.obj = o
  <2> HIDE DEF a, o
  <2> QED BY <1>2 DEF TaskRecords, TaskPlaces
<1> HIDE DEF b
<1>5. OnlyTaskMoves(t)
  BY <1>1, <1>3, <1>4 DEF OnlyTaskMoves, RegionsTyped
<1>6. TaskRight(t)'
  BY <1>1, <1>2, <1>3, <1>4, ZenonT(60) DEF TaskRight, Part, Locked, ObjectsOwned
<1>7. \A s \in Stats : Owes(t, s) => task'[t].id = task[t].id /\ Owes(t, s)'
  BY <1>3, <1>4 DEF Owes
<1>8. CachesRight /\ ProfilesRight(t)
  BY <1>1, <1>7, QuietCaches, QuietProfiles DEF RegionsTyped
<1> QED BY <1>5, <1>6, <1>8, WorkStep

\* The task stays where it is, or goes where it still owes what it owed.
LEMMA SameRegionTask ==
    ASSUME RegionsIInv, NEW t \in RegionTasks, NEW w \in {"at", "apply"},
           \/ UNCHANGED task
           \/ /\ task[t].at \in {"get", "locked"} /\ task' = RegionTaskGoto(t, w)
              /\ w = "apply" => task[t].at = "locked",
           UNCHANGED <<regions, object, created, region_frame, spectral_req, value_req, spectral_cache,
                       value_cache, main, messages>>,
           UNCHANGED <<profile_sent, stale, unsent>>, terminated' \in BOOLEAN
    PROVE  RegionsIInv'
<1>1. RegionsTyped /\ TasksNamed /\ ObjectsHeld /\ TasksCurrent
  BY DEF RegionsIInv
<1>2. CASE UNCHANGED task
  <2>1. OnlyTaskMoves(t)
    BY <1>1, <1>2 DEF OnlyTaskMoves, RegionsTyped
  <2>2. TaskRight(t)'
    BY <1>1, <1>2 DEF TaskRight, Part, TasksNamed, ObjectsHeld, TasksCurrent, RegionFileIdsValid, RegionSet,
                      FrameSet, PointsOf
  <2>3. \A s \in Stats : Owes(t, s) => task'[t].id = task[t].id /\ Owes(t, s)'
    BY <1>2 DEF Owes, Part
  <2>4. CachesRight /\ ProfilesRight(t)
    BY <1>1, <2>3, QuietCaches, QuietProfiles DEF RegionsTyped
  <2> QED BY <2>1, <2>2, <2>4, WorkStep
<1>3. CASE /\ task[t].at \in {"get", "locked"} /\ task' = RegionTaskGoto(t, w)
           /\ w = "apply" => task[t].at = "locked"
  <2>1. /\ task' \in [RegionTasks -> TaskRecords]
        /\ \A u \in RegionTasks : u # t => task'[u] = task[u]
        /\ task'[t].at = w /\ task'[t].id = task[t].id /\ task'[t].todo = task[t].todo
        /\ task'[t].need = task[t].need /\ task'[t].obj = task[t].obj /\ task'[t].tardy = task[t].tardy
    BY <1>1, <1>3, GotoEffect DEF TaskPlaces
  <2>2. OnlyTaskMoves(t)
    BY <2>1 DEF OnlyTaskMoves
  <2>3. TaskRight(t)'
    BY <1>1, <1>3, <2>1 DEF TaskRight, Part, TasksNamed, ObjectsHeld, Locked
  <2>4. \A s \in Stats : Owes(t, s) => task'[t].id = task[t].id /\ Owes(t, s)'
    BY <1>3, <2>1 DEF Owes
  <2>5. CachesRight /\ ProfilesRight(t)
    BY <1>1, <2>4, QuietCaches, QuietProfiles DEF RegionsTyped
  <2> QED BY <2>2, <2>3, <2>5, WorkStep
<1> QED BY <1>2, <1>3

LEMMA GetRegionStep == ASSUME RegionsIInv, NEW t \in RegionTasks, GetRegion(t) \/ GetRegionAt(t) PROVE RegionsIInv'
<1>1. /\ UNCHANGED <<regions, object, created, region_frame, spectral_req, value_req, spectral_cache,
                     value_cache, main, messages>>
      /\ UNCHANGED <<profile_sent, stale, unsent>>
      /\ task[t].at \in {"get", "at"} /\ terminated \in BOOLEAN
  BY DEF GetRegion, GetRegionAt, OnlyTask, RegionTaskAt, RegionsIInv, RegionsTyped
<1>2. \/ /\ regions[task[t].id] # 0 /\ UNCHANGED terminated
         /\ task' = [task EXCEPT ![t].at = "lock", ![t].obj = regions[task[t].id]]
      \/ task[t].at = "get" /\ task' = RegionTaskGoto(t, "at") /\ UNCHANGED terminated
      \/ terminated' = TRUE /\ UNCHANGED task
  BY DEF GetRegion, GetRegionAt, RegionSet, RegionTaskAt
<1> QED BY <1>1, <1>2, FoundStep, SameRegionTask

\* An object that is not connected any more when it is locked is kept as tardy.
LEMMA LockRegionStep == ASSUME RegionsIInv, NEW t \in RegionTasks, LockRegion(t) PROVE RegionsIInv'
<1>1. RegionsTyped /\ task[t].at = "lock" /\ task[t].id \in Ids /\ Part(t) = "spectral"
      /\ task[t].todo # << >> /\ ObjectsHeld
  BY DEF RegionsIInv, LockRegion, RegionTaskAt, TasksNamed
<1>2. /\ UNCHANGED <<regions, object, created, region_frame, spectral_req, value_req, spectral_cache,
                     value_cache, main, messages>>
      /\ UNCHANGED <<profile_sent, stale, unsent, terminated>>
  BY DEF LockRegion, OnlyTask, history
<1> DEFINE a == task[t]
           tooLate == ~object[task[t].obj].connected
           b == [a EXCEPT !.at = "locked", !.tardy = tooLate]
<1>3. a \in TaskRecords /\ tooLate \in BOOLEAN
  BY <1>1 DEF RegionsTyped
<1>4. task'[t] = b /\ \A u \in RegionTasks : u # t => task'[u] = task[u]
  BY <1>1 DEF RegionsTyped, LockRegion
<1>5. /\ b \in TaskRecords /\ b.at = "locked" /\ b.id = a.id /\ b.todo = a.todo /\ b.need = a.need
      /\ b.obj = a.obj /\ b.tardy = tooLate
  <2> HIDE DEF a, tooLate
  <2> QED BY <1>3 DEF TaskRecords, TaskPlaces
<1> HIDE DEF b
<1>6. OnlyTaskMoves(t)
  BY <1>1, <1>2, <1>4, <1>5 DEF OnlyTaskMoves, RegionsTyped, LockRegion
<1>7. TaskRight(t)'
  BY <1>1, <1>2, <1>4, <1>5, ZenonT(60) DEF TaskRight, Part, Locked, ObjectsHeld
<1>8. \A s \in Stats : Owes(t, s) => task'[t].id = task[t].id /\ Owes(t, s)'
  BY <1>1, <1>4, <1>5 DEF Owes
<1>9. CachesRight /\ ProfilesRight(t)
  BY <1>1, <1>2, <1>8, QuietCaches, QuietProfiles DEF RegionsTyped
<1> QED BY <1>6, <1>7, <1>9, WorkStep

\* What a task that sends a profile makes of the profiles of its region.
LEMMA SendEffect ==
    ASSUME RegionsTyped, NEW t \in RegionTasks, task[t].id \in Ids, NEW of \in Results,
           SendSpectralProfile(t, of)
    PROVE  /\ profile_sent' \in [Ids -> [Stats -> Results]]
           /\ \A s \in task[t].need : s \in Stats => profile_sent'[task[t].id][s] = of
           /\ \A s \in Stats : s \notin task[t].need =>
                 profile_sent'[task[t].id][s] = profile_sent[task[t].id][s]
           /\ \A id \in Ids : id # task[t].id => profile_sent'[id] = profile_sent[id]
BY DEF RegionsTyped, SendSpectralProfile

\* A profile that is cached is current when it is sent, unless it is late or the
\* region is being changed.
LEMMA LookUpStep == ASSUME RegionsIInv, NEW t \in RegionTasks, LookUpProfile(t) PROVE RegionsIInv'
<1>1. RegionsTyped /\ task[t].at = "locked" /\ task[t].id \in Ids /\ CachesCurrent /\ MainKnows
  BY DEF RegionsIInv, LookUpProfile, RegionTaskAt, TasksNamed
<1>2. /\ UNCHANGED <<regions, object, created, region_frame, spectral_req, value_req, spectral_cache,
                     value_cache, main, messages>>
      /\ UNCHANGED <<stale, unsent, terminated>>
  BY DEF LookUpProfile, OnlyTask
<1>3. CASE spectral_cache[task[t].id] = Nothing
  <2>1. task' = RegionTaskGoto(t, "apply") /\ UNCHANGED profile_sent
    BY <1>3 DEF LookUpProfile
  <2>2. terminated' \in BOOLEAN
    BY <1>1, <1>2 DEF RegionsTyped
  <2> QED BY <1>1, <1>2, <2>1, <2>2, SameRegionTask
<1>4. CASE spectral_cache[task[t].id] # Nothing
  <2> DEFINE of == spectral_cache[task[t].id]
  <2>1. task' = NextPart(t) /\ SendSpectralProfile(t, of)
    BY <1>4 DEF LookUpProfile
  <2>2. OnlyTaskMoves(t) /\ TaskRight(t)'
    BY <1>1, <1>2, <2>1, NextPartRight DEF OnlyTaskMoves
  <2>3. CachesRight
    BY <1>1, <1>2, QuietCaches DEF RegionsTyped
  <2>4. of \in Results
    BY <1>1 DEF RegionsTyped
  <2>5. (/\ task[t].id \notin stale /\ RegionFileIdsValid(task[t].id)
         /\ ~(main.id = task[t].id /\ main.at \in {"renew", "clear"})) => of = PointsOf(task[t].id)
    BY <1>1, <1>4 DEF CachesCurrent, HoldsOnly, RegionFileIdsValid, RegionSet, MainKnows
  <2> HIDE DEF of
  <2>6. /\ profile_sent' \in [Ids -> [Stats -> Results]]
        /\ \A s \in task[t].need : s \in Stats => profile_sent'[task[t].id][s] = of
        /\ \A s \in Stats : s \notin task[t].need =>
              profile_sent'[task[t].id][s] = profile_sent[task[t].id][s]
        /\ \A id \in Ids : id # task[t].id => profile_sent'[id] = profile_sent[id]
    BY <1>1, <2>1, <2>4, SendEffect
  <2>7. \A s \in Stats : Owes(t, s) => s \in task[t].need
    BY <1>1 DEF Owes
  <2>8. ProfilesRight(t)
    BY <1>2, <2>5, <2>6, <2>7 DEF ProfilesRight
  <2> QED BY <2>2, <2>3, <2>8, WorkStep
<1> QED BY <1>3, <1>4

\* NaNs are sent for a region that is not set, of which nothing is owed.
LEMMA ApplyRegionStep == ASSUME RegionsIInv, NEW t \in RegionTasks, ApplyRegion(t) PROVE RegionsIInv'
<1>1. RegionsTyped /\ task[t].at = "apply" /\ task[t].id \in Ids /\ ObjectsHeld /\ TasksNamed
  BY DEF RegionsIInv, ApplyRegion, RegionTaskAt, TasksNamed
<1>2. /\ UNCHANGED <<regions, object, created, region_frame, spectral_req, value_req, spectral_cache,
                     value_cache, main, messages>>
      /\ UNCHANGED <<stale, unsent, terminated>>
  BY DEF ApplyRegion, OnlyTask
<1>3. CachesRight
  BY <1>1, <1>2, QuietCaches DEF RegionsTyped
<1>4. CASE RegionFileIdsValid(task[t].id)
  <2> DEFINE a == task[t]
             of == PointsOf(task[t].id)
             b == [a EXCEPT !.of = of, !.at = "initial"]
  <2>1. regions[task[t].id] \in 1..MaxObjects
    BY <1>1, <1>4, RegionsAssumption DEF RegionsTyped, RegionFileIdsValid, RegionSet
  <2>2. of \in Results
    BY <1>1, <2>1 DEF RegionsTyped, PointsOf, Results
  <2>3. a \in TaskRecords /\ UNCHANGED profile_sent
    BY <1>1, <1>4 DEF RegionsTyped, ApplyRegion
  <2>4. task' = [task EXCEPT ![t].of = of, ![t].at = "initial"]
    BY <1>4 DEF ApplyRegion
  <2>5. task'[t] = b /\ \A u \in RegionTasks : u # t => task'[u] = task[u]
    BY <1>1, <2>4 DEF RegionsTyped
  <2>6. /\ b \in TaskRecords /\ b.at = "initial" /\ b.id = a.id /\ b.todo = a.todo /\ b.need = a.need
        /\ b.obj = a.obj /\ b.tardy = a.tardy
    <3> HIDE DEF a, of
    <3> QED BY <2>2, <2>3 DEF TaskRecords, TaskPlaces
  <2> HIDE DEF b
  <2>7. OnlyTaskMoves(t)
    BY <1>1, <1>2, <2>4, <2>5, <2>6 DEF OnlyTaskMoves, RegionsTyped
  <2>8. TaskRight(t)'
    BY <1>1, <1>2, <2>5, <2>6 DEF TaskRight, Part, Locked, ObjectsHeld, TasksNamed
  <2>9. \A s \in Stats : Owes(t, s) => task'[t].id = task[t].id /\ Owes(t, s)'
    BY <1>1, <2>5, <2>6 DEF Owes
  <2>10. ProfilesRight(t)
    BY <1>1, <2>3, <2>9, QuietProfiles
  <2> QED BY <1>3, <2>7, <2>8, <2>10, WorkStep
<1>5. CASE ~RegionFileIdsValid(task[t].id)
  <2>1. SendSpectralProfile(t, NaNs) /\ task' = NextPart(t) /\ NaNs \in Results
    BY <1>5 DEF ApplyRegion, Results
  <2>2. OnlyTaskMoves(t) /\ TaskRight(t)'
    BY <1>1, <1>2, <2>1, NextPartRight DEF OnlyTaskMoves
  <2>3. ProfilesRight(t)
    BY <1>1, <1>2, <1>5, <2>1, SendEffect DEF ProfilesRight
  <2> QED BY <1>3, <2>2, <2>3, WorkStep
<1> QED BY <1>4, <1>5

LEMMA InitialStep == ASSUME RegionsIInv, NEW t \in RegionTasks, InitialState(t) PROVE RegionsIInv'
<1>1. RegionsTyped /\ task[t].at = "initial" /\ task[t].id \in Ids /\ ObjectsHeld /\ TasksNamed
  BY DEF RegionsIInv, InitialState, RegionTaskAt, TasksNamed
<1>2. /\ UNCHANGED <<regions, object, created, region_frame, spectral_req, value_req, spectral_cache,
                     value_cache, main, messages>>
      /\ UNCHANGED <<profile_sent, stale, unsent, terminated>>
  BY DEF InitialState, OnlyTask, history
<1> DEFINE a == task[t]
           p == object[task[t].obj].points
           b == [a EXCEPT !.initial = p, !.at = "calculate"]
<1>3. task[t].obj \in 1..MaxObjects
  <2>1. task[t].obj \in 1..created /\ created \in 0..MaxObjects
    BY <1>1 DEF ObjectsHeld, Locked, RegionsTyped
  <2> QED BY <2>1, RegionsAssumption
<1>4. a \in TaskRecords /\ p \in Results
  BY <1>1, <1>3 DEF RegionsTyped, Results
<1>5. task'[t] = b /\ \A u \in RegionTasks : u # t => task'[u] = task[u]
  BY <1>1 DEF RegionsTyped, InitialState
<1>6. /\ b \in TaskRecords /\ b.at = "calculate" /\ b.id = a.id /\ b.todo = a.todo /\ b.need = a.need
      /\ b.obj = a.obj /\ b.tardy = a.tardy /\ b.initial = p
  <2> HIDE DEF a, p
  <2> QED BY <1>4 DEF TaskRecords, TaskPlaces
<1> HIDE DEF b
<1>7. OnlyTaskMoves(t)
  BY <1>1, <1>2, <1>5, <1>6 DEF OnlyTaskMoves, RegionsTyped, InitialState
<1>8. TaskRight(t)'
  BY <1>1, <1>2, <1>5, <1>6, SMTT(30) DEF TaskRight, Part, Locked, ObjectsHeld, TasksNamed
<1>9. \A s \in Stats : Owes(t, s) => task'[t].id = task[t].id /\ Owes(t, s)'
  BY <1>1, <1>2, <1>5, <1>6 DEF Owes
<1>10. CachesRight /\ ProfilesRight(t)
  BY <1>1, <1>2, <1>9, QuietCaches, QuietProfiles DEF RegionsTyped
<1> QED BY <1>7, <1>8, <1>10, WorkStep

\* A profile that goes on is of the region as it is, or late; one that is
\* cancelled is not owed.
LEMMA CalculateStep == ASSUME RegionsIInv, NEW t \in RegionTasks, Calculate(t) PROVE RegionsIInv'
<1>1. RegionsTyped /\ task[t].at = "calculate" /\ task[t].id \in Ids /\ ObjectsHeld /\ TasksNamed
  BY DEF RegionsIInv, Calculate, RegionTaskAt, TasksNamed
<1>2. /\ UNCHANGED <<regions, object, created, region_frame, spectral_req, value_req, spectral_cache,
                     value_cache, main, messages>>
      /\ UNCHANGED <<profile_sent, stale, unsent, terminated>>
  BY DEF Calculate, OnlyTask, history
<1>3. CachesRight
  BY <1>1, <1>2, QuietCaches DEF RegionsTyped
<1>4. CASE /\ RegionFileIdsValid(task[t].id)
           /\ object[task[t].obj].points = task[t].initial
           /\ HasSpectralRequirements(t)
  <2> DEFINE a == task[t]
             overlaps == task[t].of # task[t].initial \/ task[t].tardy
             b == [a EXCEPT !.at = "send", !.overlap = overlaps]
  <2>1. a \in TaskRecords /\ overlaps \in BOOLEAN
    BY <1>1 DEF RegionsTyped
  <2>2. task' = [task EXCEPT ![t].at = "send", ![t].overlap = overlaps]
    BY <1>4, Zenon DEF Calculate, GoOnOrCancel
  <2>3. task'[t] = b /\ \A u \in RegionTasks : u # t => task'[u] = task[u]
    BY <1>1, <2>2 DEF RegionsTyped
  <2>4. /\ b \in TaskRecords /\ b.at = "send" /\ b.id = a.id /\ b.todo = a.todo /\ b.need = a.need
        /\ b.obj = a.obj /\ b.tardy = a.tardy /\ b.initial = a.initial /\ b.of = a.of
        /\ b.overlap = overlaps
    <3> HIDE DEF a, overlaps
    <3> QED BY <2>1 DEF TaskRecords, TaskPlaces
  <2>5. ~overlaps => task[t].of = PointsOf(task[t].id)
    BY <1>1, <1>4 DEF ObjectsHeld, Locked, PointsOf
  <2> HIDE DEF b, overlaps
  <2>6. OnlyTaskMoves(t)
    BY <1>1, <1>2, <2>2, <2>3, <2>4 DEF OnlyTaskMoves, RegionsTyped
  <2>7. TaskRight(t)'
    <3>1. /\ task'[t].at = "send" /\ task'[t].id \in Ids /\ task'[t].todo # << >> /\ Part(t)' = "spectral"
          /\ task'[t].id = task[t].id
      BY <1>1, <2>3, <2>4 DEF TasksNamed, Part
    <3>2. /\ task'[t].obj \in 1..created
          /\ \A i \in Ids : regions[i] = task'[t].obj => i = task'[t].id
          /\ task'[t].tardy \/ regions[task'[t].id] = task'[t].obj
      BY <1>1, <2>3, <2>4 DEF ObjectsHeld, Locked
    <3>3. ~task'[t].overlap => task'[t].of = PointsOf(task[t].id)
      BY <2>3, <2>4, <2>5
    <3> QED BY <1>2, <1>4, <3>1, <3>2, <3>3
            DEF TaskRight, Locked, RegionFileIdsValid, RegionSet, FrameSet, PointsOf
  <2>8. \A s \in Stats : Owes(t, s) => task'[t].id = task[t].id /\ Owes(t, s)'
    BY <1>1, <2>3, <2>4 DEF Owes
  <2>9. ProfilesRight(t)
    BY <1>1, <1>2, <2>8, QuietProfiles
  <2> QED BY <1>3, <2>6, <2>7, <2>9, WorkStep
<1>5. CASE ~(/\ RegionFileIdsValid(task[t].id)
             /\ object[task[t].obj].points = task[t].initial
             /\ HasSpectralRequirements(t))
  <2>1. task' = NextPart(t)
    BY <1>5, Zenon DEF Calculate, GoOnOrCancel
  <2>2. OnlyTaskMoves(t) /\ TaskRight(t)'
    BY <1>1, <1>2, <2>1, NextPartRight DEF OnlyTaskMoves
  <2>3. \A s \in Stats : ~(Owes(t, s) /\ s \in spectral_req[task[t].id].all /\ RegionFileIdsValid(task[t].id))
    BY <1>1, <1>5 DEF Owes, HasSpectralRequirements
  <2>4. ProfilesRight(t)
    BY <1>1, <1>2, <2>3, QuietProfiles
  <2> QED BY <1>3, <2>2, <2>4, WorkStep
<1> QED BY <1>4, <1>5

LEMMA SendStepOfTask == ASSUME RegionsIInv, NEW t \in RegionTasks, Send(t) PROVE RegionsIInv'
<1>1. RegionsTyped /\ task[t].at = "send" /\ task[t].id \in Ids /\ ObjectsHeld /\ TasksNamed /\ TasksCurrent
  BY DEF RegionsIInv, Send, RegionTaskAt, TasksNamed
<1>2. /\ UNCHANGED <<regions, object, created, region_frame, spectral_req, value_req, spectral_cache,
                     value_cache, main, messages>>
      /\ UNCHANGED <<unsent, terminated>> /\ Late(t)
      /\ task' = RegionTaskGoto(t, "store") /\ SendSpectralProfile(t, task[t].of)
  BY DEF Send, OnlyTask
<1>3. /\ task' \in [RegionTasks -> TaskRecords]
      /\ \A u \in RegionTasks : u # t => task'[u] = task[u]
      /\ task'[t].at = "store" /\ task'[t].id = task[t].id /\ task'[t].todo = task[t].todo
      /\ task'[t].obj = task[t].obj /\ task'[t].of = task[t].of
      /\ task'[t].overlap = task[t].overlap /\ task'[t].tardy = task[t].tardy
  BY <1>1, <1>2, GotoEffect DEF TaskPlaces
<1>4. OnlyTaskMoves(t)
  BY <1>2, <1>3 DEF OnlyTaskMoves
<1>5. TaskRight(t)'
  BY <1>1, <1>2, <1>3, SMTT(30) DEF TaskRight, Part, Locked, ObjectsHeld, TasksNamed, TasksCurrent, RegionFileIdsValid,
                          RegionSet, FrameSet, PointsOf
<1>6. stale' \subseteq Ids /\ stale \subseteq stale' /\ (task[t].overlap => task[t].id \in stale')
  BY <1>1, <1>2 DEF Late, RegionsTyped
<1>7. CachesRight
  BY <1>1, <1>2, <1>6 DEF CachesRight, RegionsTyped
<1>8. /\ task[t].need \subseteq Stats /\ task[t].of \in Results
      /\ \A s \in Stats : Owes(t, s) => s \in task[t].need
  BY <1>1 DEF RegionsTyped, TaskRecords, Owes
<1>9. task[t].id \notin stale' => task[t].of = PointsOf(task[t].id)
  BY <1>1, <1>6 DEF TasksCurrent
<1>10. ProfilesRight(t)
  <2>1. /\ profile_sent' \in [Ids -> [Stats -> Results]]
        /\ \A s \in task[t].need : s \in Stats => profile_sent'[task[t].id][s] = task[t].of
        /\ \A s \in Stats : s \notin task[t].need =>
              profile_sent'[task[t].id][s] = profile_sent[task[t].id][s]
        /\ \A id \in Ids : id # task[t].id => profile_sent'[id] = profile_sent[id]
    BY <1>1, <1>2, <1>8, SendEffect
  <2> QED BY <2>1, <1>8, <1>9 DEF ProfilesRight
<1> QED BY <1>4, <1>5, <1>7, <1>10, WorkStep

LEMMA StoreStep == ASSUME RegionsIInv, NEW t \in RegionTasks, StoreProfile(t) PROVE RegionsIInv'
<1>1. RegionsTyped /\ task[t].at = "store" /\ task[t].id \in Ids /\ TasksCurrent
  BY DEF RegionsIInv, StoreProfile, RegionTaskAt, TasksNamed
<1>2. /\ UNCHANGED <<regions, object, created, region_frame, spectral_req, value_req,
                     value_cache, main, messages, profile_sent, unsent, terminated>>
      /\ task' = NextPart(t)
  BY DEF StoreProfile
<1>3. OnlyTaskMoves(t) /\ TaskRight(t)'
  BY <1>1, <1>2, NextPartRight DEF OnlyTaskMoves
<1>4. \/ spectral_cache' = [spectral_cache EXCEPT ![task[t].id] = task[t].of] /\ Late(t)
      \/ UNCHANGED <<spectral_cache, stale>>
  BY DEF StoreProfile
<1>5. task[t].of \in Results
  BY <1>1 DEF RegionsTyped, TaskRecords
<1>6. stale' \subseteq Ids /\ stale \subseteq stale'
  BY <1>1, <1>4 DEF Late, RegionsTyped
<1>7. CachesRight
  <2>1. ~task[t].overlap => regions[task[t].id] # 0 /\ task[t].of = PointsOf(task[t].id)
    BY <1>1 DEF TasksCurrent, RegionFileIdsValid, RegionSet
  <2>2. \A id \in Ids \ stale' : \/ spectral_cache'[id] = spectral_cache[id]
                                 \/ regions[id] # 0 /\ spectral_cache'[id] = PointsOf(id)
    BY <1>1, <1>4, <2>1 DEF Late, RegionsTyped
  <2>3. spectral_cache' \in [Ids -> Results]
    BY <1>1, <1>4, <1>5 DEF RegionsTyped
  <2> QED BY <1>1, <1>2, <1>6, <2>2, <2>3 DEF CachesRight, RegionsTyped
<1>8. \A s \in Stats : ~Owes(t, s)
  BY <1>1 DEF Owes
<1> QED BY <1>1, <1>2, <1>3, <1>7, <1>8, QuietProfiles, WorkStep

-----------------------------------------------------------------------------
\* SetStatsRequirements and SetHistogramRequirements.
LEMMA RequireStep == ASSUME RegionsIInv, NEW t \in RegionTasks, SetRequirements(t) PROVE RegionsIInv'
<1>1. RegionsTyped /\ task[t].at = "start" /\ Part(t) = "require" /\ task[t].id \in Ids /\ TasksNamed
  BY DEF RegionsIInv, SetRequirements, RegionTaskAt, TasksNamed
<1> DEFINE d == task[t].todo[2]
<1>2. /\ UNCHANGED <<regions, object, created, region_frame, spectral_req, spectral_cache,
                     value_cache, main, messages>>
      /\ UNCHANGED <<profile_sent, stale, unsent, terminated>>
      /\ task' = NextPart(t) \/ task' = [task EXCEPT ![t] = NoTask]
  BY DEF SetRequirements, history
<1>3. \/ UNCHANGED value_req
      \/ value_req' = [value_req EXCEPT ![d] = @ \cup {task[t].id}]
      \/ value_req' = [value_req EXCEPT ![d] = @ \ {task[t].id}]
  BY DEF SetRequirements
<1>4. value_req' \in [Values -> SUBSET Ids]
  <2> HIDE DEF d
  <2>1. /\ value_req \in [Values -> SUBSET Ids] /\ {task[t].id} \subseteq Ids
    BY <1>1 DEF RegionsTyped
  <2>2. CASE value_req' = [value_req EXCEPT ![d] = @ \cup {task[t].id}]
    BY <2>1, <2>2
  <2>3. CASE value_req' = [value_req EXCEPT ![d] = @ \ {task[t].id}]
    BY <2>1, <2>3
  <2> QED BY <1>3, <2>1, <2>2, <2>3
<1>5. OnlyTaskMoves(t) /\ TaskRight(t)'
  <2>1. CASE task' = NextPart(t)
    BY <1>1, <1>2, <2>1, NextPartRight DEF OnlyTaskMoves
  <2>2. CASE task' = [task EXCEPT ![t] = NoTask]
    BY <1>1, <1>2, <2>2, NoTaskType DEF OnlyTaskMoves, TaskRight, Locked, RegionsTyped
  <2> QED BY <1>2, <2>1, <2>2
<1>6. \A s \in Stats : ~Owes(t, s)
  BY <1>1 DEF Owes
<1> QED BY <1>1, <1>2, <1>4, <1>5, <1>6, QuietCaches, QuietProfiles, WorkStep DEF RegionsTyped

\* FillRegionStatsData and FillRegionHistogramData.
LEMMA FillValuesStep == ASSUME RegionsIInv, NEW t \in RegionTasks, FillValues(t) PROVE RegionsIInv'
<1>1. RegionsTyped /\ task[t].at = "start" /\ Part(t) \in Values /\ task[t].id \in Ids /\ TasksNamed
  BY DEF RegionsIInv, FillValues, RegionTaskAt, TasksNamed
<1>2. /\ UNCHANGED <<regions, object, created, region_frame, spectral_req, value_req, spectral_cache,
                     value_cache, main, messages>>
      /\ UNCHANGED <<profile_sent, stale, unsent, terminated>>
  BY DEF FillValues, OnlyTask, history
<1>3. OnlyTaskMoves(t) /\ TaskRight(t)'
  <2>1. CASE RegionFileIdsValid(task[t].id) /\ task[t].id \in value_req[Part(t)]
    <3>1. task' = RegionTaskGoto(t, "value")
      BY <2>1 DEF FillValues
    <3>2. /\ task' \in [RegionTasks -> TaskRecords]
          /\ \A u \in RegionTasks : u # t => task'[u] = task[u]
          /\ task'[t].at = "value" /\ task'[t].id = task[t].id /\ task'[t].todo = task[t].todo
      BY <1>1, <3>1, GotoEffect DEF TaskPlaces
    <3> QED BY <1>1, <1>2, <2>1, <3>2 DEF OnlyTaskMoves, TaskRight, Part, Locked, TasksNamed, RegionFileIdsValid,
                                         RegionSet, FrameSet
  <2>2. CASE ~(RegionFileIdsValid(task[t].id) /\ task[t].id \in value_req[Part(t)])
    <3>1. task' = NextPart(t)
      BY <2>2 DEF FillValues
    <3> QED BY <1>1, <1>2, <3>1, NextPartRight DEF OnlyTaskMoves
  <2> QED BY <2>1, <2>2
<1>4. \A s \in Stats : ~Owes(t, s)
  BY <1>1 DEF Owes, Values
<1> QED BY <1>1, <1>2, <1>3, <1>4, QuietCaches, QuietProfiles, WorkStep DEF RegionsTyped

LEMMA GetValueStep == ASSUME RegionsIInv, NEW t \in RegionTasks, GetValue(t) PROVE RegionsIInv'
<1>1. RegionsTyped /\ task[t].at = "value" /\ Part(t) \in Values /\ task[t].id \in Ids /\ TasksNamed
      /\ ObjectsHeld /\ TasksCurrent
  BY DEF RegionsIInv, GetValue, RegionTaskAt, TasksNamed
<1>2. /\ UNCHANGED <<regions, object, created, region_frame, spectral_req, value_req, spectral_cache,
                     value_cache, main, messages>>
      /\ UNCHANGED <<profile_sent, stale, unsent>> /\ terminated' \in BOOLEAN
  BY <1>1 DEF GetValue, OnlyTask, RegionsTyped
<1> DEFINE applied == IF RegionFileIdsValid(task[t].id) THEN PointsOf(task[t].id) ELSE NaNs
<1>3. \/ UNCHANGED task
      \/ task' = NextPart(t)
      \/ task' = [task EXCEPT ![t].of = applied, ![t].at = "keep"]
  BY Zenon DEF GetValue
<1>4. applied \in Results
  <2>1. RegionFileIdsValid(task[t].id) => regions[task[t].id] \in 1..MaxObjects
    BY <1>1, RegionsAssumption DEF RegionsTyped, RegionFileIdsValid, RegionSet
  <2> QED BY <1>1, <2>1 DEF RegionsTyped, PointsOf, Results
<1>5. OnlyTaskMoves(t) /\ TaskRight(t)'
  <2>1. CASE UNCHANGED task
    BY <1>1, <1>2, <2>1 DEF OnlyTaskMoves, RegionsTyped, TaskRight, Part, TasksNamed, ObjectsHeld, TasksCurrent,
                            RegionFileIdsValid, RegionSet, FrameSet, PointsOf
  <2>2. CASE task' = NextPart(t)
    BY <1>1, <1>2, <2>2, NextPartRight DEF OnlyTaskMoves
  <2>3. CASE task' = [task EXCEPT ![t].of = applied, ![t].at = "keep"]
    <3> DEFINE a == task[t]
               b == [a EXCEPT !.of = applied, !.at = "keep"]
    <3>1. a \in TaskRecords
      BY <1>1 DEF RegionsTyped
    <3>2. task'[t] = b /\ \A u \in RegionTasks : u # t => task'[u] = task[u]
      BY <1>1, <2>3 DEF RegionsTyped
    <3>3. /\ b \in TaskRecords /\ b.at = "keep" /\ b.id = a.id /\ b.todo = a.todo
          /\ b.overlap = a.overlap /\ b.of = applied
      <4> HIDE DEF a, applied
      <4> QED BY <1>4, <3>1 DEF TaskRecords, TaskPlaces
    <3>4. ~a.overlap => RegionFileIdsValid(a.id) /\ applied = PointsOf(a.id)
      BY <1>1 DEF TasksCurrent
    <3> HIDE DEF b, applied
    <3>5. OnlyTaskMoves(t)
      BY <1>1, <1>2, <2>3, <3>2, <3>3 DEF OnlyTaskMoves, RegionsTyped
    <3>6. TaskRight(t)'
      BY <1>1, <1>2, <3>2, <3>3, <3>4 DEF TaskRight, Part, Locked, TasksNamed, RegionFileIdsValid,
                                         RegionSet, FrameSet, PointsOf
    <3> QED BY <3>5, <3>6
  <2> QED BY <1>3, <2>1, <2>2, <2>3
<1>6. \A s \in Stats : ~Owes(t, s)
  BY <1>1 DEF Owes
<1> QED BY <1>1, <1>2, <1>5, <1>6, QuietCaches, QuietProfiles, WorkStep DEF RegionsTyped

LEMMA KeepValueStep == ASSUME RegionsIInv, NEW t \in RegionTasks, KeepValue(t) PROVE RegionsIInv'
<1>1. RegionsTyped /\ task[t].at = "keep" /\ Part(t) \in Values /\ task[t].id \in Ids /\ TasksNamed
      /\ ObjectsHeld /\ TasksCurrent
  BY DEF RegionsIInv, KeepValue, RegionTaskAt, TasksNamed
<1>2. /\ UNCHANGED <<regions, object, created, region_frame, spectral_req, value_req, spectral_cache,
                     main, messages, profile_sent, unsent>>
      /\ terminated' \in BOOLEAN
  BY <1>1 DEF KeepValue, RegionsTyped
<1>3. \/ UNCHANGED <<task, value_cache, stale>>
      \/ /\ value_cache' = [value_cache EXCEPT ![Part(t)][task[t].id] = task[t].of]
         /\ Late(t) /\ task' = NextPart(t)
  BY DEF KeepValue
<1>4. OnlyTaskMoves(t) /\ TaskRight(t)'
  <2>1. CASE UNCHANGED task
    BY <1>1, <1>2, <2>1 DEF OnlyTaskMoves, RegionsTyped, TaskRight, Part, TasksNamed, ObjectsHeld, TasksCurrent,
                            RegionFileIdsValid, RegionSet, FrameSet, PointsOf
  <2>2. CASE task' = NextPart(t)
    BY <1>1, <1>2, <2>2, NextPartRight DEF OnlyTaskMoves
  <2> QED BY <1>3, <2>1, <2>2
<1>5. CachesRight
  <2>1. CASE UNCHANGED <<task, value_cache, stale>>
    BY <1>1, <1>2, <2>1, QuietCaches DEF RegionsTyped
  <2>2. CASE /\ value_cache' = [value_cache EXCEPT ![Part(t)][task[t].id] = task[t].of]
             /\ Late(t)
    <3>1. task[t].of \in Results
      BY <1>1 DEF RegionsTyped, TaskRecords
    <3>2. value_cache' \in [Values -> [Ids -> Results]]
      BY <1>1, <2>2, <3>1 DEF RegionsTyped
    <3>3. \A d \in Values, id \in Ids :
             value_cache'[d][id] = IF d = Part(t) /\ id = task[t].id THEN task[t].of ELSE value_cache[d][id]
      BY <1>1, <2>2 DEF RegionsTyped
    <3>4. ~task[t].overlap => regions[task[t].id] # 0 /\ task[t].of = PointsOf(task[t].id)
      BY <1>1 DEF TasksCurrent, RegionFileIdsValid, RegionSet
    <3>5. stale' \subseteq Ids /\ stale \subseteq stale' /\ (task[t].overlap => task[t].id \in stale')
      BY <1>1, <2>2 DEF Late, RegionsTyped
    <3> QED BY <1>1, <1>2, <3>2, <3>3, <3>4, <3>5 DEF CachesRight, RegionsTyped
  <2> QED BY <1>3, <2>1, <2>2
<1>6. \A s \in Stats : ~Owes(t, s)
  BY <1>1 DEF Owes
<1> QED BY <1>1, <1>2, <1>4, <1>5, <1>6, QuietProfiles, WorkStep

-----------------------------------------------------------------------------
\* What a step of the main thread does with the tasks: those of new are made,
\* the others may be marked.
TasksStay(new) ==
    /\ task' \in [RegionTasks -> TaskRecords]
    /\ \A u \in new : /\ task[u].at = "free" /\ task'[u].at = "start"
                      /\ task'[u].id \in Ids /\ task'[u].todo \in Todos \ {<< >>}
    /\ \A u \in RegionTasks \ new :
          /\ task'[u].id = task[u].id /\ task'[u].todo = task[u].todo /\ task'[u].at = task[u].at
          /\ task'[u].need = task[u].need /\ task'[u].obj = task[u].obj /\ task'[u].of = task[u].of
          /\ task'[u].initial = task[u].initial /\ (task'[u].tardy <=> task[u].tardy)
          /\ task[u].overlap => task'[u].overlap

LEMMA SameTasks == ASSUME RegionsTyped, UNCHANGED task PROVE TasksStay({})
BY DEF RegionsTyped, TasksStay

LEMMA MarkedTasks ==
    ASSUME RegionsTyped, NEW ids \in SUBSET Ids, task' = Overlap(ids)
    PROVE  /\ TasksStay({})
           /\ \A u \in RegionTasks : (task[u].id \in ids /\ task[u].at # "free") => task'[u].overlap
BY OverlapEffect DEF TasksStay

LEMMA NewTasks ==
    ASSUME RegionsTyped, NEW t \in RegionTasks, task[t].at = "free", NEW id \in Ids, NEW parts \in Todos \ {<< >>},
           task' = NewTask(task, t, id, parts)
    PROVE  /\ TasksStay({t}) /\ task'[t].at = "start" /\ task'[t].id = id /\ task'[t].todo = parts
<1>1. /\ task' \in [RegionTasks -> TaskRecords]
      /\ \A u \in RegionTasks : u # t => task'[u] = task[u]
      /\ task'[t].at = "start" /\ task'[t].id = id /\ task'[t].todo = parts
  BY NewTaskEffect
<1> QED BY <1>1 DEF TasksStay

LEMMA StayNamed ==
    ASSUME RegionsIInv, NEW new \in SUBSET RegionTasks, TasksStay(new)
    PROVE  TasksNamed'
BY DEF RegionsIInv, TasksNamed, TasksStay, Part

LEMMA StayOwes ==
    ASSUME RegionsIInv, NEW new \in SUBSET RegionTasks, TasksStay(new), NEW u \in RegionTasks, NEW s,
           Owes(u, s),
           task[u].at = "start" => s \in spectral_req'[task[u].id].new,
           task[u].at = "calculate" => object'[task[u].obj].points = object[task[u].obj].points
    PROVE  task'[u].id = task[u].id /\ Owes(u, s)'
<1>1. u \notin new
  BY DEF Owes, TasksStay
<1>2. /\ task'[u].id = task[u].id /\ task'[u].todo = task[u].todo /\ task'[u].at = task[u].at
      /\ task'[u].need = task[u].need /\ task'[u].obj = task[u].obj
      /\ task'[u].initial = task[u].initial
  BY <1>1 DEF TasksStay
<1> QED BY <1>2 DEF Owes, Part

\* The objects of regions are left alone.
LEMMA StayHeld ==
    ASSUME RegionsIInv, NEW new \in SUBSET RegionTasks, TasksStay(new),
           UNCHANGED <<regions, object, created, region_frame>>
    PROVE  (ObjectsOwned /\ ObjectsHeld /\ TasksCurrent)'
<1>1. ObjectsOwned'
  BY DEF RegionsIInv, ObjectsOwned
<1>2. ObjectsHeld'
  BY DEF RegionsIInv, ObjectsHeld, TasksStay, Locked
<1>3. TasksCurrent'
  <2> SUFFICES ASSUME NEW t \in RegionTasks, task'[t].at \in {"value", "keep", "send", "store"}, ~task'[t].overlap
               PROVE  /\ RegionFileIdsValid(task'[t].id)
                      /\ task'[t].at # "value" => task'[t].of = PointsOf(task'[t].id)
    BY DEF TasksCurrent, RegionFileIdsValid, RegionSet, FrameSet, PointsOf
  <2>1. /\ task'[t].id = task[t].id /\ task'[t].at = task[t].at /\ task'[t].of = task[t].of
        /\ ~task[t].overlap
    BY DEF TasksStay
  <2> QED BY <2>1 DEF RegionsIInv, TasksCurrent
<1> QED BY <1>1, <1>2, <1>3

\* The types of what a message of the main thread always changes.
LEMMA ReceiveType ==
    ASSUME RegionsTyped, ReceiveRegionMessage
    PROVE  messages' \in 0..MaxRegionMessages /\ main.at = "idle" /\ main.id = 0
BY RegionsAssumption DEF RegionsTyped, ReceiveRegionMessage, IdleRegionTask

\* What a step of the main thread leaves as it is.
LEMMA StayProfiles ==
    ASSUME RegionsIInv, NEW new \in SUBSET RegionTasks, TasksStay(new),
           UNCHANGED <<regions, object, region_frame, spectral_req, profile_sent, stale, unsent>>,
           NEW id \in Ids \ (stale \cup unsent), RegionFileIdsValid(id),
           ~(main.id = id /\ main.at \in {"renew", "clear", "stream"})
    PROVE  \A s \in spectral_req'[id].all :
              \/ profile_sent'[id][s] = PointsOf(id)
              \/ \E t \in RegionTasks : task'[t].id = id /\ Owes(t, s)'
<1> SUFFICES ASSUME NEW s \in spectral_req[id].all, profile_sent[id][s] # PointsOf(id)
             PROVE  \E t \in RegionTasks : task'[t].id = id /\ Owes(t, s)'
  OBVIOUS
<1>1. PICK u \in RegionTasks : task[u].id = id /\ Owes(u, s)
  BY DEF RegionsIInv, ProfilesOwed
<1>2. task[u].at = "start" => s \in spectral_req'[task[u].id].new
  BY <1>1 DEF Owes
<1> QED BY <1>1, <1>2, StayOwes

LEMMA RequireMessage ==
    ASSUME RegionsIInv, NEW t \in RegionTasks, NEW id \in Ids, NEW d \in Values, SetValueRequirements(t, id, d)
    PROVE  RegionsIInv'
<1>1. RegionsTyped /\ MainKnows /\ CachesCurrent /\ NothingRequired
  BY DEF RegionsIInv
<1>2. /\ UNCHANGED <<regions, object, created, region_frame, spectral_req, value_req, spectral_cache,
                     value_cache, main>>
      /\ UNCHANGED <<profile_sent, stale, unsent, terminated>>
      /\ task[t].at = "free" /\ task' = NewTask(task, t, id, <<"require", d>>)
  BY DEF SetValueRequirements, history
<1>3. messages' \in 0..MaxRegionMessages /\ main.at = "idle" /\ main.id = 0
  BY <1>1, ReceiveType DEF SetValueRequirements
<1>4. TasksStay({t})
  <2> DEFINE parts == <<"require", d>>
  <2>1. parts \in Todos \ {<< >>}
    BY TodoParts
  <2>2. RegionsTyped /\ task[t].at = "free" /\ task' = NewTask(task, t, id, parts)
    BY <1>1, <1>2
  <2> HIDE DEF parts
  <2> QED BY <2>1, <2>2, NewTasks
<1>5. (TasksNamed /\ ObjectsOwned /\ ObjectsHeld /\ TasksCurrent)'
  BY <1>2, <1>4, StayNamed, StayHeld
<1>6. RegionsTyped'
  BY <1>1, <1>2, <1>3, <1>4 DEF RegionsTyped, TasksStay
<1>7. (MainKnows /\ CachesCurrent /\ NothingRequired)'
  BY <1>1, <1>2 DEF MainKnows, CachesCurrent, NothingRequired, RegionSet, HoldsOnly, PointsOf
<1>8. ProfilesOwed'
  <2> SUFFICES ASSUME NEW i \in Ids \ (stale \cup unsent), RegionFileIdsValid(i)
               PROVE  \A s \in spectral_req'[i].all :
                         \/ profile_sent'[i][s] = PointsOf(i)
                         \/ \E u \in RegionTasks : task'[u].id = i /\ Owes(u, s)'
    BY <1>2 DEF ProfilesOwed, RegionFileIdsValid, RegionSet, FrameSet, PointsOf
  <2> QED BY <1>2, <1>3, <1>4, StayProfiles
<1> QED BY <1>5, <1>6, <1>7, <1>8 DEF RegionsIInv

\* The data streams of a changed region: all that is required of it is new.
LEMMA QueueStep == ASSUME RegionsIInv, NEW t \in RegionTasks, QueueStreams(t) PROVE RegionsIInv'
<1>1. RegionsTyped /\ MainKnows /\ CachesCurrent /\ NothingRequired
  BY DEF RegionsIInv
<1>2. /\ UNCHANGED <<regions, object, created, region_frame, spectral_req, value_req, spectral_cache,
                     value_cache, messages>>
      /\ UNCHANGED <<profile_sent, stale, unsent, terminated>>
      /\ task[t].at = "free" /\ task' = NewTask(task, t, main.id, Stream)
      /\ main.at = "stream" /\ main' = IdleRegionTask
  BY DEF QueueStreams, history
<1>3. main.id \in Ids /\ regions[main.id] # 0
  BY <1>1, <1>2, RegionsAssumption DEF MainKnows, RegionsTyped, Ids, RegionSet
<1>4. /\ TasksStay({t})
      /\ task'[t].at = "start" /\ task'[t].id = main.id /\ task'[t].todo = Stream
  <2>1. Stream \in Todos \ {<< >>}
    BY TodoParts
  <2>2. RegionsTyped /\ main.id \in Ids /\ task[t].at = "free" /\ task' = NewTask(task, t, main.id, Stream)
    BY <1>1, <1>2, <1>3
  <2> QED BY <2>1, <2>2, NewTasks
<1>5. (TasksNamed /\ ObjectsOwned /\ ObjectsHeld /\ TasksCurrent)'
  BY <1>2, <1>4, StayNamed, StayHeld
<1>6. main'.at = "idle" /\ main'.id = 0
      /\ main' \in [at : {"idle", "renew", "clear", "stream", "erase", "purge", "close"}, id : 0..MaxObjects]
  BY <1>2, RegionsAssumption DEF IdleRegionTask
<1>7. RegionsTyped'
  BY <1>1, <1>2, <1>4, <1>6 DEF RegionsTyped, TasksStay
<1>8. (MainKnows /\ CachesCurrent /\ NothingRequired)'
  BY <1>1, <1>2, <1>3, <1>6 DEF MainKnows, CachesCurrent, NothingRequired, RegionSet, HoldsOnly, PointsOf, Ids
<1>9. ProfilesOwed'
  <2> SUFFICES ASSUME NEW i \in Ids \ (stale \cup unsent), RegionFileIdsValid(i), NEW s \in spectral_req[i].all
               PROVE  \/ profile_sent[i][s] = PointsOf(i)
                      \/ \E u \in RegionTasks : task'[u].id = i /\ Owes(u, s)'
    BY <1>2 DEF ProfilesOwed, RegionFileIdsValid, RegionSet, FrameSet, PointsOf
  <2>1. \/ profile_sent[i][s] = PointsOf(i)
        \/ main.id = i /\ s \in spectral_req[i].new
        \/ \E u \in RegionTasks : task[u].id = i /\ Owes(u, s)
    BY <1>2 DEF RegionsIInv, ProfilesOwed
  <2>2. CASE main.id = i /\ s \in spectral_req[i].new
    BY <1>2, <1>4, <2>2, TodoParts DEF Owes, Part
  <2>3. CASE \E u \in RegionTasks : task[u].id = i /\ Owes(u, s)
    <3>1. PICK u \in RegionTasks : task[u].id = i /\ Owes(u, s)
      BY <2>3
    <3>2. task[u].at = "start" => s \in spectral_req'[task[u].id].new
      BY <1>2, <3>1 DEF Owes
    <3> QED BY <1>2, <1>4, <3>1, <3>2, StayOwes
  <2> QED BY <2>1, <2>2, <2>3
<1> QED BY <1>5, <1>7, <1>8, <1>9 DEF RegionsIInv

LEMMA RenewStep == ASSUME RegionsIInv, UpdateNewSpectralRequirements PROVE RegionsIInv'
<1>1. RegionsTyped /\ MainKnows /\ CachesCurrent /\ NothingRequired
  BY DEF RegionsIInv
<1> DEFINE all == spectral_req[main.id].all
<1>2. /\ UNCHANGED <<regions, object, created, region_frame, value_req, spectral_cache,
                     value_cache, task, messages>>
      /\ UNCHANGED <<profile_sent, stale, unsent, terminated>>
      /\ spectral_req' = [spectral_req EXCEPT ![main.id].new = all]
      /\ main.at = "renew" /\ main' = [main EXCEPT !.at = "clear"]
  BY DEF UpdateNewSpectralRequirements, history
<1>3. main.id \in Ids /\ regions[main.id] # 0 /\ RegionSet(main.id)
  BY <1>1, <1>2, RegionsAssumption DEF MainKnows, RegionsTyped, Ids, RegionSet
<1>4. main'.at = "clear" /\ main'.id = main.id
      /\ main' \in [at : {"idle", "renew", "clear", "stream", "erase", "purge", "close"}, id : 0..MaxObjects]
  BY <1>1, <1>2 DEF RegionsTyped
<1>5. /\ spectral_req' \in [Ids -> [all : SUBSET Stats, new : SUBSET Stats]]
      /\ spectral_req'[main.id].new = all /\ \A i \in Ids : spectral_req'[i].all = spectral_req[i].all
      /\ \A i \in Ids : i # main.id => spectral_req'[i] = spectral_req[i]
  <2>1. /\ spectral_req \in [Ids -> [all : SUBSET Stats, new : SUBSET Stats]]
        /\ spectral_req[main.id] \in [all : SUBSET Stats, new : SUBSET Stats]
    BY <1>1, <1>3 DEF RegionsTyped
  <2> DEFINE r == [spectral_req[main.id] EXCEPT !.new = all]
  <2>2. r \in [all : SUBSET Stats, new : SUBSET Stats] /\ r.new = all /\ r.all = all
    BY <2>1
  <2>3. spectral_req' = [spectral_req EXCEPT ![main.id] = r]
    BY <1>2, <1>3, <2>1
  <2> HIDE DEF r, all
  <2>4. \A i \in Ids : spectral_req'[i] = IF i = main.id THEN r ELSE spectral_req[i]
    BY <2>1, <2>3
  <2>5. spectral_req' \in [Ids -> [all : SUBSET Stats, new : SUBSET Stats]]
    BY <1>3, <2>1, <2>2, <2>3
  <2> QED BY <1>3, <2>2, <2>4, <2>5 DEF all
<1>6. TasksStay({})
  BY <1>1, <1>2, SameTasks
<1>7. (TasksNamed /\ ObjectsOwned /\ ObjectsHeld /\ TasksCurrent)'
  BY <1>2, <1>6, StayNamed, StayHeld
<1>8. RegionsTyped'
  BY <1>1, <1>2, <1>4, <1>5 DEF RegionsTyped
<1>9. (MainKnows /\ CachesCurrent /\ NothingRequired)'
  BY <1>1, <1>2, <1>3, <1>4, <1>5 DEF MainKnows, CachesCurrent, NothingRequired, RegionSet, HoldsOnly, PointsOf, Ids
<1>10. ProfilesOwed'
  <2> SUFFICES ASSUME NEW i \in Ids \ (stale \cup unsent), RegionFileIdsValid(i), i # main.id,
                      NEW s \in spectral_req[i].all
               PROVE  \/ profile_sent[i][s] = PointsOf(i)
                      \/ \E u \in RegionTasks : task'[u].id = i /\ Owes(u, s)'
    BY <1>2, <1>4, <1>5 DEF ProfilesOwed, RegionFileIdsValid, RegionSet, FrameSet, PointsOf
  <2>1. \/ profile_sent[i][s] = PointsOf(i)
        \/ \E u \in RegionTasks : task[u].id = i /\ Owes(u, s)
    BY <1>2 DEF RegionsIInv, ProfilesOwed
  <2>2. CASE \E u \in RegionTasks : task[u].id = i /\ Owes(u, s)
    <3>1. PICK u \in RegionTasks : task[u].id = i /\ Owes(u, s)
      BY <2>2
    <3>2. task[u].at = "start" => s \in spectral_req'[task[u].id].new
      BY <1>5, <3>1 DEF Owes
    <3> QED BY <1>2, <1>6, <3>1, <3>2, StayOwes
  <2> QED BY <2>1, <2>2
<1> QED BY <1>7, <1>8, <1>9, <1>10 DEF RegionsIInv

LEMMA ClearStep == ASSUME RegionsIInv, ClearRegionCache PROVE RegionsIInv'
<1>1. RegionsTyped /\ MainKnows /\ CachesCurrent /\ NothingRequired
  BY DEF RegionsIInv
<1>2. /\ UNCHANGED <<regions, object, created, region_frame, spectral_req, value_req, task, messages,
                     profile_sent, unsent, terminated>>
      /\ main.at = "clear" /\ main' = [main EXCEPT !.at = "stream"]
      /\ stale' = stale \ {main.id}
      /\ spectral_cache' = [spectral_cache EXCEPT ![main.id] = Nothing]
      /\ value_cache' = [d \in Values |-> [value_cache[d] EXCEPT ![main.id] = Nothing]]
  BY DEF ClearRegionCache
<1>3. /\ main.id \in Ids /\ regions[main.id] # 0 /\ RegionSet(main.id)
      /\ spectral_req[main.id].new = spectral_req[main.id].all
  BY <1>1, <1>2, RegionsAssumption DEF MainKnows, RegionsTyped, Ids, RegionSet
<1>4. main'.at = "stream" /\ main'.id = main.id
      /\ main' \in [at : {"idle", "renew", "clear", "stream", "erase", "purge", "close"}, id : 0..MaxObjects]
  BY <1>1, <1>2 DEF RegionsTyped
<1>5. /\ spectral_cache' \in [Ids -> Results] /\ value_cache' \in [Values -> [Ids -> Results]]
      /\ \A i \in Ids : spectral_cache'[i] = IF i = main.id THEN Nothing ELSE spectral_cache[i]
      /\ \A i \in Ids, d \in Values : value_cache'[d][i] = IF i = main.id THEN Nothing ELSE value_cache[d][i]
  BY <1>1, <1>2 DEF RegionsTyped, Results
<1>6. TasksStay({})
  BY <1>1, <1>2, SameTasks
<1>7. (TasksNamed /\ ObjectsOwned /\ ObjectsHeld /\ TasksCurrent)'
  BY <1>2, <1>6, StayNamed, StayHeld
<1>8. RegionsTyped'
  BY <1>1, <1>2, <1>4, <1>5 DEF RegionsTyped
<1>9. (MainKnows /\ NothingRequired)'
  BY <1>1, <1>2, <1>3, <1>4 DEF MainKnows, NothingRequired, RegionSet, Ids
<1>10. CachesCurrent'
  BY <1>1, <1>2, <1>3, <1>4, <1>5, SMTT(30) DEF CachesCurrent, HoldsOnly, PointsOf
<1>11. ProfilesOwed'
  <2> SUFFICES ASSUME NEW i \in Ids \ (stale \cup unsent), RegionFileIdsValid(i), i # main.id,
                      NEW s \in spectral_req[i].all
               PROVE  \/ profile_sent[i][s] = PointsOf(i)
                      \/ \E u \in RegionTasks : task'[u].id = i /\ Owes(u, s)'
    BY <1>2, <1>3, <1>4 DEF ProfilesOwed, RegionFileIdsValid, RegionSet, FrameSet, PointsOf
  <2>1. \/ profile_sent[i][s] = PointsOf(i)
        \/ \E u \in RegionTasks : task[u].id = i /\ Owes(u, s)
    BY <1>2 DEF RegionsIInv, ProfilesOwed
  <2>2. CASE \E u \in RegionTasks : task[u].id = i /\ Owes(u, s)
    <3>1. PICK u \in RegionTasks : task[u].id = i /\ Owes(u, s)
      BY <2>2
    <3>2. task[u].at = "start" => s \in spectral_req'[task[u].id].new
      BY <1>2, <3>1 DEF Owes
    <3> QED BY <1>2, <1>6, <3>1, <3>2, StayOwes
  <2> QED BY <2>1, <2>2
<1> QED BY <1>7, <1>8, <1>9, <1>10, <1>11 DEF RegionsIInv

-----------------------------------------------------------------------------
\* A region is erased when no task holds its mutex.
LEMMA EraseStep == ASSUME RegionsIInv, EraseRegion PROVE RegionsIInv'
<1>1. RegionsTyped /\ MainKnows /\ CachesCurrent /\ NothingRequired /\ ObjectsOwned /\ ObjectsHeld
      /\ TasksCurrent
  BY DEF RegionsIInv
<1>2. /\ UNCHANGED <<object, created, region_frame, spectral_req, value_req, spectral_cache, value_cache,
                     task, messages>>
      /\ UNCHANGED <<profile_sent, stale, unsent, terminated>>
      /\ main.at = "erase" /\ main' = [main EXCEPT !.at = "purge"]
      /\ regions' = [regions EXCEPT ![main.id] = 0] /\ RegionUsers(regions[main.id]) = {}
  BY DEF EraseRegion, history
<1>3. main.id \in Ids /\ regions[main.id] # 0 /\ ~RegionSet(main.id)
  BY <1>1, <1>2, RegionsAssumption DEF MainKnows, RegionsTyped, Ids, RegionSet
<1>4. main'.at = "purge" /\ main'.id = main.id
      /\ main' \in [at : {"idle", "renew", "clear", "stream", "erase", "purge", "close"}, id : 0..MaxObjects]
  BY <1>1, <1>2 DEF RegionsTyped
<1>5. /\ regions' \in [Ids -> 0..MaxObjects]
      /\ \A i \in Ids : regions'[i] = IF i = main.id THEN 0 ELSE regions[i]
  BY <1>1, <1>2, <1>3, RegionsAssumption DEF RegionsTyped
<1>6. TasksStay({})
  BY <1>1, <1>2, SameTasks
<1>7. TasksNamed'
  BY <1>2, <1>6, StayNamed
<1>8. ObjectsOwned'
  <2>1. created \in Nat
    BY <1>1, RegionsAssumption DEF RegionsTyped
  <2> QED BY <1>1, <1>2, <1>5, <2>1 DEF ObjectsOwned
<1>9. ObjectsHeld'
  <2> SUFFICES ASSUME NEW t \in RegionTasks, task[t].at \in Locked \cup {"lock"}
               PROVE  /\ task[t].obj \in 1..created
                      /\ \A i \in Ids : regions'[i] = task[t].obj => i = task[t].id
                      /\ \/ task[t].at = "lock" /\ ~object[task[t].obj].connected
                         \/ task[t].at # "lock" /\ task[t].tardy
                         \/ regions'[task[t].id] = task[t].obj
    BY <1>2 DEF ObjectsHeld
  <2>1. /\ task[t].obj \in 1..created
        /\ \A i \in Ids : regions[i] = task[t].obj => i = task[t].id
        /\ \/ task[t].at = "lock" /\ ~object[task[t].obj].connected
           \/ task[t].at # "lock" /\ task[t].tardy
           \/ regions[task[t].id] = task[t].obj
    BY <1>1 DEF ObjectsHeld
  <2>2. task[t].obj # 0 /\ task[t].id \in Ids
    BY <1>1, <2>1, RegionsAssumption, SMTT(30) DEF RegionsTyped, RegionsIInv, TasksNamed, Locked
  <2>3. CASE task[t].id = main.id /\ regions[main.id] = task[t].obj
    <3>1. task[t].at = "lock"
      BY <1>2, <2>3 DEF RegionUsers
    <3>2. ~object[task[t].obj].connected
      BY <1>3, <2>3 DEF RegionSet
    <3> QED BY <1>5, <2>1, <2>2, <3>1, <3>2
  <2> QED BY <1>5, <2>1, <2>2, <2>3
<1>10. TasksCurrent'
  <2> SUFFICES ASSUME NEW t \in RegionTasks, task[t].at \in {"value", "keep", "send", "store"}, ~task[t].overlap
               PROVE  /\ regions'[task[t].id] # 0 /\ object[regions'[task[t].id]].connected
                      /\ region_frame = "open"
                      /\ task[t].at # "value" => task[t].of = object[regions'[task[t].id]].points
    BY <1>2 DEF TasksCurrent, RegionFileIdsValid, RegionSet, FrameSet, PointsOf
  <2>1. task[t].id \in Ids
    BY DEF RegionsIInv, TasksNamed
  <2>2. task[t].id # main.id
    BY <1>1, <1>3 DEF TasksCurrent, RegionFileIdsValid
  <2> QED BY <1>1, <1>5, <2>1, <2>2 DEF TasksCurrent, RegionFileIdsValid, RegionSet, FrameSet, PointsOf
<1>11. RegionsTyped'
  BY <1>1, <1>2, <1>4, <1>5 DEF RegionsTyped
<1>12. (MainKnows /\ NothingRequired)'
  BY <1>1, <1>2, <1>3, <1>4, <1>5 DEF MainKnows, NothingRequired, Ids
<1>13. CachesCurrent'
  BY <1>1, <1>2, <1>4, <1>5 DEF CachesCurrent, HoldsOnly, PointsOf
<1>14. ProfilesOwed'
  <2> SUFFICES ASSUME NEW i \in Ids \ (stale \cup unsent), i # main.id, RegionFileIdsValid(i),
                      NEW s \in spectral_req[i].all
               PROVE  \/ profile_sent[i][s] = PointsOf(i)
                      \/ \E u \in RegionTasks : task'[u].id = i /\ Owes(u, s)'
    BY <1>2, <1>4, <1>5 DEF ProfilesOwed, RegionFileIdsValid, RegionSet, FrameSet, PointsOf
  <2>1. \/ profile_sent[i][s] = PointsOf(i)
        \/ \E u \in RegionTasks : task[u].id = i /\ Owes(u, s)
    BY <1>2 DEF RegionsIInv, ProfilesOwed
  <2>2. CASE \E u \in RegionTasks : task[u].id = i /\ Owes(u, s)
    <3>1. PICK u \in RegionTasks : task[u].id = i /\ Owes(u, s)
      BY <2>2
    <3>2. task[u].at = "start" => s \in spectral_req'[task[u].id].new
      BY <1>2, <3>1 DEF Owes
    <3> QED BY <1>2, <1>6, <3>1, <3>2, StayOwes
  <2> QED BY <2>1, <2>2
<1> QED BY <1>7, <1>8, <1>9, <1>10, <1>11, <1>12, <1>13, <1>14 DEF RegionsIInv

LEMMA PurgeStep == ASSUME RegionsIInv, RemoveRegionRequirementsCache PROVE RegionsIInv'
<1>1. RegionsTyped /\ MainKnows /\ CachesCurrent /\ NothingRequired
  BY DEF RegionsIInv
<1>2. /\ UNCHANGED <<regions, object, created, region_frame, task, messages, terminated>>
      /\ main.at = "purge" /\ main' = IdleRegionTask
      /\ stale' = stale \ {main.id} /\ unsent' = unsent \ {main.id}
      /\ spectral_req' = [spectral_req EXCEPT ![main.id] = [all |-> {}, new |-> {}]]
      /\ value_req' = [d \in Values |-> value_req[d] \ {main.id}]
      /\ spectral_cache' = [spectral_cache EXCEPT ![main.id] = Nothing]
      /\ value_cache' = [d \in Values |-> [value_cache[d] EXCEPT ![main.id] = Nothing]]
      /\ profile_sent' = [profile_sent EXCEPT ![main.id] = [s \in Stats |-> Nothing]]
  BY DEF RemoveRegionRequirementsCache
<1>3. main.id \in Ids /\ regions[main.id] = 0
  BY <1>1, <1>2, RegionsAssumption DEF MainKnows, RegionsTyped, Ids
<1>4. main'.at = "idle" /\ main'.id = 0
      /\ main' \in [at : {"idle", "renew", "clear", "stream", "erase", "purge", "close"}, id : 0..MaxObjects]
  BY <1>2, RegionsAssumption DEF IdleRegionTask
<1>5. /\ spectral_cache' \in [Ids -> Results] /\ value_cache' \in [Values -> [Ids -> Results]]
      /\ \A i \in Ids : spectral_cache'[i] = IF i = main.id THEN Nothing ELSE spectral_cache[i]
      /\ \A i \in Ids, d \in Values : value_cache'[d][i] = IF i = main.id THEN Nothing ELSE value_cache[d][i]
  BY <1>1, <1>2 DEF RegionsTyped, Results
<1>6. /\ spectral_req' \in [Ids -> [all : SUBSET Stats, new : SUBSET Stats]]
      /\ spectral_req'[main.id].all = {}
      /\ \A i \in Ids : i # main.id => spectral_req'[i] = spectral_req[i]
  BY <1>1, <1>2, <1>3 DEF RegionsTyped
<1>7. /\ profile_sent' \in [Ids -> [Stats -> Results]]
      /\ \A i \in Ids : i # main.id => profile_sent'[i] = profile_sent[i]
  BY <1>1, <1>2 DEF RegionsTyped, Results
<1>8. TasksStay({})
  BY <1>1, <1>2, SameTasks
<1>9. (TasksNamed /\ ObjectsOwned /\ ObjectsHeld /\ TasksCurrent)'
  BY <1>2, <1>8, StayNamed, StayHeld
<1>10. RegionsTyped'
  <2>1. value_req' \in [Values -> SUBSET Ids] /\ stale' \subseteq Ids /\ unsent' \subseteq Ids
    BY <1>1, <1>2 DEF RegionsTyped
  <2> QED BY <1>1, <1>2, <1>4, <1>5, <1>6, <1>7, <2>1 DEF RegionsTyped
<1>11. (MainKnows /\ NothingRequired)'
  BY <1>1, <1>2, <1>3, <1>4, <1>6 DEF MainKnows, NothingRequired, Ids
<1>12. CachesCurrent'
  BY <1>1, <1>2, <1>3, <1>4, <1>5, SMTT(30) DEF CachesCurrent, HoldsOnly, PointsOf
<1>13. ProfilesOwed'
  <2> SUFFICES ASSUME NEW i \in Ids \ (stale \cup unsent), i # main.id, RegionFileIdsValid(i),
                      NEW s \in spectral_req[i].all
               PROVE  \/ profile_sent[i][s] = PointsOf(i)
                      \/ \E u \in RegionTasks : task'[u].id = i /\ Owes(u, s)'
    BY <1>2, <1>3, <1>4, <1>6, <1>7 DEF ProfilesOwed, RegionFileIdsValid, RegionSet, FrameSet, PointsOf
  <2>1. \/ profile_sent[i][s] = PointsOf(i)
        \/ \E u \in RegionTasks : task[u].id = i /\ Owes(u, s)
    BY <1>2 DEF RegionsIInv, ProfilesOwed
  <2>2. CASE \E u \in RegionTasks : task[u].id = i /\ Owes(u, s)
    <3>1. PICK u \in RegionTasks : task[u].id = i /\ Owes(u, s)
      BY <2>2
    <3>2. task[u].at = "start" => s \in spectral_req'[task[u].id].new
      BY <1>6, <3>1 DEF Owes
    <3> QED BY <1>2, <1>8, <3>1, <3>2, StayOwes
  <2> QED BY <2>1, <2>2
<1> QED BY <1>9, <1>10, <1>11, <1>12, <1>13 DEF RegionsIInv

\* The tasks of a region that is removed overlap with it.
LEMMA DisconnectStep == ASSUME RegionsIInv, NEW id \in Ids, DisconnectRegion(id) PROVE RegionsIInv'
<1>1. RegionsTyped /\ MainKnows /\ CachesCurrent /\ NothingRequired /\ ObjectsOwned /\ ObjectsHeld
      /\ TasksCurrent /\ TasksNamed
  BY DEF RegionsIInv
<1> DEFINE o == regions[id]
<1>2. /\ UNCHANGED <<regions, created, region_frame, spectral_req, value_req, spectral_cache, value_cache>>
      /\ UNCHANGED <<profile_sent, stale, unsent, terminated>>
      /\ object' = [object EXCEPT ![o].connected = FALSE]
      /\ task' = Overlap({id}) /\ main' = [at |-> "erase", id |-> id] /\ RegionSet(id)
  BY DEF DisconnectRegion, history
<1>3. messages' \in 0..MaxRegionMessages /\ main.at = "idle" /\ main.id = 0
  BY <1>1, ReceiveType DEF DisconnectRegion
<1>4. o \in 1..MaxObjects /\ o # 0
  BY <1>1, <1>2, RegionsAssumption DEF RegionsTyped, RegionSet
<1>5. main'.at = "erase" /\ main'.id = id /\ id # 0
      /\ main' \in [at : {"idle", "renew", "clear", "stream", "erase", "purge", "close"}, id : 0..MaxObjects]
  BY <1>2, RegionsAssumption DEF Ids
<1>6. /\ object' \in [1..MaxObjects -> [points : Points \cup {Nothing}, connected : BOOLEAN]]
      /\ ~object'[o].connected /\ \A i \in 1..MaxObjects : object'[i].points = object[i].points
      /\ \A i \in 1..MaxObjects : i # o => object'[i] = object[i]
  <2> DEFINE c == [object[o] EXCEPT !.connected = FALSE]
  <2>1. /\ object \in [1..MaxObjects -> [points : Points \cup {Nothing}, connected : BOOLEAN]]
        /\ object[o] \in [points : Points \cup {Nothing}, connected : BOOLEAN]
    BY <1>1, <1>4 DEF RegionsTyped
  <2>2. c \in [points : Points \cup {Nothing}, connected : BOOLEAN] /\ ~c.connected /\ c.points = object[o].points
    BY <2>1
  <2>3. object' = [object EXCEPT ![o] = c]
    BY <1>2, <1>4, <2>1
  <2> HIDE DEF c, o
  <2> QED BY <1>4, <2>1, <2>2, <2>3
<1>7. /\ TasksStay({})
      /\ \A u \in RegionTasks : (task[u].id = id /\ task[u].at # "free") => task'[u].overlap
  BY <1>1, <1>2, MarkedTasks
<1>8. TasksNamed'
  BY <1>7, StayNamed
<1>9. ObjectsOwned'
  BY <1>1, <1>2 DEF ObjectsOwned
<1> HIDE DEF o
<1>10. ObjectsHeld'
  <2> SUFFICES ASSUME NEW t \in RegionTasks, task'[t].at \in Locked \cup {"lock"}
               PROVE  /\ task'[t].obj \in 1..created
                      /\ \A i \in Ids : regions[i] = task'[t].obj => i = task'[t].id
                      /\ \/ task'[t].at = "lock" /\ ~object'[task'[t].obj].connected
                         \/ task'[t].at # "lock" /\ task'[t].tardy
                         \/ regions[task'[t].id] = task'[t].obj
    BY <1>2 DEF ObjectsHeld
  <2>1. /\ task'[t].at = task[t].at /\ task'[t].obj = task[t].obj /\ task'[t].id = task[t].id
        /\ task'[t].tardy <=> task[t].tardy
    BY <1>7 DEF TasksStay
  <2>2. /\ task[t].obj \in 1..created
        /\ \A i \in Ids : regions[i] = task[t].obj => i = task[t].id
        /\ \/ task[t].at = "lock" /\ ~object[task[t].obj].connected
           \/ task[t].at # "lock" /\ task[t].tardy
           \/ regions[task[t].id] = task[t].obj
    BY <1>1, <2>1 DEF ObjectsHeld
  <2>3. task[t].obj \in 1..MaxObjects
    BY <1>1, <2>2, RegionsAssumption DEF RegionsTyped
  <2>4. ~object[task[t].obj].connected => ~object'[task[t].obj].connected
    BY <1>6, <2>3
  <2> QED BY <2>1, <2>2, <2>4
<1>11. \A i \in Ids : (i # id /\ regions[i] # 0) => regions[i] \in 1..MaxObjects /\ regions[i] # o
  BY <1>1, <1>4, RegionsAssumption DEF ObjectsOwned, RegionsTyped, o
<1>12. TasksCurrent'
  <2> SUFFICES ASSUME NEW t \in RegionTasks, task'[t].at \in {"value", "keep", "send", "store"}, ~task'[t].overlap
               PROVE  /\ regions[task'[t].id] # 0 /\ object'[regions[task'[t].id]].connected
                      /\ region_frame = "open"
                      /\ task'[t].at # "value" => task'[t].of = object'[regions[task'[t].id]].points
    BY <1>2 DEF TasksCurrent, RegionFileIdsValid, RegionSet, FrameSet, PointsOf
  <2>1. /\ task'[t].at = task[t].at /\ task'[t].id = task[t].id /\ task'[t].of = task[t].of
        /\ ~task[t].overlap
    BY <1>7 DEF TasksStay
  <2>2. task[t].id \in Ids /\ task[t].id # id
    BY <1>1, <1>7, <2>1 DEF TasksNamed
  <2>3. /\ regions[task[t].id] # 0 /\ object[regions[task[t].id]].connected /\ region_frame = "open"
        /\ task[t].at # "value" => task[t].of = object[regions[task[t].id]].points
    BY <1>1, <2>1 DEF TasksCurrent, RegionFileIdsValid, RegionSet, FrameSet, PointsOf
  <2> QED BY <1>6, <1>11, <2>1, <2>2, <2>3
<1>13. RegionsTyped'
  BY <1>1, <1>2, <1>3, <1>5, <1>6, <1>7 DEF RegionsTyped, TasksStay
<1>14. (MainKnows /\ NothingRequired)'
  <2>1. regions'[main'.id] = o
    BY <1>2, <1>5 DEF o
  <2>2. MainKnows'
    BY <1>4, <1>5, <1>6, <2>1 DEF MainKnows
  <2>3. NothingRequired'
    BY <1>1, <1>2, <1>3, <1>4, <1>5 DEF NothingRequired, o, Ids
  <2> QED BY <2>2, <2>3
<1>15. CachesCurrent'
  <2> SUFFICES ASSUME NEW i \in Ids \ stale
               PROVE  /\ (regions[i] # 0 /\ i # id) =>
                            HoldsOnly(i, {Nothing, object'[regions[i]].points})
                      /\ (regions[i] = 0 /\ i # id) => HoldsOnly(i, {Nothing})
    BY <1>2, <1>5 DEF CachesCurrent, HoldsOnly, PointsOf
  <2>1. main.id # i
    BY <1>3 DEF Ids
  <2>2. (regions[i] # 0 /\ i # id) => object'[regions[i]].points = PointsOf(i)
    BY <1>6, <1>11 DEF PointsOf
  <2> QED BY <1>1, <2>1, <2>2 DEF CachesCurrent
<1>16. ProfilesOwed'
  <2> SUFFICES ASSUME NEW i \in Ids \ (stale \cup unsent), regions[i] # 0, object'[regions[i]].connected,
                      region_frame = "open", NEW s \in spectral_req[i].all
               PROVE  \/ profile_sent[i][s] = object'[regions[i]].points
                      \/ \E u \in RegionTasks : task'[u].id = i /\ Owes(u, s)'
    <3>1. UNCHANGED <<regions, region_frame, spectral_req, profile_sent, stale, unsent>>
      BY <1>2
    <3> QED BY <3>1 DEF ProfilesOwed, RegionFileIdsValid, RegionSet, FrameSet, PointsOf
  <2>0. i # id /\ RegionFileIdsValid(i) /\ object'[regions[i]].points = PointsOf(i)
    BY <1>6, <1>11 DEF RegionFileIdsValid, RegionSet, FrameSet, PointsOf, o
  <2>1. \/ profile_sent[i][s] = PointsOf(i)
        \/ \E u \in RegionTasks : task[u].id = i /\ Owes(u, s)
    BY <1>3, <2>0 DEF RegionsIInv, ProfilesOwed
  <2>2. CASE \E u \in RegionTasks : task[u].id = i /\ Owes(u, s)
    <3>1. PICK u \in RegionTasks : task[u].id = i /\ Owes(u, s)
      BY <2>2
    <3>2. task[u].at = "start" => s \in spectral_req'[task[u].id].new
      BY <1>2, <3>1 DEF Owes
    <3>3. task[u].at = "calculate" => object'[task[u].obj].points = object[task[u].obj].points
      <4>1. task[u].at = "calculate" => task[u].obj \in 1..created
        BY <1>1 DEF ObjectsHeld, Locked
      <4>2. task[u].at = "calculate" => task[u].obj \in 1..MaxObjects
        BY <1>1, <4>1, RegionsAssumption DEF RegionsTyped
      <4> QED BY <1>6, <4>2
    <3> QED BY <1>7, <3>1, <3>2, <3>3, StayOwes
  <2> QED BY <2>0, <2>1, <2>2
<1> QED BY <1>8, <1>9, <1>10, <1>12, <1>13, <1>14, <1>15, <1>16 DEF RegionsIInv

-----------------------------------------------------------------------------
\* A message that changes nothing of a region queues its data streams.
LEMMA SamePointsStep ==
    ASSUME RegionsIInv, NEW id \in Ids, UpdateRegion(id, PointsOf(id)) PROVE RegionsIInv'
<1>1. RegionsTyped /\ MainKnows /\ CachesCurrent /\ NothingRequired
  BY DEF RegionsIInv
<1>2. /\ UNCHANGED <<regions, created, region_frame, spectral_req, value_req, spectral_cache, value_cache>>
      /\ UNCHANGED <<profile_sent, stale, unsent, terminated>>
      /\ object' = [object EXCEPT ![regions[id]].points = PointsOf(id)]
      /\ UNCHANGED task /\ main' = [at |-> "stream", id |-> id] /\ RegionSet(id)
  BY DEF UpdateRegion, history
<1>3. messages' \in 0..MaxRegionMessages /\ main.at = "idle" /\ main.id = 0
  BY <1>1, ReceiveType DEF UpdateRegion
<1>4. UNCHANGED object
  <2>1. /\ object \in [1..MaxObjects -> [points : Points \cup {Nothing}, connected : BOOLEAN]]
        /\ regions[id] \in 1..MaxObjects
    BY <1>1, <1>2, RegionsAssumption DEF RegionsTyped, RegionSet
  <2> DEFINE c == [object[regions[id]] EXCEPT !.points = object[regions[id]].points]
  <2>2. c = object[regions[id]]
    BY <2>1
  <2>3. object' = [object EXCEPT ![regions[id]] = c]
    BY <1>2 DEF PointsOf
  <2> HIDE DEF c
  <2> QED BY <2>1, <2>2, <2>3
<1>5. main'.at = "stream" /\ main'.id = id /\ id # 0
      /\ main' \in [at : {"idle", "renew", "clear", "stream", "erase", "purge", "close"}, id : 0..MaxObjects]
  BY <1>2, RegionsAssumption DEF Ids
<1>6. TasksStay({})
  BY <1>1, <1>2, SameTasks
<1>7. (TasksNamed /\ ObjectsOwned /\ ObjectsHeld /\ TasksCurrent)'
  BY <1>2, <1>4, <1>6, StayNamed, StayHeld
<1>8. RegionsTyped'
  BY <1>1, <1>2, <1>3, <1>4, <1>5 DEF RegionsTyped
<1>9. (MainKnows /\ CachesCurrent /\ NothingRequired)'
  <2>1. UNCHANGED <<regions, object, spectral_req, spectral_cache, value_cache, stale>> /\ RegionSet(id)
    BY <1>2, <1>4
  <2>2. MainKnows'
    BY <1>5, <2>1 DEF MainKnows, RegionSet
  <2>3. (CachesCurrent /\ NothingRequired)'
    BY <1>1, <1>3, <1>5, <2>1 DEF CachesCurrent, NothingRequired, RegionSet, HoldsOnly, PointsOf, Ids
  <2> QED BY <2>2, <2>3
<1>10. ProfilesOwed'
  <2>1. UNCHANGED <<regions, object, region_frame, spectral_req, profile_sent, stale, unsent>>
    BY <1>2, <1>4
  <2> SUFFICES ASSUME NEW i \in Ids \ (stale \cup unsent), RegionFileIdsValid(i)
               PROVE  \A s \in spectral_req'[i].all :
                         \/ profile_sent'[i][s] = PointsOf(i)
                         \/ \E u \in RegionTasks : task'[u].id = i /\ Owes(u, s)'
    BY <2>1 DEF ProfilesOwed, RegionFileIdsValid, RegionSet, FrameSet, PointsOf
  <2> QED BY <2>1, <1>3, <1>6, StayProfiles
<1> QED BY <1>7, <1>8, <1>9, <1>10 DEF RegionsIInv

\* The tasks of a region that is changed overlap with the change.
LEMMA NewPointsStep ==
    ASSUME RegionsIInv, NEW id \in Ids, NEW p \in Points, p # PointsOf(id), UpdateRegion(id, p)
    PROVE  RegionsIInv'
<1>1. RegionsTyped /\ MainKnows /\ CachesCurrent /\ NothingRequired /\ ObjectsOwned /\ ObjectsHeld
      /\ TasksCurrent /\ TasksNamed
  BY DEF RegionsIInv
<1> DEFINE o == regions[id]
<1>2. /\ UNCHANGED <<regions, created, region_frame, spectral_req, value_req, spectral_cache, value_cache>>
      /\ UNCHANGED <<profile_sent, stale, unsent, terminated>>
      /\ object' = [object EXCEPT ![o].points = p]
      /\ task' = Overlap({id}) /\ main' = [at |-> "renew", id |-> id] /\ RegionSet(id)
  BY DEF UpdateRegion, history
<1>3. messages' \in 0..MaxRegionMessages /\ main.at = "idle" /\ main.id = 0
  BY <1>1, ReceiveType DEF UpdateRegion
<1>4. o \in 1..MaxObjects /\ o # 0 /\ object[o].connected
  BY <1>1, <1>2, RegionsAssumption DEF RegionsTyped, RegionSet
<1>5. main'.at = "renew" /\ main'.id = id /\ id # 0
      /\ main' \in [at : {"idle", "renew", "clear", "stream", "erase", "purge", "close"}, id : 0..MaxObjects]
  BY <1>2, RegionsAssumption DEF Ids
<1>6. /\ object' \in [1..MaxObjects -> [points : Points \cup {Nothing}, connected : BOOLEAN]]
      /\ \A i \in 1..MaxObjects : object'[i].connected <=> object[i].connected
      /\ \A i \in 1..MaxObjects : i # o => object'[i] = object[i]
  <2> DEFINE c == [object[o] EXCEPT !.points = p]
  <2>1. /\ object \in [1..MaxObjects -> [points : Points \cup {Nothing}, connected : BOOLEAN]]
        /\ object[o] \in [points : Points \cup {Nothing}, connected : BOOLEAN]
    BY <1>1, <1>4 DEF RegionsTyped
  <2>2. c \in [points : Points \cup {Nothing}, connected : BOOLEAN] /\ (c.connected <=> object[o].connected)
    BY <2>1
  <2>3. object' = [object EXCEPT ![o] = c]
    BY <1>2, <1>4, <2>1
  <2> HIDE DEF c, o
  <2> QED BY <1>4, <2>1, <2>2, <2>3
<1>7. /\ TasksStay({})
      /\ \A u \in RegionTasks : (task[u].id = id /\ task[u].at # "free") => task'[u].overlap
  BY <1>1, <1>2, MarkedTasks
<1>8. TasksNamed'
  BY <1>7, StayNamed
<1>9. ObjectsOwned'
  BY <1>1, <1>2 DEF ObjectsOwned
<1>10. UNCHANGED <<regions, created, region_frame, spectral_req, spectral_cache, value_cache, profile_sent, stale, unsent>>
  BY <1>2
<1>11. \A i \in Ids : regions[i] # 0 => regions[i] \in 1..MaxObjects /\ (i # id => regions[i] # o)
  BY <1>1, <1>4, RegionsAssumption DEF ObjectsOwned, RegionsTyped, o
<1> HIDE DEF o
<1>12. ObjectsHeld'
  <2> SUFFICES ASSUME NEW t \in RegionTasks, task'[t].at \in Locked \cup {"lock"}
               PROVE  /\ task'[t].obj \in 1..created
                      /\ \A i \in Ids : regions[i] = task'[t].obj => i = task'[t].id
                      /\ \/ task'[t].at = "lock" /\ ~object'[task'[t].obj].connected
                         \/ task'[t].at # "lock" /\ task'[t].tardy
                         \/ regions[task'[t].id] = task'[t].obj
    BY <1>10 DEF ObjectsHeld
  <2>1. /\ task'[t].at = task[t].at /\ task'[t].obj = task[t].obj /\ task'[t].id = task[t].id
        /\ task'[t].tardy <=> task[t].tardy
    BY <1>7 DEF TasksStay
  <2>2. /\ task[t].obj \in 1..created
        /\ \A i \in Ids : regions[i] = task[t].obj => i = task[t].id
        /\ \/ task[t].at = "lock" /\ ~object[task[t].obj].connected
           \/ task[t].at # "lock" /\ task[t].tardy
           \/ regions[task[t].id] = task[t].obj
    BY <1>1, <2>1 DEF ObjectsHeld
  <2>3. task[t].obj \in 1..MaxObjects
    BY <1>1, <2>2, RegionsAssumption DEF RegionsTyped
  <2> QED BY <1>6, <2>1, <2>2, <2>3
<1>13. TasksCurrent'
  <2> SUFFICES ASSUME NEW t \in RegionTasks, task'[t].at \in {"value", "keep", "send", "store"}, ~task'[t].overlap
               PROVE  /\ regions[task'[t].id] # 0 /\ object'[regions[task'[t].id]].connected
                      /\ region_frame = "open"
                      /\ task'[t].at # "value" => task'[t].of = object'[regions[task'[t].id]].points
    BY <1>10 DEF TasksCurrent, RegionFileIdsValid, RegionSet, FrameSet, PointsOf
  <2>1. /\ task'[t].at = task[t].at /\ task'[t].id = task[t].id /\ task'[t].of = task[t].of
        /\ ~task[t].overlap
    BY <1>7 DEF TasksStay
  <2>2. task[t].id \in Ids /\ task[t].id # id
    BY <1>1, <1>7, <2>1 DEF TasksNamed
  <2>3. /\ regions[task[t].id] # 0 /\ object[regions[task[t].id]].connected /\ region_frame = "open"
        /\ task[t].at # "value" => task[t].of = object[regions[task[t].id]].points
    BY <1>1, <2>1 DEF TasksCurrent, RegionFileIdsValid, RegionSet, FrameSet, PointsOf
  <2> QED BY <1>6, <1>11, <2>1, <2>2, <2>3
<1>14. RegionsTyped'
  BY <1>1, <1>2, <1>3, <1>5, <1>6, <1>7 DEF RegionsTyped, TasksStay
<1>15. (MainKnows /\ NothingRequired)'
  <2>1. regions'[main'.id] = o
    BY <1>5, <1>10 DEF o
  <2>2. MainKnows'
    BY <1>4, <1>5, <1>6, <2>1 DEF MainKnows, RegionSet
  <2>3. NothingRequired'
    BY <1>1, <1>3, <1>4, <1>5, <1>10 DEF NothingRequired, o, Ids
  <2> QED BY <2>2, <2>3
<1>16. CachesCurrent'
  <2> SUFFICES ASSUME NEW i \in Ids \ stale
               PROVE  /\ (regions[i] # 0 /\ i # id) =>
                            HoldsOnly(i, {Nothing, object'[regions[i]].points})
                      /\ (regions[i] = 0 /\ i # id) => HoldsOnly(i, {Nothing})
    BY <1>5, <1>10 DEF CachesCurrent, HoldsOnly, PointsOf
  <2>1. main.id # i
    BY <1>3 DEF Ids
  <2>2. (regions[i] # 0 /\ i # id) => object'[regions[i]].points = PointsOf(i)
    BY <1>6, <1>11 DEF PointsOf
  <2> QED BY <1>1, <2>1, <2>2 DEF CachesCurrent
<1>17. ProfilesOwed'
  <2> SUFFICES ASSUME NEW i \in Ids \ (stale \cup unsent), i # id, regions[i] # 0, object'[regions[i]].connected,
                      region_frame = "open", NEW s \in spectral_req[i].all
               PROVE  \/ profile_sent[i][s] = object'[regions[i]].points
                      \/ \E u \in RegionTasks : task'[u].id = i /\ Owes(u, s)'
    BY <1>5, <1>10 DEF ProfilesOwed, RegionFileIdsValid, RegionSet, FrameSet, PointsOf
  <2>0. RegionFileIdsValid(i) /\ object'[regions[i]].points = PointsOf(i)
    BY <1>6, <1>11 DEF RegionFileIdsValid, RegionSet, FrameSet, PointsOf
  <2>1. \/ profile_sent[i][s] = PointsOf(i)
        \/ \E u \in RegionTasks : task[u].id = i /\ Owes(u, s)
    BY <1>3, <2>0 DEF RegionsIInv, ProfilesOwed
  <2>2. CASE \E u \in RegionTasks : task[u].id = i /\ Owes(u, s)
    <3>1. PICK u \in RegionTasks : task[u].id = i /\ Owes(u, s)
      BY <2>2
    <3>2. task[u].at = "start" => s \in spectral_req'[task[u].id].new
      BY <1>10, <3>1 DEF Owes
    <3>3. task[u].at = "calculate" => object'[task[u].obj].points = object[task[u].obj].points
      <4>1. task[u].at = "calculate" =>
               /\ task[u].obj \in 1..created
               /\ \A j \in Ids : regions[j] = task[u].obj => j = task[u].id
        BY <1>1 DEF ObjectsHeld, Locked
      <4>2. task[u].at = "calculate" => task[u].obj \in 1..MaxObjects /\ task[u].obj # o
        BY <1>1, <3>1, <4>1, RegionsAssumption DEF RegionsTyped, o
      <4> QED BY <1>6, <4>2
    <3> QED BY <1>7, <3>1, <3>2, <3>3, StayOwes
  <2> QED BY <2>0, <2>1, <2>2
<1> QED BY <1>8, <1>9, <1>12, <1>13, <1>14, <1>15, <1>16, <1>17 DEF RegionsIInv

\* The tasks of a file that is closed overlap with that.
LEMMA CloseFileStep == ASSUME RegionsIInv, CloseFile PROVE RegionsIInv'
<1>1. RegionsTyped /\ MainKnows /\ CachesCurrent /\ NothingRequired /\ ObjectsOwned /\ ObjectsHeld
      /\ TasksNamed
  BY DEF RegionsIInv
<1>2. /\ UNCHANGED <<regions, object, created, spectral_req, value_req, spectral_cache, value_cache>>
      /\ UNCHANGED <<profile_sent, stale, unsent, terminated>>
      /\ region_frame' = "closing" /\ main' = [at |-> "close", id |-> 0] /\ task' = Overlap(Ids)
  BY DEF CloseFile, history
<1>3. messages' \in 0..MaxRegionMessages /\ main.at = "idle" /\ main.id = 0
  BY <1>1, ReceiveType DEF CloseFile
<1>4. /\ TasksStay({})
      /\ \A u \in RegionTasks : (task[u].id \in Ids /\ task[u].at # "free") => task'[u].overlap
  BY <1>1, <1>2, MarkedTasks
<1>5. main'.at = "close" /\ main'.id = 0
      /\ main' \in [at : {"idle", "renew", "clear", "stream", "erase", "purge", "close"}, id : 0..MaxObjects]
  BY <1>2, RegionsAssumption
<1>6. TasksNamed'
  BY <1>4, StayNamed
<1>7. ObjectsOwned'
  BY <1>1, <1>2 DEF ObjectsOwned
<1>8. ObjectsHeld'
  BY <1>1, <1>2, <1>4 DEF ObjectsHeld, TasksStay, Locked
<1>9. TasksCurrent'
  BY <1>1, <1>4 DEF TasksCurrent, TasksStay, TasksNamed
<1>10. RegionsTyped'
  BY <1>1, <1>2, <1>3, <1>4, <1>5 DEF RegionsTyped, TasksStay
<1>11. (MainKnows /\ CachesCurrent /\ NothingRequired)'
  <2>1. MainKnows'
    BY <1>2, <1>5 DEF MainKnows
  <2>2. UNCHANGED <<regions, object, spectral_req, spectral_cache, value_cache, stale>>
    BY <1>2
  <2> QED BY <1>1, <1>3, <1>5, <2>1, <2>2 DEF CachesCurrent, NothingRequired, HoldsOnly, PointsOf
<1>12. ProfilesOwed'
  BY <1>2 DEF ProfilesOwed, RegionFileIdsValid, FrameSet
<1> QED BY <1>6, <1>7, <1>8, <1>9, <1>10, <1>11, <1>12 DEF RegionsIInv

LEMMA RemoveFrameStep == ASSUME RegionsIInv, RemoveFrame PROVE RegionsIInv'
<1>1. RegionsTyped /\ MainKnows /\ ObjectsOwned /\ ObjectsHeld /\ TasksNamed
  BY DEF RegionsIInv
<1>2. /\ UNCHANGED <<regions, object, created, task, messages, profile_sent, terminated>>
      /\ main.at = "close" /\ region_frame' = "gone" /\ main' = IdleRegionTask
      /\ spectral_req' = [i \in Ids |-> [all |-> {}, new |-> {}]]
      /\ value_req' = [d \in Values |-> {}]
      /\ spectral_cache' = [i \in Ids |-> Nothing]
      /\ value_cache' = [d \in Values |-> [i \in Ids |-> Nothing]]
      /\ stale' = {} /\ unsent' = {}
  BY DEF RemoveFrame, RemoveFileRequirementsCache
<1>3. main'.at = "idle" /\ main'.id = 0
      /\ main' \in [at : {"idle", "renew", "clear", "stream", "erase", "purge", "close"}, id : 0..MaxObjects]
  BY <1>2, RegionsAssumption DEF IdleRegionTask
<1>4. TasksStay({})
  BY <1>1, <1>2, SameTasks
<1>5. TasksNamed'
  BY <1>4, StayNamed
<1>6. (ObjectsOwned /\ ObjectsHeld)'
  BY <1>1, <1>2 DEF ObjectsOwned, ObjectsHeld
<1>7. TasksCurrent'
  <2> SUFFICES ASSUME NEW t \in RegionTasks, task[t].at \in {"value", "keep", "send", "store"}
               PROVE  task[t].overlap
    BY <1>2 DEF TasksCurrent
  <2>1. region_frame # "open"
    BY <1>1, <1>2 DEF MainKnows
  <2> QED BY <2>1 DEF RegionsIInv, TasksCurrent, RegionFileIdsValid, FrameSet
<1>8. RegionsTyped'
  <2>1. spectral_req' \in [Ids -> [all : SUBSET Stats, new : SUBSET Stats]] /\ value_req' \in [Values -> SUBSET Ids]
    BY <1>2
  <2>2. spectral_cache' \in [Ids -> Results] /\ value_cache' \in [Values -> [Ids -> Results]]
    BY <1>2 DEF Results
  <2> QED BY <1>1, <1>2, <1>3, <2>1, <2>2 DEF RegionsTyped
<1>9. MainKnows'
  BY <1>3 DEF MainKnows
<1>10. (CachesCurrent /\ NothingRequired)'
  BY <1>2 DEF CachesCurrent, NothingRequired, HoldsOnly
<1>11. ProfilesOwed'
  BY <1>2 DEF ProfilesOwed, RegionFileIdsValid, FrameSet
<1> QED BY <1>5, <1>6, <1>7, <1>8, <1>9, <1>10, <1>11 DEF RegionsIInv

-----------------------------------------------------------------------------
\* A region is new where none was.
LEMMA NewRegionTask ==
    ASSUME RegionsTyped, NEW t \in RegionTasks, task[t].at = "free", NEW id \in Ids,
           task' = NewTask(Overlap({id}), t, id, Stream)
    PROVE  TasksStay({t})
<1> DEFINE marked == Overlap({id})
           a == [NoTask EXCEPT !.id = id, !.todo = Stream, !.at = "start"]
<1>1. /\ marked \in [RegionTasks -> TaskRecords]
      /\ \A u \in RegionTasks :
           /\ marked[u].id = task[u].id /\ marked[u].todo = task[u].todo
           /\ marked[u].at = task[u].at /\ marked[u].need = task[u].need
           /\ marked[u].obj = task[u].obj /\ marked[u].of = task[u].of
           /\ marked[u].initial = task[u].initial /\ (marked[u].tardy <=> task[u].tardy)
           /\ task[u].overlap => marked[u].overlap
  <2>1. {id} \in SUBSET Ids
    OBVIOUS
  <2> QED BY <2>1, OverlapEffect
<1>2. Stream \in Todos \ {<< >>} /\ id \in 0..MaxObjects
  BY TodoParts, RegionsAssumption DEF Ids
<1>3. a \in TaskRecords /\ a.at = "start" /\ a.id = id /\ a.todo = Stream
  BY <1>2, NoTaskType DEF TaskRecords, TaskPlaces
<1>4. task' = [marked EXCEPT ![t] = a]
  BY DEF NewTask
<1> HIDE DEF a, marked
<1>5. task'[t] = a /\ \A u \in RegionTasks : u # t => task'[u] = marked[u]
  BY <1>1, <1>4
<1>6. task' \in [RegionTasks -> TaskRecords]
  BY <1>1, <1>3, <1>4
<1>7. \A u \in RegionTasks \ {t} :
         /\ task'[u].id = task[u].id /\ task'[u].todo = task[u].todo /\ task'[u].at = task[u].at
         /\ task'[u].need = task[u].need /\ task'[u].obj = task[u].obj /\ task'[u].of = task[u].of
         /\ task'[u].initial = task[u].initial /\ (task'[u].tardy <=> task[u].tardy)
         /\ task[u].overlap => task'[u].overlap
  <2> TAKE u \in RegionTasks \ {t}
  <2>1. task'[u] = marked[u]
    BY <1>5
  <2> QED BY <1>1, <2>1, ZenonT(60)
<1>8. task'[t].at = "start" /\ task'[t].id \in Ids /\ task'[t].todo \in Todos \ {<< >>}
  BY <1>2, <1>3, <1>5
<1> QED BY <1>6, <1>7, <1>8 DEF TasksStay

LEMMA NewRegionStep ==
    ASSUME RegionsIInv, NEW t \in RegionTasks, NEW p \in Points, NewRegion(t, p) PROVE RegionsIInv'
<1>1. RegionsTyped /\ MainKnows /\ CachesCurrent /\ NothingRequired /\ ObjectsOwned /\ ObjectsHeld
      /\ TasksCurrent /\ TasksNamed
  BY DEF RegionsIInv
<1> DEFINE o == created + 1
<1>2. /\ UNCHANGED <<region_frame, spectral_req, value_req, spectral_cache, value_cache, main>>
      /\ UNCHANGED <<profile_sent, stale, unsent, terminated>>
      /\ created' = o /\ created < MaxObjects /\ task[t].at = "free"
      /\ object' = [object EXCEPT ![o] = [points |-> p, connected |-> TRUE]]
  BY DEF NewRegion, history
<1>3. messages' \in 0..MaxRegionMessages /\ main.at = "idle" /\ main.id = 0
  BY <1>1, ReceiveType DEF NewRegion
<1>4. PICK id \in Ids : /\ IsNextRegionId(id) \/ regions[id] = 0
                        /\ regions' = [regions EXCEPT ![id] = o]
                        /\ task' = NewTask(Overlap({id}), t, id, Stream)
  BY <1>2 DEF NewRegion
<1>5. regions[id] = 0
  BY <1>4 DEF IsNextRegionId, Ids
<1>6. o \in 1..MaxObjects /\ created' \in 0..MaxObjects /\ o > created /\ created \in Nat
  BY <1>1, <1>2, RegionsAssumption DEF RegionsTyped
<1> HIDE DEF o
<1>7. /\ object' \in [1..MaxObjects -> [points : Points \cup {Nothing}, connected : BOOLEAN]]
      /\ \A i \in 1..MaxObjects : i # o => object'[i] = object[i]
  BY <1>1, <1>2, <1>6 DEF RegionsTyped
<1>8. /\ regions' \in [Ids -> 0..MaxObjects] /\ regions'[id] = o
      /\ \A i \in Ids : i # id => regions'[i] = regions[i]
  BY <1>1, <1>4, <1>6 DEF RegionsTyped
<1>9. TasksStay({t})
  BY <1>1, <1>2, <1>4, NewRegionTask
<1>10. \A i \in Ids : regions[i] \in 0..created /\ regions[i] # o
                      /\ (regions[i] # 0 => object'[regions[i]] = object[regions[i]])
  BY <1>1, <1>6, <1>7, RegionsAssumption DEF ObjectsOwned, RegionsTyped
<1>11. TasksNamed'
  BY <1>9, StayNamed
<1>12. ObjectsOwned'
  BY <1>1, <1>2, <1>6, <1>8, <1>10 DEF ObjectsOwned
<1>13. ObjectsHeld'
  <2> SUFFICES ASSUME NEW u \in RegionTasks, task'[u].at \in Locked \cup {"lock"}
               PROVE  /\ task'[u].obj \in 1..o
                      /\ \A i \in Ids : regions'[i] = task'[u].obj => i = task'[u].id
                      /\ \/ task'[u].at = "lock" /\ ~object'[task'[u].obj].connected
                         \/ task'[u].at # "lock" /\ task'[u].tardy
                         \/ regions'[task'[u].id] = task'[u].obj
    BY <1>2 DEF ObjectsHeld
  <2>1. u # t
    BY <1>9 DEF TasksStay, Locked
  <2>2. /\ task'[u].at = task[u].at /\ task'[u].obj = task[u].obj /\ task'[u].id = task[u].id
        /\ task'[u].tardy <=> task[u].tardy
    BY <1>9, <2>1 DEF TasksStay
  <2>3. /\ task[u].obj \in 1..created
        /\ \A i \in Ids : regions[i] = task[u].obj => i = task[u].id
        /\ \/ task[u].at = "lock" /\ ~object[task[u].obj].connected
           \/ task[u].at # "lock" /\ task[u].tardy
           \/ regions[task[u].id] = task[u].obj
    BY <1>1, <2>2 DEF ObjectsHeld
  <2>4. task[u].obj \in 1..MaxObjects /\ task[u].obj # o /\ task[u].obj \in 1..o /\ task[u].id \in Ids
    BY <1>1, <1>2, <1>6, <2>2, <2>3, RegionsAssumption, SMTT(30) DEF RegionsTyped, TasksNamed, Locked
  <2>5. \A i \in Ids : regions'[i] = task[u].obj => i = task[u].id
    BY <1>8, <2>3, <2>4
  <2>6. regions[task[u].id] = task[u].obj => regions'[task[u].id] = task[u].obj
    BY <1>5, <1>8, <2>4
  <2> QED BY <1>7, <2>2, <2>3, <2>4, <2>5, <2>6
<1>14. TasksCurrent'
  <2> SUFFICES ASSUME NEW u \in RegionTasks, task'[u].at \in {"value", "keep", "send", "store"}, ~task'[u].overlap
               PROVE  /\ regions'[task'[u].id] # 0 /\ object'[regions'[task'[u].id]].connected
                      /\ region_frame = "open"
                      /\ task'[u].at # "value" => task'[u].of = object'[regions'[task'[u].id]].points
    BY <1>2 DEF TasksCurrent, RegionFileIdsValid, RegionSet, FrameSet, PointsOf
  <2>1. /\ task'[u].at = task[u].at /\ task'[u].id = task[u].id /\ task'[u].of = task[u].of
        /\ ~task[u].overlap
    BY <1>9 DEF TasksStay
  <2>2. /\ task[u].id \in Ids
        /\ regions[task[u].id] # 0 /\ object[regions[task[u].id]].connected /\ region_frame = "open"
        /\ task[u].at # "value" => task[u].of = object[regions[task[u].id]].points
    BY <1>1, <2>1 DEF TasksNamed, TasksCurrent, RegionFileIdsValid, RegionSet, FrameSet, PointsOf
  <2>3. task[u].id # id /\ regions'[task[u].id] = regions[task[u].id]
    BY <1>5, <1>8, <2>2
  <2> QED BY <1>10, <2>1, <2>2, <2>3
<1>15. RegionsTyped'
  BY <1>1, <1>2, <1>3, <1>6, <1>7, <1>8, <1>9 DEF RegionsTyped, TasksStay
<1>16. (MainKnows /\ NothingRequired)'
  <2>1. MainKnows'
    BY <1>1, <1>2, <1>3 DEF MainKnows
  <2>2. NothingRequired'
    BY <1>1, <1>2, <1>6, <1>8 DEF NothingRequired
  <2> QED BY <2>1, <2>2
<1>17. CachesCurrent'
  <2> SUFFICES ASSUME NEW i \in Ids \ stale
               PROVE  /\ regions'[i] # 0 => HoldsOnly(i, {Nothing, object'[regions'[i]].points})
                      /\ regions'[i] = 0 => HoldsOnly(i, {Nothing})
    BY <1>2, <1>3 DEF CachesCurrent, HoldsOnly, PointsOf
  <2>1. main.id # i /\ i \in Ids
    BY <1>3 DEF Ids
  <2>2. CASE i = id
    BY <1>1, <1>5, <1>6, <1>8, <2>1, <2>2 DEF CachesCurrent, HoldsOnly
  <2>3. CASE i # id
    BY <1>1, <1>8, <1>10, <2>1, <2>3 DEF CachesCurrent, PointsOf
  <2> QED BY <2>2, <2>3
<1>18. ProfilesOwed'
  <2>0. UNCHANGED <<spectral_req, region_frame, profile_sent, stale, unsent>>
    BY <1>2
  <2> SUFFICES ASSUME NEW i \in Ids \ (stale \cup unsent), regions'[i] # 0, object'[regions'[i]].connected,
                      region_frame = "open", NEW s \in spectral_req[i].all
               PROVE  \/ profile_sent[i][s] = object'[regions'[i]].points
                      \/ \E u \in RegionTasks : task'[u].id = i /\ Owes(u, s)'
    BY <2>0 DEF ProfilesOwed, RegionFileIdsValid, RegionSet, FrameSet, PointsOf
  <2>1. i # id
    BY <1>1, <1>3, <1>5 DEF NothingRequired, Ids
  <2>2. RegionFileIdsValid(i) /\ object'[regions'[i]].points = PointsOf(i)
    BY <1>8, <1>10, <2>1 DEF RegionFileIdsValid, RegionSet, FrameSet, PointsOf
  <2>3. \/ profile_sent[i][s] = PointsOf(i)
        \/ \E u \in RegionTasks : task[u].id = i /\ Owes(u, s)
    BY <1>3, <2>2 DEF RegionsIInv, ProfilesOwed
  <2>4. CASE \E u \in RegionTasks : task[u].id = i /\ Owes(u, s)
    <3>1. PICK u \in RegionTasks : task[u].id = i /\ Owes(u, s)
      BY <2>4
    <3>2. task[u].at = "start" => s \in spectral_req'[task[u].id].new
      BY <2>0, <3>1 DEF Owes
    <3>3. task[u].at = "calculate" => object'[task[u].obj].points = object[task[u].obj].points
      <4>1. task[u].at = "calculate" => task[u].obj \in 1..created
        BY <1>1 DEF ObjectsHeld, Locked
      <4>2. task[u].at = "calculate" => task[u].obj \in 1..MaxObjects /\ task[u].obj # o
        BY <1>2, <1>6, <4>1, RegionsAssumption
      <4> QED BY <1>7, <4>2
    <3> QED BY <1>9, <3>1, <3>2, <3>3, StayOwes
  <2> QED BY <2>2, <2>3, <2>4
<1> QED BY <1>11, <1>12, <1>13, <1>14, <1>15, <1>16, <1>17, <1>18 DEF RegionsIInv

\* What is required anew is owed by the task that is made, and what was required
\* before stays owed or sent, unless the difference replaced it.
LEMMA SpectralMessage ==
    ASSUME RegionsIInv, NEW t \in RegionTasks, NEW id \in Ids, NEW r \in SUBSET Stats,
           SetSpectralRequirements(t, id, r)
    PROVE  RegionsIInv'
<1>1. RegionsTyped /\ MainKnows /\ CachesCurrent /\ NothingRequired
  BY DEF RegionsIInv
<1> DEFINE known == spectral_req[id].all
<1>2. /\ UNCHANGED <<regions, object, created, region_frame, value_req, spectral_cache, value_cache, main>>
      /\ UNCHANGED <<profile_sent, stale, terminated>>
      /\ task[t].at = "free" /\ task' = NewTask(task, t, id, <<"spectral">>)
      /\ spectral_req' = [spectral_req EXCEPT ![id] = [all |-> r, new |-> r \ known]]
      /\ unsent' = IF \A s \in r \cap known : profile_sent[id][s] = PointsOf(id)
                   THEN unsent ELSE unsent \cup {id}
      /\ regions[id] # 0
  BY DEF SetSpectralRequirements, RegionSet
<1>3. messages' \in 0..MaxRegionMessages /\ main.at = "idle" /\ main.id = 0
  BY <1>1, ReceiveType DEF SetSpectralRequirements
<1>4. /\ TasksStay({t})
      /\ task'[t].at = "start" /\ task'[t].id = id /\ task'[t].todo = <<"spectral">>
  <2> DEFINE parts == <<"spectral">>
  <2>1. parts \in Todos \ {<< >>}
    BY TodoParts
  <2>2. RegionsTyped /\ task[t].at = "free" /\ task' = NewTask(task, t, id, parts)
    BY <1>1, <1>2
  <2> HIDE DEF parts
  <2>3. TasksStay({t}) /\ task'[t].at = "start" /\ task'[t].id = id /\ task'[t].todo = parts
    BY <2>1, <2>2, NewTasks
  <2> QED BY <2>3 DEF parts
<1>5. (TasksNamed /\ ObjectsOwned /\ ObjectsHeld /\ TasksCurrent)'
  BY <1>2, <1>4, StayNamed, StayHeld
<1>6. /\ spectral_req' \in [Ids -> [all : SUBSET Stats, new : SUBSET Stats]]
      /\ spectral_req'[id].all = r /\ spectral_req'[id].new = r \ known
      /\ \A i \in Ids : i # id => spectral_req'[i] = spectral_req[i]
  BY <1>1, <1>2 DEF RegionsTyped
<1>7. /\ unsent' \subseteq Ids /\ unsent \subseteq unsent'
      /\ id \notin unsent' => \A s \in r \cap known : profile_sent[id][s] = PointsOf(id)
  BY <1>1, <1>2 DEF RegionsTyped
<1>8. RegionsTyped'
  BY <1>1, <1>2, <1>3, <1>4, <1>6, <1>7 DEF RegionsTyped, TasksStay
<1>9. (MainKnows /\ CachesCurrent /\ NothingRequired)'
  <2>1. MainKnows'
    BY <1>1, <1>2, <1>3 DEF MainKnows
  <2>2. CachesCurrent'
    BY <1>1, <1>2 DEF CachesCurrent, HoldsOnly, PointsOf
  <2>3. NothingRequired'
    BY <1>1, <1>2, <1>6 DEF NothingRequired
  <2> QED BY <2>1, <2>2, <2>3
<1>10. ProfilesOwed'
  <2>0. UNCHANGED <<regions, object, region_frame, profile_sent, stale>>
    BY <1>2
  <2> SUFFICES ASSUME NEW i \in Ids, i \notin stale, i \notin unsent', RegionFileIdsValid(i),
                      NEW s \in spectral_req'[i].all
               PROVE  \/ profile_sent[i][s] = PointsOf(i)
                      \/ \E u \in RegionTasks : task'[u].id = i /\ Owes(u, s)'
    BY <2>0 DEF ProfilesOwed, RegionFileIdsValid, RegionSet, FrameSet, PointsOf
  <2>1. CASE i = id /\ s \in known
    BY <1>6, <1>7, <2>1
  <2>2. CASE i = id /\ s \notin known
    <3>1. Part(t)' = "spectral"
      BY <1>4, TodoParts DEF Part
    <3>2. s \in spectral_req'[task'[t].id].new
      BY <1>4, <1>6, <2>2
    <3>3. Owes(t, s)'
      BY <1>4, <3>1, <3>2 DEF Owes
    <3> QED BY <1>4, <2>2, <3>3
  <2>3. CASE i # id
    <3>1. \/ profile_sent[i][s] = PointsOf(i)
          \/ \E u \in RegionTasks : task[u].id = i /\ Owes(u, s)
      BY <1>3, <1>6, <1>7, <2>3 DEF RegionsIInv, ProfilesOwed
    <3>2. CASE \E u \in RegionTasks : task[u].id = i /\ Owes(u, s)
      <4>1. PICK u \in RegionTasks : task[u].id = i /\ Owes(u, s)
        BY <3>2
      <4>2. task[u].at = "start" => s \in spectral_req'[task[u].id].new
        BY <1>6, <2>3, <4>1 DEF Owes
      <4> QED BY <1>2, <1>4, <4>1, <4>2, StayOwes
    <3> QED BY <3>1, <3>2
  <2> QED BY <2>1, <2>2, <2>3
<1> QED BY <1>5, <1>8, <1>9, <1>10 DEF RegionsIInv

-----------------------------------------------------------------------------
LEMMA TaskStep == ASSUME RegionsIInv, NEW t \in RegionTasks, Work(t) PROVE RegionsIInv'
BY FillProfileStep, CheckStep, GetRegionStep, LockRegionStep, LookUpStep, ApplyRegionStep, InitialStep,
   CalculateStep, SendStepOfTask, StoreStep, RequireStep, FillValuesStep, GetValueStep, KeepValueStep
   DEF Work

LEMMA MainThreadStep == ASSUME RegionsIInv, MainStep PROVE RegionsIInv'
BY RenewStep, ClearStep, EraseStep, PurgeStep, RemoveFrameStep, QueueStep DEF MainStep

LEMMA MessageStep == ASSUME RegionsIInv, Message PROVE RegionsIInv'
<1>1. CASE \E t \in RegionTasks, p \in Points : NewRegion(t, p)
  BY <1>1, NewRegionStep
<1>2. CASE \E id \in Ids, p \in Points : UpdateRegion(id, p)
  BY <1>2, SamePointsStep, NewPointsStep
<1>3. CASE \E id \in Ids : DisconnectRegion(id)
  BY <1>3, DisconnectStep
<1>4. CASE \E t \in RegionTasks, id \in Ids, r \in SUBSET Stats : SetSpectralRequirements(t, id, r)
  BY <1>4, SpectralMessage
<1>5. CASE \E t \in RegionTasks, id \in Ids, d \in Values : SetValueRequirements(t, id, d)
  BY <1>5, RequireMessage
<1>6. CASE CloseFile
  BY <1>6, CloseFileStep
<1> QED BY <1>1, <1>2, <1>3, <1>4, <1>5, <1>6 DEF Message

LEMMA RegionsStutter == ASSUME RegionsIInv, UNCHANGED regionVars PROVE RegionsIInv'
<1>1. /\ UNCHANGED <<regions, object, created, region_frame, spectral_req, value_req, spectral_cache,
                     value_cache, task, main, messages>>
      /\ UNCHANGED <<profile_sent, stale, unsent, terminated>>
  BY DEF regionVars, handler, history
<1>2. (RegionsTyped /\ MainKnows /\ ObjectsOwned)'
  BY <1>1 DEF RegionsIInv, RegionsTyped, MainKnows, ObjectsOwned, RegionSet
<1>3. (TasksNamed /\ ObjectsHeld /\ TasksCurrent)'
  BY <1>1 DEF RegionsIInv, TasksNamed, Part, ObjectsHeld, TasksCurrent, RegionFileIdsValid, RegionSet, FrameSet,
              PointsOf
<1>4. (CachesCurrent /\ NothingRequired)'
  BY <1>1 DEF RegionsIInv, CachesCurrent, NothingRequired, HoldsOnly, PointsOf
<1>5. ProfilesOwed'
  BY <1>1 DEF RegionsIInv, ProfilesOwed, Owes, Part, RegionFileIdsValid, RegionSet, FrameSet, PointsOf
<1> QED BY <1>2, <1>3, <1>4, <1>5 DEF RegionsIInv

LEMMA RegionsNextOK == RegionsIInv /\ [RegionsNext]_regionVars => RegionsIInv'
BY TaskStep, MainThreadStep, MessageStep, RegionsStutter DEF RegionsNext

\* The objects, the tasks, the caches and what is owed of every region fit
\* together in every state.
THEOREM RegionsInductive == RegionsSpec => []RegionsIInv
<1>1. RegionsIInv /\ [RegionsNext]_regionVars => RegionsIInv'
  BY RegionsNextOK
<1> QED BY RegionsInitOK, <1>1, PTL DEF RegionsSpec

\* The variables of RegionHandler have their types.
THEOREM RegionsTypeCorrect == RegionsSpec => []RegionsTypeOK
<1>1. RegionsIInv => RegionsTypeOK
  BY DEF RegionsIInv, RegionsTyped, TaskRecords, RegionsTypeOK
<1> QED BY RegionsInductive, <1>1, PTL

LEMMA CachesAreCurrent == ASSUME RegionsIInv PROVE CachedResultsCurrent
BY DEF RegionsIInv, CachesCurrent, HoldsOnly, CachedResultsCurrent

LEMMA QuietProfilesSent == ASSUME RegionsIInv PROVE RequiredProfilesSent
<1> SUFFICES ASSUME Quiet, FrameSet, NEW id \in Ids \ (stale \cup unsent), RegionSet(id),
                    NEW s \in spectral_req[id].all
             PROVE  profile_sent[id][s] = PointsOf(id)
  BY DEF RequiredProfilesSent
<1>1. main.at = "idle" /\ \A t \in RegionTasks : task[t].at = "free"
  BY NoTaskType DEF Quiet, IdleRegionTask
<1>2. \A t \in RegionTasks : ~Owes(t, s)
  BY <1>1 DEF Owes
<1> QED BY <1>1, <1>2 DEF RegionsIInv, ProfilesOwed, RegionFileIdsValid

LEMMA RegionsOfTasksKept == ASSUME RegionsIInv PROVE RegionKeptForItsTasks
BY DEF RegionsIInv, ObjectsHeld, RegionKeptForItsTasks, Locked

\* What is cached for a region is of the region as it is, what is required of
\* it was sent when no task is left, and the region a task calculates with
\* stays in the map: whatever is set, changed and removed while tasks of the
\* same regions read it in steps.
THEOREM RegionsAreRight == RegionsSpec => []RegionsCorrect
<1>1. RegionsIInv => RegionsCorrect
  BY CachesAreCurrent, QuietProfilesSent, RegionsOfTasksKept DEF RegionsCorrect
<1> QED BY RegionsInductive, <1>1, PTL

-----------------------------------------------------------------------------
(***************************************************************************)
(* Proofs about RegionFiles, for any regions, any number of them and any   *)
(* line added to a file.                                                   *)
(*                                                                         *)
(* A line is read as it was written: each of the seven forms of a region   *)
(* gives back what its format keeps of it, and leaves the flags of the     *)
(* importer as the next region needs them.  So wherever the reader is, it  *)
(* is in the header, between two regions or between the two lines of one   *)
(* text, and has imported what is kept of the regions before.              *)
(***************************************************************************)

\* The sequences put together up to each.
UpTo(parts) ==
    LET upto[n \in 0..Len(parts)] == IF n = 0 THEN <<>> ELSE upto[n - 1] \o parts[n]
    IN upto

LEMMA UpToIs ==
    ASSUME NEW X, NEW parts \in Seq(Seq(X))
    PROVE  /\ UpTo(parts) \in [0..Len(parts) -> Seq(X)] /\ UpTo(parts)[0] = <<>>
           /\ \A i \in 1..Len(parts) : UpTo(parts)[i] = UpTo(parts)[i - 1] \o parts[i]
<1> DEFINE n == Len(parts)
           Body(f) == [i \in 0..n |-> IF i = 0 THEN <<>> ELSE f[i - 1] \o parts[i]]
           upto == CHOOSE f : f = Body(f)
           S == Seq(X)
           z == <<>>
           step == [i \in 1..n |-> [r \in S |-> r \o parts[i]]]
<1>1. UpTo(parts) = upto
  BY DEF UpTo
<1>2. n \in Nat /\ \A i \in 1..n : parts[i] \in S
  OBVIOUS
<1>3. \A r \in S : \A i \in 1..n : r \o parts[i] \in S
  BY <1>2
<1>4. step \in [1..n -> [S -> S]] /\ z \in S
  BY <1>3
<1> HIDE DEF n, S, z
<1>5. PICK g \in [0..n -> S] : Recursive(g, n, z, step)
  <2> HIDE DEF step
  <2> QED BY <1>2, <1>4, RecursionTo
<1>6. \A i \in 1..n : g[i] = g[i - 1] \o parts[i]
  <2>1. \A i \in 1..n : g[i - 1] \in S
    BY <1>2
  <2> QED BY <1>5, <2>1 DEF Recursive
<1>7. g = Body(g)
  <2>1. g[0] = <<>>
    BY <1>5, Zenon DEF Recursive, z
  <2>2. ASSUME NEW i \in 0..n PROVE g[i] = Body(g)[i]
    <3>1. i = 0 \/ i \in 1..n
      BY <1>2
    <3>2. Body(g)[i] = IF i = 0 THEN <<>> ELSE g[i - 1] \o parts[i]
      OBVIOUS
    <3>3. i \in 1..n => i # 0
      BY <1>2
    <3> HIDE DEF Body
    <3> QED BY <1>6, <2>1, <3>1, <3>2, <3>3, Zenon
  <2>3. Body(g) = [i \in 0..n |-> Body(g)[i]]
    OBVIOUS
  <2>4. g = [i \in 0..n |-> g[i]]
    BY <1>5
  <2> HIDE DEF Body
  <2> QED BY <2>2, <2>3, <2>4, Zenon
<1>8. upto = Body(upto)
  <2> HIDE DEF Body
  <2> QED BY <1>7
<1> HIDE DEF upto
<1>9. upto[0] = <<>> /\ \A i \in 1..n : upto[i] = upto[i - 1] \o parts[i]
  <2>1. \A i \in 0..n : upto[i] = IF i = 0 THEN <<>> ELSE upto[i - 1] \o parts[i]
    BY <1>8
  <2> QED BY <2>1, <1>2
<1> DEFINE G == {i \in 0..n : upto[i] \in S}
<1>10. 0 \in G
  BY <1>2, <1>4, <1>9 DEF z
<1>11. ASSUME NEW i \in 0..n - 1, i \in G PROVE i + 1 \in G
  <2>1. i + 1 \in 1..n /\ (i + 1) - 1 = i
    BY <1>2
  <2>2. upto[i + 1] = upto[i] \o parts[i + 1]
    BY <1>9, <2>1
  <2>3. upto[i] \in S
    BY <1>11
  <2>4. upto[i + 1] \in S
    BY <1>3, <2>1, <2>2, <2>3
  <2>5. i + 1 \in 0..n
    BY <1>2
  <2> QED BY <2>4, <2>5
<1>12. 0..n \subseteq G
  <2> HIDE DEF G
  <2> QED BY <1>2, <1>10, <1>11, InductionTo
<1>13. upto \in [0..n -> S]
  <2>1. DOMAIN upto = 0..n
    BY <1>8
  <2>2. \A i \in 0..n : upto[i] \in S
    BY <1>12
  <2>3. upto = [i \in 0..n |-> upto[i]]
    BY <1>8
  <2> HIDE DEF Body
  <2> QED BY <2>2, <2>3
<1> QED BY <1>1, <1>9, <1>13 DEF n, S

\* The whole is what FlattenSeq gives.
LEMMA FlattenedIs ==
    ASSUME NEW X, NEW parts \in Seq(Seq(X))
    PROVE  FlattenSeq(parts) = UpTo(parts)[Len(parts)]
<1> DEFINE n == Len(parts)
           f == UpTo(parts)
           Body(g) == [i \in 1..n |-> IF i = 1 THEN parts[i] ELSE g[i - 1] \o parts[i]]
           flatten == CHOOSE g : g = Body(g)
<1>1. /\ n \in Nat /\ f[0] = <<>> /\ \A i \in 1..n : f[i] = f[i - 1] \o parts[i]
      /\ \A i \in 1..n : parts[i] \in Seq(X)
  <2>1. n \in Nat /\ \A i \in 1..n : parts[i] \in Seq(X)
    OBVIOUS
  <2> QED BY <2>1, UpToIs, Zenon
<1>2. CASE n = 0
  <2>1. parts = <<>>
    BY <1>2
  <2> QED BY <1>1, <1>2, <2>1 DEF FlattenSeq
<1>3. CASE n # 0
  <2>1. FlattenSeq(parts) = flatten[n]
    BY <1>3 DEF FlattenSeq
  <2> HIDE DEF n, f
  <2> DEFINE g == [i \in 1..n |-> f[i]]
  <2>2. g = Body(g)
    <3>1. ASSUME NEW i \in 1..n PROVE g[i] = Body(g)[i]
      <4>1. g[i] = f[i] /\ Body(g)[i] = IF i = 1 THEN parts[i] ELSE g[i - 1] \o parts[i]
        OBVIOUS
      <4>2. CASE i = 1
        <5>1. f[i] = f[i - 1] \o parts[i] /\ i - 1 = 0 /\ parts[i] \in Seq(X)
          <6>1. i - 1 = 0
            BY <4>2
          <6> HIDE DEF g, Body
          <6> QED BY <1>1, <6>1, Zenon
        <5>2. <<>> \o parts[i] = parts[i]
          BY <5>1
        <5>3. f[i] = parts[i]
          BY <1>1, <5>1, <5>2
        <5> HIDE DEF g, Body
        <5> QED BY <4>1, <4>2, <5>3, Zenon
      <4>3. CASE i # 1
        <5>1. i - 1 \in 1..n
          BY <1>1, <4>3
        <5>2. g[i - 1] = f[i - 1]
          BY <5>1
        <5> HIDE DEF g, Body
        <5> QED BY <1>1, <4>1, <4>3, <5>2, Zenon
      <4> QED BY <4>2, <4>3
    <3>2. g = [i \in 1..n |-> g[i]] /\ Body(g) = [i \in 1..n |-> Body(g)[i]]
      OBVIOUS
    <3> HIDE DEF g, Body
    <3> QED BY <3>1, <3>2, Zenon
  <2>3. flatten = Body(flatten)
    <3> HIDE DEF Body, g
    <3> QED BY <2>2
  <2> HIDE DEF flatten
  <2> DEFINE G == {i \in 0..n : i # 0 => flatten[i] = f[i]}
  <2>4. 0 \in G
    BY <1>1
  <2>5. ASSUME NEW i \in 0..n - 1, i \in G PROVE i + 1 \in G
    <3>1. i + 1 \in 1..n /\ (i + 1) - 1 = i
      BY <1>1
    <3>2. flatten[i + 1] = IF i + 1 = 1 THEN parts[i + 1] ELSE flatten[i] \o parts[i + 1]
      BY <2>3, <3>1
    <3>3. f[i + 1] = f[i] \o parts[i + 1] /\ parts[i + 1] \in Seq(X)
      BY <1>1, <3>1
    <3>4. ASSUME i = 0 PROVE flatten[i + 1] = f[i + 1]
      <4>1. <<>> \o parts[i + 1] = parts[i + 1]
        BY <3>3
      <4>2. i + 1 = 1
        BY <3>4
      <4>3. f[i] = <<>>
        BY <1>1, <3>4
      <4> QED BY <3>2, <3>3, <4>1, <4>2, <4>3, Zenon
    <3>5. ASSUME i # 0 PROVE flatten[i + 1] = f[i + 1]
      <4>1. i + 1 # 1
        BY <3>5
      <4>2. flatten[i] = f[i]
        BY <2>5, <3>5
      <4> QED BY <3>2, <3>3, <4>1, <4>2, Zenon
    <3>6. flatten[i + 1] = f[i + 1]
      BY <3>4, <3>5
    <3>7. i + 1 \in 0..n
      BY <1>1
    <3> QED BY <3>6, <3>7
  <2>6. 0..n \subseteq G
    <3> HIDE DEF G
    <3> QED BY <1>1, <2>4, <2>5, InductionTo
  <2>7. flatten[n] = f[n]
    BY <1>1, <1>3, <2>6
  <2> QED BY <2>1, <2>7 DEF n, f
<1> QED BY <1>2, <1>3

\* What is put together up to one is the beginning of what is put together up to
\* a later one.
LEMMA UpToGrows ==
    ASSUME NEW X, NEW parts \in Seq(Seq(X)), NEW p \in 0..Len(parts), NEW m \in 0..p
    PROVE  /\ Len(UpTo(parts)[m]) \in 0..Len(UpTo(parts)[p])
           /\ \A j \in 1..Len(UpTo(parts)[m]) : UpTo(parts)[p][j] = UpTo(parts)[m][j]
<1> DEFINE n == Len(parts)
           f == UpTo(parts)
           Begins(i) == Len(f[m]) \in 0..Len(f[i]) /\ \A j \in 1..Len(f[m]) : f[i][j] = f[m][j]
           G == {i \in 0..n : m <= i => Begins(i)}
<1>1. /\ n \in Nat /\ \A i \in 0..n : f[i] \in Seq(X)
      /\ \A i \in 1..n : f[i] = f[i - 1] \o parts[i]
      /\ \A i \in 1..n : parts[i] \in Seq(X)
  <2>1. n \in Nat /\ \A i \in 1..n : parts[i] \in Seq(X)
    OBVIOUS
  <2>2. f \in [0..n -> Seq(X)]
    BY UpToIs, Zenon
  <2>3. \A i \in 0..n : f[i] \in Seq(X)
    <3> HIDE DEF f, n
    <3> QED BY <2>2
  <2> QED BY <2>1, <2>3, UpToIs, Zenon
<1> HIDE DEF n, f
<1>2. p \in 0..n /\ m \in 0..n /\ Begins(m)
  <2>1. p \in 0..n /\ m \in 0..n
    BY <1>1 DEF n
  <2>2. f[m] \in Seq(X)
    BY <1>1, <2>1
  <2> QED BY <2>1, <2>2
<1>3. 0 \in G
  <2>1. m <= 0 => m = 0
    BY <1>2
  <2> HIDE DEF Begins
  <2> QED BY <1>1, <1>2, <2>1
<1>4. ASSUME NEW i \in 0..n - 1, i \in G PROVE i + 1 \in G
  <2>1. i + 1 \in 1..n /\ (i + 1) - 1 = i /\ i + 1 \in 0..n
    BY <1>1
  <2>2. CASE m <= i
    <3>1. Begins(i)
      BY <1>4, <2>2
    <3>2. f[i + 1] = f[i] \o parts[i + 1]
      BY <1>1, <2>1
    <3>3. f[i] \in Seq(X) /\ parts[i + 1] \in Seq(X)
      BY <1>1, <2>1
    <3>4. Begins(i + 1)
      <4> DEFINE a == f[m]  b == f[i]  c == parts[i + 1]  d == f[i + 1]
      <4>1. a \in Seq(X) /\ b \in Seq(X) /\ c \in Seq(X) /\ d = b \o c
        BY <1>1, <1>2, <3>2, <3>3
      <4>2. Len(a) \in 0..Len(b) /\ \A j \in 1..Len(a) : b[j] = a[j]
        BY <3>1
      <4> HIDE DEF a, b, c, d
      <4>3. Len(d) = Len(b) + Len(c) /\ Len(b) \in Nat /\ Len(c) \in Nat /\ Len(a) \in Nat
        BY <4>1
      <4>4. Len(a) \in 0..Len(d)
        BY <4>2, <4>3
      <4>5. \A j \in 1..Len(a) : j \in 1..Len(b)
        BY <4>2, <4>3
      <4>6. \A j \in 1..Len(b) : d[j] = b[j]
        BY <4>1
      <4>7. \A j \in 1..Len(a) : d[j] = a[j]
        BY <4>2, <4>5, <4>6
      <4> QED BY <4>4, <4>7 DEF a, d
    <3> HIDE DEF Begins
    <3> QED BY <2>1, <3>4
  <2>3. CASE ~(m <= i)
    <3>1. m <= i + 1 => m = i + 1
      BY <1>2, <2>1, <2>3
    <3> HIDE DEF Begins
    <3> QED BY <1>2, <2>1, <3>1
  <2> QED BY <2>2, <2>3
<1>5. 0..n \subseteq G
  <2> HIDE DEF G
  <2> QED BY <1>1, <1>3, <1>4, InductionTo
<1> QED BY <1>2, <1>5 DEF f

\* Every place in the whole is in one of the sequences.
LEMMA PlaceIsIn ==
    ASSUME NEW X, NEW parts \in Seq(Seq(X)), NEW k \in Nat, k < Len(UpTo(parts)[Len(parts)])
    PROVE  \E m \in 1..Len(parts) :
              /\ Len(UpTo(parts)[m - 1]) \in 0..k
              /\ k + 1 - Len(UpTo(parts)[m - 1]) \in 1..Len(parts[m])
              /\ UpTo(parts)[Len(parts)][k + 1] = parts[m][k + 1 - Len(UpTo(parts)[m - 1])]
<1> DEFINE n == Len(parts)
           f == UpTo(parts)
           T == {i \in 0..n : k < Len(f[i])}
<1>1. /\ n \in Nat /\ f[0] = <<>> /\ \A i \in 0..n : f[i] \in Seq(X)
      /\ \A i \in 1..n : f[i] = f[i - 1] \o parts[i]
      /\ \A i \in 1..n : parts[i] \in Seq(X)
  <2>1. n \in Nat /\ \A i \in 1..n : parts[i] \in Seq(X)
    OBVIOUS
  <2>2. f \in [0..n -> Seq(X)]
    BY UpToIs, Zenon
  <2>3. \A i \in 0..n : f[i] \in Seq(X)
    <3> HIDE DEF f, n
    <3> QED BY <2>2
  <2> QED BY <2>1, <2>3, UpToIs, Zenon
<1>2. n \in T
  BY <1>1
<1>3. PICK m \in T : \A i \in T : m <= i
  <2>1. T \subseteq 0..n /\ T # {}
    BY <1>2
  <2> HIDE DEF T, n
  <2> QED BY <1>1, <2>1, LeastNumber
<1> HIDE DEF n, f
<1>4. m \in 1..n /\ m - 1 \in 0..n /\ m - 1 \notin T
  <2>1. m # 0
    <3>1. Len(f[0]) = 0
      BY <1>1
    <3> QED BY <1>3, <3>1
  <2> QED BY <1>1, <1>3, <2>1
<1> DEFINE before == f[m - 1]
<1>5. before \in Seq(X) /\ parts[m] \in Seq(X) /\ f[m] = before \o parts[m]
  BY <1>1, <1>4
<1>6. Len(before) \in 0..k
  <2>1. ~(k < Len(before))
    BY <1>4
  <2>2. Len(before) \in Nat
    BY <1>5
  <2> QED BY <2>1, <2>2
<1>7. k < Len(f[m])
  BY <1>3
<1> HIDE DEF before, T
<1>8. Len(f[m]) = Len(before) + Len(parts[m]) /\ Len(parts[m]) \in Nat
  BY <1>5
<1>9. k + 1 - Len(before) \in 1..Len(parts[m])
  BY <1>6, <1>7, <1>8
<1>10. f[m][k + 1] = parts[m][k + 1 - Len(before)]
  BY <1>5, <1>6, <1>9
<1>11. f[n][k + 1] = f[m][k + 1]
  <2>1. m \in 0..n /\ n \in 0..n
    BY <1>1, <1>4
  <2>2. \A j \in 1..Len(f[m]) : f[n][j] = f[m][j]
    BY <2>1, UpToGrows DEF f, n
  <2>3. k + 1 \in 1..Len(f[m])
    BY <1>6, <1>7, <1>8
  <2> QED BY <2>2, <2>3
<1> QED BY <1>4, <1>6, <1>9, <1>10, <1>11 DEF before, f, n
-----------------------------------------------------------------------------
\* What a region is in the file.

Exports ==
    /\ export.format \in {"DS9_REG", "CRTF"}
    /\ export.pixel \in BOOLEAN /\ export.same \in BOOLEAN

Round(r) == r.size = "round" /\ r.type \in Ellipses

\* An ellipse's angle is written from the x axis and read back from the y axis.
LEMMA AnglesTurnBack ==
    ASSUME NEW a \in 0..359
    PROVE  /\ FromXAxis(a) \in 0..360 /\ FromYAxis(FromXAxis(a)) = a
           /\ FromXAxis(a) % 360 \in 0..359 /\ FromYAxis(FromXAxis(a) % 360) = a
<1>1. CASE a + 90 > 360
  BY <1>1 DEF FromXAxis, FromYAxis
<1>2. CASE a + 90 = 360
  <2>1. 360 % 360 = 0
    OBVIOUS
  <2> QED BY <1>2, <2>1 DEF FromXAxis, FromYAxis
<1>3. CASE a + 90 < 360
  <2>1. (a + 90) % 360 = a + 90
    BY <1>3
  <2> QED BY <1>3, <2>1 DEF FromXAxis, FromYAxis
<1> QED BY <1>1, <1>2, <1>3

KeptAt(r) == IF export.format # "CRTF" /\ export.pixel /\ ~export.same THEN r.at - 1 ELSE r.at
KeptName(r) == IF export.format # "CRTF" /\ r.type = "ANNTEXT" THEN Blank ELSE r.name
KeptDash(r) == IF export.format = "CRTF" /\ r.dash > 1 THEN DashLength ELSE r.dash

LEMMA KeptIs ==
    ASSUME NEW r, ToExport(r)
    PROVE  Kept(r) = [type |-> r.type, at |-> KeptAt(r), in |-> IF export.pixel THEN "pixel" ELSE "world",
                      size |-> r.size, rotation |-> IF Round(r) THEN 0 ELSE r.rotation,
                      name |-> KeptName(r), shape |-> r.shape,
                      color |-> IF export.format = "CRTF" THEN CrtfColor(r.color) ELSE r.color,
                      dash |-> KeptDash(r)]
<1>1. r = [type |-> r.type, at |-> r.at, in |-> "pixel", size |-> r.size, rotation |-> r.rotation,
           name |-> r.name, shape |-> r.shape, color |-> r.color, dash |-> r.dash]
  BY DEF ToExport
<1> DEFINE in == IF export.pixel THEN "pixel" ELSE "world"
           at == KeptAt(r)
           rotation == IF Round(r) THEN 0 ELSE r.rotation
           name == KeptName(r)
           dash == KeptDash(r)
           color == IF export.format = "CRTF" THEN CrtfColor(r.color) ELSE r.color
<1>2. Kept(r) = [r EXCEPT !.in = in, !.at = at, !.rotation = rotation, !.name = name, !.dash = dash,
                          !.color = color]
  <2>1. rotation = IF r.type \in Ellipses /\ r.size = "round" THEN 0 ELSE r.rotation
    BY Zenon DEF Round
  <2> HIDE DEF rotation
  <2> QED BY <2>1, Zenon DEF Kept, KeptAt, KeptName, KeptDash
<1> HIDE DEF in, at, rotation, name, dash, color
<1>3. Kept(r) = [type |-> r.type, at |-> at, in |-> in, size |-> r.size, rotation |-> rotation,
                 name |-> name, shape |-> r.shape, color |-> color, dash |-> dash]
  BY <1>1, <1>2
<1> QED BY <1>3, Zenon DEF in, at, rotation, name, dash, color

LEMMA Ds9Written ==
    ASSUME Exports, export.format = "DS9_REG", NEW r, ToExport(r)
    PROVE  \E at \in Int, unit \in {"none", "deg"}, angle \in Int :
              /\ AddExportRegion(r) = WithCsys(Ds9Line(r, at, unit, angle), "fk5")
              /\ (IF export.pixel THEN at - 1 ELSE at) = KeptAt(r)
              /\ IF r.type \in Ellipses THEN angle # NoAngle /\ FromYAxis(angle) = r.rotation
                 ELSE angle = r.rotation
<1> DEFINE pixel == export.pixel
           same == export.same
           ellipse == r.type \in Ellipses
<1>1. /\ r.at \in Int /\ r.rotation \in 0..359
      /\ r.at + 1 \in Int /\ r.at - 1 \in Int /\ (r.at + 1) - 1 = r.at
  <2>1. r.at \in Int /\ r.rotation \in 0..359
    <3>1. r.at \in Int /\ (r.rotation \in 0..359 \/ r.rotation = 0)
      BY Zenon DEF ToExport
    <3>2. 0 \in 0..359
      OBVIOUS
    <3> QED BY <3>1, <3>2, Zenon
  <2> QED BY <2>1
<1>2. Ds9Angle(r) \in Int /\ RecordAngle(r) \in Int
  <2>1. CASE ellipse
    <3>1. Ds9Angle(r) = FromXAxis(r.rotation) /\ RecordAngle(r) = FromXAxis(r.rotation) % 360
      BY <2>1, Zenon DEF Ds9Angle, RecordAngle, ConvertRecordToEllipse
    <3>2. FromXAxis(r.rotation) \in 0..360 /\ FromXAxis(r.rotation) % 360 \in 0..359
      BY <1>1, AnglesTurnBack, ZenonT(40)
    <3> QED BY <3>1, <3>2
  <2>2. CASE ~ellipse
    <3>1. Ds9Angle(r) = r.rotation /\ RecordAngle(r) = r.rotation
      BY <2>2, Zenon DEF Ds9Angle, RecordAngle
    <3> QED BY <1>1, <3>1
  <2> QED BY <2>1, <2>2
<1>3. \A angle \in {Ds9Angle(r), RecordAngle(r)} :
         IF ellipse THEN angle # NoAngle /\ FromYAxis(angle) = r.rotation ELSE angle = r.rotation
  <2>1. CASE ellipse
    <3>1. Ds9Angle(r) = FromXAxis(r.rotation) /\ RecordAngle(r) = FromXAxis(r.rotation) % 360
      BY <2>1, Zenon DEF Ds9Angle, RecordAngle, ConvertRecordToEllipse
    <3> DEFINE a == r.rotation
    <3>0. a \in 0..359
      BY <1>1
    <3> HIDE DEF a
    <3>2. FromXAxis(a) \in 0..360 /\ FromYAxis(FromXAxis(a)) = a
      BY <3>0, AnglesTurnBack, ZenonT(40)
    <3>3. FromXAxis(a) % 360 \in 0..359 /\ FromYAxis(FromXAxis(a) % 360) = a
      BY <3>0, AnglesTurnBack, ZenonT(40)
    <3>4. \A angle \in {Ds9Angle(r), RecordAngle(r)} : angle # NoAngle /\ FromYAxis(angle) = a
      <4> DEFINE x == FromXAxis(a)  y == x % 360
      <4>1. Ds9Angle(r) = x /\ RecordAngle(r) = y /\ FromYAxis(x) = a /\ FromYAxis(y) = a
        BY <3>1, <3>2, <3>3 DEF a
      <4>2. x \in 0..360 /\ y \in 0..359
        BY <3>2, <3>3
      <4> HIDE DEF x, y
      <4>3. x # NoAngle /\ y # NoAngle
        BY <4>2 DEF NoAngle
      <4> QED BY <4>1, <4>3, Zenon
    <3> QED BY <2>1, <3>4, Zenon DEF a
  <2>2. CASE ~ellipse
    <3>1. Ds9Angle(r) = r.rotation /\ RecordAngle(r) = r.rotation
      BY <2>2, Zenon DEF Ds9Angle, RecordAngle
    <3> QED BY <2>2, <3>1, Zenon
  <2> QED BY <2>1, <2>2
<1>4. export.format # "CRTF"
  OBVIOUS
<1> HIDE DEF ellipse
<1>5. CASE pixel /\ same
  <2>1. AddExportRegion(r) = Ds9StateLines(r)
    BY <1>4, <1>5, Zenon DEF AddExportRegion, FromState
  <2>2. KeptAt(r) = r.at
    BY <1>5, Zenon DEF KeptAt
  <2>3. (IF export.pixel THEN (r.at + 1) - 1 ELSE r.at + 1) = KeptAt(r)
    BY <1>1, <1>5, <2>2, Zenon
  <2>4. Ds9Angle(r) \in {Ds9Angle(r), RecordAngle(r)} /\ "none" \in {"none", "deg"}
    OBVIOUS
  <2> QED BY <1>1, <1>2, <1>3, <2>1, <2>3, <2>4, Zenon DEF Ds9StateLines, ellipse
<1>6. CASE pixel /\ ~same
  <2>1. AddExportRegion(r) = AddExportRegionPixel(r)
    BY <1>4, <1>6, Zenon DEF AddExportRegion, FromState
  <2>2. KeptAt(r) = r.at - 1
    BY <1>4, <1>6, Zenon DEF KeptAt
  <2>3. (IF export.pixel THEN r.at - 1 ELSE r.at) = KeptAt(r)
    BY <1>6, <2>2, Zenon
  <2>4. RecordAngle(r) \in {Ds9Angle(r), RecordAngle(r)} /\ "none" \in {"none", "deg"}
    OBVIOUS
  <2> QED BY <1>1, <1>2, <1>3, <2>1, <2>3, <2>4, Zenon DEF AddExportRegionPixel, ellipse
<1>7. CASE ~pixel
  <2>1. AddExportRegion(r) = AddExportRegionWorld(r)
    BY <1>4, <1>7, Zenon DEF AddExportRegion, FromState
  <2>2. KeptAt(r) = r.at
    BY <1>7, Zenon DEF KeptAt
  <2>3. (IF export.pixel THEN r.at - 1 ELSE r.at) = KeptAt(r)
    BY <1>7, <2>2, Zenon
  <2>4. RecordAngle(r) \in {Ds9Angle(r), RecordAngle(r)} /\ "deg" \in {"none", "deg"}
    OBVIOUS
  <2> QED BY <1>1, <1>2, <1>3, <2>1, <2>3, <2>4, Zenon DEF AddExportRegionWorld, ellipse
<1> QED BY <1>5, <1>6, <1>7

\* The types, and the name each has in a DS9 file.
LEMMA TypesAre ==
    RegionTypes = {"POINT", "ANNPOINT", "RECTANGLE", "ANNRECTANGLE", "ANNTEXT", "ELLIPSE", "ANNELLIPSE",
                   "ANNCOMPASS", "LINE", "ANNLINE", "POLYLINE", "ANNPOLYLINE", "POLYGON", "ANNPOLYGON",
                   "ANNVECTOR", "ANNRULER"}
BY DEF RegionTypes, Ds9Names

\* The line of a region in a DS9 file.
Ds9LineOf(r, name, at, unit, angle) ==
    [name |-> name, ann |-> r.type \in Annotations, at |-> at, unit |-> unit,
     angle |-> IF (r.type \in CrtfBoxes \cup Ellipses) /\ ~Round(r) THEN angle ELSE NoAngle,
     size |-> r.size, label |-> r.name,
     shape |-> IF r.type = "ANNPOINT" THEN Ds9Shapes[r.shape] ELSE <<>>,
     color |-> r.color, dash |-> r.dash,
     csys |-> IF name \in {"ruler", "compass"} THEN "fk5" ELSE Blank]
Ds9Name(r) == IF Round(r) THEN "circle" ELSE Ds9Names[r.type]

LEMMA Ds9SingleLine ==
    ASSUME NEW r, r.type # "ANNTEXT", NEW at, NEW unit, NEW angle
    PROVE  WithCsys(Ds9Line(r, at, unit, angle), "fk5") = <<Ds9LineOf(r, Ds9Name(r), at, unit, angle)>>
<1> DEFINE line == [Line(Ds9Name(r), r) EXCEPT
                      !.at = at, !.unit = unit,
                      !.angle = IF (r.type \in CrtfBoxes \cup Ellipses) /\ ~Round(r) THEN angle ELSE NoAngle,
                      !.shape = IF r.type = "ANNPOINT" THEN Ds9Shapes[r.shape] ELSE <<>>]
           with == IF line.name \in {"ruler", "compass"} THEN [line EXCEPT !.csys = "fk5"] ELSE line
<1>1. Ds9Line(r, at, unit, angle) = <<line>>
  BY Zenon DEF Ds9Line, Ds9Name, Round
<1>2. with = Ds9LineOf(r, Ds9Name(r), at, unit, angle)
  BY Zenon DEF Line, Ds9LineOf
<1> HIDE DEF line
<1>3. WithCsys(<<line>>, "fk5") = <<with>>
  BY DEF WithCsys
<1> QED BY <1>1, <1>2, <1>3, Zenon

LEMMA Ds9TextLines ==
    ASSUME NEW r, r.type = "ANNTEXT", NEW at, NEW unit, NEW angle
    PROVE  \E text : /\ WithCsys(Ds9Line(r, at, unit, angle), "fk5") =
                           <<Ds9LineOf(r, "textbox", at, unit, angle), text>>
                     /\ text.name = "text" /\ text.label = Blank /\ text.color = r.color
                     /\ text.csys = Blank /\ text.shape = <<>>
<1> DEFINE turn == IF (r.type \in CrtfBoxes \cup Ellipses) /\ ~Round(r) THEN angle ELSE NoAngle
           mark == IF r.type = "ANNPOINT" THEN Ds9Shapes[r.shape] ELSE <<>>
           line == [Line(Ds9Name(r), r) EXCEPT !.at = at, !.unit = unit, !.angle = turn, !.shape = mark]
           box == [line EXCEPT !.name = "textbox"]
           text == [line EXCEPT !.label = Blank, !.size = "none", !.angle = IF angle > 0 THEN angle ELSE NoAngle]
<1>1. Ds9Line(r, at, unit, angle) = <<box, text>>
  BY Zenon DEF Ds9Line, Ds9Name, Round
<1>2. r.type \notin Ellipses /\ r.type # "ANNPOINT" /\ Ds9Names[r.type] = "text"
  BY DEF Ellipses, Ds9Names
<1>3. Ds9Name(r) = "text"
  BY <1>2, Zenon DEF Ds9Name, Round
<1>4. box = Ds9LineOf(r, "textbox", at, unit, angle)
  <2>1. box.name = "textbox" /\ "textbox" \notin {"ruler", "compass"}
    OBVIOUS
  <2> DEFINE ann == r.type \in Annotations
             first == [name |-> Ds9Name(r), ann |-> ann, at |-> r.at, unit |-> "none",
                       angle |-> NoAngle, size |-> r.size, label |-> r.name, shape |-> <<>>,
                       color |-> r.color, dash |-> r.dash, csys |-> Blank]
             all == [name |-> "textbox", ann |-> ann, at |-> at, unit |-> unit, angle |-> turn,
                     size |-> r.size, label |-> r.name, shape |-> mark, color |-> r.color,
                     dash |-> r.dash, csys |-> Blank]
  <2>2. box = [[first EXCEPT !.at = at, !.unit = unit, !.angle = turn, !.shape = mark] EXCEPT !.name = "textbox"]
    BY Zenon DEF Line
  <2> HIDE DEF turn, mark, ann, box
  <2>3. box = all
    BY <2>2
  <2> QED BY <2>1, <2>3, Zenon DEF Ds9LineOf, turn, mark, ann
<1>5. text.name = "text" /\ text.label = Blank /\ text.color = r.color /\ text.csys = Blank /\ text.shape = <<>>
  BY <1>2, <1>3, Zenon DEF Line
<1>6. box.name = "textbox"
  BY Zenon DEF Line
<1> HIDE DEF box, text
<1>7. WithCsys(<<box, text>>, "fk5") = <<box, text>>
  BY <1>5, <1>6 DEF WithCsys
<1>8. WithCsys(Ds9Line(r, at, unit, angle), "fk5") = <<Ds9LineOf(r, "textbox", at, unit, angle), text>>
  BY <1>1, <1>4, <1>7, Zenon
<1> QED BY <1>5, <1>8, Zenon
-----------------------------------------------------------------------------
\* Reading a line of a DS9 file.

\* A mark is read as the mark it is of.
LEMMA Ds9MarksAreRead ==
    ASSUME NEW s \in DOMAIN Ds9Shapes
    PROVE  Ds9Shapes[s] # <<>> /\ ShapeOf(Ds9Shapes, Ds9Shapes[s]) = s
<1>1. DOMAIN Ds9Shapes = {"SQUARE", "BOX", "CIRCLE", "CIRCLE_LINED", "DIAMOND", "DIAMOND_LINED", "CROSS", "X"}
  BY DEF Ds9Shapes
<1>2. /\ Ds9Shapes["SQUARE"] = <<"box", 1>> /\ Ds9Shapes["BOX"] = <<"box", 0>>
      /\ Ds9Shapes["CIRCLE"] = <<"circle", 1>> /\ Ds9Shapes["CIRCLE_LINED"] = <<"circle", 0>>
      /\ Ds9Shapes["DIAMOND"] = <<"diamond", 1>> /\ Ds9Shapes["DIAMOND_LINED"] = <<"diamond", 0>>
      /\ Ds9Shapes["CROSS"] = <<"cross", 0>> /\ Ds9Shapes["X"] = <<"x", 0>>
  BY DEF Ds9Shapes
<1>3. Ds9Shapes[s] # <<>>
  BY <1>1, <1>2
<1>4. CASE s \in {"CROSS", "X"}
  <2>1. ShapeOf(Ds9Shapes, Ds9Shapes[s]) = CHOOSE x \in {"CROSS", "X"} : Ds9Shapes[x][1] = Ds9Shapes[s][1]
    BY <1>2, <1>4 DEF ShapeOf
  <2>2. \A x \in {"CROSS", "X"} : Ds9Shapes[x][1] = Ds9Shapes[s][1] <=> x = s
    BY <1>2, <1>4
  <2> DEFINE v == Ds9Shapes[s][1]  f(x) == Ds9Shapes[x][1]
  <2>3. \A x \in {"CROSS", "X"} : f(x) = v <=> x = s
    BY <2>2
  <2>4. ShapeOf(Ds9Shapes, Ds9Shapes[s]) = CHOOSE x \in {"CROSS", "X"} : f(x) = v
    BY <2>1
  <2> HIDE DEF v, f
  <2>5. \E x \in {"CROSS", "X"} : f(x) = v
    BY <1>4, <2>3
  <2>6. ShapeOf(Ds9Shapes, Ds9Shapes[s]) \in {"CROSS", "X"} /\ f(ShapeOf(Ds9Shapes, Ds9Shapes[s])) = v
    BY <2>4, <2>5, Zenon
  <2> QED BY <1>3, <1>4, <2>3, <2>6, Zenon
<1>5. CASE s \notin {"CROSS", "X"}
  <2>1. Ds9Shapes[s][1] \notin {"cross", "x", "+"}
    BY <1>1, <1>2, <1>5
  <2>2. ShapeOf(Ds9Shapes, Ds9Shapes[s]) = CHOOSE x \in DOMAIN Ds9Shapes : Ds9Shapes[x] = Ds9Shapes[s]
    BY <2>1, Zenon DEF ShapeOf
  <2>3. \A x \in DOMAIN Ds9Shapes : Ds9Shapes[x] = Ds9Shapes[s] => x = s
    <3> USE <1>1, <1>2, <1>5
    <3>1. CASE s = "SQUARE"
      BY <3>1
    <3>2. CASE s = "BOX"
      BY <3>2
    <3>3. CASE s = "CIRCLE"
      BY <3>3
    <3>4. CASE s = "CIRCLE_LINED"
      BY <3>4
    <3>5. CASE s = "DIAMOND"
      BY <3>5
    <3>6. CASE s = "DIAMOND_LINED"
      BY <3>6
    <3> QED BY <3>1, <3>2, <3>3, <3>4, <3>5, <3>6
  <2> DEFINE v == Ds9Shapes[s]  D == DOMAIN Ds9Shapes  f(x) == Ds9Shapes[x]
  <2>4. \A x \in D : f(x) = v => x = s
    BY <2>3
  <2>5. ShapeOf(Ds9Shapes, Ds9Shapes[s]) = CHOOSE x \in D : f(x) = v
    BY <2>2
  <2>6. s \in D /\ f(s) = v
    OBVIOUS
  <2> HIDE DEF v, D, f
  <2>7. ShapeOf(Ds9Shapes, Ds9Shapes[s]) \in D /\ f(ShapeOf(Ds9Shapes, Ds9Shapes[s])) = v
    BY <2>5, <2>6, Zenon
  <2> QED BY <1>3, <2>4, <2>7, Zenon
<1> QED BY <1>3, <1>4, <1>5

\* The frame of the file is set.
FileFrameSet ==
    export.format = "DS9_REG" =>
        (importer.pixel <=> export.pixel) /\ (importer.frame = Blank <=> export.pixel)

\* The type of a line, by its name.
Ds9TypeOf(name, ann) ==
    CASE name = "point" -> Type(ann, "ANNPOINT", "POINT")
      [] name = "text" -> "ANNTEXT"
      [] name = "ellipse" -> Type(ann, "ANNELLIPSE", "ELLIPSE")
      [] name = "circle" -> Type(ann, "ANNELLIPSE", "ELLIPSE")
      [] name = "compass" -> "ANNCOMPASS"
      [] name = "box" -> Type(ann, "ANNRECTANGLE", "RECTANGLE")
      [] name = "textbox" -> "ANNTEXT"
      [] name = "line" -> Type(ann, "ANNLINE", "LINE")
      [] name = "polyline" -> Type(ann, "ANNPOLYLINE", "POLYLINE")
      [] name = "polygon" -> Type(ann, "ANNPOLYGON", "POLYGON")
      [] name = "ruler" -> "ANNRULER"
      [] name = "vector" -> "ANNVECTOR"

\* A line with a name of a region gives its type.
LEMMA Ds9NamesTheirTypes ==
    ASSUME NEW r, r.type \in RegionTypes, r.type # "ANNTEXT"
    PROVE  /\ Ds9TypeOf(Ds9Name(r), r.type \in Annotations) = r.type
           /\ Ds9Name(r) \notin {"comment", "global", "frame", "textbox", "text"}
           /\ Ds9Name(r) \in {"ruler", "compass"} <=> r.type \in {"ANNRULER", "ANNCOMPASS"}
           /\ Ds9Name(r) = "circle" <=> Round(r)
           /\ Ds9Name(r) = "ellipse" <=> r.type \in Ellipses /\ ~Round(r)
           /\ Ds9Name(r) = "box" <=> r.type \in CrtfBoxes
           /\ r.type # Blank
           /\ Ds9Name(r) \in {"point", "box", "ellipse", "circle", "compass", "line", "polyline", "polygon",
                              "vector", "ruler"}
           /\ Ds9Name(r) = "compass" <=> r.type = "ANNCOMPASS"
<1>0. \A t \in RegionTypes : t # Blank
  BY TypesAre, Zenon DEF Blank
<1>1. CASE r.type = "POINT"
  BY <1>0, <1>1 DEF Ds9TypeOf, Ds9Name, Ds9Names, Round, Annotations, Ellipses, CrtfBoxes, Type
<1>2. CASE r.type = "ANNPOINT"
  BY <1>0, <1>2 DEF Ds9TypeOf, Ds9Name, Ds9Names, Round, Annotations, Ellipses, CrtfBoxes, Type
<1>3. CASE r.type = "RECTANGLE"
  BY <1>0, <1>3 DEF Ds9TypeOf, Ds9Name, Ds9Names, Round, Annotations, Ellipses, CrtfBoxes, Type
<1>4. CASE r.type = "ANNRECTANGLE"
  BY <1>0, <1>4 DEF Ds9TypeOf, Ds9Name, Ds9Names, Round, Annotations, Ellipses, CrtfBoxes, Type
<1>5. CASE r.type = "ELLIPSE"
  BY <1>0, <1>5 DEF Ds9TypeOf, Ds9Name, Ds9Names, Round, Annotations, Ellipses, CrtfBoxes, Type
<1>6. CASE r.type = "ANNELLIPSE"
  BY <1>0, <1>6 DEF Ds9TypeOf, Ds9Name, Ds9Names, Round, Annotations, Ellipses, CrtfBoxes, Type
<1>7. CASE r.type = "ANNCOMPASS"
  BY <1>0, <1>7 DEF Ds9TypeOf, Ds9Name, Ds9Names, Round, Annotations, Ellipses, CrtfBoxes, Type
<1>8. CASE r.type = "LINE"
  BY <1>0, <1>8 DEF Ds9TypeOf, Ds9Name, Ds9Names, Round, Annotations, Ellipses, CrtfBoxes, Type
<1>9. CASE r.type = "ANNLINE"
  BY <1>0, <1>9 DEF Ds9TypeOf, Ds9Name, Ds9Names, Round, Annotations, Ellipses, CrtfBoxes, Type
<1>10. CASE r.type = "POLYLINE"
  BY <1>0, <1>10 DEF Ds9TypeOf, Ds9Name, Ds9Names, Round, Annotations, Ellipses, CrtfBoxes, Type
<1>11. CASE r.type = "ANNPOLYLINE"
  BY <1>0, <1>11 DEF Ds9TypeOf, Ds9Name, Ds9Names, Round, Annotations, Ellipses, CrtfBoxes, Type
<1>12. CASE r.type = "POLYGON"
  BY <1>0, <1>12 DEF Ds9TypeOf, Ds9Name, Ds9Names, Round, Annotations, Ellipses, CrtfBoxes, Type
<1>13. CASE r.type = "ANNPOLYGON"
  BY <1>0, <1>13 DEF Ds9TypeOf, Ds9Name, Ds9Names, Round, Annotations, Ellipses, CrtfBoxes, Type
<1>14. CASE r.type = "ANNVECTOR"
  BY <1>0, <1>14 DEF Ds9TypeOf, Ds9Name, Ds9Names, Round, Annotations, Ellipses, CrtfBoxes, Type
<1>15. CASE r.type = "ANNRULER"
  BY <1>0, <1>15 DEF Ds9TypeOf, Ds9Name, Ds9Names, Round, Annotations, Ellipses, CrtfBoxes, Type
<1> QED BY <1>1, <1>2, <1>3, <1>4, <1>5, <1>6, <1>7, <1>8, <1>9, <1>10, <1>11, <1>12, <1>13, <1>14, <1>15, TypesAre

\* The state a line gives.
LEMMA Ds9StateRead ==
    ASSUME NEW r, ToExport(r), r.type # "ANNTEXT", NEW line, NEW angle \in Int,
           line = [name |-> line.name, ann |-> line.ann, at |-> line.at, unit |-> line.unit,
                   angle |-> line.angle, size |-> line.size, label |-> line.label, shape |-> line.shape,
                   color |-> line.color, dash |-> line.dash, csys |-> line.csys],
           line.name = Ds9Name(r), line.ann = (r.type \in Annotations), line.size = r.size,
           line.angle = IF (r.type \in CrtfBoxes \cup Ellipses) /\ ~Round(r) THEN angle ELSE NoAngle,
           IF r.type \in Ellipses THEN angle # NoAngle /\ FromYAxis(angle) = r.rotation
           ELSE angle = r.rotation
    PROVE  Ds9State(line) = [type |-> r.type, rotation |-> IF Round(r) THEN 0 ELSE r.rotation, size |-> r.size]
<1> DEFINE name == Ds9Name(r)
           ann == r.type \in Annotations
<1>1. /\ Ds9TypeOf(name, ann) = r.type /\ line.name = name
      /\ name \in {"point", "box", "ellipse", "circle", "compass", "line", "polyline", "polygon",
                    "vector", "ruler"}
      /\ name = "circle" <=> Round(r)
      /\ name = "ellipse" <=> r.type \in Ellipses /\ ~Round(r)
      /\ name = "box" <=> r.type \in CrtfBoxes
      /\ name = "compass" <=> r.type = "ANNCOMPASS"
  BY Ds9NamesTheirTypes, Zenon DEF ToExport
<1>2. /\ r.type \in CrtfBoxes => r.rotation \in 0..359 /\ r.type \notin Ellipses
      /\ r.type \notin CrtfBoxes /\ r.type \notin Ellipses => r.rotation = 0
      /\ r.size \in Sizes /\ (r.type = "ANNCOMPASS" => r.size = "round")
      /\ "ANNCOMPASS" \notin Ellipses
  <2>1. \A t \in CrtfBoxes : t \notin Ellipses
    BY DEF CrtfBoxes, Ellipses
  <2>2. "ANNCOMPASS" \notin Ellipses
    BY DEF Ellipses
  <2> QED BY <2>1, <2>2, Zenon DEF ToExport
<1>3. Round(r) <=> r.size = "round" /\ r.type \in Ellipses
  BY DEF Round
<1> HIDE DEF name, ann
<1>4. CASE name = "point"
  <2>1. Ds9State(line) = ImportPointRegion(line) /\ r.type = Type(ann, "ANNPOINT", "POINT")
    BY <1>1, <1>4 DEF Ds9State, Ds9TypeOf
  <2>2. line.angle = NoAngle /\ r.rotation = 0 /\ ~Round(r)
    BY <1>1, <1>2, <1>3, <1>4
  <2>3. Angle(line) = 0
    BY <2>2 DEF Angle
  <2> QED BY <1>1, <1>4, <2>1, <2>2, <2>3 DEF ImportPointRegion, State, ann
<1>5. CASE name = "box"
  <2>1. Ds9State(line) = ImportRectangleRegion(line) /\ r.type = Type(ann, "ANNRECTANGLE", "RECTANGLE")
    BY <1>1, <1>5 DEF Ds9State, Ds9TypeOf
  <2>2. line.angle = r.rotation /\ r.rotation \in 0..359 /\ ~Round(r)
    BY <1>1, <1>2, <1>3, <1>5
  <2>3. Angle(line) = r.rotation
    BY <2>2 DEF Angle, NoAngle
  <2> QED BY <1>1, <1>5, <2>1, <2>2, <2>3 DEF ImportRectangleRegion, State, ann
<1>6. CASE name = "ellipse"
  <2>1. Ds9State(line) = ImportEllipseRegion(line) /\ r.type = Type(ann, "ANNELLIPSE", "ELLIPSE")
    BY <1>1, <1>6 DEF Ds9State, Ds9TypeOf
  <2>2. line.angle = angle /\ angle # NoAngle /\ FromYAxis(angle) = r.rotation /\ ~Round(r) /\ r.size = "long"
    BY <1>1, <1>2, <1>3, <1>6 DEF Sizes
  <2>3. Angle(line) = angle
    BY <2>2 DEF Angle
  <2> QED BY <1>1, <1>6, <2>1, <2>2, <2>3 DEF ImportEllipseRegion, State, ann
<1>7. CASE name \in {"circle", "compass"}
  <2> DEFINE round == [line EXCEPT !.size = "round", !.angle = NoAngle]
  <2>0. line.name # "ellipse"
    BY <1>1, <1>7
  <2>1. Ds9State(line) = ImportEllipseRegion(round)
    BY <1>1, <1>7, <2>0, Zenon DEF Ds9State, ImportCircleRegion
  <2>2. r.type = IF name = "compass" THEN "ANNCOMPASS" ELSE Type(ann, "ANNELLIPSE", "ELLIPSE")
    BY <1>1, <1>7 DEF Ds9TypeOf
  <2>3. round.name = line.name /\ round.ann = line.ann /\ round.size = "round" /\ round.angle = NoAngle
    OBVIOUS
  <2>4. r.size = "round" /\ (IF Round(r) THEN 0 ELSE r.rotation) = 0
    <3>1. CASE name = "circle"
      BY <1>1, <1>3, <3>1
    <3>2. CASE name = "compass"
      <4>1. r.type \notin CrtfBoxes
        BY <1>1, <3>2
      <4> QED BY <1>1, <1>2, <1>3, <3>2, <4>1
    <3> QED BY <1>7, <3>1, <3>2
  <2> HIDE DEF round
  <2>5. Angle(round) = 0
    BY <2>3 DEF Angle
  <2>6. ImportEllipseRegion(round) = State(r.type, round, 0)
    BY <1>1, <1>7, <2>2, <2>3, <2>5 DEF ImportEllipseRegion, ann
  <2> QED BY <2>1, <2>3, <2>4, <2>6, Zenon DEF State
<1>8. CASE name = "vector"
  <2>1. Ds9State(line) = State("ANNVECTOR", line, 0) /\ r.type = "ANNVECTOR"
    BY <1>1, <1>8 DEF Ds9State, Ds9TypeOf, ImportVectorRegion
  <2>2. r.rotation = 0 /\ ~Round(r)
    BY <1>1, <1>2, <1>3, <1>8
  <2> QED BY <2>1, <2>2 DEF State
<1>9. CASE name \in {"line", "polyline", "polygon", "ruler"}
  <2>1. Ds9State(line) = ImportPolygonLineRegion(line)
    BY <1>1, <1>9 DEF Ds9State
  <2>2. r.rotation = 0 /\ ~Round(r)
    BY <1>1, <1>2, <1>3, <1>9
  <2>3. Ds9State(line) = State(r.type, line, 0)
    BY <1>1, <1>9, <2>1 DEF Ds9TypeOf, ImportPolygonLineRegion, ann
  <2> QED BY <2>2, <2>3 DEF State
<1> QED BY <1>1, <1>4, <1>5, <1>6, <1>7, <1>8, <1>9

\* The importer between two lines of a DS9 file, after its header.
ImporterIs == importer = [pixel |-> importer.pixel, frame |-> importer.frame,
                          global_dash |-> importer.global_dash, combo |-> importer.combo,
                          pending |-> importer.pending]
Reads == ImporterIs /\ importer.global_dash = 0 /\ FileFrameSet

\* The region of a line is the region that was written, as the format keeps it.
LEMMA Ds9RegionRead ==
    ASSUME Exports, export.format = "DS9_REG", Reads, NEW r, ToExport(r), NEW name,
           NEW at \in Int, NEW unit, NEW angle, NEW line,
           line = Ds9LineOf(r, name, at, unit, angle), (IF export.pixel THEN at - 1 ELSE at) = KeptAt(r),
           Ds9State(line) =
              [type |-> r.type, rotation |-> IF Round(r) THEN 0 ELSE r.rotation, size |-> r.size]
    PROVE  SetRegion(line) = Kept(r)
<1> DEFINE state == Ds9State(line)
           pixel == IF line.csys = Blank THEN importer.pixel ELSE importer.frame = Blank
           point == Ds9Point(line, pixel)
           mark == IF line.shape = <<>> THEN Blank ELSE ShapeOf(Ds9Shapes, line.shape)
           dash == IF line.dash = 0 THEN importer.global_dash ELSE line.dash
           label == IF state.type = "ANNTEXT" THEN Blank ELSE line.label
<1>1. export.format # "CRTF" /\ r.type # Blank
  <2>1. \A t \in RegionTypes : t # Blank
    BY TypesAre, Zenon DEF Blank
  <2>2. export.format # "CRTF"
    OBVIOUS
  <2> QED BY <2>1, <2>2, Zenon DEF ToExport
<1>2. line.at = at /\ line.label = r.name /\ line.color = r.color /\ line.dash = r.dash
      /\ line.shape = IF r.type = "ANNPOINT" THEN Ds9Shapes[r.shape] ELSE <<>>
  BY DEF Ds9LineOf
<1>3. state.type = r.type /\ state.size = r.size /\ state.rotation = IF Round(r) THEN 0 ELSE r.rotation
  OBVIOUS
<1>4. pixel <=> export.pixel
  BY Zenon DEF Reads, FileFrameSet
<1> HIDE DEF state, pixel
<1>5. point.at = KeptAt(r) /\ point.in = IF export.pixel THEN "pixel" ELSE "world"
  <2>1. point = [at |-> IF pixel THEN line.at - 1 ELSE line.at, in |-> IF pixel THEN "pixel" ELSE "world"]
    BY DEF Ds9Point
  <2> HIDE DEF point
  <2> QED BY <1>2, <1>4, <2>1
<1>6. mark = r.shape
  <2>1. CASE r.type = "ANNPOINT"
    <3>1. r.shape \in DOMAIN Ds9Shapes
      BY <2>1, Zenon DEF ToExport
    <3>2. line.shape = Ds9Shapes[r.shape]
      BY <1>2, <2>1, Zenon
    <3>3. Ds9Shapes[r.shape] # <<>> /\ ShapeOf(Ds9Shapes, Ds9Shapes[r.shape]) = r.shape
      BY <3>1, Ds9MarksAreRead, Zenon
    <3> QED BY <3>2, <3>3, Zenon
  <2>2. CASE r.type # "ANNPOINT"
    BY <1>2, <2>2, Zenon DEF ToExport
  <2> QED BY <2>1, <2>2
<1>7. dash = KeptDash(r)
  BY <1>1, <1>2, Zenon DEF Reads, KeptDash
<1>8. label = KeptName(r)
  BY <1>1, <1>2, <1>3, Zenon DEF KeptName
<1>9. SetRegion(line) = [type |-> state.type, at |-> point.at, in |-> point.in, size |-> state.size,
                         rotation |-> state.rotation, name |-> label, shape |-> mark,
                         color |-> line.color, dash |-> dash]
  <2>1. state.type # Blank
    BY <1>1, <1>3
  <2>2. SetRegion(line) = IF state.type = Blank THEN NoRegion
                          ELSE [type |-> state.type, at |-> point.at, in |-> point.in, size |-> state.size,
                                rotation |-> state.rotation, name |-> label, shape |-> mark,
                                color |-> line.color, dash |-> dash]
    BY Zenon DEF SetRegion, state, pixel
  <2> HIDE DEF point, mark, dash, label
  <2> QED BY <2>1, <2>2, Zenon
<1> HIDE DEF point, mark, dash, label
<1>10. (IF export.format = "CRTF" THEN CrtfColor(r.color) ELSE r.color) = r.color
  BY <1>1
<1> HIDE DEF state
<1>11. SetRegion(line) = [type |-> r.type, at |-> KeptAt(r),
                          in |-> IF export.pixel THEN "pixel" ELSE "world", size |-> r.size,
                          rotation |-> IF Round(r) THEN 0 ELSE r.rotation,
                          name |-> KeptName(r), shape |-> r.shape, color |-> r.color,
                          dash |-> KeptDash(r)]
  <2>1. SetRegion(line) = [type |-> r.type, at |-> point.at, in |-> point.in, size |-> r.size,
                           rotation |-> IF Round(r) THEN 0 ELSE r.rotation, name |-> label,
                           shape |-> mark, color |-> r.color, dash |-> dash]
    BY <1>2, <1>3, <1>9, Zenon
  <2> QED BY <1>5, <1>6, <1>7, <1>8, <2>1, Zenon
<1>12. Kept(r) = [type |-> r.type, at |-> KeptAt(r),
                  in |-> IF export.pixel THEN "pixel" ELSE "world", size |-> r.size,
                  rotation |-> IF Round(r) THEN 0 ELSE r.rotation,
                  name |-> KeptName(r), shape |-> r.shape, color |-> r.color,
                  dash |-> KeptDash(r)]
  BY <1>10, KeptIs, Zenon
<1> QED BY <1>11, <1>12, Zenon

\* What a line of a region does.
LEMMA Ds9LineRead ==
    ASSUME Exports, export.format = "DS9_REG", export' = export, Reads, ~importer.combo, NEW line,
           line.name \notin {"comment", "global", "frame"}, line.label # "global",
           SetRegion(line).type # Blank, ProcessDs9Line(line)
    PROVE  /\ Reads' /\ (importer'.combo <=> line.name = "textbox") /\ importer'.pending = SetRegion(line)
           /\ imported' = IF line.name = "textbox" THEN imported ELSE Append(imported, SetRegion(line))
<1> DEFINE region == SetRegion(line)
           combo == line.name = "textbox"
           pixel == AfterCsys(line)
<1>1. /\ importer' = [importer EXCEPT !.combo = combo, !.pending = region, !.pixel = pixel]
      /\ imported' = IF ~combo /\ RegionDefined(region) THEN Append(imported, region) ELSE imported
  BY Zenon DEF ProcessDs9Line
<1>2. pixel <=> export.pixel
  BY Zenon DEF Reads, FileFrameSet, AfterCsys
<1>3. RegionDefined(region)
  BY DEF RegionDefined
<1> HIDE DEF region, combo, pixel
<1>4. importer' = [pixel |-> pixel, frame |-> importer.frame, global_dash |-> importer.global_dash,
                   combo |-> combo, pending |-> region]
  BY <1>1 DEF Reads, ImporterIs
<1>5. Reads'
  <2>1. importer'.pixel = pixel /\ importer'.frame = importer.frame /\ importer'.combo = combo
        /\ importer'.pending = region /\ importer'.global_dash = importer.global_dash
    BY <1>4
  <2>2. ImporterIs'
    BY <1>4, <2>1, Zenon DEF ImporterIs
  <2>3. FileFrameSet'
    BY <1>2, <2>1, Zenon DEF Reads, FileFrameSet
  <2> QED BY <2>1, <2>2, <2>3, Zenon DEF Reads
<1> QED BY <1>1, <1>3, <1>4, <1>5, Zenon DEF combo, region

\* The text of a text box.
LEMMA Ds9TextRead ==
    ASSUME Exports, export.format = "DS9_REG", export' = export, Reads, importer.combo, NEW line,
           line.name = "text", line.label = Blank, line.csys = Blank,
           NEW r, importer.pending = Kept(r), ToExport(r), line.color = r.color, r.type = "ANNTEXT",
           ProcessDs9Line(line)
    PROVE  Reads' /\ ~importer'.combo /\ imported' = Append(imported, Kept(r))
<1> DEFINE region == SetRegion(line)
           now == AddTextStyle(importer.pending, region)
           pixel == AfterCsys(line)
<1>1. line.name \notin {"comment", "global", "frame", "textbox"} /\ line.label # "global" /\ "ANNTEXT" # Blank
  <2>1. Blank # "global" /\ "ANNTEXT" # Blank
    BY Zenon DEF Blank
  <2> QED BY <2>1
<1>2. /\ importer' = [importer EXCEPT !.combo = FALSE, !.pending = now, !.pixel = pixel]
      /\ imported' = IF RegionDefined(now) THEN Append(imported, now) ELSE imported
  BY <1>1, Zenon DEF ProcessDs9Line
<1>3. region.color = r.color
  <2>1. Ds9State(line).type = "ANNTEXT"
    BY DEF Ds9State, ImportPointRegion, State
  <2> QED BY <1>1, <2>1 DEF SetRegion
<1>4. now = Kept(r)
  <2>1. Kept(r).color = r.color
    <3>1. (IF export.format = "CRTF" THEN CrtfColor(r.color) ELSE r.color) = r.color
      OBVIOUS
    <3> QED BY <3>1, KeptIs
  <2>2. [Kept(r) EXCEPT !.color = r.color] = Kept(r)
    <3> DEFINE k == Kept(r)
    <3>1. k = [type |-> k.type, at |-> k.at, in |-> k.in, size |-> k.size, rotation |-> k.rotation,
               name |-> k.name, shape |-> k.shape, color |-> k.color, dash |-> k.dash]
      BY KeptIs
    <3> HIDE DEF k
    <3>2. k.color = r.color
      BY <2>1 DEF k
    <3> QED BY <3>1, <3>2 DEF k
  <2> QED BY <1>3, <2>2, Zenon DEF AddTextStyle
<1>5. RegionDefined(now)
  <2>1. Kept(r).type = "ANNTEXT"
    BY KeptIs
  <2> QED BY <1>1, <1>4, <2>1 DEF RegionDefined
<1>6. pixel <=> export.pixel
  BY Zenon DEF Reads, FileFrameSet, AfterCsys
<1> HIDE DEF region, now, pixel
<1>7. importer' = [pixel |-> pixel, frame |-> importer.frame, global_dash |-> importer.global_dash,
                   combo |-> FALSE, pending |-> now]
  BY <1>2 DEF Reads, ImporterIs
<1>8. Reads'
  <2>1. importer'.pixel = pixel /\ importer'.frame = importer.frame /\ importer'.combo = FALSE
        /\ importer'.pending = now /\ importer'.global_dash = importer.global_dash
    BY <1>7
  <2>2. ImporterIs'
    BY <1>7, <2>1, Zenon DEF ImporterIs
  <2>3. FileFrameSet'
    BY <1>6, <2>1, Zenon DEF Reads, FileFrameSet
  <2> QED BY <2>1, <2>2, <2>3, Zenon DEF Reads
<1> QED BY <1>2, <1>4, <1>5, <1>7, <1>8

\* A comment and a region of a kind that is not supported change nothing.
LEMMA Ds9OtherRead ==
    ASSUME Exports, export.format = "DS9_REG", export' = export, Reads, NEW line,
           line = Other("comment") \/ (line = Other("unsupported") /\ ~importer.combo),
           ProcessDs9Line(line)
    PROVE  /\ Reads' /\ imported' = imported /\ (importer'.combo <=> importer.combo)
           /\ importer.combo => importer'.pending = importer.pending
<1>1. CASE line = Other("comment")
  <2>1. line.name = "comment" /\ line.label # "global"
    BY <1>1, Zenon DEF Other, Line, NoRegion, RegionOf, Blank
  <2>2. importer' = importer /\ imported' = imported
    BY <2>1, Zenon DEF ProcessDs9Line
  <2> QED BY <2>2, Zenon DEF Reads, ImporterIs, FileFrameSet
<1>2. CASE line = Other("unsupported") /\ ~importer.combo
  <2>1. line.name = "unsupported" /\ line.label = Blank /\ line.csys = Blank
    BY <1>2, Zenon DEF Other, Line, NoRegion, RegionOf
  <2>2. line.label # "global"
    <3>1. Blank # "global"
      BY Zenon DEF Blank
    <3> QED BY <2>1, <3>1
  <2> DEFINE region == SetRegion(line)
             pixel == AfterCsys(line)
  <2>3. line.name \notin {"comment", "global", "frame", "textbox"}
    BY <2>1
  <2>4. region = NoRegion
    <3>1. Ds9State(line).type = Blank
      BY <2>1 DEF Ds9State, State
    <3> QED BY <3>1 DEF SetRegion
  <2>5. ~RegionDefined(region)
    BY <2>4 DEF RegionDefined, NoRegion, RegionOf
  <2>6. /\ importer' = [importer EXCEPT !.combo = FALSE, !.pending = region, !.pixel = pixel]
        /\ imported' = imported
    BY <1>2, <2>2, <2>3, <2>5, Zenon DEF ProcessDs9Line
  <2>7. pixel <=> export.pixel
    BY Zenon DEF Reads, FileFrameSet, AfterCsys
  <2> HIDE DEF region, pixel
  <2>8. importer' = [pixel |-> pixel, frame |-> importer.frame, global_dash |-> importer.global_dash,
                     combo |-> FALSE, pending |-> region]
    BY <2>6 DEF Reads, ImporterIs
  <2>9. Reads'
    <3>1. importer'.pixel = pixel /\ importer'.frame = importer.frame /\ importer'.combo = FALSE
          /\ importer'.pending = region /\ importer'.global_dash = importer.global_dash
      BY <2>8
    <3>2. ImporterIs'
      BY <2>8, <3>1, Zenon DEF ImporterIs
    <3>3. FileFrameSet'
      BY <2>7, <3>1, Zenon DEF Reads, FileFrameSet
    <3> QED BY <3>1, <3>2, <3>3, Zenon DEF Reads
  <2> QED BY <1>2, <2>6, <2>8, <2>9
<1> QED BY <1>1, <1>2
-----------------------------------------------------------------------------
\* The lines of a CRTF file.

Turned(r) == r.type \in CrtfBoxes /\ r.rotation # 0
CrtfName(r) == IF Round(r) THEN "circle" ELSE IF Turned(r) THEN "rotbox" ELSE CrtfNames[r.type]
CrtfLineOf(r, name, unit) ==
    [name |-> name, ann |-> r.type \in Annotations, at |-> r.at, unit |-> unit,
     angle |-> IF Turned(r) \/ (r.type \in Ellipses /\ ~Round(r)) THEN r.rotation ELSE NoAngle,
     size |-> r.size, label |-> r.name,
     shape |-> IF r.type = "ANNPOINT" THEN CrtfSymbol(r.shape) ELSE <<>>,
     color |-> r.color, dash |-> IF r.dash > 1 THEN DashLength ELSE r.dash, csys |-> Blank]

LEMMA CrtfWritten ==
    ASSUME Exports, export.format = "CRTF", NEW r, ToExport(r)
    PROVE  \E unit : /\ AddExportRegion(r) = CrtfLines(r, unit, r.rotation)
                     /\ unit = "pix" <=> export.pixel
<1> DEFINE unit == IF export.pixel THEN "pix" ELSE "deg"
<1>1. unit = "pix" <=> export.pixel
  OBVIOUS
<1>2. CASE FromState
  <2>1. AddExportRegion(r) = CrtfStateLines(r) /\ unit = "pix"
    BY <1>2, Zenon DEF AddExportRegion, FromState
  <2> HIDE DEF unit
  <2> QED BY <1>1, <2>1, Zenon DEF CrtfStateLines
<1>3. CASE ~FromState
  <2>1. AddExportRegion(r) = CrtfRecordLines(r)
    BY <1>3, Zenon DEF AddExportRegion
  <2>2. CASE r.type \in Ellipses
    <3> DEFINE a == r.rotation
    <3>1. a \in 0..359
      BY <2>2, Zenon DEF ToExport
    <3>2. RecordAngle(r) = FromXAxis(a) % 360
      BY <2>2, Zenon DEF RecordAngle, ConvertRecordToEllipse
    <3> HIDE DEF a
    <3>3. FromYAxis(FromXAxis(a) % 360) = a
      BY <3>1, AnglesTurnBack, Zenon
    <3> QED BY <1>1, <2>1, <2>2, <3>2, <3>3, ZenonT(40) DEF CrtfRecordLines, a
  <2>3. CASE r.type \notin Ellipses
    BY <1>1, <2>1, <2>3, Zenon DEF CrtfRecordLines
  <2> QED BY <2>2, <2>3
<1> QED BY <1>2, <1>3

LEMMA CrtfLinesAre ==
    ASSUME NEW r, NEW unit
    PROVE  /\ r.type # "ANNTEXT" =>
                 CrtfLines(r, unit, r.rotation) = <<CrtfLineOf(r, CrtfName(r), unit)>>
           /\ r.type = "ANNTEXT" =>
                 \E text : /\ CrtfLines(r, unit, r.rotation) = <<CrtfLineOf(r, "textbox", unit), text>>
                           /\ text.name = "text" /\ text.color = r.color
<1> DEFINE ann == r.type \in Annotations
           turn == IF Turned(r) \/ (r.type \in Ellipses /\ ~Round(r)) THEN r.rotation ELSE NoAngle
           mark == IF r.type = "ANNPOINT" THEN CrtfSymbol(r.shape) ELSE <<>>
           dash == IF r.dash > 1 THEN DashLength ELSE r.dash
           first == [name |-> CrtfName(r), ann |-> ann, at |-> r.at, unit |-> "none",
                     angle |-> NoAngle, size |-> r.size, label |-> r.name, shape |-> <<>>,
                     color |-> r.color, dash |-> r.dash, csys |-> Blank]
           line == [first EXCEPT !.unit = unit, !.angle = turn, !.dash = dash, !.shape = mark]
           box == [line EXCEPT !.name = "textbox"]
           text == [line EXCEPT !.name = "text", !.angle = NoAngle, !.size = "none"]
<1>1. Line(CrtfName(r), r) = first
  BY Zenon DEF Line
<1>2. CrtfLines(r, unit, r.rotation) = IF r.type = "ANNTEXT" THEN <<box, text>> ELSE <<line>>
  <2> HIDE DEF first
  <2>1. [first EXCEPT !.unit = unit, !.angle = turn, !.dash = IF @ > 1 THEN DashLength ELSE @, !.shape = mark]
           = line
    <3>1. first.dash = r.dash
      BY DEF first
    <3> HIDE DEF turn, mark
    <3> QED BY <3>1
  <2> QED BY <1>1, <2>1, ZenonT(40) DEF CrtfLines, CrtfName, Round, Turned
<1> HIDE DEF ann, turn, mark, dash
<1>3. line = [name |-> CrtfName(r), ann |-> ann, at |-> r.at, unit |-> unit, angle |-> turn,
              size |-> r.size, label |-> r.name, shape |-> mark, color |-> r.color, dash |-> dash,
              csys |-> Blank]
  <2>1. line = [first EXCEPT !.unit = unit, !.angle = turn, !.dash = dash, !.shape = mark]
    BY Zenon
  <2> HIDE DEF line
  <2> QED BY <2>1
<1> HIDE DEF line
<1>4. box = [name |-> "textbox", ann |-> ann, at |-> r.at, unit |-> unit, angle |-> turn,
             size |-> r.size, label |-> r.name, shape |-> mark, color |-> r.color, dash |-> dash,
             csys |-> Blank]
  BY <1>3
<1>5. text.name = "text" /\ text.color = r.color
  BY <1>3
<1> HIDE DEF box, text
<1>6. line = CrtfLineOf(r, CrtfName(r), unit) /\ box = CrtfLineOf(r, "textbox", unit)
  BY <1>3, <1>4, Zenon DEF CrtfLineOf, ann, turn, mark, dash
<1> QED BY <1>2, <1>5, <1>6, Zenon
-----------------------------------------------------------------------------
\* Reading a line of a CRTF file.

\* The type of a line, by its name.
CrtfTypeOf(name, ann) ==
    CASE name = "symbol" -> Type(ann, "ANNPOINT", "POINT")
      [] name = "ellipse" -> Type(ann, "ANNELLIPSE", "ELLIPSE")
      [] name = "circle" -> Type(ann, "ANNELLIPSE", "ELLIPSE")
      [] name = "compass" -> "ANNCOMPASS"
      [] name = "centerbox" -> Type(ann, "ANNRECTANGLE", "RECTANGLE")
      [] name = "rotbox" -> Type(ann, "ANNRECTANGLE", "RECTANGLE")
      [] name = "line" -> Type(ann, "ANNLINE", "LINE")
      [] name = "polyline" -> Type(ann, "ANNPOLYLINE", "POLYLINE")
      [] name = "poly" -> Type(ann, "ANNPOLYGON", "POLYGON")
      [] name = "ruler" -> "ANNRULER"
      [] name = "vector" -> "ANNVECTOR"

\* The names of CRTF.
LEMMA CrtfNamesAre ==
    /\ CrtfNames["POINT"] = "symbol" /\ CrtfNames["ANNPOINT"] = "symbol"
    /\ CrtfNames["RECTANGLE"] = "centerbox" /\ CrtfNames["ANNRECTANGLE"] = "centerbox"
    /\ CrtfNames["POLYGON"] = "poly" /\ CrtfNames["ANNPOLYGON"] = "poly"
    /\ CrtfNames["ELLIPSE"] = "ellipse" /\ CrtfNames["ANNELLIPSE"] = "ellipse"
    /\ CrtfNames["ANNCOMPASS"] = "compass" /\ CrtfNames["LINE"] = "line" /\ CrtfNames["ANNLINE"] = "line"
    /\ CrtfNames["POLYLINE"] = "polyline" /\ CrtfNames["ANNPOLYLINE"] = "polyline"
    /\ CrtfNames["ANNVECTOR"] = "vector" /\ CrtfNames["ANNRULER"] = "ruler"
<1>1. CrtfNames = [Ds9Names EXCEPT !["POINT"] = "symbol", !["ANNPOINT"] = "symbol",
                              !["RECTANGLE"] = "centerbox", !["ANNRECTANGLE"] = "centerbox",
                              !["POLYGON"] = "poly", !["ANNPOLYGON"] = "poly"]
  BY Zenon DEF CrtfNames
<1>2. Ds9Names =  [POINT |-> "point", ANNPOINT |-> "point", RECTANGLE |-> "box", ANNRECTANGLE |-> "box",
             ANNTEXT |-> "text", ELLIPSE |-> "ellipse", ANNELLIPSE |-> "ellipse",
             ANNCOMPASS |-> "compass", LINE |-> "line", ANNLINE |-> "line",
             POLYLINE |-> "polyline", ANNPOLYLINE |-> "polyline", POLYGON |-> "polygon",
             ANNPOLYGON |-> "polygon", ANNVECTOR |-> "vector", ANNRULER |-> "ruler"]
  BY Zenon DEF Ds9Names
<1> QED BY <1>1, <1>2

\* A line with a name of a region gives its type.
LEMMA CrtfNamesTheirTypes ==
    ASSUME NEW r, r.type \in RegionTypes, r.type # "ANNTEXT"
    PROVE  /\ CrtfTypeOf(CrtfName(r), r.type \in Annotations) = r.type
           /\ CrtfName(r) \in {"symbol", "centerbox", "rotbox", "ellipse", "circle", "compass", "line",
                               "polyline", "poly", "vector", "ruler"}
           /\ CrtfName(r) = "rotbox" <=> Turned(r)
           /\ CrtfName(r) = "centerbox" <=> r.type \in CrtfBoxes /\ ~Turned(r)
           /\ CrtfName(r) = "circle" <=> Round(r)
           /\ CrtfName(r) = "ellipse" <=> r.type \in Ellipses /\ ~Round(r)
<1>0. (Round(r) => r.type \in Ellipses) /\ (Turned(r) => r.type \in CrtfBoxes)
  BY DEF Round, Turned
<1>16. CrtfName(r) = IF Round(r) THEN "circle" ELSE IF Turned(r) THEN "rotbox" ELSE CrtfNames[r.type]
  BY DEF CrtfName
<1>1. CASE r.type = "POINT"
  BY <1>0, <1>16, <1>1, CrtfNamesAre DEF CrtfTypeOf, Annotations, Ellipses, CrtfBoxes, Type
<1>2. CASE r.type = "ANNPOINT"
  BY <1>0, <1>16, <1>2, CrtfNamesAre DEF CrtfTypeOf, Annotations, Ellipses, CrtfBoxes, Type
<1>3. CASE r.type = "RECTANGLE"
  BY <1>0, <1>16, <1>3, CrtfNamesAre DEF CrtfTypeOf, Annotations, Ellipses, CrtfBoxes, Type
<1>4. CASE r.type = "ANNRECTANGLE"
  BY <1>0, <1>16, <1>4, CrtfNamesAre DEF CrtfTypeOf, Annotations, Ellipses, CrtfBoxes, Type
<1>5. CASE r.type = "ELLIPSE"
  BY <1>0, <1>16, <1>5, CrtfNamesAre DEF CrtfTypeOf, Annotations, Ellipses, CrtfBoxes, Type
<1>6. CASE r.type = "ANNELLIPSE"
  BY <1>0, <1>16, <1>6, CrtfNamesAre DEF CrtfTypeOf, Annotations, Ellipses, CrtfBoxes, Type
<1>7. CASE r.type = "ANNCOMPASS"
  BY <1>0, <1>16, <1>7, CrtfNamesAre DEF CrtfTypeOf, Annotations, Ellipses, CrtfBoxes, Type
<1>8. CASE r.type = "LINE"
  BY <1>0, <1>16, <1>8, CrtfNamesAre DEF CrtfTypeOf, Annotations, Ellipses, CrtfBoxes, Type
<1>9. CASE r.type = "ANNLINE"
  BY <1>0, <1>16, <1>9, CrtfNamesAre DEF CrtfTypeOf, Annotations, Ellipses, CrtfBoxes, Type
<1>10. CASE r.type = "POLYLINE"
  BY <1>0, <1>16, <1>10, CrtfNamesAre DEF CrtfTypeOf, Annotations, Ellipses, CrtfBoxes, Type
<1>11. CASE r.type = "ANNPOLYLINE"
  BY <1>0, <1>16, <1>11, CrtfNamesAre DEF CrtfTypeOf, Annotations, Ellipses, CrtfBoxes, Type
<1>12. CASE r.type = "POLYGON"
  BY <1>0, <1>16, <1>12, CrtfNamesAre DEF CrtfTypeOf, Annotations, Ellipses, CrtfBoxes, Type
<1>13. CASE r.type = "ANNPOLYGON"
  BY <1>0, <1>16, <1>13, CrtfNamesAre DEF CrtfTypeOf, Annotations, Ellipses, CrtfBoxes, Type
<1>14. CASE r.type = "ANNVECTOR"
  BY <1>0, <1>16, <1>14, CrtfNamesAre DEF CrtfTypeOf, Annotations, Ellipses, CrtfBoxes, Type
<1>15. CASE r.type = "ANNRULER"
  BY <1>0, <1>16, <1>15, CrtfNamesAre DEF CrtfTypeOf, Annotations, Ellipses, CrtfBoxes, Type
<1> QED BY <1>1, <1>2, <1>3, <1>4, <1>5, <1>6, <1>7, <1>8, <1>9, <1>10, <1>11, <1>12, <1>13, <1>14, <1>15, TypesAre

\* The state a line gives.
LEMMA CrtfStateRead ==
    ASSUME NEW r, ToExport(r), NEW line, NEW name, line.name = name,
           \/ r.type # "ANNTEXT" /\ name = CrtfName(r)
           \/ r.type = "ANNTEXT" /\ name = "textbox",
           line.ann = (r.type \in Annotations), line.size = r.size,
           line.angle = IF Turned(r) \/ (r.type \in Ellipses /\ ~Round(r)) THEN r.rotation ELSE NoAngle
    PROVE  CrtfState(line) = [type |-> r.type, rotation |-> IF Round(r) THEN 0 ELSE r.rotation, size |-> r.size]
<1> DEFINE ann == r.type \in Annotations
<1>1. /\ r.type \in CrtfBoxes => r.rotation \in 0..359 /\ r.type \notin Ellipses
      /\ r.type \notin CrtfBoxes /\ r.type \notin Ellipses => r.rotation = 0
      /\ "ANNCOMPASS" \notin Ellipses /\ "ANNTEXT" \in CrtfBoxes
  <2>1. \A t \in CrtfBoxes : t \notin Ellipses
    BY DEF CrtfBoxes, Ellipses
  <2>2. "ANNCOMPASS" \notin Ellipses /\ "ANNTEXT" \in CrtfBoxes
    BY DEF Ellipses, CrtfBoxes
  <2> QED BY <2>1, <2>2, Zenon DEF ToExport
<1>2. (Round(r) => r.type \in Ellipses) /\ (Turned(r) <=> r.type \in CrtfBoxes /\ r.rotation # 0)
  BY DEF Round, Turned
<1>3. ASSUME r.type \in CrtfBoxes PROVE Angle(line) = r.rotation /\ ~Round(r)
  <2>1. r.rotation \in 0..359 /\ ~Round(r)
    BY <1>1, <1>2, <1>3
  <2>2. line.angle = IF r.rotation # 0 THEN r.rotation ELSE NoAngle
    BY <1>1, <1>2, <1>3, <2>1, Zenon
  <2> QED BY <2>1, <2>2 DEF Angle, NoAngle
<1>4. CASE r.type = "ANNTEXT"
  <2>1. CrtfState(line) = ImportAnnBox(line)
    BY <1>4 DEF CrtfState
  <2> QED BY <1>1, <1>3, <1>4, <2>1 DEF ImportAnnBox, State
<1>5. CASE r.type # "ANNTEXT"
  <2>1. /\ CrtfTypeOf(name, ann) = r.type
        /\ name \in {"symbol", "centerbox", "rotbox", "ellipse", "circle", "compass", "line",
                      "polyline", "poly", "vector", "ruler"}
        /\ name = "rotbox" <=> Turned(r)
        /\ name = "centerbox" <=> r.type \in CrtfBoxes /\ ~Turned(r)
        /\ name = "circle" <=> Round(r)
        /\ name = "ellipse" <=> r.type \in Ellipses /\ ~Round(r)
    BY <1>5, CrtfNamesTheirTypes, Zenon DEF ToExport
  <2> HIDE DEF ann
  <2>2. CASE name = "symbol"
    <3>1. CrtfState(line) = ImportAnnSymbolText(line) /\ r.type = Type(ann, "ANNPOINT", "POINT")
      BY <2>1, <2>2 DEF CrtfState, CrtfTypeOf
    <3>2. r.rotation = 0 /\ ~Round(r)
      BY <1>1, <1>2, <2>1, <2>2
    <3> QED BY <2>2, <3>1, <3>2 DEF ImportAnnSymbolText, State, ann
  <2>3. CASE name \in {"centerbox", "rotbox"}
    <3>1. CrtfState(line) = ImportAnnBox(line) /\ r.type = Type(ann, "ANNRECTANGLE", "RECTANGLE")
      BY <2>1, <2>3 DEF CrtfState, CrtfTypeOf
    <3>2. r.type \in CrtfBoxes
      BY <1>2, <2>1, <2>3
    <3> QED BY <1>3, <2>3, <3>1, <3>2 DEF ImportAnnBox, State, ann
  <2>4. CASE name = "ellipse"
    <3>1. CrtfState(line) = ImportAnnEllipse(line) /\ r.type = Type(ann, "ANNELLIPSE", "ELLIPSE")
      BY <2>1, <2>4 DEF CrtfState, CrtfTypeOf
    <3>2. line.angle = r.rotation /\ ~Round(r)
      BY <2>1, <2>4
    <3> QED BY <2>4, <3>1, <3>2 DEF ImportAnnEllipse, State, ann
  <2>5. CASE name \in {"circle", "compass"}
    <3>1. CrtfState(line) = ImportAnnEllipse(line)
          /\ r.type = IF name = "compass" THEN "ANNCOMPASS" ELSE Type(ann, "ANNELLIPSE", "ELLIPSE")
      BY <2>1, <2>5 DEF CrtfState, CrtfTypeOf
    <3>2. (IF Round(r) THEN 0 ELSE r.rotation) = 0
      <4>1. CASE name = "circle"
        BY <2>1, <4>1
      <4>2. CASE name = "compass"
        <5>1. r.type \notin CrtfBoxes /\ r.type \notin Ellipses
          BY <1>1, <1>2, <2>1, <3>1, <4>2
        <5> QED BY <1>1, <5>1
      <4> QED BY <2>5, <4>1, <4>2
    <3> QED BY <2>5, <3>1, <3>2 DEF ImportAnnEllipse, State, ann
  <2>6. CASE name \in {"line", "polyline", "poly", "vector", "ruler"}
    <3>1. CrtfState(line) = ImportAnnPoly(line)
      BY <2>6 DEF CrtfState
    <3>2. r.rotation = 0 /\ ~Round(r)
      BY <1>1, <1>2, <2>1, <2>6
    <3>3. CrtfState(line) = State(r.type, line, 0)
      BY <2>1, <2>6, <3>1 DEF CrtfTypeOf, ImportAnnPoly, ann
    <3> QED BY <3>2, <3>3 DEF State
  <2> QED BY <2>1, <2>2, <2>3, <2>4, <2>5, <2>6
<1> QED BY <1>4, <1>5

\* A mark is read as the mark it is of.
LEMMA CrtfMarksAreRead ==
    ASSUME NEW s \in DOMAIN Ds9Shapes
    PROVE  CrtfSymbol(s) # <<>> /\ ShapeOf(CrtfSymbols, CrtfSymbol(s)) = s
<1>1. DOMAIN Ds9Shapes = {"SQUARE", "BOX", "CIRCLE", "CIRCLE_LINED", "DIAMOND", "DIAMOND_LINED", "CROSS", "X"}
  BY DEF Ds9Shapes
<1>2. DOMAIN GetAnnSymbolCharacter = DOMAIN Ds9Shapes
  BY <1>1 DEF GetAnnSymbolCharacter
<1>3. \A x \in DOMAIN Ds9Shapes : CrtfSymbols[x] = CrtfSymbol(x)
  BY <1>2, Zenon DEF CrtfSymbols
<1>4. /\ CrtfSymbol("SQUARE") = <<"s", 1>> /\ CrtfSymbol("BOX") = <<"s", 0>>
      /\ CrtfSymbol("CIRCLE") = <<"o", 1>> /\ CrtfSymbol("CIRCLE_LINED") = <<"o", 0>>
      /\ CrtfSymbol("DIAMOND") = <<"D", 1>> /\ CrtfSymbol("DIAMOND_LINED") = <<"D", 0>>
      /\ CrtfSymbol("CROSS") = <<"+", 1>> /\ CrtfSymbol("X") = <<"x", 1>>
  BY DEF CrtfSymbol, GetAnnSymbolCharacter, Lined
<1>5. CrtfSymbol(s) # <<>>
  BY DEF CrtfSymbol
<1>6. DOMAIN CrtfSymbols = DOMAIN Ds9Shapes
  BY <1>2, Zenon DEF CrtfSymbols
<1> DEFINE mark == CrtfSymbol(s)
           D == DOMAIN Ds9Shapes
           f(x) == CrtfSymbols[x]
           g(x) == CrtfSymbols[x][1]
           read == ShapeOf(CrtfSymbols, mark)
<1>7. CASE s \in {"CROSS", "X"}
  <2>1. mark[1] \in {"x", "+"}
    BY <1>4, <1>7
  <2>2. read = CHOOSE x \in {"CROSS", "X"} : g(x) = mark[1]
    BY <2>1 DEF ShapeOf
  <2>3. \A x \in {"CROSS", "X"} : g(x) = mark[1] <=> x = s
    BY <1>1, <1>3, <1>4, <1>7
  <2> DEFINE v == mark[1]
  <2>4. (\A x \in {"CROSS", "X"} : g(x) = v <=> x = s) /\ read = CHOOSE x \in {"CROSS", "X"} : g(x) = v
    BY <2>2, <2>3
  <2> HIDE DEF v, g, read, mark
  <2>5. \E x \in {"CROSS", "X"} : g(x) = v
    BY <1>7, <2>4
  <2>6. read \in {"CROSS", "X"} /\ g(read) = v
    BY <2>4, <2>5, Zenon
  <2> QED BY <1>5, <1>7, <2>4, <2>6, Zenon DEF read, mark
<1>8. CASE s \notin {"CROSS", "X"}
  <2>1. mark[1] \notin {"cross", "x", "+"}
    BY <1>1, <1>4, <1>8
  <2>2. read = CHOOSE x \in DOMAIN CrtfSymbols : f(x) = mark
    BY <2>1, Zenon DEF ShapeOf
  <2>3. \A x \in D : f(x) = mark => x = s
    <3> USE <1>1, <1>3, <1>4, <1>8
    <3>1. CASE s = "SQUARE"
      BY <3>1
    <3>2. CASE s = "BOX"
      BY <3>2
    <3>3. CASE s = "CIRCLE"
      BY <3>3
    <3>4. CASE s = "CIRCLE_LINED"
      BY <3>4
    <3>5. CASE s = "DIAMOND"
      BY <3>5
    <3>6. CASE s = "DIAMOND_LINED"
      BY <3>6
    <3> QED BY <3>1, <3>2, <3>3, <3>4, <3>5, <3>6
  <2>4. s \in D /\ f(s) = mark
    BY <1>3
  <2>5. read = CHOOSE x \in D : f(x) = mark
    BY <1>6, <2>2, Zenon
  <2> HIDE DEF mark, D, f, read
  <2>6. read \in D /\ f(read) = mark
    BY <2>4, <2>5, Zenon
  <2> QED BY <1>5, <2>3, <2>6, Zenon DEF read, mark
<1> QED BY <1>7, <1>8

\* The region of a line is the region that was written, as the format keeps it.
LEMMA CrtfRegionRead ==
    ASSUME Exports, export.format = "CRTF", NEW r, ToExport(r), NEW name, NEW unit, NEW line,
           unit = "pix" <=> export.pixel, line = CrtfLineOf(r, name, unit),
           \/ r.type # "ANNTEXT" /\ name = CrtfName(r)
           \/ r.type = "ANNTEXT" /\ name = "textbox"
    PROVE  CrtfRegion(line) = Kept(r)
<1> DEFINE state == CrtfState(line)
           mark == IF line.shape = <<>> THEN Blank ELSE ShapeOf(CrtfSymbols, line.shape)
           in == ConvertPointToPixels(line)
<1>1. /\ line.name = name /\ line.at = r.at /\ line.unit = unit /\ line.label = r.name
      /\ line.color = r.color /\ line.size = r.size
      /\ line.dash = IF r.dash > 1 THEN DashLength ELSE r.dash
      /\ line.shape = IF r.type = "ANNPOINT" THEN CrtfSymbol(r.shape) ELSE <<>>
      /\ line.angle = IF Turned(r) \/ (r.type \in Ellipses /\ ~Round(r)) THEN r.rotation ELSE NoAngle
  BY DEF CrtfLineOf
<1>2. line.ann = (r.type \in Annotations)
  <2> DEFINE ann == r.type \in Annotations
  <2>1. CrtfLineOf(r, name, unit).ann = ann
    <3> HIDE DEF ann
    <3> QED BY DEF CrtfLineOf, ann
  <2> QED BY <2>1, Zenon
<1>3. state = [type |-> r.type, rotation |-> IF Round(r) THEN 0 ELSE r.rotation, size |-> r.size]
  BY <1>1, <1>2, CrtfStateRead, Zenon
<1>4. state.type = r.type /\ state.size = r.size /\ state.rotation = IF Round(r) THEN 0 ELSE r.rotation
  BY <1>3
<1>5. in = IF export.pixel THEN "pixel" ELSE "world"
  BY <1>1, Zenon DEF ConvertPointToPixels
<1>6. mark = r.shape
  <2>1. CASE r.type = "ANNPOINT"
    <3>1. r.shape \in DOMAIN Ds9Shapes
      BY <2>1, Zenon DEF ToExport
    <3>2. line.shape = CrtfSymbol(r.shape)
      BY <1>1, <2>1, Zenon
    <3>3. CrtfSymbol(r.shape) # <<>> /\ ShapeOf(CrtfSymbols, CrtfSymbol(r.shape)) = r.shape
      BY <3>1, CrtfMarksAreRead, Zenon
    <3> QED BY <3>2, <3>3, Zenon
  <2>2. CASE r.type # "ANNPOINT"
    BY <1>1, <2>2, Zenon DEF ToExport
  <2> QED BY <2>1, <2>2
<1>7. line.dash = KeptDash(r) /\ KeptAt(r) = r.at /\ KeptName(r) = r.name
  BY <1>1, Zenon DEF KeptDash, KeptAt, KeptName
<1>8. CrtfRegion(line) =
         [type |-> state.type, at |-> line.at, in |-> in, size |-> state.size,
          rotation |-> state.rotation, name |-> line.label, shape |-> mark,
          color |-> CrtfColor(line.color), dash |-> line.dash]
  BY Zenon DEF CrtfRegion
<1>9. (IF export.format = "CRTF" THEN CrtfColor(r.color) ELSE r.color) = CrtfColor(r.color)
  OBVIOUS
<1> HIDE DEF state, mark, in
<1> QED BY <1>1, <1>4, <1>5, <1>6, <1>7, <1>8, <1>9, KeptIs, ZenonT(40)

\* What a line of a region does.
LEMMA CrtfLineRead ==
    ASSUME Exports, export.format = "CRTF", export' = export, Reads, ~importer.combo, NEW line,
           line.name \notin {"comment", "text"}, CrtfRegion(line).type # Blank, ProcessCrtfLine(line)
    PROVE  /\ Reads' /\ (importer'.combo <=> line.name = "textbox") /\ importer'.pending = CrtfRegion(line)
           /\ imported' = IF line.name = "textbox" THEN imported ELSE Append(imported, CrtfRegion(line))
<1> DEFINE region == CrtfRegion(line)
           box == line.name = "textbox"
           combo == CrtfCombo(line)
           text == combo /\ line.name = "text"
           waits == combo /\ ~text
           now == IF ~RegionDefined(region) /\ ~combo THEN importer.pending
                  ELSE IF ~text THEN region
                  ELSE IF RegionDefined(importer.pending) THEN AddTextStyle(importer.pending, region)
                  ELSE importer.pending
           appends == (RegionDefined(region) \/ combo) /\ (text \/ ~combo) /\ RegionDefined(now)
<1>1. importer' = [importer EXCEPT !.pending = now, !.combo = waits]
      /\ imported' = IF appends THEN Append(imported, now) ELSE imported
  BY Zenon DEF ProcessCrtfLine
<1>2. combo <=> box
  <2>1. line.name \in {"centerbox", "rotbox", "textbox"} \/ line.name \notin {"centerbox", "rotbox", "textbox"}
    OBVIOUS
  <2>2. box => line.name \in {"centerbox", "rotbox", "textbox"}
    OBVIOUS
  <2> QED BY <2>1, <2>2, Zenon DEF CrtfCombo
<1>3. RegionDefined(region)
  BY DEF RegionDefined
<1>4. line.name # "text"
  OBVIOUS
<1> HIDE DEF region, combo, box
<1>5. now = region /\ (waits <=> box) /\ (appends <=> ~box)
  BY <1>2, <1>3, <1>4, Zenon
<1>6. imported' = IF box THEN imported ELSE Append(imported, region)
  BY <1>1, <1>5, Zenon
<1> HIDE DEF now, waits, text, appends
<1>7. importer' = [pixel |-> importer.pixel, frame |-> importer.frame, global_dash |-> importer.global_dash,
                   combo |-> waits, pending |-> now]
  BY <1>1 DEF Reads, ImporterIs
<1>8. Reads'
  <2>1. importer'.combo = waits /\ importer'.pixel = importer.pixel /\ importer'.frame = importer.frame
        /\ importer'.pending = now /\ importer'.global_dash = importer.global_dash
    BY <1>7
  <2>2. ImporterIs'
    BY <1>7, <2>1, Zenon DEF ImporterIs
  <2>3. FileFrameSet'
    BY <2>1, Zenon DEF Reads, FileFrameSet
  <2> QED BY <2>1, <2>2, <2>3, Zenon DEF Reads
<1>9. importer'.combo = waits /\ importer'.pending = now
  BY <1>7
<1> QED BY <1>5, <1>6, <1>8, <1>9, Zenon DEF box, region

\* The text of a text box.
LEMMA CrtfTextRead ==
    ASSUME Exports, export.format = "CRTF", export' = export, Reads, importer.combo, NEW line,
           line.name = "text", NEW r, importer.pending = Kept(r), ToExport(r), line.color = r.color,
           r.type = "ANNTEXT", ProcessCrtfLine(line)
    PROVE  Reads' /\ ~importer'.combo /\ imported' = Append(imported, Kept(r))
<1> DEFINE region == CrtfRegion(line)
           combo == CrtfCombo(line)
           text == combo /\ line.name = "text"
           waits == combo /\ ~text
           now == IF ~RegionDefined(region) /\ ~combo THEN importer.pending
                  ELSE IF ~text THEN region
                  ELSE IF RegionDefined(importer.pending) THEN AddTextStyle(importer.pending, region)
                  ELSE importer.pending
           appends == (RegionDefined(region) \/ combo) /\ (text \/ ~combo) /\ RegionDefined(now)
<1>1. importer' = [importer EXCEPT !.pending = now, !.combo = waits]
      /\ imported' = IF appends THEN Append(imported, now) ELSE imported
  <2>1. line.name # "comment"
    OBVIOUS
  <2> QED BY <2>1, Zenon DEF ProcessCrtfLine
<1>2. combo
  <2>1. line.name \notin {"centerbox", "rotbox", "textbox"}
    OBVIOUS
  <2> QED BY <2>1, Zenon DEF CrtfCombo
<1>3. Kept(r).type = "ANNTEXT" /\ Kept(r).color = CrtfColor(r.color)
  BY KeptIs
<1>4. RegionDefined(Kept(r))
  <2>1. "ANNTEXT" # Blank
    BY Zenon DEF Blank
  <2> QED BY <1>3, <2>1 DEF RegionDefined
<1>5. region.color = CrtfColor(r.color)
  BY DEF CrtfRegion
<1>6. AddTextStyle(Kept(r), region) = Kept(r)
  <2> DEFINE k == Kept(r)
             other == [k EXCEPT !.color = region.color]
  <2>1. k = [type |-> k.type, at |-> k.at, in |-> k.in, size |-> k.size, rotation |-> k.rotation,
             name |-> k.name, shape |-> k.shape, color |-> k.color, dash |-> k.dash]
    BY KeptIs
  <2>2. k.color = region.color /\ other = [k EXCEPT !.color = region.color]
    BY <1>3, <1>5
  <2> HIDE DEF k, other, region
  <2>3. other = k
    BY <2>1, <2>2
  <2> QED BY <2>3, Zenon DEF AddTextStyle, k, other
<1> HIDE DEF region, combo
<1>7. now = Kept(r) /\ ~waits
  BY <1>2, <1>4, <1>6, Zenon
<1>8. appends
  BY <1>2, <1>4, <1>7, Zenon
<1> HIDE DEF now, waits, text, appends
<1>9. importer' = [pixel |-> importer.pixel, frame |-> importer.frame, global_dash |-> importer.global_dash,
                   combo |-> waits, pending |-> now]
  BY <1>1 DEF Reads, ImporterIs
<1>10. Reads'
  <2>1. importer'.combo = waits /\ importer'.pixel = importer.pixel /\ importer'.frame = importer.frame
        /\ importer'.pending = now /\ importer'.global_dash = importer.global_dash
    BY <1>9
  <2>2. ImporterIs'
    BY <1>9, <2>1, Zenon DEF ImporterIs
  <2>3. FileFrameSet'
    BY <2>1, Zenon DEF Reads, FileFrameSet
  <2> QED BY <2>1, <2>2, <2>3, Zenon DEF Reads
<1>11. importer'.combo = waits
  BY <1>9
<1> QED BY <1>1, <1>7, <1>8, <1>10, <1>11, Zenon

\* A comment and a region of a kind that is not supported change nothing.
LEMMA CrtfOtherRead ==
    ASSUME Exports, export.format = "CRTF", export' = export, Reads, NEW line,
           line = Other("comment") \/ (line = Other("unsupported") /\ ~importer.combo),
           ProcessCrtfLine(line)
    PROVE  /\ Reads' /\ imported' = imported /\ (importer'.combo <=> importer.combo)
           /\ importer.combo => importer'.pending = importer.pending
<1>1. CASE line = Other("comment")
  <2>1. line.name = "comment"
    BY <1>1, Zenon DEF Other, Line, NoRegion, RegionOf, Blank
  <2>2. importer' = importer /\ imported' = imported
    BY <2>1, Zenon DEF ProcessCrtfLine
  <2> QED BY <2>2, Zenon DEF Reads, ImporterIs, FileFrameSet
<1>2. CASE line = Other("unsupported") /\ ~importer.combo
  <2> DEFINE region == CrtfRegion(line)
             combo == CrtfCombo(line)
             text == combo /\ line.name = "text"
             waits == combo /\ ~text
             now == IF ~RegionDefined(region) /\ ~combo THEN importer.pending
                    ELSE IF ~text THEN region
                    ELSE IF RegionDefined(importer.pending) THEN AddTextStyle(importer.pending, region)
                    ELSE importer.pending
             appends == (RegionDefined(region) \/ combo) /\ (text \/ ~combo) /\ RegionDefined(now)
  <2>1. line.name = "unsupported"
    BY <1>2, Zenon DEF Other, Line, NoRegion, RegionOf
  <2>2. importer' = [importer EXCEPT !.pending = now, !.combo = waits]
        /\ imported' = IF appends THEN Append(imported, now) ELSE imported
    <3>1. line.name # "comment"
      BY <2>1
    <3> QED BY <3>1, Zenon DEF ProcessCrtfLine
  <2>3. ~combo
    <3>1. line.name \notin {"centerbox", "rotbox", "textbox"}
      BY <2>1
    <3> QED BY <1>2, <3>1, Zenon DEF CrtfCombo
  <2>4. ~RegionDefined(region)
    <3>1. CrtfState(line).type = Blank
      BY <2>1 DEF CrtfState, State
    <3> QED BY <3>1 DEF CrtfRegion, RegionDefined
  <2> HIDE DEF region, combo
  <2>5. now = importer.pending /\ ~waits /\ ~appends
    BY <2>3, <2>4, Zenon
  <2> HIDE DEF now, waits, text, appends
  <2>6. importer' = [pixel |-> importer.pixel, frame |-> importer.frame, global_dash |-> importer.global_dash,
                     combo |-> waits, pending |-> now]
    BY <2>2 DEF Reads, ImporterIs
  <2>7. Reads'
    <3>1. importer'.combo = waits /\ importer'.pixel = importer.pixel /\ importer'.frame = importer.frame
          /\ importer'.pending = now /\ importer'.global_dash = importer.global_dash
      BY <2>6
    <3>2. ImporterIs'
      BY <2>6, <3>1, Zenon DEF ImporterIs
    <3>3. FileFrameSet'
      BY <3>1, Zenon DEF Reads, FileFrameSet
    <3> QED BY <3>1, <3>2, <3>3, Zenon DEF Reads
  <2>8. importer'.combo = waits
    BY <2>6
  <2> QED BY <1>2, <2>2, <2>5, <2>7, <2>8, Zenon
<1> QED BY <1>1, <1>2
-----------------------------------------------------------------------------
\* Reading the lines of a region, in either format.

ReadLine(line) == IF export.format = "CRTF" THEN ProcessCrtfLine(line) ELSE ProcessDs9Line(line)

\* A region has one line, a text two.
LEMMA RegionLines ==
    ASSUME Exports, NEW r, ToExport(r)
    PROVE  \E line, text :
              /\ AddExportRegion(r) = IF r.type = "ANNTEXT" THEN <<line, text>> ELSE <<line>>
              /\ line.name = "textbox" <=> r.type = "ANNTEXT"
              /\ line.name \notin {"comment", "global", "frame", "text"} /\ line.label = r.name
              /\ IF export.format = "CRTF" THEN CrtfRegion(line) = Kept(r)
                 ELSE Reads => SetRegion(line) = Kept(r)
              /\ r.type = "ANNTEXT" =>
                    /\ text.name = "text" /\ text.color = r.color
                    /\ export.format = "DS9_REG" => text.label = Blank /\ text.csys = Blank
<1>1. CASE export.format = "CRTF"
  <2>1. PICK unit : AddExportRegion(r) = CrtfLines(r, unit, r.rotation) /\ (unit = "pix" <=> export.pixel)
    BY <1>1, CrtfWritten, Zenon
  <2>2. CASE r.type # "ANNTEXT"
    <3> DEFINE line == CrtfLineOf(r, CrtfName(r), unit)
    <3>1. AddExportRegion(r) = <<line>>
      BY <2>1, <2>2, CrtfLinesAre, Zenon
    <3>2. CrtfRegion(line) = Kept(r)
      BY <1>1, <2>1, <2>2, CrtfRegionRead, Zenon
    <3>3. line.name = CrtfName(r) /\ line.label = r.name
      BY DEF CrtfLineOf
    <3>4. CrtfName(r) \notin {"comment", "global", "frame", "text", "textbox"}
      <4>1. CrtfName(r) \in {"symbol", "centerbox", "rotbox", "ellipse", "circle", "compass", "line",
                             "polyline", "poly", "vector", "ruler"}
        BY <2>2, CrtfNamesTheirTypes, Zenon DEF ToExport
      <4> QED BY <4>1
    <3> HIDE DEF line
    <3>5. line.name \notin {"comment", "global", "frame", "text", "textbox"}
      BY <3>3, <3>4, Zenon
    <3>6. line.name \notin {"comment", "global", "frame", "text"} /\ line.name # "textbox"
      BY <3>5
    <3> QED BY <1>1, <2>2, <3>1, <3>2, <3>3, <3>6, Zenon
  <2>3. CASE r.type = "ANNTEXT"
    <3> DEFINE line == CrtfLineOf(r, "textbox", unit)
    <3>1. PICK text : /\ CrtfLines(r, unit, r.rotation) = <<line, text>>
                      /\ text.name = "text" /\ text.color = r.color
      BY <2>3, CrtfLinesAre, Zenon
    <3>2. CrtfRegion(line) = Kept(r)
      BY <1>1, <2>1, <2>3, CrtfRegionRead, Zenon
    <3>3. line.name = "textbox" /\ line.label = r.name
      BY DEF CrtfLineOf
    <3>4. line.name \notin {"comment", "global", "frame", "text"} /\ export.format # "DS9_REG"
      BY <1>1, <3>3
    <3> HIDE DEF line
    <3> QED BY <1>1, <2>1, <2>3, <3>1, <3>2, <3>3, <3>4, Zenon
  <2> QED BY <2>2, <2>3
<1>2. CASE export.format = "DS9_REG"
  <2>1. PICK at \in Int, unit \in {"none", "deg"}, angle \in Int :
              /\ AddExportRegion(r) = WithCsys(Ds9Line(r, at, unit, angle), "fk5")
              /\ (IF export.pixel THEN at - 1 ELSE at) = KeptAt(r)
              /\ IF r.type \in Ellipses THEN angle # NoAngle /\ FromYAxis(angle) = r.rotation
                 ELSE angle = r.rotation
    BY <1>2, Ds9Written, Zenon
  <2>2. export.format # "CRTF"
    BY <1>2
  <2>3. CASE r.type # "ANNTEXT"
    <3> DEFINE line == Ds9LineOf(r, Ds9Name(r), at, unit, angle)
    <3>1. AddExportRegion(r) = <<line>>
      BY <2>1, <2>3, Ds9SingleLine, Zenon
    <3>2. line.name = Ds9Name(r) /\ line.label = r.name /\ line.size = r.size
          /\ line.angle = IF (r.type \in CrtfBoxes \cup Ellipses) /\ ~Round(r) THEN angle ELSE NoAngle
      BY DEF Ds9LineOf
    <3>3. line.ann = (r.type \in Annotations)
      <4> DEFINE ann == r.type \in Annotations
      <4>1. Ds9LineOf(r, Ds9Name(r), at, unit, angle).ann = ann
        <5> HIDE DEF ann
        <5> QED BY DEF Ds9LineOf, ann
      <4> QED BY <4>1, Zenon
    <3>4. line = [name |-> line.name, ann |-> line.ann, at |-> line.at, unit |-> line.unit,
                  angle |-> line.angle, size |-> line.size, label |-> line.label, shape |-> line.shape,
                  color |-> line.color, dash |-> line.dash, csys |-> line.csys]
      BY Zenon DEF Ds9LineOf
    <3>5. Ds9State(line) =
             [type |-> r.type, rotation |-> IF Round(r) THEN 0 ELSE r.rotation, size |-> r.size]
      <4> HIDE DEF line
      <4> QED BY <2>1, <2>3, <3>2, <3>3, <3>4, Ds9StateRead, Zenon
    <3>6. ASSUME Reads PROVE SetRegion(line) = Kept(r)
      <4> DEFINE name == line.name
      <4>1. line = Ds9LineOf(r, name, at, unit, angle)
        BY <3>2, Zenon
      <4>2. at \in Int /\ (IF export.pixel THEN at - 1 ELSE at) = KeptAt(r)
        BY <2>1
      <4> HIDE DEF line, name
      <4> QED BY <1>2, <4>1, <4>2, <3>6, <3>5, Ds9RegionRead
    <3>7. Ds9Name(r) \notin {"comment", "global", "frame", "textbox", "text"}
      BY <2>3, Ds9NamesTheirTypes, Zenon DEF ToExport
    <3> HIDE DEF line
    <3>8. line.name \notin {"comment", "global", "frame", "text"} /\ line.name # "textbox"
      BY <3>2, <3>7
    <3> QED BY <2>2, <2>3, <3>1, <3>2, <3>6, <3>8, Zenon
  <2>4. CASE r.type = "ANNTEXT"
    <3> DEFINE line == Ds9LineOf(r, "textbox", at, unit, angle)
    <3>1. PICK text : /\ WithCsys(Ds9Line(r, at, unit, angle), "fk5") = <<line, text>>
                      /\ text.name = "text" /\ text.label = Blank /\ text.color = r.color
                      /\ text.csys = Blank /\ text.shape = <<>>
      BY <2>4, Ds9TextLines
    <3>2. line.name = "textbox" /\ line.label = r.name /\ line.size = r.size
          /\ line.angle = IF (r.type \in CrtfBoxes \cup Ellipses) /\ ~Round(r) THEN angle ELSE NoAngle
      BY DEF Ds9LineOf
    <3>3. r.type \in CrtfBoxes /\ r.type \notin Ellipses
      BY <2>4 DEF CrtfBoxes, Ellipses
    <3>4. ~Round(r) /\ r.rotation \in 0..359
      BY <3>3, Zenon DEF Round, ToExport
    <3>5. line.angle = r.rotation /\ r.rotation # NoAngle
      <4>1. line.angle = r.rotation
        BY <2>1, <3>2, <3>3, <3>4, Zenon
      <4> QED BY <3>4, <4>1 DEF NoAngle
    <3>6. Ds9State(line) =
             [type |-> r.type, rotation |-> IF Round(r) THEN 0 ELSE r.rotation, size |-> r.size]
      <4> HIDE DEF line
      <4>1. Ds9State(line) = ImportRectangleRegion(line)
        BY <3>2 DEF Ds9State
      <4> QED BY <2>4, <3>2, <3>4, <3>5, <4>1 DEF ImportRectangleRegion, State, Angle
    <3>7. ASSUME Reads PROVE SetRegion(line) = Kept(r)
      <4> DEFINE name == line.name
      <4>1. line = Ds9LineOf(r, name, at, unit, angle)
        BY <3>2, Zenon
      <4>2. at \in Int /\ (IF export.pixel THEN at - 1 ELSE at) = KeptAt(r)
        BY <2>1
      <4> HIDE DEF line, name
      <4> QED BY <1>2, <4>1, <4>2, <3>7, <3>6, Ds9RegionRead
    <3>8. line.name \notin {"comment", "global", "frame", "text"}
      BY <3>2
    <3> HIDE DEF line
    <3> QED BY <2>1, <2>2, <2>4, <3>1, <3>2, <3>7, <3>8, Zenon
  <2> QED BY <2>3, <2>4
<1> QED BY <1>1, <1>2 DEF Exports

\* Reading the lines of a region gives the region, as the format keeps it; in
\* between, the region of a text waits for its second line.
LEMMA RegionRead ==
    ASSUME Exports, export' = export, Reads, NEW r, ToExport(r),
           export.format = "CRTF" \/ r.name # "global"
    PROVE  /\ ~importer.combo /\ ReadLine(AddExportRegion(r)[1]) =>
                 /\ Reads' /\ (importer'.combo <=> r.type = "ANNTEXT") /\ importer'.pending = Kept(r)
                 /\ imported' = IF r.type = "ANNTEXT" THEN imported ELSE Append(imported, Kept(r))
           /\ r.type = "ANNTEXT" /\ importer.combo /\ importer.pending = Kept(r)
              /\ ReadLine(AddExportRegion(r)[2]) =>
                 /\ Reads' /\ ~importer'.combo /\ imported' = Append(imported, Kept(r))
<1>1. PICK line, text :
              /\ AddExportRegion(r) = IF r.type = "ANNTEXT" THEN <<line, text>> ELSE <<line>>
              /\ line.name = "textbox" <=> r.type = "ANNTEXT"
              /\ line.name \notin {"comment", "global", "frame", "text"} /\ line.label = r.name
              /\ IF export.format = "CRTF" THEN CrtfRegion(line) = Kept(r)
                 ELSE Reads => SetRegion(line) = Kept(r)
              /\ r.type = "ANNTEXT" =>
                    /\ text.name = "text" /\ text.color = r.color
                    /\ export.format = "DS9_REG" => text.label = Blank /\ text.csys = Blank
  BY RegionLines, Zenon
<1>2. Kept(r).type = r.type /\ r.type # Blank
  <2>1. \A t \in RegionTypes : t # Blank
    BY TypesAre, Zenon DEF Blank
  <2>2. r.type # Blank
    BY <2>1, Zenon DEF ToExport
  <2> QED BY <2>2, KeptIs
<1>3. line.name \notin {"comment", "text"} /\ line.name \notin {"comment", "global", "frame"}
  BY <1>1
<1>4. AddExportRegion(r)[1] = line
  <2>1. CASE r.type = "ANNTEXT"
    <3>1. AddExportRegion(r) = <<line, text>>
      BY <1>1, <2>1, Zenon
    <3> QED BY <3>1
  <2>2. CASE r.type # "ANNTEXT"
    <3>1. AddExportRegion(r) = <<line>>
      BY <1>1, <2>2, Zenon
    <3> QED BY <3>1
  <2> QED BY <2>1, <2>2
<1>5. ASSUME ~importer.combo, ReadLine(AddExportRegion(r)[1])
      PROVE  /\ Reads' /\ (importer'.combo <=> r.type = "ANNTEXT") /\ importer'.pending = Kept(r)
             /\ imported' = IF r.type = "ANNTEXT" THEN imported ELSE Append(imported, Kept(r))
  <2>1. CASE export.format = "CRTF"
    <3>1. ProcessCrtfLine(line) /\ CrtfRegion(line) = Kept(r) /\ CrtfRegion(line).type # Blank
      BY <1>1, <1>2, <1>4, <1>5, <2>1, Zenon DEF ReadLine
    <3>2. /\ Reads' /\ (importer'.combo <=> line.name = "textbox") /\ importer'.pending = CrtfRegion(line)
          /\ imported' = IF line.name = "textbox" THEN imported ELSE Append(imported, CrtfRegion(line))
      BY <1>3, <1>5, <2>1, <3>1, CrtfLineRead
    <3> QED BY <1>1, <3>1, <3>2, Zenon
  <2>2. CASE export.format = "DS9_REG"
    <3>0. export.format # "CRTF"
      BY <2>2
    <3>1. ProcessDs9Line(line) /\ SetRegion(line) = Kept(r) /\ SetRegion(line).type # Blank
      BY <1>1, <1>2, <1>4, <1>5, <3>0, Zenon DEF ReadLine
    <3>2. line.label # "global"
      BY <1>1, <3>0, Zenon
    <3>3. /\ Reads' /\ (importer'.combo <=> line.name = "textbox") /\ importer'.pending = SetRegion(line)
          /\ imported' = IF line.name = "textbox" THEN imported ELSE Append(imported, SetRegion(line))
      BY <1>3, <1>5, <2>2, <3>1, <3>2, Ds9LineRead
    <3> QED BY <1>1, <3>1, <3>3, Zenon
  <2> QED BY <2>1, <2>2 DEF Exports
<1>6. ASSUME r.type = "ANNTEXT", importer.combo, importer.pending = Kept(r),
             ReadLine(AddExportRegion(r)[2])
      PROVE  Reads' /\ ~importer'.combo /\ imported' = Append(imported, Kept(r))
  <2>1. AddExportRegion(r)[2] = text
    <3>1. AddExportRegion(r) = <<line, text>>
      BY <1>1, <1>6, Zenon
    <3> QED BY <3>1
  <2>2. CASE export.format = "CRTF"
    <3>1. ProcessCrtfLine(text) /\ text.name = "text" /\ text.color = r.color
      BY <1>1, <1>6, <2>1, <2>2, Zenon DEF ReadLine
    <3> QED BY <1>6, <2>2, <3>1, CrtfTextRead
  <2>3. CASE export.format = "DS9_REG"
    <3>0. export.format # "CRTF"
      BY <2>3
    <3>1. ProcessDs9Line(text) /\ text.name = "text" /\ text.color = r.color
          /\ text.label = Blank /\ text.csys = Blank
      BY <1>1, <1>6, <2>1, <2>3, <3>0, Zenon DEF ReadLine
    <3> QED BY <1>6, <2>3, <3>1, Ds9TextRead
  <2> QED BY <2>2, <2>3 DEF Exports
<1> QED BY <1>5, <1>6

\* A line that was added changes nothing.
LEMMA AddedLineRead ==
    ASSUME Exports, export' = export, Reads, NEW line,
           line = Other("comment") \/ (line = Other("unsupported") /\ ~importer.combo), ReadLine(line)
    PROVE  /\ Reads' /\ imported' = imported /\ (importer'.combo <=> importer.combo)
           /\ importer.combo => importer'.pending = importer.pending
<1>1. CASE export.format = "CRTF"
  <2>1. ProcessCrtfLine(line)
    BY <1>1, Zenon DEF ReadLine
  <2> QED BY <1>1, <2>1, CrtfOtherRead
<1>2. CASE export.format = "DS9_REG"
  <2>1. export.format # "CRTF"
    BY <1>2
  <2>2. ProcessDs9Line(line)
    BY <2>1, Zenon DEF ReadLine
  <2> QED BY <1>2, <2>2, Ds9OtherRead
<1> QED BY <1>1, <1>2 DEF Exports

-----------------------------------------------------------------------------
\* The file and how far it was read.

Parts == [i \in DOMAIN export.regions |->
             IF Convertible(export.regions[i]) THEN AddExportRegion(export.regions[i]) ELSE <<>>]
Keeps == [i \in DOMAIN export.regions |->
             IF Convertible(export.regions[i]) THEN <<Kept(export.regions[i])>> ELSE <<>>]
Number == Len(export.regions)
RegionsAre ==
    /\ Number \in Nat /\ DOMAIN export.regions = 1..Number
    /\ \A i \in 1..Number : ToExport(export.regions[i])

\* What the first regions gave: their lines, and what is kept of them.
LinesUpTo(m) == UpTo(Parts)[m]
KeptUpTo(m) == UpTo(Keeps)[m]
Whole == Header \o FlattenSeq(Parts)

\* A region that is written has one line and is kept, a text has two.
LEMMA PartsAre ==
    ASSUME Exports, RegionsAre
    PROVE  /\ Len(Parts) = Number /\ Len(Keeps) = Number
           /\ \A i \in 1..Number :
                 IF Convertible(export.regions[i])
                 THEN /\ Parts[i] = AddExportRegion(export.regions[i])
                      /\ Len(Parts[i]) = IF export.regions[i].type = "ANNTEXT" THEN 2 ELSE 1
                      /\ Keeps[i] = <<Kept(export.regions[i])>>
                 ELSE Parts[i] = <<>> /\ Keeps[i] = <<>>
           /\ \E X : Parts \in Seq(Seq(X))
           /\ \E X : Keeps \in Seq(Seq(X))
<1> DEFINE R == 1..Number
           X == UNION {{Parts[i][j] : j \in DOMAIN Parts[i]} : i \in R}
           Y == {Kept(export.regions[i]) : i \in R}
           lines(i) == AddExportRegion(export.regions[i])
           kept(i) == <<Kept(export.regions[i])>>
           conv(i) == Convertible(export.regions[i])
<1>1. Number \in Nat /\ DOMAIN export.regions = R
  BY Zenon DEF RegionsAre
<1>2. Parts = [i \in R |-> IF conv(i) THEN lines(i) ELSE <<>>]
  BY <1>1, Zenon DEF Parts
<1>3. Keeps = [i \in R |-> IF conv(i) THEN kept(i) ELSE <<>>]
  BY <1>1, Zenon DEF Keeps
<1>4. \A i \in R : /\ Parts[i] = IF conv(i) THEN lines(i) ELSE <<>>
                   /\ Keeps[i] = IF conv(i) THEN kept(i) ELSE <<>>
  BY <1>2, <1>3, Zenon
<1>5. ASSUME NEW i \in R, conv(i)
      PROVE  \E line, text : lines(i) = IF export.regions[i].type = "ANNTEXT" THEN <<line, text>> ELSE <<line>>
  <2> DEFINE r == export.regions[i]
  <2>1. ToExport(r)
    BY Zenon DEF RegionsAre
  <2> HIDE DEF r
  <2>2. \E line, text : AddExportRegion(r) = IF r.type = "ANNTEXT" THEN <<line, text>> ELSE <<line>>
    BY <2>1, RegionLines
  <2> QED BY <2>2, Zenon DEF r
<1>6. ASSUME NEW i \in R
      PROVE  /\ conv(i) => Len(Parts[i]) = IF export.regions[i].type = "ANNTEXT" THEN 2 ELSE 1
             /\ Parts[i] \in Seq(X)
  <2>1. CASE conv(i)
    <3>1. PICK line, text : lines(i) = IF export.regions[i].type = "ANNTEXT" THEN <<line, text>> ELSE <<line>>
      BY <1>5, <2>1, Zenon
    <3>2. Parts[i] = IF export.regions[i].type = "ANNTEXT" THEN <<line, text>> ELSE <<line>>
      BY <1>4, <2>1, <3>1, Zenon
    <3>3. \A j \in DOMAIN Parts[i] : Parts[i][j] \in X
      <4> DEFINE of(k) == {Parts[k][j] : j \in DOMAIN Parts[k]}
      <4>1. X = UNION {of(k) : k \in R}
        OBVIOUS
      <4>2. \A j \in DOMAIN Parts[i] : Parts[i][j] \in of(i)
        OBVIOUS
      <4> HIDE DEF of, X
      <4> QED BY <4>1, <4>2
    <3> HIDE DEF X, conv
    <3>4. CASE export.regions[i].type = "ANNTEXT"
      <4>1. Parts[i] = <<line, text>>
        BY <3>2, <3>4, Zenon
      <4>2. line \in X /\ text \in X
        BY <3>3, <4>1
      <4> QED BY <3>4, <4>1, <4>2
    <3>5. CASE export.regions[i].type # "ANNTEXT"
      <4>1. Parts[i] = <<line>>
        BY <3>2, <3>5, Zenon
      <4>2. line \in X
        BY <3>3, <4>1
      <4> QED BY <3>5, <4>1, <4>2
    <3> QED BY <3>4, <3>5
  <2>2. CASE ~conv(i)
    <3>1. Parts[i] = <<>>
      BY <1>4, <2>2, Zenon
    <3> HIDE DEF X, conv
    <3> QED BY <2>2, <3>1
  <2> QED BY <2>1, <2>2
<1>7. \A i \in R : Keeps[i] \in Seq(Y)
  <2> TAKE i \in R
  <2>1. Kept(export.regions[i]) \in Y
    BY Zenon
  <2> DEFINE one == Kept(export.regions[i])
  <2>2. Keeps[i] = <<one>> \/ Keeps[i] = <<>>
    BY <1>4, Zenon
  <2> HIDE DEF Y, one
  <2>3. <<one>> \in Seq(Y) /\ <<>> \in Seq(Y)
    BY <2>1 DEF one
  <2> QED BY <2>2, <2>3, Zenon
<1> HIDE DEF X, Y, lines, conv
<1>8. Parts \in Seq(Seq(X)) /\ Len(Parts) = Number
  <2>1. DOMAIN Parts = R
    BY <1>2
  <2>2. Parts \in [R -> Seq(X)]
    BY <1>2, <1>6, <2>1
  <2> HIDE DEF X
  <2> QED BY <1>1, <2>2
<1>9. Keeps \in Seq(Seq(Y)) /\ Len(Keeps) = Number
  <2>1. DOMAIN Keeps = R
    BY <1>3
  <2>2. Keeps \in [R -> Seq(Y)]
    BY <1>3, <1>7, <2>1
  <2> QED BY <1>1, <2>2
<1>10. \A i \in R : IF conv(i) THEN Parts[i] = lines(i) /\ Keeps[i] = kept(i)
                    ELSE Parts[i] = <<>> /\ Keeps[i] = <<>>
  BY <1>4, Zenon
<1> QED BY <1>6, <1>8, <1>9, <1>10, Zenon DEF lines, conv

\* Where the lines end at the same place, the same is kept.
LEMMA SameKept ==
    ASSUME Exports, RegionsAre, NEW a \in 0..Number, NEW b \in a..Number,
           Len(LinesUpTo(a)) = Len(LinesUpTo(b))
    PROVE  KeptUpTo(a) = KeptUpTo(b)
<1> DEFINE n == Number
           f == UpTo(Parts)
           k == UpTo(Keeps)
           G == {i \in 0..n : a <= i /\ i <= b => k[i] = k[a]}
<1>1. PICK X : Parts \in Seq(Seq(X))
  BY PartsAre, Zenon
<1>2. PICK Y : Keeps \in Seq(Seq(Y))
  BY PartsAre, Zenon
<1>3. n \in Nat /\ Len(Parts) = n /\ Len(Keeps) = n
  BY PartsAre, Zenon DEF RegionsAre
<1>4. /\ f \in [0..n -> Seq(X)] /\ k \in [0..n -> Seq(Y)]
      /\ \A i \in 1..n : f[i] = f[i - 1] \o Parts[i]
      /\ \A i \in 1..n : k[i] = k[i - 1] \o Keeps[i]
  BY <1>1, <1>2, <1>3, UpToIs, Zenon
<1>5. \A i \in 1..n : Keeps[i] = <<>> \/ (Parts[i] \in Seq(X) /\ Len(Parts[i]) > 0)
  <2> TAKE i \in 1..n
  <2>1. Parts[i] \in Seq(X)
    BY <1>1, <1>3
  <2>2. \/ Keeps[i] = <<>>
        \/ Len(Parts[i]) = 2 \/ Len(Parts[i]) = 1
    BY PartsAre, Zenon
  <2> DEFINE long == Len(Parts[i])
  <2>3. long = 2 \/ long = 1 => long > 0
    <3> HIDE DEF long
    <3> QED OBVIOUS
  <2> QED BY <2>1, <2>2, <2>3, Zenon
<1>6. \A i \in 0..n, j \in 0..n : i <= j => Len(f[i]) <= Len(f[j])
  <2> TAKE i \in 0..n, j \in 0..n
  <2> HAVE i <= j
  <2>1. j \in 0..Len(Parts) /\ i \in 0..j
    BY <1>3
  <2>2. Len(f[i]) \in 0..Len(f[j])
    BY <1>1, <2>1, UpToGrows, Zenon
  <2>3. f[j] \in Seq(X)
    BY <1>4
  <2> QED BY <2>2, <2>3
<1> DEFINE len(i) == Len(f[i])
<1>12. \A i \in 0..n : len(i) \in Nat
  BY <1>4
<1>13. \A i \in 0..n, j \in 0..n : i <= j => len(i) <= len(j)
  BY <1>6, Zenon
<1>14. len(a) = len(b)
  BY Zenon DEF LinesUpTo
<1> HIDE DEF n, f, k, len
<1>7. 0 \in G
  <2>1. a <= 0 => a = 0
    BY <1>3 DEF n
  <2> QED BY <1>3, <2>1
<1>8. ASSUME NEW i \in 0..n - 1, i \in G PROVE i + 1 \in G
  <2>1. i + 1 \in 1..n /\ (i + 1) - 1 = i /\ i + 1 \in 0..n
    BY <1>3
  <2>2. a \in 0..n /\ b \in 0..n
    BY <1>3 DEF n
  <2>3. ASSUME a <= i + 1, i + 1 <= b, a # i + 1 PROVE k[i + 1] = k[a]
    <3>1. a <= i /\ i <= b
      BY <1>3, <2>2, <2>3
    <3>2. k[i] = k[a]
      BY <1>8, <3>1
    <3>3. len(i + 1) <= len(i)
      <4>1. len(a) <= len(i) /\ len(i + 1) <= len(b)
        <5>1. i \in 0..n
          BY <1>3
        <5> QED BY <1>13, <2>1, <2>2, <2>3, <3>1, <5>1
      <4>2. len(a) \in Nat /\ len(b) \in Nat /\ len(i) \in Nat /\ len(i + 1) \in Nat
        <5>1. i \in 0..n
          BY <1>3
        <5> QED BY <1>12, <2>1, <2>2, <5>1, Zenon
      <4> QED BY <1>14, <4>1, <4>2
    <3>4. f[i + 1] = f[i] \o Parts[i + 1] /\ k[i + 1] = k[i] \o Keeps[i + 1]
      BY <1>4, <2>1
    <3>5. Keeps[i + 1] = <<>> \/ (Parts[i + 1] \in Seq(X) /\ Len(Parts[i + 1]) > 0)
      BY <1>5, <2>1
    <3>6. ASSUME Parts[i + 1] \in Seq(X), Len(Parts[i + 1]) > 0 PROVE FALSE
      <4> DEFINE u == f[i]  v == Parts[i + 1]  w == f[i + 1]
      <4>1. u \in Seq(X) /\ v \in Seq(X) /\ w = u \o v /\ Len(v) > 0
        <5>1. i \in 0..n
          BY <1>3
        <5>2. u \in Seq(X)
          BY <1>4, <5>1
        <5> QED BY <3>4, <3>6, <5>2, Zenon
      <4>2. Len(w) <= Len(u)
        BY <3>3, Zenon DEF len
      <4> HIDE DEF u, v, w
      <4> QED BY <4>1, <4>2
    <3>7. k[i + 1] = k[i] \o <<>>
      BY <3>4, <3>5, <3>6
    <3>8. k[i] \in Seq(Y)
      <4>1. i \in 0..n
        BY <1>3
      <4> QED BY <1>4, <4>1
    <3>9. k[i] \o <<>> = k[i]
      BY <3>8
    <3> QED BY <3>2, <3>7, <3>9, Zenon
  <2> QED BY <2>1, <2>3
<1>9. 0..n \subseteq G
  <2> HIDE DEF G
  <2> QED BY <1>3, <1>7, <1>8, InductionTo
<1>10. b \in 0..n /\ a <= b /\ b <= b
  BY <1>3 DEF n
<1>11. k[b] = k[a]
  BY <1>9, <1>10
<1> QED BY <1>11, Zenon DEF KeptUpTo, k

\* The importer before the first line, and what it has after the header: between
\* two regions, or the region of a text whose second line is next.
Initial == [pixel |-> TRUE, frame |-> "image", global_dash |-> 0, combo |-> FALSE, pending |-> NoRegion]
InHeader(p) == p \in 0..Len(Header) - 1 /\ imported = <<>> /\ importer = Initial
Between(p) ==
    \E m \in 0..Number : /\ p = Len(Header) + Len(LinesUpTo(m)) /\ imported = KeptUpTo(m)
                         /\ Reads /\ ~importer.combo
Within(p) ==
    \E m \in 1..Number :
        /\ Convertible(export.regions[m]) /\ export.regions[m].type = "ANNTEXT"
        /\ p = Len(Header) + Len(LinesUpTo(m - 1)) + 1 /\ imported = KeptUpTo(m - 1)
        /\ Reads /\ importer.combo /\ importer.pending = Kept(export.regions[m])
Progress(p) == InHeader(p) \/ Between(p) \/ Within(p)
Named == export.format = "CRTF" \/ \A i \in 1..Number : export.regions[i].name # "global"

\* All this is of the request, which never changes.
LEMMA ExportKept ==
    ASSUME export' = export
    PROVE  /\ Number' = Number /\ Header' = Header /\ Parts' = Parts /\ Keeps' = Keeps /\ Whole' = Whole
           /\ Exports' = Exports /\ RegionsAre' = RegionsAre /\ Named' = Named
           /\ \A m : LinesUpTo(m)' = LinesUpTo(m) /\ KeptUpTo(m)' = KeptUpTo(m)
           /\ \A r : Kept(r)' = Kept(r) /\ (Convertible(r)' <=> Convertible(r))
<1>1. Number' = Number /\ Exports' = Exports
  BY Zenon DEF Number, Exports
<1>2. FromState' = FromState
  BY Zenon DEF FromState
<1>3. \A r : Convertible(r)' = Convertible(r)
  BY <1>2, Zenon DEF Convertible
<1>4. \A r : CrtfRecordLines(r)' = CrtfRecordLines(r)
  BY Zenon DEF CrtfRecordLines
<1>5. \A r : AddExportRegion(r)' = AddExportRegion(r)
  BY <1>2, <1>4, Zenon DEF AddExportRegion
<1>6. \A r : Kept(r)' = Kept(r)
  BY ZenonT(40) DEF Kept
<1>7. Header' = Header
  BY Zenon DEF Header
<1>8. Parts' = Parts
  BY <1>3, <1>5, Zenon DEF Parts
<1>9. Keeps' = Keeps
  BY <1>3, <1>6, Zenon DEF Keeps
<1>10. Whole' = Whole
  BY <1>7, <1>8, Zenon DEF Whole
<1>11. RegionsAre' = RegionsAre /\ Named' = Named
  BY <1>1, Zenon DEF RegionsAre, Named
<1>12. \A m : LinesUpTo(m)' = LinesUpTo(m) /\ KeptUpTo(m)' = KeptUpTo(m)
  BY <1>8, <1>9, Zenon DEF LinesUpTo, KeptUpTo
<1> QED BY <1>1, <1>3, <1>6, <1>7, <1>8, <1>9, <1>10, <1>11, <1>12, Zenon

\* The lengths of the file, and the region each of its lines is of.
LEMMA LengthsAre ==
    ASSUME Exports, RegionsAre
    PROVE  /\ Len(Header) \in Nat \ {0}
           /\ \A m \in 0..Number : Len(LinesUpTo(m)) \in Nat
           /\ \A i \in 0..Number, j \in 0..Number : i <= j => Len(LinesUpTo(i)) <= Len(LinesUpTo(j))
           /\ Len(LinesUpTo(0)) = 0 /\ KeptUpTo(0) = <<>>
           /\ \A m \in 1..Number : Len(LinesUpTo(m)) = Len(LinesUpTo(m - 1)) + Len(Parts[m])
           /\ \A m \in 1..Number : Convertible(export.regions[m]) =>
                 KeptUpTo(m) = Append(KeptUpTo(m - 1), Kept(export.regions[m]))
           /\ \E X : \A m \in 0..Number : KeptUpTo(m) \in Seq(X)
<1>1. PICK X : Parts \in Seq(Seq(X))
  BY PartsAre, Zenon
<1>2. PICK Y : Keeps \in Seq(Seq(Y))
  BY PartsAre, Zenon
<1>3. Number \in Nat /\ Len(Parts) = Number /\ Len(Keeps) = Number
  BY PartsAre, Zenon DEF RegionsAre
<1> DEFINE n == Number
           f == UpTo(Parts)
           k == UpTo(Keeps)
<1>4. /\ f \in [0..n -> Seq(X)] /\ k \in [0..n -> Seq(Y)] /\ f[0] = <<>> /\ k[0] = <<>>
      /\ \A i \in 1..n : f[i] = f[i - 1] \o Parts[i]
      /\ \A i \in 1..n : k[i] = k[i - 1] \o Keeps[i]
  BY <1>1, <1>2, <1>3, UpToIs, Zenon
<1>5. \A i \in 1..n : Parts[i] \in Seq(X) /\ Keeps[i] \in Seq(Y)
  BY <1>1, <1>2, <1>3
<1>6. \A i \in 0..n, j \in 0..n : i <= j => Len(f[i]) <= Len(f[j])
  <2> TAKE i \in 0..n, j \in 0..n
  <2> HAVE i <= j
  <2>1. j \in 0..Len(Parts) /\ i \in 0..j
    BY <1>3
  <2>2. Len(f[i]) \in 0..Len(f[j])
    BY <1>1, <2>1, UpToGrows, Zenon
  <2>3. f[j] \in Seq(X)
    BY <1>4
  <2> QED BY <2>2, <2>3
<1>7. Len(Header) \in Nat \ {0}
  <2>1. CASE export.format = "CRTF"
    <3> DEFINE a == Other("comment")
    <3>1. Header = <<a>>
      BY <2>1, Zenon DEF Header
    <3> HIDE DEF a
    <3> QED BY <3>1
  <2>2. CASE export.format # "CRTF"
    <3> DEFINE a == Other("comment")  b == Other("global")
               c == [Other("frame") EXCEPT !.csys = IF export.pixel THEN "image" ELSE "fk5"]
    <3>1. Header = <<a, b, c>>
      BY <2>2, Zenon DEF Header
    <3> HIDE DEF a, b, c
    <3> QED BY <3>1
  <2> QED BY <2>1, <2>2
<1> HIDE DEF n, f, k
<1>8. \A i \in 0..n : Len(f[i]) \in Nat /\ k[i] \in Seq(Y)
  BY <1>4
<1>9. \A i \in 1..n : Len(f[i]) = Len(f[i - 1]) + Len(Parts[i])
  <2> TAKE i \in 1..n
  <2>1. i - 1 \in 0..n
    BY <1>3 DEF n
  <2> DEFINE u == f[i - 1]  v == Parts[i]  w == f[i]
  <2>2. u \in Seq(X) /\ v \in Seq(X) /\ w = u \o v
    BY <1>4, <1>5, <2>1
  <2> HIDE DEF u, v, w
  <2>3. Len(w) = Len(u) + Len(v)
    BY <2>2
  <2> QED BY <2>3, Zenon DEF u, v, w
<1>10. \A i \in 1..n : Convertible(export.regions[i]) => k[i] = Append(k[i - 1], Kept(export.regions[i]))
  <2> TAKE i \in 1..n
  <2> HAVE Convertible(export.regions[i])
  <2>1. i - 1 \in 0..n
    BY <1>3 DEF n
  <2> DEFINE u == k[i - 1]  one == Kept(export.regions[i])
  <2>2. Keeps[i] = <<one>>
    BY PartsAre, Zenon DEF n
  <2>3. u \in Seq(Y) /\ k[i] = u \o <<one>>
    BY <1>4, <2>1, <2>2
  <2> HIDE DEF u, one
  <2>4. u \o <<one>> = Append(u, one)
    BY <2>3
  <2> QED BY <2>3, <2>4, Zenon DEF u, one
<1>11. Len(f[0]) = 0
  BY <1>4
<1> QED BY <1>4, <1>6, <1>7, <1>8, <1>9, <1>10, <1>11, Zenon DEF LinesUpTo, KeptUpTo, n, f, k

LEMMA LineIsOf ==
    ASSUME Exports, RegionsAre
    PROVE  /\ Len(Whole) = Len(Header) + Len(LinesUpTo(Number))
           /\ \E X : Whole \in Seq(X) /\ Header \in Seq(X)
           /\ \A p \in 0..Len(Header) - 1 : Whole[p + 1] = Header[p + 1]
           /\ \A p \in Nat : Len(Header) <= p /\ p < Len(Whole) =>
                 \E m \in 1..Number, j \in Nat :
                    /\ Convertible(export.regions[m]) /\ j \in 1..Len(Parts[m])
                    /\ p + 1 = Len(Header) + Len(LinesUpTo(m - 1)) + j /\ Whole[p + 1] = Parts[m][j]
<1>1. PICK X : Parts \in Seq(Seq(X))
  BY PartsAre, Zenon
<1>2. Number \in Nat /\ Len(Parts) = Number
  BY PartsAre, Zenon DEF RegionsAre
<1> DEFINE all == FlattenSeq(Parts)
<1>3. all = LinesUpTo(Number)
  BY <1>1, <1>2, FlattenedIs, Zenon DEF LinesUpTo
<1>4. all \in Seq(X)
  <2>1. UpTo(Parts) \in [0..Number -> Seq(X)]
    BY <1>1, <1>2, UpToIs, Zenon
  <2>2. Number \in 0..Number
    BY <1>2
  <2>3. LinesUpTo(Number) \in Seq(X)
    BY <2>1, <2>2 DEF LinesUpTo
  <2> QED BY <1>3, <2>3, Zenon
<1>5. PICK Z : Header \in Seq(Z)
  <2>1. CASE export.format = "CRTF"
    <3> DEFINE a == Other("comment")
    <3>1. Header = <<a>>
      BY <2>1, Zenon DEF Header
    <3> HIDE DEF a
    <3>2. <<a>> \in Seq({a})
      OBVIOUS
    <3> QED BY <3>1, <3>2, Zenon
  <2>2. CASE export.format # "CRTF"
    <3> DEFINE a == Other("comment")  b == Other("global")
               c == [Other("frame") EXCEPT !.csys = IF export.pixel THEN "image" ELSE "fk5"]
    <3>1. Header = <<a, b, c>>
      BY <2>2, Zenon DEF Header
    <3> HIDE DEF a, b, c
    <3>2. <<a, b, c>> \in Seq({a, b, c})
      OBVIOUS
    <3> QED BY <3>1, <3>2, Zenon
  <2> QED BY <2>1, <2>2
<1> DEFINE h == Header
           W == X \cup Z
<1>6. all \in Seq(W) /\ h \in Seq(W) /\ Whole = h \o all
  <2>1. all \in Seq(W) /\ h \in Seq(W)
    BY <1>4, <1>5
  <2> QED BY <2>1, Zenon DEF Whole
<1> HIDE DEF h, all, W
<1>7. Whole \in Seq(W) /\ Len(Whole) = Len(h) + Len(all) /\ Len(h) \in Nat /\ Len(all) \in Nat
  BY <1>6
<1>8. \A i \in 1..Len(h) : Whole[i] = h[i]
  BY <1>6
<1>9. \A i \in 1..Len(all) : Whole[Len(h) + i] = all[i]
  BY <1>6
<1>10. \A p \in 0..Len(h) - 1 : Whole[p + 1] = h[p + 1]
  BY <1>7, <1>8
<1>11. ASSUME NEW p \in Nat, Len(h) <= p, p < Len(Whole)
       PROVE  \E m \in 1..Number, j \in Nat :
                    /\ Convertible(export.regions[m]) /\ j \in 1..Len(Parts[m])
                    /\ p + 1 = Len(h) + Len(LinesUpTo(m - 1)) + j /\ Whole[p + 1] = Parts[m][j]
  <2> DEFINE k == p - Len(h)
  <2>1. k \in Nat /\ k < Len(all) /\ k + 1 \in 1..Len(all) /\ Len(h) + (k + 1) = p + 1
    BY <1>7, <1>11
  <2> HIDE DEF k
  <2>2. Len(all) = Len(UpTo(Parts)[Len(Parts)]) /\ all = UpTo(Parts)[Len(Parts)]
    BY <1>2, <1>3, Zenon DEF LinesUpTo
  <2>3. k < Len(UpTo(Parts)[Len(Parts)])
    BY <2>1, <2>2, Zenon
  <2>4. PICK m \in 1..Len(Parts) :
              /\ Len(UpTo(Parts)[m - 1]) \in 0..k
              /\ k + 1 - Len(UpTo(Parts)[m - 1]) \in 1..Len(Parts[m])
              /\ UpTo(Parts)[Len(Parts)][k + 1] = Parts[m][k + 1 - Len(UpTo(Parts)[m - 1])]
    BY <1>1, <2>1, <2>3, PlaceIsIn, Zenon
  <2> DEFINE before == Len(LinesUpTo(m - 1))
             j == k + 1 - before
  <2>5. before \in 0..k /\ j \in 1..Len(Parts[m]) /\ all[k + 1] = Parts[m][j]
    BY <2>2, <2>4, Zenon DEF LinesUpTo
  <2>6. m \in 1..Number
    BY <1>2, Zenon
  <2>7. Convertible(export.regions[m])
    <3>1. ASSUME ~Convertible(export.regions[m]) PROVE FALSE
      <4>1. Parts[m] = <<>>
        BY <2>6, <3>1, PartsAre, Zenon
      <4>2. Len(Parts[m]) = 0
        BY <4>1
      <4> HIDE DEF j
      <4>3. 1..0 = {}
        OBVIOUS
      <4> QED BY <2>5, <4>2, <4>3, Zenon
    <3> QED BY <3>1
  <2>8. Whole[p + 1] = Parts[m][j]
    <3>1. Whole[Len(h) + (k + 1)] = all[k + 1]
      BY <1>9, <2>1, Zenon
    <3> QED BY <2>1, <2>5, <3>1, Zenon
  <2> HIDE DEF before
  <2>9. p + 1 = Len(h) + before + j /\ j \in Nat
    <3>1. before \in 0..k
      BY <2>5, Zenon
    <3>2. k \in Nat /\ Len(h) \in Nat /\ Len(h) + (k + 1) = p + 1
      BY <1>7, <2>1, Zenon
    <3>3. \A b \in 0..k, n, q \in Nat : n + (k + 1) = q + 1 => q + 1 = n + b + (k + 1 - b) /\ k + 1 - b \in Nat
      BY <3>2
    <3> QED BY <1>11, <3>1, <3>2, <3>3, Zenon
  <2> HIDE DEF j
  <2>10. /\ Convertible(export.regions[m]) /\ j \in 1..Len(Parts[m])
         /\ p + 1 = Len(h) + Len(LinesUpTo(m - 1)) + j /\ Whole[p + 1] = Parts[m][j]
    BY <2>5, <2>7, <2>8, <2>9, Zenon DEF before
  <2> QED BY <2>6, <2>9, <2>10, Zenon
<1>12. \E V : Whole \in Seq(V) /\ h \in Seq(V)
  BY <1>6, <1>7, Zenon
<1>13. Len(Whole) = Len(h) + Len(LinesUpTo(Number))
  BY <1>3, <1>7, Zenon
<1> QED BY <1>10, <1>11, <1>12, <1>13 DEF h
-----------------------------------------------------------------------------
\* A step from a line to the next.

\* The header sets the frame, and nothing else.
LEMMA HeaderRead ==
    ASSUME Exports, RegionsAre, export' = export, NEW p, InHeader(p), ReadLine(Header[p + 1])
    PROVE  InHeader(p + 1)' \/ Between(p + 1)'
<1>1. p \in 0..Len(Header) - 1 /\ imported = <<>> /\ importer = Initial
  BY Zenon DEF InHeader
<1>2. Header' = Header /\ LinesUpTo(0)' = LinesUpTo(0) /\ KeptUpTo(0)' = KeptUpTo(0) /\ Number' = Number
  BY ExportKept, Zenon
<1>3. Len(LinesUpTo(0)) = 0 /\ KeptUpTo(0) = <<>> /\ Number \in Nat /\ Len(Header) \in Nat
  BY LengthsAre, Zenon DEF RegionsAre
<1>4. ASSUME p + 1 = Len(Header), imported' = <<>>, Reads', ~importer'.combo PROVE Between(p + 1)'
  <2>1. 0 \in 0..Number /\ p + 1 = Len(Header) + Len(LinesUpTo(0))
    BY <1>3, <1>4
  <2> QED BY <1>2, <1>3, <1>4, <2>1, Zenon DEF Between
<1>5. ASSUME p + 1 # Len(Header), imported' = <<>>, importer' = Initial PROVE InHeader(p + 1)'
  <2>1. p + 1 \in 0..Len(Header) - 1
    BY <1>1, <1>3, <1>5
  <2> QED BY <1>2, <1>5, <2>1, Zenon DEF InHeader
<1>6. \A name : Other(name).name = name /\ Other(name).label = Blank /\ Other(name).dash = 0
                /\ Other(name).csys = Blank
  BY Zenon DEF Other, Line, NoRegion, RegionOf
<1>7. Blank # "global"
  BY Zenon DEF Blank
<1>8. ImporterIs /\ importer.combo = FALSE /\ importer.global_dash = 0 /\ importer.pixel = TRUE
  <2>1. /\ importer.pixel = TRUE /\ importer.frame = "image" /\ importer.global_dash = 0
        /\ importer.combo = FALSE /\ importer.pending = NoRegion
    BY <1>1, Zenon DEF Initial
  <2> QED BY <1>1, <2>1, Zenon DEF Initial, ImporterIs
<1>9. CASE export.format = "CRTF"
  <2>1. Header = <<Other("comment")>>
    BY <1>9, Zenon DEF Header
  <2>2. Len(Header) = 1 /\ Header[1] = Other("comment")
    BY <2>1
  <2>3. p = 0 /\ p + 1 = 1
    BY <1>1, <2>2
  <2>4. ProcessCrtfLine(Other("comment"))
    BY <1>9, <2>2, <2>3, Zenon DEF ReadLine
  <2>5. importer' = importer /\ imported' = imported
    BY <1>6, <2>4, Zenon DEF ProcessCrtfLine
  <2>6. export.format # "DS9_REG"
    BY <1>9
  <2>7. Reads' /\ ~importer'.combo
    BY <1>8, <2>5, <2>6, Zenon DEF Reads, ImporterIs, FileFrameSet
  <2> QED BY <1>1, <1>4, <2>2, <2>3, <2>5, <2>7, Zenon
<1>10. CASE export.format = "DS9_REG"
  <2>0. export.format # "CRTF"
    BY <1>10
  <2> DEFINE c == [Other("frame") EXCEPT !.csys = IF export.pixel THEN "image" ELSE "fk5"]
  <2>1. Header = <<Other("comment"), Other("global"), c>>
    BY <2>0, Zenon DEF Header
  <2>2. Len(Header) = 3 /\ Header[1] = Other("comment") /\ Header[2] = Other("global") /\ Header[3] = c
    <3> HIDE DEF c
    <3> QED BY <2>1
  <2>3. ProcessDs9Line(Header[p + 1])
    BY <2>0, Zenon DEF ReadLine
  <2>4. CASE p = 0
    <3>1. p + 1 = 1 /\ p + 1 # Len(Header)
      BY <2>2, <2>4
    <3>2. Header[p + 1].name = "comment" /\ Header[p + 1].label = Blank
      BY <1>6, <2>2, <3>1
    <3>3. importer' = importer /\ imported' = imported
      BY <1>7, <2>3, <3>2 DEF ProcessDs9Line
    <3> QED BY <1>1, <1>5, <3>1, <3>3, Zenon
  <2>5. CASE p = 1
    <3>1. p + 1 = 2 /\ p + 1 # Len(Header)
      BY <2>2, <2>5
    <3>2. Header[p + 1].name = "global" /\ Header[p + 1].label = Blank /\ Header[p + 1].dash = 0
      BY <1>6, <2>2, <3>1
    <3>3. SetGlobals(Header[p + 1]) /\ imported' = imported
      BY <1>7, <2>3, <3>2 DEF ProcessDs9Line
    <3>4. importer' = [importer EXCEPT !.global_dash = 0]
      BY <3>2, <3>3, Zenon DEF SetGlobals
    <3>5. importer' = importer
      BY <1>8, <3>4 DEF ImporterIs
    <3> QED BY <1>1, <1>5, <3>1, <3>3, <3>5, Zenon
  <2>6. CASE p = 2
    <3>1. p + 1 = 3 /\ p + 1 = Len(Header)
      BY <2>2, <2>6
    <3> DEFINE csys == IF export.pixel THEN "image" ELSE "fk5"
    <3>2. Header[p + 1] = c
      BY <2>2, <3>1, Zenon
    <3>3. c.name = "frame" /\ c.label = Blank /\ c.csys = csys
      BY Zenon DEF Other, Line, NoRegion, RegionOf
    <3> HIDE DEF c
    <3>4. SetFileReferenceFrame(c) /\ imported' = imported
      BY <1>7, <2>3, <3>2, <3>3 DEF ProcessDs9Line
    <3> DEFINE frame == IF csys = "image" THEN Blank ELSE "J2000"
               pixel == importer.pixel /\ csys = "image"
    <3>5. importer' = [importer EXCEPT !.frame = frame, !.pixel = pixel]
      BY <3>3, <3>4, Zenon DEF SetFileReferenceFrame
    <3>6. (pixel <=> export.pixel) /\ (frame = Blank <=> export.pixel)
      <4>1. csys = "image" <=> export.pixel
        OBVIOUS
      <4>2. Blank # "J2000"
        BY Zenon DEF Blank
      <4> HIDE DEF csys
      <4> QED BY <1>8, <4>1, <4>2, Zenon
    <3> HIDE DEF frame, pixel
    <3>7. importer' = [pixel |-> pixel, frame |-> frame, global_dash |-> importer.global_dash,
                       combo |-> importer.combo, pending |-> importer.pending]
      BY <1>8, <3>5 DEF ImporterIs
    <3>8. importer'.pixel = pixel /\ importer'.frame = frame /\ importer'.global_dash = importer.global_dash
          /\ importer'.combo = importer.combo /\ importer'.pending = importer.pending
      BY <3>7
    <3>9. ImporterIs'
      BY <3>7, <3>8, Zenon DEF ImporterIs
    <3>10. Reads' /\ ~importer'.combo
      BY <1>8, <3>6, <3>8, <3>9, Zenon DEF Reads, FileFrameSet
    <3> QED BY <1>1, <1>4, <3>1, <3>4, <3>10, Zenon
  <2> QED BY <1>1, <2>2, <2>4, <2>5, <2>6
<1> QED BY <1>9, <1>10 DEF Exports

\* Where the next line is of a region, the regions before it were read to their
\* end.
LEMMA NextRegion ==
    ASSUME Exports, RegionsAre, NEW m \in 0..Number, NEW q \in 1..Number, NEW j \in 1..Len(Parts[q]),
           Convertible(export.regions[q]), NEW k \in Nat, k + 1 = Len(LinesUpTo(q - 1)) + j,
           k = Len(LinesUpTo(m))
    PROVE  j = 1 /\ KeptUpTo(m) = KeptUpTo(q - 1)
<1> DEFINE len(i) == Len(LinesUpTo(i))
           size(i) == Len(Parts[i])
<1>1. /\ \A i \in 0..Number : len(i) \in Nat
      /\ \A i \in 0..Number, l \in 0..Number : i <= l => len(i) <= len(l)
      /\ \A i \in 1..Number : len(i) = len(i - 1) + size(i)
      /\ Number \in Nat
  BY LengthsAre, Zenon DEF RegionsAre
<1>2. size(q) = 1 \/ size(q) = 2
  BY PartsAre, Zenon
<1>3. \A i \in 0..Number : len(i) = len(q - 1) => KeptUpTo(i) = KeptUpTo(q - 1)
  <2> TAKE i \in 0..Number
  <2> HAVE len(i) = len(q - 1)
  <2>1. q - 1 \in 0..Number
    BY <1>1
  <2>2. CASE i <= q - 1
    <3>1. q - 1 \in i..Number
      BY <1>1, <2>1, <2>2
    <3> QED BY <3>1, SameKept, Zenon
  <2>3. CASE q - 1 <= i
    <3>1. i \in q - 1..Number
      BY <1>1, <2>1, <2>3
    <3> QED BY <2>1, <3>1, SameKept, Zenon
  <2> QED BY <1>1, <2>2, <2>3
<1>4. k + 1 = len(q - 1) + j /\ j \in 1..size(q)
  OBVIOUS
<1> HIDE DEF len, size
<1>5. q - 1 \in 0..Number /\ q \in 0..Number /\ q - 1 <= q /\ len(q) = len(q - 1) + size(q)
  BY <1>1
<1>6. ASSUME k = len(m) PROVE j = 1 /\ KeptUpTo(m) = KeptUpTo(q - 1)
  <2>1. CASE m <= q - 1
    <3>1. len(m) <= len(q - 1) /\ len(m) \in Nat /\ len(q - 1) \in Nat
      BY <1>1, <1>5, <2>1
    <3>2. j = 1 /\ len(m) = len(q - 1)
      BY <1>2, <1>4, <1>6, <3>1
    <3> QED BY <1>3, <3>2, Zenon
  <2>2. CASE q <= m
    <3>1. len(q) <= len(m) /\ len(m) \in Nat /\ len(q - 1) \in Nat
      BY <1>1, <1>5, <2>2
    <3> QED BY <1>2, <1>4, <1>5, <1>6, <3>1
  <2> QED BY <2>1, <2>2
<1>7. k = len(m)
  BY Zenon DEF len
<1> QED BY <1>6, <1>7

\* Where the next line is of a text, at its start or within, it is that text's.
LEMMA NextText ==
    ASSUME Exports, RegionsAre, NEW m \in 1..Number, NEW q \in 1..Number, NEW j \in 1..Len(Parts[q]),
           Convertible(export.regions[q]), NEW k \in Nat, k + 1 = Len(LinesUpTo(q - 1)) + j,
           NEW t \in 0..1, k = Len(LinesUpTo(m - 1)) + t, Len(Parts[m]) = 2
    PROVE  q = m /\ j = t + 1
<1> DEFINE len(i) == Len(LinesUpTo(i))
           size(i) == Len(Parts[i])
<1>1. /\ \A i \in 0..Number : len(i) \in Nat
      /\ \A i \in 0..Number, l \in 0..Number : i <= l => len(i) <= len(l)
      /\ \A i \in 1..Number : len(i) = len(i - 1) + size(i)
      /\ Number \in Nat
  BY LengthsAre, Zenon DEF RegionsAre
<1>2. size(q) = 1 \/ size(q) = 2
  BY PartsAre, Zenon
<1>4. k + 1 = len(q - 1) + j /\ j \in 1..size(q) /\ k = len(m - 1) + t /\ size(m) = 2
  OBVIOUS
<1> HIDE DEF len, size
<1>5. q - 1 \in 0..Number /\ q \in 0..Number /\ q - 1 <= q /\ len(q) = len(q - 1) + size(q)
  BY <1>1
<1>6. m \in 1..Number /\ m - 1 \in 0..Number /\ len(m) = len(m - 1) + size(m)
  BY <1>1
<1>7. len(m) \in Nat /\ len(m - 1) \in Nat /\ len(q) \in Nat /\ len(q - 1) \in Nat
  BY <1>1, <1>5, <1>6
<1>8. CASE q < m
  <2>1. len(q) <= len(m - 1)
    <3>1. q <= m - 1
      BY <1>8
    <3> QED BY <1>1, <1>5, <1>6, <3>1
  <2>2. k + 1 <= len(q - 1) + size(q) /\ len(m - 1) <= k
    <3> DEFINE a == len(q - 1)  b == size(q)  c == len(m - 1)
    <3>1. a \in Nat /\ c \in Nat /\ b \in {1, 2} /\ j \in 1..b /\ k + 1 = a + j /\ k = c + t
      <4>1. a \in Nat
        BY <1>1, <1>5, Zenon
      <4> QED BY <1>2, <1>4, <1>7, <4>1, Zenon
    <3> HIDE DEF a, b, c
    <3>2. k + 1 <= a + b
      BY <3>1
    <3>3. c <= k
      BY <3>1
    <3> QED BY <3>2, <3>3, Zenon DEF a, b, c
  <2> QED BY <1>2, <1>5, <1>7, <2>1, <2>2
<1>9. CASE m < q
  <2>1. len(m) <= len(q - 1)
    <3>1. m <= q - 1
      BY <1>9
    <3> QED BY <1>1, <1>5, <1>6, <3>1
  <2> QED BY <1>2, <1>4, <1>5, <1>6, <1>7, <2>1, SMTT(30)
<1>10. CASE q = m
  BY <1>2, <1>4, <1>5, <1>7, <1>10
<1> QED BY <1>8, <1>9, <1>10

\* A line of the file as it was written.
LEMMA WrittenLineRead ==
    ASSUME Exports, RegionsAre, Named, export' = export, NEW p \in Nat, p < Len(Whole), Progress(p),
           ReadLine(Whole[p + 1])
    PROVE  Progress(p + 1)'
<1> DEFINE h == Len(Header)
           len(i) == Len(LinesUpTo(i))
           region(i) == export.regions[i]
<1>1. /\ h \in Nat \ {0} /\ \A i \in 0..Number : len(i) \in Nat
      /\ \A i \in 1..Number : len(i) = len(i - 1) + Len(Parts[i])
      /\ \A i \in 1..Number : Convertible(region(i)) => KeptUpTo(i) = Append(KeptUpTo(i - 1), Kept(region(i)))
  BY LengthsAre, Zenon
<1>2. /\ Number' = Number /\ Header' = Header /\ export' = export
      /\ \A i : LinesUpTo(i)' = LinesUpTo(i) /\ KeptUpTo(i)' = KeptUpTo(i)
      /\ \A r : Kept(r)' = Kept(r) /\ (Convertible(r)' <=> Convertible(r))
  BY ExportKept, Zenon
<1>3. Number \in Nat
  BY Zenon DEF RegionsAre
<1>4. CASE InHeader(p)
  <2>1. p \in 0..Len(Header) - 1
    BY <1>4, Zenon DEF InHeader
  <2>2. Whole[p + 1] = Header[p + 1]
    BY <2>1, LineIsOf, Zenon
  <2>3. ReadLine(Header[p + 1])
    BY <2>2, Zenon
  <2> QED BY <1>4, <2>3, HeaderRead, Zenon DEF Progress
<1>5. ASSUME Len(Header) <= p
      PROVE  \E q \in 1..Number, j \in Nat :
                /\ Convertible(export.regions[q]) /\ j \in 1..Len(Parts[q])
                /\ p + 1 = Len(Header) + Len(LinesUpTo(q - 1)) + j /\ Whole[p + 1] = Parts[q][j]
  BY <1>5, LineIsOf, Zenon
<1>6. \A i \in 1..Number : Convertible(region(i)) =>
         /\ Parts[i] = AddExportRegion(region(i))
         /\ Len(Parts[i]) = IF region(i).type = "ANNTEXT" THEN 2 ELSE 1
  BY PartsAre, Zenon
<1>7. \A i \in 1..Number : ToExport(region(i)) /\ (export.format = "CRTF" \/ region(i).name # "global")
  BY Zenon DEF RegionsAre, Named
<1>8. CASE Between(p)
  <2>1. PICK m \in 0..Number : /\ p = Len(Header) + Len(LinesUpTo(m)) /\ imported = KeptUpTo(m)
                               /\ Reads /\ ~importer.combo
    BY <1>8, Zenon DEF Between
  <2>2. Len(Header) <= p /\ p - Len(Header) = len(m) /\ len(m) \in Nat
    BY <1>1, <2>1
  <2>3. PICK q \in 1..Number, j \in Nat :
                /\ Convertible(export.regions[q]) /\ j \in 1..Len(Parts[q])
                /\ p + 1 = Len(Header) + Len(LinesUpTo(q - 1)) + j /\ Whole[p + 1] = Parts[q][j]
    BY <1>5, <2>2, Zenon
  <2> DEFINE k == len(m)
             r == region(q)
  <2>4. k + 1 = Len(LinesUpTo(q - 1)) + j /\ k \in Nat /\ k = Len(LinesUpTo(m))
    <3> DEFINE x == Len(LinesUpTo(q - 1))  y == Len(LinesUpTo(m))
    <3>1. x \in Nat /\ y \in Nat /\ h \in Nat /\ p = h + y /\ p + 1 = h + x + j
      <4>1. q - 1 \in 0..Number
        BY <1>3
      <4> QED BY <1>1, <2>1, <2>3, <4>1, Zenon
    <3> HIDE DEF x, y, h
    <3>2. y + 1 = x + j
      BY <2>3, <3>1
    <3> QED BY <3>1, <3>2, Zenon DEF x, y
  <2> HIDE DEF k
  <2>5. j = 1 /\ KeptUpTo(m) = KeptUpTo(q - 1)
    BY <2>3, <2>4, NextRegion, Zenon
  <2>6. /\ Parts[q] = AddExportRegion(r) /\ Len(Parts[q]) = IF r.type = "ANNTEXT" THEN 2 ELSE 1
        /\ ToExport(r) /\ (export.format = "CRTF" \/ r.name # "global") /\ Convertible(r)
    BY <1>6, <1>7, <2>3, Zenon
  <2>7. ReadLine(AddExportRegion(r)[1])
    BY <2>3, <2>5, <2>6, Zenon
  <2>8. p + 1 = Len(Header) + Len(LinesUpTo(q - 1)) + 1 /\ q \in 0..Number
    BY <1>3, <2>3, <2>5
  <2>9. r' = r
    BY <1>2, Zenon
  <2> HIDE DEF r
  <2>10. /\ Reads' /\ (importer'.combo <=> r.type = "ANNTEXT") /\ importer'.pending = Kept(r)
         /\ imported' = IF r.type = "ANNTEXT" THEN imported ELSE Append(imported, Kept(r))
    BY <2>1, <2>6, <2>7, RegionRead, Zenon
  <2>11. CASE r.type = "ANNTEXT"
    <3>1. Within(p + 1)'
      <4>1. imported' = KeptUpTo(q - 1) /\ importer'.combo
        BY <2>1, <2>5, <2>10, <2>11, Zenon
      <4> QED BY <1>2, <2>6, <2>8, <2>9, <2>10, <2>11, <4>1, Zenon DEF Within, r
    <3> QED BY <3>1, Zenon DEF Progress
  <2>12. CASE r.type # "ANNTEXT"
    <3>1. Len(LinesUpTo(q)) = Len(LinesUpTo(q - 1)) + 1
      BY <1>1, <2>6, <2>12, Zenon
    <3>2. p + 1 = Len(Header) + Len(LinesUpTo(q))
      <4>1. Len(LinesUpTo(q - 1)) \in Nat /\ h \in Nat
        BY <1>1, <1>3
      <4> QED BY <2>8, <3>1, <4>1
    <3>3. imported' = KeptUpTo(q)
      BY <1>1, <2>1, <2>5, <2>6, <2>10, <2>12, Zenon DEF r
    <3>4. Between(p + 1)'
      BY <1>2, <2>8, <2>10, <2>12, <3>2, <3>3, Zenon DEF Between
    <3> QED BY <3>4, Zenon DEF Progress
  <2> QED BY <2>11, <2>12
<1>9. CASE Within(p)
  <2>1. PICK m \in 1..Number :
        /\ Convertible(export.regions[m]) /\ export.regions[m].type = "ANNTEXT"
        /\ p = Len(Header) + Len(LinesUpTo(m - 1)) + 1 /\ imported = KeptUpTo(m - 1)
        /\ Reads /\ importer.combo /\ importer.pending = Kept(export.regions[m])
    BY <1>9, Zenon DEF Within
  <2>2. m - 1 \in 0..Number /\ m \in 0..Number /\ m # 0 /\ 1 \in 0..1 /\ 1 + 1 = 2
    BY <1>3
  <2> DEFINE r == region(m)
  <2>3. /\ Parts[m] = AddExportRegion(r) /\ Len(Parts[m]) = 2
        /\ ToExport(r) /\ (export.format = "CRTF" \/ r.name # "global")
    BY <1>6, <1>7, <2>1, Zenon
  <2>4. Len(Header) <= p
    <3>1. len(m - 1) \in Nat
      BY <1>1, <2>2, Zenon
    <3> QED BY <1>1, <2>1, <3>1
  <2>5. PICK q \in 1..Number, j \in Nat :
                /\ Convertible(export.regions[q]) /\ j \in 1..Len(Parts[q])
                /\ p + 1 = Len(Header) + Len(LinesUpTo(q - 1)) + j /\ Whole[p + 1] = Parts[q][j]
    BY <1>5, <2>4, Zenon
  <2> DEFINE k == Len(LinesUpTo(m - 1)) + 1
  <2>6. k + 1 = Len(LinesUpTo(q - 1)) + j /\ k \in Nat /\ k = Len(LinesUpTo(m - 1)) + 1
    <3> DEFINE x == Len(LinesUpTo(q - 1))  y == Len(LinesUpTo(m - 1))
    <3>1. x \in Nat /\ y \in Nat /\ h \in Nat /\ p = h + y + 1 /\ p + 1 = h + x + j
      <4>1. q - 1 \in 0..Number
        BY <1>3
      <4> QED BY <1>1, <2>1, <2>2, <2>5, <4>1, Zenon
    <3> HIDE DEF x, y, h
    <3>2. y + 1 + 1 = x + j /\ y + 1 \in Nat
      BY <3>1
    <3> QED BY <3>2, Zenon DEF x, y
  <2> HIDE DEF k
  <2>7. q = m /\ j = 2
    <3>1. q = m /\ j = 1 + 1
      BY <2>2, <2>3, <2>5, <2>6, NextText, Zenon
    <3> QED BY <2>2, <3>1, Zenon
  <2>8. ReadLine(AddExportRegion(r)[2])
    BY <2>3, <2>5, <2>7, Zenon
  <2>9. Reads' /\ ~importer'.combo /\ imported' = Append(imported, Kept(r))
    <3> HIDE DEF r
    <3>1. r.type = "ANNTEXT" /\ importer.pending = Kept(r)
      BY <2>1, Zenon DEF r
    <3> QED BY <2>1, <2>3, <2>8, <3>1, RegionRead, Zenon
  <2>10. imported' = KeptUpTo(m)
    BY <1>1, <2>1, <2>9, Zenon
  <2>11. p + 1 = Len(Header) + Len(LinesUpTo(m))
    <3>1. Len(LinesUpTo(m)) = Len(LinesUpTo(m - 1)) + 2 /\ Len(LinesUpTo(m - 1)) \in Nat /\ h \in Nat
      BY <1>1, <2>2, <2>3, Zenon
    <3> QED BY <2>1, <3>1
  <2>12. Between(p + 1)'
    BY <1>2, <2>2, <2>9, <2>10, <2>11, Zenon DEF Between
  <2> QED BY <2>12, Zenon DEF Progress
<1> QED BY <1>4, <1>8, <1>9, Zenon DEF Progress

\* A line that was added.
LEMMA AddedLineStep ==
    ASSUME Exports, export' = export, NEW p, Between(p) \/ Within(p), NEW line,
           line = Other("comment") \/ (line = Other("unsupported") /\ ~Within(p)), ReadLine(line)
    PROVE  Progress(p)'
<1>1. /\ Number' = Number /\ Header' = Header /\ export' = export
      /\ \A i : LinesUpTo(i)' = LinesUpTo(i) /\ KeptUpTo(i)' = KeptUpTo(i)
      /\ \A r : Kept(r)' = Kept(r) /\ (Convertible(r)' <=> Convertible(r))
  BY ExportKept, Zenon
<1>2. CASE Within(p)
  <2>1. PICK m \in 1..Number :
        /\ Convertible(export.regions[m]) /\ export.regions[m].type = "ANNTEXT"
        /\ p = Len(Header) + Len(LinesUpTo(m - 1)) + 1 /\ imported = KeptUpTo(m - 1)
        /\ Reads /\ importer.combo /\ importer.pending = Kept(export.regions[m])
    BY <1>2, Zenon DEF Within
  <2>2. /\ Reads' /\ imported' = imported /\ (importer'.combo <=> importer.combo)
        /\ importer.combo => importer'.pending = importer.pending
    BY <1>2, <2>1, AddedLineRead, Zenon
  <2> QED BY <1>1, <2>1, <2>2, Zenon DEF Progress, Within
<1>3. CASE ~Within(p)
  <2>1. PICK m \in 0..Number : /\ p = Len(Header) + Len(LinesUpTo(m)) /\ imported = KeptUpTo(m)
                               /\ Reads /\ ~importer.combo
    BY <1>3, Zenon DEF Between
  <2>2. Reads' /\ imported' = imported /\ (importer'.combo <=> importer.combo)
    BY <1>3, <2>1, AddedLineRead, Zenon
  <2> QED BY <1>1, <2>1, <2>2, Zenon DEF Progress, Between
<1> QED BY <1>2, <1>3

\* The line before the second line of a text is its text box.
LEMMA WithinText ==
    ASSUME Exports, RegionsAre, NEW p, Within(p)
    PROVE  p \in Nat /\ Len(Header) < p /\ p <= Len(Whole) /\ Whole[p].name = "textbox"
<1>1. PICK m \in 1..Number :
        /\ Convertible(export.regions[m]) /\ export.regions[m].type = "ANNTEXT"
        /\ p = Len(Header) + Len(LinesUpTo(m - 1)) + 1
  BY Zenon DEF Within
<1> DEFINE h == Len(Header)
           k == Len(LinesUpTo(m - 1))
           a == Len(LinesUpTo(m))
           b == Len(LinesUpTo(Number))
           r == export.regions[m]
<1>2. Number \in Nat
  BY Zenon DEF RegionsAre
<1>3. m - 1 \in 0..Number /\ m \in 0..Number /\ m # 0 /\ 0 \in 0..1 /\ 0 + 1 = 1 /\ Number \in 0..Number /\ m <= Number
  BY <1>2
<1>4. Parts[m] = AddExportRegion(r) /\ Len(Parts[m]) = 2 /\ ToExport(r)
  BY <1>1, PartsAre, Zenon DEF RegionsAre
<1>5. h \in Nat /\ k \in Nat /\ a = k + 2 /\ a <= b /\ b \in Nat /\ Len(Whole) = h + b
  BY <1>3, <1>4, LengthsAre, LineIsOf, Zenon
<1>6. p = h + k + 1
  BY <1>1
<1> HIDE DEF h, k, a, b
<1>7. p \in Nat /\ h < p /\ p <= Len(Whole) /\ p - 1 \in Nat /\ h <= p - 1 /\ p - 1 < Len(Whole)
      /\ (p - 1) + 1 = p
  BY <1>5, <1>6
<1>8. PICK q \in 1..Number, j \in Nat :
                /\ Convertible(export.regions[q]) /\ j \in 1..Len(Parts[q])
                /\ p = Len(Header) + Len(LinesUpTo(q - 1)) + j /\ Whole[p] = Parts[q][j]
  <2> DEFINE s == p - 1
  <2>1. s \in Nat /\ Len(Header) <= s /\ s < Len(Whole) /\ s + 1 = p
    BY <1>7, Zenon DEF h
  <2> HIDE DEF s
  <2>2. \E q \in 1..Number, j \in Nat :
                /\ Convertible(export.regions[q]) /\ j \in 1..Len(Parts[q])
                /\ s + 1 = Len(Header) + Len(LinesUpTo(q - 1)) + j /\ Whole[s + 1] = Parts[q][j]
    BY <2>1, LineIsOf, Zenon
  <2> QED BY <2>1, <2>2, Zenon
<1>9. k + 1 = Len(LinesUpTo(q - 1)) + j
  <2> DEFINE x == Len(LinesUpTo(q - 1))
  <2>1. x \in Nat /\ p = h + x + j
    <3>1. q - 1 \in 0..Number
      BY <1>2
    <3> QED BY <1>8, <3>1, LengthsAre, Zenon DEF h
  <2> HIDE DEF x
  <2>2. k + 1 = x + j
    BY <1>5, <1>6, <1>8, <2>1
  <2> QED BY <2>2, Zenon DEF x
<1>10. k = Len(LinesUpTo(m - 1)) + 0
  <2>1. k = k + 0
    BY <1>5
  <2> QED BY <2>1, Zenon DEF k
<1>11. q = m /\ j = 1
  <2>1. PICK t \in 0..1 : t = 0
    OBVIOUS
  <2>2. k = Len(LinesUpTo(m - 1)) + t
    BY <1>10, <2>1, Zenon
  <2>3. Len(Parts[m]) = 2 /\ k \in Nat
    BY <1>4, <1>5
  <2>4. j \in 1..Len(Parts[q]) /\ Convertible(export.regions[q])
    BY <1>8, Zenon
  <2>5. q = m /\ j = t + 1
    BY <1>9, <2>2, <2>3, <2>4, NextText, ZenonT(40)
  <2> QED BY <1>3, <2>1, <2>5
<1>12. Whole[p] = AddExportRegion(r)[1]
  BY <1>4, <1>8, <1>11, Zenon
<1>13. AddExportRegion(r)[1].name = "textbox"
  <2> HIDE DEF r
  <2>1. r.type = "ANNTEXT"
    BY <1>1, Zenon DEF r
  <2>2. PICK line, text : AddExportRegion(r) = <<line, text>> /\ line.name = "textbox"
    BY <1>4, <2>1, RegionLines
  <2> QED BY <2>2
<1> QED BY <1>7, <1>12, <1>13 DEF h
-----------------------------------------------------------------------------
\* The types of the importer and of what it made.

RegionIs(r) ==
    /\ r = [type |-> r.type, at |-> r.at, in |-> r.in, size |-> r.size, rotation |-> r.rotation,
            name |-> r.name, shape |-> r.shape, color |-> r.color, dash |-> r.dash]
    /\ r.in \in {"pixel", "world"}
Made(r) == r.in \in {"pixel", "world"} /\ RegionDefined(r)

\* The importer and what it made, whatever the lines are.
ImportIs ==
    /\ ImporterIs /\ importer.pixel \in BOOLEAN /\ importer.frame \in {"image", Blank, "J2000"}
    /\ RegionIs(importer.pending)
    /\ \E X : imported \in Seq(X) /\ \A r \in X : Made(r)

LEMMA NoRegionIs == RegionIs(NoRegion)
<1>1. NoRegion = [type |-> Blank, at |-> 5, in |-> "pixel", size |-> "long", rotation |-> 0,
                  name |-> Blank, shape |-> Blank, color |-> "hex", dash |-> 0]
  BY Zenon DEF NoRegion, RegionOf
<1> QED BY <1>1 DEF RegionIs

\* A region keeps its fields when it takes the style of a text.
LEMMA StyleKeeps ==
    ASSUME NEW r, RegionIs(r), NEW text
    PROVE  RegionIs(AddTextStyle(r, text))
<1> DEFINE c == text.color
           s == [r EXCEPT !.color = c]
<1>1. s = [r EXCEPT !.color = c]
  OBVIOUS
<1> HIDE DEF s, c
<1>2. s = [type |-> r.type, at |-> r.at, in |-> r.in, size |-> r.size, rotation |-> r.rotation,
           name |-> r.name, shape |-> r.shape, color |-> c, dash |-> r.dash]
  BY <1>1 DEF RegionIs
<1>3. RegionIs(s)
  BY <1>2 DEF RegionIs
<1> QED BY <1>3, Zenon DEF AddTextStyle, s, c

\* A region that is read has its fields.
LEMMA LineGives ==
    ASSUME NEW line
    PROVE  RegionIs(SetRegion(line)) /\ RegionIs(CrtfRegion(line))
<1>1. RegionIs(SetRegion(line))
  <2> DEFINE state == Ds9State(line)
             pixel == IF line.csys = Blank THEN importer.pixel ELSE importer.frame = Blank
             point == Ds9Point(line, pixel)
             name == IF state.type = "ANNTEXT" THEN Blank ELSE line.label
             mark == IF line.shape = <<>> THEN Blank ELSE ShapeOf(Ds9Shapes, line.shape)
             dash == IF line.dash = 0 THEN importer.global_dash ELSE line.dash
             one == [type |-> state.type, at |-> point.at, in |-> point.in, size |-> state.size,
                     rotation |-> state.rotation, name |-> name, shape |-> mark,
                     color |-> line.color, dash |-> dash]
  <2>1. SetRegion(line) = NoRegion \/ SetRegion(line) = one
    BY Zenon DEF SetRegion
  <2>2. point.in = "pixel" \/ point.in = "world"
    BY Zenon DEF Ds9Point
  <2> HIDE DEF state, pixel, point, name, mark, dash
  <2>3. RegionIs(one)
    BY <2>2 DEF RegionIs
  <2> QED BY <2>1, <2>3, NoRegionIs, Zenon
<1>2. RegionIs(CrtfRegion(line))
  <2> DEFINE state == CrtfState(line)
             in == ConvertPointToPixels(line)
             mark == IF line.shape = <<>> THEN Blank ELSE ShapeOf(CrtfSymbols, line.shape)
             color == CrtfColor(line.color)
             one == [type |-> state.type, at |-> line.at, in |-> in, size |-> state.size,
                     rotation |-> state.rotation, name |-> line.label, shape |-> mark,
                     color |-> color, dash |-> line.dash]
  <2>1. CrtfRegion(line) = one
    BY Zenon DEF CrtfRegion
  <2>2. in = "pixel" \/ in = "world"
    BY Zenon DEF ConvertPointToPixels
  <2> HIDE DEF state, in, mark, color
  <2>3. RegionIs(one)
    BY <2>2 DEF RegionIs
  <2> QED BY <2>1, <2>3, Zenon
<1> QED BY <1>1, <1>2

\* What is appended is a region.
LEMMA AppendMade ==
    ASSUME ImportIs, NEW now, RegionIs(now), NEW appends,
           imported' = IF appends /\ RegionDefined(now) THEN Append(imported, now) ELSE imported
    PROVE  \E X : imported' \in Seq(X) /\ \A r \in X : Made(r)
<1>1. PICK X : imported \in Seq(X) /\ \A r \in X : Made(r)
  BY Zenon DEF ImportIs
<1>2. CASE appends /\ RegionDefined(now)
  <2> DEFINE Y == X \cup {now}
  <2>1. Made(now)
    BY <1>2, Zenon DEF Made, RegionIs
  <2>2. \A r \in Y : Made(r)
    BY <1>1, <2>1, Zenon
  <2>3. Append(imported, now) \in Seq(Y)
    <3>1. imported \in Seq(Y) /\ now \in Y
      BY <1>1
    <3> HIDE DEF Y
    <3> QED BY <3>1
  <2>4. imported' \in Seq(Y)
    BY <1>2, <2>3, Zenon
  <2> HIDE DEF Y
  <2> QED BY <2>2, <2>4, Zenon
<1>3. CASE ~(appends /\ RegionDefined(now))
  BY <1>1, <1>3, Zenon
<1> QED BY <1>2, <1>3

\* A line in DS9 format keeps the types.
LEMMA Ds9Keeps ==
    ASSUME ImportIs, NEW line, ProcessDs9Line(line)
    PROVE  ImportIs'
<1>1. ImporterIs /\ importer.pixel \in BOOLEAN /\ importer.frame \in {"image", Blank, "J2000"}
      /\ RegionIs(importer.pending)
  BY Zenon DEF ImportIs
<1>2. ASSUME UNCHANGED <<importer, imported>> PROVE ImportIs'
  <2>1. importer' = importer /\ imported' = imported
    BY <1>2
  <2> QED BY <2>1, Zenon DEF ImportIs, ImporterIs
<1>3. ASSUME SetGlobals(line), UNCHANGED imported PROVE ImportIs'
  <2> DEFINE dash == line.dash
  <2>1. importer' = [importer EXCEPT !.global_dash = dash]
    BY <1>3, Zenon DEF SetGlobals
  <2> HIDE DEF dash
  <2>2. importer' = [pixel |-> importer.pixel, frame |-> importer.frame, global_dash |-> dash,
                     combo |-> importer.combo, pending |-> importer.pending]
    BY <1>1, <2>1 DEF ImporterIs
  <2>3. importer'.pixel = importer.pixel /\ importer'.frame = importer.frame /\ importer'.global_dash = dash
        /\ importer'.combo = importer.combo /\ importer'.pending = importer.pending
    BY <2>2
  <2>4. ImporterIs'
    BY <2>2, <2>3, Zenon DEF ImporterIs
  <2> QED BY <1>1, <1>3, <2>3, <2>4, Zenon DEF ImportIs
<1>4. ASSUME SetFileReferenceFrame(line), UNCHANGED imported PROVE ImportIs'
  <2> DEFINE frame == IF line.csys = "image" THEN Blank ELSE "J2000"
             pixel == importer.pixel /\ line.csys = "image"
  <2>1. importer' = [importer EXCEPT !.frame = frame, !.pixel = pixel]
    BY <1>4, Zenon DEF SetFileReferenceFrame
  <2>2. frame \in {"image", Blank, "J2000"} /\ pixel \in BOOLEAN
    BY Zenon
  <2> HIDE DEF frame, pixel
  <2>3. importer' = [pixel |-> pixel, frame |-> frame, global_dash |-> importer.global_dash,
                     combo |-> importer.combo, pending |-> importer.pending]
    BY <1>1, <2>1 DEF ImporterIs
  <2>4. importer'.pixel = pixel /\ importer'.frame = frame /\ importer'.global_dash = importer.global_dash
        /\ importer'.combo = importer.combo /\ importer'.pending = importer.pending
    BY <2>3
  <2>5. ImporterIs'
    BY <2>3, <2>4, Zenon DEF ImporterIs
  <2> QED BY <1>1, <1>4, <2>2, <2>4, <2>5, Zenon DEF ImportIs
<1> DEFINE region == SetRegion(line)
           now == IF importer.combo THEN AddTextStyle(importer.pending, region) ELSE region
           combo == line.name = "textbox"
           pixel == AfterCsys(line)
<1>5. ASSUME importer' = [importer EXCEPT !.combo = combo, !.pending = now, !.pixel = pixel],
             imported' = IF ~combo /\ RegionDefined(now) THEN Append(imported, now) ELSE imported
      PROVE  ImportIs'
  <2>1. RegionIs(now)
    BY <1>1, LineGives, StyleKeeps, Zenon
  <2>2. pixel \in BOOLEAN
    BY <1>1, Zenon DEF AfterCsys
  <2> HIDE DEF now, combo, pixel
  <2>3. importer' = [pixel |-> pixel, frame |-> importer.frame, global_dash |-> importer.global_dash,
                     combo |-> combo, pending |-> now]
    BY <1>1, <1>5 DEF ImporterIs
  <2>4. importer'.pixel = pixel /\ importer'.frame = importer.frame /\ importer'.combo = combo
        /\ importer'.pending = now /\ importer'.global_dash = importer.global_dash
    BY <2>3
  <2>5. ImporterIs'
    BY <2>3, <2>4, Zenon DEF ImporterIs
  <2> DEFINE appends == ~combo
  <2>6. imported' = IF appends /\ RegionDefined(now) THEN Append(imported, now) ELSE imported
    BY <1>5, Zenon
  <2> HIDE DEF appends
  <2>7. \E X : imported' \in Seq(X) /\ \A r \in X : Made(r)
    BY <2>1, <2>6, AppendMade, Zenon
  <2> QED BY <1>1, <2>1, <2>2, <2>4, <2>5, <2>7, Zenon DEF ImportIs, Made, RegionIs, RegionDefined
<1> QED BY <1>2, <1>3, <1>4, <1>5, Zenon DEF ProcessDs9Line

\* A line in CRTF format keeps the types.
LEMMA CrtfKeeps ==
    ASSUME ImportIs, NEW line, ProcessCrtfLine(line)
    PROVE  ImportIs'
<1>1. ImporterIs /\ importer.pixel \in BOOLEAN /\ importer.frame \in {"image", Blank, "J2000"}
      /\ RegionIs(importer.pending)
  BY Zenon DEF ImportIs
<1>2. ASSUME UNCHANGED <<importer, imported>> PROVE ImportIs'
  <2>1. importer' = importer /\ imported' = imported
    BY <1>2
  <2> QED BY <2>1, Zenon DEF ImportIs, ImporterIs
<1> DEFINE region == CrtfRegion(line)
           combo == CrtfCombo(line)
           text == combo /\ line.name = "text"
           waits == combo /\ ~text
           now == IF ~RegionDefined(region) /\ ~combo THEN importer.pending
                  ELSE IF ~text THEN region
                  ELSE IF RegionDefined(importer.pending) THEN AddTextStyle(importer.pending, region)
                  ELSE importer.pending
           appends == (RegionDefined(region) \/ combo) /\ (text \/ ~combo)
<1>3. ASSUME importer' = [importer EXCEPT !.pending = now, !.combo = waits],
             imported' = IF appends /\ RegionDefined(now) THEN Append(imported, now) ELSE imported
      PROVE  ImportIs'
  <2>1. RegionIs(now)
    BY <1>1, LineGives, StyleKeeps, Zenon
  <2> HIDE DEF now, waits, appends
  <2>2. importer' = [pixel |-> importer.pixel, frame |-> importer.frame, global_dash |-> importer.global_dash,
                     combo |-> waits, pending |-> now]
    BY <1>1, <1>3 DEF ImporterIs
  <2>3. importer'.pixel = importer.pixel /\ importer'.frame = importer.frame /\ importer'.combo = waits
        /\ importer'.pending = now /\ importer'.global_dash = importer.global_dash
    BY <2>2
  <2>4. ImporterIs'
    BY <2>2, <2>3, Zenon DEF ImporterIs
  <2>5. \E X : imported' \in Seq(X) /\ \A r \in X : Made(r)
    BY <1>3, <2>1, AppendMade, Zenon
  <2> QED BY <1>1, <2>1, <2>3, <2>4, <2>5, Zenon DEF ImportIs
<1>4. CASE line.name = "comment"
  BY <1>2, <1>4, Zenon DEF ProcessCrtfLine
<1>5. CASE line.name # "comment"
  <2>1. /\ importer' = [importer EXCEPT !.pending = now, !.combo = waits]
        /\ imported' = IF (RegionDefined(region) \/ combo) /\ (text \/ ~combo) /\ RegionDefined(now)
                       THEN Append(imported, now) ELSE imported
    BY <1>5, Zenon DEF ProcessCrtfLine
  <2>2. imported' = IF appends /\ RegionDefined(now) THEN Append(imported, now) ELSE imported
    <3>1. (RegionDefined(region) \/ combo) /\ (text \/ ~combo) /\ RegionDefined(now)
             <=> appends /\ RegionDefined(now)
      OBVIOUS
    <3> HIDE DEF now, region, combo, text, appends
    <3> QED BY <2>1, <3>1, Zenon
  <2> QED BY <1>3, <2>1, <2>2, Zenon
<1> QED BY <1>4, <1>5

-----------------------------------------------------------------------------
\* The file as it is read.

\* What is read is what was written, with a line that may have been added.
FileIs ==
    \/ region_lines = <<>> /\ edited = 0
    \/ region_lines = Whole /\ edited = 0
    \/ /\ edited \in Len(Header)..Len(Whole) /\ Len(region_lines) = Len(Whole) + 1
       /\ region_lines[edited + 1] \in {Other("comment"), Other("unsupported")}
       /\ \A i \in 1..edited : region_lines[i] = Whole[i]
       /\ \A i \in edited + 1..Len(Whole) : region_lines[i + 1] = Whole[i]

\* The lines that were written among the first lines.
Pos(l) == IF edited = 0 \/ l <= edited THEN l ELSE l - 1

RegionFilesIInv ==
    /\ Exports /\ RegionsAre /\ FileIs /\ ImportIs
    /\ import_line \in 0..Len(region_lines)
    /\ import_line = 0 => importer = Initial /\ imported = <<>>
    /\ ReadAsWritten => Progress(Pos(import_line))

\* A line added to a sequence.
WithLine(s, i, x) == SubSeq(s, 1, i) \o <<x>> \o SubSeq(s, i + 1, Len(s))

LEMMA LineAdded ==
    ASSUME NEW X, NEW s \in Seq(X), NEW i \in 0..Len(s), NEW x
    PROVE  /\ Len(WithLine(s, i, x)) = Len(s) + 1 /\ WithLine(s, i, x)[i + 1] = x
           /\ \A k \in 1..i : WithLine(s, i, x)[k] = s[k]
           /\ \A k \in i + 1..Len(s) : WithLine(s, i, x)[k + 1] = s[k]
<1> DEFINE Y == X \cup {x}
           a == SubSeq(s, 1, i)
           b == <<x>>
           c == SubSeq(s, i + 1, Len(s))
           n == Len(s)
           t == WithLine(s, i, x)
<1>1. n \in Nat /\ s \in Seq(Y) /\ i \in 0..n
  OBVIOUS
<1>2. a \in Seq(Y) /\ Len(a) = i /\ \A k \in 1..i : a[k] = s[k]
  <2> HIDE DEF Y
  <2> QED BY <1>1
<1>3. b \in Seq(Y) /\ Len(b) = 1 /\ b[1] = x
  OBVIOUS
<1>4. c \in Seq(Y) /\ Len(c) = n - i /\ \A k \in 1..n - i : c[k] = s[i + k]
  <2> HIDE DEF Y
  <2>1. \A k \in i + 1..n : s[k] \in Y
    BY <1>1
  <2>2. c = [k \in 1..n - i |-> s[i + k]]
    <3>1. c = [k \in 1..n - (i + 1) + 1 |-> s[i + 1 + k - 1]]
      BY <1>1
    <3>2. n - (i + 1) + 1 = n - i /\ \A k \in 1..n - i : i + 1 + k - 1 = i + k
      BY <1>1
    <3> QED BY <1>1, <3>1, <3>2
  <2> QED BY <1>1, <2>1, <2>2
<1> HIDE DEF Y, a, b, c, n, t
<1>5. t = (a \o b) \o c
  BY Zenon DEF WithLine, a, b, c, n, t
<1> DEFINE d == a \o b
<1>6. d \in Seq(Y) /\ Len(d) = i + 1 /\ d[i + 1] = x /\ \A k \in 1..i : d[k] = s[k]
  <2>1. a \in Seq(Y) /\ b \in Seq(Y)
    BY <1>2, <1>3
  <2>2. d \in Seq(Y) /\ Len(d) = Len(a) + Len(b)
    BY <2>1
  <2>3. \A k \in 1..Len(a) : d[k] = a[k]
    BY <2>1
  <2>4. d[Len(a) + 1] = b[1]
    <3>1. \A k \in 1..Len(b) : d[Len(a) + k] = b[k]
      BY <2>1
    <3>2. 1 \in 1..Len(b)
      BY <1>3
    <3> QED BY <3>1, <3>2, Zenon
  <2> HIDE DEF d
  <2>5. \A k \in 1..i : d[k] = s[k]
    BY <1>2, <2>3, Zenon
  <2>6. d[i + 1] = x
    BY <1>2, <1>3, <2>4, Zenon
  <2> QED BY <1>2, <1>3, <2>2, <2>5, <2>6, Zenon
<1> HIDE DEF d
<1>7. t = d \o c
  BY <1>5, Zenon DEF d
<1>8. Len(t) = n + 1 /\ (\A k \in 1..i + 1 : t[k] = d[k]) /\ \A k \in 1..n - i : t[i + 1 + k] = c[k]
  <2> DEFINE m == Len(d)  o == Len(c)
  <2>1. d \in Seq(Y) /\ c \in Seq(Y) /\ m = i + 1 /\ o = n - i
    BY <1>4, <1>6
  <2>2. Len(d \o c) = m + o
    BY <2>1
  <2>3. \A k \in 1..m : (d \o c)[k] = d[k]
    BY <2>1
  <2>4. \A k \in 1..o : (d \o c)[m + k] = c[k]
    BY <2>1
  <2> HIDE DEF m, o
  <2>5. m + o = n + 1
    BY <1>1, <2>1
  <2>6. Len(t) = n + 1
    BY <1>7, <2>2, <2>5, Zenon
  <2>7. \A k \in 1..i + 1 : t[k] = d[k]
    BY <1>7, <2>1, <2>3, Zenon
  <2>8. \A k \in 1..n - i : t[i + 1 + k] = c[k]
    BY <1>7, <2>1, <2>4, Zenon
  <2> QED BY <2>6, <2>7, <2>8
<1>9. \A k \in 1..n - i : t[i + 1 + k] = c[k]
  BY <1>8, Zenon
<1>10. \A k \in i + 1..n : t[k + 1] = s[k]
  <2> TAKE k \in i + 1..n
  <2> DEFINE l == k - i
  <2>1. l \in 1..n - i /\ i + 1 + l = k + 1 /\ i + l = k
    BY <1>1
  <2> HIDE DEF l
  <2>2. t[i + 1 + l] = c[l] /\ c[l] = s[i + l]
    BY <1>4, <1>9, <2>1, Zenon
  <2> QED BY <2>1, <2>2, Zenon
<1>11. \A k \in 1..i : t[k] = s[k]
  <2> TAKE k \in 1..i
  <2>1. k \in 1..i + 1
    BY <1>1
  <2> QED BY <1>6, <1>8, <2>1, Zenon
<1>12. t[i + 1] = x
  <2>1. i + 1 \in 1..i + 1
    BY <1>1
  <2> QED BY <1>6, <1>8, <2>1, Zenon
<1> QED BY <1>8, <1>10, <1>11, <1>12, Zenon DEF n, t

\* The lines read of a file, and those of them that were written.
LEMMA Position ==
    ASSUME Exports, RegionsAre, FileIs, import_line \in 0..Len(region_lines), region_lines # <<>>
    PROVE  /\ Len(region_lines) \in Nat /\ Len(Whole) \in Nat /\ Len(Header) \in Nat \ {0}
           /\ edited = 0 => region_lines = Whole
           /\ edited # 0 => edited \in Len(Header)..Len(Whole) /\ Len(region_lines) = Len(Whole) + 1
<1>1. PICK X : Whole \in Seq(X)
  BY LineIsOf, Zenon
<1>2. Len(Whole) \in Nat
  BY <1>1
<1>3. Len(Header) \in Nat \ {0}
  BY LengthsAre, Zenon
<1>4. CASE region_lines = Whole /\ edited = 0
  <2>1. Len(region_lines) \in Nat
    BY <1>2, <1>4, Zenon
  <2> QED BY <1>2, <1>3, <1>4, <2>1, Zenon
<1>5. CASE edited \in Len(Header)..Len(Whole) /\ Len(region_lines) = Len(Whole) + 1
  <2> DEFINE h == Len(Header)  w == Len(Whole)  n == Len(region_lines)
  <2>1. h \in Nat \ {0} /\ w \in Nat /\ n = w + 1 /\ edited \in h..w
    BY <1>2, <1>3, <1>5, Zenon
  <2> HIDE DEF h, w, n
  <2>2. n \in Nat /\ edited # 0
    BY <2>1
  <2> QED BY <1>2, <1>3, <1>5, <2>2, Zenon DEF n
<1> QED BY <1>4, <1>5, Zenon DEF FileIs

\* A line of the file.
LEMMA LineStep ==
    ASSUME RegionFilesIInv, ReadAsWritten, export' = export, edited' = edited, region_lines' = region_lines,
           import_line < Len(region_lines), import_line' = import_line + 1,
           ReadLine(region_lines[import_line + 1])
    PROVE  \E p : p = Pos(import_line)' /\ Progress(p)'
<1>1. Exports /\ RegionsAre /\ FileIs /\ Progress(Pos(import_line)) /\ import_line \in 0..Len(region_lines)
  BY Zenon DEF RegionFilesIInv
<1>2. region_lines # <<>>
  <2>1. ASSUME region_lines = <<>> PROVE FALSE
    <3>1. Len(region_lines) = 0
      BY <2>1
    <3> QED BY <1>1, <3>1
  <2> QED BY <2>1
<1> DEFINE h == Len(Header)
           w == Len(Whole)
           n == Len(region_lines)
<1>3. /\ n \in Nat /\ w \in Nat /\ h \in Nat \ {0}
      /\ edited = 0 => region_lines = Whole
      /\ edited # 0 => edited \in h..w /\ n = w + 1
  BY <1>1, <1>2, Position, Zenon
<1>4. Named
  BY <1>1, Zenon DEF ReadAsWritten, Named, RegionsAre
<1>5. PICK l : l = import_line
  OBVIOUS
<1>6. PICK p : p = Pos(import_line)
  OBVIOUS
<1>7. /\ p = IF edited = 0 \/ l <= edited THEN l ELSE l - 1
      /\ Pos(import_line)' = IF edited = 0 \/ l + 1 <= edited THEN l + 1 ELSE (l + 1) - 1
      /\ Progress(p)
  BY <1>1, <1>5, <1>6, Zenon DEF Pos
<1>8. l \in Nat /\ l < n /\ ReadLine(region_lines[l + 1])
  <2>1. l \in 0..n /\ l < n
    BY <1>1, <1>5, Zenon
  <2>2. ReadLine(region_lines[l + 1])
    BY <1>5, Zenon
  <2> HIDE DEF n
  <2> QED BY <1>3, <2>1, <2>2
<1>9. ASSUME p \in Nat, p < w, region_lines[l + 1] = Whole[p + 1], Pos(import_line)' = p + 1
      PROVE  \E q : q = Pos(import_line)' /\ Progress(q)'
  <2>1. ReadLine(Whole[p + 1])
    BY <1>8, <1>9, Zenon
  <2>2. Progress(p + 1)'
    BY <1>1, <1>4, <1>7, <1>9, <2>1, WrittenLineRead, Zenon
  <2> QED BY <1>9, <2>2, Zenon
<1> HIDE DEF h, w, n
<1>10. CASE edited = 0
  <2>1. region_lines = Whole
    BY <1>3, <1>10, Zenon
  <2>2. n = w
    BY <2>1, Zenon DEF n, w
  <2>3. p = l /\ Pos(import_line)' = l + 1
    BY <1>7, <1>10, Zenon
  <2> QED BY <1>8, <1>9, <2>1, <2>2, <2>3, Zenon
<1>11. ASSUME edited # 0
       PROVE  /\ edited \in h..w /\ n = w + 1 /\ edited \in Nat
              /\ region_lines[edited + 1] \in {Other("comment"), Other("unsupported")}
              /\ \A i \in 1..edited : region_lines[i] = Whole[i]
              /\ \A i \in edited + 1..w : region_lines[i + 1] = Whole[i]
  <2>1. edited \in h..w /\ n = w + 1
    BY <1>3, <1>11, Zenon
  <2>2. edited \in Nat
    BY <1>3, <2>1
  <2> QED BY <1>1, <1>2, <1>11, <2>1, <2>2, Zenon DEF FileIs, w
<1>12. CASE edited # 0 /\ l + 1 <= edited
  <2>1. l <= edited /\ l + 1 \in 1..edited /\ l < w
    BY <1>3, <1>8, <1>11, <1>12
  <2>2. p = l /\ Pos(import_line)' = l + 1
    BY <1>7, <1>12, <2>1, Zenon
  <2>3. region_lines[l + 1] = Whole[l + 1]
    BY <1>11, <1>12, <2>1, Zenon
  <2> QED BY <1>8, <1>9, <2>1, <2>2, <2>3, Zenon
<1>13. CASE edited # 0 /\ l > edited
  <2>1. ~(l <= edited) /\ ~(l + 1 <= edited) /\ l \in edited + 1..w /\ l - 1 \in Nat /\ l - 1 < w
        /\ (l + 1) - 1 = l /\ (l - 1) + 1 = l
    BY <1>3, <1>8, <1>11, <1>13
  <2>2. p = l - 1 /\ Pos(import_line)' = l
    BY <1>7, <1>13, <2>1, Zenon
  <2>3. region_lines[l + 1] = Whole[l]
    BY <1>11, <1>13, <2>1, Zenon
  <2> QED BY <1>9, <2>1, <2>2, <2>3, Zenon
<1>14. CASE edited # 0 /\ l = edited
  <2>1. l <= edited /\ ~(l + 1 <= edited) /\ (l + 1) - 1 = l /\ h <= l /\ l \in 1..edited
    BY <1>3, <1>8, <1>11, <1>14
  <2>2. p = l /\ Pos(import_line)' = l
    BY <1>7, <1>14, <2>1, Zenon
  <2>3. ~InHeader(p)
    <3>1. ASSUME InHeader(p) PROVE FALSE
      <4>1. p \in 0..h - 1
        BY <3>1, Zenon DEF InHeader, h
      <4> QED BY <1>3, <1>8, <2>1, <2>2, <4>1
    <3> QED BY <3>1
  <2> DEFINE line == region_lines[l + 1]
  <2>4. line \in {Other("comment"), Other("unsupported")}
    BY <1>11, <1>14, Zenon
  <2>5. ASSUME Within(p) PROVE line = Other("comment")
    <3>1. Whole[p].name = "textbox"
      BY <1>1, <2>5, WithinText, Zenon
    <3>2. region_lines[edited].name = "textbox"
      BY <1>11, <1>14, <2>1, <2>2, <3>1, Zenon
    <3>3. line.name = "comment"
      BY <1>14, <3>2, Zenon DEF ReadAsWritten
    <3>4. Other("unsupported").name = "unsupported"
      BY Zenon DEF Other, Line
    <3>5. Other("unsupported").name # "comment"
      BY <3>4
    <3> QED BY <2>4, <3>3, <3>5, Zenon
  <2> HIDE DEF line
  <2>6. ReadLine(line)
    BY <1>8, Zenon DEF line
  <2>7. Progress(p)'
    BY <1>1, <1>7, <2>3, <2>4, <2>5, <2>6, AddedLineStep, Zenon DEF Progress
  <2> QED BY <2>2, <2>7, Zenon
<1> QED BY <1>3, <1>8, <1>10, <1>11, <1>12, <1>13, <1>14

-----------------------------------------------------------------------------
\* The invariant.

LEMMA RegionFilesStart == RegionFilesInit => RegionFilesIInv
<1> SUFFICES ASSUME RegionFilesInit PROVE RegionFilesIInv
  OBVIOUS
<1>1. PICK first \in FirstRegions, rest \in NextRegions, same \in BOOLEAN, pixel \in BOOLEAN,
           format \in {"DS9_REG", "CRTF"} :
           export = [format |-> format, pixel |-> pixel, same |-> same, regions |-> <<first>> \o rest]
  BY Zenon DEF RegionFilesInit
<1>2. /\ region_lines = <<>> /\ edited = 0 /\ import_line = 0 /\ imported = <<>> /\ importer = Initial
  BY Zenon DEF RegionFilesInit, Initial
<1>3. export.format = format /\ export.pixel = pixel /\ export.same = same
      /\ export.regions = <<first>> \o rest
  BY <1>1, Zenon
<1>4. Exports
  BY <1>3, Zenon DEF Exports
<1>5. RegionsAre
  <2> DEFINE X == {rest[i] : i \in DOMAIN rest}
             Y == X \cup {first}
             one == <<first>>
             all == one \o rest
  <2>1. rest \in Seq(X) /\ ToExport(first) /\ \A i \in DOMAIN rest : ToExport(rest[i])
    BY RegionsToExport, Zenon
  <2>2. \A r \in Y : ToExport(r)
    BY <2>1, Zenon
  <2>3. one \in Seq(Y) /\ rest \in Seq(Y)
    <3>1. first \in Y /\ X \subseteq Y
      OBVIOUS
    <3> HIDE DEF X, Y
    <3> QED BY <2>1, <3>1
  <2> HIDE DEF X, Y, one
  <2>4. all \in Seq(Y)
    BY <2>3
  <2>5. Len(all) \in Nat /\ DOMAIN all = 1..Len(all) /\ \A i \in 1..Len(all) : all[i] \in Y
    <3> HIDE DEF all
    <3> QED BY <2>4
  <2>6. export.regions = all
    BY <1>3, Zenon DEF one
  <2> HIDE DEF all
  <2> QED BY <2>2, <2>5, <2>6, Zenon DEF RegionsAre, Number
<1>6. FileIs
  BY <1>2, Zenon DEF FileIs
<1>7. ImportIs
  <2>1. Initial.pixel = TRUE /\ Initial.frame = "image" /\ Initial.pending = NoRegion
        /\ Initial.combo = FALSE /\ Initial.global_dash = 0
    BY Zenon DEF Initial
  <2>2. ImporterIs
    BY <1>2, <2>1, Zenon DEF ImporterIs, Initial
  <2>3. imported \in Seq({}) /\ \A r \in {} : Made(r)
    <3>1. <<>> \in Seq({})
      OBVIOUS
    <3> QED BY <1>2, <3>1, Zenon
  <2>4. importer.pixel \in BOOLEAN /\ importer.frame \in {"image", Blank, "J2000"}
        /\ RegionIs(importer.pending)
    <3>1. importer.pixel = TRUE /\ importer.frame = "image" /\ importer.pending = NoRegion
      BY <1>2, <2>1, Zenon
    <3> QED BY <3>1, NoRegionIs, Zenon
  <2>5. \E X : imported \in Seq(X) /\ \A r \in X : Made(r)
    <3> WITNESS {}
    <3> QED BY <2>3
  <2> QED BY <2>2, <2>4, <2>5, Zenon DEF ImportIs
<1>8. import_line \in 0..Len(region_lines)
  <2>1. Len(region_lines) = 0
    BY <1>2
  <2> QED BY <1>2, <2>1
<1>9. Progress(Pos(import_line))
  <2>1. 0 \in 0..Len(Header) - 1
    <3>1. Len(Header) \in Nat \ {0}
      BY <1>4, <1>5, LengthsAre, Zenon
    <3> QED BY <3>1
  <2> QED BY <1>2, <2>1, Zenon DEF Progress, InHeader, Pos
<1> QED BY <1>2, <1>4, <1>5, <1>6, <1>7, <1>8, <1>9, Zenon DEF RegionFilesIInv

LEMMA RegionFilesKeeps == RegionFilesIInv /\ [RegionFilesNext]_regionFileVars => RegionFilesIInv'
<1> SUFFICES ASSUME RegionFilesIInv, [RegionFilesNext]_regionFileVars PROVE RegionFilesIInv'
  OBVIOUS
<1>1. /\ Exports /\ RegionsAre /\ FileIs /\ ImportIs /\ import_line \in 0..Len(region_lines)
      /\ import_line = 0 => importer = Initial /\ imported = <<>>
      /\ ReadAsWritten => Progress(Pos(import_line))
  BY Zenon DEF RegionFilesIInv
<1>2. ASSUME export' = export PROVE Exports' /\ RegionsAre' /\ Whole' = Whole /\ Header' = Header
  BY <1>1, <1>2, ExportKept, Zenon
<1>3. PICK X : Whole \in Seq(X)
  BY <1>1, LineIsOf, Zenon
<1>4. Len(Header) \in Nat \ {0} /\ Len(Whole) \in Nat
  BY <1>1, <1>3, LengthsAre
\* A step that reads nothing, at the start of the file.
<1>5. ASSUME export' = export, import_line = 0, import_line' = 0, importer' = importer, imported' = imported,
             FileIs', Len(region_lines') \in Nat, edited' \in Nat
      PROVE  RegionFilesIInv'
  <2>1. Exports' /\ RegionsAre' /\ importer' = Initial' /\ imported' = <<>>
    BY <1>1, <1>2, <1>5, Zenon DEF Initial
  <2>2. import_line' \in 0..Len(region_lines')
    BY <1>5
  <2>3. ImportIs'
    BY <1>1, <1>5, Zenon DEF ImportIs, ImporterIs
  <2>4. Progress(Pos(import_line))'
    <3>1. 0 \in 0..Len(Header)' - 1
      <4>1. Len(Header)' = Len(Header)
        BY <1>2, <1>5, Zenon
      <4> QED BY <1>4, <4>1
    <3>2. Pos(import_line)' = 0
      <4>1. edited' = 0 \/ 0 <= edited'
        BY <1>5
      <4> QED BY <1>5, <4>1, Zenon DEF Pos
    <3> QED BY <2>1, <3>1, <3>2, Zenon DEF Progress, InHeader
  <2> QED BY <1>5, <2>1, <2>2, <2>3, <2>4, Zenon DEF RegionFilesIInv
<1>6. CASE ExportRegion
  <2>1. /\ region_lines = <<>> /\ export' = export /\ edited' = edited /\ import_line' = import_line
        /\ importer' = importer /\ imported' = imported /\ region_lines' = Whole
    BY <1>6, Zenon DEF ExportRegion, Whole, Parts
  <2>2. import_line = 0 /\ edited = 0
    <3>1. Len(region_lines) = 0
      BY <2>1
    <3>2. import_line = 0
      BY <1>1, <3>1
    <3>3. CASE edited \in Len(Header)..Len(Whole) /\ Len(region_lines) = Len(Whole) + 1
      BY <1>4, <3>1, <3>3
    <3> QED BY <1>1, <3>2, <3>3, Zenon DEF FileIs
  <2>3. FileIs'
    BY <1>2, <2>1, <2>2, Zenon DEF FileIs
  <2>4. Len(region_lines') \in Nat
    BY <1>4, <2>1, Zenon
  <2>5. edited' \in Nat
    BY <2>1, <2>2
  <2> QED BY <1>5, <2>1, <2>2, <2>3, <2>4, <2>5, Zenon
<1>7. CASE EditFile
  <2>1. /\ region_lines # <<>> /\ import_line = 0 /\ edited = 0 /\ export' = export
        /\ import_line' = import_line /\ importer' = importer /\ imported' = imported
    BY <1>7, Zenon DEF EditFile
  <2>2. PICK i \in Len(Header)..Len(region_lines), name \in {"comment", "unsupported"} :
          /\ edited' = i
          /\ region_lines' = SubSeq(region_lines, 1, i) \o <<Other(name)>>
                             \o SubSeq(region_lines, i + 1, Len(region_lines))
    BY <1>7, Zenon DEF EditFile
  <2>3. region_lines = Whole
    <3>1. CASE edited \in Len(Header)..Len(Whole)
      BY <1>4, <2>1, <3>1
    <3> QED BY <1>1, <2>1, <3>1, Zenon DEF FileIs
  <2> DEFINE x == Other(name)
  <2>4. i \in Len(Header)..Len(Whole) /\ i \in 0..Len(Whole)
    BY <1>4, <2>2, <2>3
  <2>5. PICK t : t = region_lines'
    OBVIOUS
  <2>6. t = SubSeq(Whole, 1, i) \o <<x>> \o SubSeq(Whole, i + 1, Len(Whole))
    BY <2>2, <2>3, <2>5, Zenon
  <2>7. x \in {Other("comment"), Other("unsupported")}
    BY Zenon
  <2> HIDE DEF x
  <2>8. /\ Len(t) = Len(Whole) + 1 /\ t[i + 1] = x
        /\ \A k \in 1..i : t[k] = Whole[k]
        /\ \A k \in i + 1..Len(Whole) : t[k + 1] = Whole[k]
    <3>1. t = WithLine(Whole, i, x)
      BY <2>6, Zenon DEF WithLine
    <3>2. /\ Len(WithLine(Whole, i, x)) = Len(Whole) + 1 /\ WithLine(Whole, i, x)[i + 1] = x
          /\ \A k \in 1..i : WithLine(Whole, i, x)[k] = Whole[k]
          /\ \A k \in i + 1..Len(Whole) : WithLine(Whole, i, x)[k + 1] = Whole[k]
      <4>1. i \in 0..Len(Whole)
        BY <2>4, Zenon
      <4> DEFINE Is(r, s, j, y) == /\ Len(r) = Len(s) + 1 /\ r[j + 1] = y
                                   /\ \A k \in 1..j : r[k] = s[k]
                                   /\ \A k \in j + 1..Len(s) : r[k + 1] = s[k]
      <4>2. \A X1 : \A s \in Seq(X1) : \A j \in 0..Len(s) : \A y : Is(WithLine(s, j, y), s, j, y)
        BY LineAdded
      <4>3. Is(WithLine(Whole, i, x), Whole, i, x)
        <5> HIDE DEF Is
        <5> QED BY <1>3, <4>1, <4>2, Zenon
      <4> QED BY <4>3
    <3> QED BY <3>1, <3>2, Zenon
  <2>9. Whole' = Whole /\ Header' = Header /\ Other("comment")' = Other("comment")
        /\ Other("unsupported")' = Other("unsupported")
    BY <1>2, <2>1, Zenon
  <2>10. FileIs'
    BY <2>2, <2>4, <2>5, <2>7, <2>8, <2>9, Zenon DEF FileIs
  <2>11. Len(region_lines') \in Nat /\ edited' \in Nat
    <3> DEFINE w == Len(Whole)
    <3>1. Len(region_lines') = w + 1 /\ edited' = i /\ w \in Nat /\ i \in 0..w
      BY <1>4, <2>2, <2>4, <2>5, <2>8, Zenon
    <3> HIDE DEF w
    <3> QED BY <3>1
  <2> QED BY <1>5, <2>1, <2>10, <2>11, Zenon
<1>8. CASE ProcessFileLines
  <2>1. /\ import_line < Len(region_lines) /\ import_line' = import_line + 1
        /\ export' = export /\ region_lines' = region_lines /\ edited' = edited
        /\ ReadLine(region_lines[import_line + 1])
    BY <1>8, Zenon DEF ProcessFileLines, ReadLine
  <2>2. Exports' /\ RegionsAre' /\ FileIs'
    BY <1>1, <1>2, <2>1, Zenon DEF FileIs
  <2>3. ImportIs'
    <3> DEFINE line == region_lines[import_line + 1]
    <3>1. ProcessCrtfLine(line) \/ ProcessDs9Line(line)
      BY <2>1, Zenon DEF ReadLine
    <3> HIDE DEF line
    <3> QED BY <1>1, <3>1, Ds9Keeps, CrtfKeeps, Zenon
  <2>4. import_line' \in 0..Len(region_lines') /\ import_line' # 0
    <3>1. region_lines # <<>>
      <4>1. ASSUME region_lines = <<>> PROVE FALSE
        <5>1. Len(region_lines) = 0
          BY <4>1
        <5> QED BY <1>1, <2>1, <5>1
      <4> QED BY <4>1
    <3>2. Len(region_lines) \in Nat
      BY <1>1, <3>1, Position, Zenon
    <3> QED BY <1>1, <2>1, <3>2
  <2>5. ReadAsWritten' <=> ReadAsWritten
    BY <2>1, Zenon DEF ReadAsWritten
  <2>6. ASSUME ReadAsWritten PROVE Progress(Pos(import_line))'
    <3>1. PICK p : p = Pos(import_line)' /\ Progress(p)'
      BY <2>1, <2>6, LineStep, Zenon
    <3> QED BY <3>1, Zenon DEF Progress, InHeader, Between, Within
  <2> QED BY <2>2, <2>3, <2>4, <2>5, <2>6, Zenon DEF RegionFilesIInv
<1>9. CASE UNCHANGED regionFileVars
  <2>1. /\ export' = export /\ region_lines' = region_lines /\ edited' = edited
        /\ import_line' = import_line /\ importer' = importer /\ imported' = imported
    BY <1>9, Zenon DEF regionFileVars
  <2>2. Exports' /\ RegionsAre' /\ FileIs'
    BY <1>1, <1>2, <2>1, Zenon DEF FileIs
  <2>3. ImportIs'
    BY <1>1, <2>1, Zenon DEF ImportIs, ImporterIs
  <2>4. ReadAsWritten' <=> ReadAsWritten
    BY <2>1, Zenon DEF ReadAsWritten
  <2>5. ASSUME ReadAsWritten PROVE Progress(Pos(import_line))'
    <3>1. Pos(import_line)' = Pos(import_line)
      BY <2>1, Zenon DEF Pos
    <3>2. Progress(Pos(import_line))
      BY <1>1, <2>5, Zenon
    <3>3. /\ Number' = Number /\ Header' = Header /\ \A m : LinesUpTo(m)' = LinesUpTo(m) /\ KeptUpTo(m)' = KeptUpTo(m)
          /\ \A r : Kept(r)' = Kept(r) /\ (Convertible(r)' <=> Convertible(r))
          /\ (Reads' <=> Reads)
      BY <2>1, ExportKept, Zenon DEF Reads, ImporterIs, FileFrameSet
    <3> QED BY <2>1, <3>1, <3>2, <3>3, Zenon DEF Progress, InHeader, Between, Within
  <2> QED BY <1>1, <2>1, <2>2, <2>3, <2>4, <2>5, Zenon DEF RegionFilesIInv, Initial
<1> QED BY <1>6, <1>7, <1>8, <1>9, Zenon DEF RegionFilesNext

\* What is kept of the first regions is where what is kept of all starts.
LEMMA KeptIsPrefix ==
    ASSUME Exports, RegionsAre, NEW m \in 0..Number
    PROVE  IsPrefix(KeptUpTo(m), Exported)
<1>1. PICK Y : Keeps \in Seq(Seq(Y))
  BY PartsAre, Zenon
<1>2. Len(Keeps) = Number /\ Number \in Nat
  BY PartsAre, Zenon DEF RegionsAre
<1> DEFINE all == Exported
           kept == KeptUpTo(m)
<1>3. all = KeptUpTo(Number)
  BY <1>1, <1>2, FlattenedIs, Zenon DEF Exported, Keeps, KeptUpTo
<1>4. kept \in Seq(Y) /\ all \in Seq(Y)
  <2>1. UpTo(Keeps) \in [0..Number -> Seq(Y)]
    BY <1>1, <1>2, UpToIs, Zenon
  <2>2. Number \in 0..Number
    BY <1>2
  <2>3. KeptUpTo(m) \in Seq(Y) /\ KeptUpTo(Number) \in Seq(Y)
    BY <2>1, <2>2 DEF KeptUpTo
  <2> QED BY <1>3, <2>3, Zenon
<1>5. /\ Len(kept) \in 0..Len(all) /\ \A j \in 1..Len(kept) : all[j] = kept[j]
  <2>1. Number \in 0..Len(Keeps) /\ m \in 0..Number
    BY <1>2
  <2> QED BY <1>1, <1>3, <2>1, UpToGrows, Zenon DEF KeptUpTo
<1> HIDE DEF all, kept
<1>6. Len(kept) <= Len(all)
  BY <1>4, <1>5
<1>7. SubSeq(kept, 1, Len(kept)) = SubSeq(all, 1, Len(kept))
  <2> DEFINE n == Len(kept)
  <2>1. n \in Nat /\ n <= Len(all) /\ \A j \in 1..n : all[j] = kept[j]
    BY <1>4, <1>5
  <2> HIDE DEF n
  <2>2. SubSeq(kept, 1, n) = [j \in 1..n |-> kept[j]] /\ SubSeq(all, 1, n) = [j \in 1..n |-> all[j]]
    BY <1>4, <2>1 DEF n
  <2>3. [j \in 1..n |-> kept[j]] = [j \in 1..n |-> all[j]]
    BY <2>1
  <2> QED BY <2>2, <2>3 DEF n
<1> QED BY <1>6, <1>7, Zenon DEF IsPrefix, all, kept

\* What was imported so far.
LEMMA RegionFilesMeet == RegionFilesIInv => RegionFilesTypeOK /\ RegionFilesCorrect
<1> SUFFICES ASSUME RegionFilesIInv PROVE RegionFilesTypeOK /\ RegionFilesCorrect
  OBVIOUS
<1>1. /\ Exports /\ RegionsAre /\ FileIs /\ ImportIs /\ import_line \in 0..Len(region_lines)
      /\ ReadAsWritten => Progress(Pos(import_line))
  BY Zenon DEF RegionFilesIInv
<1>2. RegionFilesTypeOK
  <2>1. edited \in 0..Len(region_lines)
    <3>1. CASE region_lines = <<>>
      <4>1. Len(region_lines) = 0
        BY <3>1
      <4>2. PICK X : Whole \in Seq(X)
        BY <1>1, LineIsOf, Zenon
      <4>3. Len(Whole) \in Nat
        BY <4>2
      <4>4. edited = 0
        <5>1. Len(region_lines) # Len(Whole) + 1
          BY <4>1, <4>3
        <5> QED BY <1>1, <5>1, Zenon DEF FileIs
      <4> QED BY <4>1, <4>4
    <3>2. CASE region_lines # <<>>
      <4>1. /\ Len(region_lines) \in Nat /\ Len(Whole) \in Nat /\ Len(Header) \in Nat \ {0}
            /\ edited # 0 => edited \in Len(Header)..Len(Whole) /\ Len(region_lines) = Len(Whole) + 1
        BY <1>1, <3>2, Position, Zenon
      <4> QED BY <4>1
    <3> QED BY <3>1, <3>2
  <2>2. \A i \in DOMAIN imported : Made(imported[i])
    <3>1. PICK X : imported \in Seq(X) /\ \A r \in X : Made(r)
      BY <1>1, Zenon DEF ImportIs
    <3>2. \A i \in DOMAIN imported : imported[i] \in X
      BY <3>1
    <3> QED BY <3>1, <3>2, Zenon
  <2> QED BY <1>1, <2>1, <2>2, Zenon DEF RegionFilesTypeOK, ImportIs, Made
<1>3. ASSUME ReadAsWritten PROVE IsPrefix(imported, Exported)
  <2>1. \E m \in 0..Number : imported = KeptUpTo(m)
    <3>1. KeptUpTo(0) = <<>> /\ 0 \in 0..Number
      <4>1. Number \in Nat
        BY <1>1, Zenon DEF RegionsAre
      <4>2. 0 \in 0..Number
        BY <4>1
      <4> QED BY <1>1, <4>2, LengthsAre, Zenon
    <3>2. \A m \in 1..Number : m - 1 \in 0..Number
      BY <1>1 DEF RegionsAre
    <3> QED BY <1>1, <1>3, <3>1, <3>2, Zenon DEF Progress, InHeader, Between, Within
  <2> QED BY <1>1, <2>1, KeptIsPrefix, Zenon
<1>4. ASSUME ReadAsWritten, region_lines # <<>>, import_line = Len(region_lines)
      PROVE  imported = Exported
  <2> DEFINE h == Len(Header)
             w == Len(Whole)
             n == Len(region_lines)
             p == Pos(import_line)
             len(m) == Len(LinesUpTo(m))
  <2>1. /\ n \in Nat /\ w \in Nat /\ h \in Nat \ {0}
        /\ edited = 0 => region_lines = Whole
        /\ edited # 0 => edited \in h..w /\ n = w + 1
    BY <1>1, <1>4, Position, Zenon
  <2>2. p = w
    <3>1. CASE edited = 0
      <4>1. n = w
        BY <2>1, <3>1, Zenon
      <4>2. p = import_line
        BY <3>1, Zenon DEF Pos
      <4> QED BY <1>4, <4>1, <4>2, Zenon
    <3>2. CASE edited # 0
      <4>1. p = IF edited = 0 \/ n <= edited THEN n ELSE n - 1
        BY <1>4, Zenon DEF Pos
      <4> HIDE DEF h, w, n, p
      <4>2. ~(n <= edited) /\ n - 1 = w
        BY <2>1, <3>2
      <4> QED BY <3>2, <4>1, <4>2, Zenon
    <3> QED BY <3>1, <3>2
  <2>3. Number \in Nat /\ Number \in 0..Number /\ \A m \in 0..Number : m <= Number
    BY <1>1 DEF RegionsAre
  <2>4. /\ w = h + len(Number)
        /\ \A m \in 0..Number : len(m) \in Nat /\ len(m) <= len(Number)
        /\ \A m \in 1..Number : len(m) = len(m - 1) + Len(Parts[m])
    BY <1>1, <2>3, LengthsAre, LineIsOf, Zenon
  <2>5. Exported = KeptUpTo(Number)
    <3>1. PICK Y : Keeps \in Seq(Seq(Y))
      BY <1>1, PartsAre, Zenon
    <3>2. Len(Keeps) = Number
      BY <1>1, PartsAre, Zenon
    <3> QED BY <3>1, <3>2, FlattenedIs, Zenon DEF Exported, Keeps, KeptUpTo
  <2>6. ~InHeader(p)
    <3>1. ASSUME InHeader(p) PROVE FALSE
      <4>1. w \in 0..h - 1
        BY <2>2, <3>1, Zenon DEF InHeader
      <4>2. len(Number) \in Nat
        BY <2>3, <2>4, Zenon
      <4> HIDE DEF h, w, len
      <4> QED BY <2>1, <2>4, <4>1, <4>2
    <3> QED BY <3>1
  <2>7. ~Within(p)
    <3>1. ASSUME Within(p) PROVE FALSE
      <4>1. PICK m \in 1..Number : Convertible(export.regions[m]) /\ export.regions[m].type = "ANNTEXT"
                                   /\ w = h + len(m - 1) + 1
        BY <2>2, <3>1, Zenon DEF Within
      <4>2. Len(Parts[m]) = 2
        BY <1>1, <4>1, PartsAre, Zenon
      <4>3. m \in 0..Number /\ m - 1 \in 0..Number
        BY <2>3
      <4>4. len(m) = len(m - 1) + 2 /\ len(m) <= len(Number) /\ len(m) \in Nat /\ len(m - 1) \in Nat
            /\ len(Number) \in Nat
        BY <2>3, <2>4, <4>2, <4>3, Zenon
      <4> HIDE DEF h, w, len
      <4> QED BY <2>1, <2>4, <4>1, <4>4
    <3> QED BY <3>1
  <2>8. PICK m \in 0..Number : w = h + len(m) /\ imported = KeptUpTo(m)
    BY <1>1, <1>4, <2>2, <2>6, <2>7, Zenon DEF Progress, Between
  <2>9. len(m) = len(Number)
    <3>1. len(m) \in Nat /\ len(Number) \in Nat
      BY <2>3, <2>4, Zenon
    <3> HIDE DEF h, w, len
    <3> QED BY <2>1, <2>4, <2>8, <3>1
  <2>10. Number \in m..Number
    BY <2>3
  <2>11. KeptUpTo(m) = KeptUpTo(Number)
    BY <1>1, <2>9, <2>10, SameKept, Zenon
  <2> QED BY <2>5, <2>8, <2>11, Zenon
<1> QED BY <1>2, <1>3, <1>4, Zenon DEF RegionFilesCorrect, ImportedAsExported, NothingLost

\* Every reachable state of the export and import of a file satisfies the
\* invariant.
THEOREM RegionFilesInductive == RegionFilesSpec => []RegionFilesIInv
BY RegionFilesStart, RegionFilesKeeps, PTL DEF RegionFilesSpec

\* The line read is one of the file, the importer's flags are the ones its
\* parsers know, and every region it made is a region in pixels or in world
\* coordinates.
THEOREM RegionFilesTypeCorrect == RegionFilesSpec => []RegionFilesTypeOK
<1>1. RegionFilesIInv => RegionFilesTypeOK
  BY RegionFilesMeet
<1> QED BY <1>1, RegionFilesInductive, PTL

\* Importing an exported file, line by line, gives the regions that were
\* exported, in their order and as the format keeps them, and at its end all of
\* them: whatever the regions are, with a line added or without.
THEOREM RegionFilesAreRead == RegionFilesSpec => []RegionFilesCorrect
<1>1. RegionFilesIInv => RegionFilesCorrect
  BY RegionFilesMeet
<1> QED BY <1>1, RegionFilesInductive, PTL

=============================================================================
