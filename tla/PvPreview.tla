----------------------------- MODULE PvPreview -----------------------------
(***************************************************************************)
(* PV previews of one line region: PvPreviewCut holds the queue of states  *)
(* of the line, PvPreviewCube the rebinned data, and a Frame shows the     *)
(* cube.  A preview request loads the cube and cuts it; every move of the  *)
(* line queues an update that cuts it again.  Requests and updates are     *)
(* tasks, stop, close and moves come on the main thread.                   *)
(*                                                                         *)
(* A state of the line is its number.  Cuts and cubes are objects that     *)
(* tasks may hold after the maps have lost them.                           *)
(***************************************************************************)
EXTENDS Naturals, Sequences, FiniteSets

CONSTANTS Previews,           \* preview ids, a set of numbers
          PreviewTasks,       \* task threads
          CutKinds,           \* values of PreviewCutParameters
          CubeKinds,          \* values of PreviewCubeParameters
          Rebinned,           \* the cube kinds with rebin_xy or rebin_z > 1
          MaxLineMoves,       \* bound on the states of the line
          MaxPreviewMessages  \* bound on requests, stops and closes

ASSUME PreviewsAssumption == IsFiniteSet(PreviewTasks) /\ MaxLineMoves \in Nat \ {0}

VARIABLES line,               \* state of the cut region
          cut_of, cut,        \* _pv_preview_cuts, and the cuts: [kind, queue]
          cube_of, cube,      \* _pv_preview_cubes, and the cubes
          preview_frame,      \* preview -> the cube its Frame shows, 0 if none
          preview_task,       \* the tasks
          preview_lock,       \* holder of _line_profile_mutex
          preview_messages    \* messages received

VARIABLES preview_sent,       \* history: the successful answers
          skipped,            \* history: cuts whose update or request ended
                              \* without taking a state
          cube_stops, cube_cancels \* history: stops and cancelled loads of a cube

previewVars == <<line, cut_of, cut, cube_of, cube, preview_frame, preview_task,
                 preview_lock, preview_messages, preview_sent, skipped,
                 cube_stops, cube_cancels>>

NoPreview == 0
Cuts == 1..Len(cut)
Cubes == 1..Len(cube)
NoPreviewTask == [at |-> "idle", kind |-> "none", preview |-> NoPreview, cut_kind |-> NoPreview,
                  cube_kind |-> NoPreview, cut |-> NoPreview, cube |-> NoPreview, read |-> NoPreview,
                  frame_set |-> FALSE, todo |-> {}, overlap |-> FALSE]
PreviewAt(t) == preview_task[t].at
IdlePreviewTask(t) == PreviewAt(t) = "idle"
Updating(t) == preview_task[t].kind = "update" /\ PreviewAt(t) \notin {"idle", "queued"}
LoadingCube(t, c) == PreviewAt(t) \in {"load", "loading"} /\ preview_task[t].cube = c
LoadedElsewhere(t, c) == \E u \in PreviewTasks \ {t} : LoadingCube(u, c)

CutRecords == [kind : CutKinds, queue : Seq(1..MaxLineMoves)]
CubeRecords ==
    [kind : CubeKinds, image : BOOLEAN, data : {"empty", "part", "full"}, stop : BOOLEAN]
PreviewTaskRecords ==
    [at : {"idle", "read", "cut", "frame", "cube", "image", "subimage", "load", "loading",
           "set", "queued", "next", "take", "compute"},
     kind : {"none", "request", "update"}, preview : Previews \cup {NoPreview},
     cut_kind : CutKinds \cup {NoPreview}, cube_kind : CubeKinds \cup {NoPreview},
     cut : Nat, cube : Nat, read : 0..MaxLineMoves,
     frame_set : BOOLEAN, todo : SUBSET Previews, overlap : BOOLEAN]

PvPreviewTypeOK ==
    /\ line \in 1..MaxLineMoves
    /\ cut \in Seq(CutRecords) /\ cube \in Seq(CubeRecords)
    /\ cut_of \in [Previews -> Cuts \cup {NoPreview}]
    /\ cube_of \in [Previews -> Cubes \cup {NoPreview}]
    /\ preview_frame \in [Previews -> Cubes \cup {NoPreview}]
    /\ preview_task \in [PreviewTasks -> PreviewTaskRecords]
    /\ \A t \in PreviewTasks : /\ preview_task[t].cut \in Cuts \cup {NoPreview}
                              /\ preview_task[t].cube \in Cubes \cup {NoPreview}
    /\ preview_lock \in PreviewTasks \cup {NoPreview}
    /\ cube_stops \in [Cubes -> Nat] /\ cube_cancels \in [Cubes -> Nat]
    /\ skipped \subseteq Cuts

PvPreviewInit ==
    /\ line = 1
    /\ cut_of = [p \in Previews |-> NoPreview] /\ cut = <<>>
    /\ cube_of = [p \in Previews |-> NoPreview] /\ cube = <<>>
    /\ preview_frame = [p \in Previews |-> NoPreview]
    /\ preview_task = [t \in PreviewTasks |-> NoPreviewTask]
    /\ preview_lock = NoPreview /\ preview_messages = 0
    /\ preview_sent = {} /\ skipped = {} /\ cube_stops = <<>> /\ cube_cancels = <<>>

-----------------------------------------------------------------------------
(***************************************************************************)
(* The main thread.                                                        *)
(***************************************************************************)

ReceivePreviewMessage == preview_messages < MaxPreviewMessages /\ preview_messages' = preview_messages + 1
ClearRegionQueue(p) == IF cut_of[p] = NoPreview THEN cut
                                           ELSE [cut EXCEPT ![cut_of[p]].queue = <<>>]

\* SessionManager, PV_REQUEST: StopPvPreviewUpdates, then the task is queued.
RequestPreview(t, p, cut_kind, cube_kind) ==
    /\ ReceivePreviewMessage /\ IdlePreviewTask(t)
    /\ cut' = ClearRegionQueue(p)
    /\ skipped' = skipped \ {cut_of[p]}
    /\ preview_task' = [preview_task EXCEPT ![t] = [NoPreviewTask EXCEPT
           !.at = "read", !.kind = "request", !.preview = p,
           !.cut_kind = cut_kind, !.cube_kind = cube_kind]]
    /\ UNCHANGED <<line, cut_of, cube_of, cube, preview_frame, preview_lock,
                   preview_sent, cube_stops, cube_cancels>>

\* OnSetRegion of the line: UpdatePvPreviewRegion adds the state to every cut
\* of the region, and a PvPreviewUpdateTask is queued if there is one.
MovePreviewLine(t) ==
    LET cuts == {cut_of[p] : p \in Previews} \ {NoPreview}
    IN  /\ line < MaxLineMoves /\ line' = line + 1 /\ IdlePreviewTask(t)
        /\ cut' = [k \in Cuts |-> IF k \in cuts THEN [cut[k] EXCEPT !.queue = Append(@, line')]
                                                ELSE cut[k]]
        /\ preview_task' = IF cuts = {} THEN preview_task ELSE
               [preview_task EXCEPT ![t] = [NoPreviewTask EXCEPT !.at = "queued", !.kind = "update"]]
        /\ UNCHANGED <<cut_of, cube_of, cube, preview_frame, preview_lock, preview_messages,
                       preview_sent, skipped, cube_stops, cube_cancels>>

StopCube(p) ==
    IF cube_of[p] = NoPreview THEN UNCHANGED <<cube, cube_stops>>
    ELSE /\ cube' = [cube EXCEPT ![cube_of[p]].stop = TRUE]
         /\ cube_stops' = [cube_stops EXCEPT ![cube_of[p]] = @ + 1]

StopPvPreview(p) ==
    /\ ReceivePreviewMessage /\ StopCube(p)
    /\ UNCHANGED <<line, cut_of, cut, cube_of, preview_frame, preview_task, preview_lock,
                   preview_sent, skipped, cube_cancels>>

\* The main thread waits for the updates in progress before it erases a cut.
ClosePvPreview(p) ==
    /\ ReceivePreviewMessage /\ \A t \in PreviewTasks : ~Updating(t)
    /\ StopCube(p)
    /\ cut' = ClearRegionQueue(p)
    /\ cut_of' = [cut_of EXCEPT ![p] = NoPreview]
    /\ cube_of' = [cube_of EXCEPT ![p] = NoPreview]
    /\ preview_frame' = [preview_frame EXCEPT ![p] = NoPreview]
    /\ UNCHANGED <<line, preview_task, preview_lock, preview_sent, skipped, cube_cancels>>

-----------------------------------------------------------------------------
(***************************************************************************)
(* CalculatePvPreviewImage, in the task of a request.                      *)
(***************************************************************************)

GoTo(t, where) == preview_task' = [preview_task EXCEPT ![t].at = where]
End(t) == preview_task' = [preview_task EXCEPT ![t] = NoPreviewTask]
Skip(t) == skipped' = skipped \cup {preview_task[t].cut}
KeepMain == UNCHANGED <<line, preview_messages, cube_stops>>

ReadCutState(t) ==
    /\ PreviewAt(t) = "read"
    /\ preview_task' = [preview_task EXCEPT ![t].at = "cut", ![t].read = line]
    /\ KeepMain /\ UNCHANGED <<cut_of, cut, cube_of, cube, preview_frame, preview_lock,
                               preview_sent, skipped, cube_cancels>>

\* Under the unique lock of _pv_cut_mutex: a cut of the same parameters gets
\* the state as its last, else a new cut replaces it.
SetPreviewCut(t) ==
    LET r == preview_task[t]
        k == cut_of[r.preview]
        same == k # NoPreview /\ cut[k].kind = r.cut_kind
    IN  /\ PreviewAt(t) = "cut" /\ \A u \in PreviewTasks : ~Updating(u)
        /\ cut' = IF same THEN [cut EXCEPT ![k].queue = Append(@, r.read)]
                  ELSE Append(cut, [kind |-> r.cut_kind, queue |-> <<r.read>>])
        /\ cut_of' = IF same THEN cut_of ELSE [cut_of EXCEPT ![r.preview] = Len(cut')]
        /\ preview_task' = [preview_task EXCEPT ![t].at = "frame", ![t].cut = cut_of'[r.preview]]
        /\ KeepMain /\ UNCHANGED <<cube_of, cube, preview_frame, preview_lock, preview_sent,
                                   skipped, cube_cancels>>

FindFrame(t) ==
    /\ PreviewAt(t) = "frame"
    /\ preview_task' = [preview_task EXCEPT ![t].at = "cube",
           ![t].frame_set = preview_frame[preview_task[t].preview] # NoPreview]
    /\ KeepMain /\ UNCHANGED <<cut_of, cut, cube_of, cube, preview_frame, preview_lock,
                               preview_sent, skipped, cube_cancels>>

\* Under _pv_cube_mutex: the cube of the preview, one with the same parameters
\* of another preview, or a new one.
SetPreviewCube(t) ==
    LET r == preview_task[t]
        p == r.preview
        Same(c) == c # NoPreview /\ cube[c].kind = r.cube_kind
        use(c, kept) ==
            preview_task' = [preview_task EXCEPT ![t].cube = c,
                ![t].at = IF kept /\ r.frame_set /\ cube'[c].data # "empty" THEN "take" ELSE "image",
                ![t].overlap = LoadedElsewhere(t, c)]
    IN  /\ PreviewAt(t) = "cube"
        /\ \/ Same(cube_of[p]) /\ UNCHANGED <<cube, cube_of, cube_cancels, cube_stops>>
              /\ use(cube_of[p], TRUE)
           \/ /\ ~Same(cube_of[p])
              /\ \E q \in Previews : Same(cube_of[q]) /\ cube_of' = [cube_of EXCEPT ![p] = cube_of[q]]
              /\ UNCHANGED <<cube, cube_cancels, cube_stops>>
              /\ use(cube_of'[p], FALSE)
           \/ /\ \A q \in Previews : ~Same(cube_of[q])
              /\ cube' = Append(cube, [kind |-> r.cube_kind, image |-> FALSE, data |-> "empty",
                                       stop |-> FALSE])
              /\ cube_cancels' = Append(cube_cancels, 0) /\ cube_stops' = Append(cube_stops, 0)
              /\ cube_of' = [cube_of EXCEPT ![p] = Len(cube')]
              /\ use(Len(cube'), FALSE)
        /\ UNCHANGED <<line, preview_messages, cut_of, cut, preview_frame, preview_lock,
                       preview_sent, skipped>>

\* GetPreviewImage: an image is loaded when its data is empty; without an image
\* _line_profile_mutex is taken and the image is made of the region.
GetPreviewImage(t) ==
    LET c == preview_task[t].cube
    IN  /\ PreviewAt(t) = "image"
        /\ \/ cube[c].image /\ cube[c].data = "empty" /\ GoTo(t, "load") /\ UNCHANGED preview_lock
           \/ cube[c].image /\ cube[c].data # "empty" /\ GoTo(t, "set") /\ UNCHANGED preview_lock
           \/ ~cube[c].image /\ preview_lock = NoPreview /\ preview_lock' = t /\ GoTo(t, "subimage")
        /\ KeepMain /\ UNCHANGED <<cut_of, cut, cube_of, cube, preview_frame, preview_sent,
                                   skipped, cube_cancels>>

Release(t) == preview_lock' = IF preview_lock = t THEN NoPreview ELSE preview_lock

\* The region or its channels may fail on the image.
MakePreviewImage(t) ==
    LET c == preview_task[t].cube
    IN  /\ PreviewAt(t) = "subimage"
        /\ \/ End(t) /\ Release(t) /\ Skip(t) /\ UNCHANGED cube
           \/ /\ cube' = [cube EXCEPT ![c].image = TRUE]
              /\ GoTo(t, IF cube[c].image /\ cube[c].data # "empty" THEN "set" ELSE "load")
              /\ UNCHANGED <<preview_lock, skipped>>
        /\ KeepMain /\ UNCHANGED <<cut_of, cut, cube_of, preview_frame, preview_sent, cube_cancels>>

\* The stop flag is read before the data is made and, when rebinning, before
\* every channel; the data is not empty from the first of them.  Who has the
\* cube at the time of a load overlaps with it.
Load(t, cancelled) ==
    LET c == preview_task[t].cube
        overlapping == {u \in PreviewTasks : \/ u # t /\ preview_task[u].cube = c
                                             \/ u = t /\ LoadedElsewhere(t, c)}
        go(where) == preview_task' = [u \in PreviewTasks |->
                        [preview_task[u] EXCEPT !.overlap = @ \/ u \in overlapping,
                                                !.at = IF u = t THEN where ELSE @]]
    IN  /\ PreviewAt(t) \in {"load", "loading"}
        /\ IF cube[c].stop
           THEN /\ cube' = [cube EXCEPT ![c] = cancelled]
                /\ cube_cancels' = [cube_cancels EXCEPT ![c] = @ + 1]
                /\ End(t) /\ Release(t) /\ Skip(t)
           ELSE /\ UNCHANGED <<cube_cancels, skipped, preview_lock>>
                /\ IF PreviewAt(t) = "load" /\ cube[c].kind \in Rebinned
                   THEN cube' = [cube EXCEPT ![c].data = "part"] /\ go("loading")
                   ELSE cube' = [cube EXCEPT ![c].data = "full"] /\ go("set")
        /\ KeepMain /\ UNCHANGED <<cut_of, cut, cube_of, preview_frame, preview_sent>>

Emptied(t) == IF PreviewAt(t) = "loading" THEN "empty" ELSE cube[preview_task[t].cube].data

\* Mutants of LoadCubeData: the data read so far stays; the stop stays.
KeepsPart(t) == Load(t, [cube[preview_task[t].cube] EXCEPT !.stop = FALSE])
KeepsStop(t) == Load(t, [cube[preview_task[t].cube] EXCEPT !.data = Emptied(t)])

LoadCubeData(t) ==
    Load(t, [cube[preview_task[t].cube] EXCEPT !.stop = FALSE, !.data = Emptied(t)])

SetPreviewFrame(t) ==
    /\ PreviewAt(t) = "set"
    /\ preview_frame' = [preview_frame EXCEPT ![preview_task[t].preview] = preview_task[t].cube]
    /\ GoTo(t, "take") /\ Release(t)
    /\ KeepMain /\ UNCHANGED <<cut_of, cut, cube_of, cube, preview_sent, skipped, cube_cancels>>

-----------------------------------------------------------------------------
(***************************************************************************)
(* UpdatePvPreviewImage, holding _pv_cut_mutex shared; and the cut itself. *)
(***************************************************************************)

UpdatePvPreviewImage(t) ==
    /\ PreviewAt(t) = "queued"
    /\ preview_task' = [preview_task EXCEPT ![t].at = "next",
           ![t].todo = {p \in Previews : cut_of[p] # NoPreview}]
    /\ KeepMain /\ UNCHANGED <<cut_of, cut, cube_of, cube, preview_frame, preview_lock,
                               preview_sent, skipped, cube_cancels>>

\* The cuts in the order of an unordered map.  One without a cube or a Frame ends
\* the update of them all; one without data is passed over.
UpdateNext(t) ==
    LET r == preview_task[t]
    IN  /\ PreviewAt(t) = "next"
        /\ IF r.todo = {} THEN End(t) /\ UNCHANGED skipped
           ELSE \E p \in r.todo :
                  LET k == cut_of[p]
                      c == cube_of[p]
                  IN  IF c = NoPreview \/ preview_frame[p] = NoPreview
                      THEN End(t) /\ skipped' = skipped \cup {cut_of[q] : q \in r.todo}
                      ELSE IF cut[k].queue # <<>> /\ cube[c].data # "empty"
                      THEN /\ preview_task' = [preview_task EXCEPT ![t] = [r EXCEPT
                                  !.at = "take", !.preview = p, !.cut = k, !.cube = c,
                                  !.todo = @ \ {p}, !.overlap = LoadedElsewhere(t, c)]]
                           /\ UNCHANGED skipped
                      ELSE /\ preview_task' = [preview_task EXCEPT ![t].todo = @ \ {p}]
                           /\ skipped' = skipped \cup {k}
        /\ KeepMain /\ UNCHANGED <<cut_of, cut, cube_of, cube, preview_frame, preview_lock,
                                   preview_sent, cube_cancels>>

AfterCut(t) == IF preview_task[t].kind = "update" THEN GoTo(t, "next") ELSE End(t)

\* Mutant of GetNextRegion: the state is not removed from the queue.
PeekRegion(t) ==
    LET k == preview_task[t].cut
    IN  /\ PreviewAt(t) = "take"
        /\ UNCHANGED cut
        /\ IF cut[k].queue = <<>> THEN AfterCut(t)
           ELSE preview_task' = [preview_task EXCEPT ![t].at = "compute",
                                     ![t].read = Head(cut[k].queue)]
        /\ KeepMain /\ UNCHANGED <<cut_of, cube_of, cube, preview_frame, preview_lock,
                                   preview_sent, skipped, cube_cancels>>

\* The first state queued is taken, an empty queue ends the request or update.
GetNextRegion(t) ==
    LET k == preview_task[t].cut
    IN  /\ PreviewAt(t) = "take"
        /\ IF cut[k].queue = <<>> THEN UNCHANGED cut /\ AfterCut(t)
           ELSE /\ cut' = [cut EXCEPT ![k].queue = Tail(@)]
                /\ preview_task' = [preview_task EXCEPT ![t].at = "compute",
                                        ![t].read = Head(cut[k].queue)]
        /\ KeepMain /\ UNCHANGED <<cut_of, cube_of, cube, preview_frame, preview_lock,
                                   preview_sent, skipped, cube_cancels>>

\* The profiles of the boxes along the line, and the answer.  _frames.at throws
\* when the preview was closed, and no one catches it: what follows here is more
\* than a process does that has ended.  Without data the image is sent as NaN.
ComputePreview(t) ==
    LET r == preview_task[t]
        late == r.overlap \/ LoadedElsewhere(t, r.cube)
    IN  /\ PreviewAt(t) = "compute" /\ preview_lock = NoPreview
        /\ IF preview_frame[r.preview] = NoPreview THEN End(t) /\ UNCHANGED preview_sent
           ELSE /\ preview_sent' = preview_sent \cup
                       {[data |-> cube[r.cube].data, late |-> late]}
                /\ AfterCut(t)
        /\ KeepMain /\ UNCHANGED <<cut_of, cut, cube_of, cube, preview_frame, preview_lock,
                                   skipped, cube_cancels>>

-----------------------------------------------------------------------------

PreviewStep(t) ==
    \/ ReadCutState(t) \/ SetPreviewCut(t) \/ FindFrame(t) \/ SetPreviewCube(t)
    \/ GetPreviewImage(t) \/ MakePreviewImage(t) \/ LoadCubeData(t) \/ SetPreviewFrame(t)
    \/ UpdatePvPreviewImage(t) \/ UpdateNext(t) \/ GetNextRegion(t) \/ ComputePreview(t)

PvPreviewNext ==
    \/ \E p \in Previews : StopPvPreview(p) \/ ClosePvPreview(p)
    \/ \E t \in PreviewTasks :
          \/ MovePreviewLine(t) \/ PreviewStep(t)
          \/ \E p \in Previews, k \in CutKinds, c \in CubeKinds : RequestPreview(t, p, k, c)

PvPreviewSpec == PvPreviewInit /\ [][PvPreviewNext]_previewVars

-----------------------------------------------------------------------------
(***************************************************************************)
(* Properties.                                                             *)
(***************************************************************************)

\* "Check if cube is loaded" (PvPreviewCube.h), CubeLoaded: a preview that is
\* sent is cut from a whole cube, also after a load was cancelled half way,
\* unless the cube was being loaded at the time for another request.
PreviewFromWholeCube == \A s \in preview_sent : s.data = "full" \/ s.late

\* A stop cancels one load at most: the flag does not outlive the load that it
\* cancelled, and a request that is made again is carried out.
StopCancelsOnce == \A c \in Cubes : cube_cancels[c] <= cube_stops[c]

\* At rest a preview has caught up with the line: no state is left in the queue,
\* unless a task ended before it took the state that was queued for it.
PreviewCaughtUp ==
    (\A t \in PreviewTasks : IdlePreviewTask(t)) =>
        \A p \in Previews : cut_of[p] # NoPreview =>
            cut[cut_of[p]].queue = <<>> \/ cut_of[p] \in skipped

\* PV previews are whole, stopped once and caught up with the line.
PvPreviewCorrect == PreviewFromWholeCube /\ StopCancelsOnce /\ PreviewCaughtUp
=============================================================================
