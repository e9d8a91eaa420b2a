-------------------------- MODULE Animation_proofs --------------------------
(***************************************************************************)
(* Proofs about Animation, for any files, tasks, range, window and plans.  *)
(*                                                                         *)
(* Base says where tasks can be and is inductive by itself.  Played is     *)
(* about what they do together: a single chain of tasks shows the frames,  *)
(* so that a gap a task has measured is not made larger behind its back,   *)
(* and the frames the client has yet to confirm are known.                 *)
(***************************************************************************)
EXTENDS Animation, FiniteSetTheorems, TLAPS

(***************************************************************************)
(* The operators.                                                          *)
(***************************************************************************)

\* A name can be found for a task as long as one is free.
LEMMA NewTaskIsFree == Free # {} => NewTask \in Tasks /\ stage[NewTask] = "free"
  BY DEF NewTask, Free

\* Where an animation is: what a client's message does not change.
SamePlace(a, b) ==
    /\ b.file = a.file /\ b.going_forward = a.going_forward
    /\ b.next_frame = a.next_frame /\ b.current_frame = a.current_frame

LEMMA Cancelled ==
    ASSUME NEW a \in Objects
    PROVE  LET b == [a EXCEPT !.cancelled = TRUE] IN
           /\ b \in Objects /\ SamePlace(a, b) /\ b.cancelled
           /\ b.waiting_flow_event = a.waiting_flow_event /\ b.last_flow_frame = a.last_flow_frame
  BY DEF Objects, SamePlace

LEMMA Stopped ==
    ASSUME NEW a \in Objects
    PROVE  LET b == [a EXCEPT !.stop_called = TRUE] IN
           /\ b \in Objects /\ SamePlace(a, b)
           /\ b.cancelled = a.cancelled /\ b.file_open = a.file_open
           /\ b.waiting_flow_event = a.waiting_flow_event /\ b.last_flow_frame = a.last_flow_frame
  BY DEF Objects, SamePlace

LEMMA Closed ==
    ASSUME NEW a \in Objects
    PROVE  LET b == [a EXCEPT !.file_open = FALSE, !.cancelled = TRUE] IN
           /\ b \in Objects /\ SamePlace(a, b) /\ b.cancelled
           /\ b.waiting_flow_event = a.waiting_flow_event /\ b.last_flow_frame = a.last_flow_frame
  BY DEF Objects, SamePlace

LEMMA Confirmed ==
    ASSUME NEW a \in Objects, NEW c \in Channels
    PROVE  LET b == [a EXCEPT !.last_flow_frame = c] IN
           /\ b \in Objects /\ SamePlace(a, b)
           /\ b.cancelled = a.cancelled /\ b.file_open = a.file_open
           /\ b.waiting_flow_event = a.waiting_flow_event /\ b.last_flow_frame = c
  BY DEF Objects, SamePlace

LEMMA Resumed ==
    ASSUME NEW a \in Objects
    PROVE  LET b == [a EXCEPT !.waiting_flow_event = FALSE] IN
           /\ b \in Objects /\ SamePlace(a, b)
           /\ b.cancelled = a.cancelled /\ b.file_open = a.file_open
           /\ ~b.waiting_flow_event /\ b.last_flow_frame = a.last_flow_frame
  BY DEF Objects, SamePlace

LEMMA ParkedObject ==
    ASSUME NEW a \in Objects
    PROVE  LET b == [a EXCEPT !.waiting_flow_event = TRUE] IN
           /\ b \in Objects /\ SamePlace(a, b)
           /\ b.cancelled = a.cancelled /\ b.file_open = a.file_open
           /\ b.waiting_flow_event /\ b.last_flow_frame = a.last_flow_frame
  BY DEF Objects, SamePlace

LEMMA Shown ==
    ASSUME NEW a \in Objects
    PROVE  LET b == [a EXCEPT !.current_frame = a.next_frame] IN
           /\ b \in Objects /\ b.file = a.file /\ b.going_forward = a.going_forward
           /\ b.next_frame = a.next_frame /\ b.current_frame = a.next_frame
           /\ b.cancelled = a.cancelled /\ b.file_open = a.file_open
           /\ b.waiting_flow_event = a.waiting_flow_event /\ b.last_flow_frame = a.last_flow_frame
  BY DEF Objects, SamePlace

LEMMA PlanOf ==
    ASSUME TypeOK
    PROVE  mode \in Modes /\ start \in Channels /\ delta \in Int \ {0} /\ Step \in Nat \ {0}
  BY PlansAssumption DEF TypeOK, Step

LEMMA Built ==
    ASSUME TypeOK, NEW f \in Files
    PROVE  LET b == NewObject(f) IN
           /\ b \in Objects /\ b.file = f /\ b.going_forward = (delta > 0)
           /\ ~b.cancelled /\ b.file_open /\ ~b.waiting_flow_event
           /\ b.next_frame = start /\ b.current_frame = start /\ b.last_flow_frame = start
  BY PlanOf DEF Objects, NewObject

\* How far a channel is along the direction of a delta.
Along(e, c) == IF e > 0 THEN c ELSE -c

\* Unless the animation has turned round, its direction is that of the delta.
AsAsked(a) == a.going_forward = (delta > 0)

\* The next frame stays, is a step along the direction, or wraps.
LEMMA Advanced ==
    ASSUME TypeOK, NEW a \in Objects
    PROVE  LET b == Advance(a) IN
           /\ b \in Objects /\ b.file = a.file /\ b.current_frame = a.current_frame
           /\ b.cancelled = a.cancelled /\ b.file_open = a.file_open
           /\ b.waiting_flow_event = a.waiting_flow_event /\ b.last_flow_frame = a.last_flow_frame
           /\ mode # "reverse" => b.going_forward = a.going_forward
           /\ mode = "reverse" \/ AsAsked(a) =>
                b.next_frame = a.next_frame \/ Follows(mode, delta, a.next_frame, b.next_frame)
           /\ mode = "once" /\ AsAsked(a) =>
                /\ Along(delta, a.next_frame) <= Along(delta, b.next_frame)
                /\ Along(delta, b.next_frame) <= Along(delta, a.next_frame) + Step
<1> DEFINE n == a.next_frame
           f == a.going_forward
<1>1. /\ n \in Channels /\ f \in BOOLEAN /\ Last \in Nat \ {0}
      /\ mode \in {"once", "loop", "reverse"} /\ delta \in Int \ {0}
  BY PlanOf, NumbersAssumption DEF Objects, Modes
<1>2. CASE AtEnd(a) /\ mode = "reverse"
  BY <1>1, <1>2 DEF Advance, Objects
<1>3. CASE AtEnd(a) /\ mode = "loop"
  BY <1>1, <1>3 DEF Advance, Objects, AtEnd, AsAsked, Follows, Channels, Step
<1>4. CASE AtEnd(a) /\ mode \notin {"loop", "reverse"}
  <2>1. Advance(a) = a
    BY <1>4 DEF Advance
  <2> QED BY <1>1, <2>1 DEF Channels, Along, Step
<1>5. CASE ~AtEnd(a)
  <2> DEFINE c == IF f THEN n + Step ELSE n - Step
  <2>1. Advance(a) = [a EXCEPT !.next_frame = c]
    BY <1>5 DEF Advance
  <2>2. c \in Channels
    BY <1>1, <1>5 DEF AtEnd, Channels, Step
  <2>3. mode = "reverse" \/ AsAsked(a) => Follows(mode, delta, n, c)
    BY <1>1 DEF AsAsked, Follows, Step, Channels
  <2>4. AsAsked(a) => Along(delta, n) <= Along(delta, c) /\ Along(delta, c) <= Along(delta, n) + Step
    <3> SUFFICES ASSUME AsAsked(a)
                 PROVE  Along(delta, n) <= Along(delta, c) /\ Along(delta, c) <= Along(delta, n) + Step
      OBVIOUS
    <3>1. n \in Int /\ delta \in Int /\ delta # 0
      BY <1>1 DEF Channels
    <3>2. c = n + delta
      <4>1. CASE delta > 0
        <5>1. f
          BY <4>1 DEF AsAsked
        <5> QED BY <3>1, <4>1, <5>1 DEF Step
      <4>2. CASE ~(delta > 0)
        <5>1. ~f
          BY <4>2 DEF AsAsked
        <5>2. delta < 0
          BY <3>1, <4>2
        <5> QED BY <3>1, <5>1, <5>2 DEF Step
      <4> QED BY <4>1, <4>2
    <3>3. CASE delta > 0
      BY <3>1, <3>2, <3>3 DEF Along, Step
    <3>4. CASE ~(delta > 0)
      BY <3>1, <3>2, <3>4 DEF Along, Step
    <3> HIDE DEF n, c
    <3> QED BY <3>3, <3>4
  <2> HIDE DEF c
  <2> QED BY <2>1, <2>2, <2>3, <2>4 DEF Objects
<1> QED BY <1>2, <1>3, <1>4, <1>5

-----------------------------------------------------------------------------
(***************************************************************************)
(* Types, and where tasks are.  A queued task is in the queue once, so     *)
(* that it can be taken once; only a StartAnimationTask builds, only an    *)
(* AnimationTask plays, and never without an object.                       *)
(***************************************************************************)

Typed ==
    /\ TypeOK
    /\ queue \in Seq(Tasks)
    /\ unacked \in Seq((1..MaxStarts) \X Channels)

QueuedOnce ==
    /\ \A i \in DOMAIN queue : stage[queue[i]] = "queued"
    /\ \A i, j \in DOMAIN queue : queue[i] = queue[j] => i = j

Places ==
    \A t \in Tasks :
        /\ kind[t] = "start" => stage[t] \in {"queued", "begin", "build"}
        /\ stage[t] = "build" => kind[t] = "start"
        /\ stage[t] \in {"sleep", "gap", "park"} => HasAnim

\* Objects are numbered by the requests they were built for.
StartTasks == {t \in Tasks : kind[t] = "start"}
Numbered ==
    /\ anim_id + Cardinality(StartTasks) <= starts
    /\ HasAnim <=> anim_id > 0
    /\ \A i \in DOMAIN unacked : unacked[i][1] <= anim_id

Base == Typed /\ QueuedOnce /\ Places /\ Numbered

LEMMA QueueAppended ==
    ASSUME Typed, QueuedOnce, NEW t \in Tasks, stage[t] # "queued", stage'[t] = "queued",
           queue' = Append(queue, t),
           \A u \in Tasks : u # t /\ stage[u] = "queued" => stage'[u] = "queued"
    PROVE  queue' \in Seq(Tasks) /\ QueuedOnce'
<1>1. queue \in Seq(Tasks)
  BY DEF Typed
<1>2. queue' \in Seq(Tasks) /\ Len(queue') = Len(queue) + 1
  BY <1>1
<1>3. \A i \in DOMAIN queue' : queue'[i] = IF i = Len(queue) + 1 THEN t ELSE queue[i]
  BY <1>1
<1>4. \A i \in DOMAIN queue : queue[i] \in Tasks /\ queue[i] # t /\ stage'[queue[i]] = "queued"
  BY <1>1 DEF QueuedOnce
<1>5. \A i \in DOMAIN queue' : i # Len(queue) + 1 => i \in DOMAIN queue
  BY <1>1, <1>2
<1>6. \A i \in DOMAIN queue' : stage'[queue'[i]] = "queued"
  BY <1>3, <1>4, <1>5
<1>7. \A i, j \in DOMAIN queue' : queue'[i] = queue'[j] => i = j
  BY <1>3, <1>4, <1>5 DEF QueuedOnce
<1> QED BY <1>2, <1>6, <1>7 DEF QueuedOnce

LEMMA QueueKept ==
    ASSUME Typed, QueuedOnce, queue' = queue,
           \A u \in Tasks : stage[u] = "queued" => stage'[u] = "queued"
    PROVE  queue' \in Seq(Tasks) /\ QueuedOnce'
<1>1. queue \in Seq(Tasks)
  BY DEF Typed
<1>2. \A i \in DOMAIN queue : queue[i] \in Tasks
  BY <1>1
<1> QED BY <1>1, <1>2 DEF QueuedOnce

LEMMA QueueTaken ==
    ASSUME Typed, QueuedOnce, queue # <<>>, queue' = Tail(queue),
           stage' = [stage EXCEPT ![Head(queue)] = "begin"]
    PROVE  /\ queue' \in Seq(Tasks) /\ QueuedOnce'
           /\ Head(queue) \in Tasks /\ stage[Head(queue)] = "queued"
<1>1. queue \in Seq(Tasks) /\ queue # <<>> /\ stage \in [Tasks -> {"free", "queued", "begin",
        "build", "sleep", "gap", "park", "finish"}]
  BY DEF Typed, TypeOK
<1>2. Head(queue) = queue[1] /\ 1 \in DOMAIN queue
  BY <1>1
<1>3. Head(queue) \in Tasks /\ stage[Head(queue)] = "queued"
  BY <1>1, <1>2 DEF QueuedOnce
<1>4. queue' \in Seq(Tasks) /\ Len(queue') = Len(queue) - 1
  BY <1>1
<1>5. \A i \in DOMAIN queue' : i + 1 \in DOMAIN queue /\ queue'[i] = queue[i + 1] /\ i + 1 # 1
  BY <1>1, <1>4
<1>6. \A i \in DOMAIN queue' : queue'[i] \in Tasks /\ queue'[i] # Head(queue)
  BY <1>1, <1>2, <1>4, <1>5 DEF QueuedOnce
<1>7. \A i \in DOMAIN queue' : stage'[queue'[i]] = "queued"
  BY <1>1, <1>5, <1>6 DEF QueuedOnce
<1>8. \A i, j \in DOMAIN queue' : queue'[i] = queue'[j] => i = j
  <2> SUFFICES ASSUME NEW i \in DOMAIN queue', NEW j \in DOMAIN queue', queue'[i] = queue'[j]
               PROVE  i = j
    OBVIOUS
  <2>1. i + 1 = j + 1
    BY <1>5 DEF QueuedOnce
  <2> QED BY <1>4, <2>1
<1> QED BY <1>3, <1>4, <1>7, <1>8 DEF QueuedOnce

LEMMA StartTasksFinite == IsFiniteSet(StartTasks) /\ Cardinality(StartTasks) \in Nat
<1>1. IsFiniteSet(Tasks)
  BY NumbersAssumption, FS_Interval DEF Tasks
<1>2. StartTasks \in SUBSET Tasks
  BY DEF StartTasks
<1> QED BY <1>1, <1>2, FS_Subset, FS_CardinalityType

\* A step after which the same tasks are StartAnimationTasks, the object has
\* the same number and no frame was sent.
LEMMA NumberedKept ==
    ASSUME Numbered, StartTasks' = StartTasks, UNCHANGED <<anim_id, starts>>,
           (HasAnim)' <=> HasAnim,
           \A i \in DOMAIN unacked' : unacked'[i][1] <= anim_id
    PROVE  Numbered'
  BY DEF Numbered

\* What is needed of a step to keep the types.
LEMMA TypedFrom ==
    ASSUME Typed, UNCHANGED <<mode, start, delta>>,
           open_files' \subseteq Files, closing' \subseteq open_files', z' \in [Files -> Channels],
           anim' \in Objects \cup {NoAnimation}, anim_id' \in 0..MaxStarts, active' \in BOOLEAN,
           queue' \in Seq(Tasks), kind' \in [Tasks -> {"start", "play"}],
           stage' \in [Tasks -> {"free", "queued", "begin", "build", "sleep", "gap",
                                 "park", "finish"}],
           request' \in [Tasks -> Files], starts' \in 0..MaxStarts,
           unacked' \in Seq((1..MaxStarts) \X Channels),
           forked' \in BOOLEAN, orphaned' \in BOOLEAN, missed' \in BOOLEAN, crashed' \in BOOLEAN
    PROVE  Typed'
<1>1. \A i \in DOMAIN queue' : queue'[i] \in Tasks
  OBVIOUS
<1>2. \A i \in DOMAIN unacked' : unacked'[i] \in (1..MaxStarts) \X Channels
  OBVIOUS
<1>3. TypeOK'
  BY <1>1, <1>2 DEF Typed, TypeOK
<1> QED BY <1>3 DEF Typed

LEMMA BaseInit == Init => Base
<1> SUFFICES ASSUME Init PROVE Base
  OBVIOUS
<1>1. Last \in Nat /\ MaxStarts \in Nat /\ NoRequest \in Files
  BY NumbersAssumption, FilesAssumption DEF NoRequest
<1>2. StartTasks = {}
  BY DEF Init, StartTasks
<1>3. Cardinality(StartTasks) = 0
  BY <1>2, FS_EmptySet
<1>4. TypeOK
  <2>1. /\ stage \in [Tasks -> {"free", "queued", "begin", "build", "sleep", "gap",
                                "park", "finish"}]
        /\ kind \in [Tasks -> {"start", "play"}] /\ request \in [Tasks -> Files]
    BY <1>1 DEF Init
  <2>2. active \in BOOLEAN /\ {forked, orphaned, missed, crashed} \subseteq BOOLEAN
    BY DEF Init
  <2>3. anim_id \in 0..MaxStarts /\ starts \in 0..MaxStarts
    BY <1>1 DEF Init
  <2>4. DOMAIN queue = {} /\ DOMAIN unacked = {}
    BY DEF Init
  <2>5. [mode |-> mode, start |-> start, delta |-> delta] \in Plans
    <3>1. PICK p \in Plans : mode = p.mode /\ start = p.start /\ delta = p.delta
      BY DEF Init
    <3>2. p = [mode |-> mode, start |-> start, delta |-> delta]
      BY <3>1, PlansAssumption
    <3> QED BY <3>1, <3>2
  <2>6. z \in [Files -> Channels]
    BY <1>1 DEF Init, Channels
  <2> QED BY <2>1, <2>2, <2>3, <2>4, <2>5, <2>6 DEF Init, TypeOK
<1>5. queue = <<>> /\ unacked = <<>> /\ anim = NoAnimation /\ anim_id = 0 /\ starts = 0
  BY DEF Init
<1>6. Typed /\ QueuedOnce
  BY <1>4, <1>5 DEF Typed, QueuedOnce
<1>7. Places
  BY DEF Init, Places
<1>8. Numbered
  BY <1>3, <1>5 DEF Numbered, HasAnim
<1> QED BY <1>6, <1>7, <1>8 DEF Base

\* Messages that only change the object, or the files.
LEMMA BaseMessages ==
    ASSUME Base, UNCHANGED <<mode, start, delta>>, NEW f \in Files,
           StopAnimation(f) \/ CloseFile(f) \/ DeleteFrame(f) \/ OpenFile(f)
    PROVE  Base'
<1>1. /\ UNCHANGED <<anim_id, active, queue, kind, stage, request, starts, unacked,
                     forked, missed, crashed>>
      /\ open_files' \subseteq Files /\ closing' \subseteq open_files'
      /\ z' \in [Files -> Channels] /\ orphaned' \in BOOLEAN
  <2>1. /\ open_files \subseteq Files /\ closing \subseteq open_files
        /\ z \in [Files -> Channels] /\ 0 \in Channels /\ orphaned \in BOOLEAN
    BY NumbersAssumption DEF Base, Typed, TypeOK, Channels
  <2>2. UNCHANGED <<anim_id, active, queue, kind, stage, request, starts, unacked,
                    forked, missed, crashed>>
    BY DEF StopAnimation, CloseFile, DeleteFrame, OpenFile, history
  <2>3. orphaned' \in BOOLEAN
    BY <2>1 DEF StopAnimation, CloseFile, DeleteFrame, OpenFile, history
  <2> QED BY <2>1, <2>2, <2>3 DEF StopAnimation, CloseFile, DeleteFrame, OpenFile, files
<1>2. anim' \in Objects \cup {NoAnimation} /\ ((HasAnim)' <=> HasAnim)
  <2>1. CASE ~HasAnim
    BY <2>1 DEF HasAnim, StopAnimation, CloseFile, DeleteFrame, OpenFile
  <2>2. CASE HasAnim
    <3>1. anim \in Objects
      BY <2>2 DEF Base, Typed, TypeOK, HasAnim
    <3>2. anim' \in Objects
      BY <2>2, <3>1, Stopped, Closed DEF StopAnimation, CloseFile, DeleteFrame, OpenFile
    <3> QED BY <2>2, <3>2, NoAnimationAssumption DEF HasAnim
  <2> QED BY <2>1, <2>2
<1>3. Typed' /\ QueuedOnce'
  BY <1>1, <1>2, TypedFrom, QueueKept DEF Base, Typed, TypeOK
<1>4. Places'
  BY <1>1, <1>2 DEF Base, Places
<1>5. Numbered'
  BY <1>1, <1>2 DEF Base, Numbered, StartTasks
<1> QED BY <1>3, <1>4, <1>5 DEF Base

LEMMA BaseStart ==
    ASSUME Base, UNCHANGED <<mode, start, delta>>, NEW f \in Files, StartAnimation(f)
    PROVE  Base'
<1> DEFINE n == NewTask
<1>1. n \in Tasks /\ stage[n] = "free"
  BY NewTaskIsFree DEF StartAnimation
<1> HIDE DEF n
<1>2. /\ starts < MaxStarts /\ starts' = starts + 1
      /\ anim' = IF HasAnim THEN [anim EXCEPT !.cancelled = TRUE] ELSE anim
      /\ kind' = [kind EXCEPT ![n] = "start"] /\ queue' = Append(queue, n)
      /\ stage' = [stage EXCEPT ![n] = "queued"] /\ request' = [request EXCEPT ![n] = f]
      /\ UNCHANGED <<open_files, closing, z, anim_id, active, unacked, forked, orphaned, missed, crashed>>
  BY DEF StartAnimation, QueueTask, history, files, n
<1>3. Typed /\ TypeOK /\ QueuedOnce /\ Places /\ Numbered
  BY DEF Base, Typed
<1>4. /\ stage'[n] = "queued" /\ kind'[n] = "start"
      /\ \A u \in Tasks : u # n => stage'[u] = stage[u] /\ kind'[u] = kind[u]
  BY <1>1, <1>2, <1>3 DEF TypeOK
<1>5. anim' \in Objects \cup {NoAnimation} /\ ((HasAnim)' <=> HasAnim)
  <2>1. CASE ~HasAnim
    BY <1>2, <2>1 DEF HasAnim
  <2>2. CASE HasAnim
    <3>1. anim \in Objects
      BY <1>3, <2>2 DEF TypeOK, HasAnim
    <3>2. anim' \in Objects
      BY <1>2, <2>2, <3>1, Cancelled
    <3> QED BY <2>2, <3>2, NoAnimationAssumption DEF HasAnim
  <2> QED BY <2>1, <2>2
<1>6. queue' \in Seq(Tasks) /\ QueuedOnce'
  BY <1>1, <1>2, <1>3, <1>4, QueueAppended
<1>7. Typed'
  <2>1. /\ kind' \in [Tasks -> {"start", "play"}] /\ request' \in [Tasks -> Files]
        /\ stage' \in [Tasks -> {"free", "queued", "begin", "build", "sleep", "gap",
                                 "park", "finish"}]
    BY <1>1, <1>2, <1>3 DEF TypeOK
  <2>2. starts' \in 0..MaxStarts
    BY <1>2, <1>3, NumbersAssumption DEF TypeOK
  <2> QED BY <1>2, <1>3, <1>5, <1>6, <2>1, <2>2, TypedFrom DEF Typed, TypeOK
<1>8. Places'
  BY <1>3, <1>4, <1>5 DEF Places
<1>9. Numbered'
  <2>1. StartTasks' = StartTasks \cup {n} /\ n \notin StartTasks
    BY <1>1, <1>3, <1>4 DEF StartTasks, Places
  <2>2. Cardinality(StartTasks') = Cardinality(StartTasks) + 1
    BY <2>1, StartTasksFinite, FS_AddElement
  <2>3. starts \in Int /\ anim_id \in Int /\ Cardinality(StartTasks) \in Nat
    BY <1>3, StartTasksFinite DEF TypeOK
  <2> QED BY <1>2, <1>3, <1>5, <2>2, <2>3 DEF Numbered
<1> QED BY <1>6, <1>7, <1>8, <1>9 DEF Base

\* A frame is acknowledged; a task is queued if the animation was parked.
LEMMA BaseFlow ==
    ASSUME Base, UNCHANGED <<mode, start, delta>>, HandleFlowControl
    PROVE  Base'
<1> DEFINE n == NewTask
           a == [anim EXCEPT !.last_flow_frame = Head(unacked)[2]]
<1>1. n \in Tasks /\ stage[n] = "free"
  BY NewTaskIsFree DEF HandleFlowControl
<1> HIDE DEF n
<1>2. /\ unacked # <<>> /\ unacked' = Tail(unacked)
      /\ \/ /\ anim' = [a EXCEPT !.waiting_flow_event = FALSE]
            /\ kind' = [kind EXCEPT ![n] = "play"] /\ queue' = Append(queue, n)
            /\ stage' = [stage EXCEPT ![n] = "queued"]
         \/ anim' = a /\ UNCHANGED <<queue, kind, stage>>
      /\ missed' \in BOOLEAN
      /\ UNCHANGED <<open_files, closing, z, anim_id, active, request, starts, forked, orphaned, crashed>>
  BY DEF HandleFlowControl, QueueTask, n, Base, Typed, TypeOK, files
<1>3. Typed /\ TypeOK /\ QueuedOnce /\ Places /\ Numbered
  BY DEF Base, Typed
<1>4. /\ unacked' \in Seq((1..MaxStarts) \X Channels) /\ Head(unacked)[2] \in Channels
      /\ \A i \in DOMAIN unacked' : i + 1 \in DOMAIN unacked /\ unacked'[i] = unacked[i + 1]
      /\ 1 \in DOMAIN unacked
  <2>1. unacked \in Seq((1..MaxStarts) \X Channels) /\ unacked # <<>>
    BY <1>2, <1>3 DEF Typed
  <2>2. Head(unacked) \in (1..MaxStarts) \X Channels
    BY <2>1
  <2> QED BY <1>2, <2>1, <2>2
<1>5. HasAnim
  <2>1. unacked[1][1] \in 1..MaxStarts /\ unacked[1][1] <= anim_id /\ anim_id \in Int
    BY <1>3, <1>4 DEF TypeOK, Numbered
  <2> QED BY <1>3, <2>1, NumbersAssumption DEF Numbered
<1>6. anim' \in Objects /\ (HasAnim)'
  <2>1. anim \in Objects
    BY <1>3, <1>5 DEF TypeOK, HasAnim
  <2>2. a \in Objects
    BY <1>4, <2>1, Confirmed
  <2> HIDE DEF a
  <2>3. anim' \in Objects
    BY <1>2, <2>2, Resumed
  <2> QED BY <2>3, NoAnimationAssumption DEF HasAnim
<1> HIDE DEF a
<1>7. /\ \A u \in Tasks : u # n => stage'[u] = stage[u] /\ kind'[u] = kind[u]
      /\ stage'[n] # stage[n] => stage'[n] = "queued" /\ kind'[n] = "play"
      /\ kind'[n] \in {kind[n], "play"} /\ stage'[n] \in {"free", "queued"}
      /\ kind' \in [Tasks -> {"start", "play"}]
      /\ stage' \in [Tasks -> {"free", "queued", "begin", "build", "sleep", "gap",
                               "park", "finish"}]
  BY <1>1, <1>2, <1>3 DEF TypeOK
<1>8. queue' \in Seq(Tasks) /\ QueuedOnce'
  <2>1. CASE queue' = queue
    BY <1>1, <1>3, <1>7, <2>1, QueueKept
  <2>2. CASE queue' # queue
    <3>1. queue' = Append(queue, n) /\ stage'[n] = "queued"
      BY <1>1, <1>2, <1>3, <2>2 DEF TypeOK
    <3> QED BY <1>1, <1>3, <1>7, <3>1, QueueAppended
  <2> QED BY <2>1, <2>2
<1>9. Typed'
  BY <1>2, <1>3, <1>4, <1>6, <1>7, <1>8, TypedFrom DEF Typed, TypeOK
<1>10. kind[n] = "play"
  BY <1>1, <1>3 DEF Places, TypeOK
<1>11. Places'
  BY <1>1, <1>3, <1>5, <1>6, <1>7, <1>10 DEF Places
<1>12. Numbered'
  <2>1. StartTasks' = StartTasks
    BY <1>7, <1>10 DEF StartTasks
  <2> QED BY <1>2, <1>3, <1>4, <1>5, <1>6, <2>1 DEF Numbered
<1> QED BY <1>8, <1>9, <1>11, <1>12 DEF Base

LEMMA BaseDequeue ==
    ASSUME Base, UNCHANGED <<mode, start, delta>>, Dequeue
    PROVE  Base'
<1> DEFINE h == Head(queue)
<1>1. /\ queue # <<>> /\ queue' = Tail(queue) /\ stage' = [stage EXCEPT ![h] = "begin"]
      /\ UNCHANGED <<open_files, closing, z, anim, anim_id, active, kind, request, starts,
                     unacked, forked, orphaned, missed, crashed>>
  BY DEF Dequeue, history, files
<1>2. Typed /\ TypeOK /\ QueuedOnce /\ Places /\ Numbered
  BY DEF Base, Typed
<1>3. queue' \in Seq(Tasks) /\ QueuedOnce' /\ h \in Tasks /\ stage[h] = "queued"
  BY <1>1, <1>2, QueueTaken
<1> HIDE DEF h
<1>4. /\ stage'[h] = "begin" /\ \A u \in Tasks : u # h => stage'[u] = stage[u]
      /\ stage' \in [Tasks -> {"free", "queued", "begin", "build", "sleep", "gap",
                               "park", "finish"}]
  BY <1>1, <1>2, <1>3 DEF TypeOK
<1>5. Typed'
  BY <1>1, <1>2, <1>3, <1>4, TypedFrom DEF Typed, TypeOK
<1>6. Places'
  BY <1>1, <1>2, <1>3, <1>4 DEF Places, HasAnim
<1>7. Numbered'
  BY <1>1, <1>2 DEF Numbered, StartTasks, HasAnim
<1> QED BY <1>3, <1>5, <1>6, <1>7 DEF Base

\* Steps of a task that neither touch the queue nor start or send anything.
LEMMA BaseStage ==
    ASSUME Base, UNCHANGED <<mode, start, delta>>, NEW t \in Tasks, stage[t] # "queued",
           NEW s \in {"free", "sleep", "gap", "park", "finish"}, kind[t] # "start",
           stage' = [stage EXCEPT ![t] = s],
           s \in {"sleep", "gap", "park"} => HasAnim,
           (HasAnim)' <=> HasAnim, anim' \in Objects \cup {NoAnimation},
           UNCHANGED <<open_files, closing, anim_id, queue, kind, request, starts>>,
           z' \in [Files -> Channels], active' \in BOOLEAN,
           forked' \in BOOLEAN, orphaned' \in BOOLEAN, missed' \in BOOLEAN, crashed' \in BOOLEAN,
           unacked' \in Seq((1..MaxStarts) \X Channels),
           \A i \in DOMAIN unacked' : unacked'[i][1] <= anim_id
    PROVE  Base'
<1>2. Typed /\ TypeOK /\ QueuedOnce /\ Places /\ Numbered
  BY DEF Base, Typed
<1>3. /\ stage'[t] = s /\ \A u \in Tasks : u # t => stage'[u] = stage[u]
      /\ stage' \in [Tasks -> {"free", "queued", "begin", "build", "sleep", "gap",
                               "park", "finish"}]
  BY <1>2 DEF TypeOK
<1>4. queue' \in Seq(Tasks) /\ QueuedOnce'
  BY <1>2, <1>3, QueueKept
<1>5. Typed'
  BY <1>2, <1>3, <1>4, TypedFrom DEF Typed, TypeOK
<1>6. Places'
  BY <1>2, <1>3 DEF Places
<1>7. Numbered'
  BY <1>2 DEF Numbered, StartTasks
<1> QED BY <1>4, <1>5, <1>6, <1>7 DEF Base

LEMMA BaseTest ==
    ASSUME Base, UNCHANGED <<mode, start, delta>>, NEW t \in Tasks, TestActive(t)
    PROVE  Base'
<1>1. /\ kind[t] = "start" /\ stage[t] = "begin"
      /\ \/ stage' = [stage EXCEPT ![t] = "queued"] /\ queue' = Append(queue, t)
         \/ stage' = [stage EXCEPT ![t] = "build"] /\ queue' = queue
      /\ UNCHANGED <<open_files, closing, z, anim, anim_id, active, kind, request, starts,
                     unacked, forked, orphaned, missed, crashed>>
  BY DEF TestActive, history, files
<1>2. Typed /\ TypeOK /\ QueuedOnce /\ Places /\ Numbered
  BY DEF Base, Typed
<1>3. /\ stage'[t] \in {"queued", "build"} /\ \A u \in Tasks : u # t => stage'[u] = stage[u]
      /\ stage' \in [Tasks -> {"free", "queued", "begin", "build", "sleep", "gap",
                               "park", "finish"}]
      /\ \/ stage'[t] = "queued" /\ queue' = Append(queue, t)
         \/ stage'[t] = "build" /\ queue' = queue
  BY <1>1, <1>2 DEF TypeOK
<1>4. queue' \in Seq(Tasks) /\ QueuedOnce'
  BY <1>1, <1>2, <1>3, QueueAppended, QueueKept
<1>5. Typed'
  BY <1>1, <1>2, <1>3, <1>4, TypedFrom DEF Typed, TypeOK
<1>6. Places'
  BY <1>1, <1>2, <1>3 DEF Places, HasAnim
<1>7. Numbered'
  BY <1>1, <1>2 DEF Numbered, StartTasks, HasAnim
<1> QED BY <1>4, <1>5, <1>6, <1>7 DEF Base

\* An object is built under the number of one StartAnimationTask less.
LEMMA BaseBuild ==
    ASSUME Base, UNCHANGED <<mode, start, delta>>, NEW t \in Tasks, Build(t)
    PROVE  Base'
<1>1. /\ stage[t] = "build" /\ active' = TRUE
      /\ \/ anim' = NewObject(request[t]) /\ anim_id' = anim_id + 1
         \/ UNCHANGED <<anim, anim_id>>
      /\ kind' = [kind EXCEPT ![t] = "play"] /\ stage' = [stage EXCEPT ![t] = "queued"]
      /\ queue' = Append(queue, t) /\ request' = [request EXCEPT ![t] = NoRequest]
      /\ forked' \in BOOLEAN /\ orphaned' \in BOOLEAN
      /\ UNCHANGED <<open_files, closing, z, starts, unacked, missed, crashed>>
  BY DEF Build, Base, Typed, TypeOK, files
<1>2. Typed /\ TypeOK /\ QueuedOnce /\ Places /\ Numbered
  BY DEF Base, Typed
<1>3. /\ stage'[t] = "queued" /\ kind'[t] = "play"
      /\ \A u \in Tasks : u # t => stage'[u] = stage[u] /\ kind'[u] = kind[u]
      /\ stage' \in [Tasks -> {"free", "queued", "begin", "build", "sleep", "gap",
                               "park", "finish"}]
      /\ kind' \in [Tasks -> {"start", "play"}]
  BY <1>1, <1>2 DEF TypeOK
<1>4. request[t] \in Files /\ request' \in [Tasks -> Files]
  BY <1>1, <1>2, FilesAssumption DEF TypeOK, NoRequest
<1>5. queue' \in Seq(Tasks) /\ QueuedOnce'
  BY <1>1, <1>2, <1>3, QueueAppended
<1>6. kind[t] = "start"
  BY <1>1, <1>2 DEF Places
<1>7. Numbered' /\ anim_id' \in 0..MaxStarts
  <2>1. StartTasks' = StartTasks \ {t} /\ t \in StartTasks
    BY <1>3, <1>6 DEF StartTasks
  <2>2. Cardinality(StartTasks') = Cardinality(StartTasks) - 1
    BY <2>1, StartTasksFinite, FS_RemoveElement
  <2>3. /\ starts \in 0..MaxStarts /\ anim_id \in Nat
        /\ Cardinality(StartTasks) \in Nat /\ Cardinality(StartTasks) # 0
    BY <1>2, <2>1, StartTasksFinite, FS_EmptySet DEF TypeOK
  <2>4. \A i \in DOMAIN unacked : unacked[i][1] \in Int
    BY <1>2 DEF TypeOK
  <2>5. (HasAnim)' <=> anim_id' > 0
    <3>1. CASE anim' = NewObject(request[t]) /\ anim_id' = anim_id + 1
      BY <1>2, <1>4, <2>3, <3>1, Built, NoAnimationAssumption DEF HasAnim
    <3>2. CASE UNCHANGED <<anim, anim_id>>
      BY <1>2, <3>2 DEF Numbered, HasAnim
    <3> QED BY <1>1, <3>1, <3>2
  <2>6. anim_id' + Cardinality(StartTasks') <= starts /\ anim_id <= anim_id'
    BY <1>1, <1>2, <2>2, <2>3 DEF Numbered
  <2>7. anim_id' \in 0..MaxStarts
    BY <1>1, <1>2, <2>2, <2>3, NumbersAssumption DEF Numbered
  <2>8. \A i \in DOMAIN unacked' : unacked'[i][1] <= anim_id'
    BY <1>1, <1>2, <2>3, <2>4, <2>6, <2>7 DEF Numbered
  <2> QED BY <1>1, <2>5, <2>6, <2>7, <2>8 DEF Numbered
<1>8. anim' \in Objects \cup {NoAnimation}
  BY <1>1, <1>2, <1>4, Built DEF TypeOK
<1>9. Typed'
  BY <1>1, <1>2, <1>3, <1>4, <1>5, <1>7, <1>8, TypedFrom DEF Typed, TypeOK
<1>10. Places'
  <2>1. HasAnim => (HasAnim)'
    BY <1>1, <1>2, <1>4, Built, NoAnimationAssumption DEF HasAnim
  <2> QED BY <1>2, <1>3, <2>1 DEF Places
<1> QED BY <1>5, <1>7, <1>9, <1>10 DEF Base

\* What a frame that is shown does to the object and to the client's backlog.
LEMMA ShowEffect ==
    ASSUME Base, NEW t \in Tasks, ShowFrame(t)
    PROVE  LET shows == anim.file \in open_files /\ ~anim.cancelled
               sends == shows /\ z[anim.file] # anim.next_frame
               frame == <<anim_id, anim.next_frame>>
           IN
           /\ anim \in Objects /\ anim' \in Objects /\ frame \in (1..MaxStarts) \X Channels
           /\ stage[t] = "sleep"
           /\ stage' = [stage EXCEPT ![t] = "finish"] \/ stage' = [stage EXCEPT ![t] = "gap"]
           /\ unacked' \in {unacked, Append(unacked, frame)}
           /\ unacked' # unacked => sends
           /\ unacked' = unacked =>
                \/ UNCHANGED <<z, anim>>
                \/ shows /\ z[anim.file] = anim.next_frame
                \/ ~shows /\ z' = z
           /\ ~(UNCHANGED <<z, anim, unacked>>) =>
                /\ shows => z' = [z EXCEPT ![anim.file] = anim.next_frame]
                /\ ~shows => z' = z
                /\ anim'.current_frame = IF shows THEN anim.next_frame ELSE anim.current_frame
                /\ anim'.file = anim.file /\ anim'.cancelled = anim.cancelled
                /\ anim'.file_open = anim.file_open
                /\ anim'.waiting_flow_event = anim.waiting_flow_event
                /\ anim'.last_flow_frame = anim.last_flow_frame
                /\ mode # "reverse" => anim'.going_forward = anim.going_forward
                /\ mode = "reverse" \/ AsAsked(anim) =>
                     \/ anim'.next_frame = anim.next_frame
                     \/ Follows(mode, delta, anim.next_frame, anim'.next_frame)
                /\ mode = "once" /\ AsAsked(anim) =>
                     /\ Along(delta, anim.next_frame) <= Along(delta, anim'.next_frame)
                     /\ Along(delta, anim'.next_frame) <= Along(delta, anim.next_frame) + Step
           /\ UNCHANGED <<open_files, closing, anim_id, active, queue, kind, request, starts,
                          forked, orphaned, missed, crashed>>
<1> DEFINE shows == anim.file \in open_files /\ ~anim.cancelled
           sends == shows /\ z[anim.file] # anim.next_frame
           frame == <<anim_id, anim.next_frame>>
           shown == IF shows THEN [anim EXCEPT !.current_frame = anim.next_frame] ELSE anim
<1>1. /\ stage[t] = "sleep"
      /\ UNCHANGED <<open_files, closing, anim_id, active, queue, kind, request, starts,
                     forked, orphaned, missed, crashed>>
  BY DEF ShowFrame, history, files
<1>2. \/ stage' = [stage EXCEPT ![t] = "finish"] /\ UNCHANGED <<z, anim, unacked>>
      \/ /\ stage' = [stage EXCEPT ![t] = "finish"] \/ stage' = [stage EXCEPT ![t] = "gap"]
         /\ z' = IF shows THEN [z EXCEPT ![anim.file] = anim.next_frame] ELSE z
         /\ unacked' = IF sends THEN Append(unacked, frame) ELSE unacked
         /\ anim' = Advance(shown)
  BY DEF ShowFrame
<1>3. HasAnim /\ anim_id \in 1..MaxStarts
  BY <1>1, NumbersAssumption DEF Base, Places, Numbered, Typed, TypeOK
<1>4. anim \in Objects
  BY <1>3 DEF Base, Typed, TypeOK, HasAnim
<1>5. anim.next_frame \in Channels
  BY <1>4 DEF Objects
<1>6. /\ shown \in Objects /\ shown.file = anim.file /\ shown.going_forward = anim.going_forward
      /\ shown.next_frame = anim.next_frame /\ shown.cancelled = anim.cancelled
      /\ shown.file_open = anim.file_open /\ (AsAsked(shown) <=> AsAsked(anim))
      /\ shown.current_frame = IF shows THEN anim.next_frame ELSE anim.current_frame
      /\ shown.waiting_flow_event = anim.waiting_flow_event
      /\ shown.last_flow_frame = anim.last_flow_frame
  <2>1. CASE shows
    BY <1>4, <2>1, Shown DEF AsAsked
  <2>2. CASE ~shows
    BY <1>4, <2>2 DEF AsAsked
  <2> QED BY <2>1, <2>2
<1> HIDE DEF shown
<1>7. TypeOK /\ Advance(shown) \in Objects
  BY <1>6, Advanced DEF Base, Typed
<1>8. anim' \in Objects
  BY <1>2, <1>4, <1>7
<1>9. anim' = Advance(shown) =>
        /\ anim'.current_frame = shown.current_frame
        /\ anim'.file = shown.file /\ anim'.cancelled = shown.cancelled
        /\ anim'.file_open = shown.file_open
        /\ anim'.waiting_flow_event = shown.waiting_flow_event
        /\ anim'.last_flow_frame = shown.last_flow_frame
        /\ mode # "reverse" => anim'.going_forward = shown.going_forward
        /\ mode = "reverse" \/ AsAsked(shown) =>
             \/ anim'.next_frame = shown.next_frame
             \/ Follows(mode, delta, shown.next_frame, anim'.next_frame)
        /\ mode = "once" /\ AsAsked(shown) =>
             /\ Along(delta, shown.next_frame) <= Along(delta, anim'.next_frame)
             /\ Along(delta, anim'.next_frame) <= Along(delta, shown.next_frame) + Step
  <2>1. shown \in Objects /\ TypeOK
    BY <1>6, <1>7
  <2> QED BY <2>1, Advanced
<1>10. unacked' \in {unacked, Append(unacked, frame)} /\ (unacked' # unacked => sends)
  BY <1>2
<1>11. Append(unacked, frame) # unacked
  <2>1. unacked \in Seq((1..MaxStarts) \X Channels) /\ frame \in (1..MaxStarts) \X Channels
    BY <1>3, <1>5 DEF Base, Typed
  <2>2. Len(Append(unacked, frame)) = Len(unacked) + 1 /\ Len(unacked) \in Nat
    BY <2>1
  <2> QED BY <2>2
<1> QED BY <1>1, <1>2, <1>3, <1>4, <1>5, <1>6, <1>8, <1>9, <1>10, <1>11

LEMMA BasePlay ==
    ASSUME Base, UNCHANGED <<mode, start, delta>>, NEW t \in Tasks,
           BeginFrame(t) \/ ShowFrame(t) \/ Park(t) \/ Finish(t)
    PROVE  Base'
<1>1. Typed /\ TypeOK /\ Places /\ Numbered
  BY DEF Base, Typed
<1>2. CASE BeginFrame(t)
  <2> DEFINE s == IF ~HasAnim THEN "finish"
                  ELSE IF ~anim.file_open \/ anim.waiting_flow_event \/ anim.stop_called
                  THEN "finish" ELSE "sleep"
  <2>1. /\ kind[t] # "start" /\ stage[t] # "queued" /\ stage' = [stage EXCEPT ![t] = s]
        /\ UNCHANGED <<open_files, closing, z, anim, anim_id, active, queue, kind, request,
                       starts, unacked, forked, orphaned, missed>>
        /\ crashed' \in BOOLEAN
    BY <1>2 DEF BeginFrame, files
  <2>2. s \in {"free", "sleep", "gap", "park", "finish"}
        /\ (s \in {"sleep", "gap", "park"} => HasAnim)
    OBVIOUS
  <2> HIDE DEF s
  <2>3. (HasAnim)' <=> HasAnim
    BY <2>1 DEF HasAnim
  <2> QED BY <1>1, <2>1, <2>2, <2>3, BaseStage DEF Typed, TypeOK, Numbered
<1>3. CASE ShowFrame(t)
  <2> DEFINE frame == <<anim_id, anim.next_frame>>
  <2>1. /\ anim \in Objects /\ anim' \in Objects /\ frame \in (1..MaxStarts) \X Channels
        /\ stage[t] = "sleep"
        /\ stage' = [stage EXCEPT ![t] = "finish"] \/ stage' = [stage EXCEPT ![t] = "gap"]
        /\ unacked' \in {unacked, Append(unacked, frame)}
        /\ UNCHANGED <<open_files, closing, anim_id, active, queue, kind, request, starts,
                       forked, orphaned, missed, crashed>>
    BY <1>3, ShowEffect
  <2>2. z' = z \/ z' = [z EXCEPT ![anim.file] = anim.next_frame]
    BY <1>3 DEF ShowFrame
  <2>3. anim.next_frame \in Channels
    BY <2>1 DEF Objects
  <2>4. z' \in [Files -> Channels]
    BY <1>1, <2>2, <2>3 DEF TypeOK
  <2>5. unacked \in Seq((1..MaxStarts) \X Channels)
    BY <1>1 DEF Typed
  <2> HIDE DEF frame
  <2>6. unacked' \in Seq((1..MaxStarts) \X Channels)
    <3>1. frame \in (1..MaxStarts) \X Channels /\ unacked' \in {unacked, Append(unacked, frame)}
      BY <2>1
    <3>2. Append(unacked, frame) \in Seq((1..MaxStarts) \X Channels)
      BY <2>5, <3>1
    <3> QED BY <2>5, <3>1, <3>2
  <2>7. \A i \in DOMAIN unacked' : unacked'[i][1] <= anim_id
    <3>1. frame[1] <= anim_id
      BY <1>1 DEF frame, TypeOK
    <3>2. CASE unacked' = Append(unacked, frame)
      <4>1. \A i \in DOMAIN unacked' : unacked'[i] = frame
                \/ (i \in DOMAIN unacked /\ unacked'[i] = unacked[i])
        BY <2>5, <3>2
      <4> QED BY <1>1, <3>1, <4>1 DEF Numbered
    <3>3. CASE unacked' = unacked
      BY <1>1, <3>3 DEF Numbered
    <3> QED BY <2>1, <3>2, <3>3
  <2>8. HasAnim /\ (HasAnim)'
    BY <2>1, NoAnimationAssumption DEF HasAnim
  <2>9. kind[t] # "start"
    BY <1>1, <2>1 DEF Places
  <2>10. active' \in BOOLEAN /\ forked' \in BOOLEAN /\ orphaned' \in BOOLEAN /\ missed' \in BOOLEAN /\ crashed' \in BOOLEAN
    BY <1>1, <2>1 DEF TypeOK
  <2> QED BY <2>1, <2>4, <2>6, <2>7, <2>8, <2>9, <2>10, BaseStage
<1>4. CASE Park(t)
  <2>1. /\ stage[t] = "park" /\ anim' = [anim EXCEPT !.waiting_flow_event = TRUE]
        /\ stage' = [stage EXCEPT ![t] = "finish"]
        /\ UNCHANGED <<open_files, closing, z, anim_id, active, queue, kind, request, starts,
                       unacked, forked, orphaned, missed, crashed>>
    BY <1>4 DEF Park, history, files
  <2>2. kind[t] # "start" /\ HasAnim
    BY <1>1, <2>1 DEF Places
  <2>3. anim \in Objects
    BY <1>1, <2>2 DEF TypeOK, HasAnim
  <2>4. anim' \in Objects /\ (HasAnim)'
    BY <2>1, <2>3, ParkedObject, NoAnimationAssumption DEF HasAnim
  <2> QED BY <1>1, <2>1, <2>2, <2>4, BaseStage DEF Typed, TypeOK, Numbered
<1>5. CASE Finish(t)
  <2>1. /\ stage[t] = "finish" /\ active' = FALSE /\ stage' = [stage EXCEPT ![t] = "free"]
        /\ UNCHANGED <<open_files, closing, z, anim, anim_id, queue, kind, request, starts,
                       unacked, forked, orphaned, missed, crashed>>
    BY <1>5 DEF Finish, history, files
  <2>2. kind[t] # "start" /\ ((HasAnim)' <=> HasAnim)
    BY <1>1, <2>1 DEF Places, HasAnim
  <2> QED BY <1>1, <2>1, <2>2, BaseStage DEF Typed, TypeOK, Numbered
<1> QED BY <1>2, <1>3, <1>4, <1>5

LEMMA BaseCompare ==
    ASSUME Base, UNCHANGED <<mode, start, delta>>, NEW t \in Tasks, CompareGap(t)
    PROVE  Base'
<1>1. Typed /\ TypeOK /\ QueuedOnce /\ Places /\ Numbered
  BY DEF Base, Typed
<1>2. /\ stage[t] = "gap"
      /\ UNCHANGED <<open_files, closing, z, anim, anim_id, active, request, starts,
                     unacked, forked, orphaned, missed, crashed>>
  BY DEF CompareGap, history, files
<1>3. kind[t] # "start" /\ HasAnim /\ ((HasAnim)' <=> HasAnim)
  BY <1>1, <1>2 DEF Places, HasAnim
<1>4. CASE Gap(anim) > Window
  <2>1. stage' = [stage EXCEPT ![t] = "park"] /\ UNCHANGED <<queue, kind>>
    BY <1>4 DEF CompareGap
  <2> QED BY <1>1, <1>2, <1>3, <2>1, BaseStage DEF Typed, TypeOK, Numbered
<1>5. CASE ~(Gap(anim) > Window)
  <2> DEFINE n == NewTask
  <2>1. n \in Tasks /\ stage[n] = "free"
    BY <1>5, NewTaskIsFree DEF CompareGap
  <2>2. /\ kind' = [kind EXCEPT ![n] = "play"] /\ queue' = Append(queue, n)
        /\ stage' = [stage EXCEPT ![t] = "finish", ![n] = "queued"]
    BY <1>5 DEF CompareGap, QueueTask
  <2> HIDE DEF n
  <2>3. /\ stage'[n] = "queued" /\ stage'[t] = "finish" /\ kind'[n] = "play"
        /\ \A u \in Tasks : u # n => kind'[u] = kind[u]
        /\ \A u \in Tasks : u # n /\ u # t => stage'[u] = stage[u]
        /\ stage' \in [Tasks -> {"free", "queued", "begin", "build", "sleep", "gap",
                                 "park", "finish"}]
        /\ kind' \in [Tasks -> {"start", "play"}]
    BY <1>1, <1>2, <2>1, <2>2 DEF TypeOK
  <2>4. queue' \in Seq(Tasks) /\ QueuedOnce'
    BY <1>1, <1>2, <2>1, <2>2, <2>3, QueueAppended
  <2>5. Typed'
    BY <1>1, <1>2, <2>3, <2>4, TypedFrom DEF Typed, TypeOK
  <2>6. kind[n] = "play"
    BY <1>1, <2>1 DEF Places, TypeOK
  <2>7. Places'
    BY <1>1, <1>2, <1>3, <2>1, <2>3, <2>6 DEF Places
  <2>8. Numbered'
    <3>1. StartTasks' = StartTasks
      BY <2>3, <2>6 DEF StartTasks
    <3> QED BY <1>1, <1>2, <1>3, <3>1 DEF Numbered
  <2> QED BY <2>4, <2>5, <2>7, <2>8 DEF Base
<1> QED BY <1>4, <1>5

LEMMA BaseStep == Base /\ [Next]_vars => Base'
<1> SUFFICES ASSUME Base, [Next]_vars PROVE Base'
  OBVIOUS
<1>1. CASE UNCHANGED vars
  <2>1. UNCHANGED <<mode, start, delta, open_files, closing, z, anim, anim_id, active, queue, kind, stage, request,
                    starts, unacked, forked, orphaned, missed, crashed>>
    BY <1>1 DEF vars, history, files
  <2>2. TypeOK'
    BY <2>1 DEF Base, Typed, TypeOK
  <2> QED BY <2>1, <2>2 DEF Base, Typed, QueuedOnce, Places, Numbered, StartTasks, HasAnim
<1>2. CASE Next
  BY <1>2, BaseStart, BaseMessages, BaseFlow, BaseDequeue, BaseTest, BaseBuild, BasePlay,
     BaseCompare DEF Next, Message, Live, Execute, client
<1> QED BY <1>1, <1>2

\* Every state of the animation has the types declared; the queue holds each
\* queued task once, and objects are numbered by the requests they serve.
THEOREM BaseInductive == Spec => []Base
  BY BaseInit, BaseStep, PTL DEF Spec

THEOREM TypeCorrect == Spec => []TypeOK
<1>1. Base => TypeOK
  BY DEF Base, Typed
<1> QED BY <1>1, BaseInductive, PTL

-----------------------------------------------------------------------------
(***************************************************************************)
(* The chain of tasks, and what it shows.  All this is said of the time    *)
(* before a StartAnimationTask begins a second chain (forked).             *)
(***************************************************************************)

\* One task plays at most, and none while the animation is parked.
Chain ==
    ~forked => /\ \A t, u \in Playing : t = u
               /\ Parked => Playing = {}

\* The last frame the client has not confirmed.
LastFrame == unacked[Len(unacked)]

\* What the object shows next follows what it sent last, or is the same; an
\* object that was not cancelled has its file, unless it was orphaned.
Ordered ==
    HasAnim =>
        /\ mode # "reverse" => AsAsked(anim)
        /\ ~anim.cancelled => anim.file_open
        /\ ~anim.cancelled /\ ~orphaned => anim.file \in open_files
        /\ orphaned => anim.file \notin open_files
        /\ ~anim.cancelled /\ ~orphaned /\ unacked # <<>> /\ LastFrame[1] = anim_id =>
             /\ z[anim.file] = LastFrame[2]
             /\ \/ anim.next_frame = LastFrame[2]
                \/ Follows(mode, delta, LastFrame[2], anim.next_frame)

\* A task that will show a frame.
Showing == {t \in Playing : stage[t] \in {"queued", "begin", "sleep"}}

\* In a single pass the frames not confirmed are between the one confirmed
\* last and the current one, in their order, and the next frame is one step on.
OnePass ==
    (~forked /\ anim_id = 1 /\ mode = "once") =>
        /\ Along(delta, anim.last_flow_frame) <= Along(delta, anim.current_frame)
        /\ Along(delta, anim.current_frame) <= Along(delta, anim.next_frame)
        /\ ~anim.cancelled /\ ~orphaned =>
             Along(delta, anim.next_frame) <= Along(delta, anim.current_frame) + Step
        /\ \A i \in DOMAIN unacked :
             /\ Along(delta, anim.last_flow_frame) <= Along(delta, unacked[i][2])
             /\ Along(delta, unacked[i][2]) <= Along(delta, anim.current_frame)
        /\ \A i, j \in DOMAIN unacked :
             i <= j => Along(delta, unacked[i][2]) <= Along(delta, unacked[j][2])
        /\ Gap(anim) <= Window + Step
        /\ Showing # {} => Gap(anim) <= Window

\* The gap that a task found too large is too large until the client confirms.
Ahead ==
    (~forked /\ ~missed /\ (Parked \/ \E t \in Tasks : stage[t] = "park"))
        => Gap(anim) > Window

Played == Chain /\ Ordered /\ OnePass /\ Ahead

LEMMA ObjectOf ==
    ASSUME Base, HasAnim
    PROVE  /\ anim \in Objects /\ anim.file \in Files /\ anim_id \in 1..MaxStarts
           /\ anim.next_frame \in Nat /\ anim.current_frame \in Nat /\ anim.last_flow_frame \in Nat
           /\ Gap(anim) \in Int
<1>1. anim \in Objects /\ anim_id \in 1..MaxStarts
  BY NumbersAssumption DEF Base, Typed, TypeOK, Numbered, HasAnim
<1>2. /\ anim.file \in Files
      /\ anim.next_frame \in Nat /\ anim.current_frame \in Nat /\ anim.last_flow_frame \in Nat
  BY <1>1, NumbersAssumption DEF Objects, Channels
<1> QED BY <1>1, <1>2 DEF Gap

LEMMA UnackedOf ==
    ASSUME Base
    PROVE  /\ unacked \in Seq((1..MaxStarts) \X Channels) /\ Len(unacked) \in Nat
           /\ \A i \in DOMAIN unacked : unacked[i][1] \in 1..anim_id /\ unacked[i][2] \in Nat
           /\ unacked # <<>> => HasAnim /\ LastFrame[1] \in 1..anim_id /\ LastFrame[2] \in Nat
                                /\ Len(unacked) \in DOMAIN unacked
<1>1. unacked \in Seq((1..MaxStarts) \X Channels) /\ anim_id \in Nat
  BY DEF Base, Typed, TypeOK
<1>2. \A i \in DOMAIN unacked : unacked[i] \in (1..MaxStarts) \X Channels
  BY <1>1
<1>3. \A i \in DOMAIN unacked : unacked[i][1] \in 1..MaxStarts /\ unacked[i][2] \in Nat
  BY <1>2, NumbersAssumption DEF Channels
<1>4. \A i \in DOMAIN unacked : unacked[i][1] \in 1..anim_id
  BY <1>1, <1>3, NumbersAssumption DEF Base, Numbered
<1>5. unacked # <<>> => Len(unacked) \in DOMAIN unacked
  BY <1>1
<1>6. unacked # <<>> => HasAnim
  BY <1>1, <1>4, <1>5 DEF Base, Numbered
<1> QED BY <1>1, <1>3, <1>4, <1>5, <1>6 DEF LastFrame

\* Steps that neither show, confirm, park nor queue an AnimationTask.
LEMMA PlayedKept ==
    ASSUME Base, Played, UNCHANGED <<mode, start, delta, anim_id, unacked>>,
           ~forked' => ~forked, ~missed' => ~missed, (HasAnim)' <=> HasAnim,
           HasAnim =>
             /\ SamePlace(anim, anim') /\ anim'.last_flow_frame = anim.last_flow_frame
             /\ anim'.waiting_flow_event => anim.waiting_flow_event
             /\ ~anim'.cancelled => ~anim.cancelled /\ anim'.file_open = anim.file_open
             /\ ~anim'.cancelled /\ ~orphaned' /\ anim.file \in open_files =>
                  anim.file \in open_files' /\ z'[anim.file] = z[anim.file]
             /\ ~orphaned' => ~orphaned
             /\ orphaned' /\ (orphaned => anim.file \notin open_files) =>
                  anim.file \notin open_files',
           Playing' \subseteq Playing, Showing' \subseteq Showing,
           \A t \in Tasks : stage'[t] = "park" => stage[t] = "park"
    PROVE  Played'
<1>1. Chain /\ Ordered /\ OnePass /\ Ahead
  BY DEF Played
<1>2. (Parked)' => Parked
  BY DEF Parked
<1>3. Chain'
  BY <1>1, <1>2 DEF Chain
<1>4. Ordered'
  BY <1>1 DEF Ordered, SamePlace, LastFrame, AsAsked
<1>5. HasAnim => Gap(anim)' = Gap(anim)
  BY DEF Gap, SamePlace
<1>6. anim_id = 1 => HasAnim
  BY DEF Base, Numbered
<1>7. OnePass'
  BY <1>1, <1>5, <1>6 DEF OnePass, SamePlace, Step
<1>8. Ahead'
  <2>1. (\E t \in Tasks : stage[t] = "park") \/ Parked => HasAnim
    BY DEF Base, Places, Parked
  <2> QED BY <1>1, <1>2, <1>5, <2>1 DEF Ahead
<1> QED BY <1>3, <1>4, <1>7, <1>8 DEF Played

\* How the sets change when one task goes from one stage to another.
LEMMA SetsMove ==
    ASSUME Base, NEW t \in Tasks, NEW s, stage' = [stage EXCEPT ![t] = s], kind' = kind
    PROVE  /\ (s \in {"free", "finish"} => Playing' = Playing \ {t})
           /\ (t \in Playing \/ kind[t] = "start" => Playing' \subseteq Playing)
           /\ (s \notin {"queued", "begin", "sleep"} => Showing' \subseteq Showing \ {t})
           /\ (t \in Showing \/ kind[t] = "start" => Showing' \subseteq Showing)
           /\ \A u \in Tasks : stage'[u] = IF u = t THEN s ELSE stage[u]
<1>1. \A u \in Tasks : stage'[u] = IF u = t THEN s ELSE stage[u]
  BY DEF Base, Typed, TypeOK
<1>2. Playing' = {u \in Tasks : kind[u] = "play" /\ stage'[u] \notin {"free", "finish"}}
  BY DEF Playing
<1>3. Showing' = {u \in Tasks : kind[u] = "play" /\ stage'[u] \in {"queued", "begin", "sleep"}}
  BY DEF Showing, Playing
<1> QED BY <1>1, <1>2, <1>3 DEF Playing, Showing

\* The client's messages, but for its confirmations.
LEMMA PlayedMessages ==
    ASSUME Base, Played, UNCHANGED <<mode, start, delta>>, NEW f \in Files,
           StopAnimation(f) \/ CloseFile(f) \/ DeleteFrame(f) \/ (~orphaned /\ OpenFile(f))
    PROVE  Played'
<1>1. UNCHANGED <<mode, start, delta, anim_id, unacked, stage, kind, forked, missed>>
  BY DEF StopAnimation, CloseFile, DeleteFrame, OpenFile, history
<1>2. Playing' = Playing /\ Showing' = Showing
  BY <1>1 DEF Playing, Showing
<1>3. CASE ~HasAnim
  <2>1. anim' = anim
    BY <1>3 DEF StopAnimation, CloseFile, DeleteFrame, OpenFile
  <2> QED BY <1>1, <1>2, <1>3, <2>1, PlayedKept DEF HasAnim
<1>4. CASE HasAnim
  <2>1. anim \in Objects
    BY <1>4, ObjectOf
  <2>2. CASE StopAnimation(f)
    <3>1. anim' = [anim EXCEPT !.stop_called = TRUE] /\ UNCHANGED <<open_files, z, orphaned>>
      BY <2>2 DEF StopAnimation, files, history
    <3>2. /\ anim' \in Objects /\ SamePlace(anim, anim') /\ anim'.cancelled = anim.cancelled
          /\ anim'.file_open = anim.file_open
          /\ anim'.waiting_flow_event = anim.waiting_flow_event
          /\ anim'.last_flow_frame = anim.last_flow_frame
      BY <2>1, <3>1, Stopped
    <3>3. (HasAnim)'
      BY <3>2, NoAnimationAssumption DEF HasAnim
    <3> QED BY <1>1, <1>2, <1>4, <3>1, <3>2, <3>3, PlayedKept
  <2>3. CASE CloseFile(f)
    <3>1. /\ anim' = [anim EXCEPT !.file_open = FALSE, !.cancelled = TRUE]
          /\ UNCHANGED <<open_files, z, orphaned>>
      BY <1>4, <2>3 DEF CloseFile, history
    <3>2. /\ anim' \in Objects /\ SamePlace(anim, anim') /\ anim'.cancelled
          /\ anim'.waiting_flow_event = anim.waiting_flow_event
          /\ anim'.last_flow_frame = anim.last_flow_frame
      BY <2>1, <3>1, Closed
    <3>3. (HasAnim)'
      BY <3>2, NoAnimationAssumption DEF HasAnim
    <3> QED BY <1>1, <1>2, <1>4, <3>1, <3>2, <3>3, PlayedKept
  <2>4. CASE DeleteFrame(f)
    <3>1. /\ anim' = anim /\ z' = z /\ open_files' = open_files \ {f}
          /\ orphaned' = (orphaned \/ (anim.file = f /\ anim.file_open))
      BY <1>4, <2>4 DEF DeleteFrame
    <3>2. ~anim.cancelled => anim.file_open
      BY <1>4 DEF Played, Ordered
    <3>3. SamePlace(anim, anim') /\ (HasAnim)'
      BY <1>4, <3>1 DEF SamePlace, HasAnim
    <3> QED BY <1>1, <1>2, <1>4, <3>1, <3>2, <3>3, PlayedKept
  <2>5. CASE ~orphaned /\ OpenFile(f)
    <3>1. /\ anim' = anim /\ f \notin open_files /\ ~orphaned /\ orphaned' = orphaned
          /\ open_files' = open_files \cup {f} /\ z' = [z EXCEPT ![f] = 0]
      BY <2>5 DEF OpenFile, history
    <3>2. anim.file \in open_files => z'[anim.file] = z[anim.file]
      BY <3>1, <1>4, ObjectOf DEF Base, Typed, TypeOK
    <3>3. SamePlace(anim, anim') /\ (HasAnim)'
      BY <1>4, <3>1 DEF SamePlace, HasAnim
    <3> QED BY <1>1, <1>2, <1>4, <3>1, <3>2, <3>3, PlayedKept
  <2> QED BY <2>2, <2>3, <2>4, <2>5
<1> QED BY <1>3, <1>4

LEMMA PlayedStart ==
    ASSUME Base, Played, UNCHANGED <<mode, start, delta>>, NEW f \in Files, StartAnimation(f)
    PROVE  Played'
<1> DEFINE n == NewTask
<1>1. n \in Tasks /\ stage[n] = "free"
  BY NewTaskIsFree DEF StartAnimation
<1> HIDE DEF n
<1>2. /\ anim' = IF HasAnim THEN [anim EXCEPT !.cancelled = TRUE] ELSE anim
      /\ kind' = [kind EXCEPT ![n] = "start"] /\ stage' = [stage EXCEPT ![n] = "queued"]
      /\ UNCHANGED <<open_files, closing, z, anim_id, unacked, forked, orphaned, missed>>
  BY DEF StartAnimation, QueueTask, history, files, n
<1>3. /\ kind'[n] = "start" /\ stage'[n] = "queued"
      /\ \A u \in Tasks : u # n => kind'[u] = kind[u] /\ stage'[u] = stage[u]
  BY <1>1, <1>2 DEF Base, Typed, TypeOK
<1>4. Playing' = Playing
  BY <1>1, <1>3 DEF Playing
<1>5. Showing' = Showing
  BY <1>1, <1>3, <1>4 DEF Showing, Playing
<1>6. CASE ~HasAnim
  <2>1. anim' = anim
    BY <1>2, <1>6
  <2> QED BY <1>2, <1>3, <1>4, <1>5, <1>6, <2>1, PlayedKept DEF HasAnim
<1>7. CASE HasAnim
  <2>1. anim \in Objects /\ anim' = [anim EXCEPT !.cancelled = TRUE]
    BY <1>2, <1>7, ObjectOf
  <2>2. /\ anim' \in Objects /\ SamePlace(anim, anim') /\ anim'.cancelled
        /\ anim'.waiting_flow_event = anim.waiting_flow_event
        /\ anim'.last_flow_frame = anim.last_flow_frame
    BY <2>1, Cancelled
  <2>3. (HasAnim)'
    BY <2>2, NoAnimationAssumption DEF HasAnim
  <2> QED BY <1>2, <1>3, <1>4, <1>5, <1>7, <2>2, <2>3, PlayedKept
<1> QED BY <1>6, <1>7

\* Steps of the tasks that leave the object as it is.
LEMMA PlayedSteps ==
    ASSUME Base, Played, UNCHANGED <<mode, start, delta>>, NEW t \in Tasks,
           \/ Dequeue \/ TestActive(t) \/ BeginFrame(t) \/ Finish(t)
    PROVE  Played'
<1>1. /\ UNCHANGED <<mode, start, delta, open_files, closing, z, anim, anim_id, unacked, kind, forked, orphaned, missed>>
      /\ (HasAnim)' = HasAnim
  BY DEF Dequeue, TestActive, BeginFrame, Finish, history, files, HasAnim
<1>2. SamePlace(anim, anim')
  BY <1>1 DEF SamePlace
<1>3. Typed /\ TypeOK /\ QueuedOnce /\ Places
  BY DEF Base, Typed
<1>4. PICK u \in Tasks, s \in {"free", "begin", "queued", "build", "sleep", "finish"} :
        /\ stage' = [stage EXCEPT ![u] = s]
        /\ \/ u \in Showing \/ kind[u] = "start" \/ s \in {"free", "finish"}
  <2>1. CASE Dequeue
    <3>1. /\ queue # <<>> /\ queue' = Tail(queue)
          /\ stage' = [stage EXCEPT ![Head(queue)] = "begin"]
      BY <2>1 DEF Dequeue
    <3>2. Head(queue) \in Tasks /\ stage[Head(queue)] = "queued"
      BY <1>3, <3>1, QueueTaken
    <3>3. Head(queue) \in Showing \/ kind[Head(queue)] = "start"
      BY <1>3, <3>2 DEF Showing, Playing, TypeOK
    <3> QED BY <3>1, <3>2, <3>3
  <2>2. CASE TestActive(t)
    BY <2>2 DEF TestActive
  <2>3. CASE BeginFrame(t)
    BY <2>3 DEF BeginFrame, Showing, Playing
  <2>4. CASE Finish(t)
    BY <2>4 DEF Finish
  <2> QED BY <2>1, <2>2, <2>3, <2>4
<1>5. Showing \subseteq Playing
  BY DEF Showing
<1>6. Playing' \subseteq Playing /\ Showing' \subseteq Showing
      /\ \A w \in Tasks : stage'[w] = "park" => stage[w] = "park"
  <2>1. stage' = [stage EXCEPT ![u] = s] /\ kind' = kind
    BY <1>1, <1>4
  <2>2. /\ s \in {"free", "finish"} => Playing' = Playing \ {u}
        /\ u \in Playing \/ kind[u] = "start" => Playing' \subseteq Playing
        /\ s \notin {"queued", "begin", "sleep"} => Showing' \subseteq Showing \ {u}
        /\ u \in Showing \/ kind[u] = "start" => Showing' \subseteq Showing
        /\ \A w \in Tasks : stage'[w] = IF w = u THEN s ELSE stage[w]
    BY <2>1, SetsMove
  <2>3. s # "park"
    BY <1>4
  <2>4. \A w \in Tasks : stage'[w] = "park" => stage[w] = "park"
    BY <2>2, <2>3
  <2>5. CASE u \in Showing \/ kind[u] = "start"
    BY <1>5, <2>2, <2>4, <2>5
  <2>6. CASE s \in {"free", "finish"}
    <3>1. s \notin {"queued", "begin", "sleep"}
      BY <2>6
    <3> QED BY <2>2, <2>4, <2>6, <3>1
  <2> QED BY <1>4, <2>5, <2>6
<1> QED BY <1>1, <1>2, <1>6, PlayedKept

\* The gap of a single pass is along its direction.
LEMMA PassGap ==
    ASSUME Base, Played, ~forked, anim_id = 1, mode = "once"
    PROVE  /\ HasAnim /\ AsAsked(anim)
           /\ Gap(anim) = Along(delta, anim.current_frame) - Along(delta, anim.last_flow_frame)
<1>1. HasAnim /\ AsAsked(anim)
  BY DEF Base, Numbered, Played, Ordered
<1>2. anim \in Objects /\ anim.current_frame \in Int /\ anim.last_flow_frame \in Int
  BY <1>1, ObjectOf
<1> QED BY <1>1, <1>2 DEF Gap, Along, AsAsked, Objects

\* The next task is queued only if the gap allows a frame.
LEMMA PlayedCompare ==
    ASSUME Base, Played, UNCHANGED <<mode, start, delta>>, NEW t \in Tasks, CompareGap(t)
    PROVE  Played'
<1>1. /\ stage[t] = "gap"
      /\ UNCHANGED <<mode, start, delta, open_files, closing, z, anim, anim_id, unacked, forked, orphaned, missed>>
  BY DEF CompareGap, history, files
<1>2. Chain /\ Ordered /\ OnePass /\ Ahead /\ Typed /\ TypeOK /\ Places
  BY DEF Played, Base, Typed
<1>3. HasAnim /\ t \in Playing /\ (HasAnim)'
  BY <1>1, <1>2 DEF Places, Playing, TypeOK, HasAnim
<1>4. ~forked => Playing \subseteq {t} /\ ~Parked
  BY <1>2, <1>3 DEF Chain
<1>5. Ordered'
  BY <1>1, <1>2 DEF Ordered, LastFrame, HasAnim, AsAsked
<1>6. Gap(anim)' = Gap(anim) /\ Gap(anim) \in Int /\ Window \in Nat
  BY <1>1, <1>3, ObjectOf, NumbersAssumption DEF Gap
<1>7. CASE Gap(anim) > Window
  <2>1. stage' = [stage EXCEPT ![t] = "park"] /\ kind' = kind
    BY <1>7 DEF CompareGap
  <2>2. Playing' \subseteq Playing /\ Showing' \subseteq Showing
    BY <1>3, <2>1, SetsMove
  <2>3. Chain'
    BY <1>1, <1>2, <2>2 DEF Chain, Parked, HasAnim
  <2>4. OnePass'
    BY <1>1, <1>2, <1>6, <2>2 DEF OnePass, Step
  <2>5. Ahead'
    BY <1>6, <1>7 DEF Ahead
  <2> QED BY <1>5, <2>3, <2>4, <2>5 DEF Played
<1>8. CASE ~(Gap(anim) > Window)
  <2> DEFINE n == NewTask
  <2>1. n \in Tasks /\ stage[n] = "free"
    BY <1>8, NewTaskIsFree DEF CompareGap
  <2>2. /\ kind' = [kind EXCEPT ![n] = "play"]
        /\ stage' = [stage EXCEPT ![t] = "finish", ![n] = "queued"]
    BY <1>8 DEF CompareGap, QueueTask
  <2> HIDE DEF n
  <2>3. /\ stage'[n] = "queued" /\ stage'[t] = "finish"
        /\ \A u \in Tasks : u # n /\ u # t => kind'[u] = kind[u] /\ stage'[u] = stage[u]
    BY <1>1, <1>2, <2>1, <2>2 DEF TypeOK
  <2>4. Playing' \subseteq (Playing \ {t}) \cup {n}
    BY <2>1, <2>3 DEF Playing
  <2>5. Chain'
    BY <1>1, <1>4, <2>4 DEF Chain, Parked, HasAnim
  <2>6. OnePass'
    BY <1>1, <1>2, <1>6, <1>8 DEF OnePass, Step
  <2>7. Ahead'
    BY <1>1, <1>2, <1>6, <2>1, <2>3 DEF Ahead, Parked, HasAnim
  <2> QED BY <1>5, <2>5, <2>6, <2>7 DEF Played
<1> QED BY <1>7, <1>8

\* The animation is parked after its only task has seen a gap too large.
LEMMA PlayedPark ==
    ASSUME Base, Played, UNCHANGED <<mode, start, delta>>, NEW t \in Tasks, Park(t)
    PROVE  Played'
<1>1. /\ stage[t] = "park" /\ anim' = [anim EXCEPT !.waiting_flow_event = TRUE]
      /\ stage' = [stage EXCEPT ![t] = "finish"] /\ kind' = kind
      /\ UNCHANGED <<mode, start, delta, open_files, closing, z, anim_id, unacked, forked, orphaned, missed>>
  BY DEF Park, history, files
<1>2. Chain /\ Ordered /\ OnePass /\ Ahead /\ Typed /\ TypeOK /\ Places
  BY DEF Played, Base, Typed
<1>3. HasAnim /\ t \in Playing
  BY <1>1, <1>2 DEF Places, Playing, TypeOK
<1>4. anim \in Objects
  BY <1>3, ObjectOf
<1>5. /\ SamePlace(anim, anim') /\ anim'.cancelled = anim.cancelled
      /\ anim'.file_open = anim.file_open
      /\ anim'.last_flow_frame = anim.last_flow_frame
  BY <1>1, <1>4, ParkedObject
<1>6. Gap(anim)' = Gap(anim)
  BY <1>5 DEF Gap, SamePlace
<1>7. Playing' = Playing \ {t} /\ Showing' \subseteq Showing
  BY <1>1, SetsMove
<1>8. Chain'
  BY <1>1, <1>2, <1>3, <1>7 DEF Chain
<1>9. Ordered'
  BY <1>1, <1>2, <1>3, <1>5 DEF Ordered, LastFrame, SamePlace, AsAsked
<1>10. OnePass'
  BY <1>1, <1>2, <1>5, <1>6, <1>7 DEF OnePass, SamePlace, Step
<1>11. Ahead'
  BY <1>1, <1>2, <1>6 DEF Ahead
<1> QED BY <1>8, <1>9, <1>10, <1>11 DEF Played

\* The client confirms its oldest frame, and so makes the gap smaller.
LEMMA PlayedFlow ==
    ASSUME Base, Played, UNCHANGED <<mode, start, delta>>, HandleFlowControl
    PROVE  Played'
<1> DEFINE n == NewTask
           c == Head(unacked)[2]
           a == [anim EXCEPT !.last_flow_frame = c]
<1>1. n \in Tasks /\ stage[n] = "free"
  BY NewTaskIsFree DEF HandleFlowControl
<1> HIDE DEF n
<1>2. /\ unacked # <<>> /\ unacked' = Tail(unacked)
      /\ missed' = (missed \/ \E u \in Tasks : stage[u] = "park")
      /\ \/ /\ a.waiting_flow_event /\ Gap(a) <= Window
            /\ anim' = [a EXCEPT !.waiting_flow_event = FALSE]
            /\ kind' = [kind EXCEPT ![n] = "play"]
            /\ stage' = [stage EXCEPT ![n] = "queued"]
         \/ ~(a.waiting_flow_event /\ Gap(a) <= Window) /\ anim' = a /\ UNCHANGED <<kind, stage>>
      /\ UNCHANGED <<mode, start, delta, open_files, closing, z, anim_id, forked, orphaned>>
  BY DEF HandleFlowControl, QueueTask, n, files
<1>3. Chain /\ Ordered /\ OnePass /\ Ahead /\ Typed /\ TypeOK
  BY DEF Played, Base, Typed
<1>4. HasAnim /\ anim \in Objects /\ anim_id \in 1..MaxStarts
  BY <1>2, UnackedOf, ObjectOf
<1>5. /\ Len(unacked') = Len(unacked) - 1 /\ Len(unacked) \in Nat \ {0}
      /\ \A i \in DOMAIN unacked' : i + 1 \in DOMAIN unacked /\ unacked'[i] = unacked[i + 1]
                                    /\ i \in 1..Len(unacked')
      /\ 1 \in DOMAIN unacked /\ Head(unacked) = unacked[1]
  <2>1. unacked \in Seq((1..MaxStarts) \X Channels) /\ unacked # <<>>
    BY <1>2, UnackedOf
  <2> QED BY <1>2, <2>1
<1>6. c \in Channels /\ c = unacked[1][2]
  <2>1. unacked[1] \in (1..MaxStarts) \X Channels
    BY <1>5, UnackedOf
  <2> QED BY <1>5, <2>1
<1>7. unacked' # <<>> => LastFrame' = LastFrame
  <2>1. unacked \in Seq((1..MaxStarts) \X Channels) /\ unacked # <<>>
    BY <1>2, UnackedOf
  <2> QED BY <1>2, <2>1 DEF LastFrame
<1> HIDE DEF c
<1>8. /\ a \in Objects /\ SamePlace(anim, a) /\ a.cancelled = anim.cancelled
      /\ a.file_open = anim.file_open
      /\ a.waiting_flow_event = anim.waiting_flow_event /\ a.last_flow_frame = c
  BY <1>4, <1>6, Confirmed
<1> HIDE DEF a
<1>9. /\ anim' \in Objects /\ SamePlace(a, anim') /\ anim'.cancelled = a.cancelled
      /\ anim'.file_open = a.file_open
      /\ anim'.last_flow_frame = a.last_flow_frame
      /\ anim' = a \/ ~anim'.waiting_flow_event
  <2>1. CASE anim' = a
    BY <1>8, <2>1 DEF SamePlace
  <2>2. CASE anim' = [a EXCEPT !.waiting_flow_event = FALSE]
    BY <1>8, <2>2, Resumed
  <2> QED BY <1>2, <2>1, <2>2
<1>10. /\ SamePlace(anim, anim') /\ anim'.cancelled = anim.cancelled
       /\ anim'.file_open = anim.file_open
       /\ anim'.last_flow_frame = c /\ (HasAnim)' /\ Gap(anim)' = Gap(a)
  BY <1>8, <1>9, NoAnimationAssumption DEF SamePlace, HasAnim, Gap
<1>11. /\ Gap(anim)' \in Int /\ Gap(anim) \in Int /\ Window \in Nat
       /\ anim.current_frame \in Nat /\ anim.last_flow_frame \in Nat
  <2>1. Gap(a) \in Int
    BY <1>8, NumbersAssumption DEF Objects, Channels, Gap
  <2> QED BY <1>4, <1>10, <2>1, ObjectOf, NumbersAssumption
<1>12. \/ /\ anim.waiting_flow_event /\ Gap(a) <= Window /\ ~anim'.waiting_flow_event
          /\ \A u \in Tasks : u # n => kind'[u] = kind[u] /\ stage'[u] = stage[u]
          /\ stage'[n] = "queued"
       \/ /\ ~(anim.waiting_flow_event /\ Gap(a) <= Window)
          /\ anim'.waiting_flow_event = anim.waiting_flow_event
          /\ UNCHANGED <<kind, stage>>
  <2>1. CASE a.waiting_flow_event /\ Gap(a) <= Window
    <3>1. /\ anim' = [a EXCEPT !.waiting_flow_event = FALSE]
          /\ kind' = [kind EXCEPT ![n] = "play"] /\ stage' = [stage EXCEPT ![n] = "queued"]
      BY <1>2, <2>1
    <3>2. ~anim'.waiting_flow_event
      BY <1>8, <3>1, Resumed
    <3>3. /\ \A u \in Tasks : u # n => kind'[u] = kind[u] /\ stage'[u] = stage[u]
          /\ stage'[n] = "queued"
      BY <1>1, <1>3, <3>1 DEF TypeOK
    <3>4. anim.waiting_flow_event
      BY <1>8, <2>1
    <3> QED BY <2>1, <3>2, <3>3, <3>4
  <2>2. CASE ~(a.waiting_flow_event /\ Gap(a) <= Window)
    BY <1>2, <1>8, <2>2
  <2> QED BY <2>1, <2>2
<1>13. Chain'
  <2>1. CASE UNCHANGED <<kind, stage>>
    <3>1. Playing' = Playing /\ ((Parked)' => Parked)
      BY <1>4, <1>12, <2>1 DEF Playing, Parked
    <3> QED BY <1>2, <1>3, <3>1 DEF Chain
  <2>2. CASE anim.waiting_flow_event /\ ~anim'.waiting_flow_event
             /\ \A u \in Tasks : u # n => kind'[u] = kind[u] /\ stage'[u] = stage[u]
    <3>1. ~(Parked)' /\ Parked
      BY <1>4, <2>2 DEF Parked
    <3>2. Playing' \subseteq Playing \cup {n}
      BY <2>2 DEF Playing
    <3> QED BY <1>2, <1>3, <3>1, <3>2 DEF Chain
  <2> QED BY <1>12, <2>1, <2>2
<1>14. Ordered'
  <2>1. unacked' # <<>> => unacked # <<>> /\ LastFrame' = LastFrame
    BY <1>2, <1>7
  <2> QED BY <1>2, <1>3, <1>4, <1>10, <2>1 DEF Ordered, SamePlace, AsAsked
<1>15. OnePass'
  <2> SUFFICES ASSUME ~forked, anim_id = 1, mode = "once"
               PROVE  OnePass'
    BY <1>2 DEF OnePass
  <2> DEFINE cur == anim.current_frame
  <2>1. /\ Gap(anim) = Along(delta, cur) - Along(delta, anim.last_flow_frame)
        /\ Gap(anim)' = Along(delta, cur) - Along(delta, c) /\ anim'.current_frame = cur
    <3>1. AsAsked(anim) /\ Gap(anim) = Along(delta, cur) - Along(delta, anim.last_flow_frame)
      BY PassGap
    <3>2. anim'.going_forward = anim.going_forward /\ anim'.current_frame = cur
      BY <1>10 DEF SamePlace
    <3>3. c \in Int /\ cur \in Int
      BY <1>6, <1>11 DEF Channels
    <3> QED BY <1>4, <1>10, <3>1, <3>2, <3>3 DEF Gap, Along, AsAsked, Objects
  <2>2. /\ Along(delta, anim.last_flow_frame) <= Along(delta, c)
        /\ Along(delta, c) <= Along(delta, cur)
    BY <1>3, <1>5, <1>6 DEF OnePass
  <2>3. /\ Along(delta, c) \in Int /\ Along(delta, cur) \in Int
        /\ Along(delta, anim.last_flow_frame) \in Int /\ Step \in Nat /\ Step' = Step
    <3>1. delta \in Int /\ Step \in Nat /\ delta' = delta
      BY <1>2, <1>3, PlanOf
    <3>2. \A d \in Int : Along(delta, d) \in Int
      BY <3>1 DEF Along
    <3>3. c \in Int
      BY <1>6 DEF Channels
    <3>4. Step' = Step
      BY <3>1 DEF Step
    <3> QED BY <1>11, <3>1, <3>2, <3>3, <3>4
  <2>4. Gap(anim)' <= Gap(anim)
    BY <2>1, <2>2, <2>3
  <2>5. \A i \in DOMAIN unacked' :
          /\ Along(delta, c) <= Along(delta, unacked'[i][2])
          /\ Along(delta, unacked'[i][2]) <= Along(delta, cur)
    <3> SUFFICES ASSUME NEW i \in DOMAIN unacked'
                 PROVE  /\ Along(delta, c) <= Along(delta, unacked'[i][2])
                        /\ Along(delta, unacked'[i][2]) <= Along(delta, cur)
      OBVIOUS
    <3>1. i + 1 \in DOMAIN unacked /\ unacked'[i] = unacked[i + 1] /\ 1 <= i + 1
      BY <1>5
    <3>2. /\ Along(delta, unacked[1][2]) <= Along(delta, unacked[i + 1][2])
          /\ Along(delta, unacked[i + 1][2]) <= Along(delta, cur)
      BY <1>3, <1>5, <3>1 DEF OnePass
    <3> QED BY <1>6, <3>1, <3>2
  <2>6. \A i, j \in DOMAIN unacked' :
          i <= j => Along(delta, unacked'[i][2]) <= Along(delta, unacked'[j][2])
    <3> SUFFICES ASSUME NEW i \in DOMAIN unacked', NEW j \in DOMAIN unacked', i <= j
                 PROVE  Along(delta, unacked'[i][2]) <= Along(delta, unacked'[j][2])
      OBVIOUS
    <3>1. /\ i + 1 \in DOMAIN unacked /\ j + 1 \in DOMAIN unacked /\ i + 1 <= j + 1
          /\ unacked'[i] = unacked[i + 1] /\ unacked'[j] = unacked[j + 1]
      BY <1>5
    <3>2. Along(delta, unacked[i + 1][2]) <= Along(delta, unacked[j + 1][2])
      BY <1>3, <3>1 DEF OnePass
    <3> QED BY <3>1, <3>2
  <2>7. /\ Along(delta, cur) <= Along(delta, anim'.next_frame)
        /\ ~anim'.cancelled /\ ~orphaned' =>
             Along(delta, anim'.next_frame) <= Along(delta, cur) + Step
    BY <1>2, <1>3, <1>10 DEF OnePass, SamePlace
  <2>8. Gap(anim)' <= Window + Step
    <3>1. Gap(anim) <= Window + Step
      BY <1>3 DEF OnePass
    <3> QED BY <1>11, <2>3, <2>4, <3>1
  <2>9. Showing' # {} => Gap(anim)' <= Window
    <3>1. CASE UNCHANGED <<kind, stage>>
      <4>1. Showing' = Showing
        BY <3>1 DEF Showing, Playing
      <4>2. Showing # {} => Gap(anim) <= Window
        BY <1>3 DEF OnePass
      <4> QED BY <1>11, <2>4, <4>1, <4>2
    <3>2. CASE ~UNCHANGED <<kind, stage>>
      BY <1>10, <1>12, <3>2
    <3> QED BY <3>1, <3>2
  <2>10. anim'.last_flow_frame = c /\ anim'.current_frame = cur /\ delta' = delta
    BY <1>2, <1>10, <2>1
  <2> HIDE DEF cur
  <2> QED BY <2>2, <2>3, <2>5, <2>6, <2>7, <2>8, <2>9, <2>10 DEF OnePass
<1>16. Ahead'
  <2> SUFFICES ASSUME ~forked, ~missed, \A u \in Tasks : stage[u] # "park"
               PROVE  (Parked \/ \E t \in Tasks : stage[t] = "park")' => (Gap(anim) > Window)'
    BY <1>2 DEF Ahead
  <2>1. \A u \in Tasks : stage'[u] # "park"
    BY <1>12
  <2>2. (Parked)' => ~(Gap(a) <= Window)
    BY <1>4, <1>12 DEF Parked
  <2> QED BY <1>10, <1>11, <2>1, <2>2
<1> QED BY <1>13, <1>14, <1>15, <1>16 DEF Played

\* A new object starts at the first frame, with nothing sent of it.
LEMMA PlayedBuild ==
    ASSUME Base, Played, UNCHANGED <<mode, start, delta>>, NEW t \in Tasks, Build(t)
    PROVE  Played'
<1>1. /\ stage[t] = "build"
      /\ \/ request[t] \in open_files /\ anim' = NewObject(request[t]) /\ anim_id' = anim_id + 1
            /\ orphaned' = FALSE
         \/ request[t] \notin open_files /\ UNCHANGED <<anim, anim_id, orphaned>>
      /\ kind' = [kind EXCEPT ![t] = "play"] /\ stage' = [stage EXCEPT ![t] = "queued"]
      /\ ~forked' => ~forked /\ Playing = {} /\ ~(HasAnim /\ request[t] \notin open_files)
      /\ UNCHANGED <<mode, start, delta, open_files, closing, z, unacked, missed>>
  BY DEF Build, files
<1>2. Chain /\ Ordered /\ OnePass /\ Ahead /\ Typed /\ TypeOK /\ Places
  BY DEF Played, Base, Typed
<1>3. Base'
  BY BaseBuild
<1>4. request[t] \in Files /\ anim_id \in Nat
  BY <1>2 DEF TypeOK
<1>5. /\ \A u \in Tasks : u # t => kind'[u] = kind[u] /\ stage'[u] = stage[u]
      /\ stage'[t] = "queued" /\ Playing' \subseteq Playing \cup {t}
  BY <1>1, <1>2 DEF TypeOK, Playing
<1>6. /\ unacked \in Seq((1..MaxStarts) \X Channels) /\ Len(unacked) \in Nat
      /\ unacked # <<>> => HasAnim /\ LastFrame[1] \in 1..anim_id
      /\ unacked = <<>> => Len(unacked) = 0 /\ DOMAIN unacked = {}
  BY UnackedOf
<1>7. CASE request[t] \in open_files
  <2>1. /\ anim' = NewObject(request[t]) /\ anim_id' = anim_id + 1
        /\ anim' \in Objects /\ anim'.file = request[t]
        /\ anim'.going_forward = (delta > 0) /\ ~anim'.cancelled /\ anim'.file_open
        /\ anim'.next_frame = start /\ anim'.current_frame = start
        /\ anim'.last_flow_frame = start /\ ~anim'.waiting_flow_event
        /\ start \in Channels /\ ~orphaned'
    BY <1>1, <1>2, <1>4, <1>7, Built, PlanOf
  <2>2. Chain'
    BY <1>1, <1>5, <2>1 DEF Chain, Parked
  <2>3. Ordered'
    BY <1>1, <1>4, <1>6, <1>7, <2>1 DEF Ordered, LastFrame, AsAsked
  <2>4. Gap(anim)' = 0
    BY <2>1 DEF Gap, Channels
  <2>5. OnePass'
    <3> SUFFICES ASSUME anim_id' = 1 PROVE OnePass'
      BY DEF OnePass
    <3>1. unacked = <<>>
      BY <1>4, <1>6, <2>1
    <3>2. /\ Along(delta, start) \in Int /\ Step' = Step /\ Step \in Nat /\ delta' = delta
          /\ Window \in Nat /\ DOMAIN unacked' = {}
      BY <1>1, <1>2, <1>6, <2>1, <3>1, PlanOf, NumbersAssumption DEF Along, Channels, Step
    <3> QED BY <2>1, <2>4, <3>2 DEF OnePass
  <2>6. Ahead'
    <3> SUFFICES ASSUME ~forked' PROVE \A u \in Tasks : stage'[u] # "park"
      BY <2>1 DEF Ahead, Parked
    <3>1. \A u \in Tasks : stage[u] # "park"
      BY <1>1, <1>2 DEF Playing, Places, TypeOK
    <3> QED BY <1>5, <3>1
  <2> QED BY <2>2, <2>3, <2>5, <2>6 DEF Played
<1>8. CASE request[t] \notin open_files
  <2>1. UNCHANGED <<anim, anim_id, orphaned>>
    BY <1>1, <1>8
  <2>2. Ordered'
    BY <1>1, <1>2, <2>1 DEF Ordered, LastFrame, HasAnim, AsAsked
  <2>3. CASE forked'
    BY <2>2, <2>3 DEF Played, Chain, OnePass, Ahead
  <2>4. CASE ~forked'
    <3>1. ~HasAnim /\ anim_id = 0 /\ Playing = {}
      BY <1>1, <1>4, <1>8, <2>4 DEF Base, Numbered
    <3>2. Chain'
      BY <1>5, <2>1, <3>1 DEF Chain, Parked, HasAnim
    <3>3. OnePass'
      BY <2>1, <3>1 DEF OnePass
    <3>4. Ahead'
      <4>1. \A u \in Tasks : stage[u] # "park"
        BY <1>2, <3>1 DEF Places
      <4> QED BY <1>5, <2>1, <3>1, <4>1 DEF Ahead, Parked, HasAnim
    <3> QED BY <2>2, <3>2, <3>3, <3>4 DEF Played
  <2> QED BY <2>3, <2>4
<1> QED BY <1>7, <1>8

\* What the next frame has to do with the frames not confirmed.
LEMMA NextToShow ==
    ASSUME Base, Played, HasAnim, ~anim.cancelled, ~orphaned, unacked # <<>>,
           LastFrame[1] = anim_id
    PROVE  /\ z[anim.file] = LastFrame[2]
           /\ \/ anim.next_frame = LastFrame[2]
              \/ Follows(mode, delta, LastFrame[2], anim.next_frame)
  BY DEF Played, Ordered

\* A frame is shown, and sent unless it is shown already.
LEMMA PlayedShow ==
    ASSUME Base, Played, UNCHANGED <<mode, start, delta>>, NEW t \in Tasks, ShowFrame(t)
    PROVE  Played'
<1> DEFINE shows == anim.file \in open_files /\ ~anim.cancelled
           next == anim.next_frame
           cur == anim.current_frame
           flow == anim.last_flow_frame
           frame == <<anim_id, next>>
           len == Len(unacked)
<1>1. /\ anim \in Objects /\ anim' \in Objects /\ stage[t] = "sleep"
      /\ stage' = [stage EXCEPT ![t] = "finish"] \/ stage' = [stage EXCEPT ![t] = "gap"]
      /\ UNCHANGED <<mode, start, delta, open_files, closing, anim_id, kind, forked, orphaned, missed>>
  BY ShowEffect
<1>2. Chain /\ Ordered /\ OnePass /\ Ahead /\ Typed /\ TypeOK /\ Places
  BY DEF Played, Base, Typed
<1>3. HasAnim /\ (HasAnim)' /\ t \in Playing /\ t \in Showing
  BY <1>1, <1>2, NoAnimationAssumption DEF Places, Playing, Showing, TypeOK, HasAnim
<1>4. /\ Playing' \subseteq Playing /\ Showing' \subseteq Showing \ {t}
      /\ \A u \in Tasks : stage'[u] = "park" => stage[u] = "park"
  BY <1>1, <1>3, SetsMove
<1>5. CASE UNCHANGED <<z, anim, unacked>>
  <2>1. SamePlace(anim, anim')
    BY <1>5 DEF SamePlace
  <2> QED BY <1>1, <1>3, <1>4, <1>5, <2>1, PlayedKept
<1>6. CASE ~UNCHANGED <<z, anim, unacked>>
  <2>1. /\ unacked' = unacked \/ (unacked' = Append(unacked, frame) /\ shows)
        /\ unacked' # unacked => z[anim.file] # next
        /\ unacked' = unacked /\ shows /\ z[anim.file] # next => UNCHANGED <<z, anim>>
        /\ shows => z' = [z EXCEPT ![anim.file] = next]
        /\ ~shows => z' = z
        /\ anim'.current_frame = IF shows THEN next ELSE cur
        /\ anim'.file = anim.file /\ anim'.cancelled = anim.cancelled
        /\ anim'.file_open = anim.file_open
        /\ anim'.waiting_flow_event = anim.waiting_flow_event
        /\ anim'.last_flow_frame = flow
        /\ mode # "reverse" => anim'.going_forward = anim.going_forward
        /\ mode = "reverse" \/ AsAsked(anim) =>
             anim'.next_frame = next \/ Follows(mode, delta, next, anim'.next_frame)
        /\ mode = "once" /\ AsAsked(anim) =>
             /\ Along(delta, next) <= Along(delta, anim'.next_frame)
             /\ Along(delta, anim'.next_frame) <= Along(delta, next) + Step
    BY <1>6, ShowEffect
  <2>2. /\ next \in Nat /\ cur \in Nat /\ flow \in Nat /\ anim.file \in Files
        /\ next \in Channels /\ anim_id \in 1..MaxStarts
    BY <1>1, <1>3, ObjectOf DEF Objects
  <2>3. /\ unacked \in Seq((1..MaxStarts) \X Channels) /\ len \in Nat
        /\ unacked # <<>> => LastFrame[1] \in 1..anim_id /\ LastFrame[2] \in Nat /\ len \in DOMAIN unacked
    BY UnackedOf
  <2>4. shows => z'[anim.file] = next
    BY <1>2, <2>1, <2>2 DEF TypeOK
  <2>5. /\ mode # "reverse" => AsAsked(anim)
        /\ ~anim.cancelled => anim.file_open
        /\ ~anim.cancelled /\ ~orphaned => anim.file \in open_files
        /\ orphaned => anim.file \notin open_files
    BY <1>2, <1>3 DEF Ordered
  <2>6. shows <=> ~anim.cancelled /\ ~orphaned
    BY <2>5
  <2>7. unacked' = Append(unacked, frame) =>
          /\ Len(unacked') = len + 1 /\ LastFrame' = frame /\ unacked' # unacked
          /\ \A i \in DOMAIN unacked' :
               \/ i = len + 1 /\ unacked'[i] = frame
               \/ i # len + 1 /\ i \in DOMAIN unacked /\ unacked'[i] = unacked[i]
    <3>1. frame \in (1..MaxStarts) \X Channels
      BY <2>2
    <3> QED BY <2>3, <3>1 DEF LastFrame
  <2>8. shows /\ unacked' = unacked => z[anim.file] = next
    BY <1>6, <2>1
  <2> HIDE DEF shows
  <2>9. Chain'
    BY <1>1, <1>2, <1>3, <1>4, <2>1 DEF Chain, Parked
  <2>10. Ordered'
    <3>1. ASSUME ~anim'.cancelled, ~orphaned, unacked' # <<>>, LastFrame'[1] = anim_id
          PROVE  /\ z'[anim'.file] = LastFrame'[2]
                 /\ \/ anim'.next_frame = LastFrame'[2]
                    \/ Follows(mode, delta, LastFrame'[2], anim'.next_frame)
      <4>1. shows /\ ~anim.cancelled /\ ~orphaned
        BY <2>1, <2>6, <3>1
      <4>2. LastFrame'[2] = next
        <5>1. CASE unacked' = unacked
          <6>1. LastFrame' = LastFrame /\ z[anim.file] = next
            BY <2>8, <4>1, <5>1 DEF LastFrame
          <6> QED BY <1>3, <3>1, <4>1, <5>1, <6>1, NextToShow
        <5>2. CASE unacked' # unacked
          BY <2>1, <2>7, <5>2
        <5> QED BY <5>1, <5>2
      <4>3. \/ anim'.next_frame = next \/ Follows(mode, delta, next, anim'.next_frame)
        BY <2>1, <2>5
      <4> QED BY <2>1, <2>4, <4>1, <4>2, <4>3
    <3>2. /\ mode' # "reverse" => (AsAsked(anim))'
          /\ ~anim'.cancelled => anim'.file_open
          /\ ~anim'.cancelled /\ ~orphaned' => anim'.file \in open_files'
          /\ orphaned' => anim'.file \notin open_files'
      BY <1>1, <2>1, <2>5 DEF AsAsked
    <3> QED BY <1>1, <3>1, <3>2 DEF Ordered
  <2>11. OnePass'
    <3> SUFFICES ASSUME ~forked, anim_id = 1, mode = "once"
                 PROVE  OnePass'
      BY <1>1 DEF OnePass
    <3> DEFINE cur2 == anim'.current_frame
               next2 == anim'.next_frame
    <3>1. /\ AsAsked(anim) /\ Gap(anim) = Along(delta, cur) - Along(delta, flow)
          /\ Gap(anim)' = Along(delta, cur2) - Along(delta, flow)
      <4>1. AsAsked(anim) /\ Gap(anim) = Along(delta, cur) - Along(delta, flow)
        BY PassGap
      <4>2. anim'.going_forward = anim.going_forward /\ cur2 \in Int
        BY <2>1, <2>2
      <4> QED BY <1>1, <2>1, <2>2, <4>1, <4>2 DEF Gap, Along, AsAsked, Objects
    <3>2. /\ Along(delta, flow) <= Along(delta, cur) /\ Along(delta, cur) <= Along(delta, next)
          /\ shows => Along(delta, next) <= Along(delta, cur) + Step
          /\ \A i \in DOMAIN unacked : /\ Along(delta, flow) <= Along(delta, unacked[i][2])
                                       /\ Along(delta, unacked[i][2]) <= Along(delta, cur)
          /\ \A i, j \in DOMAIN unacked :
               i <= j => Along(delta, unacked[i][2]) <= Along(delta, unacked[j][2])
          /\ Gap(anim) <= Window
      BY <1>2, <1>3, <2>6 DEF OnePass
    <3>3. Showing' = {}
      BY <1>2, <1>3, <1>4 DEF Chain, Showing
    <3>4. /\ Along(delta, flow) \in Int /\ Along(delta, cur) \in Int /\ Along(delta, next) \in Int
          /\ Along(delta, next2) \in Int
          /\ Step \in Nat /\ Step' = Step /\ delta' = delta /\ Window \in Nat
      BY <1>1, <1>2, <2>2, PlanOf, NumbersAssumption DEF Along, Step, Objects, Channels
    <3>5. /\ Along(delta, next) <= Along(delta, next2)
          /\ Along(delta, next2) <= Along(delta, next) + Step
      BY <2>1, <3>1
    <3>6. cur2 = (IF shows THEN next ELSE cur) /\ anim'.last_flow_frame = flow
      BY <2>1
    <3>7. /\ Along(delta, flow) <= Along(delta, cur2) /\ Along(delta, cur) <= Along(delta, cur2)
          /\ Along(delta, cur2) <= Along(delta, next2)
          /\ shows => Along(delta, next2) <= Along(delta, cur2) + Step
          /\ Along(delta, cur2) \in Int
      BY <3>2, <3>4, <3>5, <3>6
    <3>8. Gap(anim)' <= Window + Step
      BY <3>1, <3>2, <3>4, <3>6
    <3>9. ~anim'.cancelled /\ ~orphaned' => shows
      BY <1>1, <2>1, <2>6
    <3>10. \A i \in DOMAIN unacked' : Along(delta, unacked'[i][2]) \in Int
             /\ Along(delta, flow) <= Along(delta, unacked'[i][2])
             /\ Along(delta, unacked'[i][2]) <= Along(delta, cur2)
      <4>1. \A i \in DOMAIN unacked : Along(delta, unacked[i][2]) \in Int
        BY <1>2, PlanOf, UnackedOf DEF Along
      <4>2. CASE unacked' = unacked
        BY <3>2, <3>4, <3>7, <4>1, <4>2
      <4>3. CASE unacked' = Append(unacked, frame) /\ shows
        <5>1. cur2 = next /\ frame[2] = next
          BY <3>6, <4>3
        <5> QED BY <2>7, <3>2, <3>4, <3>7, <4>1, <4>3, <5>1
      <4> QED BY <2>1, <4>2, <4>3
    <3>11. \A i, j \in DOMAIN unacked' :
             i <= j => Along(delta, unacked'[i][2]) <= Along(delta, unacked'[j][2])
      <4>1. CASE unacked' = unacked
        BY <3>2, <4>1
      <4>2. CASE unacked' = Append(unacked, frame) /\ shows
        <5> SUFFICES ASSUME NEW i \in DOMAIN unacked', NEW j \in DOMAIN unacked', i <= j
                     PROVE  Along(delta, unacked'[i][2]) <= Along(delta, unacked'[j][2])
          OBVIOUS
        <5>1. CASE j = len + 1
          <6>1. unacked'[j][2] = next /\ cur2 = next
            BY <2>7, <3>6, <4>2, <5>1
          <6> QED BY <3>10, <6>1
        <5>2. CASE j # len + 1
          <6>1. /\ j \in DOMAIN unacked /\ unacked'[j] = unacked[j] /\ j \in 1..len
                /\ i \in 1..(len + 1)
            BY <2>3, <2>7, <4>2, <5>2
          <6>2. i # len + 1
            BY <2>3, <6>1
          <6>3. i \in DOMAIN unacked /\ unacked'[i] = unacked[i]
            BY <2>7, <4>2, <6>2
          <6> QED BY <3>2, <6>1, <6>3
        <5> QED BY <5>1, <5>2
      <4> QED BY <2>1, <4>1, <4>2
    <3> HIDE DEF cur2, next2, flow
    <3>12. /\ cur2 = anim'.current_frame /\ next2 = anim'.next_frame
           /\ flow = anim'.last_flow_frame
      BY <2>1 DEF cur2, next2, flow
    <3> QED BY <3>3, <3>4, <3>7, <3>8, <3>9, <3>10, <3>11, <3>12 DEF OnePass
  <2>12. Ahead'
    <3> SUFFICES ASSUME ~forked PROVE ~(Parked)' /\ \A u \in Tasks : stage'[u] # "park"
      BY <1>1 DEF Ahead
    <3>1. ~(Parked)'
      BY <1>2, <1>3, <2>1 DEF Chain, Parked
    <3>2. \A u \in Tasks : stage[u] # "park"
      BY <1>1, <1>2, <1>3 DEF Chain, Playing, Places, TypeOK
    <3> QED BY <1>4, <3>1, <3>2
  <2> QED BY <2>9, <2>10, <2>11, <2>12 DEF Played
<1> QED BY <1>5, <1>6

LEMMA PlayedInit == Init => Played
<1> SUFFICES ASSUME Init PROVE Played
  OBVIOUS
<1>1. ~HasAnim /\ anim_id # 1 /\ \A t \in Tasks : stage[t] = "free"
  BY DEF Init, HasAnim
<1>2. Playing = {} /\ ~Parked
  BY <1>1 DEF Playing, Parked
<1> QED BY <1>1, <1>2 DEF Played, Chain, Ordered, OnePass, Ahead

LEMMA PlayedStep == Base /\ Played /\ [Next]_vars => Played'
<1> SUFFICES ASSUME Base, Played, [Next]_vars PROVE Played'
  OBVIOUS
<1>1. CASE UNCHANGED vars
  <2>1. UNCHANGED <<mode, start, delta, open_files, closing, z, anim, anim_id, kind, stage, unacked, forked, orphaned, missed>>
    BY <1>1 DEF vars
  <2>2. SamePlace(anim, anim') /\ ((HasAnim)' <=> HasAnim)
    BY <2>1 DEF SamePlace, HasAnim
  <2>3. Playing' = Playing /\ Showing' = Showing
    BY <2>1 DEF Playing, Showing
  <2> QED BY <2>1, <2>2, <2>3, PlayedKept
<1>2. ASSUME NEW f \in Files,
             \/ Message(StartAnimation(f)) \/ Message(StopAnimation(f))
             \/ Message(CloseFile(f)) \/ Live(DeleteFrame(f))
             \/ Message(~orphaned /\ OpenFile(f))
      PROVE  Played'
  BY <1>2, PlayedStart, PlayedMessages DEF Message, Live, client
<1>3. CASE Message(HandleFlowControl)
  BY <1>3, PlayedFlow DEF Message, Live, client
<1>4. CASE Live(Dequeue)
  <2>1. CASE Tasks = {}
    <3>1. queue \in Seq(Tasks) /\ queue # <<>>
      BY <1>4 DEF Live, Dequeue, Base, Typed
    <3>2. Head(queue) \in Tasks
      BY <3>1
    <3> QED BY <2>1, <3>2
  <2>2. CASE Tasks # {}
    <3>1. PICK t \in Tasks : TRUE
      BY <2>2
    <3> QED BY <1>4, <3>1, PlayedSteps DEF Live, client
  <2> QED BY <2>1, <2>2
<1>5. ASSUME NEW t \in Tasks, Live(Execute(t)) PROVE Played'
  BY <1>5, PlayedSteps, PlayedBuild, PlayedShow, PlayedCompare, PlayedPark DEF Live, client, Execute
<1> QED BY <1>1, <1>2, <1>3, <1>4, <1>5 DEF Next

\* The tasks play one chain of frames, in order and within the window.
THEOREM Inductive == Spec => [](Base /\ Played)
<1>1. Init => Base /\ Played
  BY BaseInit, PlayedInit
<1>2. (Base /\ Played) /\ [Next]_vars => (Base /\ Played)'
  BY BaseStep, PlayedStep
<1> QED BY <1>1, <1>2, PTL DEF Spec

\* Stopping, parking and resuming never start a second chain of tasks.
THEOREM OneChainPlays == Spec => []OneChain
<1>1. Played => OneChain
  <2> SUFFICES ASSUME Played, ~forked PROVE Cardinality(Playing) <= 1
    BY DEF OneChain
  <2>1. \A t, u \in Playing : t = u
    BY DEF Played, Chain
  <2>2. CASE Playing = {}
    BY <2>2, FS_EmptySet
  <2>3. CASE Playing # {}
    <3>1. PICK t \in Playing : TRUE
      BY <2>3
    <3>2. Playing = {t}
      BY <2>1, <3>1
    <3>3. Cardinality({t}) = 1
      BY FS_Singleton
    <3> QED BY <3>2, <3>3
  <2> QED BY <2>2, <2>3
<1> QED BY <1>1, Inductive, PTL

\* For any plan and window: in a single pass the frames the client has yet to
\* confirm span the window and one step at most, and playing stops only while
\* it is behind.
THEOREM WindowIsKept == Spec => []WindowKept
<1>1. Base /\ Played => WindowKept
  <2> SUFFICES ASSUME Base, Played PROVE ClientKeepsUp /\ ParkedOnlyAhead
    BY DEF WindowKept
  <2>1. ClientKeepsUp
    <3> SUFFICES ASSUME ~forked, anim_id = 1, mode = "once", unacked # <<>>
                 PROVE  Span <= Window + Step
      BY DEF ClientKeepsUp
    <3> DEFINE first == unacked[1][2]
               last == LastFrame[2]
               cur == anim.current_frame
               flow == anim.last_flow_frame
    <3>1. /\ HasAnim /\ Gap(anim) = Along(delta, cur) - Along(delta, flow)
          /\ 1 \in DOMAIN unacked /\ Len(unacked) \in DOMAIN unacked
      BY PassGap, UnackedOf
    <3>2. first \in Nat /\ last \in Nat /\ cur \in Nat /\ flow \in Nat
      BY <3>1, UnackedOf, ObjectOf
    <3>3. /\ Along(delta, flow) <= Along(delta, first) /\ Along(delta, last) <= Along(delta, cur)
          /\ Gap(anim) <= Window + Step
      BY <3>1 DEF Played, OnePass, LastFrame
    <3>4. delta \in Int /\ Step \in Nat /\ Window \in Nat
      BY PlanOf, NumbersAssumption DEF Base, Typed
    <3>5. Span = Along(delta, last) - Along(delta, first)
      BY <3>2, <3>4, SMTT(30) DEF Span, Along, LastFrame
    <3>6. \A c \in Nat : Along(delta, c) \in Int
      BY <3>4 DEF Along
    <3> HIDE DEF first, last, cur, flow
    <3>7. /\ Along(delta, flow) \in Int /\ Along(delta, first) \in Int
          /\ Along(delta, last) \in Int /\ Along(delta, cur) \in Int
      BY <3>2, <3>6
    <3> HIDE DEF Along
    <3> QED BY <3>1, <3>3, <3>4, <3>5, <3>7
  <2>2. ParkedOnlyAhead
    BY DEF Played, Ahead, ParkedOnlyAhead
  <2> QED BY <2>1, <2>2
<1> QED BY <1>1, Inductive, PTL

\* For any range and plan, forwards or backwards, from any frame and by any
\* delta: a frame that is sent follows the one before it.
THEOREM FramesFollow == Spec => FramesInOrder
<1> DEFINE A == (~forked' /\ Len(unacked) > 0 /\ Len(unacked') > Len(unacked)) =>
                  LET old == unacked[Len(unacked)]
                      new == unacked'[Len(unacked')]
                  IN  old[1] = new[1] => Follows(mode, delta, old[2], new[2])
<1>1. ASSUME Base, Played, [Next]_vars PROVE [A]_vars
  <2> SUFFICES ASSUME Len(unacked) > 0, Len(unacked') > Len(unacked),
                      LastFrame[1] = LastFrame'[1]
               PROVE  Follows(mode, delta, LastFrame[2], LastFrame'[2])
    BY DEF LastFrame
  <2>1. unacked \in Seq((1..MaxStarts) \X Channels) /\ unacked # <<>>
    BY <1>1, UnackedOf
  <2>2. unacked' # unacked /\ unacked' # Tail(unacked)
    BY <2>1
  <2>3. PICK t \in Tasks : ShowFrame(t)
    BY <1>1, <2>2 DEF Next, Message, Live, Execute, StartAnimation, StopAnimation, CloseFile, DeleteFrame,
       OpenFile, HandleFlowControl, Dequeue, TestActive, Build, BeginFrame, CompareGap, Park, Finish,
       vars, history
  <2> DEFINE frame == <<anim_id, anim.next_frame>>
  <2>4. /\ unacked' = Append(unacked, frame) /\ frame \in (1..MaxStarts) \X Channels
        /\ stage[t] = "sleep" /\ anim.file \in open_files /\ ~anim.cancelled
        /\ z[anim.file] # anim.next_frame
    BY <1>1, <2>2, <2>3, ShowEffect
  <2>5. LastFrame' = frame
    BY <2>1, <2>4 DEF LastFrame
  <2>6. HasAnim
    BY <1>1, <2>4 DEF Base, Places
  <2>7. ~orphaned
    BY <1>1, <2>4, <2>6 DEF Played, Ordered
  <2>8. /\ z[anim.file] = LastFrame[2]
        /\ \/ anim.next_frame = LastFrame[2]
           \/ Follows(mode, delta, LastFrame[2], anim.next_frame)
    BY <1>1, <2>1, <2>4, <2>5, <2>6, <2>7, NextToShow
  <2> QED BY <2>4, <2>5, <2>8
<1>2. Base /\ Played /\ [Next]_vars => [A]_vars
  BY <1>1
<1> HIDE DEF A
<1>3. Spec => [][A]_vars
  BY <1>2, Inductive, PTL DEF Spec
<1> QED BY <1>3 DEF A, FramesInOrder
=============================================================================
