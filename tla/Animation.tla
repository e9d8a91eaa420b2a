------------------------------ MODULE Animation ------------------------------
(***************************************************************************)
(* Animation playback of one session (Session.cc, OnMessageTask.cc,        *)
(* AnimationObject.h).  A StartAnimationTask builds the AnimationObject;   *)
(* then a chain of AnimationTasks plays it, each showing one frame and     *)
(* queueing the next task, or parking the animation until a flow-control   *)
(* message says that the client has caught up.  STOP_ANIMATION,            *)
(* ANIMATION_FLOW_CONTROL and CLOSE_FILE are handled on the main thread,   *)
(* between any two steps of the tasks.                                     *)
(*                                                                         *)
(* CLOSE_FILE holds up the main thread between its two parts.              *)
(*                                                                         *)
(* A frame is its channel, the range of an animation 0..Last.              *)
(* The shared flags (_animation_active, _stop_called, ...) are volatile    *)
(* members without a lock, so every read of one is a step of its own.      *)
(***************************************************************************)
EXTENDS Integers, Sequences, FiniteSets

CONSTANTS Files,       \* file ids
          MaxTasks,    \* bound on the task objects that exist at once
          Workers,     \* number of event-handling threads
          Plans,       \* what a START_ANIMATION asks for: the first frame to show
                       \* (start), the channels from one to the next, negative to
                       \* play backwards (delta), and what happens at the end of the
                       \* range (mode); the same in all requests of a behaviour
          Last,        \* last channel of the range
          Window,      \* CurrentFlowWindowSize()
          MaxStarts,   \* bound on START_ANIMATION messages
          MaxUnacked,  \* bound on unacked: an animation that wraps does not wait
          NoAnimation

ASSUME NumbersAssumption ==
    /\ Workers \in Nat \ {0} /\ Last \in Nat \ {0}
    /\ Window \in Nat /\ MaxStarts \in Nat
    /\ MaxTasks \in Nat /\ MaxUnacked \in Nat
Channels == 0..Last
Modes == {"once", "loop", "reverse"}
ASSUME PlansAssumption ==
    Plans \subseteq [mode : Modes, start : Channels, delta : Int \ {0}]
ASSUME FilesAssumption == Files # {}

VARIABLES mode,           \* looping and reverse_at_end of the client's requests
          start,          \* start_frame
          delta,          \* delta_frame
          open_files,     \* keys of _frames
          closing,        \* the file of a CLOSE_FILE that the main thread is at
          z,              \* the channel each Frame shows
          anim,           \* *_animation_object, or NoAnimation
          anim_id,        \* number of the object, for the history
          active,         \* _animation_active
          queue,          \* the tasks of this session in the pool's queue
          kind,           \* "start": a StartAnimationTask, "play": an AnimationTask
          stage,          \* where each task is; "free": no such task
          request,        \* the file of a StartAnimationTask's message
          starts,         \* START_ANIMATION messages so far
          unacked         \* frames shown and not acknowledged: <<object, channel>>

VARIABLES forked,   \* history: a task was started beside a chain in play
          orphaned,     \* history: the file was deleted under an object that was
                        \* built after the CLOSE_FILE had marked the one before
          missed,       \* history: an acknowledgement came just before a park
          crashed       \* history: a task found no animation object

vars == <<mode, start, delta, open_files, closing, z, anim, anim_id, active, queue, kind, stage, request,
          starts, unacked, forked, orphaned, missed, crashed>>

client == <<mode, start, delta>>
files == <<open_files, closing>>
history == <<forked, orphaned, missed, crashed>>

Tasks == 1..MaxTasks
NoRequest == CHOOSE f \in Files : TRUE
Objects == [file : Files, stop_called : BOOLEAN, file_open : BOOLEAN,
            waiting_flow_event : BOOLEAN, cancelled : BOOLEAN, going_forward : BOOLEAN,
            next_frame : Channels, current_frame : Channels, last_flow_frame : Channels]

ASSUME NoAnimationAssumption == NoAnimation \notin Objects

TypeOK ==
    /\ [mode |-> mode, start |-> start, delta |-> delta] \in Plans
    /\ open_files \subseteq Files /\ closing \subseteq open_files
    /\ z \in [Files -> Channels]
    /\ anim \in Objects \cup {NoAnimation}
    /\ anim_id \in 0..MaxStarts
    /\ active \in BOOLEAN
    /\ \A i \in DOMAIN queue : queue[i] \in Tasks
    /\ kind \in [Tasks -> {"start", "play"}]
    /\ stage \in [Tasks -> {"free", "queued", "begin", "build", "sleep", "gap",
                            "park", "finish"}]
    /\ request \in [Tasks -> Files]
    /\ starts \in 0..MaxStarts
    /\ \A i \in DOMAIN unacked : unacked[i] \in (1..MaxStarts) \X Channels
    /\ {forked, orphaned, missed, crashed} \subseteq BOOLEAN

Init ==
    /\ \E p \in Plans : mode = p.mode /\ start = p.start /\ delta = p.delta
    /\ open_files = Files /\ closing = {}
    /\ z = [f \in Files |-> 0]
    /\ anim = NoAnimation
    /\ anim_id = 0
    /\ active = FALSE
    /\ queue = <<>>
    /\ kind = [t \in Tasks |-> "play"]
    /\ stage = [t \in Tasks |-> "free"]
    /\ request = [t \in Tasks |-> NoRequest]
    /\ starts = 0
    /\ unacked = <<>>
    /\ forked = FALSE /\ orphaned = FALSE /\ missed = FALSE /\ crashed = FALSE

HasAnim == anim # NoAnimation
Parked == HasAnim /\ anim.waiting_flow_event

Running == {t \in Tasks : stage[t] \notin {"free", "queued"}}

\* AnimationTasks that may still show or queue a frame.
Playing == {t \in Tasks : kind[t] = "play" /\ stage[t] \notin {"free", "finish"}}

\* _delta_frame: the delta without its sign, which is in _going_forward.
Step == IF delta < 0 THEN -delta ELSE delta

\* Mutant of Gap: the two frames are swapped.
GapSwapped(a) == IF a.going_forward THEN a.last_flow_frame - a.current_frame
                                    ELSE a.current_frame - a.last_flow_frame

\* CalculateAnimationFlowWindow: how far the animation is ahead of the client.
Gap(a) == IF a.going_forward THEN a.current_frame - a.last_flow_frame
                             ELSE a.last_flow_frame - a.current_frame

\* The name of a task object created now; names are reused.
Free == {t \in Tasks : stage[t] = "free"}
NewTask == CHOOSE t \in Free : TRUE

QueueTask(t, k) ==
    /\ kind' = [kind EXCEPT ![t] = k]
    /\ queue' = Append(queue, t)

-----------------------------------------------------------------------------
(***************************************************************************)
(* The main thread: messages of the client.                                *)
(***************************************************************************)

\* START_ANIMATION: CancelExistingAnimation, and a StartAnimationTask.
StartAnimation(f) ==
    /\ starts < MaxStarts /\ Free # {}
    /\ starts' = starts + 1
    /\ anim' = IF HasAnim THEN [anim EXCEPT !.cancelled = TRUE] ELSE anim
    /\ QueueTask(NewTask, "start")
    /\ stage' = [stage EXCEPT ![NewTask] = "queued"]
    /\ request' = [request EXCEPT ![NewTask] = f]
    /\ UNCHANGED <<files, z, anim_id, active, unacked, history>>

StopAnimation(f) ==
    /\ HasAnim /\ anim.file = f
    /\ anim' = [anim EXCEPT !.stop_called = TRUE]
    /\ UNCHANGED <<files, z, anim_id, active, queue, kind, stage, request,
                   starts, unacked, history>>

\* Mutant of HandleFlowControl: the parked animation is not resumed.
HandleFlowControlOnly ==
    /\ unacked # <<>>
    /\ unacked' = Tail(unacked)
    /\ anim' = [anim EXCEPT !.last_flow_frame = Head(unacked)[2]]
    /\ missed' = (missed \/ \E u \in Tasks : stage[u] = "park")
    /\ UNCHANGED <<files, z, anim_id, active, queue, kind, stage, request, starts,
                   forked, orphaned, crashed>>

\* Mutant of HandleFlowControl: the animation keeps waiting when it is resumed.
HandleFlowControlTwice ==
    /\ unacked # <<>> /\ Free # {}
    /\ unacked' = Tail(unacked)
    /\ missed' = (missed \/ \E u \in Tasks : stage[u] = "park")
    /\ anim' = [anim EXCEPT !.last_flow_frame = Head(unacked)[2]]
    /\ IF anim.waiting_flow_event /\ Gap(anim') <= Window
         THEN /\ QueueTask(NewTask, "play")
              /\ stage' = [stage EXCEPT ![NewTask] = "queued"]
         ELSE UNCHANGED <<queue, kind, stage>>
    /\ UNCHANGED <<files, z, anim_id, active, request, starts, forked, orphaned, crashed>>

\* ANIMATION_FLOW_CONTROL for the oldest frame the client has not confirmed;
\* the message's animation id is not looked at.
HandleFlowControl ==
    /\ unacked # <<>> /\ Free # {}
    /\ unacked' = Tail(unacked)
    /\ missed' = (missed \/ \E u \in Tasks : stage[u] = "park")
    /\ LET a == [anim EXCEPT !.last_flow_frame = Head(unacked)[2]]
       IN  IF a.waiting_flow_event /\ Gap(a) <= Window
             THEN /\ anim' = [a EXCEPT !.waiting_flow_event = FALSE]
                  /\ QueueTask(NewTask, "play")
                  /\ stage' = [stage EXCEPT ![NewTask] = "queued"]
             ELSE anim' = a /\ UNCHANGED <<queue, kind, stage>>
    /\ UNCHANGED <<files, z, anim_id, active, request, starts, forked, orphaned, crashed>>

\* CLOSE_FILE begins with CheckCancelAnimationOnFileClose, which ignores its
\* file id.
CloseFile(f) ==
    /\ f \in open_files
    /\ closing' = {f}
    /\ anim' = IF HasAnim THEN [anim EXCEPT !.file_open = FALSE, !.cancelled = TRUE]
                          ELSE anim
    /\ UNCHANGED <<open_files, z, anim_id, active, queue, kind, stage, request, starts, unacked, history>>

\* CLOSE_FILE ends with DeleteFrame, which waits for the work on the file: a
\* StartAnimationTask may find it still open.
DeleteFrame(f) ==
    /\ f \in closing
    /\ closing' = {} /\ open_files' = open_files \ {f}
    /\ orphaned' = (orphaned \/ (HasAnim /\ anim.file = f /\ anim.file_open))
    /\ UNCHANGED <<z, anim, anim_id, active, queue, kind, stage, request, starts,
                   unacked, forked, missed, crashed>>

OpenFile(f) ==
    /\ f \notin open_files
    /\ open_files' = open_files \cup {f}
    /\ z' = [z EXCEPT ![f] = 0]
    /\ UNCHANGED <<closing, anim, anim_id, active, queue, kind, stage, request, starts,
                   unacked, history>>

-----------------------------------------------------------------------------
(***************************************************************************)
(* Worker threads.                                                         *)
(***************************************************************************)

Dequeue ==
    /\ queue # <<>> /\ Cardinality(Running) < Workers
    /\ queue' = Tail(queue)
    /\ stage' = [stage EXCEPT ![Head(queue)] = "begin"]
    /\ UNCHANGED <<files, z, anim, anim_id, active, kind, request, starts,
                   unacked, history>>

\* StartAnimationTask::execute tests AnimationActive; if an animation is
\* active it queues itself again (a new object, named as the old one).
TestActive(t) ==
    /\ kind[t] = "start" /\ stage[t] = "begin"
    /\ IF active
         THEN /\ stage' = [stage EXCEPT ![t] = "queued"]
              /\ queue' = Append(queue, t)
         ELSE /\ stage' = [stage EXCEPT ![t] = "build"]
              /\ UNCHANGED queue
    /\ UNCHANGED <<files, z, anim, anim_id, active, kind, request, starts,
                   unacked, history>>

\* Mutant of NewObject: a negative delta does not play backwards.
NewObjectForward(f) ==
    [file |-> f, stop_called |-> FALSE, file_open |-> TRUE,
     waiting_flow_event |-> FALSE, cancelled |-> FALSE, going_forward |-> TRUE,
     next_frame |-> start, current_frame |-> start, last_flow_frame |-> start]

NewObject(f) ==
    [file |-> f, stop_called |-> FALSE, file_open |-> TRUE,
     waiting_flow_event |-> FALSE, cancelled |-> FALSE, going_forward |-> delta > 0,
     next_frame |-> start, current_frame |-> start, last_flow_frame |-> start]

\* SetAnimationActive(true); BuildAnimationObject, which keeps the old object
\* if the file is not open; and the first AnimationTask, queued in either case.
Build(t) ==
    /\ stage[t] = "build"
    /\ active' = TRUE
    /\ IF request[t] \in open_files
         THEN anim' = NewObject(request[t]) /\ anim_id' = anim_id + 1 /\ orphaned' = FALSE
         ELSE UNCHANGED <<anim, anim_id, orphaned>>
    /\ kind' = [kind EXCEPT ![t] = "play"]
    /\ stage' = [stage EXCEPT ![t] = "queued"]
    /\ queue' = Append(queue, t)
    /\ request' = [request EXCEPT ![t] = NoRequest]
    /\ forked' = (forked \/ Playing # {}
                      \/ (HasAnim /\ request[t] \notin open_files))
    /\ UNCHANGED <<files, z, starts, unacked, missed, crashed>>

\* Mutant of BeginFrame: a closed file does not end the animation.
BeginFrameUnopened(t) ==
    /\ kind[t] = "play" /\ stage[t] = "begin"
    /\ crashed' = (crashed \/ ~HasAnim)
    /\ stage' = [stage EXCEPT ![t] =
                   IF ~HasAnim THEN "finish"
                   ELSE IF anim.waiting_flow_event \/ anim.stop_called
                   THEN "finish" ELSE "sleep"]
    /\ UNCHANGED <<files, z, anim, anim_id, active, queue, kind, request,
                   starts, unacked, forked, orphaned, missed>>

\* ExecuteAnimationFrame up to its sleep.
BeginFrame(t) ==
    /\ kind[t] = "play" /\ stage[t] = "begin"
    /\ crashed' = (crashed \/ ~HasAnim)
    /\ stage' = [stage EXCEPT ![t] =
                   IF ~HasAnim THEN "finish"
                   ELSE IF ~anim.file_open \/ anim.waiting_flow_event \/ anim.stop_called
                   THEN "finish" ELSE "sleep"]
    /\ UNCHANGED <<files, z, anim, anim_id, active, queue, kind, request,
                   starts, unacked, forked, orphaned, missed>>

\* Mutant of AtEnd: the end of the range is noticed one frame too late.
AtEndPast(a) == IF a.going_forward THEN a.next_frame > Last ELSE a.next_frame < 0

\* A step from the next frame leaves the range.
AtEnd(a) == IF a.going_forward THEN a.next_frame + Step > Last ELSE a.next_frame - Step < 0

\* The step to the next frame: turn round, wrap, stay at the end or go on.
Advance(a) ==
    IF AtEnd(a) /\ mode = "reverse"
      THEN [a EXCEPT !.going_forward = ~@]
    ELSE IF AtEnd(a) /\ mode = "loop"
      THEN [a EXCEPT !.next_frame = IF a.going_forward THEN 0 ELSE Last]
    ELSE IF AtEnd(a) THEN a
    ELSE [a EXCEPT !.next_frame = IF a.going_forward THEN @ + Step ELSE @ - Step]

\* ExecuteAnimationFrame after its sleep: the frame is shown, unless the
\* animation was cancelled or its file closed (ExecuteAnimationFrameInner),
\* and sent, unless the Frame has this channel already; the object moves to
\* the next frame; false at the end of a single pass.
ShowFrame(t) ==
    LET shows == anim.file \in open_files /\ ~anim.cancelled
        sends == shows /\ z[anim.file] # anim.next_frame
        shown == IF shows THEN [anim EXCEPT !.current_frame = anim.next_frame] ELSE anim
    IN
    /\ stage[t] = "sleep" /\ Len(unacked) < MaxUnacked
    /\ IF anim.stop_called
         THEN /\ stage' = [stage EXCEPT ![t] = "finish"]
              /\ UNCHANGED <<z, anim, unacked>>
         ELSE /\ stage' = [stage EXCEPT ![t] =
                              IF AtEnd(anim) /\ mode = "once" THEN "finish" ELSE "gap"]
              /\ z' = IF shows THEN [z EXCEPT ![anim.file] = anim.next_frame] ELSE z
              /\ unacked' = IF sends THEN Append(unacked, <<anim_id, anim.next_frame>>)
                                     ELSE unacked
              /\ anim' = Advance(shown)
    /\ UNCHANGED <<files, anim_id, active, queue, kind, request, starts, history>>

\* AnimationTask::execute compares the gap with the window and queues the next
\* task if the client keeps up.
CompareGap(t) ==
    /\ stage[t] = "gap"
    /\ IF Gap(anim) > Window
         THEN /\ stage' = [stage EXCEPT ![t] = "park"]
              /\ UNCHANGED <<queue, kind>>
         ELSE /\ Free # {}
              /\ QueueTask(NewTask, "play")
              /\ stage' = [stage EXCEPT ![t] = "finish", ![NewTask] = "queued"]
    /\ UNCHANGED <<files, z, anim, anim_id, active, request, starts,
                   unacked, history>>

\* SetWaitingTask(true)
Park(t) ==
    /\ stage[t] = "park"
    /\ anim' = [anim EXCEPT !.waiting_flow_event = TRUE]
    /\ stage' = [stage EXCEPT ![t] = "finish"]
    /\ UNCHANGED <<files, z, anim_id, active, queue, kind, request, starts,
                   unacked, history>>

\* Mutant of Finish: the animation stays active.
FinishActive(t) ==
    /\ stage[t] = "finish"
    /\ stage' = [stage EXCEPT ![t] = "free"]
    /\ UNCHANGED <<files, z, anim, anim_id, active, queue, kind, request, starts,
                   unacked, history>>

\* SetAnimationActive(false), whatever was queued before, and the task ends.
Finish(t) ==
    /\ stage[t] = "finish"
    /\ active' = FALSE
    /\ stage' = [stage EXCEPT ![t] = "free"]
    /\ UNCHANGED <<files, z, anim, anim_id, queue, kind, request, starts,
                   unacked, history>>

-----------------------------------------------------------------------------
Execute(t) ==
    \/ TestActive(t) \/ Build(t)
    \/ BeginFrame(t) \/ ShowFrame(t)
    \/ CompareGap(t) \/ Park(t) \/ Finish(t)

\* A crash ends the process; two chains race for one object, freed by the one
\* under the hands of the other, and are not followed further.  Nor is an
\* orphaned animation whose file id is given to another file.
Live(A) == ~crashed /\ ~forked /\ A /\ UNCHANGED client

\* The main thread handles one message after the other.
Message(A) == closing = {} /\ Live(A)

Next ==
    \/ \E f \in Files :
         \/ Message(StartAnimation(f)) \/ Message(StopAnimation(f))
         \/ Message(CloseFile(f)) \/ Live(DeleteFrame(f))
         \/ Message(~orphaned /\ OpenFile(f))
    \/ Message(HandleFlowControl)
    \/ Live(Dequeue)
    \/ \E t \in Tasks : Live(Execute(t))

Spec == Init /\ [][Next]_vars

\* The pool runs queued tasks and tasks end, so that a file that is closed can
\* be deleted; a client confirms what it gets, and its message has its turn
\* however many files the main thread opens and closes.
FairSpec ==
    /\ Spec
    /\ WF_vars(Live(Dequeue)) /\ SF_vars(Message(HandleFlowControl))
    /\ \A f \in Files : WF_vars(Live(DeleteFrame(f)))
    /\ \A t \in Tasks : WF_vars(Live(Execute(t)))

-----------------------------------------------------------------------------
(***************************************************************************)
(* Properties.                                                             *)
(***************************************************************************)

\* One chain of tasks plays the animation, unless a StartAnimationTask began
\* another beside it: parking, resuming and stopping never fork a chain.
OneChain == ~forked => Cardinality(Playing) <= 1

\* Frames are sent in order: the next one of an object follows the one before
\* by the delta, by a turn at an end, or by the wrap of a loop; none is left
\* out, or sent twice at a turn (AnimationObject.h, ExecuteAnimationFrame).
Follows(m, e, c, d) ==
    \/ d = c + e
    \/ m = "reverse" /\ d = c - e
    \/ m = "loop" /\ (IF e > 0 THEN c + e > Last /\ d = 0 ELSE c + e < 0 /\ d = Last)
FramesInOrder ==
    [][ (~forked' /\ Len(unacked) > 0 /\ Len(unacked') > Len(unacked)) =>
          LET old == unacked[Len(unacked)]
              new == unacked'[Len(unacked')]
          IN  old[1] = new[1] => Follows(mode, delta, old[2], new[2]) ]_vars

\* Flow control: in a single pass, forwards or backwards, the frames the client
\* has yet to confirm span the window and one step at most.
Span == IF delta > 0 THEN unacked[Len(unacked)][2] - unacked[1][2]
                     ELSE unacked[1][2] - unacked[Len(unacked)][2]
ClientKeepsUp ==
    (~forked /\ anim_id = 1 /\ mode = "once" /\ unacked # <<>>) => Span <= Window + Step

\* An animation is parked only while the client is behind, unless the
\* client's last word fell between the test and the park.
ParkedOnlyAhead ==
    (~forked /\ ~missed /\ anim_id = 1 /\ Parked)
        => Gap(anim) > Window

\* The window of frames sent ahead is neither exceeded nor closed for nothing.
WindowKept == ClientKeepsUp /\ ParkedOnlyAhead

\* A parked animation plays on when the client confirms frames.
ParkedAnimationResumes ==
    Parked ~> (~Parked \/ missed \/ forked \/ anim_id > 1)

\* Every START_ANIMATION is carried out: a StartAnimationTask that finds an
\* animation active, and queues itself again, finds it inactive some day.
\* (MaxStarts bounds the messages, so none may be left for ever.)
StartIsCarriedOut == []<>(crashed \/ forked \/ \A t \in Tasks : kind[t] # "start")

\* An animation that was stopped, or lost its file, comes to rest; one that
\* was orphaned needs to be stopped.
Ended ==
    HasAnim /\ (anim.stop_called \/ ~anim.file_open
                  \/ (anim.file \notin open_files /\ ~orphaned))
StoppedAnimationRests == Ended ~> (Playing = {} \/ ~Ended \/ forked)
=============================================================================
