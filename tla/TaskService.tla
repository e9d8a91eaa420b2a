---------------------------- MODULE TaskService ----------------------------
(***************************************************************************)
(* What ThreadManager promises to the code that hands it OnMessageTasks:   *)
(* a task is started at most once, by one worker, and tasks are started in *)
(* the order in which they were queued.                                    *)
(***************************************************************************)
EXTENDS Sequences

CONSTANT Tasks

VARIABLES pending,   \* tasks queued and not started, oldest first
          running,   \* tasks being executed
          finished   \* tasks executed to the end

vars == <<pending, running, finished>>

Pending == {pending[i] : i \in DOMAIN pending}

Init == pending = <<>> /\ running = {} /\ finished = {}

Submit(t) ==
    /\ t \notin Pending \cup running \cup finished
    /\ pending' = Append(pending, t)
    /\ UNCHANGED <<running, finished>>

Start ==
    /\ pending # <<>>
    /\ running' = running \cup {Head(pending)}
    /\ pending' = Tail(pending)
    /\ UNCHANGED finished

Finish(t) ==
    /\ t \in running
    /\ running' = running \ {t}
    /\ finished' = finished \cup {t}
    /\ UNCHANGED pending

Next == Start \/ \E t \in Tasks : Submit(t) \/ Finish(t)

Spec == Init /\ [][Next]_vars
=============================================================================
