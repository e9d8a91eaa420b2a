------------------------------ MODULE TaskPool ------------------------------
(***************************************************************************)
(* ThreadManager (ThreadingManager.cc): the global queue of OnMessageTasks,*)
(* its mutex and condition variable, the event-handling worker threads and *)
(* the exit path that SIGINT and the "no sessions" SIGALRM take on the     *)
(* main thread.                                                            *)
(*                                                                         *)
(* A step of a worker is one critical section of _task_queue_mtx, or one   *)
(* read of _has_exited outside it.  Only the main thread can be stopped    *)
(* inside a critical section: a signal handler runs on top of whatever     *)
(* the main thread was doing and never returns to it.  Its QueueTask is    *)
(* therefore two steps and the mutex is a variable.                        *)
(***************************************************************************)
EXTENDS Naturals, Sequences, FiniteSets

CONSTANTS Workers,    \* the event-handling threads
          Tasks,      \* the OnMessageTask objects that are ever created
          NoTask

ASSUME WorkersAssumption == IsFiniteSet(Workers) /\ Workers # {}
ASSUME TasksAssumption == NoTask \notin Tasks

VARIABLES task_queue,   \* _task_queue
          mtx,          \* _task_queue_mtx: "free", or held by "main"
          has_exited,   \* _has_exited
          pc,           \* where each worker is in its loop
          tsk,          \* the task a worker executes
          main_pc,      \* where the main thread is
          finished      \* tasks executed and deleted

vars == <<task_queue, mtx, has_exited, pc, tsk, main_pc, finished>>

Queued == {task_queue[i] : i \in DOMAIN task_queue}
Running == {tsk[w] : w \in {v \in Workers : pc[v] = "run"}}
Created == Queued \cup Running \cup finished

Waiting == {w \in Workers : pc[w] = "wait"}
\* Awake, not executing: on its way to look at the queue again.
Looking == {w \in Workers : pc[w] \in {"loop", "woken", "check"}}

TypeOK ==
    /\ task_queue \in Seq(Tasks)
    /\ mtx \in {"free", "main"}
    /\ has_exited \in BOOLEAN
    /\ pc \in [Workers -> {"loop", "wait", "woken", "run", "check", "exited"}]
    /\ tsk \in [Workers -> Tasks \cup {NoTask}]
    /\ \A w \in Workers : tsk[w] # NoTask <=> pc[w] = "run"
    /\ main_pc \in {"idle", "queueing", "flagged", "joining", "exited"}
    /\ finished \subseteq Tasks

Init ==
    /\ task_queue = <<>>
    /\ mtx = "free"
    /\ has_exited = FALSE
    /\ pc = [w \in Workers |-> "loop"]
    /\ tsk = [w \in Workers |-> NoTask]
    /\ main_pc = "idle"
    /\ finished = {}

-----------------------------------------------------------------------------
\* notify_one wakes one of the threads blocked in wait, if there is one.
NotifyOne ==
    IF Waiting = {}
      THEN UNCHANGED pc
      ELSE \E w \in Waiting : pc' = [pc EXCEPT ![w] = "woken"]

\* Mutant of PushAndNotify: a sleeper is woken only for the first task.
NotifyIfWasEmpty(t) ==
    /\ t \notin Created
    /\ task_queue' = Append(task_queue, t)
    /\ IF task_queue = <<>> THEN NotifyOne ELSE UNCHANGED pc

\* Mutant of PushAndNotify: no notification.
PushSilently(t) ==
    /\ t \notin Created
    /\ task_queue' = Append(task_queue, t)
    /\ UNCHANGED pc

\* The body of QueueTask, run with the mutex held.
PushAndNotify(t) ==
    /\ t \notin Created
    /\ task_queue' = Append(task_queue, t)
    /\ NotifyOne

\* QueueTask on the main thread, up to the end of its critical section.
MainQueueTask(t) ==
    /\ main_pc = "idle" /\ mtx = "free"
    /\ PushAndNotify(t)
    /\ main_pc' = "queueing"
    /\ mtx' = "main"
    /\ UNCHANGED <<has_exited, tsk, finished>>

MainQueueTaskReturn ==
    /\ main_pc = "queueing"
    /\ main_pc' = "idle"
    /\ mtx' = "free"
    /\ UNCHANGED <<task_queue, has_exited, pc, tsk, finished>>

\* QueueTask called by the task a worker executes (AnimationTask::execute).
WorkerQueueTask(w, t) ==
    /\ pc[w] = "run" /\ mtx = "free"
    /\ PushAndNotify(t)
    /\ UNCHANGED <<mtx, has_exited, tsk, main_pc, finished>>

-----------------------------------------------------------------------------
\* The worker takes the mutex, finds the queue empty and waits.
Sleep(w) ==
    /\ pc[w] = "loop" /\ mtx = "free"
    /\ task_queue = <<>>
    /\ pc' = [pc EXCEPT ![w] = "wait"]
    /\ UNCHANGED <<task_queue, mtx, has_exited, tsk, main_pc, finished>>

\* Mutant of Take: the newest task first.
TakeNewest(w) ==
    /\ pc[w] = "loop" /\ mtx = "free"
    /\ task_queue # <<>>
    /\ tsk' = [tsk EXCEPT ![w] = task_queue[Len(task_queue)]]
    /\ task_queue' = SubSeq(task_queue, 1, Len(task_queue) - 1)
    /\ pc' = [pc EXCEPT ![w] = "run"]
    /\ UNCHANGED <<mtx, has_exited, main_pc, finished>>

\* The worker takes the mutex, pops the oldest task and releases the mutex.
Take(w) ==
    /\ pc[w] = "loop" /\ mtx = "free"
    /\ task_queue # <<>>
    /\ tsk' = [tsk EXCEPT ![w] = Head(task_queue)]
    /\ task_queue' = Tail(task_queue)
    /\ pc' = [pc EXCEPT ![w] = "run"]
    /\ UNCHANGED <<mtx, has_exited, main_pc, finished>>

\* tsk->execute() returns and the task is deleted.
Finish(w) ==
    /\ pc[w] = "run"
    /\ finished' = finished \cup {tsk[w]}
    /\ tsk' = [tsk EXCEPT ![w] = NoTask]
    /\ pc' = [pc EXCEPT ![w] = "check"]
    /\ UNCHANGED <<task_queue, mtx, has_exited, main_pc>>

\* if (_has_exited) return
LeaveOrLoop(w) ==
    pc' = [pc EXCEPT ![w] = IF has_exited THEN "exited" ELSE "loop"]

\* wait returns with the mutex, which the end of the loop body releases.
Wake(w) ==
    /\ pc[w] = "woken" /\ mtx = "free"
    /\ LeaveOrLoop(w)
    /\ UNCHANGED <<task_queue, mtx, has_exited, tsk, main_pc, finished>>

\* The test after a task, made without the mutex.
CheckExit(w) ==
    /\ pc[w] = "check"
    /\ LeaveOrLoop(w)
    /\ UNCHANGED <<task_queue, mtx, has_exited, tsk, main_pc, finished>>

\* wait may return without a notification.
SpuriousWakeup(w) ==
    /\ pc[w] = "wait"
    /\ pc' = [pc EXCEPT ![w] = "woken"]
    /\ UNCHANGED <<task_queue, mtx, has_exited, tsk, main_pc, finished>>

-----------------------------------------------------------------------------
\* ExitEventHandlingThreads, in a signal handler on the main thread.
ExitSetFlag ==
    /\ main_pc \in {"idle", "queueing"}
    /\ main_pc' = "flagged"
    /\ has_exited' = TRUE
    /\ UNCHANGED <<task_queue, mtx, pc, tsk, finished>>

\* Mutant of ExitNotifyAll: notify_one.
ExitNotifyOne ==
    /\ main_pc = "flagged"
    /\ main_pc' = "joining"
    /\ NotifyOne
    /\ UNCHANGED <<task_queue, mtx, has_exited, tsk, finished>>

ExitNotifyAll ==
    /\ main_pc = "flagged"
    /\ main_pc' = "joining"
    /\ pc' = [w \in Workers |-> IF pc[w] = "wait" THEN "woken" ELSE pc[w]]
    /\ UNCHANGED <<task_queue, mtx, has_exited, tsk, finished>>

ExitJoin ==
    /\ main_pc = "joining"
    /\ \A w \in Workers : pc[w] = "exited"
    /\ main_pc' = "exited"
    /\ UNCHANGED <<task_queue, mtx, has_exited, pc, tsk, finished>>

-----------------------------------------------------------------------------
WorkerLoop(w) == Sleep(w) \/ Take(w) \/ Finish(w) \/ Wake(w) \/ CheckExit(w)

MainExit == ExitSetFlag \/ ExitNotifyAll \/ ExitJoin

Next ==
    \/ \E t \in Tasks : MainQueueTask(t)
    \/ MainQueueTaskReturn
    \/ \E w \in Workers, t \in Tasks : WorkerQueueTask(w, t)
    \/ \E w \in Workers : WorkerLoop(w) \/ SpuriousWakeup(w)
    \/ MainExit

Spec == Init /\ [][Next]_vars

\* Every thread that can run does; a task's execute() returns.  Queueing a
\* task, a spurious wakeup and the arrival of a signal are not promised.
Fairness ==
    /\ \A w \in Workers : WF_vars(WorkerLoop(w))
    /\ WF_vars(MainQueueTaskReturn)
    /\ WF_vars(ExitNotifyAll \/ ExitJoin)

FairSpec == Spec /\ Fairness

-----------------------------------------------------------------------------
(***************************************************************************)
(* Properties.                                                             *)
(***************************************************************************)

\* The queue is work conserving: while a worker sleeps, at least as many
\* workers are on their way to the queue as there are tasks in it.  One
\* notify_one per push is enough, although a worker that was never asleep
\* may take the task a notification was meant for.
WorkConserving ==
    (~has_exited /\ Waiting # {}) => Len(task_queue) <= Cardinality(Looking)

\* A task object is owned by one place: it is queued once, or executed by
\* one worker, or finished; a task that two workers had would be deleted
\* twice.
SingleOwner ==
    /\ \A i, j \in DOMAIN task_queue : task_queue[i] = task_queue[j] => i = j
    /\ \A v, w \in Workers :
         pc[v] = "run" /\ pc[w] = "run" /\ tsk[v] = tsk[w] => v = w
    /\ Queued \cap Running = {} /\ Queued \cap finished = {}
    /\ Running \cap finished = {}

\* The queue and its workers are a TaskService: tasks start in the order of
\* QueueTask, each once.
Service == INSTANCE TaskService WITH pending <- task_queue, running <- Running
ImplementsTaskService == Service!Spec

\* A queued task is executed, unless the backend exits first.
QueuedTaskRuns ==
    \A t \in Tasks : t \in Queued ~> (t \in finished \/ has_exited)

\* An exit that begins while every worker sleeps or executes, and not on
\* top of QueueTask, ends: every worker returns and is joined.
QuietExit ==
    /\ main_pc = "flagged" /\ mtx = "free"
    /\ \A w \in Workers : pc[w] # "loop"
QuietExitCompletes == QuietExit ~> main_pc = "exited"

\* Exit: once the handler has begun, the threads are joined and the process
\* ends ("Fixed problem with backend hanging rather than exiting after all
\* sessions have disconnected", CHANGELOG).  The code breaks it.
ExitCompletes == has_exited ~> main_pc = "exited"
=============================================================================
