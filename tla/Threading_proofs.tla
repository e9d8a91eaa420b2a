-------------------------- MODULE Threading_proofs --------------------------
(***************************************************************************)
(* Proofs about what threads are scheduled and locked with: the pool of    *)
(* ThreadManager (TaskPool) and queuing_rw_mutex (RWMutex), for any number *)
(* of workers, tasks and threads.                                          *)
(***************************************************************************)
EXTENDS TaskPool, RWMutex, FiniteSetTheorems, TLAPS

-----------------------------------------------------------------------------
(***************************************************************************)
(* The pool.                                                               *)
(***************************************************************************)

\* What notify_one does to the workers: at most one sleeper is woken.
LEMMA NotifyOneStep ==
    ASSUME TypeOK, NotifyOne
    PROVE  \/ Waiting = {} /\ pc' = pc
           \/ \E w \in Workers : /\ pc[w] = "wait"
                                 /\ pc' = [pc EXCEPT ![w] = "woken"]
BY DEF NotifyOne, Waiting

\* Type correctness; a worker has a task exactly while it executes it.
THEOREM TypeCorrect == Spec => []TypeOK
<1>1. Init => TypeOK
  <2> SUFFICES ASSUME Init PROVE TypeOK
    OBVIOUS
  <2>1. task_queue \in Seq(Tasks)
    BY DEF Init
  <2> QED BY <2>1, TasksAssumption DEF Init, TypeOK
<1>2. TypeOK /\ [Next]_vars => TypeOK'
  <2> SUFFICES ASSUME TypeOK, [Next]_vars PROVE TypeOK'
    OBVIOUS
  <2> USE TasksAssumption
  <2>1. ASSUME NEW t \in Tasks, PushAndNotify(t)
        PROVE  /\ task_queue' \in Seq(Tasks)
               /\ pc' \in [Workers -> {"loop", "wait", "woken", "run", "check", "exited"}]
               /\ \A w \in Workers : pc'[w] = "run" <=> pc[w] = "run"
    <3>1. task_queue' = Append(task_queue, t) /\ NotifyOne
      BY <2>1 DEF PushAndNotify
    <3>2. task_queue' \in Seq(Tasks)
      BY <3>1 DEF TypeOK
    <3>3. CASE Waiting = {} /\ pc' = pc
      BY <3>2, <3>3 DEF TypeOK
    <3>4. CASE \E w \in Workers : pc[w] = "wait" /\ pc' = [pc EXCEPT ![w] = "woken"]
      BY <3>2, <3>4 DEF TypeOK
    <3> QED BY <3>1, <3>3, <3>4, NotifyOneStep
  <2>2. ASSUME NEW t \in Tasks, MainQueueTask(t) PROVE TypeOK'
    BY <2>1, <2>2 DEF MainQueueTask, TypeOK
  <2>3. CASE MainQueueTaskReturn
    BY <2>3 DEF MainQueueTaskReturn, TypeOK
  <2>4. ASSUME NEW w \in Workers, NEW t \in Tasks, WorkerQueueTask(w, t) PROVE TypeOK'
    BY <2>1, <2>4 DEF WorkerQueueTask, TypeOK
  <2>5. ASSUME NEW w \in Workers, WorkerLoop(w) \/ SpuriousWakeup(w) PROVE TypeOK'
    <3>1. CASE Sleep(w)
      BY <3>1 DEF Sleep, TypeOK
    <3>2. CASE Take(w)
      <4>1. Head(task_queue) \in Tasks /\ Tail(task_queue) \in Seq(Tasks)
        BY <3>2 DEF Take, TypeOK
      <4> QED BY <3>2, <4>1 DEF Take, TypeOK
    <3>3. CASE Finish(w)
      BY <3>3 DEF Finish, TypeOK
    <3>4. CASE Wake(w)
      BY <3>4 DEF Wake, LeaveOrLoop, TypeOK
    <3>5. CASE CheckExit(w)
      BY <3>5 DEF CheckExit, LeaveOrLoop, TypeOK
    <3>6. CASE SpuriousWakeup(w)
      BY <3>6 DEF SpuriousWakeup, TypeOK
    <3> QED BY <2>5, <3>1, <3>2, <3>3, <3>4, <3>5, <3>6 DEF WorkerLoop
  <2>6. CASE MainExit
    <3>1. CASE ExitSetFlag
      BY <3>1 DEF ExitSetFlag, TypeOK
    <3>2. CASE ExitNotifyAll
      BY <3>2 DEF ExitNotifyAll, TypeOK
    <3>3. CASE ExitJoin
      BY <3>3 DEF ExitJoin, TypeOK
    <3> QED BY <2>6, <3>1, <3>2, <3>3 DEF MainExit
  <2>7. CASE UNCHANGED vars
    BY <2>7 DEF vars, TypeOK
  <2> QED BY <2>2, <2>3, <2>4, <2>5, <2>6, <2>7 DEF Next
<1> QED BY <1>1, <1>2, PTL DEF Spec

-----------------------------------------------------------------------------
\* The effect of a push on the sets that own tasks.
LEMMA PushOwners ==
    ASSUME TypeOK, NEW t \in Tasks, PushAndNotify(t), UNCHANGED <<tsk, finished>>
    PROVE  /\ t \notin Queued /\ t \notin Running /\ t \notin finished
           /\ Queued' = Queued \cup {t}
           /\ Running' = Running
           /\ \A w \in Workers : pc'[w] = "run" <=> pc[w] = "run"
           /\ task_queue' = Append(task_queue, t)
<1>1. t \notin Created /\ task_queue' = Append(task_queue, t) /\ NotifyOne
  BY DEF PushAndNotify
<1>2. Queued' = Queued \cup {t}
  <2>1. task_queue \in Seq(Tasks)
    BY DEF TypeOK
  <2>2. /\ DOMAIN task_queue = 1..Len(task_queue)
        /\ DOMAIN task_queue' = 1..(Len(task_queue) + 1)
        /\ \A i \in 1..Len(task_queue) : task_queue'[i] = task_queue[i]
        /\ task_queue'[Len(task_queue) + 1] = t
        /\ Len(task_queue) \in Nat
    BY <1>1, <2>1
  <2>3. ASSUME NEW x \in Queued' PROVE x \in Queued \cup {t}
    <3>1. PICK i \in 1..(Len(task_queue) + 1) : x = task_queue'[i]
      BY <2>2, <2>3 DEF Queued
    <3>2. i \in 1..Len(task_queue) \/ i = Len(task_queue) + 1
      BY <2>2, <3>1
    <3> QED BY <2>2, <3>1, <3>2 DEF Queued
  <2>4. ASSUME NEW x \in Queued \cup {t} PROVE x \in Queued'
    <3>1. CASE x = t
      <4>1. Len(task_queue) + 1 \in DOMAIN task_queue'
        BY <2>2
      <4> QED BY <2>2, <3>1, <4>1 DEF Queued
    <3>2. CASE x \in Queued
      <4>1. PICK i \in 1..Len(task_queue) : x = task_queue[i]
        BY <2>2, <3>2 DEF Queued
      <4>2. i \in DOMAIN task_queue' /\ x = task_queue'[i]
        BY <2>2, <4>1
      <4> QED BY <4>2 DEF Queued
    <3> QED BY <2>4, <3>1, <3>2
  <2> QED BY <2>3, <2>4
<1>3. \A w \in Workers : pc'[w] = "run" <=> pc[w] = "run"
  <2>1. CASE Waiting = {} /\ pc' = pc
    BY <2>1
  <2>2. CASE \E w \in Workers : pc[w] = "wait" /\ pc' = [pc EXCEPT ![w] = "woken"]
    BY <2>2 DEF TypeOK
  <2> QED BY <1>1, <2>1, <2>2, NotifyOneStep
<1>4. Running' = Running
  BY <1>3 DEF Running
<1> QED BY <1>1, <1>2, <1>3, <1>4 DEF Created

\* The effect of a pop: the task moves from the queue to the worker.
LEMMA TakeOwners ==
    ASSUME TypeOK, SingleOwner, NEW w \in Workers, Take(w)
    PROVE  /\ Head(task_queue) \in Queued
           /\ Queued' = Queued \ {Head(task_queue)}
           /\ Running' = Running \cup {Head(task_queue)}
           /\ \A i, j \in DOMAIN task_queue' : task_queue'[i] = task_queue'[j] => i = j
<1>1. task_queue \in Seq(Tasks) /\ task_queue # <<>> /\ task_queue' = Tail(task_queue)
  BY DEF Take, TypeOK
<1>2. /\ Len(task_queue) \in Nat \ {0}
      /\ DOMAIN task_queue = 1..Len(task_queue)
      /\ DOMAIN task_queue' = 1..(Len(task_queue) - 1)
      /\ \A i \in 1..(Len(task_queue) - 1) : task_queue'[i] = task_queue[i + 1]
      /\ Head(task_queue) = task_queue[1]
  BY <1>1
<1>3. \A i, j \in 1..Len(task_queue) : task_queue[i] = task_queue[j] => i = j
  BY <1>2 DEF SingleOwner
<1>4. Head(task_queue) \in Queued
  BY <1>2 DEF Queued
<1>5. Queued' = Queued \ {Head(task_queue)}
  <2>1. ASSUME NEW x \in Queued' PROVE x \in Queued \ {Head(task_queue)}
    <3>1. PICK i \in 1..(Len(task_queue) - 1) : x = task_queue[i + 1]
      BY <1>2, <2>1 DEF Queued
    <3>2. i + 1 \in 1..Len(task_queue) /\ i + 1 # 1 /\ 1 \in 1..Len(task_queue)
      BY <1>2, <3>1
    <3> QED BY <1>2, <1>3, <3>1, <3>2 DEF Queued
  <2>2. ASSUME NEW x \in Queued \ {Head(task_queue)} PROVE x \in Queued'
    <3>1. PICK i \in 1..Len(task_queue) : x = task_queue[i]
      BY <1>2, <2>2 DEF Queued
    <3>2. i - 1 \in 1..(Len(task_queue) - 1) /\ (i - 1) + 1 = i
      BY <1>2, <2>2, <3>1
    <3>3. x = task_queue'[i - 1] /\ i - 1 \in DOMAIN task_queue'
      BY <1>2, <3>1, <3>2
    <3> QED BY <3>3 DEF Queued
  <2> QED BY <2>1, <2>2
<1>6. Running' = Running \cup {Head(task_queue)}
  <2>1. /\ tsk' = [tsk EXCEPT ![w] = Head(task_queue)] /\ pc' = [pc EXCEPT ![w] = "run"]
        /\ pc[w] = "loop"
    BY DEF Take
  <2> QED BY <2>1 DEF Running, TypeOK
<1>7. \A i, j \in DOMAIN task_queue' : task_queue'[i] = task_queue'[j] => i = j
  <2> SUFFICES ASSUME NEW i \in 1..(Len(task_queue) - 1), NEW j \in 1..(Len(task_queue) - 1),
                      task_queue[i + 1] = task_queue[j + 1]
               PROVE  i = j
    BY <1>2
  <2>1. i + 1 \in 1..Len(task_queue) /\ j + 1 \in 1..Len(task_queue)
    BY <1>2
  <2>2. i + 1 = j + 1
    BY <1>3, <2>1
  <2> QED BY <2>2
<1> QED BY <1>4, <1>5, <1>6, <1>7

\* The end of a task: the only worker that had it gives it up.
LEMMA FinishOwners ==
    ASSUME TypeOK, SingleOwner, NEW w \in Workers, Finish(w)
    PROVE  /\ tsk[w] \in Running /\ tsk[w] \in Tasks
           /\ Running' = Running \ {tsk[w]}
           /\ finished' = finished \cup {tsk[w]}
<1>1. /\ pc[w] = "run" /\ finished' = finished \cup {tsk[w]}
      /\ tsk' = [tsk EXCEPT ![w] = NoTask] /\ pc' = [pc EXCEPT ![w] = "check"]
  BY DEF Finish
<1>2. tsk[w] \in Running
  BY <1>1 DEF Running
<1>3. \A v \in Workers \ {w} : pc[v] = "run" => tsk[v] # tsk[w]
  BY <1>1 DEF SingleOwner
<1>4. tsk[w] \in Tasks
  BY <1>1, TasksAssumption DEF TypeOK
<1>5. \A v \in Workers : /\ v # w => pc'[v] = pc[v] /\ tsk'[v] = tsk[v]
                         /\ v = w => pc'[v] = "check"
  BY <1>1 DEF TypeOK
<1>6. Running' = Running \ {tsk[w]}
  BY <1>1, <1>3, <1>5 DEF Running
<1> QED BY <1>1, <1>2, <1>4, <1>6

\* Steps that no task changes hands in.
LEMMA OtherOwners ==
    ASSUME TypeOK,
           \/ MainQueueTaskReturn
           \/ \E w \in Workers : Sleep(w) \/ Wake(w) \/ CheckExit(w) \/ SpuriousWakeup(w)
           \/ MainExit
           \/ UNCHANGED vars
    PROVE  /\ UNCHANGED <<task_queue, tsk, finished>>
           /\ \A w \in Workers : pc'[w] = "run" <=> pc[w] = "run"
           /\ Running' = Running /\ Queued' = Queued
<1>1. UNCHANGED <<task_queue, tsk, finished>>
  BY DEF MainQueueTaskReturn, Sleep, Wake, CheckExit, SpuriousWakeup, MainExit, ExitSetFlag,
         ExitNotifyAll, ExitJoin, vars
<1>2. \A w \in Workers : pc'[w] = "run" <=> pc[w] = "run"
  <2>1. CASE MainQueueTaskReturn \/ UNCHANGED vars
    BY <2>1 DEF MainQueueTaskReturn, vars
  <2>2. ASSUME NEW w \in Workers, Sleep(w) \/ Wake(w) \/ CheckExit(w) \/ SpuriousWakeup(w)
        PROVE  \A v \in Workers : pc'[v] = "run" <=> pc[v] = "run"
    BY <2>2 DEF Sleep, Wake, CheckExit, SpuriousWakeup, LeaveOrLoop, TypeOK
  <2>3. CASE MainExit
    BY <2>3 DEF MainExit, ExitSetFlag, ExitNotifyAll, ExitJoin, TypeOK
  <2> QED BY <2>1, <2>2, <2>3
<1> QED BY <1>1, <1>2 DEF Running, Queued

LEMMA SingleOwnerInit == Init => SingleOwner
<1> SUFFICES ASSUME Init PROVE SingleOwner
  OBVIOUS
<1>1. DOMAIN task_queue = {} /\ Running = {} /\ finished = {}
  BY DEF Init, Running
<1>2. Queued = {}
  BY <1>1 DEF Queued
<1>3. \A w \in Workers : pc[w] # "run"
  BY DEF Init
<1> QED BY <1>1, <1>2, <1>3 DEF SingleOwner

LEMMA SingleOwnerStep ==
    TypeOK /\ SingleOwner /\ [Next]_vars => SingleOwner'
<1> SUFFICES ASSUME TypeOK, SingleOwner, [Next]_vars PROVE SingleOwner'
  OBVIOUS
<1>1. ASSUME NEW t \in Tasks, PushAndNotify(t), UNCHANGED <<tsk, finished>>
      PROVE  SingleOwner'
  <2>1. \A i, j \in DOMAIN task_queue' : task_queue'[i] = task_queue'[j] => i = j
    <3>1. task_queue \in Seq(Tasks) /\ task_queue' = Append(task_queue, t)
      BY <1>1, PushOwners DEF TypeOK
    <3>2. /\ DOMAIN task_queue = 1..Len(task_queue) /\ Len(task_queue) \in Nat
          /\ DOMAIN task_queue' = 1..(Len(task_queue) + 1)
          /\ \A i \in 1..Len(task_queue) : task_queue'[i] = task_queue[i]
          /\ task_queue'[Len(task_queue) + 1] = t
      BY <3>1
    <3>3. \A i \in 1..Len(task_queue) : task_queue[i] # t
      BY <1>1, <3>2, PushOwners DEF Queued
    <3>4. \A i, j \in 1..Len(task_queue) : task_queue[i] = task_queue[j] => i = j
      BY <3>2 DEF SingleOwner
    <3>5. \A i \in DOMAIN task_queue' : i \in 1..Len(task_queue) \/ i = Len(task_queue) + 1
      BY <3>2
    <3> QED BY <3>2, <3>3, <3>4, <3>5
  <2> QED BY <1>1, <2>1, PushOwners DEF SingleOwner
<1>2. ASSUME NEW w \in Workers, Take(w) PROVE SingleOwner'
  <2>1. /\ tsk' = [tsk EXCEPT ![w] = Head(task_queue)] /\ pc' = [pc EXCEPT ![w] = "run"]
        /\ pc[w] = "loop" /\ finished' = finished
    BY <1>2 DEF Take
  <2>2. \A v \in Workers : pc[v] = "run" => tsk[v] # Head(task_queue)
    BY <1>2, TakeOwners DEF SingleOwner, Running
  <2>3. \A u, v \in Workers :
          pc'[u] = "run" /\ pc'[v] = "run" /\ tsk'[u] = tsk'[v] => u = v
    BY <2>1, <2>2 DEF SingleOwner, TypeOK
  <2>4. /\ Queued' \cap Running' = {} /\ Queued' \cap finished' = {}
        /\ Running' \cap finished' = {}
    BY <1>2, <2>1, TakeOwners DEF SingleOwner
  <2> QED BY <1>2, <2>3, <2>4, TakeOwners DEF SingleOwner
<1>3. ASSUME NEW w \in Workers, Finish(w) PROVE SingleOwner'
  <2>1. /\ tsk' = [tsk EXCEPT ![w] = NoTask] /\ pc' = [pc EXCEPT ![w] = "check"]
        /\ task_queue' = task_queue
    BY <1>3 DEF Finish
  <2>2. Queued' = Queued
    BY <2>1 DEF Queued
  <2>3. \A u, v \in Workers :
          pc'[u] = "run" /\ pc'[v] = "run" /\ tsk'[u] = tsk'[v] => u = v
    BY <2>1 DEF SingleOwner, TypeOK
  <2>4. /\ Queued' \cap Running' = {} /\ Queued' \cap finished' = {}
        /\ Running' \cap finished' = {}
    BY <1>3, <2>2, FinishOwners DEF SingleOwner
  <2> QED BY <2>1, <2>3, <2>4 DEF SingleOwner
<1>4. CASE \/ MainQueueTaskReturn
           \/ \E w \in Workers : Sleep(w) \/ Wake(w) \/ CheckExit(w) \/ SpuriousWakeup(w)
           \/ MainExit
           \/ UNCHANGED vars
  BY <1>4, OtherOwners DEF SingleOwner
<1> QED BY <1>1, <1>2, <1>3, <1>4
        DEF Next, MainQueueTask, WorkerQueueTask, WorkerLoop

\* A task object is owned by one place: no two workers execute it, and none
\* executes (and deletes) it a second time.
THEOREM OneOwner == Spec => []SingleOwner
<1>1. TypeOK /\ SingleOwner /\ [Next]_vars => SingleOwner'
  BY SingleOwnerStep
<1> QED BY <1>1, SingleOwnerInit, TypeCorrect, PTL DEF Spec

-----------------------------------------------------------------------------
\* ThreadManager implements TaskService: tasks are started in the order in
\* which they were queued, each once, whatever the workers do.
THEOREM Refinement == Spec => ImplementsTaskService
<1>1. Init => Service!Init
  BY DEF Init, Service!Init, Running
<1>2. TypeOK /\ SingleOwner /\ [Next]_vars => [Service!Next]_(Service!vars)
  <2> SUFFICES ASSUME TypeOK, SingleOwner, [Next]_vars
               PROVE  Service!Next \/ UNCHANGED Service!vars
    OBVIOUS
  <2>1. ASSUME NEW t \in Tasks, PushAndNotify(t), UNCHANGED <<tsk, finished>>
        PROVE  Service!Submit(t)
    <3>1. Service!Pending = Queued
      BY DEF Service!Pending, Queued
    <3> QED BY <2>1, <3>1, PushOwners DEF Service!Submit
  <2>2. ASSUME NEW w \in Workers, Take(w) PROVE Service!Start
    <3>1. task_queue # <<>> /\ task_queue' = Tail(task_queue) /\ finished' = finished
      BY <2>2 DEF Take
    <3> QED BY <2>2, <3>1, TakeOwners DEF Service!Start
  <2>3. ASSUME NEW w \in Workers, Finish(w) PROVE Service!Finish(tsk[w]) /\ tsk[w] \in Tasks
    <3>1. task_queue' = task_queue
      BY <2>3 DEF Finish
    <3> QED BY <2>3, <3>1, FinishOwners DEF Service!Finish
  <2>4. CASE \/ MainQueueTaskReturn
             \/ \E w \in Workers : Sleep(w) \/ Wake(w) \/ CheckExit(w) \/ SpuriousWakeup(w)
             \/ MainExit
             \/ UNCHANGED vars
    BY <2>4, OtherOwners DEF Service!vars
  <2> QED BY <2>1, <2>2, <2>3, <2>4
          DEF Next, MainQueueTask, WorkerQueueTask, WorkerLoop, Service!Next
<1> QED BY <1>1, <1>2, TypeCorrect, OneOwner, PTL DEF Spec, Service!Spec, ImplementsTaskService

-----------------------------------------------------------------------------
LEMMA LookingFinite ==
    /\ IsFiniteSet(Looking) /\ Cardinality(Looking) \in Nat
    /\ IsFiniteSet(Looking') /\ Cardinality(Looking') \in Nat
<1>1. Looking \in SUBSET Workers /\ Looking' \in SUBSET Workers
  BY DEF Looking
<1>2. IsFiniteSet(Looking) /\ IsFiniteSet(Looking')
  BY <1>1, WorkersAssumption, FS_Subset
<1> QED BY <1>2, FS_CardinalityType

\* A worker that starts to look at the queue counts one, one that stops
\* looking counts one less.
LEMMA LookingGains ==
    ASSUME NEW w \in Workers, w \notin Looking, Looking' = Looking \cup {w}
    PROVE  Cardinality(Looking') = Cardinality(Looking) + 1
BY LookingFinite, FS_AddElement

LEMMA LookingLoses ==
    ASSUME NEW w \in Workers, w \in Looking, Looking' = Looking \ {w}
    PROVE  Cardinality(Looking') = Cardinality(Looking) - 1
BY LookingFinite, FS_RemoveElement

LEMMA WorkConservingStep ==
    TypeOK /\ WorkConserving /\ [Next]_vars => WorkConserving'
<1> SUFFICES ASSUME TypeOK, WorkConserving, [Next]_vars, ~has_exited', Waiting' # {}
             PROVE  Len(task_queue') <= Cardinality(Looking')
  BY DEF WorkConserving
<1>1. task_queue \in Seq(Tasks) /\ Len(task_queue) \in Nat
  BY DEF TypeOK
<1>2. ASSUME Waiting # {}, ~has_exited PROVE Len(task_queue) <= Cardinality(Looking)
  BY <1>2 DEF WorkConserving
<1>3. ASSUME NEW t \in Tasks, PushAndNotify(t), has_exited' = has_exited
      PROVE  Len(task_queue') <= Cardinality(Looking')
  <2>1. task_queue' = Append(task_queue, t) /\ NotifyOne
    BY <1>3 DEF PushAndNotify
  <2>2. PICK w \in Workers : pc[w] = "wait" /\ pc' = [pc EXCEPT ![w] = "woken"]
    BY <2>1, NotifyOneStep DEF Waiting
  <2>3. w \in Waiting /\ w \notin Looking /\ Looking' = Looking \cup {w}
    BY <2>2 DEF Waiting, Looking, TypeOK
  <2>4. Cardinality(Looking') = Cardinality(Looking) + 1
    BY <2>3, LookingGains
  <2>5. Len(task_queue') = Len(task_queue) + 1
    BY <1>1, <2>1
  <2> QED BY <1>1, <1>2, <1>3, <2>3, <2>4, <2>5, LookingFinite
<1>4. ASSUME NEW w \in Workers, WorkerLoop(w) \/ SpuriousWakeup(w)
      PROVE  Len(task_queue') <= Cardinality(Looking')
  <2>1. CASE Sleep(w)
    BY <2>1, LookingFinite DEF Sleep
  <2>2. CASE Take(w)
    <3>1. /\ pc[w] = "loop" /\ pc' = [pc EXCEPT ![w] = "run"] /\ has_exited' = has_exited
          /\ task_queue # <<>> /\ task_queue' = Tail(task_queue)
      BY <2>2 DEF Take
    <3>2. Waiting' = Waiting /\ w \in Looking /\ Looking' = Looking \ {w}
      BY <3>1 DEF Waiting, Looking, TypeOK
    <3>3. Len(task_queue') = Len(task_queue) - 1
      BY <1>1, <3>1
    <3>4. Cardinality(Looking') = Cardinality(Looking) - 1
      BY <3>2, LookingLoses
    <3> QED BY <1>1, <1>2, <3>1, <3>2, <3>3, <3>4, LookingFinite
  <2>3. CASE Finish(w)
    <3>1. /\ pc[w] = "run" /\ pc' = [pc EXCEPT ![w] = "check"] /\ has_exited' = has_exited
          /\ task_queue' = task_queue
      BY <2>3 DEF Finish
    <3>2. Waiting' = Waiting /\ w \notin Looking /\ Looking' = Looking \cup {w}
      BY <3>1 DEF Waiting, Looking, TypeOK
    <3>3. Cardinality(Looking') = Cardinality(Looking) + 1
      BY <3>2, LookingGains
    <3> QED BY <1>1, <1>2, <3>1, <3>2, <3>3, LookingFinite
  <2>4. CASE Wake(w) \/ CheckExit(w)
    <3>1. /\ pc[w] \in {"woken", "check"} /\ pc' = [pc EXCEPT ![w] = "loop"]
          /\ task_queue' = task_queue /\ has_exited' = has_exited
      BY <2>4 DEF Wake, CheckExit, LeaveOrLoop
    <3>2. Waiting' = Waiting /\ Looking' = Looking
      BY <3>1 DEF Waiting, Looking, TypeOK
    <3> QED BY <1>2, <3>1, <3>2
  <2>5. CASE SpuriousWakeup(w)
    <3>1. /\ pc[w] = "wait" /\ pc' = [pc EXCEPT ![w] = "woken"] /\ has_exited' = has_exited
          /\ task_queue' = task_queue
      BY <2>5 DEF SpuriousWakeup
    <3>2. w \in Waiting /\ w \notin Looking /\ Looking' = Looking \cup {w}
      BY <3>1 DEF Waiting, Looking, TypeOK
    <3>3. Cardinality(Looking') = Cardinality(Looking) + 1
      BY <3>2, LookingGains
    <3> QED BY <1>1, <1>2, <3>1, <3>2, <3>3, LookingFinite
  <2> QED BY <1>4, <2>1, <2>2, <2>3, <2>4, <2>5 DEF WorkerLoop
<1>5. CASE MainExit
  <2>1. CASE ExitSetFlag
    BY <2>1 DEF ExitSetFlag
  <2>2. CASE ExitNotifyAll
    <3>1. Waiting' = {}
      BY <2>2 DEF ExitNotifyAll, Waiting
    <3> QED BY <3>1
  <2>3. CASE ExitJoin
    BY <1>2, <2>3 DEF ExitJoin, Waiting, Looking
  <2> QED BY <1>5, <2>1, <2>2, <2>3 DEF MainExit
<1>6. CASE MainQueueTaskReturn \/ UNCHANGED vars
  <2>1. UNCHANGED <<task_queue, has_exited, pc>>
    BY <1>6 DEF MainQueueTaskReturn, vars
  <2>2. Waiting' = Waiting /\ Looking' = Looking
    BY <2>1 DEF Waiting, Looking
  <2> QED BY <1>2, <2>1, <2>2
<1> QED BY <1>3, <1>4, <1>5, <1>6 DEF Next, MainQueueTask, WorkerQueueTask

\* One notify_one per push is enough: while the backend runs, no task lies in
\* the queue beside a sleeping worker with nobody on the way to it.
THEOREM NoTaskLeftAsleep == Spec => []WorkConserving
<1>1. Init => WorkConserving
  <2> SUFFICES ASSUME Init PROVE WorkConserving
    OBVIOUS
  <2>1. Waiting = {}
    BY DEF Init, Waiting
  <2> QED BY <2>1 DEF WorkConserving
<1>2. TypeOK /\ WorkConserving /\ [Next]_vars => WorkConserving'
  BY WorkConservingStep
<1> QED BY <1>1, <1>2, TypeCorrect, PTL DEF Spec

-----------------------------------------------------------------------------
(***************************************************************************)
(* The mutex.                                                              *)
(*                                                                         *)
(* The counters say nothing about who is inside, so exclusion is inductive *)
(* only together with their exactness, with the list of condition          *)
(* variables being the writers that wait, and with the writer that was     *)
(* dequeued counted as inside although it has not returned from its wait.  *)
(***************************************************************************)

Listed == {writers_cv_list[i] : i \in DOMAIN writers_cv_list}
\* Inside, or told to go in.
Admitted == writing \cup InState("wwoken")

\* What the counts are numbers of, and which threads are where.
Shape ==
    /\ writers_cv_list \in Seq(Threads)
    /\ at \in [Threads -> {"run", "rwait", "rwoken", "wwait", "wwoken"}]
    /\ reading \subseteq Threads /\ nested \subseteq reading /\ writing \subseteq Threads
    /\ late \in BOOLEAN
    /\ \A t \in writing : at[t] = "run" /\ t \notin reading
    /\ \A t \in Threads : at[t] \in {"wwait", "wwoken"} => t \notin reading
    /\ \A t \in Threads : at[t] \in {"rwait", "rwoken"} => t \notin nested

ListExact ==
    /\ Listed = InState("wwait")
    /\ \A i, j \in DOMAIN writers_cv_list : writers_cv_list[i] = writers_cv_list[j] => i = j

Admission ==
    ~late => /\ \A v, w \in Admitted : v = w
             /\ Admitted # {} => reading = {}

\* The list is in the order of the calls, oldest last, and nobody is ahead of
\* a writer that is inside or told to go in.
InOrder ==
    /\ ahead \subseteq Writers \X Writers
    /\ \A i, j \in DOMAIN writers_cv_list :
         <<writers_cv_list[i], writers_cv_list[j]>> \in ahead => i > j
    /\ ~late => \A t \in Admitted, v \in Threads : <<v, t>> \notin ahead

MutexIInv == Shape /\ CountsExact /\ ListExact /\ Admission /\ InOrder /\ NoLostWakeup

-----------------------------------------------------------------------------
\* Cardinalities of sets of threads, and how one thread changes them.
LEMMA ThreadSets ==
    \A S \in SUBSET Threads : IsFiniteSet(S) /\ Cardinality(S) \in Nat
BY ThreadsAssumption, FS_Subset, FS_CardinalityType

LEMMA AddThread ==
    ASSUME NEW S \in SUBSET Threads, NEW t \in Threads, t \notin S
    PROVE  Cardinality(S \cup {t}) = Cardinality(S) + 1
BY ThreadSets, FS_AddElement

LEMMA DropThread ==
    ASSUME NEW S \in SUBSET Threads, NEW t \in S
    PROVE  Cardinality(S \ {t}) = Cardinality(S) - 1
BY ThreadSets, FS_RemoveElement

LEMMA NoThread ==
    ASSUME NEW S \in SUBSET Threads
    PROVE  Cardinality(S) = 0 <=> S = {}
BY ThreadSets, FS_EmptySet

\* The counters tell whether anybody is there.
LEMMA CountersTell ==
    ASSUME Shape, CountsExact
    PROVE  /\ reader_count \in Nat /\ writer_count \in Nat
           /\ reader_count = 0 <=> reading = {}
           /\ writer_count = 0 <=> Writers = {}
<1>1. /\ reading \in SUBSET Threads /\ nested \in SUBSET Threads /\ Writers \in SUBSET Threads
      /\ nested \subseteq reading
  BY DEF Shape, Writers, InState
<1>2. /\ Cardinality(reading) \in Nat /\ Cardinality(nested) \in Nat
      /\ Cardinality(Writers) \in Nat
  BY <1>1, ThreadSets
<1>3. /\ reader_count = Cardinality(reading) + Cardinality(nested)
      /\ writer_count = Cardinality(Writers)
  BY DEF CountsExact, Writers
<1>4. Cardinality(reading) = 0 <=> reading = {}
  BY <1>1, NoThread
<1>5. Cardinality(nested) = 0 <=> nested = {}
  BY <1>1, NoThread
<1>6. Cardinality(Writers) = 0 <=> Writers = {}
  BY <1>1, NoThread
<1> QED BY <1>1, <1>2, <1>3, <1>4, <1>5, <1>6

\* A reader that enters adds itself to one of the two sets and to the count.
LEMMA CountReaderStep ==
    ASSUME Shape, CountsExact, NEW t \in Threads, t \notin nested, CountReader(t)
    PROVE  /\ reader_count' = Cardinality(reading') + Cardinality(nested')
           /\ reading' = reading \cup {t} /\ nested' \subseteq reading'
           /\ nested' \subseteq nested \cup {t}
<1>1. /\ reading \in SUBSET Threads /\ nested \in SUBSET Threads /\ nested \subseteq reading
      /\ reader_count = Cardinality(reading) + Cardinality(nested)
      /\ reader_count' = reader_count + 1
  BY DEF Shape, CountsExact, CountReader
<1>2. Cardinality(reading) \in Nat /\ Cardinality(nested) \in Nat
  BY <1>1, ThreadSets
<1>3. CASE t \in reading
  <2>1. nested' = nested \cup {t} /\ reading' = reading
    BY <1>3 DEF CountReader
  <2>2. Cardinality(nested') = Cardinality(nested) + 1
    BY <1>1, <2>1, AddThread
  <2> QED BY <1>1, <1>2, <1>3, <2>1, <2>2
<1>4. CASE t \notin reading
  <2>1. reading' = reading \cup {t} /\ nested' = nested
    BY <1>4 DEF CountReader
  <2>2. Cardinality(reading') = Cardinality(reading) + 1
    BY <1>1, <1>4, <2>1, AddThread
  <2> QED BY <1>1, <1>2, <2>1, <2>2
<1> QED BY <1>3, <1>4

\* dequeue_one_writer: nobody waits and nothing happens, or one writer that
\* waits is told to go in and leaves the list.
LEMMA DequeueStep ==
    ASSUME Shape, ListExact, InOrder, DequeueOneWriter
    PROVE  \/ InState("wwait") = {} /\ UNCHANGED <<writers_cv_list, at>>
           \/ \E w \in InState("wwait") :
                 /\ at' = [at EXCEPT ![w] = "wwoken"]
                 /\ writers_cv_list' \in Seq(Threads)
                 /\ ListExact'
                 /\ \A i, j \in DOMAIN writers_cv_list' :
                      <<writers_cv_list'[i], writers_cv_list'[j]>> \in ahead => i > j
                 /\ \A v \in InState("wwait") : <<v, w>> \notin ahead
<1>1. CASE writers_cv_list = <<>>
  <2>1. Listed = {}
    BY <1>1 DEF Listed
  <2> QED BY <1>1, <2>1 DEF ListExact, DequeueOneWriter
<1>2. CASE writers_cv_list # <<>>
  <2> DEFINE n == Len(writers_cv_list)
             w == writers_cv_list[n]
  <2>1. /\ writers_cv_list \in Seq(Threads) /\ n \in Nat \ {0} /\ w \in Threads
        /\ DOMAIN writers_cv_list = 1..n
    BY <1>2 DEF Shape
  <2>2. /\ at' = [at EXCEPT ![w] = "wwoken"]
        /\ writers_cv_list' = SubSeq(writers_cv_list, 1, n - 1)
    BY <1>2 DEF DequeueOneWriter
  <2>3. /\ writers_cv_list' \in Seq(Threads)
        /\ DOMAIN writers_cv_list' = 1..(n - 1)
        /\ \A i \in 1..(n - 1) : writers_cv_list'[i] = writers_cv_list[i]
    BY <2>1, <2>2
  <2>4. /\ Listed = InState("wwait")
        /\ \A i, j \in 1..n : writers_cv_list[i] = writers_cv_list[j] => i = j
    BY <2>1 DEF ListExact
  <2>5. w \in InState("wwait")
    BY <2>1, <2>4 DEF Listed
  <2>6. InState("wwait")' = InState("wwait") \ {w}
    BY <2>1, <2>2 DEF InState, Shape
  <2>7. Listed' = Listed \ {w}
    <3>1. ASSUME NEW x \in Listed' PROVE x \in Listed \ {w}
      <4>1. PICK i \in 1..(n - 1) : x = writers_cv_list'[i]
        BY <2>3, <3>1 DEF Listed
      <4>2. i \in 1..n /\ n \in 1..n /\ i # n
        <5> HIDE DEF n
        <5>1. n \in Nat \ {0}
          BY <2>1
        <5> QED BY <4>1, <5>1
      <4>3. x = writers_cv_list[i]
        BY <2>3, <4>1
      <4>4. x # w
        BY <2>4, <4>2, <4>3
      <4> QED BY <2>1, <4>2, <4>3, <4>4 DEF Listed
    <3>2. ASSUME NEW x \in Listed \ {w} PROVE x \in Listed'
      <4>1. PICK i \in 1..n : x = writers_cv_list[i]
        BY <2>1, <3>2 DEF Listed
      <4>2. i \in 1..(n - 1)
        <5>1. i # n
          BY <3>2, <4>1
        <5>2. n \in Nat \ {0}
          BY <2>1
        <5> HIDE DEF n
        <5> QED BY <4>1, <5>1, <5>2
      <4>3. x = writers_cv_list'[i] /\ i \in DOMAIN writers_cv_list'
        BY <2>3, <4>1, <4>2
      <4> QED BY <4>3 DEF Listed
    <3> QED BY <3>1, <3>2
  <2>8. \A i, j \in DOMAIN writers_cv_list' :
          writers_cv_list'[i] = writers_cv_list'[j] => i = j
    <3> SUFFICES ASSUME NEW i \in 1..(n - 1), NEW j \in 1..(n - 1),
                        writers_cv_list[i] = writers_cv_list[j]
                 PROVE  i = j
      BY <2>3
    <3>1. i \in 1..n /\ j \in 1..n
      BY <2>1
    <3> QED BY <2>4, <3>1
  <2>9. ListExact'
    BY <2>4, <2>6, <2>7, <2>8 DEF ListExact
  <2>10. \A i, j \in 1..n : <<writers_cv_list[i], writers_cv_list[j]>> \in ahead => i > j
    BY <2>1 DEF InOrder
  <2>11. \A i, j \in DOMAIN writers_cv_list' :
           <<writers_cv_list'[i], writers_cv_list'[j]>> \in ahead => i > j
    <3> SUFFICES ASSUME NEW i \in 1..(n - 1), NEW j \in 1..(n - 1),
                        <<writers_cv_list[i], writers_cv_list[j]>> \in ahead
                 PROVE  i > j
      BY <2>3
    <3>1. i \in 1..n /\ j \in 1..n
      BY <2>1
    <3> QED BY <2>10, <3>1
  <2>12. ASSUME NEW v \in InState("wwait"), <<v, w>> \in ahead PROVE FALSE
    <3>1. PICK i \in 1..n : v = writers_cv_list[i]
      BY <2>1, <2>4, <2>12 DEF Listed
    <3>2. n \in 1..n
      BY <2>1
    <3>3. i > n
      BY <2>10, <2>12, <3>1, <3>2
    <3>4. n \in Nat
      BY <2>1
    <3> HIDE DEF n
    <3> QED BY <3>1, <3>3, <3>4
  <2> QED BY <2>2, <2>3, <2>5, <2>9, <2>11, <2>12
<1> QED BY <1>1, <1>2

\* writer_enter that waits puts the thread in front of the list.
LEMMA EnqueueStep ==
    ASSUME Shape, ListExact, InOrder, NEW t \in Threads, at[t] = "run",
           t \notin writing,
           writers_cv_list' = <<t>> \o writers_cv_list,
           at' = [at EXCEPT ![t] = "wwait"],
           ahead' = ahead \cup (Writers \X {t})
    PROVE  /\ writers_cv_list' \in Seq(Threads) /\ ListExact'
           /\ \A i, j \in DOMAIN writers_cv_list' :
                <<writers_cv_list'[i], writers_cv_list'[j]>> \in ahead' => i > j
<1> DEFINE n == Len(writers_cv_list)
<1>1. writers_cv_list \in Seq(Threads) /\ n \in Nat /\ DOMAIN writers_cv_list = 1..n
  BY DEF Shape
<1>2. /\ writers_cv_list' \in Seq(Threads)
      /\ DOMAIN writers_cv_list' = 1..(n + 1)
      /\ writers_cv_list'[1] = t
      /\ \A i \in 2..(n + 1) : writers_cv_list'[i] = writers_cv_list[i - 1]
  BY <1>1
<1>3. /\ Listed = InState("wwait")
      /\ \A i, j \in 1..n : writers_cv_list[i] = writers_cv_list[j] => i = j
  BY <1>1 DEF ListExact
<1>4. t \notin Listed
  BY <1>3 DEF InState
<1>5. InState("wwait")' = InState("wwait") \cup {t}
  BY DEF InState, Shape
<1>6. Listed' = Listed \cup {t}
  <2>1. ASSUME NEW x \in Listed' PROVE x \in Listed \cup {t}
    <3>1. PICK i \in 1..(n + 1) : x = writers_cv_list'[i]
      BY <1>2, <2>1 DEF Listed
    <3>2. CASE i = 1
      BY <1>2, <3>1, <3>2
    <3>3. CASE i # 1
      <4>1. i \in 2..(n + 1) /\ i - 1 \in 1..n
        BY <1>1, <3>1, <3>3
      <4>2. x = writers_cv_list[i - 1]
        BY <1>2, <3>1, <4>1
      <4> QED BY <1>1, <4>1, <4>2 DEF Listed
    <3> QED BY <3>2, <3>3
  <2>2. ASSUME NEW x \in Listed PROVE x \in Listed'
    <3>1. PICK i \in 1..n : x = writers_cv_list[i]
      BY <1>1, <2>2 DEF Listed
    <3>2. i + 1 \in 2..(n + 1) /\ i + 1 \in 1..(n + 1) /\ (i + 1) - 1 = i
      BY <1>1, <3>1
    <3>3. x = writers_cv_list'[i + 1]
      BY <1>2, <3>1, <3>2
    <3> QED BY <1>2, <3>2, <3>3 DEF Listed
  <2>3. t \in Listed'
    <3>1. 1 \in DOMAIN writers_cv_list'
      BY <1>1, <1>2
    <3> QED BY <1>2, <3>1 DEF Listed
  <2> QED BY <2>1, <2>2, <2>3
<1>7. ASSUME NEW i \in DOMAIN writers_cv_list', NEW j \in DOMAIN writers_cv_list',
             writers_cv_list'[i] = writers_cv_list'[j]
      PROVE  i = j
  <2>1. \A k \in 2..(n + 1) : /\ k - 1 \in 1..n /\ writers_cv_list'[k] = writers_cv_list[k - 1]
                              /\ writers_cv_list'[k] # t
    <3> SUFFICES ASSUME NEW k \in 2..(n + 1)
                 PROVE  /\ k - 1 \in 1..n /\ writers_cv_list'[k] = writers_cv_list[k - 1]
                        /\ writers_cv_list'[k] # t
      OBVIOUS
    <3>1. k - 1 \in 1..n
      BY <1>1
    <3>2. writers_cv_list[k - 1] \in Listed
      BY <1>1, <3>1 DEF Listed
    <3> QED BY <1>2, <1>4, <3>1, <3>2
  <2>2. i \in 1..(n + 1) /\ j \in 1..(n + 1)
    BY <1>2
  <2>3. CASE i = 1 \/ j = 1
    BY <1>1, <1>2, <1>7, <2>1, <2>2, <2>3
  <2>4. CASE i # 1 /\ j # 1
    <3>1. i \in 2..(n + 1) /\ j \in 2..(n + 1)
      BY <1>1, <2>2, <2>4
    <3>2. i - 1 \in 1..n /\ j - 1 \in 1..n /\ writers_cv_list[i - 1] = writers_cv_list[j - 1]
      BY <1>7, <2>1, <3>1
    <3>3. i - 1 = j - 1
      BY <1>3, <3>2
    <3> QED BY <2>2, <3>3
  <2> QED BY <2>3, <2>4
<1>8. ASSUME NEW i \in DOMAIN writers_cv_list', NEW j \in DOMAIN writers_cv_list',
             <<writers_cv_list'[i], writers_cv_list'[j]>> \in ahead'
      PROVE  i > j
  <2>1. i \in 1..(n + 1) /\ j \in 1..(n + 1)
    BY <1>2
  <2>2. t \notin Writers
    BY DEF Writers, InState
  <2>3. /\ \A x : <<t, x>> \notin ahead'
        /\ \A x : \A y : <<x, y>> \in ahead' => y = t \/ <<x, y>> \in ahead
    BY <2>2 DEF InOrder
  <2>4. i # 1
    BY <1>2, <1>8, <2>3
  <2>5. i \in 2..(n + 1)
    BY <1>1, <2>1, <2>4
  <2>6. CASE j = 1
    BY <1>1, <2>5, <2>6
  <2>7. CASE j # 1
    <3>1. j \in 2..(n + 1) /\ i - 1 \in 1..n /\ j - 1 \in 1..n
      BY <1>1, <2>1, <2>5, <2>7
    <3>2. /\ writers_cv_list'[i] = writers_cv_list[i - 1]
          /\ writers_cv_list'[j] = writers_cv_list[j - 1]
      BY <1>2, <2>5, <3>1
    <3>3. writers_cv_list[j - 1] # t
      BY <1>1, <1>4, <3>1 DEF Listed
    <3>4. <<writers_cv_list[i - 1], writers_cv_list[j - 1]>> \in ahead
      BY <1>8, <2>3, <3>2, <3>3
    <3>5. i - 1 > j - 1
      BY <1>1, <3>1, <3>4 DEF InOrder
    <3> QED BY <2>1, <3>5
  <2> QED BY <2>6, <2>7
<1> QED BY <1>2, <1>3, <1>5, <1>6, <1>7, <1>8 DEF ListExact

-----------------------------------------------------------------------------
(***************************************************************************)
(* Each method keeps the invariant.                                        *)
(***************************************************************************)

\* Who is where, after t has entered a read section.
LEMMA EnterRead ==
    ASSUME MutexIInv, NEW t \in Threads, t \notin nested, CountReader(t),
           at[t] \in {"run", "rwoken"}, at' = [at EXCEPT ![t] = "run"], t \notin writing,
           late' \in BOOLEAN, ~late' => ~late /\ writer_count = 0,
           UNCHANGED <<writer_count, writers_cv_list, writing, ahead>>
    PROVE  MutexIInv'
<1>1. /\ Shape /\ CountsExact /\ ListExact /\ Admission /\ InOrder /\ NoLostWakeup
  BY DEF MutexIInv
<1>2. /\ reader_count' = Cardinality(reading') + Cardinality(nested')
      /\ reading' = reading \cup {t} /\ nested' \subseteq reading'
      /\ nested' \subseteq nested \cup {t}
  BY <1>1, CountReaderStep
<1>3. \A u \in Threads : at'[u] = IF u = t THEN "run" ELSE at[u]
  BY <1>1 DEF Shape
<1>4. /\ InState("wwait")' = InState("wwait") /\ InState("wwoken")' = InState("wwoken")
      /\ InState("rwait")' = InState("rwait")
  BY <1>1, <1>3 DEF InState
<1>5. Shape'
  BY <1>1, <1>2, <1>3 DEF Shape
<1>6. CountsExact'
  BY <1>1, <1>2, <1>4 DEF CountsExact, Writers
<1>7. ListExact'
  BY <1>1, <1>4 DEF ListExact, Listed
<1>8. Admission'
  <2>1. SUFFICES ASSUME ~late' PROVE Admitted' = {}
    BY DEF Admission
  <2>2. writer_count = 0
    BY <2>1
  <2>3. Writers = {}
    BY <1>1, <2>2, CountersTell
  <2> QED BY <1>4, <2>3 DEF Writers, Admitted
<1>9. NoLostWakeup'
  BY <1>1, <1>2, <1>4 DEF NoLostWakeup
<1>10. InOrder'
  <2>1. Writers' = Writers /\ Admitted' = Admitted
    BY <1>4 DEF Writers, Admitted
  <2> QED BY <1>1, <2>1 DEF InOrder
<1> QED BY <1>5, <1>6, <1>7, <1>8, <1>9, <1>10 DEF MutexIInv

LEMMA ReaderEnterStep ==
    ASSUME MutexIInv, NEW t \in Threads, ReaderEnter(t) PROVE MutexIInv'
<1>1. /\ Shape /\ CountsExact /\ ListExact /\ Admission /\ InOrder /\ NoLostWakeup
  BY DEF MutexIInv
<1>2. /\ at[t] = "run" /\ t \notin writing /\ t \notin nested
      /\ UNCHANGED <<writer_count, writers_cv_list, writing, ahead, late>>
  BY DEF ReaderEnter
<1>3. CASE writer_count > 0
  <2>1. at' = [at EXCEPT ![t] = "rwait"] /\ UNCHANGED <<reader_count, reading, nested>>
    BY <1>3 DEF ReaderEnter
  <2>2. \A u \in Threads : at'[u] = IF u = t THEN "rwait" ELSE at[u]
    BY <1>1, <2>1 DEF Shape
  <2>3. InState("wwait")' = InState("wwait") /\ InState("wwoken")' = InState("wwoken")
    BY <1>2, <2>2 DEF InState
  <2>4. Shape'
    BY <1>1, <1>2, <2>1, <2>2 DEF Shape
  <2>5. CountsExact'
    BY <1>1, <1>2, <2>1, <2>3 DEF CountsExact, Writers
  <2>6. ListExact'
    BY <1>1, <1>2, <2>3 DEF ListExact, Listed
  <2>7. Admission'
    BY <1>1, <1>2, <2>1, <2>3 DEF Admission, Admitted
  <2>8. NoLostWakeup'
    <3>1. Writers # {}
      BY <1>1, <1>3, CountersTell
    <3> QED BY <1>1, <1>2, <2>1, <2>3, <3>1 DEF NoLostWakeup, Writers
  <2>9. InOrder'
    <3>1. Writers' = Writers /\ Admitted' = Admitted
      BY <1>2, <2>3 DEF Writers, Admitted
    <3> QED BY <1>1, <1>2, <2>1, <3>1 DEF InOrder
  <2> QED BY <2>4, <2>5, <2>6, <2>7, <2>8, <2>9 DEF MutexIInv
<1>4. CASE ~(writer_count > 0)
  <2>1. CountReader(t) /\ at' = at
    BY <1>4 DEF ReaderEnter
  <2>2. at' = [at EXCEPT ![t] = "run"]
    BY <1>1, <1>2, <2>1 DEF Shape
  <2>3. writer_count = 0
    BY <1>1, <1>4, CountersTell
  <2> QED BY <1>1, <1>2, <2>1, <2>2, <2>3, EnterRead DEF Shape
<1> QED BY <1>3, <1>4

LEMMA ReaderResumeStep ==
    ASSUME MutexIInv, NEW t \in Threads, ReaderResume(t) PROVE MutexIInv'
<1>1. Shape /\ CountsExact
  BY DEF MutexIInv
<1>2. /\ at[t] = "rwoken" /\ at' = [at EXCEPT ![t] = "run"] /\ CountReader(t)
      /\ late' = (late \/ writer_count > 0)
      /\ UNCHANGED <<writer_count, writers_cv_list, writing, ahead>>
  BY DEF ReaderResume
<1>3. t \notin nested /\ t \notin writing
  BY <1>1, <1>2 DEF Shape
<1>4. late' \in BOOLEAN /\ (~late' => ~late /\ writer_count = 0)
  <2>1. late \in BOOLEAN /\ writer_count \in Nat
    BY <1>1, CountersTell DEF Shape
  <2>2. CASE writer_count > 0
    BY <1>2, <2>2
  <2>3. CASE ~(writer_count > 0)
    BY <1>2, <2>1, <2>3
  <2> QED BY <2>2, <2>3
<1> QED BY <1>2, <1>3, <1>4, EnterRead

LEMMA WriterEnterStep ==
    ASSUME MutexIInv, NEW t \in Threads, WriterEnter(t) PROVE MutexIInv'
<1>1. /\ Shape /\ CountsExact /\ ListExact /\ Admission /\ InOrder /\ NoLostWakeup
  BY DEF MutexIInv
<1>2. /\ at[t] = "run" /\ t \notin reading /\ t \notin writing
      /\ writer_count' = writer_count + 1 /\ ahead' = ahead \cup (Writers \X {t})
      /\ UNCHANGED <<reader_count, reading, nested, late>>
  BY DEF WriterEnter, Inside
<1>3. ASSUME Writers' = Writers \cup {t} PROVE ahead' \subseteq Writers' \X Writers'
  BY <1>1, <1>2, <1>3 DEF InOrder
<1>4. ASSUME Writers' = Writers \cup {t} PROVE CountsExact'
  <2>1. Writers \in SUBSET Threads /\ t \notin Writers
    BY <1>1, <1>2 DEF Shape, Writers, InState
  <2>2. Cardinality(Writers') = Cardinality(Writers) + 1
    BY <1>4, <2>1, AddThread
  <2> QED BY <1>1, <1>2, <2>2 DEF CountsExact, Writers
<1>5. CASE reader_count > 0 \/ writer_count' > 1
  <2>1. /\ writers_cv_list' = <<t>> \o writers_cv_list
        /\ at' = [at EXCEPT ![t] = "wwait"] /\ writing' = writing
    BY <1>5 DEF WriterEnter
  <2>2. \A u \in Threads : at'[u] = IF u = t THEN "wwait" ELSE at[u]
    BY <1>1, <2>1 DEF Shape
  <2>3. /\ InState("wwait")' = InState("wwait") \cup {t}
        /\ InState("wwoken")' = InState("wwoken") /\ InState("rwait")' = InState("rwait")
    BY <1>2, <2>2 DEF InState
  <2>4. /\ writers_cv_list' \in Seq(Threads) /\ ListExact'
        /\ \A i, j \in DOMAIN writers_cv_list' :
             <<writers_cv_list'[i], writers_cv_list'[j]>> \in ahead' => i > j
    BY <1>1, <1>2, <2>1, EnqueueStep
  <2>5. Shape'
    BY <1>1, <1>2, <2>1, <2>2, <2>4 DEF Shape
  <2>6. CountsExact'
    BY <1>4, <2>1, <2>3 DEF Writers
  <2>7. Admission'
    BY <1>1, <1>2, <2>1, <2>3 DEF Admission, Admitted
  <2>8. NoLostWakeup'
    <3>1. reading # {} \/ Writers # {}
      BY <1>1, <1>2, <1>5, CountersTell
    <3> QED BY <1>1, <1>2, <2>1, <2>3, <3>1 DEF NoLostWakeup, Writers
  <2>9. InOrder'
    <3>1. Writers' = Writers \cup {t}
      BY <2>1, <2>3 DEF Writers
    <3>2. Admitted' = Admitted /\ t \notin Admitted
      BY <1>2, <2>1, <2>3 DEF Admitted, InState
    <3>3. ~late' => \A u \in Admitted', v \in Threads : <<v, u>> \notin ahead'
      BY <1>1, <1>2, <3>2 DEF InOrder
    <3> QED BY <1>3, <2>4, <3>1, <3>3 DEF InOrder
  <2> QED BY <2>4, <2>5, <2>6, <2>7, <2>8, <2>9 DEF MutexIInv
<1>6. CASE ~(reader_count > 0 \/ writer_count' > 1)
  <2>1. writing' = writing \cup {t} /\ UNCHANGED <<writers_cv_list, at>>
    BY <1>6 DEF WriterEnter
  <2>2. reading = {} /\ Writers = {}
    BY <1>1, <1>2, <1>6, CountersTell
  <2>3. \A q : InState(q)' = InState(q)
    BY <2>1 DEF InState
  <2>4. Shape'
    BY <1>1, <1>2, <2>1 DEF Shape
  <2>5. CountsExact'
    BY <1>4, <2>1, <2>3 DEF Writers
  <2>6. ListExact'
    BY <1>1, <2>1, <2>3 DEF ListExact, Listed
  <2>7. Admission'
    BY <1>2, <2>1, <2>2, <2>3 DEF Admission, Admitted, Writers
  <2>8. NoLostWakeup'
    BY <2>1, <2>3 DEF NoLostWakeup
  <2>9. InOrder'
    <3>1. ahead' = {}
      BY <1>1, <1>2, <2>2 DEF InOrder
    <3> QED BY <3>1 DEF InOrder
  <2> QED BY <2>4, <2>5, <2>6, <2>7, <2>8, <2>9 DEF MutexIInv
<1> QED BY <1>5, <1>6

LEMMA WriterResumeStep ==
    ASSUME MutexIInv, NEW t \in Threads, WriterResume(t) PROVE MutexIInv'
<1>1. /\ Shape /\ CountsExact /\ ListExact /\ Admission /\ InOrder /\ NoLostWakeup
  BY DEF MutexIInv
<1>2. /\ at[t] = "wwoken" /\ at' = [at EXCEPT ![t] = "run"] /\ writing' = writing \cup {t}
      /\ UNCHANGED <<reader_count, writer_count, writers_cv_list, reading, nested,
                     ahead, late>>
  BY DEF WriterResume
<1>3. \A u \in Threads : at'[u] = IF u = t THEN "run" ELSE at[u]
  BY <1>1, <1>2 DEF Shape
<1>4. /\ InState("wwait")' = InState("wwait") /\ InState("rwait")' = InState("rwait")
      /\ InState("wwoken")' = InState("wwoken") \ {t} /\ t \in InState("wwoken")
  BY <1>2, <1>3 DEF InState
<1>5. Writers' = Writers /\ Admitted' = Admitted
  BY <1>2, <1>4 DEF Writers, Admitted
<1>6. Shape'
  BY <1>1, <1>2, <1>3 DEF Shape
<1>7. CountsExact'
  BY <1>1, <1>2, <1>5 DEF CountsExact, Writers
<1>8. ListExact'
  BY <1>1, <1>2, <1>4 DEF ListExact, Listed
<1>9. Admission'
  BY <1>1, <1>2, <1>5 DEF Admission
<1>10. NoLostWakeup'
  BY <1>1, <1>2, <1>4 DEF NoLostWakeup
<1>11. InOrder'
  BY <1>1, <1>2, <1>5 DEF InOrder
<1> QED BY <1>6, <1>7, <1>8, <1>9, <1>10, <1>11 DEF MutexIInv

\* After a dequeue by the last one inside, the writer told to go in is alone.
LEMMA AdmitOne ==
    ASSUME MutexIInv, DequeueOneWriter, Shape', CountsExact',
           writing' \subseteq writing, reading' \subseteq reading,
           ~late' => late' = late /\ reading' = {} /\ writing' = {} /\ InState("wwoken") = {},
           Writers' # {}, ahead' \subseteq ahead, ahead' \subseteq Writers' \X Writers',
           Writers' \subseteq Writers
    PROVE  MutexIInv'
<1>1. Shape /\ ListExact /\ Admission /\ InOrder /\ NoLostWakeup
  BY DEF MutexIInv
<1>2. CASE InState("wwait") = {} /\ UNCHANGED <<writers_cv_list, at>>
  <2>1. \A q : InState(q)' = InState(q)
    BY <1>2 DEF InState
  <2>2. ListExact'
    BY <1>1, <1>2, <2>1 DEF ListExact, Listed
  <2>3. Admission'
    BY <2>1 DEF Admission, Admitted
  <2>4. NoLostWakeup'
    BY <1>2, <2>1 DEF NoLostWakeup, Writers
  <2>5. InOrder'
    <3>1. ~late' => Admitted' = {}
      BY <2>1 DEF Admitted
    <3> QED BY <1>1, <1>2, <3>1 DEF InOrder
  <2> QED BY <2>2, <2>3, <2>4, <2>5 DEF MutexIInv
<1>3. ASSUME NEW w \in InState("wwait"),
             at' = [at EXCEPT ![w] = "wwoken"], ListExact',
             \A i, j \in DOMAIN writers_cv_list' :
               <<writers_cv_list'[i], writers_cv_list'[j]>> \in ahead => i > j,
             \A v \in InState("wwait") : <<v, w>> \notin ahead
      PROVE  MutexIInv'
  <2>1. \A u \in Threads : at'[u] = IF u = w THEN "wwoken" ELSE at[u]
    BY <1>1, <1>3 DEF Shape
  <2>2. /\ InState("wwoken")' = InState("wwoken") \cup {w}
        /\ InState("rwait")' = InState("rwait")
    BY <1>3, <2>1 DEF InState
  <2>3. Admission'
    BY <2>2 DEF Admission, Admitted
  <2>4. NoLostWakeup'
    BY <2>2 DEF NoLostWakeup
  <2>5. InOrder'
    <3>1. ASSUME ~late', NEW u \in Admitted', NEW v \in Threads, <<v, u>> \in ahead'
          PROVE  FALSE
      <4>1. u = w
        BY <2>2, <3>1 DEF Admitted
      <4>2. v \in Writers'
        BY <3>1
      <4>3. v \in InState("wwait")
        BY <1>3, <2>1, <3>1, <4>2 DEF Writers, InState
      <4> QED BY <1>3, <3>1, <4>1, <4>3
    <3>2. \A i, j \in DOMAIN writers_cv_list' :
            <<writers_cv_list'[i], writers_cv_list'[j]>> \in ahead' => i > j
      BY <1>3
    <3> QED BY <3>1, <3>2 DEF InOrder
  <2> QED BY <1>3, <2>3, <2>4, <2>5 DEF MutexIInv
<1> QED BY <1>1, <1>2, <1>3, DequeueStep

\* A dequeue moves a thread among those that wait as writers, no other.
LEMMA DequeueKeepsWriters ==
    ASSUME Shape, ListExact, InOrder, DequeueOneWriter,
           writing' \subseteq writing, reading' \subseteq reading,
           nested' \subseteq nested, nested' \subseteq reading', late' = late
    PROVE  /\ Shape'
           /\ InState("wwait")' \cup InState("wwoken")' = InState("wwait") \cup InState("wwoken")
<1>1. CASE InState("wwait") = {} /\ UNCHANGED <<writers_cv_list, at>>
  BY <1>1 DEF Shape, InState
<1>2. ASSUME NEW w \in InState("wwait"), at' = [at EXCEPT ![w] = "wwoken"],
             writers_cv_list' \in Seq(Threads)
      PROVE  /\ Shape'
             /\ InState("wwait")' \cup InState("wwoken")' = InState("wwait") \cup InState("wwoken")
  <2>1. at[w] = "wwait" /\ w \in Threads
    BY DEF InState
  <2>2. \A u \in Threads : at'[u] = IF u = w THEN "wwoken" ELSE at[u]
    BY <1>2 DEF Shape
  <2>3. at' \in [Threads -> {"run", "rwait", "rwoken", "wwait", "wwoken"}]
    BY <1>2 DEF Shape
  <2>4. \A u \in writing' : at'[u] = "run" /\ u \notin reading'
    BY <2>1, <2>2 DEF Shape
  <2>5. /\ \A u \in Threads : at'[u] \in {"wwait", "wwoken"} => u \notin reading'
        /\ \A u \in Threads : at'[u] \in {"rwait", "rwoken"} => u \notin nested'
    BY <2>1, <2>2 DEF Shape
  <2>6. Shape'
    <3>1. /\ reading' \subseteq Threads /\ nested' \subseteq reading' /\ writing' \subseteq Threads
          /\ late' \in BOOLEAN
      BY DEF Shape
    <3> QED BY ONLY <1>2, <2>3, <2>4, <2>5, <3>1 DEF Shape
  <2>7. InState("wwait")' \cup InState("wwoken")' = InState("wwait") \cup InState("wwoken")
    BY <2>1, <2>2 DEF InState
  <2> QED BY <2>6, <2>7
<1> QED BY <1>1, <1>2, DequeueStep

LEMMA ReaderLeaveStep ==
    ASSUME MutexIInv, NEW t \in Threads, ReaderLeave(t) PROVE MutexIInv'
<1>1. /\ Shape /\ CountsExact /\ ListExact /\ Admission /\ InOrder /\ NoLostWakeup
  BY DEF MutexIInv
<1>2. /\ at[t] = "run" /\ t \in reading /\ reader_count' = reader_count - 1
      /\ UNCHANGED <<writer_count, writing, ahead, late>>
  BY DEF ReaderLeave
<1>3. /\ reading \in SUBSET Threads /\ nested \in SUBSET Threads /\ nested \subseteq reading
      /\ reader_count = Cardinality(reading) + Cardinality(nested)
  BY <1>1 DEF Shape, CountsExact
<1>4. /\ reading' \subseteq reading /\ nested' \subseteq nested /\ nested' \subseteq reading'
      /\ reader_count' = Cardinality(reading') + Cardinality(nested')
  <2>1. Cardinality(reading) \in Nat /\ Cardinality(nested) \in Nat
    BY <1>3, ThreadSets
  <2>2. CASE t \in nested
    <3>1. nested' = nested \ {t} /\ reading' = reading
      BY <2>2 DEF ReaderLeave
    <3>2. Cardinality(nested') = Cardinality(nested) - 1
      BY <1>3, <2>2, <3>1, DropThread
    <3> QED BY <1>2, <1>3, <2>1, <3>1, <3>2
  <2>3. CASE t \notin nested
    <3>1. reading' = reading \ {t} /\ nested' = nested
      BY <2>3 DEF ReaderLeave
    <3>2. Cardinality(reading') = Cardinality(reading) - 1
      BY <1>2, <1>3, <3>1, DropThread
    <3> QED BY <1>2, <1>3, <2>1, <2>3, <3>1, <3>2
  <2> QED BY <2>2, <2>3
<1>5. reader_count' = 0 <=> reading' = {}
  <2>1. reading' \in SUBSET Threads /\ nested' \in SUBSET Threads
    BY <1>3, <1>4
  <2>2. Cardinality(reading') \in Nat /\ Cardinality(nested') \in Nat
    BY <2>1, ThreadSets
  <2>3. Cardinality(reading') = 0 <=> reading' = {}
    BY <2>1, NoThread
  <2>4. Cardinality(nested') = 0 <=> nested' = {}
    BY <2>1, NoThread
  <2> QED BY <1>4, <2>2, <2>3, <2>4
<1>6. CASE reader_count' = 0 /\ writer_count > 0
  <2>1. DequeueOneWriter
    BY <1>6 DEF ReaderLeave
  <2>2. /\ Shape'
        /\ InState("wwait")' \cup InState("wwoken")' = InState("wwait") \cup InState("wwoken")
    BY <1>1, <1>2, <1>4, <2>1, DequeueKeepsWriters
  <2>3. Shape'
    BY <2>2
  <2>4. Writers' = Writers
    BY <1>2, <2>2 DEF Writers
  <2>5. CountsExact'
    BY <1>1, <1>2, <1>4, <2>4 DEF CountsExact, Writers
  <2>6. Writers' # {}
    BY <1>1, <1>6, <2>4, CountersTell
  <2>7. ~late' => late' = late /\ reading' = {} /\ writing' = {} /\ InState("wwoken") = {}
    BY <1>1, <1>2, <1>5, <1>6 DEF Admission, Admitted
  <2>8. ahead' \subseteq Writers' \X Writers'
    BY <1>1, <1>2, <2>4 DEF InOrder
  <2> QED BY <1>2, <1>4, <2>1, <2>3, <2>4, <2>5, <2>6, <2>7, <2>8, AdmitOne
<1>7. CASE ~(reader_count' = 0 /\ writer_count > 0)
  <2>1. UNCHANGED <<writers_cv_list, at>>
    BY <1>7 DEF ReaderLeave
  <2>2. \A q : InState(q)' = InState(q)
    BY <2>1 DEF InState
  <2>3. Shape'
    BY <1>1, <1>2, <1>4, <2>1 DEF Shape
  <2>4. CountsExact'
    BY <1>1, <1>2, <1>4, <2>2 DEF CountsExact, Writers
  <2>5. ListExact'
    BY <1>1, <2>1, <2>2 DEF ListExact, Listed
  <2>6. Admission'
    BY <1>1, <1>2, <1>4, <2>2 DEF Admission, Admitted
  <2>7. NoLostWakeup'
    <3>1. reading' # {} \/ Writers = {}
      BY <1>1, <1>5, <1>7, CountersTell
    <3> QED BY <1>1, <1>2, <2>2, <3>1 DEF NoLostWakeup, Writers
  <2>8. InOrder'
    <3>1. Writers' = Writers /\ Admitted' = Admitted
      BY <1>2, <2>2 DEF Writers, Admitted
    <3> QED BY <1>1, <1>2, <2>1, <3>1 DEF InOrder
  <2> QED BY <2>3, <2>4, <2>5, <2>6, <2>7, <2>8 DEF MutexIInv
<1> QED BY <1>6, <1>7

LEMMA WriterLeaveStep ==
    ASSUME MutexIInv, NEW t \in Threads, WriterLeave(t) PROVE MutexIInv'
<1>1. /\ Shape /\ CountsExact /\ ListExact /\ Admission /\ InOrder /\ NoLostWakeup
  BY DEF MutexIInv
<1>2. /\ at[t] = "run" /\ t \in writing /\ writer_count' = writer_count - 1
      /\ writing' = writing \ {t}
      /\ UNCHANGED <<reader_count, reading, nested, late>>
  BY DEF WriterLeave
<1>3. /\ ahead' \subseteq ahead
      /\ Writers' = Writers \ {t} => ahead' \subseteq Writers' \X Writers'
  <2>1. ahead' = {p \in ahead : t \notin {p[1], p[2]}}
    BY DEF WriterLeave
  <2>2. ahead \subseteq Writers \X Writers
    BY <1>1 DEF InOrder
  <2> QED BY <2>1, <2>2
<1>4. ASSUME Writers' = Writers \ {t}
      PROVE  CountsExact' /\ (writer_count' = 0 <=> Writers' = {})
  <2>1. Writers \in SUBSET Threads /\ t \in Writers /\ Writers' \in SUBSET Threads
    BY <1>1, <1>2, <1>4 DEF Shape, Writers, InState
  <2>2. Cardinality(Writers') = Cardinality(Writers) - 1
    BY <1>4, <2>1, DropThread
  <2>3. Cardinality(Writers') = 0 <=> Writers' = {}
    BY <2>1, NoThread
  <2>4. writer_count' = Cardinality(Writers')
    BY <1>1, <1>2, <2>2 DEF CountsExact, Writers
  <2> QED BY <1>1, <1>2, <2>3, <2>4 DEF CountsExact, Writers
<1>5. CASE writer_count' > 0
  <2>1. DequeueOneWriter
    BY <1>5 DEF WriterLeave
  <2>2. nested \subseteq reading
    BY <1>1 DEF Shape
  <2>3. /\ Shape'
        /\ InState("wwait")' \cup InState("wwoken")' = InState("wwait") \cup InState("wwoken")
    BY <1>1, <1>2, <2>1, <2>2, DequeueKeepsWriters
  <2>4. Writers' = Writers \ {t}
    <3>1. t \notin InState("wwait") \cup InState("wwoken")
      BY <1>2 DEF InState
    <3> QED BY <1>2, <2>3, <3>1 DEF Writers
  <2>5. CountsExact' /\ Writers' # {}
    BY <1>4, <1>5, <2>4
  <2>6. ~late' => late' = late /\ reading' = {} /\ writing' = {} /\ InState("wwoken") = {}
    <3>1. SUFFICES ASSUME ~late
                   PROVE  reading = {} /\ writing \ {t} = {} /\ InState("wwoken") = {}
      BY <1>2
    <3>2. t \in Admitted /\ t \notin InState("wwoken")
      BY <1>2 DEF Admitted, InState
    <3> QED BY <1>1, <3>1, <3>2 DEF Admission, Admitted
  <2> QED BY <1>2, <1>3, <2>1, <2>3, <2>4, <2>5, <2>6, AdmitOne
<1>6. CASE ~(writer_count' > 0)
  <2>1. NotifyReaders /\ UNCHANGED writers_cv_list
    BY <1>6 DEF WriterLeave
  <2>2. \A u \in Threads : at'[u] = IF at[u] = "rwait" THEN "rwoken" ELSE at[u]
    BY <2>1 DEF NotifyReaders
  <2>3. at' \in [Threads -> {"run", "rwait", "rwoken", "wwait", "wwoken"}]
    BY <1>1, <2>1 DEF NotifyReaders, Shape
  <2>4. /\ InState("wwait")' = InState("wwait") /\ InState("wwoken")' = InState("wwoken")
        /\ InState("rwait")' = {}
    BY <2>2 DEF InState
  <2>5. Shape'
    BY <1>1, <1>2, <2>1, <2>2, <2>3 DEF Shape
  <2>6. Writers' = Writers \ {t}
    BY <1>2, <2>4 DEF Writers, InState
  <2>7. writer_count' = 0
    <3>1. Writers # {}
      BY <1>2 DEF Writers
    <3>2. writer_count \in Nat \ {0}
      BY <1>1, <3>1, CountersTell
    <3> QED BY <1>2, <1>6, <3>2
  <2>8. CountsExact' /\ Writers' = {}
    BY <1>4, <2>6, <2>7
  <2>9. ListExact'
    BY <1>1, <2>1, <2>4 DEF ListExact, Listed
  <2>10. Admission'
    BY <2>8 DEF Admission, Admitted, Writers
  <2>11. NoLostWakeup'
    BY <2>4, <2>8 DEF NoLostWakeup, Writers
  <2>12. InOrder'
    <3>1. ahead' = {}
      BY <1>3, <2>6, <2>8
    <3> QED BY <3>1 DEF InOrder
  <2> QED BY <2>5, <2>8, <2>9, <2>10, <2>11, <2>12 DEF MutexIInv
<1> QED BY <1>5, <1>6

-----------------------------------------------------------------------------
LEMMA MutexIInvInit == MutexInit => MutexIInv
<1> SUFFICES ASSUME MutexInit PROVE MutexIInv
  OBVIOUS
<1>1. \A q : q # "run" => InState(q) = {}
  BY DEF MutexInit, InState
<1>2. Listed = {} /\ DOMAIN writers_cv_list = {}
  BY DEF MutexInit, Listed
<1>3. Shape
  <2>1. writers_cv_list \in Seq(Threads)
    BY DEF MutexInit
  <2> QED BY <2>1 DEF MutexInit, Shape
<1>4. CountsExact
  <2>1. Writers = {} /\ reading = {} /\ nested = {}
    BY <1>1 DEF MutexInit, Writers
  <2> QED BY <2>1, FS_EmptySet DEF MutexInit, CountsExact
<1>5. ListExact
  BY <1>1, <1>2 DEF ListExact
<1>6. Admission /\ NoLostWakeup
  BY <1>1 DEF MutexInit, Admission, Admitted, NoLostWakeup
<1>7. InOrder
  BY <1>1, <1>2 DEF MutexInit, InOrder, Admitted
<1> QED BY <1>3, <1>4, <1>5, <1>6, <1>7 DEF MutexIInv

LEMMA MutexIInvStutter == MutexIInv /\ UNCHANGED mutexVars => MutexIInv'
<1> SUFFICES ASSUME MutexIInv, UNCHANGED mutexVars PROVE MutexIInv'
  OBVIOUS
<1>1. UNCHANGED <<reader_count, writer_count, writers_cv_list, at, reading, nested, writing,
                  ahead, late>>
  BY DEF mutexVars, mutexState
<1>2. \A q : InState(q)' = InState(q)
  BY <1>1 DEF InState
<1>3. Listed' = Listed /\ Admitted' = Admitted /\ Writers' = Writers
  BY <1>1, <1>2 DEF Listed, Admitted, Writers
<1>4. Shape'
  BY <1>1 DEF Shape, MutexIInv
<1>5. CountsExact'
  BY <1>1, <1>3 DEF CountsExact, MutexIInv
<1>6. ListExact'
  BY <1>1, <1>2, <1>3 DEF ListExact, MutexIInv
<1>7. Admission'
  BY <1>1, <1>3 DEF Admission, MutexIInv
<1>8. NoLostWakeup'
  BY <1>1, <1>2 DEF NoLostWakeup, MutexIInv
<1>9. InOrder'
  BY <1>1, <1>3 DEF InOrder, MutexIInv
<1> QED BY <1>4, <1>5, <1>6, <1>7, <1>8, <1>9 DEF MutexIInv

\* The invariant from which the others follow.
THEOREM MutexInductive == MutexSpec => []MutexIInv
<1>1. MutexIInv /\ [MutexNext]_mutexVars => MutexIInv'
  BY ReaderEnterStep, ReaderResumeStep, ReaderLeaveStep, WriterEnterStep, WriterResumeStep,
     WriterLeaveStep, MutexIInvStutter DEF MutexNext, Proceed
<1> QED BY <1>1, MutexIInvInit, PTL DEF MutexSpec

\* Types; neither counter ever becomes negative.
THEOREM MutexTypeCorrect == MutexSpec => []MutexTypeOK
<1>1. MutexIInv => MutexTypeOK
  <2> SUFFICES ASSUME MutexIInv PROVE MutexTypeOK
    OBVIOUS
  <2>1. reader_count \in Nat /\ writer_count \in Nat
    BY CountersTell DEF MutexIInv
  <2>2. ahead \subseteq Threads \X Threads
    BY DEF MutexIInv, InOrder, Shape, Writers, InState
  <2> QED BY <2>1, <2>2 DEF MutexIInv, Shape, MutexTypeOK
<1> QED BY <1>1, MutexInductive, PTL

\* Each entry into a section is counted once and each exit taken back: no
\* leaked count keeps the mutex closed.
THEOREM CountersAreRight == MutexSpec => []CountsExact
<1>1. MutexIInv => CountsExact
  BY DEF MutexIInv
<1> QED BY <1>1, MutexInductive, PTL

\* As long as no reader was overtaken between its wakeup and its return from
\* the wait, write sections exclude each other and all read sections.
THEOREM MutualExclusion == MutexSpec => []ExclusionUnlessLate
<1>1. MutexIInv => ExclusionUnlessLate
  BY DEF MutexIInv, Admission, Admitted, ExclusionUnlessLate, Exclusion
<1> QED BY <1>1, MutexInductive, PTL

\* No wakeup is lost, with late readers or without: who waits has somebody
\* ahead whose leaving wakes it.
THEOREM WakeupsKept == MutexSpec => []NoLostWakeup
<1>1. MutexIInv => NoLostWakeup
  BY DEF MutexIInv
<1> QED BY <1>1, MutexInductive, PTL

\* As long as no reader was overtaken, writers go in in the order in which
\* they called writer_enter.
THEOREM FirstComeFirstServed == MutexSpec => []WritersInOrder
<1>1. MutexIInv => WritersInOrder
  BY DEF MutexIInv, InOrder, Admitted, WritersInOrder
<1> QED BY <1>1, MutexInductive, PTL
=============================================================================
