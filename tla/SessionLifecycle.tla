-------------------------- MODULE SessionLifecycle --------------------------
(***************************************************************************)
(* The life of a Session: SessionManager's map of sessions and its mutex,  *)
(* the reference count that a socket and the OnMessageTasks of the session *)
(* share, the deletion they race for, and the messages that SendEvent      *)
(* defers to the uWebSockets loop.                                         *)
(*                                                                         *)
(* The main thread runs the loop: OnConnect, OnMessage, OnDisconnect and   *)
(* the deferred functions never overlap each other.  Tasks run on worker   *)
(* threads and overlap everything.  The task pool itself is TaskPool; here *)
(* a queued task may be started at any time.                               *)
(*                                                                         *)
(* A Session object is named by the id of its socket, the key it keeps in  *)
(* _sessions; its own _id may be changed by REGISTER_VIEWER.               *)
(***************************************************************************)
EXTENDS Naturals, FiniteSets

CONSTANTS Sessions,     \* socket ids, each given to one socket
          Tasks,        \* OnMessageTask objects
          NoSession,
          Main,         \* the thread of the loop
          MaxMessages   \* bound on a session's unsent messages

ASSUME NoSessionAssumption == NoSession \notin Sessions
ASSUME MainAssumption == Main \notin Tasks
ASSUME ActorsAssumption == "free" \notin Tasks \cup {Main}
ASSUME FiniteAssumption == IsFiniteSet(Sessions) /\ IsFiniteSet(Tasks)
ASSUME MaxMessagesAssumption == MaxMessages \in Nat

VARIABLES sessions,        \* keys of _sessions
          sessions_mutex,  \* who holds _sessions_mutex: an actor, or "free"
          object,          \* the Session object: "none", "live" or "freed"
          socket,          \* "none", "open", "closed", or "forced": closed with
                           \* code 4003, which OnDisconnect skips
          id,              \* Session::_id
          ref_count,       \* Session::_ref_count
          connected,       \* Session::_connected
          out_msgs,        \* Session::_out_msgs, by their number
          deferred,        \* functions of the session in the loop's queue
          task,            \* where each task is
          owner,           \* OnMessageTask::_session
          deleting         \* the id each actor calls DeleteSession with

VARIABLE dangling   \* history: a freed Session was used

vars == <<sessions, sessions_mutex, object, socket, id, ref_count, connected,
          out_msgs, deferred, task, owner, deleting, dangling>>

Actors == Tasks \cup {Main}

\* Tasks that have a reference: from their constructor to their destructor.
Counted(s) == {t \in Tasks : owner[t] = s /\ task[t] \in {"queued", "run", "active"}}

TypeOK ==
    /\ sessions \subseteq Sessions
    /\ sessions_mutex \in Actors \cup {"free"}
    /\ object \in [Sessions -> {"none", "live", "freed"}]
    /\ socket \in [Sessions -> {"none", "open", "closed", "forced"}]
    /\ id \in [Sessions -> Sessions]
    /\ ref_count \in [Sessions -> Nat]
    /\ connected \in [Sessions -> BOOLEAN]
    /\ out_msgs \in [Sessions -> Nat]
    /\ deferred \in [Sessions -> Nat]
    /\ task \in [Tasks -> {"none", "queued", "run", "active", "last", "delete", "done"}]
    /\ owner \in [Tasks -> Sessions \cup {NoSession}]
    /\ deleting \in [Actors -> Sessions \cup {NoSession}]
    /\ dangling \in BOOLEAN

Init ==
    /\ sessions = {}
    /\ sessions_mutex = "free"
    /\ object = [s \in Sessions |-> "none"]
    /\ socket = [s \in Sessions |-> "none"]
    /\ id = [s \in Sessions |-> s]
    /\ ref_count = [s \in Sessions |-> 0]
    /\ connected = [s \in Sessions |-> FALSE]
    /\ out_msgs = [s \in Sessions |-> 0]
    /\ deferred = [s \in Sessions |-> 0]
    /\ task = [t \in Tasks |-> "none"]
    /\ owner = [t \in Tasks |-> NoSession]
    /\ deleting = [a \in Actors |-> NoSession]
    /\ dangling = FALSE

\* The main thread is in its loop, not inside DeleteSession.
MainInLoop == deleting[Main] = NoSession

-----------------------------------------------------------------------------
(***************************************************************************)
(* The main thread.                                                        *)
(***************************************************************************)

OnConnect(s) ==
    /\ MainInLoop /\ sessions_mutex = "free"
    /\ socket[s] = "none"
    /\ socket' = [socket EXCEPT ![s] = "open"]
    /\ sessions' = sessions \cup {s}
    /\ object' = [object EXCEPT ![s] = "live"]
    /\ connected' = [connected EXCEPT ![s] = TRUE]
    /\ ref_count' = [ref_count EXCEPT ![s] = 1]
    /\ UNCHANGED <<sessions_mutex, id, out_msgs, deferred, task, owner, deleting, dangling>>

\* Mutant of NewTask: the constructor does not count the task.
NewTaskUncounted(s, t) ==
    /\ task[t] = "none"
    /\ task' = [task EXCEPT ![t] = "queued"]
    /\ owner' = [owner EXCEPT ![t] = s]
    /\ UNCHANGED ref_count

\* A task is created for the session and queued.
NewTask(s, t) ==
    /\ task[t] = "none"
    /\ task' = [task EXCEPT ![t] = "queued"]
    /\ owner' = [owner EXCEPT ![t] = s]
    /\ ref_count' = [ref_count EXCEPT ![s] = @ + 1]

\* A message that OnMessage answers with a task.
OnMessageTask(s, t) ==
    /\ MainInLoop
    /\ socket[s] = "open" /\ s \in sessions
    /\ NewTask(s, t)
    /\ UNCHANGED <<sessions, sessions_mutex, object, socket, id, connected,
                   out_msgs, deferred, deleting, dangling>>

\* REGISTER_VIEWER with the id of an earlier session, or with its own.
OnRegisterViewer(s, i) ==
    /\ MainInLoop
    /\ socket[s] = "open" /\ s \in sessions
    /\ id' = [id EXCEPT ![s] = i]
    /\ UNCHANGED <<sessions, sessions_mutex, object, socket, ref_count, connected,
                   out_msgs, deferred, task, owner, deleting, dangling>>

\* RESUME_SESSION: WaitForTaskCancellation, _out_msgs.clear, ConnectCalled.
OnResumeSession(s) ==
    /\ MainInLoop
    /\ socket[s] = "open" /\ s \in sessions
    /\ \A t \in Counted(s) : task[t] # "active"
    /\ out_msgs' = [out_msgs EXCEPT ![s] = 0]
    /\ connected' = [connected EXCEPT ![s] = TRUE]
    /\ UNCHANGED <<sessions, sessions_mutex, object, socket, id, ref_count,
                   deferred, task, owner, deleting, dangling>>

\* OnDisconnect up to its call of DeleteSession.
OnDisconnect(s) ==
    /\ MainInLoop
    /\ socket[s] = "open" /\ s \in sessions
    /\ socket' = [socket EXCEPT ![s] = "closed"]
    /\ ref_count' = [ref_count EXCEPT ![s] = @ - 1]
    /\ deleting' = [deleting EXCEPT ![Main] = s]
    /\ UNCHANGED <<sessions, sessions_mutex, object, id, connected, out_msgs,
                   deferred, task, owner, dangling>>

\* OnDisconnect with code 4003 returns at once.
OnForcedDisconnect(s) ==
    /\ MainInLoop
    /\ socket[s] = "open"
    /\ socket' = [socket EXCEPT ![s] = "forced"]
    /\ UNCHANGED <<sessions, sessions_mutex, object, id, ref_count, connected,
                   out_msgs, deferred, task, owner, deleting, dangling>>

\* The loop runs a function that SendEvent deferred.
RunDeferred(s) ==
    /\ MainInLoop
    /\ deferred[s] > 0
    /\ deferred' = [deferred EXCEPT ![s] = @ - 1]
    /\ out_msgs' = [out_msgs EXCEPT ![s] =
                      IF object[s] = "live" /\ connected[s] THEN 0 ELSE @]
    /\ dangling' = (dangling \/ object[s] = "freed")
    /\ UNCHANGED <<sessions, sessions_mutex, object, socket, id, ref_count,
                   connected, task, owner, deleting>>

-----------------------------------------------------------------------------
(***************************************************************************)
(* Tasks.                                                                  *)
(***************************************************************************)

StartTask(t) ==
    /\ task[t] = "queued"
    /\ task' = [task EXCEPT ![t] = "run"]
    /\ UNCHANGED <<sessions, sessions_mutex, object, socket, id, ref_count, connected,
                   out_msgs, deferred, owner, deleting, dangling>>

\* execute() takes the shared lock of a Frame's _active_task_mutex, and
\* releases it: a calculation that WaitForTaskCancellation waits for.
BeginCalculation(t) ==
    /\ task[t] = "run"
    /\ connected[owner[t]]
    /\ task' = [task EXCEPT ![t] = "active"]
    /\ UNCHANGED <<sessions, sessions_mutex, object, socket, id, ref_count, connected,
                   out_msgs, deferred, owner, deleting, dangling>>

EndCalculation(t) ==
    /\ task[t] = "active"
    /\ task' = [task EXCEPT ![t] = "run"]
    /\ UNCHANGED <<sessions, sessions_mutex, object, socket, id, ref_count, connected,
                   out_msgs, deferred, owner, deleting, dangling>>

\* Mutant of SendEvent: the message is queued, no function is deferred.
SendEventQuietly(t) ==
    LET s == owner[t] IN
    /\ task[t] \in {"run", "active"}
    /\ out_msgs[s] < MaxMessages /\ deferred[s] < MaxMessages
    /\ out_msgs' = [out_msgs EXCEPT ![s] = @ + 1]
    /\ UNCHANGED <<sessions, sessions_mutex, object, socket, id, ref_count, connected,
                   deferred, task, owner, deleting, dangling>>

\* SendEvent: a message and a deferred function that sends all messages.
SendEvent(t) ==
    LET s == owner[t] IN
    /\ task[t] \in {"run", "active"}
    /\ out_msgs[s] < MaxMessages /\ deferred[s] < MaxMessages
    /\ out_msgs' = [out_msgs EXCEPT ![s] = @ + 1]
    /\ deferred' = [deferred EXCEPT ![s] = @ + 1]
    /\ UNCHANGED <<sessions, sessions_mutex, object, socket, id, ref_count, connected,
                   task, owner, deleting, dangling>>

\* execute() queues another task of the session (AnimationTask).
SpawnTask(t, u) ==
    /\ task[t] = "run"
    /\ NewTask(owner[t], u)
    /\ UNCHANGED <<sessions, sessions_mutex, object, socket, id, connected,
                   out_msgs, deferred, deleting, dangling>>

\* Mutant of EndTask: the last task leaves the deletion to others.
EndTaskWithoutDelete(t) ==
    LET s == owner[t] IN
    /\ task[t] = "run"
    /\ ref_count' = [ref_count EXCEPT ![s] = @ - 1]
    /\ task' = [task EXCEPT ![t] = "done"]
    /\ UNCHANGED <<sessions, sessions_mutex, object, socket, id, connected,
                   out_msgs, deferred, owner, deleting, dangling>>

\* Mutant of EndTask: the last task forgets the reference of the socket.
EndTaskLastButOne(t) ==
    LET s == owner[t] IN
    /\ task[t] = "run"
    /\ ref_count' = [ref_count EXCEPT ![s] = @ - 1]
    /\ task' = [task EXCEPT ![t] = IF ref_count'[s] <= 1 THEN "last" ELSE "done"]
    /\ UNCHANGED <<sessions, sessions_mutex, object, socket, id, connected,
                   out_msgs, deferred, owner, deleting, dangling>>

\* ~OnMessageTask: DecreaseRefCount tells the last task that it is the last.
EndTask(t) ==
    LET s == owner[t] IN
    /\ task[t] = "run"
    /\ ref_count' = [ref_count EXCEPT ![s] = @ - 1]
    /\ task' = [task EXCEPT ![t] = IF ref_count'[s] = 0 THEN "last" ELSE "done"]
    /\ UNCHANGED <<sessions, sessions_mutex, object, socket, id, connected,
                   out_msgs, deferred, owner, deleting, dangling>>

\* The last task reads _session->GetId() for its call of DeleteSession.  The
\* object may be freed by now: the behaviour is not followed further.
ReadId(t) ==
    LET s == owner[t] IN
    /\ task[t] = "last"
    /\ IF object[s] = "freed"
         THEN /\ dangling' = TRUE
              /\ task' = [task EXCEPT ![t] = "done"]
              /\ UNCHANGED deleting
         ELSE /\ task' = [task EXCEPT ![t] = "delete"]
              /\ deleting' = [deleting EXCEPT ![t] = id[s]]
              /\ UNCHANGED dangling
    /\ UNCHANGED <<sessions, sessions_mutex, object, socket, id, ref_count,
                   connected, out_msgs, deferred, owner>>

-----------------------------------------------------------------------------
(***************************************************************************)
(* SessionManager::DeleteSession, by the main thread or the last task.     *)
(***************************************************************************)

\* DeleteSession returns: a task is destroyed, the main thread is in its loop.
Return(a) ==
    /\ deleting' = [deleting EXCEPT ![a] = NoSession]
    /\ task' = [t \in Tasks |-> IF t = a THEN "done" ELSE task[t]]

DeleteNotFound(a) ==
    /\ deleting[a] # NoSession /\ sessions_mutex = "free"
    /\ deleting[a] \notin sessions
    /\ Return(a)
    /\ UNCHANGED <<sessions, sessions_mutex, object, socket, id, ref_count, connected,
                   out_msgs, deferred, owner, dangling>>

\* Mutant of DeleteBegin: the session is not disconnected.
DeleteBeginConnected(a) ==
    /\ deleting[a] \in sessions /\ sessions_mutex = "free"
    /\ sessions_mutex' = a
    /\ UNCHANGED <<sessions, object, socket, id, ref_count, connected, out_msgs,
                   deferred, task, owner, deleting, dangling>>

\* The session is found and WaitForTaskCancellation entered.
DeleteBegin(a) ==
    /\ deleting[a] \in sessions /\ sessions_mutex = "free"
    /\ sessions_mutex' = a
    /\ connected' = [connected EXCEPT ![deleting[a]] = FALSE]
    /\ UNCHANGED <<sessions, object, socket, id, ref_count, out_msgs, deferred,
                   task, owner, deleting, dangling>>

\* Mutant of DeleteEnd: the reference count is not looked at.
DeleteEndUnchecked(a) ==
    LET s == deleting[a] IN
    /\ sessions_mutex = a
    /\ \A t \in Counted(s) : task[t] # "active"
    /\ object' = [object EXCEPT ![s] = "freed"]
    /\ sessions' = sessions \ {s}
    /\ sessions_mutex' = "free"
    /\ Return(a)
    /\ UNCHANGED <<socket, id, ref_count, connected, out_msgs, deferred, owner, dangling>>

\* No calculation is active: the object is freed if nothing refers to it.
DeleteEnd(a) ==
    LET s == deleting[a] IN
    /\ sessions_mutex = a
    /\ \A t \in Counted(s) : task[t] # "active"
    /\ IF ref_count[s] = 0
         THEN /\ object' = [object EXCEPT ![s] = "freed"]
              /\ sessions' = sessions \ {s}
         ELSE UNCHANGED <<object, sessions>>
    /\ sessions_mutex' = "free"
    /\ Return(a)
    /\ UNCHANGED <<socket, id, ref_count, connected, out_msgs, deferred, owner, dangling>>

-----------------------------------------------------------------------------
Client(s) ==
    \/ OnConnect(s) \/ OnDisconnect(s) \/ OnForcedDisconnect(s) \/ OnResumeSession(s)
    \/ \E t \in Tasks : OnMessageTask(s, t)
    \/ \E i \in Sessions : OnRegisterViewer(s, i)

TaskSteps(t) ==
    \/ BeginCalculation(t) \/ SendEvent(t)
    \/ \E u \in Tasks : SpawnTask(t, u)

TaskProgress(t) == StartTask(t) \/ EndCalculation(t) \/ EndTask(t) \/ ReadId(t)

DeleteSession(a) == DeleteNotFound(a) \/ DeleteBegin(a) \/ DeleteEnd(a)

Next ==
    \/ \E s \in Sessions : Client(s) \/ RunDeferred(s)
    \/ \E t \in Tasks : TaskSteps(t) \/ TaskProgress(t)
    \/ \E a \in Actors : DeleteSession(a)

Spec == Init /\ [][Next]_vars

\* A task ends, calls return and the loop runs what was deferred; mutexes are
\* granted.  Nothing is assumed of clients.
Fairness ==
    /\ \A t \in Tasks : WF_vars(TaskProgress(t))
    /\ \A a \in Actors : SF_vars(DeleteSession(a))
    /\ \A s \in Sessions : WF_vars(RunDeferred(s))

FairSpec == Spec /\ Fairness

-----------------------------------------------------------------------------
(***************************************************************************)
(* Properties.                                                             *)
(***************************************************************************)

\* No freed Session is used ("Ensured that sessions are deleted correctly",
\* CHANGELOG).  The code breaks it: the destructor of a task reads the
\* session after its own decrement, and deferred functions keep the pointer.
NoDanglingSession == ~dangling

\* The reference count is the socket's reference and the tasks' ones.
RefCountExact ==
    \A s \in Sessions : object[s] = "live" =>
        ref_count[s] = Cardinality(Counted(s))
                       + (IF socket[s] \in {"open", "forced"} THEN 1 ELSE 0)

\* A task never executes without its session, whoever deletes sessions by
\* whatever id: the count is read under _sessions_mutex but changed without.
SessionOutlivesTasks == \A s \in Sessions : Counted(s) # {} => object[s] = "live"

\* The map holds the live objects, so that each is found and freed once.
MapHoldsLive == \A s \in Sessions : s \in sessions <=> object[s] = "live"

\* No session was given the id of another one.
OwnIds == \A s \in Sessions : id[s] = s

\* A client with an open socket is not cut off by the deletion of another
\* session, as long as no session took another one's id.
OpenSessionConnected ==
    OwnIds => \A s \in Sessions : socket[s] = "open" => connected[s]

\* Once its disconnection is handled a session sends nothing any more.
ClosedSessionSilent ==
    \A s \in Sessions :
        object[s] = "live" /\ socket[s] = "closed" /\ deleting[Main] # s
            => ~connected[s]

\* A disconnected session is freed once its tasks have ended, unless it
\* took another id, under which the last task does not find it.
DisconnectedSessionFreed ==
    \A s \in Sessions :
        socket[s] = "closed" ~> (object[s] = "freed" \/ dangling \/ id[s] # s)

\* An answer reaches the client, unless the session is disconnected or
\* another session deletes it by mistake.
MessageSent ==
    \A s \in Sessions :
        out_msgs[s] > 0 ~> (out_msgs[s] = 0 \/ ~connected[s] \/ dangling)
=============================================================================
