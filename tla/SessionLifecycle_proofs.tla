----------------------- MODULE SessionLifecycle_proofs -----------------------
(***************************************************************************)
(* Proofs about SessionLifecycle, for any number of sessions and tasks and *)
(* any bound on the messages.                                              *)
(*                                                                         *)
(* A session's count is exact only while its object lives, and the object  *)
(* lives as long as a task counts only because DeleteSession looks at an   *)
(* exact count: the two are proved together, with what the map, the mutex  *)
(* and the arguments of DeleteSession have to do with each other.          *)
(***************************************************************************)
EXTENDS SessionLifecycle, FiniteSetTheorems, TLAPS

\* The reference of the socket, as a number.
SocketRef(s) == IF socket[s] \in {"open", "forced"} THEN 1 ELSE 0

Consistent ==
    /\ \A t \in Tasks : task[t] \in {"queued", "run", "active", "last"} => owner[t] \in Sessions
    /\ \A s \in Sessions : socket[s] = "none" <=> object[s] = "none"
    /\ \A t \in Tasks : deleting[t] # NoSession => task[t] = "delete"
    /\ sessions_mutex # "free" => deleting[sessions_mutex] \in sessions
    /\ sessions_mutex = Main => ~connected[deleting[Main]]

IInv ==
    /\ TypeOK
    /\ RefCountExact
    /\ SessionOutlivesTasks
    /\ MapHoldsLive
    /\ ClosedSessionSilent
    /\ Consistent

-----------------------------------------------------------------------------
LEMMA CountedFinite ==
    \A s \in Sessions : /\ IsFiniteSet(Counted(s)) /\ Cardinality(Counted(s)) \in Nat
                        /\ IsFiniteSet(Counted(s)') /\ Cardinality(Counted(s)') \in Nat
<1> SUFFICES ASSUME NEW s \in Sessions
             PROVE  /\ IsFiniteSet(Counted(s)) /\ Cardinality(Counted(s)) \in Nat
                    /\ IsFiniteSet(Counted(s)') /\ Cardinality(Counted(s)') \in Nat
  OBVIOUS
<1>1. Counted(s) \in SUBSET Tasks /\ Counted(s)' \in SUBSET Tasks
  BY DEF Counted
<1>2. IsFiniteSet(Counted(s)) /\ IsFiniteSet(Counted(s)')
  BY <1>1, FiniteAssumption, FS_Subset
<1> QED BY <1>2, FS_CardinalityType

\* A live session's count is at least the number of its references.
LEMMA LiveCount ==
    ASSUME IInv, NEW s \in Sessions, object[s] = "live"
    PROVE  /\ ref_count[s] = Cardinality(Counted(s)) + SocketRef(s)
           /\ Counted(s) # {} => ref_count[s] - 1 \in Nat
           /\ socket[s] \in {"open", "forced"} => ref_count[s] - 1 \in Nat
           /\ ref_count[s] = 0 => Counted(s) = {}
<1>1. ref_count[s] = Cardinality(Counted(s)) + SocketRef(s)
  BY DEF IInv, RefCountExact, SocketRef
<1>2. Cardinality(Counted(s)) \in Nat /\ IsFiniteSet(Counted(s))
  BY CountedFinite
<1>3. Cardinality(Counted(s)) = 0 <=> Counted(s) = {}
  BY <1>2, FS_EmptySet
<1> QED BY <1>1, <1>2, <1>3 DEF SocketRef

\* The actor that deletes a session is a task in its destructor or the main
\* thread, and what it holds the mutex for is in the map.
LEMMA Deleter ==
    ASSUME IInv, NEW a \in Actors
    PROVE  /\ deleting[a] # NoSession /\ a \in Tasks => task[a] = "delete"
           /\ sessions_mutex = a => /\ deleting[a] \in sessions /\ deleting[a] \in Sessions
                                    /\ object[deleting[a]] = "live" /\ deleting[a] # NoSession
<1>1. a # "free"
  BY ActorsAssumption DEF Actors
<1>2. sessions_mutex = a => deleting[a] \in sessions
  BY <1>1 DEF IInv, Consistent
<1>3. sessions \subseteq Sessions /\ \A s \in Sessions : s \in sessions <=> object[s] = "live"
  BY DEF IInv, TypeOK, MapHoldsLive
<1>4. deleting[a] # NoSession /\ a \in Tasks => task[a] = "delete"
  BY DEF IInv, Consistent
<1> QED BY <1>2, <1>3, <1>4, NoSessionAssumption

\* Steps in which no reference is taken or given back and nothing deleted.
LEMMA QuietStep ==
    ASSUME IInv, TypeOK',
           UNCHANGED <<sessions, sessions_mutex, object, socket, ref_count, owner, deleting>>,
           \A t \in Tasks : \/ task'[t] = task[t]
                            \/ /\ task[t] \in {"queued", "run", "active"}
                               /\ task'[t] \in {"queued", "run", "active"},
           \A s \in Sessions : \/ connected'[s] = connected[s]
                               \/ socket[s] = "open" /\ MainInLoop
    PROVE  IInv'
<1>1. ASSUME NEW s \in Sessions PROVE Counted(s)' = Counted(s)
  BY DEF Counted
<1>2. RefCountExact'
  BY <1>1 DEF IInv, RefCountExact
<1>3. SessionOutlivesTasks'
  BY <1>1 DEF IInv, SessionOutlivesTasks
<1>4. MapHoldsLive'
  BY DEF IInv, MapHoldsLive
<1>5. ClosedSessionSilent'
  BY DEF IInv, ClosedSessionSilent
<1>6. Consistent'
  <2>1. Consistent
    BY DEF IInv
  <2>2. sessions_mutex' = Main => ~connected'[deleting'[Main]]
    <3>1. Main \in Actors
      BY DEF Actors
    <3>2. sessions_mutex = Main => ~MainInLoop /\ deleting[Main] \in Sessions
      BY <3>1, Deleter DEF MainInLoop
    <3> QED BY <2>1, <3>2 DEF Consistent
  <2>3. \A t \in Tasks : task'[t] \in {"queued", "run", "active", "last"} => owner'[t] \in Sessions
    BY <2>1 DEF Consistent
  <2>4. \A t \in Tasks : deleting'[t] # NoSession => task'[t] = "delete"
    BY <2>1 DEF Consistent
  <2> QED BY <2>1, <2>2, <2>3, <2>4 DEF Consistent
<1> QED BY <1>2, <1>3, <1>4, <1>5, <1>6 DEF IInv

\* A task is created for a live session.
LEMMA NewTaskStep ==
    ASSUME IInv, NEW s \in Sessions, object[s] = "live", NEW t \in Tasks, NewTask(s, t),
           UNCHANGED <<sessions, sessions_mutex, object, socket, id, connected,
                       out_msgs, deferred, deleting, dangling>>
    PROVE  IInv'
<1>1. /\ task[t] = "none" /\ task' = [task EXCEPT ![t] = "queued"]
      /\ owner' = [owner EXCEPT ![t] = s] /\ ref_count' = [ref_count EXCEPT ![s] = @ + 1]
  BY DEF NewTask
<1>2. TypeOK
  BY DEF IInv
<1>3. TypeOK'
  BY <1>1, <1>2 DEF TypeOK
<1>4. ASSUME NEW r \in Sessions
      PROVE  Counted(r)' = IF r = s THEN Counted(r) \cup {t} ELSE Counted(r)
  BY <1>1, <1>2 DEF Counted, TypeOK
<1>5. t \notin Counted(s)
  BY <1>1 DEF Counted
<1>6. RefCountExact'
  <2> SUFFICES ASSUME NEW r \in Sessions, object[r] = "live"
               PROVE  ref_count'[r] = Cardinality(Counted(r)') + SocketRef(r)
    BY DEF RefCountExact, SocketRef
  <2>1. ref_count[r] = Cardinality(Counted(r)) + SocketRef(r)
    BY LiveCount
  <2>2. CASE r # s
    BY <1>1, <1>2, <1>4, <2>1, <2>2 DEF TypeOK
  <2>3. CASE r = s
    <3>1. Cardinality(Counted(r)') = Cardinality(Counted(r)) + 1
      BY <1>4, <1>5, <2>3, CountedFinite, FS_AddElement
    <3>2. ref_count'[r] = ref_count[r] + 1
      BY <1>1, <1>2, <2>3 DEF TypeOK
    <3>3. Cardinality(Counted(r)) \in Nat /\ SocketRef(r) \in Nat
      BY CountedFinite DEF SocketRef
    <3> QED BY <2>1, <3>1, <3>2, <3>3
  <2> QED BY <2>2, <2>3
<1>7. SessionOutlivesTasks'
  BY <1>4 DEF IInv, SessionOutlivesTasks
<1>8. MapHoldsLive' /\ ClosedSessionSilent'
  BY DEF IInv, MapHoldsLive, ClosedSessionSilent
<1>9. Consistent'
  <2>1. Consistent
    BY DEF IInv
  <2>2. \A u \in Tasks : u # t => task'[u] = task[u] /\ owner'[u] = owner[u]
    BY <1>1, <1>2 DEF TypeOK
  <2>3. task'[t] = "queued" /\ owner'[t] = s /\ deleting[t] = NoSession
    BY <1>1, <1>2, <2>1 DEF TypeOK, Consistent
  <2> QED BY <2>1, <2>2, <2>3 DEF Consistent
<1> QED BY <1>3, <1>6, <1>7, <1>8, <1>9 DEF IInv

\* A task gives its reference back.
LEMMA EndTaskStep ==
    ASSUME IInv, NEW t \in Tasks, EndTask(t)
    PROVE  IInv'
<1> DEFINE s == owner[t]
<1>1. /\ task[t] = "run" /\ ref_count' = [ref_count EXCEPT ![s] = @ - 1]
      /\ task' = [task EXCEPT ![t] = IF ref_count'[s] = 0 THEN "last" ELSE "done"]
      /\ UNCHANGED <<sessions, sessions_mutex, object, socket, id, connected,
                     out_msgs, deferred, owner, deleting, dangling>>
  BY DEF EndTask
<1>2. TypeOK /\ Consistent
  BY DEF IInv
<1>3. s \in Sessions /\ t \in Counted(s)
  BY <1>1, <1>2 DEF Consistent, Counted
<1>4. object[s] = "live"
  BY <1>3 DEF IInv, SessionOutlivesTasks
<1>5. ref_count[s] - 1 \in Nat
  BY <1>3, <1>4, LiveCount
<1> HIDE DEF s
<1>6. TypeOK'
  BY <1>1, <1>2, <1>3, <1>5 DEF TypeOK
<1>7. task'[t] \in {"last", "done"} /\ \A u \in Tasks : u # t => task'[u] = task[u]
  BY <1>1, <1>2 DEF TypeOK
<1>8. ASSUME NEW r \in Sessions
      PROVE  Counted(r)' = IF r = s THEN Counted(r) \ {t} ELSE Counted(r)
  BY <1>1, <1>3, <1>7 DEF Counted, s
<1>9. RefCountExact'
  <2> SUFFICES ASSUME NEW r \in Sessions, object[r] = "live"
               PROVE  ref_count'[r] = Cardinality(Counted(r)') + SocketRef(r)
    BY <1>1 DEF RefCountExact, SocketRef
  <2>1. ref_count[r] = Cardinality(Counted(r)) + SocketRef(r)
    BY LiveCount
  <2>2. CASE r # s
    BY <1>1, <1>2, <1>8, <2>1, <2>2 DEF TypeOK
  <2>3. CASE r = s
    <3>1. Cardinality(Counted(r)') = Cardinality(Counted(r)) - 1
      BY <1>3, <1>8, <2>3, CountedFinite, FS_RemoveElement
    <3>2. ref_count'[r] = ref_count[r] - 1
      BY <1>1, <1>2, <2>3 DEF TypeOK
    <3>3. Cardinality(Counted(r)) \in Nat /\ SocketRef(r) \in Nat
      BY CountedFinite DEF SocketRef
    <3> QED BY <2>1, <3>1, <3>2, <3>3
  <2> QED BY <2>2, <2>3
<1>10. SessionOutlivesTasks'
  BY <1>1, <1>8 DEF IInv, SessionOutlivesTasks
<1>11. MapHoldsLive' /\ ClosedSessionSilent'
  BY <1>1 DEF IInv, MapHoldsLive, ClosedSessionSilent
<1>12. Consistent'
  <2>1. deleting[t] = NoSession
    BY <1>1, <1>2 DEF Consistent
  <2> QED BY <1>1, <1>2, <1>3, <1>7, <2>1 DEF Consistent, s
<1> QED BY <1>6, <1>9, <1>10, <1>11, <1>12 DEF IInv

\* The last task reads the id, and enters DeleteSession if it could.
LEMMA ReadIdStep ==
    ASSUME IInv, NEW t \in Tasks, ReadId(t)
    PROVE  IInv'
<1>1. /\ task[t] = "last"
      /\ UNCHANGED <<sessions, sessions_mutex, object, socket, id, ref_count,
                     connected, out_msgs, deferred, owner>>
  BY DEF ReadId
<1>2. TypeOK /\ Consistent
  BY DEF IInv
<1>3. owner[t] \in Sessions /\ deleting[t] = NoSession
  BY <1>1, <1>2 DEF Consistent
<1>4. /\ task'[t] \in {"done", "delete"}
      /\ \A u \in Tasks : u # t => task'[u] = task[u]
      /\ deleting'[t] \in Sessions \cup {NoSession}
      /\ deleting'[t] # NoSession => task'[t] = "delete"
      /\ \A a \in Actors : a # t => deleting'[a] = deleting[a]
      /\ TypeOK'
  <2>1. CASE object[owner[t]] = "freed"
    <3>1. dangling' = TRUE /\ task' = [task EXCEPT ![t] = "done"] /\ deleting' = deleting
      BY <2>1 DEF ReadId
    <3> QED BY <1>1, <1>2, <1>3, <3>1 DEF TypeOK
  <2>2. CASE object[owner[t]] # "freed"
    <3>1. /\ dangling' = dangling /\ task' = [task EXCEPT ![t] = "delete"]
          /\ deleting' = [deleting EXCEPT ![t] = id[owner[t]]]
      BY <2>2 DEF ReadId
    <3>2. id[owner[t]] \in Sessions /\ t \in Actors
      BY <1>2, <1>3 DEF TypeOK, Actors
    <3> QED BY <1>1, <1>2, <3>1, <3>2 DEF TypeOK
  <2> QED BY <2>1, <2>2
<1>5. Main \in Actors /\ Main # t /\ t \in Actors
  BY MainAssumption DEF Actors
<1>6. sessions_mutex # t
  BY <1>3, <1>5, Deleter
<1>7. ASSUME NEW s \in Sessions PROVE Counted(s)' = Counted(s)
  BY <1>1, <1>4 DEF Counted
<1>8. RefCountExact'
  BY <1>1, <1>7 DEF IInv, RefCountExact
<1>9. SessionOutlivesTasks'
  BY <1>1, <1>7 DEF IInv, SessionOutlivesTasks
<1>10. MapHoldsLive'
  BY <1>1 DEF IInv, MapHoldsLive
<1>11. ClosedSessionSilent'
  BY <1>1, <1>4, <1>5 DEF IInv, ClosedSessionSilent
<1>12. Consistent'
  <2>1. \A u \in Tasks : task'[u] \in {"queued", "run", "active", "last"} => owner'[u] \in Sessions
    BY <1>1, <1>2, <1>4 DEF Consistent
  <2>2. \A u \in Tasks : deleting'[u] # NoSession => task'[u] = "delete"
    BY <1>2, <1>4 DEF Consistent, Actors
  <2>3. sessions_mutex' # "free" => deleting'[sessions_mutex'] \in sessions'
    BY <1>1, <1>2, <1>4, <1>6 DEF Consistent, TypeOK
  <2>4. sessions_mutex' = Main => ~connected'[deleting'[Main]]
    BY <1>1, <1>2, <1>4, <1>5 DEF Consistent
  <2>5. \A s \in Sessions : socket'[s] = "none" <=> object'[s] = "none"
    BY <1>1, <1>2 DEF Consistent
  <2> QED BY <2>1, <2>2, <2>3, <2>4, <2>5 DEF Consistent
<1> QED BY <1>4, <1>8, <1>9, <1>10, <1>11, <1>12 DEF IInv

\* A new socket gets a Session with one reference, its own.
LEMMA OnConnectStep ==
    ASSUME IInv, NEW s \in Sessions, OnConnect(s)
    PROVE  IInv'
<1>1. /\ sessions_mutex = "free" /\ socket[s] = "none"
      /\ socket' = [socket EXCEPT ![s] = "open"] /\ sessions' = sessions \cup {s}
      /\ object' = [object EXCEPT ![s] = "live"] /\ connected' = [connected EXCEPT ![s] = TRUE]
      /\ ref_count' = [ref_count EXCEPT ![s] = 1]
      /\ UNCHANGED <<sessions_mutex, id, out_msgs, deferred, task, owner, deleting, dangling>>
  BY DEF OnConnect
<1>2. TypeOK /\ Consistent
  BY DEF IInv
<1>3. TypeOK'
  BY <1>1, <1>2 DEF TypeOK
<1>4. object[s] = "none"
  BY <1>1, <1>2 DEF Consistent
<1>5. Counted(s) = {}
  BY <1>4 DEF IInv, SessionOutlivesTasks
<1>6. ASSUME NEW r \in Sessions PROVE Counted(r)' = Counted(r)
  BY <1>1 DEF Counted
<1>7. \A r \in Sessions : r # s => /\ socket'[r] = socket[r] /\ object'[r] = object[r]
                                  /\ connected'[r] = connected[r] /\ ref_count'[r] = ref_count[r]
  BY <1>1, <1>2 DEF TypeOK
<1>8. socket'[s] = "open" /\ object'[s] = "live" /\ connected'[s] = TRUE /\ ref_count'[s] = 1
  BY <1>1, <1>2 DEF TypeOK
<1>9. RefCountExact'
  <2> SUFFICES ASSUME NEW r \in Sessions, object'[r] = "live"
               PROVE  ref_count'[r] = Cardinality(Counted(r)')
                                      + (IF socket'[r] \in {"open", "forced"} THEN 1 ELSE 0)
    BY DEF RefCountExact
  <2>1. CASE r = s
    <3>1. Cardinality(Counted(r)') = 0
      BY <1>5, <1>6, <2>1, FS_EmptySet
    <3> QED BY <1>8, <2>1, <3>1
  <2>2. CASE r # s
    BY <1>6, <1>7, <2>2 DEF IInv, RefCountExact
  <2> QED BY <2>1, <2>2
<1>10. SessionOutlivesTasks'
  BY <1>6, <1>7, <1>8 DEF IInv, SessionOutlivesTasks
<1>11. MapHoldsLive'
  BY <1>1, <1>7, <1>8 DEF IInv, MapHoldsLive
<1>12. ClosedSessionSilent'
  BY <1>1, <1>7, <1>8 DEF IInv, ClosedSessionSilent
<1>13. Consistent'
  <2>1. sessions_mutex' # Main
    BY <1>1, ActorsAssumption
  <2> QED BY <1>1, <1>2, <1>7, <1>8, <2>1 DEF Consistent
<1> QED BY <1>3, <1>9, <1>10, <1>11, <1>12, <1>13 DEF IInv

\* The socket gives its reference back.
LEMMA OnDisconnectStep ==
    ASSUME IInv, NEW s \in Sessions, OnDisconnect(s)
    PROVE  IInv'
<1>1. /\ deleting[Main] = NoSession /\ socket[s] = "open" /\ s \in sessions
      /\ socket' = [socket EXCEPT ![s] = "closed"]
      /\ ref_count' = [ref_count EXCEPT ![s] = @ - 1]
      /\ deleting' = [deleting EXCEPT ![Main] = s]
      /\ UNCHANGED <<sessions, sessions_mutex, object, id, connected, out_msgs,
                     deferred, task, owner, dangling>>
  BY DEF OnDisconnect, MainInLoop
<1>2. TypeOK /\ Consistent /\ object[s] = "live"
  BY <1>1 DEF IInv, MapHoldsLive
<1>3. ref_count[s] - 1 \in Nat
  BY <1>1, <1>2, LiveCount
<1>4. Main \in Actors /\ Main \notin Tasks
  BY MainAssumption DEF Actors
<1>5. TypeOK'
  BY <1>1, <1>2, <1>3, <1>4 DEF TypeOK
<1>6. sessions_mutex # Main
  BY <1>1, <1>4, Deleter
<1>7. /\ deleting'[Main] = s /\ socket'[s] = "closed" /\ ref_count'[s] = ref_count[s] - 1
      /\ \A a \in Actors : a # Main => deleting'[a] = deleting[a]
      /\ \A r \in Sessions : r # s => socket'[r] = socket[r] /\ ref_count'[r] = ref_count[r]
  BY <1>1, <1>2, <1>4 DEF TypeOK
<1>8. ASSUME NEW r \in Sessions PROVE Counted(r)' = Counted(r)
  BY <1>1 DEF Counted
<1>9. RefCountExact'
  <2> SUFFICES ASSUME NEW r \in Sessions, object[r] = "live"
               PROVE  ref_count'[r] = Cardinality(Counted(r))
                                      + (IF socket'[r] \in {"open", "forced"} THEN 1 ELSE 0)
    BY <1>1, <1>8 DEF RefCountExact
  <2>1. ref_count[r] = Cardinality(Counted(r)) + SocketRef(r) /\ Cardinality(Counted(r)) \in Nat
    BY LiveCount, CountedFinite
  <2> QED BY <1>1, <1>7, <2>1 DEF SocketRef
<1>10. SessionOutlivesTasks'
  BY <1>1, <1>8 DEF IInv, SessionOutlivesTasks
<1>11. MapHoldsLive'
  BY <1>1 DEF IInv, MapHoldsLive
<1>12. ClosedSessionSilent'
  <2> SUFFICES ASSUME NEW r \in Sessions, object[r] = "live", socket'[r] = "closed", r # s
               PROVE  ~connected[r]
    BY <1>1, <1>7 DEF ClosedSessionSilent
  <2>1. deleting[Main] # r
    BY <1>1, NoSessionAssumption
  <2> QED BY <1>7, <2>1 DEF IInv, ClosedSessionSilent
<1>13. Consistent'
  <2>1. \A t \in Tasks : deleting'[t] = deleting[t]
    BY <1>4, <1>7 DEF Actors
  <2>2. sessions_mutex' # "free" => deleting'[sessions_mutex'] \in sessions'
    BY <1>1, <1>2, <1>6, <1>7 DEF Consistent, TypeOK
  <2>3. \A r \in Sessions : socket'[r] = "none" <=> object'[r] = "none"
    BY <1>1, <1>2, <1>7 DEF Consistent
  <2> QED BY <1>1, <1>2, <1>6, <2>1, <2>2, <2>3 DEF Consistent
<1> QED BY <1>5, <1>9, <1>10, <1>11, <1>12, <1>13 DEF IInv

LEMMA OnForcedDisconnectStep ==
    ASSUME IInv, NEW s \in Sessions, OnForcedDisconnect(s)
    PROVE  IInv'
<1>1. /\ socket[s] = "open" /\ socket' = [socket EXCEPT ![s] = "forced"]
      /\ UNCHANGED <<sessions, sessions_mutex, object, id, ref_count, connected,
                     out_msgs, deferred, task, owner, deleting, dangling>>
  BY DEF OnForcedDisconnect
<1>2. TypeOK /\ Consistent
  BY DEF IInv
<1>3. TypeOK'
  BY <1>1, <1>2 DEF TypeOK
<1>4. socket'[s] = "forced" /\ \A r \in Sessions : r # s => socket'[r] = socket[r]
  BY <1>1, <1>2 DEF TypeOK
<1>5. ASSUME NEW r \in Sessions PROVE Counted(r)' = Counted(r)
  BY <1>1 DEF Counted
<1>6. RefCountExact'
  BY <1>1, <1>4, <1>5 DEF IInv, RefCountExact
<1>7. SessionOutlivesTasks' /\ MapHoldsLive'
  BY <1>1, <1>5 DEF IInv, SessionOutlivesTasks, MapHoldsLive
<1>8. ClosedSessionSilent'
  BY <1>1, <1>4 DEF IInv, ClosedSessionSilent
<1>9. Consistent'
  BY <1>1, <1>2, <1>4 DEF Consistent
<1> QED BY <1>3, <1>6, <1>7, <1>8, <1>9 DEF IInv

\* What the return from DeleteSession does to tasks and to their references.
LEMMA ReturnStep ==
    ASSUME IInv, NEW a \in Actors, deleting[a] # NoSession, Return(a), owner' = owner
    PROVE  /\ task' \in [Tasks -> {"none", "queued", "run", "active", "last", "delete", "done"}]
           /\ deleting' \in [Actors -> Sessions \cup {NoSession}]
           /\ \A t \in Tasks : task'[t] # task[t] => t = a /\ task[t] = "delete" /\ task'[t] = "done"
           /\ deleting'[a] = NoSession /\ \A b \in Actors : b # a => deleting'[b] = deleting[b]
           /\ \A s \in Sessions : Counted(s)' = Counted(s)
<1>1. /\ deleting' = [deleting EXCEPT ![a] = NoSession]
      /\ task' = [t \in Tasks |-> IF t = a THEN "done" ELSE task[t]]
  BY DEF Return
<1>2. TypeOK
  BY DEF IInv
<1>3. \A t \in Tasks : task'[t] # task[t] => t = a /\ task[t] = "delete" /\ task'[t] = "done"
  BY <1>1, Deleter
<1>4. ASSUME NEW s \in Sessions PROVE Counted(s)' = Counted(s)
  BY <1>3 DEF Counted
<1> QED BY <1>1, <1>2, <1>3, <1>4 DEF TypeOK

LEMMA DeleteNotFoundStep ==
    ASSUME IInv, NEW a \in Actors, DeleteNotFound(a)
    PROVE  IInv'
<1>1. /\ deleting[a] # NoSession /\ sessions_mutex = "free" /\ deleting[a] \notin sessions
      /\ Return(a)
      /\ UNCHANGED <<sessions, sessions_mutex, object, socket, id, ref_count, connected,
                     out_msgs, deferred, owner, dangling>>
  BY DEF DeleteNotFound
<1>2. TypeOK /\ Consistent /\ MapHoldsLive
  BY DEF IInv
<1>3. /\ task' \in [Tasks -> {"none", "queued", "run", "active", "last", "delete", "done"}]
      /\ deleting' \in [Actors -> Sessions \cup {NoSession}]
      /\ \A t \in Tasks : task'[t] # task[t] => t = a /\ task[t] = "delete" /\ task'[t] = "done"
      /\ deleting'[a] = NoSession /\ \A b \in Actors : b # a => deleting'[b] = deleting[b]
      /\ \A s \in Sessions : Counted(s)' = Counted(s)
  BY <1>1, ReturnStep
<1>4. TypeOK'
  BY <1>1, <1>2, <1>3 DEF TypeOK
<1>5. RefCountExact'
  BY <1>1, <1>3 DEF IInv, RefCountExact
<1>6. SessionOutlivesTasks' /\ MapHoldsLive'
  BY <1>1, <1>3 DEF IInv, SessionOutlivesTasks, MapHoldsLive
<1>7. ClosedSessionSilent'
  <2> SUFFICES ASSUME NEW s \in Sessions, object[s] = "live", socket[s] = "closed",
                      deleting'[Main] # s
               PROVE  ~connected[s]
    BY <1>1 DEF ClosedSessionSilent
  <2>1. s \in sessions
    BY <1>2 DEF MapHoldsLive
  <2>2. deleting[Main] # s
    BY <1>1, <1>3, <2>1 DEF Actors
  <2> QED BY <2>2 DEF IInv, ClosedSessionSilent
<1>8. Consistent'
  <2>1. sessions_mutex' = "free" /\ sessions_mutex' # Main
    BY <1>1, ActorsAssumption
  <2>2. \A t \in Tasks : deleting'[t] # NoSession => task'[t] = "delete"
    BY <1>2, <1>3 DEF Consistent, Actors
  <2> QED BY <1>1, <1>2, <1>3, <2>1, <2>2 DEF Consistent
<1> QED BY <1>4, <1>5, <1>6, <1>7, <1>8 DEF IInv

LEMMA DeleteBeginStep ==
    ASSUME IInv, NEW a \in Actors, DeleteBegin(a)
    PROVE  IInv'
<1>1. /\ deleting[a] \in sessions /\ sessions_mutex = "free" /\ sessions_mutex' = a
      /\ connected' = [connected EXCEPT ![deleting[a]] = FALSE]
      /\ UNCHANGED <<sessions, object, socket, id, ref_count, out_msgs, deferred,
                     task, owner, deleting, dangling>>
  BY DEF DeleteBegin
<1>2. TypeOK /\ Consistent
  BY DEF IInv
<1>3. TypeOK'
  BY <1>1, <1>2 DEF TypeOK
<1>4. \A s \in Sessions : connected'[s] = IF s = deleting[a] THEN FALSE ELSE connected[s]
  BY <1>1, <1>2 DEF TypeOK
<1>5. ASSUME NEW s \in Sessions PROVE Counted(s)' = Counted(s)
  BY <1>1 DEF Counted
<1>6. RefCountExact'
  BY <1>1, <1>5 DEF IInv, RefCountExact
<1>7. SessionOutlivesTasks' /\ MapHoldsLive'
  BY <1>1, <1>5 DEF IInv, SessionOutlivesTasks, MapHoldsLive
<1>8. ClosedSessionSilent'
  BY <1>1, <1>4 DEF IInv, ClosedSessionSilent
<1>9. Consistent'
  <2>1. deleting[a] \in Sessions
    BY <1>1, <1>2 DEF TypeOK
  <2>2. sessions_mutex' = Main => ~connected'[deleting'[Main]]
    BY <1>1, <1>4, <2>1
  <2> QED BY <1>1, <1>2, <2>2 DEF Consistent
<1> QED BY <1>3, <1>6, <1>7, <1>8, <1>9 DEF IInv

\* The object is freed only when nothing refers to it.
LEMMA DeleteEndStep ==
    ASSUME IInv, NEW a \in Actors, DeleteEnd(a)
    PROVE  IInv'
<1> DEFINE s == deleting[a]
<1>1. /\ sessions_mutex = a /\ sessions_mutex' = "free" /\ Return(a)
      /\ UNCHANGED <<socket, id, ref_count, connected, out_msgs, deferred, owner, dangling>>
  BY DEF DeleteEnd
<1>2. TypeOK /\ Consistent /\ MapHoldsLive
  BY DEF IInv
<1>3. s \in sessions /\ s \in Sessions /\ object[s] = "live" /\ deleting[a] # NoSession
  BY <1>1, Deleter
<1>4. \/ ref_count[s] # 0 /\ object' = object /\ sessions' = sessions
      \/ /\ ref_count[s] = 0 /\ object' = [object EXCEPT ![s] = "freed"]
         /\ sessions' = sessions \ {s}
  BY DEF DeleteEnd
<1>5. /\ task' \in [Tasks -> {"none", "queued", "run", "active", "last", "delete", "done"}]
      /\ deleting' \in [Actors -> Sessions \cup {NoSession}]
      /\ \A t \in Tasks : task'[t] # task[t] => t = a /\ task[t] = "delete" /\ task'[t] = "done"
      /\ deleting'[a] = NoSession /\ \A b \in Actors : b # a => deleting'[b] = deleting[b]
      /\ \A r \in Sessions : Counted(r)' = Counted(r)
  BY <1>1, <1>3, ReturnStep
<1>6. a = Main => ~connected[s]
  BY <1>1, <1>2 DEF Consistent
<1> HIDE DEF s
<1>7. /\ \A r \in Sessions : r # s => object'[r] = object[r] /\ (r \in sessions' <=> r \in sessions)
      /\ \/ ref_count[s] # 0 /\ object'[s] = "live" /\ s \in sessions'
         \/ ref_count[s] = 0 /\ object'[s] = "freed" /\ s \notin sessions'
      /\ sessions' \subseteq Sessions
  BY <1>2, <1>3, <1>4 DEF TypeOK
<1>8. TypeOK'
  <2>1. object' \in [Sessions -> {"none", "live", "freed"}]
    BY <1>2, <1>4 DEF TypeOK
  <2> QED BY <1>1, <1>2, <1>5, <1>7, <2>1 DEF TypeOK
<1>9. RefCountExact'
  BY <1>1, <1>3, <1>5, <1>7 DEF IInv, RefCountExact
<1>10. SessionOutlivesTasks'
  <2>1. ref_count[s] = 0 => Counted(s) = {}
    BY <1>3, LiveCount
  <2> QED BY <1>5, <1>7, <2>1 DEF IInv, SessionOutlivesTasks
<1>11. MapHoldsLive'
  BY <1>2, <1>7 DEF MapHoldsLive
<1>12. ClosedSessionSilent'
  <2> SUFFICES ASSUME NEW r \in Sessions, object'[r] = "live", socket[r] = "closed",
                      deleting'[Main] # r
               PROVE  ~connected[r]
    BY <1>1 DEF ClosedSessionSilent
  <2>1. object[r] = "live"
    BY <1>3, <1>7
  <2>2. CASE a = Main /\ r = s
    BY <1>6, <2>2
  <2>3. CASE ~(a = Main /\ r = s)
    <3>1. deleting[Main] # r
      BY <1>5, <2>3 DEF Actors, s
    <3> QED BY <2>1, <3>1 DEF IInv, ClosedSessionSilent
  <2> QED BY <2>2, <2>3
<1>13. Consistent'
  <2>1. sessions_mutex' = "free" /\ sessions_mutex' # Main
    BY <1>1, ActorsAssumption
  <2>2. \A t \in Tasks : deleting'[t] # NoSession => task'[t] = "delete"
    BY <1>2, <1>5 DEF Consistent, Actors
  <2>3. \A r \in Sessions : socket'[r] = "none" <=> object'[r] = "none"
    BY <1>1, <1>2, <1>3, <1>7 DEF Consistent
  <2>4. \A t \in Tasks : task'[t] \in {"queued", "run", "active", "last"} => owner'[t] \in Sessions
    BY <1>1, <1>2, <1>5 DEF Consistent
  <2> QED BY <2>1, <2>2, <2>3, <2>4 DEF Consistent
<1> QED BY <1>8, <1>9, <1>10, <1>11, <1>12, <1>13 DEF IInv

-----------------------------------------------------------------------------
LEMMA IInvInit == Init => IInv
<1> SUFFICES ASSUME Init PROVE IInv
  OBVIOUS
<1>1. TypeOK
  BY DEF Init, TypeOK
<1>2. \A s \in Sessions : Counted(s) = {} /\ object[s] = "none"
  BY DEF Init, Counted
<1>3. RefCountExact /\ SessionOutlivesTasks /\ ClosedSessionSilent
  BY <1>2 DEF RefCountExact, SessionOutlivesTasks, ClosedSessionSilent
<1>4. MapHoldsLive
  BY <1>2 DEF Init, MapHoldsLive
<1>5. Consistent
  BY ActorsAssumption DEF Init, Consistent, Actors
<1> QED BY <1>1, <1>3, <1>4, <1>5 DEF IInv

LEMMA ClientSteps ==
    ASSUME IInv, NEW s \in Sessions, Client(s) \/ RunDeferred(s)
    PROVE  IInv'
<1>1. TypeOK
  BY DEF IInv
<1>2. CASE OnConnect(s)
  BY <1>2, OnConnectStep
<1>3. CASE OnDisconnect(s)
  BY <1>3, OnDisconnectStep
<1>4. CASE OnForcedDisconnect(s)
  BY <1>4, OnForcedDisconnectStep
<1>5. ASSUME NEW t \in Tasks, OnMessageTask(s, t) PROVE IInv'
  <2>1. object[s] = "live"
    BY <1>5 DEF OnMessageTask, IInv, MapHoldsLive
  <2> QED BY <1>5, <2>1, NewTaskStep DEF OnMessageTask
<1>6. ASSUME NEW i \in Sessions, OnRegisterViewer(s, i) PROVE IInv'
  <2>1. TypeOK'
    BY <1>1, <1>6 DEF OnRegisterViewer, TypeOK
  <2> QED BY <1>6, <2>1, QuietStep DEF OnRegisterViewer
<1>7. CASE OnResumeSession(s)
  <2>1. TypeOK'
    BY <1>1, <1>7 DEF OnResumeSession, TypeOK
  <2>2. \A r \in Sessions : connected'[r] = connected[r] \/ (socket[r] = "open" /\ MainInLoop)
    BY <1>1, <1>7 DEF OnResumeSession, TypeOK
  <2> QED BY <1>7, <2>1, <2>2, QuietStep DEF OnResumeSession
<1>8. CASE RunDeferred(s)
  <2>1. deferred' \in [Sessions -> Nat] /\ out_msgs' \in [Sessions -> Nat]
    BY <1>1, <1>8 DEF RunDeferred, TypeOK
  <2>2. dangling' \in BOOLEAN
    BY <1>8 DEF RunDeferred
  <2>3. TypeOK'
    BY <1>1, <1>8, <2>1, <2>2 DEF RunDeferred, TypeOK
  <2> QED BY <1>8, <2>3, QuietStep DEF RunDeferred
<1> QED BY <1>2, <1>3, <1>4, <1>5, <1>6, <1>7, <1>8 DEF Client

LEMMA TaskStepsKeep ==
    ASSUME IInv, NEW t \in Tasks, TaskSteps(t) \/ TaskProgress(t)
    PROVE  IInv'
<1>1. TypeOK
  BY DEF IInv
<1>2. CASE StartTask(t)
  <2>1. TypeOK'
    BY <1>1, <1>2 DEF StartTask, TypeOK
  <2>2. \A u \in Tasks : task'[u] = IF u = t THEN "run" ELSE task[u]
    BY <1>1, <1>2 DEF StartTask, TypeOK
  <2> QED BY <1>2, <2>1, <2>2, QuietStep DEF StartTask
<1>3. CASE BeginCalculation(t)
  <2>1. TypeOK'
    BY <1>1, <1>3 DEF BeginCalculation, TypeOK
  <2>2. \A u \in Tasks : task'[u] = IF u = t THEN "active" ELSE task[u]
    BY <1>1, <1>3 DEF BeginCalculation, TypeOK
  <2> QED BY <1>3, <2>1, <2>2, QuietStep DEF BeginCalculation
<1>4. CASE EndCalculation(t)
  <2>1. TypeOK'
    BY <1>1, <1>4 DEF EndCalculation, TypeOK
  <2>2. \A u \in Tasks : task'[u] = IF u = t THEN "run" ELSE task[u]
    BY <1>1, <1>4 DEF EndCalculation, TypeOK
  <2> QED BY <1>4, <2>1, <2>2, QuietStep DEF EndCalculation
<1>5. CASE SendEvent(t)
  <2>1. owner[t] \in Sessions
    BY <1>5 DEF IInv, Consistent, Counted, SendEvent
  <2>2. out_msgs' \in [Sessions -> Nat] /\ deferred' \in [Sessions -> Nat]
    BY <1>1, <1>5, <2>1 DEF SendEvent, TypeOK
  <2>3. TypeOK'
    BY <1>1, <1>5, <2>2 DEF SendEvent, TypeOK
  <2> QED BY <1>5, <2>3, QuietStep DEF SendEvent
<1>6. ASSUME NEW u \in Tasks, SpawnTask(t, u) PROVE IInv'
  <2>1. task[t] = "run" /\ NewTask(owner[t], u)
    BY <1>6 DEF SpawnTask
  <2>2. owner[t] \in Sessions /\ t \in Counted(owner[t])
    BY <2>1 DEF IInv, Consistent, Counted
  <2>3. object[owner[t]] = "live"
    BY <2>2 DEF IInv, SessionOutlivesTasks
  <2> QED BY <1>6, <2>1, <2>2, <2>3, NewTaskStep DEF SpawnTask
<1>7. CASE EndTask(t)
  BY <1>7, EndTaskStep
<1>8. CASE ReadId(t)
  BY <1>8, ReadIdStep
<1> QED BY <1>2, <1>3, <1>4, <1>5, <1>6, <1>7, <1>8 DEF TaskSteps, TaskProgress

\* The invariant from which the others follow.
THEOREM Inductive == Spec => []IInv
<1>1. IInv /\ [Next]_vars => IInv'
  <2> SUFFICES ASSUME IInv, [Next]_vars PROVE IInv'
    OBVIOUS
  <2>1. ASSUME NEW a \in Actors, DeleteSession(a) PROVE IInv'
    BY <2>1, DeleteNotFoundStep, DeleteBeginStep, DeleteEndStep DEF DeleteSession
  <2>2. CASE UNCHANGED vars
    <3>1. TypeOK'
      BY <2>2 DEF IInv, TypeOK, vars
    <3> QED BY <2>2, <3>1, QuietStep DEF vars
  <2> QED BY <2>1, <2>2, ClientSteps, TaskStepsKeep DEF Next
<1> QED BY <1>1, IInvInit, PTL DEF Spec

\* Types; a reference count never becomes negative.
THEOREM TypeCorrect == Spec => []TypeOK
<1>1. IInv => TypeOK
  BY DEF IInv
<1> QED BY <1>1, Inductive, PTL

\* The reference count of a session is the number of its references.
THEOREM RefCounts == Spec => []RefCountExact
<1>1. IInv => RefCountExact
  BY DEF IInv
<1> QED BY <1>1, Inductive, PTL

\* Whoever calls DeleteSession, with whatever id: no task ever executes after
\* its session was freed.
THEOREM TasksAreSafe == Spec => []SessionOutlivesTasks
<1>1. IInv => SessionOutlivesTasks
  BY DEF IInv
<1> QED BY <1>1, Inductive, PTL

\* A session whose disconnection was handled never sends again.
THEOREM ClosedIsSilent == Spec => []ClosedSessionSilent
<1>1. IInv => ClosedSessionSilent
  BY DEF IInv
<1> QED BY <1>1, Inductive, PTL

-----------------------------------------------------------------------------
(***************************************************************************)
(* Who is deleted by mistake.  A session is found by an id that its owner  *)
(* may have changed, so an open session can be disconnected by another     *)
(* one: only by one that is closed and has its id.  The id of a closed     *)
(* session changes no more, so it is to blame for as long as the session   *)
(* stays disconnected.  (With OwnIds alone the property is not inductive:  *)
(* ids could be exchanged and then changed back.)                          *)
(***************************************************************************)

\* The task that deletes is the last of a closed session, and uses its id.
LastOfClosed ==
    \A t \in Tasks : task[t] \in {"last", "delete"} =>
        /\ owner[t] \in Sessions /\ socket[owner[t]] = "closed"
        /\ deleting[t] \in {NoSession, id[owner[t]]}

MainDeletesClosed == deleting[Main] # NoSession => socket[deleting[Main]] = "closed"

CutOffByItsId ==
    \A s \in Sessions : socket[s] = "open" /\ ~connected[s] =>
        \E o \in Sessions : o # s /\ socket[o] = "closed" /\ id[o] = s

Blame == LastOfClosed /\ MainDeletesClosed /\ CutOffByItsId

\* Steps that close no session, end no task, read no id and begin no deletion.
LEMMA BlameKept ==
    ASSUME Blame,
           \A s \in Sessions : socket[s] = "closed" => socket'[s] = "closed" /\ id'[s] = id[s],
           \A t \in Tasks : task'[t] \in {"last", "delete"} =>
                /\ task[t] \in {"last", "delete"} /\ owner'[t] = owner[t]
                /\ deleting'[t] \in {NoSession, deleting[t]},
           deleting'[Main] \in {NoSession, deleting[Main]},
           deleting[Main] \in Sessions \cup {NoSession},
           \A s \in Sessions : socket'[s] = "open" =>
                connected'[s] \/ (socket[s] = "open" /\ ~connected[s])
    PROVE  Blame'
<1>1. LastOfClosed /\ MainDeletesClosed /\ CutOffByItsId
  BY DEF Blame
<1>2. LastOfClosed'
  <2> SUFFICES ASSUME NEW t \in Tasks, task'[t] \in {"last", "delete"}
               PROVE  /\ owner'[t] \in Sessions /\ socket'[owner'[t]] = "closed"
                      /\ deleting'[t] \in {NoSession, id'[owner'[t]]}
    BY DEF LastOfClosed
  <2>1. task[t] \in {"last", "delete"} /\ owner'[t] = owner[t]
    OBVIOUS
  <2>2. /\ owner[t] \in Sessions /\ socket[owner[t]] = "closed"
        /\ deleting[t] \in {NoSession, id[owner[t]]}
    BY <1>1, <2>1 DEF LastOfClosed
  <2>3. socket'[owner[t]] = "closed" /\ id'[owner[t]] = id[owner[t]]
    BY <2>2
  <2>4. deleting'[t] \in {NoSession, id[owner[t]]}
    BY <2>2
  <2> QED BY <2>1, <2>2, <2>3, <2>4
<1>3. MainDeletesClosed'
  BY <1>1 DEF MainDeletesClosed
<1>4. CutOffByItsId'
  <2> SUFFICES ASSUME NEW s \in Sessions, socket'[s] = "open", ~connected'[s]
               PROVE  \E o \in Sessions : o # s /\ socket'[o] = "closed" /\ id'[o] = s
    BY DEF CutOffByItsId
  <2>1. socket[s] = "open" /\ ~connected[s]
    OBVIOUS
  <2>2. PICK o \in Sessions : o # s /\ socket[o] = "closed" /\ id[o] = s
    BY <1>1, <2>1 DEF CutOffByItsId
  <2>3. socket'[o] = "closed" /\ id'[o] = id[o]
    BY <2>2
  <2> QED BY <2>2, <2>3
<1> QED BY <1>2, <1>3, <1>4 DEF Blame

LEMMA BlameOfClients ==
    ASSUME IInv, Blame, NEW s \in Sessions, Client(s) \/ RunDeferred(s)
    PROVE  Blame'
<1>1. TypeOK /\ Consistent /\ Main \in Actors /\ Main \notin Tasks
  BY MainAssumption DEF IInv, Actors
<1>2. deleting[Main] \in Sessions \cup {NoSession}
  BY <1>1 DEF TypeOK
<1>3. CASE OnConnect(s)
  BY <1>1, <1>2, <1>3, BlameKept DEF OnConnect, TypeOK
<1>4. CASE OnDisconnect(s)
  <2>1. /\ socket[s] = "open" /\ socket' = [socket EXCEPT ![s] = "closed"]
        /\ deleting' = [deleting EXCEPT ![Main] = s]
        /\ UNCHANGED <<id, connected, task, owner>>
    BY <1>4 DEF OnDisconnect
  <2>2. socket'[s] = "closed" /\ \A r \in Sessions : r # s => socket'[r] = socket[r]
    BY <1>1, <2>1 DEF TypeOK
  <2>3. deleting'[Main] = s /\ \A t \in Tasks : deleting'[t] = deleting[t]
    BY <1>1, <2>1 DEF TypeOK, Actors
  <2>4. LastOfClosed' /\ MainDeletesClosed' /\ CutOffByItsId'
    BY <2>1, <2>2, <2>3 DEF Blame, LastOfClosed, MainDeletesClosed, CutOffByItsId
  <2> QED BY <2>4 DEF Blame
<1>5. CASE OnForcedDisconnect(s)
  BY <1>1, <1>2, <1>5, BlameKept DEF OnForcedDisconnect, TypeOK
<1>6. ASSUME NEW t \in Tasks, OnMessageTask(s, t) PROVE Blame'
  BY <1>1, <1>2, <1>6, BlameKept DEF OnMessageTask, NewTask, TypeOK
<1>7. ASSUME NEW i \in Sessions, OnRegisterViewer(s, i) PROVE Blame'
  BY <1>1, <1>2, <1>7, BlameKept DEF OnRegisterViewer, TypeOK
<1>8. CASE OnResumeSession(s)
  BY <1>1, <1>2, <1>8, BlameKept DEF OnResumeSession, TypeOK
<1>9. CASE RunDeferred(s)
  BY <1>1, <1>2, <1>9, BlameKept DEF RunDeferred
<1> QED BY <1>3, <1>4, <1>5, <1>6, <1>7, <1>8, <1>9 DEF Client

LEMMA BlameOfTasks ==
    ASSUME IInv, Blame, NEW t \in Tasks, TaskSteps(t) \/ TaskProgress(t)
    PROVE  Blame'
<1>1. TypeOK /\ Consistent /\ Main \in Actors /\ Main \notin Tasks /\ t \in Actors
  BY MainAssumption DEF IInv, Actors
<1>2. deleting[Main] \in Sessions \cup {NoSession}
  BY <1>1 DEF TypeOK
<1>3. CASE StartTask(t)
  BY <1>1, <1>2, <1>3, BlameKept DEF StartTask, TypeOK
<1>4. CASE BeginCalculation(t)
  BY <1>1, <1>2, <1>4, BlameKept DEF BeginCalculation, TypeOK
<1>5. CASE EndCalculation(t)
  BY <1>1, <1>2, <1>5, BlameKept DEF EndCalculation, TypeOK
<1>6. CASE SendEvent(t)
  BY <1>1, <1>2, <1>6, BlameKept DEF SendEvent
<1>7. ASSUME NEW u \in Tasks, SpawnTask(t, u) PROVE Blame'
  BY <1>1, <1>2, <1>7, BlameKept DEF SpawnTask, NewTask, TypeOK
<1>8. CASE EndTask(t)
  <2> DEFINE s == owner[t]
  <2>1. /\ task[t] = "run" /\ ref_count' = [ref_count EXCEPT ![s] = @ - 1]
        /\ task' = [task EXCEPT ![t] = IF ref_count'[s] = 0 THEN "last" ELSE "done"]
        /\ UNCHANGED <<object, socket, id, connected, owner, deleting>>
    BY <1>8 DEF EndTask
  <2>2. s \in Sessions /\ deleting[t] = NoSession /\ t \in Counted(s)
    BY <1>1, <2>1 DEF Consistent, Counted
  <2>3. object[s] = "live"
    BY <2>2 DEF IInv, SessionOutlivesTasks
  <2>4. task'[t] = "last" => socket[s] = "closed"
    <3> SUFFICES ASSUME task'[t] = "last" PROVE socket[s] = "closed"
      OBVIOUS
    <3>1. ref_count[s] \in Nat /\ ref_count'[s] = ref_count[s] - 1
      BY <1>1, <2>1, <2>2 DEF TypeOK
    <3>2. ref_count'[s] = 0
      BY <1>1, <2>1 DEF TypeOK
    <3>3. ref_count[s] = Cardinality(Counted(s)) + SocketRef(s) /\ Cardinality(Counted(s)) \in Nat
      BY <2>2, <2>3, LiveCount, CountedFinite
    <3>4. Cardinality(Counted(s)) # 0
      BY <2>2, CountedFinite, FS_EmptySet
    <3>5. SocketRef(s) = 0
      BY <3>1, <3>2, <3>3, <3>4 DEF SocketRef
    <3>6. socket[s] \notin {"none", "open", "forced"}
      BY <1>1, <2>2, <2>3, <3>5 DEF SocketRef, Consistent
    <3> QED BY <1>1, <2>2, <3>6 DEF TypeOK
  <2>5. \A u \in Tasks : u # t => task'[u] = task[u]
    BY <1>1, <2>1 DEF TypeOK
  <2> HIDE DEF s
  <2>6. LastOfClosed'
    <3>1. task'[t] \in {"last", "done"}
      BY <1>1, <2>1 DEF TypeOK
    <3> QED BY <2>1, <2>2, <2>4, <2>5, <3>1 DEF Blame, LastOfClosed, s
  <2>7. MainDeletesClosed' /\ CutOffByItsId'
    BY <2>1 DEF Blame, MainDeletesClosed, CutOffByItsId
  <2> QED BY <2>6, <2>7 DEF Blame
<1>9. CASE ReadId(t)
  <2> DEFINE s == owner[t]
  <2>1. /\ task[t] = "last" /\ UNCHANGED <<socket, id, connected, owner>>
        /\ task' \in {[task EXCEPT ![t] = "done"], [task EXCEPT ![t] = "delete"]}
        /\ deleting' \in {deleting, [deleting EXCEPT ![t] = id[s]]}
    BY <1>9 DEF ReadId
  <2>2. s \in Sessions /\ socket[s] = "closed" /\ deleting[t] \in {NoSession, id[s]}
    BY <2>1 DEF Blame, LastOfClosed
  <2>3. /\ deleting'[t] \in {NoSession, id[s]}
        /\ \A a \in Actors : a # t => deleting'[a] = deleting[a]
        /\ \A u \in Tasks : u # t => task'[u] = task[u]
    BY <1>1, <2>1, <2>2 DEF TypeOK
  <2> HIDE DEF s
  <2>4. LastOfClosed'
    BY <2>1, <2>2, <2>3 DEF Blame, LastOfClosed, s, Actors
  <2>5. deleting'[Main] = deleting[Main]
    BY <1>1, <2>3
  <2>6. MainDeletesClosed' /\ CutOffByItsId'
    BY <2>1, <2>5 DEF Blame, MainDeletesClosed, CutOffByItsId
  <2> QED BY <2>4, <2>6 DEF Blame
<1> QED BY <1>3, <1>4, <1>5, <1>6, <1>7, <1>8, <1>9 DEF TaskSteps, TaskProgress

LEMMA BlameOfDeletions ==
    ASSUME IInv, Blame, NEW a \in Actors, DeleteSession(a)
    PROVE  Blame'
<1>1. TypeOK /\ Consistent /\ Main \in Actors /\ Main \notin Tasks
  BY MainAssumption DEF IInv, Actors
<1>2. deleting[Main] \in Sessions \cup {NoSession}
  BY <1>1 DEF TypeOK
<1>3. CASE DeleteNotFound(a) \/ DeleteEnd(a)
  <2>1. /\ deleting[a] # NoSession /\ Return(a)
        /\ UNCHANGED <<socket, id, connected, owner>>
    BY <1>3, Deleter DEF DeleteNotFound, DeleteEnd
  <2>2. /\ \A t \in Tasks : task'[t] # task[t] => task'[t] = "done"
        /\ deleting'[a] = NoSession /\ \A b \in Actors : b # a => deleting'[b] = deleting[b]
    BY <2>1, ReturnStep
  <2>3. \A b \in Actors : deleting'[b] \in {NoSession, deleting[b]}
    BY <2>2
  <2> QED BY <1>1, <1>2, <2>1, <2>2, <2>3, BlameKept DEF Actors
<1>4. CASE DeleteBegin(a)
  <2> DEFINE s == deleting[a]
  <2>1. /\ s \in sessions /\ connected' = [connected EXCEPT ![s] = FALSE]
        /\ UNCHANGED <<socket, id, task, owner, deleting>>
    BY <1>4 DEF DeleteBegin
  <2>2. s \in Sessions /\ s # NoSession
    BY <1>1, <2>1, NoSessionAssumption DEF TypeOK
  <2>3. \A r \in Sessions : r # s => connected'[r] = connected[r]
    BY <1>1, <2>1 DEF TypeOK
  <2>4. LastOfClosed' /\ MainDeletesClosed'
    BY <2>1 DEF Blame, LastOfClosed, MainDeletesClosed
  <2>5. socket[s] = "open" => \E o \in Sessions : o # s /\ socket[o] = "closed" /\ id[o] = s
    <3> SUFFICES ASSUME socket[s] = "open"
                 PROVE  \E o \in Sessions : o # s /\ socket[o] = "closed" /\ id[o] = s
      OBVIOUS
    <3>1. a # Main
      BY <2>2 DEF Blame, MainDeletesClosed
    <3>2. a \in Tasks /\ task[a] = "delete"
      BY <2>2, <3>1, Deleter DEF Actors
    <3>3. owner[a] \in Sessions /\ socket[owner[a]] = "closed" /\ id[owner[a]] = s
      BY <2>2, <3>2 DEF Blame, LastOfClosed
    <3> QED BY <3>3
  <2> HIDE DEF s
  <2>6. CutOffByItsId'
    BY <2>1, <2>3, <2>5 DEF Blame, CutOffByItsId
  <2> QED BY <2>4, <2>6 DEF Blame
<1> QED BY <1>3, <1>4 DEF DeleteSession

\* Whoever cuts an open session off is a closed session with its id.
THEOREM CutOffs == Spec => []Blame
<1>1. Init => Blame
  BY MainAssumption DEF Init, Blame, LastOfClosed, MainDeletesClosed, CutOffByItsId, Actors
<1>2. IInv /\ Blame /\ [Next]_vars => Blame'
  <2> SUFFICES ASSUME IInv, Blame, [Next]_vars PROVE Blame'
    OBVIOUS
  <2>1. CASE UNCHANGED vars
    BY <2>1 DEF vars, Blame, LastOfClosed, MainDeletesClosed, CutOffByItsId
  <2> QED BY <2>1, BlameOfClients, BlameOfTasks, BlameOfDeletions DEF Next
<1> QED BY <1>1, <1>2, Inductive, PTL DEF Spec

\* As long as no session has another one's id, no open session is cut off by
\* the deletion of another one.
THEOREM OpenIsConnected == Spec => []OpenSessionConnected
<1>1. Blame => OpenSessionConnected
  BY DEF Blame, CutOffByItsId, OpenSessionConnected, OwnIds
<1> QED BY <1>1, CutOffs, PTL
=============================================================================
