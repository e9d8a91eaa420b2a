-------------------------- MODULE Profiles_proofs --------------------------
(***************************************************************************)
(* Proofs about what sends profiles and histograms: the profiles of lines  *)
(* (LineProfiles) and cursors (CursorProfiles), the histograms of cubes    *)
(* (CubeHistograms), and the pixels of rows and columns (SpatialProfiles). *)
(* They share no variable, and use nothing of each other.  The lemmas on   *)
(* induction over numbers, which come first, are for other modules too.    *)
(***************************************************************************)
EXTENDS LineProfiles, CursorProfiles, CubeHistograms, SpatialProfiles,
        FiniteSetTheorems, SequenceTheorems, WellFoundedInduction, TLAPS

(***************************************************************************)
(* Induction up to a number, on sets of numbers, and the functions that    *)
(* are defined by recursion up to it.                                      *)
(***************************************************************************)

\* A set of numbers up to n has a least one.
LEMMA LeastNumber ==
    ASSUME NEW n \in Nat, NEW T, T \subseteq 0..n, T # {}
    PROVE  \E x \in T : \A y \in T : x <= y
<1> DEFINE S == 0..n
           U == {0..i : i \in T}
<1>1. IsFiniteSet(S)
  BY FS_Interval
<1>2. FiniteSubsetsOf(S) = SUBSET S
  BY <1>1, FS_FiniteSubsetsOfFinite
<1>3. U \subseteq SUBSET S /\ U # {}
  <2>1. \A i \in T : 0..i \subseteq S
    OBVIOUS
  <2> QED BY <2>1
<1>4. IsWellFoundedOn(StrictSubsetOrdering(S), FiniteSubsetsOf(S))
  BY FS_StrictSubsetOrderingWellFounded
<1> HIDE DEF S, U
<1>5. IsWellFoundedOn(StrictSubsetOrdering(S), SUBSET S)
  BY <1>2, <1>4
<1>6. PICK u \in U : \A v \in U : <<v, u>> \notin StrictSubsetOrdering(S)
  BY <1>3, <1>5, WFMin
<1>7. PICK x \in T : u = 0..x
  BY <1>6 DEF U
<1>8. ASSUME NEW y \in T, y < x PROVE FALSE
  <2>1. 0..y \in U
    BY DEF U
  <2>2. 0..y \subseteq u /\ 0..y # u
    <3>1. x \in Nat /\ y \in Nat
      BY DEF S
    <3>2. x \in u /\ x \notin 0..y
      BY <1>7, <1>8, <3>1
    <3>3. 0..y \subseteq u
      BY <1>7, <1>8, <3>1
    <3> QED BY <3>2, <3>3
  <2>3. <<0..y, u>> \in StrictSubsetOrdering(S)
    BY <1>3, <1>6, <2>1, <2>2 DEF StrictSubsetOrdering
  <2> QED BY <1>6, <2>1, <2>3
<1>9. T \subseteq Int /\ x \in Int
  BY DEF S
<1> QED BY <1>8, <1>9

\* A set of numbers up to n has a greatest one.
LEMMA GreatestNumber ==
    ASSUME NEW n \in Nat, NEW T, T \subseteq 0..n, T # {}
    PROVE  \E x \in T : \A y \in T : y <= x
<1> DEFINE R == {n - t : t \in T}
<1>1. R \subseteq 0..n /\ R # {}
  <2>1. \A t \in T : n - t \in 0..n
    OBVIOUS
  <2>2. PICK t \in T : TRUE
    OBVIOUS
  <2>3. n - t \in R
    OBVIOUS
  <2> QED BY <2>1, <2>3
<1>2. PICK r \in R : \A y \in R : r <= y
  <2> HIDE DEF R
  <2> QED BY <1>1, LeastNumber
<1>3. PICK x \in T : r = n - x
  OBVIOUS
<1>4. ASSUME NEW y \in T PROVE y <= x
  <2>1. n - y \in R
    OBVIOUS
  <2>2. r <= n - y
    BY <1>2, <2>1
  <2> QED BY <1>3, <2>2
<1> QED BY <1>4

\* Induction up to n: what holds of 0 and is passed on holds of all.
LEMMA InductionTo ==
    ASSUME NEW n \in Nat, NEW G, 0 \in G, \A i \in 0..n - 1 : i \in G => i + 1 \in G
    PROVE  0..n \subseteq G
<1> DEFINE T == (0..n) \ G
<1>1. SUFFICES ASSUME T # {} PROVE FALSE
  OBVIOUS
<1>2. PICK x \in T : \A y \in T : x <= y
  BY <1>1, LeastNumber
<1>3. x \in 0..n /\ x # 0 /\ x - 1 \in 0..n - 1
  BY <1>2
<1>4. x - 1 \notin T
  BY <1>2, <1>3
<1> QED BY <1>2, <1>3, <1>4
\* f is z at 0 and, from there to n, the result of the next step.
Recursive(f, n, z, step) == f[0] = z /\ \A i \in 1..n : f[i] = step[i][f[i - 1]]

\* A recursive function on 0..n is defined if every step is.
LEMMA RecursionTo ==
    ASSUME NEW n \in Nat, NEW X, NEW z \in X, NEW step \in [1..n -> [X -> X]]
    PROVE  \E f \in [0..n -> X] : Recursive(f, n, z, step)
<1> DEFINE Up(m) == \E f \in [0..m -> X] : f[0] = z /\ \A i \in 1..m : f[i] = step[i][f[i - 1]]
           G == {m \in 0..n : Up(m)}
<1>1. 0 \in G
  <2> DEFINE g == [i \in 0..0 |-> z]
  <2>1. g \in [0..0 -> X] /\ g[0] = z
    OBVIOUS
  <2>2. \A i \in 1..0 : g[i] = step[i][g[i - 1]]
    OBVIOUS
  <2> HIDE DEF g
  <2>3. Up(0)
    BY <2>1, <2>2
  <2> HIDE DEF Up
  <2> QED BY <2>3
<1>2. ASSUME NEW m \in 0..n - 1, m \in G PROVE m + 1 \in G
  <2>1. PICK f \in [0..m -> X] : f[0] = z /\ \A i \in 1..m : f[i] = step[i][f[i - 1]]
    BY <1>2
  <2>2. m \in Nat /\ m + 1 \in 1..n
    OBVIOUS
  <2> DEFINE v == step[m + 1][f[m]]
             g == [i \in 0..m + 1 |-> IF i = m + 1 THEN v ELSE f[i]]
  <2>3. v \in X
    <3>1. f[m] \in X
      BY <2>1, <2>2
    <3> QED BY <2>2, <3>1
  <2> HIDE DEF v
  <2>4. g \in [0..m + 1 -> X]
    BY <2>1, <2>2, <2>3
  <2>5. g[0] = z
    BY <2>1, <2>2
  <2>6. ASSUME NEW i \in 1..m + 1 PROVE g[i] = step[i][g[i - 1]]
    <3>1. CASE i = m + 1
      <4>1. g[i] = v /\ g[i - 1] = f[m] /\ i - 1 = m
        BY <3>1, <2>2
      <4> QED BY <3>1, <4>1 DEF v
    <3>2. CASE i # m + 1
      BY <3>2, <2>1, <2>2
    <3> QED BY <3>1, <3>2
  <2> HIDE DEF g
  <2>7. Up(m + 1)
    BY <2>4, <2>5, <2>6
  <2> HIDE DEF Up
  <2> QED BY <2>2, <2>7
<1> HIDE DEF Up
<1>3. 0..n \subseteq G
  BY <1>1, <1>2, InductionTo
<1> QED BY <1>3 DEF Up, Recursive

-----------------------------------------------------------------------------
(***************************************************************************)
(* Line profiles.  A task past its last look has the state of the line, or *)
(* was marked when the line moved; a stop that is to be seen stays until   *)
(* its task has seen it; a label is of the channel, or marked when that    *)
(* changed.                                                                *)
(***************************************************************************)

LinePlaces == {"idle", "queued", "fill", "next", "data", "lines", "check", "box", "profile", "send"}
LineRecords ==
    [at : LinePlaces, kind : {"none", "pv", "spatial"}, state : 0..MaxStates, box : 0..Boxes,
     todo : SUBSET Coordinates, coordinate : Coordinates \cup {Nobody}, label : 0..MaxStates,
     z : 0..MaxStates, missing : BOOLEAN, moved : BOOLEAN, stopped : BOOLEAN, changed : BOOLEAN]

\* Nothing is looked at any more before the result is sent.
LinePastLast(r) == r.box = Boxes /\ r.at \in {"box", "profile", "send"}
LineWithData == {"lines", "check", "box", "profile", "send"}

\* Where a task is says of what kind it is, and which box it has come to.
LinePlaced(r) ==
    /\ r.at = "queued" => r.kind = "pv"
    /\ r.at \in {"fill", "next", "data"} => r.kind = "spatial"
    /\ r.at \in LineWithData => r.kind \in {"pv", "spatial"}
    /\ r.at \in {"check", "box", "profile"} => r.box >= 1
    /\ r.at = "send" => r.box = Boxes

OfLine(r, current) == LinePastLast(r) => r.state = current \/ r.moved

\* A stop that is to be seen stays until the task sees it or it is taken away.
LineStopToSee(r, stop) ==
    r.stopped => stop /\ r.kind = "pv" /\ r.at \notin {"idle", "queued"} /\ ~LinePastLast(r)

LineOfChannel(r, z) ==
    /\ r.at = "data" => r.label = z \/ r.changed
    /\ r.at \in LineWithData /\ r.kind = "spatial" => r.z = r.label \/ r.changed

RightLineTask(r, current, z, stop) ==
    /\ r \in LineRecords /\ LinePlaced(r) /\ OfLine(r, current)
    /\ LineStopToSee(r, stop) /\ LineOfChannel(r, z)

LineTasksInv ==
    /\ profile_task \in [ProfileTasks -> LineRecords]
    /\ \A t \in ProfileTasks : RightLineTask(profile_task[t], line_state, current_z, stop_pv)

LineVariables ==
    /\ line_state \in 0..MaxStates /\ current_z \in 1..MaxStates
    /\ spatial_req \subseteq Coordinates /\ stop_pv \in BOOLEAN
    /\ box_owner \in {Nobody} \cup ProfileTasks

LineIInv == LineTasksInv /\ LineVariables /\ LineProfilesCorrect

LEMMA NoLineProfileFits ==
    /\ NoProfile \in LineRecords
    /\ \A current, z, stop : RightLineTask(NoProfile, current, z, stop)
<1>1. NoProfile \in LineRecords
  BY LineAssumption DEF NoProfile, LineRecords, LinePlaces, Removed, Nobody
<1>2. NoProfile.at = "idle" /\ ~NoProfile.stopped
  BY DEF NoProfile
<1> QED BY <1>1, <1>2 DEF RightLineTask, LinePlaced, OfLine, LineStopToSee, LineOfChannel, LinePastLast, LineWithData

\* A task as it is when it starts.
LEMMA NewLineTaskFits ==
    ASSUME NEW place, NEW kind, (place = "queued" /\ kind = "pv") \/ (place = "fill" /\ kind = "spatial"),
           NEW current, NEW z, NEW stop
    PROVE  RightLineTask([NoProfile EXCEPT !.at = place, !.kind = kind], current, z, stop)
<1> DEFINE n == [NoProfile EXCEPT !.at = place, !.kind = kind]
<1>2. n \in LineRecords
  BY NoLineProfileFits DEF LineRecords, LinePlaces
<1>3. n.at = place /\ n.kind = kind /\ ~n.stopped
  BY DEF NoProfile
<1> HIDE DEF n
<1>4. RightLineTask(n, current, z, stop)
  BY <1>2, <1>3
     DEF RightLineTask, LinePlaced, OfLine, LineStopToSee, LineOfChannel, LinePastLast, LineWithData
<1> QED BY <1>4 DEF n

LEMMA LineTaskIsRight ==
    ASSUME LineTasksInv, NEW t \in ProfileTasks
    PROVE  /\ RightLineTask(profile_task[t], line_state, current_z, stop_pv)
           /\ profile_task[t] \in LineRecords
BY DEF LineTasksInv

\* A step of one task that leaves what the others look at.
LEMMA LineStartKeeps ==
    ASSUME LineTasksInv, NEW t \in ProfileTasks, NEW r,
           RightLineTask(r, line_state, current_z, stop_pv), Start(t, r),
           UNCHANGED <<line_state, current_z, stop_pv>>
    PROVE  LineTasksInv'
<1>1. r \in LineRecords
  BY DEF RightLineTask
<1>2. /\ profile_task' \in [ProfileTasks -> LineRecords]
      /\ \A u \in ProfileTasks : profile_task'[u] = IF u = t THEN r ELSE profile_task[u]
  BY <1>1 DEF LineTasksInv, Start
<1>3. UNCHANGED line_state /\ UNCHANGED current_z /\ UNCHANGED stop_pv
  OBVIOUS
<1>4. ASSUME NEW u \in ProfileTasks
      PROVE  RightLineTask(profile_task'[u], line_state', current_z', stop_pv')
  <2>1. CASE u = t
    BY <1>2, <1>3, <2>1
  <2>2. CASE u # t
    <3>1. profile_task'[u] = profile_task[u]
      BY <1>2, <2>2
    <3> QED BY <1>3, <3>1 DEF LineTasksInv
  <2> QED BY <2>1, <2>2
<1> QED BY <1>2, <1>4 DEF LineTasksInv

LEMMA LineVariablesStay ==
    ASSUME LineVariables, UNCHANGED <<line_state, current_z, spatial_req, stop_pv, box_owner>>
    PROVE  LineVariables'
BY DEF LineVariables

LEMMA LineSentStays ==
    ASSUME LineProfilesCorrect, UNCHANGED line_sent
    PROVE  LineProfilesCorrect'
BY DEF LineProfilesCorrect, SentLineCurrent, StoppedPvNotSent, ProfileOfItsChannel

-----------------------------------------------------------------------------
\* The messages: what they leave of a task that runs.
LEMMA LineMarkMoved ==
    ASSUME NEW r \in LineRecords, NEW current, NEW other, NEW z, NEW stop,
           RightLineTask(r, current, z, stop)
    PROVE  RightLineTask([r EXCEPT !.moved = @ \/ LinePastLast(r)], other, z, stop)
<1> DEFINE moved == r.moved \/ LinePastLast(r)
           n == [r EXCEPT !.moved = moved]
<1> HIDE DEF moved
<1>1. moved \in BOOLEAN
  BY DEF moved
<1>2. /\ n \in LineRecords /\ n.at = r.at /\ n.kind = r.kind /\ n.state = r.state /\ n.box = r.box
      /\ n.label = r.label /\ n.z = r.z
      /\ n.moved <=> moved
      /\ n.stopped <=> r.stopped
      /\ n.changed <=> r.changed
  BY <1>1 DEF LineRecords
<1> HIDE DEF n
<1>3. RightLineTask(n, other, z, stop)
  BY <1>2 DEF RightLineTask, LinePlaced, OfLine, LineStopToSee, LineOfChannel, LinePastLast, moved
<1> QED BY <1>3 DEF n, moved

LEMMA LineMarkChanged ==
    ASSUME NEW r \in LineRecords, NEW current, NEW z, NEW other, NEW stop,
           RightLineTask(r, current, z, stop)
    PROVE  RightLineTask([r EXCEPT !.changed = @ \/ r.at = "data"], current, other, stop)
<1> DEFINE changed == r.changed \/ r.at = "data"
           n == [r EXCEPT !.changed = changed]
<1> HIDE DEF changed
<1>1. changed \in BOOLEAN
  BY DEF changed
<1>2. /\ n \in LineRecords /\ n.at = r.at /\ n.kind = r.kind /\ n.state = r.state /\ n.box = r.box
      /\ n.label = r.label /\ n.z = r.z
      /\ n.moved <=> r.moved
      /\ n.stopped <=> r.stopped
      /\ n.changed <=> changed
  BY <1>1 DEF LineRecords
<1> HIDE DEF n
<1>3. RightLineTask(n, current, other, stop)
  BY <1>2 DEF RightLineTask, LinePlaced, OfLine, LineStopToSee, LineOfChannel, LinePastLast, changed
<1> QED BY <1>3 DEF n, changed

LEMMA LineMarkStopped ==
    ASSUME NEW r \in LineRecords, NEW current, NEW z, NEW stop, NEW mark \in BOOLEAN,
           RightLineTask(r, current, z, stop),
           mark => r.kind = "pv" /\ r.at \notin {"idle", "queued"} /\ ~LinePastLast(r)
    PROVE  RightLineTask([r EXCEPT !.stopped = @ \/ mark], current, z, TRUE)
<1> DEFINE stopped == r.stopped \/ mark
           n == [r EXCEPT !.stopped = stopped]
<1> HIDE DEF stopped
<1>1. stopped \in BOOLEAN
  BY DEF stopped
<1>2. /\ n \in LineRecords /\ n.at = r.at /\ n.kind = r.kind /\ n.state = r.state /\ n.box = r.box
      /\ n.label = r.label /\ n.z = r.z
      /\ n.moved <=> r.moved
      /\ n.stopped <=> stopped
      /\ n.changed <=> r.changed
  BY <1>1 DEF LineRecords
<1> HIDE DEF n
<1>3. RightLineTask(n, current, z, TRUE)
  BY <1>2 DEF RightLineTask, LinePlaced, OfLine, LineStopToSee, LineOfChannel, LinePastLast, stopped
<1> QED BY <1>3 DEF n, stopped

LEMMA LineClearStopped ==
    ASSUME NEW r \in LineRecords, NEW current, NEW z, NEW stop, NEW other,
           RightLineTask(r, current, z, stop)
    PROVE  RightLineTask([r EXCEPT !.stopped = FALSE], current, z, other)
<1> DEFINE n == [r EXCEPT !.stopped = FALSE]
<1>1. /\ n \in LineRecords /\ n.at = r.at /\ n.kind = r.kind /\ n.state = r.state /\ n.box = r.box
      /\ n.label = r.label /\ n.z = r.z
      /\ n.moved <=> r.moved
      /\ ~n.stopped
      /\ n.changed <=> r.changed
  BY DEF LineRecords
<1> HIDE DEF n
<1>2. RightLineTask(n, current, z, other)
  BY <1>1 DEF RightLineTask, LinePlaced, OfLine, LineStopToSee, LineOfChannel, LinePastLast
<1> QED BY <1>2 DEF n

LEMMA LineMoveKeeps ==
    ASSUME LineIInv, NEW t \in ProfileTasks, NEW remove \in BOOLEAN, MoveLine(t, remove)
    PROVE  LineIInv'
<1> DEFINE old(u) == [profile_task[u] EXCEPT !.moved = @ \/ PastLastCheck(u)]
           moved == [u \in ProfileTasks |-> old(u)]
           new == [NoProfile EXCEPT !.at = "fill", !.kind = "spatial"]
           f(u) == IF ~remove /\ u = t THEN new ELSE old(u)
<1>1. LineTasksInv /\ LineVariables /\ LineProfilesCorrect
  BY DEF LineIInv
<1>2. UNCHANGED current_z /\ UNCHANGED stop_pv /\ UNCHANGED box_owner /\ UNCHANGED line_sent
  BY DEF MoveLine
<1>3. profile_task' = IF remove THEN moved ELSE [moved EXCEPT ![t] = new]
  BY DEF MoveLine, LineTask
<1>4. profile_task' = [u \in ProfileTasks |-> f(u)]
  <2> HIDE DEF old, new
  <2>1. CASE remove
    BY <1>3, <2>1
  <2>2. CASE ~remove
    BY <1>3, <2>2
  <2> QED BY <2>1, <2>2
<1>5. ASSUME NEW u \in ProfileTasks
      PROVE  RightLineTask(old(u), line_state', current_z', stop_pv')
  <2>1. PastLastCheck(u) <=> LinePastLast(profile_task[u])
    BY DEF PastLastCheck, LinePastLast, LineTask, LAt
  <2>2. RightLineTask([profile_task[u] EXCEPT !.moved = @ \/ LinePastLast(profile_task[u])],
                  line_state', current_z, stop_pv)
    BY <1>1, LineTaskIsRight, LineMarkMoved
  <2> QED BY <1>2, <2>1, <2>2
<1>6. RightLineTask(new, line_state', current_z', stop_pv')
  BY NewLineTaskFits
<1> HIDE DEF old, new
<1>7. \A u \in ProfileTasks : RightLineTask(f(u), line_state', current_z', stop_pv')
  BY <1>5, <1>6
<1>8. LineTasksInv'
  <2> HIDE DEF f
  <2> QED BY <1>4, <1>7 DEF LineTasksInv, RightLineTask
<1>9. LineVariables'
  <2>1. /\ line_state < MaxStates
        /\ line_state' = IF remove THEN Removed ELSE line_state + 1
        /\ spatial_req' = IF remove THEN {} ELSE spatial_req
    BY DEF MoveLine
  <2> QED BY <1>1, <1>2, <2>1, LineAssumption DEF LineVariables, Removed
<1> QED BY <1>1, <1>2, <1>8, <1>9, LineSentStays DEF LineIInv

LEMMA LineRequirementsKeep ==
    ASSUME LineIInv, NEW t \in ProfileTasks, NEW required \in SUBSET Coordinates,
           SetSpatialRequirements(t, required)
    PROVE  LineIInv'
<1> DEFINE new == [NoProfile EXCEPT !.at = "fill", !.kind = "spatial"]
<1>1. LineTasksInv /\ LineVariables /\ LineProfilesCorrect
  BY DEF LineIInv
<1>2. /\ Start(t, new) /\ spatial_req' = required
      /\ UNCHANGED <<line_state, current_z, stop_pv, box_owner, line_sent>>
  BY DEF SetSpatialRequirements
<1>3. RightLineTask(new, line_state, current_z, stop_pv)
  BY NewLineTaskFits
<1> HIDE DEF new
<1>4. LineTasksInv'
  BY <1>1, <1>2, <1>3, LineStartKeeps
<1>5. LineVariables'
  BY <1>1, <1>2 DEF LineVariables
<1> QED BY <1>1, <1>2, <1>4, <1>5, LineSentStays DEF LineIInv

LEMMA LineChannelKeeps ==
    ASSUME LineIInv, ChangeChannel
    PROVE  LineIInv'
<1> DEFINE f(u) == [profile_task[u] EXCEPT !.changed = @ \/ profile_task[u].at = "data"]
<1>1. LineTasksInv /\ LineVariables /\ LineProfilesCorrect
  BY DEF LineIInv
<1>2. UNCHANGED line_state /\ UNCHANGED stop_pv
  BY DEF ChangeChannel
<1>3. ASSUME NEW u \in ProfileTasks
      PROVE  RightLineTask(f(u), line_state', current_z', stop_pv')
  <2>1. RightLineTask(f(u), line_state, current_z', stop_pv)
    BY <1>1, LineTaskIsRight, LineMarkChanged
  <2> QED BY <1>2, <2>1
<1>4. profile_task' = [u \in ProfileTasks |-> f(u)]
  BY DEF ChangeChannel, LineTask, LAt
<1> HIDE DEF f
<1>5. LineTasksInv'
  BY <1>3, <1>4 DEF LineTasksInv, RightLineTask
<1>6. LineVariables'
  BY <1>1, LineAssumption DEF ChangeChannel, LineVariables
<1>7. UNCHANGED line_sent
  BY DEF ChangeChannel
<1> QED BY <1>1, <1>5, <1>6, <1>7, LineSentStays DEF LineIInv

LEMMA LineStopKeeps ==
    ASSUME LineIInv, StopPvCalc
    PROVE  LineIInv'
<1> DEFINE mark(u) == PvRunning(u) /\ LAt(u) # "queued" /\ ~PastLastCheck(u)
           f(u) == [profile_task[u] EXCEPT !.stopped = @ \/ mark(u)]
<1>1. LineTasksInv /\ LineVariables /\ LineProfilesCorrect
  BY DEF LineIInv
<1>2. UNCHANGED line_state /\ UNCHANGED current_z /\ UNCHANGED spatial_req
      /\ UNCHANGED box_owner /\ UNCHANGED line_sent /\ stop_pv' = TRUE
  BY DEF StopPvCalc
<1>3. profile_task' = [u \in ProfileTasks |-> f(u)]
  BY DEF StopPvCalc, LineTask
<1>4. ASSUME NEW u \in ProfileTasks
      PROVE  RightLineTask(f(u), line_state', current_z', stop_pv')
  <2>1. /\ mark(u) => /\ profile_task[u].kind = "pv" /\ profile_task[u].at \notin {"idle", "queued"}
                      /\ ~LinePastLast(profile_task[u])
        /\ mark(u) \in BOOLEAN
    BY DEF PvRunning, LineTask, LAt, PastLastCheck, LinePastLast
  <2> DEFINE m == mark(u)
  <2> HIDE DEF m, mark
  <2>2. RightLineTask([profile_task[u] EXCEPT !.stopped = @ \/ m], line_state, current_z, TRUE)
    BY <1>1, <2>1, LineTaskIsRight, LineMarkStopped DEF m
  <2> QED BY <1>2, <2>2 DEF m
<1> HIDE DEF f
<1>5. LineTasksInv'
  BY <1>3, <1>4 DEF LineTasksInv, RightLineTask
<1>6. LineVariables'
  BY <1>1, <1>2 DEF LineVariables
<1> QED BY <1>1, <1>2, <1>5, <1>6, LineSentStays DEF LineIInv

LEMMA LinePvRequestKeeps ==
    ASSUME LineIInv, NEW t \in ProfileTasks, PvRequest(t)
    PROVE  LineIInv'
<1> DEFINE new == [NoProfile EXCEPT !.at = "queued", !.kind = "pv"]
<1>1. LineTasksInv /\ LineVariables /\ LineProfilesCorrect
  BY DEF LineIInv
<1>2. /\ Start(t, new)
      /\ UNCHANGED <<line_state, spatial_req, current_z, stop_pv, box_owner, line_sent>>
  BY DEF PvRequest
<1>3. RightLineTask(new, line_state, current_z, stop_pv)
  BY NewLineTaskFits
<1> HIDE DEF new
<1>4. LineTasksInv'
  BY <1>1, <1>2, <1>3, LineStartKeeps
<1> QED BY <1>1, <1>2, <1>4, LineVariablesStay, LineSentStays DEF LineIInv

-----------------------------------------------------------------------------
\* The task.  Most of its steps change nothing else.
LEMMA LineTaskStepKeeps ==
    ASSUME LineIInv, NEW t \in ProfileTasks, NEW r,
           RightLineTask(r, line_state, current_z, stop_pv), Start(t, r), KeepInputs,
           UNCHANGED <<stop_pv, line_sent>>, box_owner' \in {Nobody} \cup ProfileTasks
    PROVE  LineIInv'
<1>1. LineTasksInv /\ LineVariables /\ LineProfilesCorrect
  BY DEF LineIInv
<1>2. UNCHANGED <<line_state, spatial_req, current_z>>
  BY DEF KeepInputs
<1>3. LineTasksInv'
  BY <1>1, <1>2, LineStartKeeps
<1>4. LineVariables'
  BY <1>1, <1>2 DEF LineVariables
<1> QED BY <1>1, <1>3, <1>4, LineSentStays DEF LineIInv

LEMMA LineOwnerStays ==
    ASSUME LineIInv, UNCHANGED box_owner
    PROVE  box_owner' \in {Nobody} \cup ProfileTasks
BY DEF LineIInv, LineVariables

\* What follows a result or a line that is gone, for a task that saw no stop.
LEMMA LineAfterFits ==
    ASSUME LineTasksInv, NEW t \in ProfileTasks, LAt(t) \in LineWithData
    PROVE  RightLineTask(After(t), line_state, current_z, stop_pv)
<1> DEFINE r == profile_task[t]
           n == [r EXCEPT !.at = "next", !.box = 0]
<1>1. RightLineTask(r, line_state, current_z, stop_pv) /\ r \in LineRecords
  BY LineTaskIsRight
<1>2. /\ n \in LineRecords /\ n.at = "next" /\ n.kind = r.kind /\ n.box = 0
      /\ n.stopped <=> r.stopped
  <2>1. 0 \in 0..Boxes /\ "next" \in LinePlaces
    BY LineAssumption DEF LinePlaces
  <2> QED BY <1>1, <2>1 DEF LineRecords
<1>3. CASE r.kind = "spatial"
  <2>1. After(t) = n
    BY <1>3 DEF After, LineTask
  <2> HIDE DEF n
  <2>2. RightLineTask(n, line_state, current_z, stop_pv)
    BY <1>1, <1>2, <1>3
       DEF RightLineTask, LinePlaced, OfLine, LineStopToSee, LineOfChannel, LinePastLast, LineWithData
  <2> QED BY <2>1, <2>2
<1>4. CASE r.kind # "spatial"
  BY <1>4, NoLineProfileFits DEF After, LineTask
<1> QED BY <1>3, <1>4

LEMMA LineCalculateKeeps ==
    ASSUME LineIInv, NEW t \in ProfileTasks, CalculatePvImage(t)
    PROVE  LineIInv'
<1>1. LineTasksInv /\ LineVariables /\ LineProfilesCorrect
  BY DEF LineIInv
<1>2. UNCHANGED <<line_state, spatial_req, current_z, box_owner, line_sent>>
  BY DEF CalculatePvImage, KeepInputs
<1>3. CASE line_state = Removed
  <2>1. Start(t, NoProfile) /\ UNCHANGED stop_pv
    BY <1>3 DEF CalculatePvImage
  <2>2. RightLineTask(NoProfile, line_state, current_z, stop_pv)
    BY NoLineProfileFits
  <2>3. LineTasksInv'
    BY <1>1, <1>2, <2>1, <2>2, LineStartKeeps
  <2> QED BY <1>1, <1>2, <2>1, <2>3, LineVariablesStay, LineSentStays DEF LineIInv
<1>4. CASE line_state # Removed
  <2> DEFINE n == [profile_task[t] EXCEPT !.at = "lines"]
             other(u) == [profile_task[u] EXCEPT !.stopped = FALSE]
             f(u) == IF u = t THEN n ELSE other(u)
  <2>1. stop_pv' = FALSE /\ profile_task' = [u \in ProfileTasks |-> f(u)]
    BY <1>4 DEF CalculatePvImage, LineTask
  <2>2. /\ n \in LineRecords /\ n.at = "lines" /\ n.kind = "pv"
        /\ ~n.stopped
    <3>1. /\ profile_task[t] \in LineRecords /\ profile_task[t].at = "queued"
          /\ profile_task[t].kind = "pv" /\ ~profile_task[t].stopped
      BY <1>1, LineTaskIsRight DEF CalculatePvImage, LAt, RightLineTask, LinePlaced, LineStopToSee
    <3> QED BY <3>1 DEF LineRecords, LinePlaces
  <2> HIDE DEF n
  <2>3. RightLineTask(n, line_state, current_z, FALSE)
    BY <2>2
       DEF RightLineTask, LinePlaced, OfLine, LineStopToSee, LineOfChannel, LinePastLast, LineWithData
  <2>4. ASSUME NEW u \in ProfileTasks
        PROVE  RightLineTask(f(u), line_state', current_z', stop_pv')
    <3>1. RightLineTask(other(u), line_state, current_z, FALSE)
      BY <1>1, LineTaskIsRight, LineClearStopped
    <3> HIDE DEF other
    <3>2. RightLineTask(f(u), line_state, current_z, FALSE)
      BY <2>3, <3>1
    <3> HIDE DEF f
    <3> QED BY <1>2, <2>1, <3>2
  <2> HIDE DEF f
  <2>5. LineTasksInv'
    BY <2>1, <2>4 DEF LineTasksInv, RightLineTask
  <2>6. LineVariables'
    BY <1>1, <1>2, <2>1 DEF LineVariables
  <2> QED BY <1>1, <1>2, <2>5, <2>6, LineSentStays DEF LineIInv
<1> QED BY <1>3, <1>4

LEMMA LineFillKeeps ==
    ASSUME LineIInv, NEW t \in ProfileTasks, FillLineSpatialProfileData(t)
    PROVE  LineIInv'
<1> DEFINE r == profile_task[t]
           n == [r EXCEPT !.at = "next", !.todo = spatial_req, !.label = current_z]
<1>1. /\ r \in LineRecords /\ RightLineTask(r, line_state, current_z, stop_pv)
      /\ spatial_req \in SUBSET Coordinates /\ current_z \in 0..MaxStates
  BY LineTaskIsRight, LineAssumption DEF LineIInv, LineVariables
<1>2. r.at = "fill"
  BY DEF FillLineSpatialProfileData, LAt
<1>3. /\ n \in LineRecords /\ n.at = "next" /\ n.kind = r.kind
      /\ n.stopped <=> r.stopped
  BY <1>1 DEF LineRecords, LinePlaces
<1>4. /\ Start(t, IF line_state = Removed \/ spatial_req = {} THEN NoProfile ELSE n)
      /\ KeepInputs /\ UNCHANGED <<stop_pv, box_owner, line_sent>>
  BY DEF FillLineSpatialProfileData, LineTask
<1> HIDE DEF n
<1>5. RightLineTask(n, line_state, current_z, stop_pv)
  BY <1>1, <1>2, <1>3
     DEF RightLineTask, LinePlaced, OfLine, LineStopToSee, LineOfChannel, LinePastLast, LineWithData
<1>6. PICK new \in {NoProfile, n} : Start(t, new)
  BY <1>4
<1>7. RightLineTask(new, line_state, current_z, stop_pv)
  BY <1>5, <1>6, NoLineProfileFits
<1> QED BY <1>4, <1>6, <1>7, LineTaskStepKeeps, LineOwnerStays

LEMMA LineNextKeeps ==
    ASSUME LineIInv, NEW t \in ProfileTasks, NextCoordinate(t)
    PROVE  LineIInv'
<1> DEFINE r == profile_task[t]
<1>1. /\ r \in LineRecords /\ RightLineTask(r, line_state, current_z, stop_pv)
  BY LineTaskIsRight DEF LineIInv
<1>2. r.at = "next" /\ KeepInputs /\ UNCHANGED <<stop_pv, box_owner, line_sent>>
  BY DEF NextCoordinate, LAt
<1>3. CASE Start(t, NoProfile)
  BY <1>2, <1>3, NoLineProfileFits, LineTaskStepKeeps, LineOwnerStays
<1>4. CASE /\ LineTask(t).label = current_z
           /\ \E c \in LineTask(t).todo :
                Start(t, [LineTask(t) EXCEPT !.todo = @ \ {c}, !.coordinate = c, !.changed = FALSE,
                              !.at = IF c \in spatial_req THEN "data" ELSE "next"])
  <2>1. PICK c \in r.todo :
           Start(t, [r EXCEPT !.todo = @ \ {c}, !.coordinate = c, !.changed = FALSE,
                              !.at = IF c \in spatial_req THEN "data" ELSE "next"])
    BY <1>4 DEF LineTask
  <2> DEFINE place == IF c \in spatial_req THEN "data" ELSE "next"
             todo == r.todo \ {c}
             n == [r EXCEPT !.todo = todo, !.coordinate = c, !.changed = FALSE, !.at = place]
  <2>2. Start(t, n) /\ place \in {"data", "next"} /\ todo \in SUBSET Coordinates /\ c \in Coordinates
    BY <1>1, <2>1 DEF LineRecords
  <2> HIDE DEF place, todo
  <2>3. /\ n \in LineRecords /\ n.at = place /\ n.kind = r.kind
        /\ n.label = r.label
        /\ n.stopped <=> r.stopped
    BY <1>1, <2>2 DEF LineRecords, LinePlaces
  <2>4. r.label = current_z /\ r.kind = "spatial"
    BY <1>1, <1>2, <1>4 DEF RightLineTask, LinePlaced, LineTask
  <2> HIDE DEF n
  <2>5. RightLineTask(n, line_state, current_z, stop_pv)
    BY <1>1, <1>2, <2>2, <2>3, <2>4
       DEF RightLineTask, LinePlaced, OfLine, LineStopToSee, LineOfChannel, LinePastLast, LineWithData
  <2> QED BY <1>2, <2>2, <2>5, LineTaskStepKeeps, LineOwnerStays
<1> QED BY <1>3, <1>4 DEF NextCoordinate

LEMMA LineDataKeeps ==
    ASSUME LineIInv, NEW t \in ProfileTasks, GetLineSpatialData(t)
    PROVE  LineIInv'
<1> DEFINE r == profile_task[t]
           n == [r EXCEPT !.at = "lines", !.z = current_z]
<1>1. /\ r \in LineRecords /\ RightLineTask(r, line_state, current_z, stop_pv)
      /\ current_z \in 0..MaxStates
  BY LineTaskIsRight, LineAssumption DEF LineIInv, LineVariables
<1>2. r.at = "data" /\ Start(t, n) /\ KeepInputs /\ UNCHANGED <<stop_pv, box_owner, line_sent>>
  BY DEF GetLineSpatialData, LAt, LineTask
<1>3. /\ n \in LineRecords /\ n.at = "lines" /\ n.kind = r.kind /\ n.label = r.label
      /\ n.z = current_z
      /\ n.stopped <=> r.stopped
      /\ n.changed <=> r.changed
  BY <1>1 DEF LineRecords, LinePlaces
<1> HIDE DEF n
<1>4. RightLineTask(n, line_state, current_z, stop_pv)
  BY <1>1, <1>2, <1>3
     DEF RightLineTask, LinePlaced, OfLine, LineStopToSee, LineOfChannel, LinePastLast, LineWithData
<1> QED BY <1>2, <1>4, LineTaskStepKeeps, LineOwnerStays

LEMMA LineApproximateKeeps ==
    ASSUME LineIInv, NEW t \in ProfileTasks, ApproximateLine(t)
    PROVE  LineIInv'
<1> DEFINE r == profile_task[t]
           n == [r EXCEPT !.at = "check", !.state = line_state, !.box = 1,
                          !.missing = FALSE, !.moved = FALSE]
<1>1. /\ r \in LineRecords /\ RightLineTask(r, line_state, current_z, stop_pv) /\ LineTasksInv
      /\ line_state \in 0..MaxStates
  BY LineTaskIsRight DEF LineIInv, LineVariables
<1>2. /\ r.at = "lines" /\ LAt(t) = "lines" /\ KeepInputs /\ UNCHANGED <<stop_pv, box_owner, line_sent>>
      /\ Start(t, IF line_state = Removed THEN After(t) ELSE n)
  BY DEF ApproximateLine, LAt, LineTask
<1>3. /\ n \in LineRecords /\ n.at = "check" /\ n.kind = r.kind /\ n.label = r.label
      /\ n.z = r.z /\ n.box = 1
      /\ n.stopped <=> r.stopped
      /\ n.changed <=> r.changed
  <2>1. 1 \in 0..Boxes
    BY LineAssumption
  <2> QED BY <1>1, <2>1 DEF LineRecords, LinePlaces
<1> HIDE DEF n
<1>4. RightLineTask(n, line_state, current_z, stop_pv)
  BY <1>1, <1>2, <1>3
     DEF RightLineTask, LinePlaced, OfLine, LineStopToSee, LineOfChannel, LinePastLast, LineWithData
<1>5. RightLineTask(After(t), line_state, current_z, stop_pv)
  BY <1>1, <1>2, LineAfterFits DEF LineWithData
<1>6. PICK new \in {After(t), n} : Start(t, new)
  BY <1>2
<1>7. RightLineTask(new, line_state, current_z, stop_pv)
  BY <1>4, <1>5, <1>6
<1> QED BY <1>2, <1>6, <1>7, LineTaskStepKeeps, LineOwnerStays

LEMMA LineCheckKeeps ==
    ASSUME LineIInv, NEW t \in ProfileTasks, CheckBox(t)
    PROVE  LineIInv'
<1> DEFINE r == profile_task[t]
           n == [r EXCEPT !.at = "box"]
           given == \/ line_state # r.state
                    \/ r.kind = "pv" /\ stop_pv
                    \/ Unrequired(t)
<1>1. /\ r \in LineRecords /\ RightLineTask(r, line_state, current_z, stop_pv) /\ LineTasksInv
  BY LineTaskIsRight DEF LineIInv
<1>2. /\ r.at = "check" /\ LAt(t) = "check" /\ KeepInputs /\ UNCHANGED <<stop_pv, box_owner, line_sent>>
      /\ Start(t, IF given THEN After(t) ELSE n)
  BY DEF CheckBox, LAt, LineTask
<1>3. CASE given
  <2>1. RightLineTask(After(t), line_state, current_z, stop_pv)
    BY <1>1, <1>2, LineAfterFits DEF LineWithData
  <2>2. Start(t, After(t))
    BY <1>2, <1>3
  <2> QED BY <1>2, <2>1, <2>2, LineTaskStepKeeps, LineOwnerStays
<1>4. CASE ~given
  <2>1. /\ n \in LineRecords /\ n.at = "box" /\ n.kind = r.kind /\ n.label = r.label
        /\ n.z = r.z /\ n.box = r.box /\ n.state = r.state
        /\ n.moved <=> r.moved
        /\ n.stopped <=> r.stopped
        /\ n.changed <=> r.changed
    BY <1>1 DEF LineRecords, LinePlaces
  <2>2. Start(t, n) /\ line_state = r.state /\ ~(r.kind = "pv" /\ stop_pv)
    BY <1>2, <1>4
  <2> HIDE DEF n
  <2>3. RightLineTask(n, line_state, current_z, stop_pv)
    BY <1>1, <1>2, <2>1, <2>2
       DEF RightLineTask, LinePlaced, OfLine, LineStopToSee, LineOfChannel, LinePastLast, LineWithData
  <2> QED BY <1>2, <2>2, <2>3, LineTaskStepKeeps, LineOwnerStays
<1> QED BY <1>3, <1>4

LEMMA LineRegionKeeps ==
    ASSUME LineIInv, NEW t \in ProfileTasks, SetTemporaryRegion(t)
    PROVE  LineIInv'
<1> DEFINE r == profile_task[t]
           stopped == r.kind = "pv" /\ stop_pv
           missing == r.missing \/ stopped
           place == IF ~stopped THEN "profile" ELSE IF r.box < Boxes THEN "check" ELSE "send"
           box == IF stopped /\ r.box < Boxes THEN r.box + 1 ELSE r.box
           n == [r EXCEPT !.missing = missing, !.at = place, !.box = box]
<1>1. /\ r \in LineRecords /\ RightLineTask(r, line_state, current_z, stop_pv)
      /\ r.box \in 0..Boxes
  BY LineTaskIsRight DEF LineIInv, LineRecords
<1>2. /\ r.at = "box" /\ KeepInputs /\ UNCHANGED <<stop_pv, line_sent>>
      /\ Start(t, n) /\ box_owner' = IF stopped THEN Nobody ELSE t
  BY DEF SetTemporaryRegion, LAt, LineTask
<1>3. /\ box \in 0..Boxes /\ box >= 1
      /\ place = "profile" => box = r.box
      /\ place = "send" => box = Boxes /\ r.box = Boxes
      /\ place \in {"profile", "check", "send"} /\ missing \in BOOLEAN
  BY <1>1, <1>2, LineAssumption DEF RightLineTask, LinePlaced
<1> HIDE DEF missing, place, box
<1>4. /\ n \in LineRecords /\ n.at = place /\ n.kind = r.kind /\ n.label = r.label
      /\ n.z = r.z /\ n.box = box /\ n.state = r.state
      /\ n.moved <=> r.moved
      /\ n.stopped <=> r.stopped
      /\ n.changed <=> r.changed
  <2>1. /\ n.at = place /\ n.kind = r.kind /\ n.label = r.label
        /\ n.z = r.z /\ n.box = box /\ n.state = r.state
        /\ n.moved <=> r.moved
        /\ n.stopped <=> r.stopped
        /\ n.changed <=> r.changed
    BY <1>1 DEF LineRecords
  <2>2. place \in LinePlaces
    BY <1>3, Zenon DEF LinePlaces
  <2>3. n \in LineRecords
    BY <1>1, <1>3, <2>2 DEF LineRecords
  <2> QED BY <2>1, <2>3, Zenon
<1> HIDE DEF n
<1>5. RightLineTask(n, line_state, current_z, stop_pv)
  BY <1>1, <1>2, <1>3, <1>4
     DEF RightLineTask, LinePlaced, OfLine, LineStopToSee, LineOfChannel, LinePastLast, LineWithData
<1>6. box_owner' \in {Nobody} \cup ProfileTasks
  BY <1>2
<1> QED BY <1>2, <1>5, <1>6, LineTaskStepKeeps

LEMMA LineProfileKeeps ==
    ASSUME LineIInv, NEW t \in ProfileTasks, GetRegionProfile(t)
    PROVE  LineIInv'
<1> DEFINE r == profile_task[t]
           place == IF r.box < Boxes THEN "check" ELSE "send"
           box == IF r.box < Boxes THEN r.box + 1 ELSE r.box
           n == [r EXCEPT !.at = place, !.box = box]
<1>1. /\ r \in LineRecords /\ RightLineTask(r, line_state, current_z, stop_pv)
      /\ r.box \in 0..Boxes
  BY LineTaskIsRight DEF LineIInv, LineRecords
<1>2. /\ r.at = "profile" /\ KeepInputs /\ UNCHANGED <<stop_pv, line_sent>>
      /\ Start(t, n) /\ box_owner' = Nobody
  <2>1. [r EXCEPT !.at = "send"] = [r EXCEPT !.at = "send", !.box = r.box]
    BY <1>1 DEF LineRecords
  <2> QED BY <2>1 DEF GetRegionProfile, LAt, LineTask
<1>3. /\ box \in 0..Boxes /\ box >= 1
      /\ place = "send" => box = Boxes /\ r.box = Boxes
      /\ place \in {"check", "send"}
  BY <1>1, <1>2, LineAssumption DEF RightLineTask, LinePlaced
<1> HIDE DEF place, box
<1>4. /\ n \in LineRecords /\ n.at = place /\ n.kind = r.kind /\ n.label = r.label
      /\ n.z = r.z /\ n.box = box /\ n.state = r.state
      /\ n.moved <=> r.moved
      /\ n.stopped <=> r.stopped
      /\ n.changed <=> r.changed
  BY <1>1, <1>3 DEF LineRecords, LinePlaces
<1> HIDE DEF n
<1>5. RightLineTask(n, line_state, current_z, stop_pv)
  BY <1>1, <1>2, <1>3, <1>4
     DEF RightLineTask, LinePlaced, OfLine, LineStopToSee, LineOfChannel, LinePastLast, LineWithData
<1>6. box_owner' \in {Nobody} \cup ProfileTasks
  BY <1>2
<1> QED BY <1>2, <1>5, <1>6, LineTaskStepKeeps

\* What is sent: of the line as it is, or moved since the last check; not
\* stopped; of the channel of its label, or the channel changed.
LEMMA LineSendKeeps ==
    ASSUME LineIInv, NEW t \in ProfileTasks, SendLineProfile(t)
    PROVE  LineIInv'
<1> DEFINE r == profile_task[t]
           old == r.state # line_state
           mislabelled == r.kind = "spatial" /\ r.z # r.label
           s == [kind |-> r.kind, old |-> old, moved |-> r.moved, mislabelled |-> mislabelled,
                 changed |-> r.changed, stopped |-> r.stopped]
           pv == r.kind = "pv"
           other(u) == IF pv THEN [profile_task[u] EXCEPT !.stopped = FALSE] ELSE profile_task[u]
           f(u) == IF u = t THEN After(t) ELSE other(u)
<1>1. /\ RightLineTask(r, line_state, current_z, stop_pv)
      /\ LineTasksInv /\ LineVariables /\ LineProfilesCorrect
  BY LineTaskIsRight DEF LineIInv
<1>2. /\ r.at = "send" /\ LAt(t) = "send"
      /\ line_sent' = IF Unrequired(t) THEN line_sent ELSE line_sent \cup {s}
      /\ stop_pv' = IF pv THEN FALSE ELSE stop_pv
      /\ profile_task' = [u \in ProfileTasks |-> f(u)]
  BY DEF SendLineProfile, LAt, LineTask
<1>3. UNCHANGED line_state /\ UNCHANGED current_z /\ UNCHANGED spatial_req /\ UNCHANGED box_owner
  BY DEF SendLineProfile, KeepInputs
<1>4. (old => r.moved) /\ ~r.stopped /\ (mislabelled => r.changed)
  BY <1>1, <1>2
     DEF RightLineTask, LinePlaced, OfLine, LineStopToSee, LineOfChannel, LinePastLast, LineWithData
<1>5. LineProfilesCorrect'
  <2> HIDE DEF old, mislabelled, r
  <2>1. /\ s.old => s.moved
        /\ ~s.stopped
        /\ s.mislabelled => s.changed
    BY <1>4
  <2> HIDE DEF s
  <2>2. \A e \in line_sent' : e \in line_sent \/ e = s
    BY <1>2
  <2> QED BY <1>1, <2>1, <2>2 DEF LineProfilesCorrect, SentLineCurrent, StoppedPvNotSent, ProfileOfItsChannel
<1>6. LineVariables'
  BY <1>1, <1>2, <1>3 DEF LineVariables
<1>7. ASSUME NEW u \in ProfileTasks
      PROVE  RightLineTask(f(u), line_state', current_z', stop_pv')
  <2>1. RightLineTask(After(t), line_state, current_z, stop_pv)
    BY <1>1, <1>2, LineAfterFits DEF LineWithData
  <2>2. CASE pv
    <3>1. RightLineTask(After(t), line_state, current_z, FALSE)
      BY <2>2, NoLineProfileFits DEF After, LineTask
    <3>2. RightLineTask([profile_task[u] EXCEPT !.stopped = FALSE], line_state, current_z, FALSE)
      BY <1>1, LineTaskIsRight, LineClearStopped
    <3>3. RightLineTask(f(u), line_state, current_z, FALSE)
      BY <2>2, <3>1, <3>2
    <3>4. stop_pv' = FALSE
      BY <1>2, <2>2
    <3> HIDE DEF f
    <3> QED BY <1>3, <3>3, <3>4
  <2>3. CASE ~pv
    <3>1. RightLineTask(f(u), line_state, current_z, stop_pv)
      BY <1>1, <2>1, <2>3, LineTaskIsRight
    <3>2. stop_pv' = stop_pv
      BY <1>2, <2>3
    <3> HIDE DEF f
    <3> QED BY <1>3, <3>1, <3>2
  <2> QED BY <2>2, <2>3
<1> HIDE DEF f
<1>8. LineTasksInv'
  BY <1>2, <1>7 DEF LineTasksInv, RightLineTask
<1> QED BY <1>5, <1>6, <1>8 DEF LineIInv

-----------------------------------------------------------------------------
THEOREM LineProfilesInductive == LineProfilesSpec => []LineIInv
<1>1. ASSUME LineProfilesInit
      PROVE  LineIInv
  <2>1. /\ line_state = 1 /\ spatial_req = {} /\ current_z = 1 /\ stop_pv = FALSE
        /\ profile_task = [t \in ProfileTasks |-> NoProfile]
        /\ box_owner = Nobody /\ line_sent = {}
    BY <1>1 DEF LineProfilesInit
  <2>2. LineTasksInv
    BY <2>1, NoLineProfileFits DEF LineTasksInv
  <2>3. LineVariables
    <3>1. 1 \in 0..MaxStates /\ 1 \in 1..MaxStates /\ FALSE \in BOOLEAN
      BY LineAssumption
    <3> QED BY <2>1, <3>1 DEF LineVariables
  <2>4. LineProfilesCorrect
    BY <2>1 DEF LineProfilesCorrect, SentLineCurrent, StoppedPvNotSent, ProfileOfItsChannel
  <2> QED BY <2>2, <2>3, <2>4 DEF LineIInv
<1>2. ASSUME LineIInv, [LineProfilesNext]_lineVars
      PROVE  LineIInv'
  <2>1. CASE ChangeChannel
    BY <1>2, <2>1, LineChannelKeeps
  <2>2. CASE StopPvCalc
    BY <1>2, <2>2, LineStopKeeps
  <2>3. ASSUME NEW t \in ProfileTasks, PvRequest(t)
        PROVE  LineIInv'
    BY <1>2, <2>3, LinePvRequestKeeps
  <2>4. ASSUME NEW t \in ProfileTasks, ProfileStep(t)
        PROVE  LineIInv'
    BY <1>2, <2>4, LineCalculateKeeps, LineFillKeeps, LineNextKeeps, LineDataKeeps, LineApproximateKeeps, LineCheckKeeps,
       LineRegionKeeps, LineProfileKeeps, LineSendKeeps DEF ProfileStep
  <2>5. ASSUME NEW t \in ProfileTasks, NEW remove \in BOOLEAN, MoveLine(t, remove)
        PROVE  LineIInv'
    BY <1>2, <2>5, LineMoveKeeps
  <2>6. ASSUME NEW t \in ProfileTasks, NEW required \in SUBSET Coordinates,
               SetSpatialRequirements(t, required)
        PROVE  LineIInv'
    BY <1>2, <2>6, LineRequirementsKeep
  <2>7. CASE UNCHANGED lineVars
    <3>1. /\ UNCHANGED <<line_state, current_z, spatial_req, stop_pv, box_owner>>
          /\ UNCHANGED line_sent /\ UNCHANGED profile_task
          /\ UNCHANGED line_state /\ UNCHANGED current_z /\ UNCHANGED stop_pv
      BY <2>7 DEF lineVars
    <3> QED BY <1>2, <3>1, LineVariablesStay, LineSentStays DEF LineIInv, LineTasksInv
  <2> QED BY <1>2, <2>1, <2>2, <2>3, <2>4, <2>5, <2>6, <2>7 DEF LineProfilesNext
<1> QED BY <1>1, <1>2, PTL DEF LineProfilesSpec

\* The variables have their types: a task is at a box of the line, and what is
\* left to it are coordinates.
THEOREM LineProfilesTypeCorrect == LineProfilesSpec => []LineProfilesTypeOK
<1>1. ASSUME LineIInv
      PROVE  LineProfilesTypeOK
  <2>1. LineTasksInv /\ LineVariables
    BY <1>1 DEF LineIInv
  <2>2. ASSUME NEW t \in ProfileTasks
        PROVE  LineTask(t).box \in 0..Boxes /\ LineTask(t).todo \subseteq Coordinates
    BY <2>1, LineTaskIsRight DEF LineTask, LineRecords
  <2> QED BY <2>1, <2>2 DEF LineVariables, LineProfilesTypeOK
<1> QED BY <1>1, LineProfilesInductive, PTL

\* A profile or PV image of an old state of the line is sent only if the line
\* moved while its last box was made; a stopped PV image is not sent; and a
\* spatial profile bears the channel it is of unless that changed meanwhile.
THEOREM LineProfilesAreRight == LineProfilesSpec => []LineProfilesCorrect
<1>1. LineIInv => LineProfilesCorrect
  BY DEF LineIInv
<1> QED BY <1>1, LineProfilesInductive, PTL

-----------------------------------------------------------------------------
(***************************************************************************)
(* Cursor profiles.  Each required coordinate is settled, sent or recorded *)
(* as late, or owed by a task; a task owes what its copy of the requirements *)
(* names only while that copy is of requirements that are still there.     *)
(***************************************************************************)

FillPlaces == {"idle", "begin", "copy", "next", "read", "check", "send", "done"}
FillRecords ==
    [at : FillPlaces, start : Cursors \cup {NoCursor}, only_z : BOOLEAN,
     configs : SUBSET SpectralConfigs, config : SpectralConfigs \cup {NoConfig},
     slices : 0..Slices, final : BOOLEAN, moved : BOOLEAN]
ProfileMessages == [cursor : Cursors \cup {NoCursor}, final : BOOLEAN]

CursorInHand(f) == f.at \in {"read", "check", "send"}

\* A slice is read only of a profile that lacks one, and the check before a
\* message has found the cursor unmoved.
FillOK(f) ==
    /\ CursorInHand(f) => f.config \in SpectralConfigs /\ f.start \in Cursors
    /\ f.at = "read" => f.slices < Slices
    /\ f.at = "send" /\ ~f.final => f.slices < Slices
    /\ ~f.moved

\* The task is going to send the coordinate's final profile at the cursor,
\* unless the cursor, the requirements or the image change.
CursorOwes(f, c, cursor, configs) ==
    \/ f.at = "begin" /\ ~f.only_z
    \/ /\ f.start = cursor
       /\ \/ f.at = "copy" /\ ~f.only_z
          \/ CursorInHand(f) /\ f.config = c
          \/ /\ f.at = "next" \/ CursorInHand(f)
             /\ ~f.only_z /\ c \in f.configs /\ f.configs \subseteq configs

CursorSettled(c) == client_profile[c].cursor = cursor_at /\ client_profile[c].final

RequiredProfilesCovered ==
    connected /\ ~clearing /\ ~unreadable /\ cursor_at \notin OutsideImage
    => \A c \in cursor_configs \ late :
          CursorSettled(c) \/ \E t \in CursorTasks : CursorOwes(fill[t], c, cursor_at, cursor_configs)

CursorFillsInv ==
    /\ fill \in [CursorTasks -> FillRecords]
    /\ \A t \in CursorTasks : FillOK(fill[t])

CursorVariables ==
    /\ cursor_at \in Cursors /\ cursor_configs \subseteq SpectralConfigs
    /\ clearing \in BOOLEAN /\ connected \in BOOLEAN /\ unreadable \in BOOLEAN
    /\ client_profile \in [SpectralConfigs -> ProfileMessages] /\ late \subseteq SpectralConfigs

CursorIInv == CursorFillsInv /\ CursorVariables /\ RequiredProfilesCovered

\* The obligation is void while the requirements are being cleared, outside the
\* image, and after the image was closed or could not be read.
CursorDue == connected /\ ~clearing /\ ~unreadable /\ cursor_at \notin OutsideImage

-----------------------------------------------------------------------------
LEMMA FillRecord ==
    ASSUME CursorFillsInv, NEW t \in CursorTasks
    PROVE  fill[t] \in FillRecords /\ FillOK(fill[t])
BY DEF CursorFillsInv

LEMMA NewFillFits ==
    /\ NewFill \in FillRecords /\ FillOK(NewFill) /\ NewFill.at = "idle"
    /\ EndOfFill \in FillRecords /\ FillOK(EndOfFill)
<1>1. NewFill \in FillRecords /\ NewFill.at = "idle" /\ ~NewFill.moved
  BY CursorAssumption DEF NewFill, FillRecords, FillPlaces, NoCursor, NoConfig
<1>2. EndOfFill \in FillRecords /\ EndOfFill.at = "done" /\ ~EndOfFill.moved
  BY <1>1 DEF EndOfFill, FillRecords, FillPlaces
<1> QED BY <1>1, <1>2 DEF FillOK, CursorInHand

LEMMA FillMoves ==
    ASSUME CursorFillsInv, NEW t \in CursorTasks, NEW n \in FillRecords, FillOK(n),
           fill' = [fill EXCEPT ![t] = n]
    PROVE  /\ CursorFillsInv' /\ fill'[t] = n
           /\ \A u \in CursorTasks : u # t => fill'[u] = fill[u]
<1>1. /\ fill' \in [CursorTasks -> FillRecords]
      /\ \A u \in CursorTasks : fill'[u] = IF u = t THEN n ELSE fill[u]
  BY DEF CursorFillsInv
<1>2. ASSUME NEW u \in CursorTasks
      PROVE  FillOK(fill'[u])
  <2>1. CASE u = t
    BY <1>1, <2>1
  <2>2. CASE u # t
    <3>1. fill'[u] = fill[u]
      BY <1>1, <2>2
    <3> QED BY <3>1 DEF CursorFillsInv
  <2> QED BY <2>1, <2>2
<1> QED BY <1>1, <1>2 DEF CursorFillsInv

\* A task that goes on owes what it owed: then all is covered as before.
LEMMA FillGoesOnCovers ==
    ASSUME CursorIInv, NEW t \in CursorTasks, NEW n \in FillRecords, FillOK(n),
           FillGoesOn(t, n), UNCHANGED unreadable,
           CursorDue => \A c \in cursor_configs :
                    CursorOwes(fill[t], c, cursor_at, cursor_configs)
                      => CursorOwes(n, c, cursor_at, cursor_configs)
    PROVE  CursorIInv'
<1>1. CursorFillsInv /\ CursorVariables /\ RequiredProfilesCovered
  BY DEF CursorIInv
<1>2. /\ fill' = [fill EXCEPT ![t] = n]
      /\ cursor_at' = cursor_at /\ cursor_configs' = cursor_configs /\ clearing' = clearing
      /\ connected' = connected /\ client_profile' = client_profile /\ late' = late
  BY DEF FillGoesOn, settings, received
<1>3. /\ CursorFillsInv' /\ fill'[t] = n
      /\ \A u \in CursorTasks : u # t => fill'[u] = fill[u]
  BY <1>1, <1>2, FillMoves
<1>4. CursorVariables'
  BY <1>1, <1>2 DEF CursorVariables
<1>5. RequiredProfilesCovered'
  <2> SUFFICES ASSUME CursorDue, NEW c \in cursor_configs \ late
               PROVE  CursorSettled(c)' \/ \E u \in CursorTasks : CursorOwes(fill'[u], c, cursor_at, cursor_configs)
    BY <1>2 DEF RequiredProfilesCovered, CursorDue
  <2>1. CursorSettled(c) \/ \E u \in CursorTasks : CursorOwes(fill[u], c, cursor_at, cursor_configs)
    BY <1>1 DEF RequiredProfilesCovered, CursorDue
  <2>2. CASE CursorSettled(c)
    BY <1>2, <2>2 DEF CursorSettled
  <2>3. ASSUME NEW u \in CursorTasks, CursorOwes(fill[u], c, cursor_at, cursor_configs)
        PROVE  CursorOwes(fill'[u], c, cursor_at, cursor_configs)
    <3>1. CASE u = t
      <4>1. CursorOwes(n, c, cursor_at, cursor_configs)
        BY <2>3, <3>1
      <4> QED BY <1>3, <3>1, <4>1
    <3>2. CASE u # t
      <4>1. fill'[u] = fill[u]
        BY <1>3, <3>2
      <4> QED BY <2>3, <4>1
    <3> QED BY <3>1, <3>2
  <2> QED BY <2>1, <2>2, <2>3
<1> QED BY <1>3, <1>4, <1>5 DEF CursorIInv

LEMMA StartedFill ==
    ASSUME CursorFillsInv, NEW t \in CursorTasks, NEW only_z \in BOOLEAN, StartFill(t, only_z)
    PROVE  \E n \in FillRecords :
              /\ FillOK(n) /\ n.at = "begin" /\ fill' = [fill EXCEPT ![t] = n]
              /\ n.only_z <=> only_z
<1> DEFINE n == [fill[t] EXCEPT !.at = "begin", !.only_z = only_z]
<1>1. fill[t] \in FillRecords /\ FillOK(fill[t]) /\ fill \in [CursorTasks -> FillRecords]
  BY DEF CursorFillsInv
<1>2. fill' = [fill EXCEPT ![t] = n]
  BY <1>1 DEF StartFill
<1>3. /\ n \in FillRecords /\ n.at = "begin"
      /\ n.only_z <=> only_z
      /\ n.moved <=> fill[t].moved
  BY <1>1 DEF FillRecords, FillPlaces
<1> HIDE DEF n
<1>4. FillOK(n)
  BY <1>1, <1>3 DEF FillOK, CursorInHand
<1> QED BY <1>2, <1>3, <1>4

\* A task that fills everything is at its start: all is covered by it.
LEMMA FillStartCovers ==
    ASSUME CursorFillsInv, NEW t \in CursorTasks, StartFill(t, FALSE)
    PROVE  CursorFillsInv' /\ RequiredProfilesCovered'
<1>1. PICK n \in FillRecords :
         /\ FillOK(n) /\ n.at = "begin" /\ fill' = [fill EXCEPT ![t] = n]
         /\ n.only_z <=> FALSE
  BY StartedFill
<1>2. CursorFillsInv' /\ fill'[t] = n
  BY <1>1, FillMoves
<1>3. \A c : CursorOwes(fill'[t], c, cursor_at', cursor_configs')
  BY <1>1, <1>2 DEF CursorOwes
<1> QED BY <1>2, <1>3 DEF RequiredProfilesCovered

-----------------------------------------------------------------------------
\* The changes.
LEMMA SetCursorKeeps ==
    ASSUME CursorIInv, NEW t \in CursorTasks, NEW position \in Cursors, SetCursor(t, position)
    PROVE  CursorIInv'
<1>1. CursorFillsInv /\ CursorVariables /\ StartFill(t, FALSE)
  BY DEF CursorIInv, SetCursor
<1>2. /\ cursor_at' = position /\ UNCHANGED <<cursor_configs, clearing, connected>>
      /\ UNCHANGED <<client_profile, late, unreadable>>
  BY DEF SetCursor, StartFill, received
<1>3. CursorVariables'
  BY <1>1, <1>2 DEF CursorVariables
<1> QED BY <1>1, <1>3, FillStartCovers DEF CursorIInv

LEMMA CursorRequirementsKeep ==
    ASSUME CursorIInv, NEW t \in CursorTasks, NEW configs \in SUBSET SpectralConfigs,
           SetCursorRequirements(t, configs)
    PROVE  CursorIInv'
<1>1. CursorFillsInv /\ CursorVariables /\ StartFill(t, FALSE)
  BY DEF CursorIInv, SetCursorRequirements
<1>2. /\ cursor_configs' = configs /\ UNCHANGED <<cursor_at, clearing, connected>>
      /\ UNCHANGED <<client_profile, late, unreadable>>
  BY DEF SetCursorRequirements, StartFill, received
<1>3. CursorVariables'
  BY <1>1, <1>2 DEF CursorVariables
<1> QED BY <1>1, <1>3, FillStartCovers DEF CursorIInv

LEMMA CursorClearedKeeps ==
    ASSUME CursorIInv, NEW t \in CursorTasks, RequirementsCleared(t)
    PROVE  CursorIInv'
<1>1. CursorFillsInv /\ CursorVariables /\ StartFill(t, FALSE)
  BY DEF CursorIInv, RequirementsCleared
<1>2. /\ cursor_configs' = {} /\ clearing' = FALSE /\ UNCHANGED <<cursor_at, connected>>
      /\ UNCHANGED <<client_profile, late, unreadable>>
  BY DEF RequirementsCleared, StartFill, received
<1>3. CursorVariables'
  BY <1>1, <1>2 DEF CursorVariables
<1> QED BY <1>1, <1>3, FillStartCovers DEF CursorIInv

LEMMA CursorChangeStokesKeeps ==
    ASSUME CursorIInv, NEW t \in CursorTasks, ChangeStokes(t)
    PROVE  CursorIInv'
<1>1. CursorFillsInv /\ StartFill(t, TRUE) /\ fill[t].at = "idle"
  BY DEF CursorIInv, ChangeStokes, StartFill
<1>2. PICK n \in FillRecords :
         /\ FillOK(n) /\ n.at = "begin" /\ fill' = [fill EXCEPT ![t] = n]
         /\ n.only_z <=> TRUE
  BY <1>1, StartedFill
<1>3. FillGoesOn(t, n) /\ UNCHANGED unreadable
  BY <1>2 DEF FillGoesOn, ChangeStokes, StartFill
<1>4. \A c : ~CursorOwes(fill[t], c, cursor_at, cursor_configs)
  BY <1>1 DEF CursorOwes, CursorInHand
<1> QED BY <1>2, <1>3, <1>4, FillGoesOnCovers

LEMMA CursorClearKeeps ==
    ASSUME CursorIInv, ClearRequirements
    PROVE  CursorIInv'
<1>1. /\ clearing' = TRUE
      /\ UNCHANGED <<cursor_at, cursor_configs, connected, fill, client_profile, late, unreadable>>
  BY DEF ClearRequirements, received
<1> QED BY <1>1 DEF CursorIInv, CursorFillsInv, CursorVariables, RequiredProfilesCovered

LEMMA CursorDisconnectKeeps ==
    ASSUME CursorIInv, DisconnectImage
    PROVE  CursorIInv'
<1>1. /\ connected' = FALSE
      /\ UNCHANGED <<cursor_at, cursor_configs, clearing, fill, client_profile, late, unreadable>>
  BY DEF DisconnectImage, received
<1> QED BY <1>1 DEF CursorIInv, CursorFillsInv, CursorVariables, RequiredProfilesCovered

-----------------------------------------------------------------------------
\* The task.
LEMMA CursorEndCovers ==
    ASSUME CursorIInv, NEW t \in CursorTasks, FillGoesOn(t, EndOfFill), UNCHANGED unreadable,
           CursorDue => \A c \in cursor_configs : ~CursorOwes(fill[t], c, cursor_at, cursor_configs)
    PROVE  CursorIInv'
BY NewFillFits, FillGoesOnCovers

LEMMA CursorReadDue ==
    ASSUME CursorDue, NEW configs \in ReadConfigs
    PROVE  configs = cursor_configs
BY DEF CursorDue, ReadConfigs

LEMMA CursorReadsConfigs ==
    ASSUME CursorIInv, NEW configs \in ReadConfigs
    PROVE  configs \in SUBSET SpectralConfigs
BY DEF CursorIInv, CursorVariables, ReadConfigs

LEMMA CursorBeginKeeps ==
    ASSUME CursorIInv, NEW t \in CursorTasks, BeginFill(t)
    PROVE  CursorIInv'
<1> DEFINE r == fill[t]
           n == [r EXCEPT !.at = "copy", !.start = cursor_at]
<1>1. /\ r \in FillRecords /\ FillOK(r) /\ r.at = "begin" /\ cursor_at \in Cursors
  BY FillRecord DEF CursorIInv, CursorVariables, BeginFill
<1>2. PICK configs \in ReadConfigs :
         FillGoesOn(t, IF configs = {} THEN EndOfFill ELSE n)
  BY DEF BeginFill
<1>3. UNCHANGED unreadable
  BY DEF BeginFill
<1>4. CASE configs = {}
  <2>1. FillGoesOn(t, EndOfFill)
    BY <1>2, <1>4
  <2>2. CursorDue => \A c \in cursor_configs : ~CursorOwes(fill[t], c, cursor_at, cursor_configs)
    BY <1>2, <1>4, CursorReadDue
  <2> QED BY <1>3, <2>1, <2>2, CursorEndCovers
<1>5. CASE configs # {}
  <2>1. FillGoesOn(t, n)
    BY <1>2, <1>5
  <2>2. /\ n \in FillRecords /\ n.at = "copy" /\ n.start = cursor_at
        /\ n.only_z <=> r.only_z
        /\ n.moved <=> r.moved
    BY <1>1 DEF FillRecords, FillPlaces
  <2> HIDE DEF n
  <2>3. FillOK(n)
    BY <1>1, <2>2 DEF FillOK, CursorInHand
  <2>4. \A c : CursorOwes(r, c, cursor_at, cursor_configs) => CursorOwes(n, c, cursor_at, cursor_configs)
    BY <1>1, <2>2 DEF CursorOwes, CursorInHand
  <2> QED BY <1>3, <2>1, <2>2, <2>3, <2>4, FillGoesOnCovers
<1> QED BY <1>4, <1>5

LEMMA CursorCopyKeeps ==
    ASSUME CursorIInv, NEW t \in CursorTasks, CopyConfigs(t)
    PROVE  CursorIInv'
<1> DEFINE r == fill[t]
<1>1. r \in FillRecords /\ FillOK(r) /\ r.at = "copy"
  BY FillRecord DEF CursorIInv, CopyConfigs
<1>2. PICK configs \in ReadConfigs : FillGoesOn(t, [r EXCEPT !.at = "next", !.configs = configs])
  BY DEF CopyConfigs
<1>3. UNCHANGED unreadable
  BY DEF CopyConfigs
<1> DEFINE n == [r EXCEPT !.at = "next", !.configs = configs]
<1>4. configs \in SUBSET SpectralConfigs
  BY <1>2, CursorReadsConfigs
<1>5. /\ n \in FillRecords /\ n.at = "next" /\ n.start = r.start /\ n.configs = configs
      /\ n.only_z <=> r.only_z
      /\ n.moved <=> r.moved
  BY <1>1, <1>4 DEF FillRecords, FillPlaces
<1> HIDE DEF n
<1>6. FillOK(n)
  BY <1>1, <1>5 DEF FillOK, CursorInHand
<1>7. CursorDue => \A c \in cursor_configs : CursorOwes(r, c, cursor_at, cursor_configs)
                                         => CursorOwes(n, c, cursor_at, cursor_configs)
  <2> SUFFICES ASSUME CursorDue, NEW c \in cursor_configs, CursorOwes(r, c, cursor_at, cursor_configs)
               PROVE  CursorOwes(n, c, cursor_at, cursor_configs)
    OBVIOUS
  <2>1. configs = cursor_configs
    BY <1>2, CursorReadDue
  <2> QED BY <1>1, <1>5, <2>1 DEF CursorOwes, CursorInHand
<1>8. FillGoesOn(t, n)
  BY <1>2 DEF n
<1> QED BY <1>3, <1>5, <1>6, <1>7, <1>8, FillGoesOnCovers

LEMMA CursorNextKeeps ==
    ASSUME CursorIInv, NEW t \in CursorTasks, NextConfig(t)
    PROVE  CursorIInv'
<1> DEFINE r == fill[t]
           Skipped(c) == (c # "z" /\ r.only_z) \/ r.start \in OutsideImage
<1>1. r \in FillRecords /\ FillOK(r) /\ r.at = "next" /\ UNCHANGED unreadable
  BY FillRecord DEF CursorIInv, NextConfig
<1>2. CASE (r.configs = {} \/ CursorMoved(t) \/ ~connected) /\ FillGoesOn(t, EndOfFill)
  <2>1. CursorDue => \A c \in cursor_configs : ~CursorOwes(r, c, cursor_at, cursor_configs)
    BY <1>1, <1>2 DEF CursorDue, CursorOwes, CursorInHand, CursorMoved
  <2> QED BY <1>1, <1>2, <2>1, CursorEndCovers
<1>3. CASE /\ ~CursorMoved(t) /\ connected
           /\ \E c \in r.configs, configs \in ReadConfigs, at \in {"read", "send"} :
                FillGoesOn(t, IF c \notin configs THEN EndOfFill
                              ELSE IF Skipped(c) THEN [r EXCEPT !.configs = @ \ {c}]
                              ELSE [r EXCEPT !.at = at, !.config = c, !.slices = 0,
                                             !.configs = @ \ {c}, !.final = at = "send", !.moved = FALSE])
  <2>1. PICK d \in r.configs, configs \in ReadConfigs, at \in {"read", "send"} :
                FillGoesOn(t, IF d \notin configs THEN EndOfFill
                              ELSE IF Skipped(d) THEN [r EXCEPT !.configs = @ \ {d}]
                              ELSE [r EXCEPT !.at = at, !.config = d, !.slices = 0,
                                             !.configs = @ \ {d}, !.final = at = "send", !.moved = FALSE])
    BY <1>3
  <2>2. /\ r.start = cursor_at /\ cursor_at \in Cursors /\ r.configs \in SUBSET SpectralConfigs
        /\ d \in SpectralConfigs
    BY <1>1, <1>3, <2>1 DEF CursorMoved, CursorIInv, CursorVariables, FillRecords
  <2>3. CASE d \notin configs
    <3>1. FillGoesOn(t, EndOfFill)
      BY <2>1, <2>3
    <3>2. CursorDue => \A c \in cursor_configs : ~CursorOwes(r, c, cursor_at, cursor_configs)
      <4>1. CursorDue => d \notin cursor_configs
        BY <2>1, <2>3, CursorReadDue
      <4> QED BY <1>1, <2>1, <4>1 DEF CursorOwes, CursorInHand
    <3> QED BY <1>1, <3>1, <3>2, CursorEndCovers
  <2> DEFINE left == r.configs \ {d}
  <2>4. CASE d \in configs /\ Skipped(d)
    <3> DEFINE n == [r EXCEPT !.configs = left]
    <3>1. FillGoesOn(t, n)
      BY <2>1, <2>4
    <3>2. /\ n \in FillRecords /\ n.at = r.at /\ n.start = r.start /\ n.configs = left
          /\ n.only_z <=> r.only_z
          /\ n.moved <=> r.moved
      BY <1>1 DEF FillRecords
    <3> HIDE DEF n
    <3>3. FillOK(n)
      BY <1>1, <3>2 DEF FillOK, CursorInHand
    <3>4. CursorDue => \A c \in cursor_configs : CursorOwes(r, c, cursor_at, cursor_configs)
                                             => CursorOwes(n, c, cursor_at, cursor_configs)
      BY <1>1, <2>2, <2>4, <3>2 DEF CursorOwes, CursorInHand, CursorDue
    <3> QED BY <1>1, <3>1, <3>2, <3>3, <3>4, FillGoesOnCovers
  <2>5. CASE d \in configs /\ ~Skipped(d)
    <3> DEFINE final == at = "send"
               n == [r EXCEPT !.at = at, !.config = d, !.slices = 0, !.configs = left,
                              !.final = final, !.moved = FALSE]
    <3>1. FillGoesOn(t, n) /\ final \in BOOLEAN /\ 0 \in 0..Slices /\ 0 < Slices
      BY <2>1, <2>5, CursorAssumption
    <3>2. final <=> at = "send"
      OBVIOUS
    <3> HIDE DEF final, left
    <3>3. left \in SUBSET SpectralConfigs
      BY <2>2 DEF left
    <3>4. n \in FillRecords
      BY <1>1, <2>1, <2>2, <3>1, <3>3 DEF FillRecords, FillPlaces
    <3>5. /\ n.at = at /\ n.start = r.start /\ n.config = d /\ n.slices = 0 /\ n.configs = left
          /\ n.only_z <=> r.only_z
          /\ n.final <=> final
          /\ ~n.moved
      BY <1>1 DEF FillRecords
    <3> HIDE DEF n
    <3>6. FillOK(n)
      BY <2>1, <2>2, <3>1, <3>2, <3>5 DEF FillOK, CursorInHand
    <3>7. CursorDue => \A c \in cursor_configs : CursorOwes(r, c, cursor_at, cursor_configs)
                                             => CursorOwes(n, c, cursor_at, cursor_configs)
      BY <1>1, <2>1, <2>2, <3>5 DEF CursorOwes, CursorInHand, left
    <3> QED BY <1>1, <3>1, <3>4, <3>6, <3>7, FillGoesOnCovers
  <2> QED BY <2>3, <2>4, <2>5, Zenon
<1> QED BY <1>2, <1>3, Zenon DEF NextConfig

LEMMA CursorReadKeeps ==
    ASSUME CursorIInv, NEW t \in CursorTasks, ReadSlice(t)
    PROVE  CursorIInv'
<1> DEFINE r == fill[t]
           slices == r.slices + 1
           n == [r EXCEPT !.at = "check", !.slices = slices]
<1>1. r \in FillRecords /\ FillOK(r) /\ r.at = "read"
  BY FillRecord DEF CursorIInv, ReadSlice
<1>2. CASE FillGoesOn(t, n) /\ UNCHANGED unreadable
  <2>1. slices \in 0..Slices
    <3>1. r.slices \in 0..Slices
      BY <1>1 DEF FillRecords
    <3> QED BY <1>1, <3>1, CursorAssumption DEF FillOK
  <2> HIDE DEF slices
  <2>2. /\ n \in FillRecords /\ n.at = "check" /\ n.start = r.start /\ n.configs = r.configs
        /\ n.config = r.config
        /\ n.only_z <=> r.only_z
        /\ n.moved <=> r.moved
    BY <1>1, <2>1 DEF FillRecords, FillPlaces
  <2> HIDE DEF n
  <2>3. FillOK(n)
    BY <1>1, <2>2 DEF FillOK, CursorInHand
  <2>4. \A c : CursorOwes(r, c, cursor_at, cursor_configs) => CursorOwes(n, c, cursor_at, cursor_configs)
    BY <1>1, <2>2 DEF CursorOwes, CursorInHand
  <2> QED BY <1>2, <2>2, <2>3, <2>4, FillGoesOnCovers
<1>3. CASE FillGoesOn(t, EndOfFill) /\ unreadable' = TRUE
  <2>1. /\ fill' = [fill EXCEPT ![t] = EndOfFill]
        /\ UNCHANGED <<cursor_at, cursor_configs, clearing, connected, client_profile, late>>
    BY <1>3 DEF FillGoesOn, settings, received
  <2>2. CursorFillsInv'
    BY <2>1, NewFillFits, FillMoves DEF CursorIInv
  <2>3. CursorVariables'
    BY <1>3, <2>1 DEF CursorIInv, CursorVariables
  <2> QED BY <1>3, <2>2, <2>3 DEF CursorIInv, RequiredProfilesCovered
<1> QED BY <1>2, <1>3 DEF ReadSlice

LEMMA CursorCheckKeeps ==
    ASSUME CursorIInv, NEW t \in CursorTasks, CheckProfile(t)
    PROVE  CursorIInv'
<1> DEFINE r == fill[t]
<1>1. r \in FillRecords /\ FillOK(r) /\ r.at = "check" /\ UNCHANGED unreadable
  BY FillRecord DEF CursorIInv, CheckProfile
<1>2. CASE (CursorMoved(t) \/ ~connected) /\ FillGoesOn(t, EndOfFill)
  <2>1. CursorDue => \A c \in cursor_configs : ~CursorOwes(r, c, cursor_at, cursor_configs)
    BY <1>1, <1>2 DEF CursorDue, CursorOwes, CursorInHand, CursorMoved
  <2> QED BY <1>1, <1>2, <2>1, CursorEndCovers
<1>3. CASE /\ ~CursorMoved(t) /\ connected
           /\ \E configs \in ReadConfigs, send \in BOOLEAN :
                IF r.config \notin configs THEN FillGoesOn(t, WithoutConfig(t))
                                           ELSE AfterCheck(t, send)
  <2>1. PICK configs \in ReadConfigs, send \in BOOLEAN :
                IF r.config \notin configs THEN FillGoesOn(t, WithoutConfig(t))
                                           ELSE AfterCheck(t, send)
    BY <1>3
  <2>2. CASE r.config \notin configs
    <3> DEFINE n == [r EXCEPT !.at = "next", !.config = NoConfig, !.slices = 0,
                              !.final = FALSE, !.moved = FALSE]
    <3>1. FillGoesOn(t, n)
      BY <2>1, <2>2 DEF WithoutConfig
    <3>2. n \in FillRecords
      <4>1. 0 \in 0..Slices
        BY CursorAssumption
      <4> QED BY <1>1, <4>1 DEF FillRecords, FillPlaces
    <3>3. /\ n.at = "next" /\ n.start = r.start /\ n.configs = r.configs
          /\ n.only_z <=> r.only_z
          /\ ~n.moved
      BY <1>1 DEF FillRecords
    <3> HIDE DEF n
    <3>4. FillOK(n)
      BY <3>3 DEF FillOK, CursorInHand
    <3>5. CursorDue => \A c \in cursor_configs : CursorOwes(r, c, cursor_at, cursor_configs)
                                             => CursorOwes(n, c, cursor_at, cursor_configs)
      <4>1. CursorDue => r.config \notin cursor_configs
        BY <2>1, <2>2, CursorReadDue
      <4> QED BY <1>1, <3>3, <4>1 DEF CursorOwes, CursorInHand
    <3> QED BY <1>1, <3>1, <3>2, <3>4, <3>5, FillGoesOnCovers
  <2>3. CASE r.config \in configs
    <3> DEFINE final == r.slices = Slices
               moved == CursorMoved(t)
               place == IF final \/ send THEN "send" ELSE "read"
               n == [r EXCEPT !.at = place, !.final = final, !.moved = moved]
    <3>1. FillGoesOn(t, n)
      BY <2>1, <2>3 DEF AfterCheck
    <3>2. /\ final \in BOOLEAN /\ moved \in BOOLEAN /\ ~moved /\ place \in {"send", "read"}
          /\ r.slices \in 0..Slices
          /\ ~final => r.slices < Slices
          /\ place = "read" => r.slices < Slices
      <4>1. r.slices \in 0..Slices
        BY <1>1 DEF FillRecords
      <4> QED BY <1>3, <4>1, CursorAssumption DEF CursorMoved
    <3> HIDE DEF final, moved, place
    <3>3. n \in FillRecords
      BY <1>1, <3>2 DEF FillRecords, FillPlaces
    <3>4. /\ n.at = place /\ n.start = r.start /\ n.configs = r.configs /\ n.config = r.config
          /\ n.slices = r.slices
          /\ n.only_z <=> r.only_z
          /\ n.final <=> final
          /\ n.moved <=> moved
      BY <1>1 DEF FillRecords
    <3> HIDE DEF n
    <3>5. FillOK(n)
      BY <1>1, <3>2, <3>4 DEF FillOK, CursorInHand
    <3>6. \A c : CursorOwes(r, c, cursor_at, cursor_configs) => CursorOwes(n, c, cursor_at, cursor_configs)
      BY <1>1, <3>2, <3>4 DEF CursorOwes, CursorInHand
    <3> QED BY <1>1, <3>1, <3>3, <3>5, <3>6, FillGoesOnCovers
  <2> QED BY <2>2, <2>3
<1> QED BY <1>2, <1>3 DEF CheckProfile

LEMMA CursorSendKeeps ==
    ASSUME CursorIInv, NEW t \in CursorTasks, SendCursorProfile(t)
    PROVE  CursorIInv'
<1> DEFINE r == fill[t]
           c == r.config
           message == [cursor |-> r.start, final |-> r.final]
           next == [r EXCEPT !.at = "next", !.config = NoConfig, !.slices = 0,
                             !.final = FALSE, !.moved = FALSE]
           read == [r EXCEPT !.at = "read"]
           n == IF r.final THEN next ELSE read
<1>1. /\ r \in FillRecords /\ FillOK(r) /\ r.at = "send" /\ CursorFillsInv /\ CursorVariables
      /\ RequiredProfilesCovered
  BY FillRecord DEF CursorIInv, SendCursorProfile
<1>2. /\ client_profile' = [client_profile EXCEPT ![c] = message]
      /\ late' = IF CursorMoved(t) /\ ~r.moved THEN late \cup {c} ELSE late \ {c}
      /\ fill' = [fill EXCEPT ![t] = n]
      /\ cursor_at' = cursor_at /\ cursor_configs' = cursor_configs /\ clearing' = clearing
      /\ connected' = connected /\ unreadable' = unreadable
  BY <1>1 DEF SendCursorProfile, settings, WithoutConfig, CursorFillsInv
<1>3. /\ c \in SpectralConfigs /\ r.start \in Cursors /\ r.final \in BOOLEAN /\ ~r.moved
      /\ ~r.final => r.slices < Slices
  BY <1>1 DEF FillOK, CursorInHand, FillRecords
<1>4. /\ next \in FillRecords /\ next.at = "next" /\ next.start = r.start
      /\ next.configs = r.configs
      /\ next.only_z <=> r.only_z
      /\ ~next.moved
  <2>1. 0 \in 0..Slices
    BY CursorAssumption
  <2>2. next \in FillRecords
    BY <1>1, <2>1 DEF FillRecords, FillPlaces
  <2>3. /\ next.at = "next" /\ next.start = r.start /\ next.configs = r.configs
        /\ next.only_z <=> r.only_z
        /\ ~next.moved
    BY <1>1 DEF FillRecords
  <2> QED BY <2>2, <2>3
<1>5. /\ read \in FillRecords /\ read.at = "read" /\ read.start = r.start
      /\ read.configs = r.configs /\ read.config = c /\ read.slices = r.slices
      /\ read.only_z <=> r.only_z
      /\ read.moved <=> r.moved
  BY <1>1 DEF FillRecords, FillPlaces
<1>6. message \in ProfileMessages /\ message.cursor = r.start
      /\ (message.final <=> r.final)
  BY <1>3 DEF ProfileMessages
<1> HIDE DEF next, read, message
<1>7. FillOK(next) /\ (~r.final => FillOK(read))
  BY <1>1, <1>3, <1>4, <1>5 DEF FillOK, CursorInHand
<1>8. n \in FillRecords /\ FillOK(n)
  BY <1>4, <1>5, <1>7
<1>9. /\ CursorFillsInv' /\ fill'[t] = n
      /\ \A u \in CursorTasks : u # t => fill'[u] = fill[u]
  <2> HIDE DEF n
  <2> QED BY <1>1, <1>2, <1>8, FillMoves
<1>10. /\ client_profile' \in [SpectralConfigs -> ProfileMessages]
       /\ client_profile'[c] = message
       /\ \A d \in SpectralConfigs : d # c => client_profile'[d] = client_profile[d]
  BY <1>1, <1>2, <1>3, <1>6 DEF CursorVariables
<1>11. CursorVariables'
  BY <1>1, <1>2, <1>3, <1>10 DEF CursorVariables
<1>12. RequiredProfilesCovered'
  <2> SUFFICES ASSUME CursorDue, NEW d \in cursor_configs, d \notin late'
               PROVE  CursorSettled(d)' \/ \E u \in CursorTasks : CursorOwes(fill'[u], d, cursor_at, cursor_configs)
    BY <1>2 DEF RequiredProfilesCovered, CursorDue
  <2>1. CASE d = c
    <3>1. r.start = cursor_at
      BY <1>2, <1>3, <2>1 DEF CursorMoved
    <3>2. CASE r.final
      <4>1. client_profile'[d].cursor = cursor_at' /\ client_profile'[d].final
        BY <1>2, <1>6, <1>10, <2>1, <3>1, <3>2
      <4> QED BY <4>1 DEF CursorSettled
    <3>3. CASE ~r.final
      <4>1. fill'[t] = read
        BY <1>9, <3>3
      <4>2. CursorOwes(read, d, cursor_at, cursor_configs)
        BY <1>5, <2>1, <3>1 DEF CursorOwes, CursorInHand
      <4> QED BY <4>1, <4>2
    <3> QED BY <3>2, <3>3
  <2>2. CASE d # c
    <3>1. d \notin late /\ d \in SpectralConfigs
      BY <1>1, <1>2, <2>2 DEF CursorVariables
    <3>2. CursorSettled(d) \/ \E u \in CursorTasks : CursorOwes(fill[u], d, cursor_at, cursor_configs)
      BY <1>1, <3>1 DEF RequiredProfilesCovered, CursorDue
    <3>3. CASE CursorSettled(d)
      <4>1. client_profile'[d] = client_profile[d]
        BY <1>10, <2>2, <3>1
      <4> QED BY <1>2, <3>3, <4>1 DEF CursorSettled
    <3>4. ASSUME NEW u \in CursorTasks, CursorOwes(fill[u], d, cursor_at, cursor_configs)
          PROVE  CursorOwes(fill'[u], d, cursor_at, cursor_configs)
      <4>1. CASE u = t
        <5>1. CursorOwes(r, d, cursor_at, cursor_configs)
          BY <3>4, <4>1
        <5>2. CursorOwes(next, d, cursor_at, cursor_configs) /\ CursorOwes(read, d, cursor_at, cursor_configs)
          BY <1>1, <1>4, <1>5, <2>2, <5>1 DEF CursorOwes, CursorInHand
        <5> QED BY <1>9, <4>1, <5>2
      <4>2. CASE u # t
        <5>1. fill'[u] = fill[u]
          BY <1>9, <4>2
        <5> QED BY <3>4, <5>1
      <4> QED BY <4>1, <4>2
    <3> QED BY <3>2, <3>3, <3>4
  <2> QED BY <2>1, <2>2
<1> QED BY <1>9, <1>11, <1>12 DEF CursorIInv

-----------------------------------------------------------------------------
THEOREM CursorProfilesInductive == CursorProfilesSpec => []CursorIInv
<1>1. ASSUME CursorProfilesInit
      PROVE  CursorIInv
  <2>1. /\ cursor_at \in Cursors /\ cursor_configs \in {{}, SpectralConfigs}
        /\ clearing = FALSE /\ connected = TRUE /\ unreadable = FALSE /\ late = {}
        /\ fill = [t \in CursorTasks |-> NewFill]
    BY <1>1, CursorAssumption DEF CursorProfilesInit
  <2> DEFINE complete == [cursor |-> cursor_at, final |-> TRUE]
  <2>2. client_profile = [c \in SpectralConfigs |-> IF c \in cursor_configs THEN complete ELSE NoMessage]
    BY <1>1 DEF CursorProfilesInit
  <2>3. /\ complete \in ProfileMessages /\ complete.cursor = cursor_at /\ complete.final
        /\ NoMessage \in ProfileMessages
    BY <2>1 DEF ProfileMessages, NoMessage
  <2> HIDE DEF complete
  <2>4. CursorFillsInv
    BY <2>1, NewFillFits DEF CursorFillsInv
  <2>5. client_profile \in [SpectralConfigs -> ProfileMessages]
    BY <2>2, <2>3
  <2>6. CursorVariables
    <3>1. FALSE \in BOOLEAN /\ TRUE \in BOOLEAN
      OBVIOUS
    <3> QED BY <2>1, <2>5, <3>1 DEF CursorVariables
  <2>7. ASSUME NEW c \in cursor_configs
        PROVE  CursorSettled(c)
    <3>1. c \in SpectralConfigs
      BY <2>1
    <3>2. client_profile[c] = complete
      BY <2>2, <3>1
    <3> QED BY <2>3, <3>2 DEF CursorSettled
  <2> QED BY <2>4, <2>6, <2>7 DEF CursorIInv, RequiredProfilesCovered
<1>2. ASSUME CursorIInv, [CursorProfilesNext]_cursorVars
      PROVE  CursorIInv'
  <2>1. ASSUME NEW t \in CursorTasks, NEW position \in Cursors, SetCursor(t, position)
        PROVE  CursorIInv'
    BY <1>2, <2>1, SetCursorKeeps
  <2>2. ASSUME NEW t \in CursorTasks, NEW configs \in SUBSET SpectralConfigs,
               SetCursorRequirements(t, configs)
        PROVE  CursorIInv'
    BY <1>2, <2>2, CursorRequirementsKeep
  <2>3. ASSUME NEW t \in CursorTasks,
               \/ RequirementsCleared(t) \/ ChangeStokes(t)
               \/ BeginFill(t) \/ CopyConfigs(t) \/ NextConfig(t) \/ ReadSlice(t)
               \/ CheckProfile(t) \/ SendCursorProfile(t)
        PROVE  CursorIInv'
    BY <1>2, <2>3, CursorClearedKeeps, CursorChangeStokesKeeps, CursorBeginKeeps, CursorCopyKeeps, CursorNextKeeps, CursorReadKeeps,
       CursorCheckKeeps, CursorSendKeeps
  <2>4. CASE ClearRequirements
    BY <1>2, <2>4, CursorClearKeeps
  <2>5. CASE DisconnectImage
    BY <1>2, <2>5, CursorDisconnectKeeps
  <2>6. CASE UNCHANGED cursorVars
    BY <1>2, <2>6
       DEF cursorVars, CursorIInv, CursorFillsInv, CursorVariables, RequiredProfilesCovered, CursorSettled
  <2> QED BY <1>2, <2>1, <2>2, <2>3, <2>4, <2>5, <2>6 DEF CursorProfilesNext
<1> QED BY <1>1, <1>2, PTL DEF CursorProfilesSpec

\* The variables have their types: a task has read no more slices than there
\* are, of a profile that was required.
THEOREM CursorProfilesTypeCorrect == CursorProfilesSpec => []CursorProfilesTypeOK
<1>1. ASSUME CursorIInv
      PROVE  CursorProfilesTypeOK
  <2>1. CursorFillsInv /\ CursorVariables
    BY <1>1 DEF CursorIInv
  <2>2. ASSUME NEW t \in CursorTasks
        PROVE  /\ fill[t].at \in {"idle", "begin", "copy", "next", "read", "check", "send", "done"}
               /\ fill[t].start \in Cursors \cup {NoCursor}
               /\ fill[t].configs \subseteq SpectralConfigs
               /\ fill[t].config \in SpectralConfigs \cup {NoConfig}
               /\ fill[t].slices \in 0..Slices
    BY <2>1, FillRecord DEF FillRecords, FillPlaces
  <2> QED BY <2>1, <2>2 DEF CursorVariables, CursorProfilesTypeOK
<1> QED BY <1>1, CursorProfilesInductive, PTL

\* Once no task is left to run, the client has the final profile, at the present
\* cursor, of every coordinate that is required.
THEOREM CursorProfilesComplete == CursorProfilesSpec => []RequiredProfilesComplete
<1>1. ASSUME CursorIInv, CursorDue, \A t \in CursorTasks : fill[t].at \in {"idle", "done"},
             NEW c \in cursor_configs \ late
      PROVE  client_profile[c] = [cursor |-> cursor_at, final |-> TRUE]
  <2>1. \A t \in CursorTasks : ~CursorOwes(fill[t], c, cursor_at, cursor_configs)
    BY <1>1 DEF CursorOwes, CursorInHand
  <2>2. CursorSettled(c)
    BY <1>1, <2>1 DEF CursorIInv, RequiredProfilesCovered, CursorDue
  <2>3. client_profile[c] \in ProfileMessages
    BY <1>1 DEF CursorIInv, CursorVariables
  <2>4. client_profile[c].cursor = cursor_at /\ client_profile[c].final = TRUE
    BY <2>2, <2>3 DEF CursorSettled, ProfileMessages
  <2> QED BY <2>3, <2>4 DEF ProfileMessages
<1>2. CursorIInv => RequiredProfilesComplete
  BY <1>1 DEF RequiredProfilesComplete, CursorDue
<1> QED BY <1>2, CursorProfilesInductive, PTL

-----------------------------------------------------------------------------
(***************************************************************************)
(* Cube histograms.  A task goes through the channels in order, and skips  *)
(* none but for the flag, which is set until a request resets it.          *)
(***************************************************************************)

\* The channels gone through so far.
Segments == {1..k : k \in 0..CubeDepth}
HistogramPlaces == {"idle", "require", "push", "fill", "config", "stats", "bounds", "bins",
                    "complete", "send"}
HistogramBeforeStats == {"require", "push", "fill", "config"}
HistogramRecords ==
    [at : HistogramPlaces, config : CubeConfigs \cup {NoCubeConfig}, todo : Seq(CubeConfigs),
     stats : Segments, bins : Segments, cut : BOOLEAN, stopped : BOOLEAN, revived : BOOLEAN]

\* How far a task has come: what lies behind it was gone through as a whole, or
\* a loop was left early.
HistogramProgress(r) ==
    /\ r.at \in HistogramBeforeStats => r.stats = {}
    /\ r.at = "stats" => r.stats # AllZ
    /\ r.at \in HistogramBeforeStats \cup {"stats"} => ~r.cut /\ r.bins = {}
    /\ r.at = "bounds" => r.bins = {} /\ (r.stats = AllZ \/ r.cut)
    /\ r.at = "bins" => r.bins # AllZ
    /\ r.at \in {"bins", "complete", "send"} => r.stats = AllZ \/ r.revived
    /\ r.at = "complete" => r.bins = AllZ \/ r.cut
    /\ r.at = "send" => r.bins = AllZ \/ r.revived
    /\ r.at \in {"stats", "bounds", "bins", "complete"} => r.config \in CubeConfigs

\* A loop is left early only for the flag, which is set until it is reset.
HistogramFlagged(r, context) ==
    /\ r.cut => context \/ r.revived
    /\ r.stopped => context /\ r.at # "send"

HistogramTasksInv ==
    /\ histogram_task \in [HistogramTasks -> HistogramRecords]
    /\ histogram_context \in BOOLEAN
    /\ \A t \in HistogramTasks :
          HistogramProgress(histogram_task[t]) /\ HistogramFlagged(histogram_task[t], histogram_context)

HistogramResults ==
    /\ cube_configs \in Seq(CubeConfigs)
    /\ cube_frame \in {"open", "null", "gone"}
    /\ cube_stats \in Segments /\ cube_histograms \subseteq CubeConfigs
    /\ half_cached \in BOOLEAN /\ null_frame \in BOOLEAN
    /\ CubeHistogramsCorrect

CubeHistogramsIInv == HistogramTasksInv /\ HistogramResults

LEMMA SegmentNext ==
    ASSUME NEW s \in Segments, s # AllZ
    PROVE  s \cup {Cardinality(s) + 1} \in Segments
<1>1. PICK k \in 0..CubeDepth : s = 1..k
  BY DEF Segments
<1>2. CubeDepth \in Nat /\ k \in Int /\ k < CubeDepth
  BY <1>1, CubeDepthAssumption DEF AllZ
<1>3. Cardinality(s) = k
  BY <1>1, <1>2, FS_Interval
<1>4. s \cup {Cardinality(s) + 1} = 1..(k + 1)
  BY <1>1, <1>2, <1>3
<1> QED BY <1>2, <1>4 DEF Segments

LEMMA SegmentEnds == {} \in Segments /\ AllZ \in Segments /\ {} # AllZ
<1>1. CubeDepth \in Nat /\ CubeDepth >= 1
  BY CubeDepthAssumption
<1>2. 1..0 = {} /\ 1 \in AllZ
  BY <1>1 DEF AllZ
<1> QED BY <1>1, <1>2 DEF Segments, AllZ

LEMMA NoHistogramFits ==
    /\ NoHistogram \in HistogramRecords /\ HistogramProgress(NoHistogram)
    /\ \A context \in BOOLEAN : HistogramFlagged(NoHistogram, context)
<1>1. NoHistogram \in HistogramRecords
  BY SegmentEnds DEF NoHistogram, HistogramRecords, HistogramPlaces, NoCubeConfig
<1>2. /\ NoHistogram.at = "idle" /\ ~NoHistogram.cut /\ ~NoHistogram.stopped
  BY DEF NoHistogram
<1> QED BY <1>1, <1>2 DEF HistogramProgress, HistogramFlagged, HistogramBeforeStats

\* A step of one task, to a record that fits.
LEMMA HistogramMoves ==
    ASSUME HistogramTasksInv, NEW t \in HistogramTasks, NEW r \in HistogramRecords,
           HistogramProgress(r), HistogramFlagged(r, histogram_context), NextStep(t, r),
           histogram_context' = histogram_context
    PROVE  HistogramTasksInv'
<1>1. /\ histogram_task' \in [HistogramTasks -> HistogramRecords]
      /\ \A u \in HistogramTasks : histogram_task'[u] = IF u = t THEN r ELSE histogram_task[u]
  BY DEF HistogramTasksInv, NextStep
<1>2. ASSUME NEW u \in HistogramTasks
      PROVE  HistogramProgress(histogram_task'[u]) /\ HistogramFlagged(histogram_task'[u], histogram_context')
  <2>1. CASE u = t
    BY <1>1, <2>1
  <2>2. CASE u # t
    <3>1. histogram_task'[u] = histogram_task[u]
      BY <1>1, <2>2
    <3> QED BY <3>1 DEF HistogramTasksInv
  <2> QED BY <2>1, <2>2
<1> QED BY <1>1, <1>2 DEF HistogramTasksInv

LEMMA HistogramEnds ==
    ASSUME HistogramTasksInv, NEW t \in HistogramTasks, NextStep(t, NoHistogram),
           histogram_context' = histogram_context
    PROVE  HistogramTasksInv'
BY NoHistogramFits, HistogramMoves DEF HistogramTasksInv

\* A step to another place with the same channels and flags.
LEMMA HistogramGoes ==
    ASSUME HistogramTasksInv, NEW t \in HistogramTasks, NEW place \in HistogramPlaces,
           NEW config \in CubeConfigs \cup {NoCubeConfig},
           NEW r, r = [histogram_task[t] EXCEPT !.at = place, !.config = config]
    PROVE  /\ r \in HistogramRecords /\ r.at = place
           /\ r.config = config /\ r.stats = histogram_task[t].stats /\ r.bins = histogram_task[t].bins
           /\ r.cut <=> histogram_task[t].cut
           /\ r.stopped <=> histogram_task[t].stopped
           /\ r.revived <=> histogram_task[t].revived
BY DEF HistogramTasksInv, HistogramRecords

-----------------------------------------------------------------------------
\* The main thread.
LEMMA HistogramRequestKeeps ==
    ASSUME CubeHistogramsIInv, NEW t \in HistogramTasks, NEW config \in CubeConfigs,
           RequestHistogram(t, config)
    PROVE  CubeHistogramsIInv'
<1> DEFINE new == [NoHistogram EXCEPT !.at = "require", !.todo = <<config>>]
           other(u) == [histogram_task[u] EXCEPT !.stopped = FALSE,
                                                 !.revived = @ \/ histogram_task[u].cut]
<1>1. /\ new \in HistogramRecords /\ new.at = "require" /\ new.stats = {} /\ new.bins = {}
      /\ ~new.cut /\ ~new.stopped
  <2> DEFINE first == <<config>>
  <2>1. first \in Seq(CubeConfigs)
    OBVIOUS
  <2> HIDE DEF first
  <2>2. new = [NoHistogram EXCEPT !.at = "require", !.todo = first]
    BY DEF first
  <2>3. new \in HistogramRecords
    BY <2>1, <2>2, NoHistogramFits DEF HistogramRecords, HistogramPlaces
  <2>4. /\ new.at = "require" /\ new.stats = {} /\ new.bins = {}
        /\ ~new.cut /\ ~new.stopped
    BY <2>2 DEF NoHistogram
  <2> QED BY <2>3, <2>4
<1>2. HistogramProgress(new) /\ HistogramFlagged(new, FALSE)
  <2> HIDE DEF new
  <2> QED BY <1>1 DEF HistogramProgress, HistogramFlagged, HistogramBeforeStats
<1>3. ASSUME NEW u \in HistogramTasks
      PROVE  other(u) \in HistogramRecords /\ HistogramProgress(other(u)) /\ HistogramFlagged(other(u), FALSE)
  <2>1. histogram_task[u] \in HistogramRecords /\ HistogramProgress(histogram_task[u])
    BY DEF CubeHistogramsIInv, HistogramTasksInv
  <2> DEFINE r == histogram_task[u]
             o == other(u)
  <2>2. /\ o \in HistogramRecords /\ o.at = r.at /\ o.stats = r.stats /\ o.bins = r.bins
        /\ o.config = r.config
        /\ o.cut <=> r.cut
        /\ ~o.stopped
        /\ o.revived <=> r.revived \/ r.cut
    BY <2>1 DEF HistogramRecords
  <2> HIDE DEF o
  <2>3. HistogramProgress(o) /\ HistogramFlagged(o, FALSE)
    BY <2>1, <2>2 DEF HistogramProgress, HistogramFlagged
  <2> QED BY <2>2, <2>3 DEF o
<1>4. histogram_task' = [u \in HistogramTasks |-> IF u = t THEN new ELSE other(u)]
  BY DEF RequestHistogram
<1>5. histogram_context' = FALSE
  BY DEF RequestHistogram
<1> HIDE DEF new, other
<1>6. HistogramTasksInv'
  BY <1>1, <1>2, <1>3, <1>4, <1>5 DEF HistogramTasksInv
<1>7. UNCHANGED <<cube_configs, cube_frame, null_frame, cube_stats, cube_histograms,
                  histograms_sent, half_cached>>
  BY DEF RequestHistogram, KeepResults
<1> QED BY <1>6, <1>7 DEF CubeHistogramsIInv, HistogramResults, CubeHistogramsCorrect,
             CompleteHistogramsWhole, CancelledHistogramNotSent

LEMMA HistogramCancelKeeps ==
    ASSUME CubeHistogramsIInv, CancelSetHistRequirements
    PROVE  CubeHistogramsIInv'
<1> DEFINE other(u) == [histogram_task[u] EXCEPT
                           !.stopped = @ \/ histogram_task[u].at \notin {"idle", "send"}]
<1>1. ASSUME NEW u \in HistogramTasks
      PROVE  other(u) \in HistogramRecords /\ HistogramProgress(other(u)) /\ HistogramFlagged(other(u), TRUE)
  <2>1. /\ histogram_task[u] \in HistogramRecords /\ HistogramProgress(histogram_task[u])
        /\ HistogramFlagged(histogram_task[u], histogram_context)
    BY DEF CubeHistogramsIInv, HistogramTasksInv
  <2> DEFINE r == histogram_task[u]
             o == other(u)
  <2>2. /\ o \in HistogramRecords /\ o.at = r.at /\ o.stats = r.stats /\ o.bins = r.bins
        /\ o.config = r.config
        /\ o.cut <=> r.cut
        /\ o.stopped <=> r.stopped \/ r.at \notin {"idle", "send"}
        /\ o.revived <=> r.revived
    BY <2>1 DEF HistogramRecords
  <2> HIDE DEF o
  <2>3. HistogramProgress(o) /\ HistogramFlagged(o, TRUE)
    BY <2>1, <2>2 DEF HistogramProgress, HistogramFlagged
  <2> QED BY <2>2, <2>3 DEF o
<1>2. histogram_task' = [u \in HistogramTasks |-> other(u)]
  BY DEF CancelSetHistRequirements
<1>3. histogram_context' = TRUE
  BY DEF CancelSetHistRequirements
<1> HIDE DEF other
<1>4. HistogramTasksInv'
  BY <1>1, <1>2, <1>3 DEF HistogramTasksInv
<1>5. UNCHANGED <<cube_configs, cube_frame, null_frame, cube_stats, cube_histograms,
                  histograms_sent, half_cached>>
  BY DEF CancelSetHistRequirements, KeepResults
<1> QED BY <1>4, <1>5 DEF CubeHistogramsIInv, HistogramResults, CubeHistogramsCorrect,
             CompleteHistogramsWhole, CancelledHistogramNotSent

LEMMA HistogramCloseKeeps ==
    ASSUME CubeHistogramsIInv, CloseCube
    PROVE  CubeHistogramsIInv'
<1>1. UNCHANGED <<cube_configs, null_frame, cube_stats, cube_histograms,
                  histograms_sent, half_cached, histogram_task, histogram_context>>
  BY DEF CloseCube, KeepResults
<1>2. cube_frame' \in {"open", "null", "gone"}
  BY DEF CloseCube
<1> QED BY <1>1, <1>2 DEF CubeHistogramsIInv, HistogramResults, CubeHistogramsCorrect,
             CompleteHistogramsWhole, CancelledHistogramNotSent, HistogramTasksInv

-----------------------------------------------------------------------------
\* The task.  Its record, and what a step finds of the Frame.
LEMMA HistogramRecord ==
    ASSUME HistogramTasksInv, NEW t \in HistogramTasks
    PROVE  /\ histogram_task[t] \in HistogramRecords /\ HistogramProgress(histogram_task[t])
           /\ HistogramFlagged(histogram_task[t], histogram_context)
           /\ histogram_task[t].stats \in Segments /\ histogram_task[t].bins \in Segments
           /\ histogram_task[t].config \in CubeConfigs \cup {NoCubeConfig}
BY DEF HistogramTasksInv, HistogramRecords

LEMMA HistogramFrameLost ==
    ASSUME HistogramTasksInv, NEW t \in HistogramTasks, histogram_context' = histogram_context,
           NextStep(t, NoHistogram) \/ UNCHANGED histogram_task
    PROVE  HistogramTasksInv'
<1>1. CASE UNCHANGED histogram_task
  BY <1>1 DEF HistogramTasksInv
<1> QED BY <1>1, HistogramEnds

LEMMA HistogramRequirementsKept ==
    ASSUME CubeHistogramsIInv, NEW t \in HistogramTasks, SetHistogramRequirements(t)
    PROVE  CubeHistogramsIInv'
<1> DEFINE r == histogram_task[t]
           clear == HistogramAt(t, "require") /\ cube_configs' = <<>>
                    /\ NextStep(t, [r EXCEPT !.at = "push"])
           push == HistogramAt(t, "push") /\ cube_configs' = cube_configs \o r.todo
                   /\ NextStep(t, [r EXCEPT !.at = "fill"])
<1>1. /\ HistogramTasksInv /\ null_frame \in BOOLEAN
      /\ r \in HistogramRecords /\ HistogramProgress(r) /\ HistogramFlagged(r, histogram_context)
      /\ cube_configs \in Seq(CubeConfigs)
  BY HistogramRecord DEF CubeHistogramsIInv, HistogramResults
<1>2. WithFrame(t, clear \/ push, UNCHANGED cube_configs)
  BY DEF SetHistogramRequirements
<1>3. UNCHANGED <<histogram_context, cube_frame, cube_stats, cube_histograms, histograms_sent,
                  half_cached>>
  BY DEF SetHistogramRequirements, KeepResults, KeepMessages
<1>4. null_frame' \in BOOLEAN /\ ((clear \/ push) \/ (UNCHANGED cube_configs /\ HistogramTasksInv'))
  <2> HIDE DEF clear, push
  <2> QED BY <1>1, <1>2, <1>3, HistogramFrameLost DEF WithFrame
<1>5. ASSUME NEW place \in {"push", "fill"}, r.at \in {"require", "push"},
             NextStep(t, [r EXCEPT !.at = place])
      PROVE  HistogramTasksInv'
  <2> DEFINE n == [r EXCEPT !.at = place]
  <2>1. /\ n \in HistogramRecords /\ n.at = place /\ n.stats = r.stats /\ n.bins = r.bins
        /\ n.config = r.config
        /\ n.cut <=> r.cut
        /\ n.stopped <=> r.stopped
        /\ n.revived <=> r.revived
    BY <1>1 DEF HistogramRecords, HistogramPlaces
  <2>2. NextStep(t, n)
    BY <1>5
  <2> HIDE DEF n
  <2>3. HistogramProgress(n) /\ HistogramFlagged(n, histogram_context)
    BY <1>1, <1>5, <2>1 DEF HistogramProgress, HistogramFlagged, HistogramBeforeStats
  <2> QED BY <1>1, <1>3, <2>1, <2>2, <2>3, HistogramMoves
<1>6. CASE clear
  <2>1. HistogramTasksInv' /\ cube_configs' \in Seq(CubeConfigs)
    BY <1>5, <1>6 DEF HistogramAt
  <2> QED BY <1>3, <1>4, <2>1 DEF CubeHistogramsIInv, HistogramResults, CubeHistogramsCorrect,
             CompleteHistogramsWhole, CancelledHistogramNotSent
<1>7. CASE push
  <2>1. r.todo \in Seq(CubeConfigs)
    BY <1>1 DEF HistogramRecords
  <2>2. HistogramTasksInv' /\ cube_configs' \in Seq(CubeConfigs)
    BY <1>1, <1>5, <1>7, <2>1 DEF HistogramAt
  <2> QED BY <1>3, <1>4, <2>2 DEF CubeHistogramsIInv, HistogramResults, CubeHistogramsCorrect,
             CompleteHistogramsWhole, CancelledHistogramNotSent
<1>8. CASE UNCHANGED cube_configs /\ HistogramTasksInv'
  BY <1>3, <1>4, <1>8 DEF CubeHistogramsIInv, HistogramResults, CubeHistogramsCorrect,
             CompleteHistogramsWhole, CancelledHistogramNotSent
<1> HIDE DEF clear, push
<1> QED BY <1>4, <1>6, <1>7, <1>8

LEMMA HistogramResultsStay ==
    ASSUME HistogramResults, null_frame' \in BOOLEAN,
           UNCHANGED <<cube_configs, cube_frame, cube_stats, cube_histograms, histograms_sent,
                       half_cached>>
    PROVE  HistogramResults'
BY DEF HistogramResults, CubeHistogramsCorrect, CompleteHistogramsWhole, CancelledHistogramNotSent

LEMMA HistogramFillKeeps ==
    ASSUME CubeHistogramsIInv, NEW t \in HistogramTasks, FillHistograms(t)
    PROVE  CubeHistogramsIInv'
<1> DEFINE required == SelectSeq(cube_configs, LAMBDA c : c \notin WithoutStokes)
           found == {c \in InLoader : \E i \in DOMAIN required :
                        required[i] = c /\ \A j \in 1..i : required[j] \in InLoader}
           all == required # <<>> /\ \A i \in DOMAIN required : required[i] \in InLoader
           sent == [whole |-> TRUE, revived |-> FALSE, stopped |-> FALSE]
           r == histogram_task[t]
           n == [r EXCEPT !.at = "config"]
           step == /\ histograms_sent' = histograms_sent \cup {sent : c \in found}
                   /\ NextStep(t, IF all THEN NoHistogram ELSE n)
<1>1. /\ HistogramTasksInv /\ null_frame \in BOOLEAN /\ HistogramResults
      /\ r \in HistogramRecords /\ HistogramProgress(r) /\ HistogramFlagged(r, histogram_context)
  BY HistogramRecord DEF CubeHistogramsIInv, HistogramResults
<1>2. WithFrame(t, step, UNCHANGED histograms_sent) /\ r.at = "fill"
  BY DEF FillHistograms, HistogramAt
<1>3. UNCHANGED <<histogram_context, cube_frame, cube_configs, cube_stats, cube_histograms,
                  half_cached>>
  BY DEF FillHistograms, KeepMessages
<1>4. null_frame' \in BOOLEAN /\ (step \/ (UNCHANGED histograms_sent /\ HistogramTasksInv'))
  <2> HIDE DEF step
  <2> QED BY <1>1, <1>2, <1>3, HistogramFrameLost DEF WithFrame
<1>5. /\ n \in HistogramRecords /\ n.at = "config" /\ n.stats = r.stats /\ n.bins = r.bins
      /\ n.config = r.config
      /\ n.cut <=> r.cut
      /\ n.stopped <=> r.stopped
      /\ n.revived <=> r.revived
  BY <1>1 DEF HistogramRecords, HistogramPlaces
<1>6. sent.whole /\ ~sent.stopped
  OBVIOUS
<1> HIDE DEF n, sent, required, found, all
<1>7. HistogramProgress(n) /\ HistogramFlagged(n, histogram_context)
  BY <1>1, <1>2, <1>5 DEF HistogramProgress, HistogramFlagged, HistogramBeforeStats
<1>8. CASE step
  <2>1. NextStep(t, IF all THEN NoHistogram ELSE n) /\ histograms_sent' = histograms_sent \cup {sent : c \in found}
    BY <1>8
  <2>2. HistogramTasksInv'
    <3>1. CASE all
      <4>1. NextStep(t, NoHistogram)
        BY <2>1, <3>1
      <4> QED BY <1>1, <1>3, <4>1, HistogramEnds
    <3>2. CASE ~all
      <4>1. NextStep(t, n)
        BY <2>1, <3>2
      <4> QED BY <1>1, <1>3, <1>5, <1>7, <4>1, HistogramMoves
    <3> QED BY <3>1, <3>2
  <2>3. \A h \in histograms_sent' : h \in histograms_sent \/ h = sent
    BY <2>1
  <2> HIDE DEF step
  <2>4. HistogramResults'
    BY <1>1, <1>3, <1>4, <1>6, <2>3 DEF HistogramResults, CubeHistogramsCorrect,
         CompleteHistogramsWhole, CancelledHistogramNotSent
  <2> QED BY <2>2, <2>4 DEF CubeHistogramsIInv
<1>9. CASE UNCHANGED histograms_sent /\ HistogramTasksInv'
  BY <1>1, <1>3, <1>4, <1>9, HistogramResultsStay DEF CubeHistogramsIInv
<1> HIDE DEF step
<1> QED BY <1>4, <1>8, <1>9

LEMMA HistogramConfigKeeps ==
    ASSUME CubeHistogramsIInv, NEW t \in HistogramTasks, GetCubeHistogramConfig(t)
    PROVE  CubeHistogramsIInv'
<1> DEFINE none == cube_configs = <<>> \/ Head(cube_configs) \in WithoutStokes
           r == histogram_task[t]
           n == [r EXCEPT !.at = "stats", !.config = Head(cube_configs)]
           step == NextStep(t, IF none THEN NoHistogram ELSE n)
<1>1. /\ HistogramTasksInv /\ null_frame \in BOOLEAN /\ HistogramResults
      /\ r \in HistogramRecords /\ HistogramProgress(r) /\ HistogramFlagged(r, histogram_context)
      /\ cube_configs \in Seq(CubeConfigs)
  BY HistogramRecord DEF CubeHistogramsIInv, HistogramResults
<1>2. WithFrame(t, step, TRUE) /\ r.at = "config"
  BY DEF GetCubeHistogramConfig, HistogramAt
<1>3. UNCHANGED <<histogram_context, cube_frame, cube_configs, cube_stats, cube_histograms,
                  histograms_sent, half_cached>>
  BY DEF GetCubeHistogramConfig, KeepResults, KeepMessages
<1>4. null_frame' \in BOOLEAN /\ (step \/ HistogramTasksInv')
  <2> HIDE DEF step
  <2> QED BY <1>1, <1>2, <1>3, HistogramFrameLost DEF WithFrame
<1>5. HistogramResults'
  BY <1>1, <1>3, <1>4, HistogramResultsStay
<1>6. ASSUME ~none, NextStep(t, n)
      PROVE  HistogramTasksInv'
  <2>1. Head(cube_configs) \in CubeConfigs
    BY <1>1, <1>6
  <2>2. /\ n \in HistogramRecords /\ n.at = "stats" /\ n.stats = r.stats /\ n.bins = r.bins
        /\ n.config \in CubeConfigs
        /\ n.cut <=> r.cut
        /\ n.stopped <=> r.stopped
        /\ n.revived <=> r.revived
    <3> DEFINE c == Head(cube_configs)
    <3> HIDE DEF c
    <3>1. n = [r EXCEPT !.at = "stats", !.config = c] /\ c \in CubeConfigs
      BY <2>1 DEF c
    <3> QED BY <1>1, <3>1 DEF HistogramRecords, HistogramPlaces
  <2>3. n.stats = {} /\ n.bins = {} /\ ~n.cut
    BY <1>1, <1>2, <2>2 DEF HistogramProgress, HistogramBeforeStats
  <2>4. NextStep(t, n)
    BY <1>6
  <2> HIDE DEF n
  <2>5. HistogramProgress(n) /\ HistogramFlagged(n, histogram_context)
    BY <1>1, <2>2, <2>3, SegmentEnds DEF HistogramProgress, HistogramFlagged, HistogramBeforeStats
  <2> QED BY <1>1, <1>3, <2>2, <2>4, <2>5, HistogramMoves
<1>7. CASE step
  <2>1. CASE none
    <3>1. NextStep(t, NoHistogram)
      BY <1>7, <2>1
    <3> QED BY <1>1, <1>3, <1>5, <3>1, HistogramEnds DEF CubeHistogramsIInv
  <2>2. CASE ~none
    <3>1. NextStep(t, n)
      BY <1>7, <2>2
    <3> QED BY <1>5, <1>6, <2>2, <3>1 DEF CubeHistogramsIInv
  <2> QED BY <2>1, <2>2
<1> HIDE DEF step
<1> QED BY <1>4, <1>5, <1>7 DEF CubeHistogramsIInv

\* A loop of a task that is not left: it goes on while channels are left.
LEMMA HistogramStatsKeep ==
    ASSUME CubeHistogramsIInv, NEW t \in HistogramTasks, JoinStats(t)
    PROVE  CubeHistogramsIInv'
<1> DEFINE r == histogram_task[t]
           done == r.stats \cup {Cardinality(r.stats) + 1}
           n == Loop([r EXCEPT !.stats = done], done, "bounds")
           step == NextStep(t, NoHistogram) \/ NextStep(t, n)
<1>1. /\ HistogramTasksInv /\ null_frame \in BOOLEAN /\ HistogramResults
      /\ r \in HistogramRecords /\ HistogramProgress(r) /\ HistogramFlagged(r, histogram_context)
      /\ r.stats \in Segments /\ histogram_context \in BOOLEAN
  BY HistogramRecord DEF CubeHistogramsIInv, HistogramResults, HistogramTasksInv
<1>2. WithFrame(t, step, TRUE) /\ r.at = "stats"
  BY DEF JoinStats, HistogramAt
<1>3. UNCHANGED <<histogram_context, cube_frame, cube_configs, cube_stats, cube_histograms,
                  histograms_sent, half_cached>>
  BY DEF JoinStats, KeepResults, KeepMessages
<1>4. null_frame' \in BOOLEAN /\ (step \/ HistogramTasksInv')
  <2> HIDE DEF step
  <2> QED BY <1>1, <1>2, <1>3, HistogramFrameLost DEF WithFrame
<1>5. HistogramResults'
  BY <1>1, <1>3, <1>4, HistogramResultsStay
<1>6. done \in Segments
  BY <1>1, <1>2, SegmentNext DEF HistogramProgress
<1>7. ~r.cut /\ r.bins = {} /\ r.config \in CubeConfigs
  BY <1>1, <1>2 DEF HistogramProgress
<1> HIDE DEF done
<1>8. /\ n \in HistogramRecords /\ n.bins = r.bins /\ n.stats = done /\ n.config = r.config
      /\ n.stopped <=> r.stopped
      /\ n.revived <=> r.revived
      /\ n.cut <=> (histogram_context /\ done # AllZ)
      /\ n.at = IF histogram_context \/ done = AllZ THEN "bounds" ELSE "stats"
  <2>1. CASE histogram_context
    <3> DEFINE left == done # AllZ
    <3>1. n = [[r EXCEPT !.stats = done] EXCEPT !.at = "bounds", !.cut = left] /\ left \in BOOLEAN
      BY <2>1 DEF Loop
    <3> HIDE DEF n, left
    <3>2. /\ n \in HistogramRecords /\ n.bins = r.bins /\ n.stats = done /\ n.config = r.config
          /\ n.stopped <=> r.stopped
          /\ n.revived <=> r.revived
          /\ n.cut <=> left
          /\ n.at = "bounds"
      BY <1>1, <1>6, <3>1 DEF HistogramRecords, HistogramPlaces
    <3> QED BY <2>1, <3>2 DEF left
  <2>2. CASE ~histogram_context /\ done = AllZ
    <3>1. n = [[r EXCEPT !.stats = done] EXCEPT !.at = "bounds"]
      BY <2>2 DEF Loop
    <3> HIDE DEF n
    <3>2. /\ n \in HistogramRecords /\ n.bins = r.bins /\ n.stats = done /\ n.config = r.config
          /\ n.stopped <=> r.stopped
          /\ n.revived <=> r.revived
          /\ n.cut <=> r.cut
          /\ n.at = "bounds"
      BY <1>1, <1>6, <3>1 DEF HistogramRecords, HistogramPlaces
    <3> QED BY <1>7, <2>2, <3>2
  <2>3. CASE ~histogram_context /\ done # AllZ
    <3>1. n = [r EXCEPT !.stats = done]
      BY <2>3 DEF Loop
    <3> HIDE DEF n
    <3>2. /\ n \in HistogramRecords /\ n.bins = r.bins /\ n.stats = done /\ n.config = r.config
          /\ n.stopped <=> r.stopped
          /\ n.revived <=> r.revived
          /\ n.cut <=> r.cut
          /\ n.at = r.at
      BY <1>1, <1>6, <3>1 DEF HistogramRecords
    <3> QED BY <1>2, <1>7, <2>3, <3>2
  <2> QED BY <2>1, <2>2, <2>3
<1> HIDE DEF n
<1>9. HistogramProgress(n) /\ HistogramFlagged(n, histogram_context)
  BY <1>1, <1>2, <1>7, <1>8 DEF HistogramProgress, HistogramFlagged, HistogramBeforeStats
<1>10. CASE step
  <2>1. CASE NextStep(t, NoHistogram)
    BY <1>1, <1>3, <1>5, <2>1, HistogramEnds DEF CubeHistogramsIInv
  <2>2. CASE NextStep(t, n)
    <3>1. HistogramTasksInv'
      BY <1>1, <1>3, <1>8, <1>9, <2>2, HistogramMoves
    <3> QED BY <1>5, <3>1 DEF CubeHistogramsIInv
  <2> QED BY <1>10, <2>1, <2>2
<1> HIDE DEF step
<1> QED BY <1>4, <1>5, <1>10 DEF CubeHistogramsIInv

LEMMA HistogramCacheStatsKeeps ==
    ASSUME CubeHistogramsIInv, NEW t \in HistogramTasks, CacheCubeStats(t)
    PROVE  CubeHistogramsIInv'
<1> DEFINE r == histogram_task[t]
           n == [r EXCEPT !.at = "bins"]
           go == /\ cube_stats' = r.stats /\ half_cached' = r.revived
                 /\ NextStep(t, n)
<1>1. /\ HistogramTasksInv /\ null_frame \in BOOLEAN /\ HistogramResults
      /\ r \in HistogramRecords /\ HistogramProgress(r) /\ HistogramFlagged(r, histogram_context)
      /\ r.stats \in Segments /\ r.revived \in BOOLEAN
  <2>1. histogram_task[t].revived \in BOOLEAN
    BY DEF CubeHistogramsIInv, HistogramTasksInv, HistogramRecords
  <2> QED BY <2>1, HistogramRecord DEF CubeHistogramsIInv, HistogramResults
<1>2. r.at = "bounds"
  BY DEF CacheCubeStats, HistogramAt
<1>3. UNCHANGED <<histogram_context, cube_frame, cube_configs, cube_histograms, histograms_sent>>
  BY DEF CacheCubeStats, KeepMessages
<1>4. CASE histogram_context
  <2>1. NextStep(t, NoHistogram) /\ UNCHANGED <<cube_stats, half_cached, null_frame>>
    BY <1>4 DEF CacheCubeStats
  <2> QED BY <1>1, <1>3, <2>1, HistogramEnds, HistogramResultsStay DEF CubeHistogramsIInv
<1>5. CASE ~histogram_context
  <2>1. WithFrame(t, go, UNCHANGED <<cube_stats, half_cached>>)
    BY <1>5 DEF CacheCubeStats
  <2>2. null_frame' \in BOOLEAN /\ (go \/ (UNCHANGED <<cube_stats, half_cached>> /\ HistogramTasksInv'))
    <3> HIDE DEF go
    <3> QED BY <1>1, <1>3, <2>1, HistogramFrameLost DEF WithFrame
  <2>3. /\ n \in HistogramRecords /\ n.at = "bins" /\ n.stats = r.stats /\ n.bins = r.bins
        /\ n.config = r.config
        /\ n.cut <=> r.cut
        /\ n.stopped <=> r.stopped
        /\ n.revived <=> r.revived
    BY <1>1 DEF HistogramRecords, HistogramPlaces
  <2> HIDE DEF n
  <2>4. (r.stats = AllZ \/ r.revived) /\ r.bins = {}
    BY <1>1, <1>2, <1>5 DEF HistogramProgress, HistogramFlagged
  <2>5. HistogramProgress(n) /\ HistogramFlagged(n, histogram_context)
    BY <1>1, <1>2, <2>3, <2>4, SegmentEnds
       DEF HistogramProgress, HistogramFlagged, HistogramBeforeStats
  <2>6. CASE go
    <3>1. cube_stats' = r.stats /\ half_cached' = r.revived /\ NextStep(t, n)
      BY <2>6
    <3> HIDE DEF go, r
    <3>2. HistogramTasksInv'
      BY <1>1, <1>3, <2>3, <2>5, <3>1, HistogramMoves
    <3>3. HistogramResults'
      BY <1>1, <1>3, <2>2, <2>4, <3>1 DEF HistogramResults, CubeHistogramsCorrect,
           CompleteHistogramsWhole, CancelledHistogramNotSent
    <3> QED BY <3>2, <3>3 DEF CubeHistogramsIInv
  <2>7. CASE UNCHANGED <<cube_stats, half_cached>> /\ HistogramTasksInv'
    BY <1>1, <1>3, <2>2, <2>7, HistogramResultsStay DEF CubeHistogramsIInv
  <2> HIDE DEF go
  <2> QED BY <2>2, <2>6, <2>7
<1> QED BY <1>4, <1>5

LEMMA HistogramBinsKeep ==
    ASSUME CubeHistogramsIInv, NEW t \in HistogramTasks, AddHistogram(t)
    PROVE  CubeHistogramsIInv'
<1> DEFINE r == histogram_task[t]
           done == r.bins \cup {Cardinality(r.bins) + 1}
           looped == Loop([r EXCEPT !.bins = done], done, "complete")
           n == [looped EXCEPT !.cut = @ \/ r.cut]
           step == NextStep(t, NoHistogram) \/ NextStep(t, n)
<1>1. /\ HistogramTasksInv /\ null_frame \in BOOLEAN /\ HistogramResults
      /\ r \in HistogramRecords /\ HistogramProgress(r) /\ HistogramFlagged(r, histogram_context)
      /\ r.bins \in Segments /\ histogram_context \in BOOLEAN
  BY HistogramRecord DEF CubeHistogramsIInv, HistogramResults, HistogramTasksInv
<1>2. WithFrame(t, step, TRUE) /\ r.at = "bins"
  BY DEF AddHistogram, HistogramAt
<1>3. UNCHANGED <<histogram_context, cube_frame, cube_configs, cube_stats, cube_histograms,
                  histograms_sent, half_cached>>
  BY DEF AddHistogram, KeepResults, KeepMessages
<1>4. null_frame' \in BOOLEAN /\ (step \/ HistogramTasksInv')
  <2> HIDE DEF step
  <2> QED BY <1>1, <1>2, <1>3, HistogramFrameLost DEF WithFrame
<1>5. HistogramResults'
  BY <1>1, <1>3, <1>4, HistogramResultsStay
<1>6. done \in Segments
  BY <1>1, <1>2, SegmentNext DEF HistogramProgress
<1>7. (r.stats = AllZ \/ r.revived) /\ r.config \in CubeConfigs
  BY <1>1, <1>2 DEF HistogramProgress
<1> HIDE DEF done
<1>8. /\ looped \in HistogramRecords /\ looped.stats = r.stats /\ looped.bins = done
      /\ looped.config = r.config
      /\ looped.stopped <=> r.stopped
      /\ looped.revived <=> r.revived
      /\ looped.cut \/ r.cut <=> (histogram_context /\ done # AllZ) \/ r.cut
      /\ looped.at = IF histogram_context \/ done = AllZ THEN "complete" ELSE "bins"
  <2>1. CASE histogram_context
    <3> DEFINE left == done # AllZ
    <3>1. looped = [[r EXCEPT !.bins = done] EXCEPT !.at = "complete", !.cut = left] /\ left \in BOOLEAN
      BY <2>1 DEF Loop
    <3> HIDE DEF looped, left
    <3>2. /\ looped \in HistogramRecords /\ looped.stats = r.stats /\ looped.bins = done
          /\ looped.config = r.config
          /\ looped.stopped <=> r.stopped
          /\ looped.revived <=> r.revived
          /\ looped.cut <=> left
          /\ looped.at = "complete"
      BY <1>1, <1>6, <3>1 DEF HistogramRecords, HistogramPlaces
    <3> QED BY <2>1, <3>2 DEF left
  <2>2. CASE ~histogram_context
    <3> DEFINE place == IF done = AllZ THEN "complete" ELSE r.at
    <3>1. looped = [[r EXCEPT !.bins = done] EXCEPT !.at = place]
      <4>1. [r EXCEPT !.bins = done] = [[r EXCEPT !.bins = done] EXCEPT !.at = r.at]
        BY <1>1, <1>6 DEF HistogramRecords
      <4>2. CASE done = AllZ
        BY <2>2, <4>2 DEF Loop
      <4>3. CASE done # AllZ
        BY <2>2, <4>1, <4>3 DEF Loop
      <4> QED BY <4>2, <4>3
    <3>2. place \in HistogramPlaces
      BY <1>1 DEF HistogramRecords, HistogramPlaces
    <3> HIDE DEF looped, place
    <3>3. /\ looped \in HistogramRecords /\ looped.stats = r.stats /\ looped.bins = done
          /\ looped.config = r.config
          /\ looped.stopped <=> r.stopped
          /\ looped.revived <=> r.revived
          /\ looped.cut <=> r.cut
          /\ looped.at = place
      BY <1>1, <1>6, <3>1, <3>2 DEF HistogramRecords
    <3> QED BY <1>2, <2>2, <3>3 DEF place
  <2> QED BY <2>1, <2>2
<1> HIDE DEF looped
<1>9. /\ n \in HistogramRecords /\ n.stats = r.stats /\ n.bins = done /\ n.config = r.config
      /\ n.stopped <=> r.stopped
      /\ n.revived <=> r.revived
      /\ n.cut <=> (histogram_context /\ done # AllZ) \/ r.cut
      /\ n.at = IF histogram_context \/ done = AllZ THEN "complete" ELSE "bins"
  <2> DEFINE left == looped.cut \/ r.cut
  <2>1. n = [looped EXCEPT !.cut = left] /\ left \in BOOLEAN
    OBVIOUS
  <2> HIDE DEF n, left
  <2>2. /\ n \in HistogramRecords /\ n.stats = looped.stats /\ n.bins = looped.bins
        /\ n.config = looped.config
        /\ n.stopped <=> looped.stopped
        /\ n.revived <=> looped.revived
        /\ n.cut <=> left
        /\ n.at = looped.at
    BY <1>8, <2>1 DEF HistogramRecords
  <2> QED BY <1>8, <2>2 DEF left
<1> HIDE DEF n
<1>10. HistogramProgress(n) /\ HistogramFlagged(n, histogram_context)
  BY <1>1, <1>2, <1>7, <1>9 DEF HistogramProgress, HistogramFlagged, HistogramBeforeStats
<1>11. CASE step
  <2>1. CASE NextStep(t, NoHistogram)
    BY <1>1, <1>3, <1>5, <2>1, HistogramEnds DEF CubeHistogramsIInv
  <2>2. CASE NextStep(t, n)
    <3>1. HistogramTasksInv'
      BY <1>1, <1>3, <1>9, <1>10, <2>2, HistogramMoves
    <3> QED BY <1>5, <3>1 DEF CubeHistogramsIInv
  <2> QED BY <1>11, <2>1, <2>2
<1> HIDE DEF step
<1> QED BY <1>4, <1>5, <1>11 DEF CubeHistogramsIInv

LEMMA HistogramCompleteKeeps ==
    ASSUME CubeHistogramsIInv, NEW t \in HistogramTasks, CacheCubeHistogram(t)
    PROVE  CubeHistogramsIInv'
<1> DEFINE r == histogram_task[t]
           n == [r EXCEPT !.at = "send"]
<1>1. /\ HistogramTasksInv /\ null_frame \in BOOLEAN /\ HistogramResults
      /\ r \in HistogramRecords /\ HistogramProgress(r) /\ HistogramFlagged(r, histogram_context)
      /\ cube_histograms \subseteq CubeConfigs
  BY HistogramRecord DEF CubeHistogramsIInv, HistogramResults
<1>2. r.at = "complete"
  BY DEF CacheCubeHistogram, HistogramAt
<1>3. UNCHANGED <<histogram_context, cube_frame, cube_configs, cube_stats, half_cached,
                  histograms_sent>>
  BY DEF CacheCubeHistogram, KeepMessages
<1>4. CASE histogram_context
  <2>1. NextStep(t, NoHistogram) /\ UNCHANGED <<cube_histograms, null_frame>>
    BY <1>4 DEF CacheCubeHistogram
  <2> QED BY <1>1, <1>3, <2>1, HistogramEnds, HistogramResultsStay DEF CubeHistogramsIInv
<1>5. CASE ~histogram_context
  <2>1. WithFrame(t, CachedResults(t), UNCHANGED cube_histograms)
    BY <1>5 DEF CacheCubeHistogram
  <2>2. /\ null_frame' \in BOOLEAN
        /\ CachedResults(t) \/ (UNCHANGED cube_histograms /\ HistogramTasksInv')
    BY <1>1, <1>3, <2>1, HistogramFrameLost DEF WithFrame
  <2>3. /\ n \in HistogramRecords /\ n.at = "send" /\ n.stats = r.stats /\ n.bins = r.bins
        /\ n.cut <=> r.cut
        /\ n.stopped <=> r.stopped
        /\ n.revived <=> r.revived
    BY <1>1 DEF HistogramRecords, HistogramPlaces
  <2> HIDE DEF n
  <2>4. HistogramProgress(n) /\ HistogramFlagged(n, histogram_context)
    BY <1>1, <1>2, <1>5, <2>3 DEF HistogramProgress, HistogramFlagged, HistogramBeforeStats
  <2>5. CASE CachedResults(t)
    <3>1. cube_histograms' = cube_histograms \cup {r.config} /\ NextStep(t, n)
      BY <2>5 DEF CachedResults, n
    <3>2. HistogramTasksInv'
      BY <1>1, <1>3, <2>3, <2>4, <3>1, HistogramMoves
    <3>3. cube_histograms' \subseteq CubeConfigs
      BY <1>1, <1>2, <3>1 DEF HistogramProgress
    <3>4. HistogramResults'
      BY <1>1, <1>3, <2>2, <3>3 DEF HistogramResults, CubeHistogramsCorrect,
           CompleteHistogramsWhole, CancelledHistogramNotSent
    <3> QED BY <3>2, <3>4 DEF CubeHistogramsIInv
  <2>6. CASE UNCHANGED cube_histograms /\ HistogramTasksInv'
    BY <1>1, <1>3, <2>2, <2>6, HistogramResultsStay DEF CubeHistogramsIInv
  <2> QED BY <2>2, <2>5, <2>6
<1> QED BY <1>4, <1>5

LEMMA HistogramSendKeeps ==
    ASSUME CubeHistogramsIInv, NEW t \in HistogramTasks, SendCubeHistogram(t)
    PROVE  CubeHistogramsIInv'
<1> DEFINE r == histogram_task[t]
           whole == r.stats = AllZ /\ r.bins = AllZ
           h == [whole |-> whole, revived |-> r.revived, stopped |-> r.stopped]
<1>1. /\ HistogramTasksInv /\ HistogramResults
      /\ HistogramProgress(r) /\ HistogramFlagged(r, histogram_context)
  BY HistogramRecord DEF CubeHistogramsIInv
<1>2. r.at = "send"
  BY DEF SendCubeHistogram, HistogramAt
<1>3. /\ histograms_sent' = histograms_sent \cup {h}
      /\ NextStep(t, NoHistogram)
      /\ UNCHANGED <<histogram_context, cube_frame, cube_configs, cube_stats, cube_histograms,
                     half_cached, null_frame>>
  BY DEF SendCubeHistogram, KeepMessages
<1>4. HistogramTasksInv'
  BY <1>1, <1>3, HistogramEnds
<1>5. (h.whole \/ h.revived) /\ ~h.stopped
  <2>1. (whole \/ r.revived) /\ ~r.stopped
    BY <1>1, <1>2 DEF HistogramProgress, HistogramFlagged
  <2> HIDE DEF whole, r
  <2> QED BY <2>1
<1> HIDE DEF h
<1>6. HistogramResults'
  BY <1>1, <1>3, <1>5 DEF HistogramResults, CubeHistogramsCorrect,
       CompleteHistogramsWhole, CancelledHistogramNotSent
<1> QED BY <1>4, <1>6 DEF CubeHistogramsIInv

-----------------------------------------------------------------------------
THEOREM CubeHistogramsInductive == CubeHistogramsSpec => []CubeHistogramsIInv
<1>1. ASSUME CubeHistogramsInit
      PROVE  CubeHistogramsIInv
  <2>1. HistogramTasksInv
    BY <1>1, NoHistogramFits DEF CubeHistogramsInit, HistogramTasksInv
  <2>2. HistogramResults
    <3>1. /\ cube_configs = <<>> /\ cube_frame = "open" /\ cube_stats = {} /\ cube_histograms = {}
          /\ histograms_sent = {} /\ half_cached = FALSE /\ null_frame = FALSE
      BY <1>1 DEF CubeHistogramsInit
    <3>2. CubeHistogramsCorrect
      BY <3>1 DEF CubeHistogramsCorrect, CompleteHistogramsWhole, CancelledHistogramNotSent
    <3>3. cube_configs \in Seq(CubeConfigs)
      BY <3>1
    <3> QED BY <3>1, <3>2, <3>3, SegmentEnds DEF HistogramResults
  <2> QED BY <2>1, <2>2 DEF CubeHistogramsIInv
<1>2. ASSUME CubeHistogramsIInv, [CubeHistogramsNext]_histogramVars
      PROVE  CubeHistogramsIInv'
  <2>1. CASE CancelSetHistRequirements
    BY <1>2, <2>1, HistogramCancelKeeps
  <2>2. CASE CloseCube
    BY <1>2, <2>2, HistogramCloseKeeps
  <2>3. ASSUME NEW t \in HistogramTasks, NEW config \in CubeConfigs, RequestHistogram(t, config)
        PROVE  CubeHistogramsIInv'
    BY <1>2, <2>3, HistogramRequestKeeps
  <2>4. ASSUME NEW t \in HistogramTasks,
               SetHistogramRequirements(t) \/ FillHistograms(t) \/ CalculateCubeHistogram(t)
        PROVE  CubeHistogramsIInv'
    BY <1>2, <2>4, HistogramRequirementsKept, HistogramFillKeeps, HistogramConfigKeeps, HistogramStatsKeep, HistogramCacheStatsKeeps, HistogramBinsKeep,
       HistogramCompleteKeeps, HistogramSendKeeps DEF CalculateCubeHistogram
  <2>5. CASE UNCHANGED histogramVars
    BY <1>2, <2>5 DEF histogramVars, CubeHistogramsIInv, HistogramTasksInv, HistogramResults,
       CubeHistogramsCorrect, CompleteHistogramsWhole, CancelledHistogramNotSent
  <2> QED BY <1>2, <2>1, <2>2, <2>3, <2>4, <2>5 DEF CubeHistogramsNext
<1> QED BY <1>1, <1>2, PTL DEF CubeHistogramsSpec

\* The variables have their types: the statistics in the cache are of channels
\* of the image, and the cached histograms of configurations.
THEOREM CubeHistogramsTypeCorrect == CubeHistogramsSpec => []CubeHistogramsTypeOK
<1>1. ASSUME NEW s \in Segments
      PROVE  s \subseteq AllZ
  <2>1. PICK k \in 0..CubeDepth : s = 1..k
    BY DEF Segments
  <2> QED BY <2>1, CubeDepthAssumption DEF AllZ
<1>2. ASSUME CubeHistogramsIInv
      PROVE  CubeHistogramsTypeOK
  <2>1. HistogramTasksInv /\ HistogramResults
    BY <1>2 DEF CubeHistogramsIInv
  <2>2. ASSUME NEW t \in HistogramTasks
        PROVE  /\ histogram_task[t].config \in CubeConfigs \cup {NoCubeConfig}
               /\ histogram_task[t].stats \subseteq AllZ /\ histogram_task[t].bins \subseteq AllZ
    BY <1>1, <2>1, HistogramRecord
  <2>3. cube_stats \subseteq AllZ
    BY <1>1, <2>1 DEF HistogramResults
  <2> QED BY <2>1, <2>2, <2>3 DEF HistogramTasksInv, HistogramResults, CubeHistogramsTypeOK
<1> QED BY <1>2, CubeHistogramsInductive, PTL

\* A histogram sent as complete, and the statistics in the cache, are of every
\* channel unless a request reset the flag of a task that had left a loop; and a
\* task that was stopped sends nothing.
THEOREM CubeHistogramsAreRight == CubeHistogramsSpec => []CubeHistogramsCorrect
<1>1. CubeHistogramsIInv => CubeHistogramsCorrect
  BY DEF CubeHistogramsIInv, HistogramResults
<1> QED BY <1>1, CubeHistogramsInductive, PTL

-----------------------------------------------------------------------------
(***************************************************************************)
(* Proofs about SpatialProfiles, for any rows of pixels, images, ranges    *)
(* and channels.                                                           *)
(*                                                                         *)
(* A range is rounded to blocks, and each block but the last ends inside   *)
(* the row: the block that is read for a pair of values has the pixels of  *)
(* its places, of which Extremes keeps the least and the greatest.  Tiles  *)
(* are those of the present channel wherever no image cache is filled.     *)
(***************************************************************************)

\* A multiple is no less than that of a smaller number.
LEMMA MultiplesAscend ==
    ASSUME NEW i \in Int, NEW j \in Int, NEW b \in Nat, i <= j
    PROVE  i * b \in Int /\ j * b \in Int /\ i * b <= j * b
<1>1. (j - i) * b >= 0
  OBVIOUS
<1>2. (j - i) * b = j * b - i * b
  OBVIOUS
<1> QED BY <1>1, <1>2

\* The first multiple of b from a on.
LEMMA CeilIs ==
    ASSUME NEW a \in Nat, NEW b \in Nat \ {0}
    PROVE  /\ Ceil(a, b) \in Nat /\ Ceil(a, b) * b \in Int
           /\ a <= Ceil(a, b) * b /\ Ceil(a, b) * b < a + b
BY DEF Ceil

LEMMA CeilOrder ==
    ASSUME NEW a \in Nat, NEW b \in Nat \ {0}, NEW i \in Int
    PROVE  Ceil(a, b) <= i <=> a <= i * b
<1> DEFINE c == Ceil(a, b)
<1>1. c \in Nat /\ c * b \in Int /\ a <= c * b /\ c * b < a + b
  BY CeilIs
<1> HIDE DEF c
<1>2. ASSUME c <= i PROVE a <= i * b
  BY <1>1, <1>2, MultiplesAscend
<1>3. ASSUME i < c PROVE i * b < a
  <2>1. i + 1 <= c /\ i + 1 \in Int
    BY <1>1, <1>3
  <2>2. (i + 1) * b <= c * b
    BY <1>1, <2>1, MultiplesAscend
  <2>3. (i + 1) * b = i * b + b
    OBVIOUS
  <2> QED BY <1>1, <2>2, <2>3
<1>4. i * b \in Int
  OBVIOUS
<1> QED BY <1>1, <1>2, <1>3, <1>4 DEF c

LEMMA CeilAscends ==
    ASSUME NEW a \in Nat, NEW d \in Nat, NEW b \in Nat \ {0}, a <= d
    PROVE  Ceil(a, b) <= Ceil(d, b)
<1>1. Ceil(d, b) \in Int /\ d <= Ceil(d, b) * b /\ Ceil(d, b) * b \in Int
  BY CeilIs
<1>2. a <= Ceil(d, b) * b
  BY <1>1
<1> QED BY <1>1, <1>2, CeilOrder

\* Some of the pixels of a row have a least and a greatest value.
LEMMA LeastPixel ==
    ASSUME NEW n \in Nat, NEW v \in [1..n -> Int], NEW T, T \subseteq 1..n, T # {}
    PROVE  \E i \in T : \A j \in T : v[i] <= v[j]
<1> DEFINE G == {m \in 0..n : \/ \A j \in T : j > m
                              \/ \E i \in T : i <= m /\ \A j \in T : j <= m => v[i] <= v[j]}
<1>1. 0 \in G
  OBVIOUS
<1>2. ASSUME NEW m \in 0..n - 1, m \in G PROVE m + 1 \in G
  <2>1. m + 1 \in 0..n /\ \A j \in T : j <= m + 1 <=> j <= m \/ j = m + 1
    OBVIOUS
  <2>2. CASE m + 1 \notin T
    <3>1. \A j \in T : j <= m + 1 <=> j <= m
      BY <2>1, <2>2
    <3>2. CASE \A j \in T : j > m
      <4>1. \A j \in T : j > m + 1
        BY <2>1, <2>2, <3>2
      <4> QED BY <2>1, <4>1
    <3>3. CASE \E i \in T : i <= m /\ \A j \in T : j <= m => v[i] <= v[j]
      <4>1. PICK i \in T : i <= m /\ \A j \in T : j <= m => v[i] <= v[j]
        BY <3>3
      <4>2. i <= m + 1 /\ \A j \in T : j <= m + 1 => v[i] <= v[j]
        BY <3>1, <4>1
      <4> QED BY <2>1, <4>2
    <3> QED BY <1>2, <3>2, <3>3
  <2>3. CASE m + 1 \in T /\ \A j \in T : j > m
    <3>1. \A j \in T : j <= m + 1 => v[m + 1] <= v[j]
      BY <2>3
    <3> QED BY <2>1, <2>3, <3>1
  <2>4. CASE m + 1 \in T /\ \E i \in T : i <= m /\ \A j \in T : j <= m => v[i] <= v[j]
    <3>1. PICK i \in T : i <= m /\ \A j \in T : j <= m => v[i] <= v[j]
      BY <2>4
    <3>2. v[i] \in Int /\ v[m + 1] \in Int /\ \A j \in T : v[j] \in Int
      BY <2>4
    <3>3. CASE v[i] <= v[m + 1]
      <4>1. i <= m + 1 /\ \A j \in T : j <= m + 1 => v[i] <= v[j]
        BY <2>1, <3>1, <3>3
      <4> QED BY <2>1, <4>1
    <3>4. CASE v[m + 1] < v[i]
      <4>1. \A j \in T : j <= m + 1 => v[m + 1] <= v[j]
        BY <2>1, <3>1, <3>2, <3>4
      <4> QED BY <2>1, <2>4, <4>1
    <3> QED BY <3>2, <3>3, <3>4
  <2> QED BY <1>2, <2>2, <2>3, <2>4
<1>3. n \in G
  <2>1. n \in 0..n
    OBVIOUS
  <2>2. 0..n \subseteq G
    <3> HIDE DEF G
    <3> QED BY <1>1, <1>2, InductionTo
  <2> QED BY <2>1, <2>2
<1>4. \A j \in T : j <= n /\ ~(j > n)
  OBVIOUS
<1> QED BY <1>3, <1>4

LEMMA GreatestPixel ==
    ASSUME NEW n \in Nat, NEW v \in [1..n -> Int], NEW T, T \subseteq 1..n, T # {}
    PROVE  \E i \in T : \A j \in T : v[i] >= v[j]
<1> DEFINE w == [i \in 1..n |-> 0 - v[i]]
<1>1. w \in [1..n -> Int] /\ \A i \in T : w[i] = 0 - v[i] /\ v[i] \in Int
  OBVIOUS
<1> HIDE DEF w
<1>2. PICK i \in T : \A j \in T : w[i] <= w[j]
  BY <1>1, LeastPixel
<1>3. ASSUME NEW j \in T PROVE v[i] >= v[j]
  BY <1>1, <1>2
<1> QED BY <1>3

\* The first and second of what is kept of a block are its extremes, in the order
\* of the places in which they are first there.
Seen(block) == {i \in DOMAIN block : block[i] # NaNPixel}
InPlaceOrder(block, seen, a, b) ==
    \E i, j \in seen : /\ block[i] = a /\ block[j] = b /\ i <= j
                       /\ \A k \in seen : /\ block[k] >= Least(a, b)
                                          /\ block[k] <= a + b - Least(a, b)

LEMMA ExtremesAreKept ==
    ASSUME NEW n \in Nat, NEW block \in [1..n -> Int]
    PROVE  /\ Seen(block) = {} => Extremes(block) = <<NaNPixel, NaNPixel>>
           /\ Seen(block) # {} =>
                 InPlaceOrder(block, Seen(block), Extremes(block)[1], Extremes(block)[2])
<1> DEFINE seen == {i \in DOMAIN block : block[i] # NaNPixel}
           First(v) == CHOOSE i \in seen : block[i] = v /\ \A j \in seen : block[j] = v => i <= j
           min == CHOOSE v \in {block[i] : i \in seen} : \A j \in seen : v <= block[j]
           max == CHOOSE v \in {block[i] : i \in seen} : \A j \in seen : v >= block[j]
<1>2. Extremes(block) = IF seen = {} THEN <<NaNPixel, NaNPixel>>
                        ELSE IF First(min) < First(max) THEN <<min, max>> ELSE <<max, min>>
  BY Zenon DEF Extremes
<1>3. seen \subseteq 1..n /\ \A i \in seen : block[i] \in Int
  OBVIOUS
<1> HIDE DEF seen
<1>4. ASSUME seen # {}
      PROVE  /\ min \in {block[i] : i \in seen} /\ \A j \in seen : min <= block[j]
             /\ max \in {block[i] : i \in seen} /\ \A j \in seen : max >= block[j]
  <2>1. \E i \in seen : \A j \in seen : block[i] <= block[j]
    BY <1>3, <1>4, LeastPixel
  <2>2. \E v \in {block[i] : i \in seen} : \A j \in seen : v <= block[j]
    BY <2>1, Zenon
  <2>3. \E i \in seen : \A j \in seen : block[i] >= block[j]
    BY <1>3, <1>4, GreatestPixel
  <2>4. \E v \in {block[i] : i \in seen} : \A j \in seen : v >= block[j]
    BY <2>3, Zenon
  <2> QED BY <2>2, <2>4, Zenon
<1>5. ASSUME NEW v \in {block[i] : i \in seen} PROVE First(v) \in seen /\ block[First(v)] = v
  <2> DEFINE T == {i \in seen : block[i] = v}
  <2>1. T \subseteq 0..n /\ T # {}
    <3>1. PICK k \in seen : v = block[k]
      OBVIOUS
    <3>2. k \in T
      BY <3>1
    <3>3. 1..n \subseteq 0..n
      OBVIOUS
    <3>4. T \subseteq seen
      OBVIOUS
    <3> HIDE DEF T
    <3> QED BY <1>3, <3>2, <3>3, <3>4
  <2>2. PICK i \in T : \A j \in T : i <= j
    <3> HIDE DEF T
    <3> QED BY <2>1, LeastNumber
  <2>3. \E k \in seen : block[k] = v /\ \A j \in seen : block[j] = v => k <= j
    BY <2>2
  <2> QED BY <2>3, Zenon
<1> HIDE DEF First, min, max
<1>6. ASSUME seen # {}
      PROVE  InPlaceOrder(block, seen, Extremes(block)[1], Extremes(block)[2])
  <2>1. /\ First(min) \in seen /\ block[First(min)] = min /\ First(max) \in seen /\ block[First(max)] = max
    BY <1>4, <1>5, <1>6
  <2>2. min \in Int /\ max \in Int /\ First(min) \in Int /\ First(max) \in Int
    <3>1. \A i \in seen : i \in Int /\ block[i] \in Int
      BY <1>3
    <3> QED BY <2>1, <3>1, Zenon
  <2>3. \A j \in seen : min <= block[j] /\ block[j] <= max /\ min <= max
    <3>1. ASSUME NEW j \in seen PROVE min <= block[j] /\ block[j] <= max /\ min <= max
      BY <1>3, <1>4, <1>6, <2>1, <2>2
    <3> QED BY <3>1
  <2>4. /\ Least(min, max) = min /\ min + max - Least(min, max) = max
        /\ Least(max, min) = min /\ max + min - Least(max, min) = max
    BY <2>1, <2>2, <2>3 DEF Least
  <2>5. CASE First(min) < First(max)
    <3>1. Extremes(block)[1] = min /\ Extremes(block)[2] = max
      BY <1>2, <1>6, <2>5
    <3>2. \A k \in seen : block[k] >= Least(min, max) /\ block[k] <= min + max - Least(min, max)
      BY <1>3, <2>2, <2>3, <2>4
    <3>3. First(min) <= First(max)
      BY <2>2, <2>5
    <3> QED BY <2>1, <3>1, <3>2, <3>3, Zenon DEF InPlaceOrder
  <2>6. CASE ~(First(min) < First(max))
    <3>1. Extremes(block)[1] = max /\ Extremes(block)[2] = min
      BY <1>2, <1>6, <2>6
    <3>2. \A k \in seen : block[k] >= Least(max, min) /\ block[k] <= max + min - Least(max, min)
      BY <1>3, <2>2, <2>3, <2>4
    <3>3. First(max) <= First(min)
      BY <2>2, <2>6
    <3> QED BY <2>1, <3>1, <3>2, <3>3, Zenon DEF InPlaceOrder
  <2> QED BY <2>5, <2>6
<1>7. seen = Seen(block)
  BY DEF Seen, seen
<1> QED BY <1>2, <1>6, <1>7
\* Pixels start to end - 1 of the row as they are read.
SpatialTypes ==
    /\ profile_image \in ProfileImages
    /\ profile_z \in ProfileZ /\ profile_stokes \in 0..profile_image.num_stokes - 1 \cup {Plinear}
    /\ tile_of \in ProfileZ \X (0..profile_image.num_stokes - 1)
    /\ cache_filled \in BOOLEAN

LEMMA ImageFacts ==
    ASSUME SpatialTypes
    PROVE  /\ profile_image.length \in Nat /\ profile_image.length >= 1 /\ profile_image.num_stokes \in Nat
           /\ profile_image.num_stokes <= 13 /\ profile_image.mips \subseteq Nat \ {0}
           /\ \A name \in DOMAIN profile_image.stokes :
                 profile_image.stokes[name] \in 0..profile_image.num_stokes - 1
           /\ profile_image.row \in DOMAIN ProfileRows
           /\ ProfileRows[profile_image.row] \in Seq(Int)
           /\ profile_image.length <= Len(ProfileRows[profile_image.row])
           /\ profile_z \in Int /\ profile_stokes \in Int
           /\ tile_of[1] \in Int /\ tile_of[2] \in Int /\ tile_of[2] # Plinear
           /\ tile_of = <<tile_of[1], tile_of[2]>>
<1>1. profile_image \in ProfileImages
  BY DEF SpatialTypes
<1>2. /\ profile_image.row \in DOMAIN ProfileRows
      /\ profile_image.length \in 1..Len(ProfileRows[profile_image.row])
      /\ profile_image.mips \subseteq Nat \ {0}
      /\ profile_image.num_stokes \in 1..13
      /\ \A name \in DOMAIN profile_image.stokes :
            profile_image.stokes[name] \in 0..profile_image.num_stokes - 1
  BY <1>1, ProfileImagesAssumption, Zenon
<1>3. ProfileRows[profile_image.row] \in Seq(Int)
  BY <1>2, ProfileRowsAssumption, Zenon
<1>4. profile_z \in Int /\ profile_stokes \in Int
  <2> DEFINE S == 0..profile_image.num_stokes - 1
  <2>1. profile_z \in ProfileZ /\ profile_stokes \in S \cup {Plinear}
    BY Zenon DEF SpatialTypes
  <2>2. S \subseteq Int
    BY <1>2
  <2> HIDE DEF S
  <2> QED BY <2>1, <2>2, ProfileZAssumption DEF Plinear
<1>5. tile_of[1] \in ProfileZ /\ tile_of[2] \in 0..profile_image.num_stokes - 1
      /\ tile_of = <<tile_of[1], tile_of[2]>>
  <2> DEFINE S == 0..profile_image.num_stokes - 1
  <2>1. tile_of \in ProfileZ \X S
    BY DEF SpatialTypes
  <2> HIDE DEF S
  <2>2. tile_of[1] \in ProfileZ /\ tile_of[2] \in S /\ tile_of = <<tile_of[1], tile_of[2]>>
    BY <2>1
  <2> QED BY <2>2 DEF S
<1>6. profile_image.length \in Nat /\ profile_image.length >= 1 /\ profile_image.num_stokes \in Nat /\ profile_image.num_stokes <= 13
      /\ profile_image.length <= Len(ProfileRows[profile_image.row])
  <2> DEFINE pixels == Len(ProfileRows[profile_image.row])
             length == profile_image.length
             stokes == profile_image.num_stokes
  <2>1. length \in 1..pixels /\ stokes \in 1..13
    BY <1>2, Zenon
  <2>2. pixels \in Nat
    BY <1>3
  <2> HIDE DEF pixels, length, stokes
  <2>3. length \in Nat /\ length >= 1 /\ stokes \in Nat /\ stokes <= 13 /\ length <= pixels
    BY <2>1, <2>2
  <2> QED BY <2>3, Zenon DEF pixels, length, stokes
<1>7. tile_of[1] \in Int /\ tile_of[2] \in Int /\ tile_of[2] # Plinear
  BY <1>5, <1>6, ProfileZAssumption DEF Plinear
<1> QED BY <1>2, <1>3, <1>4, <1>5, <1>6, <1>7

LEMMA PixelIsNumber ==
    ASSUME SpatialTypes, NEW z \in Int, NEW s \in Int, NEW i \in 0..profile_image.length - 1
    PROVE  Pixel(z, s, i) \in Int
<1>1. /\ ProfileRows[profile_image.row] \in Seq(Int) /\ profile_image.length \in Nat
      /\ profile_image.length <= Len(ProfileRows[profile_image.row])
  BY ImageFacts
<1>2. i + 1 \in 1..Len(ProfileRows[profile_image.row])
  BY <1>1
<1>3. ProfileRows[profile_image.row][i + 1] \in Int
  BY <1>1, <1>2
<1> DEFINE pixel == ProfileRows[profile_image.row][i + 1]
<1>4. Pixel(z, s, i) = IF pixel = NaNPixel THEN NaNPixel ELSE pixel + 20 * z + 100 * s
  BY Zenon DEF Pixel
<1>5. pixel \in Int
  BY <1>3
<1> HIDE DEF pixel
<1> QED BY <1>4, <1>5 DEF NaNPixel

LEMMA SentPixelIsNumber ==
    ASSUME SpatialTypes, NEW s \in Int, NEW i \in 0..profile_image.length - 1
    PROVE  SentPixel(s, i) \in Int
<1>1. profile_z \in Int /\ tile_of[1] \in Int /\ tile_of[2] \in Int
  BY ImageFacts
<1>2. Pixel(profile_z, s, i) \in Int /\ Pixel(tile_of[1], tile_of[2], i) \in Int
  BY <1>1, PixelIsNumber
<1> QED BY <1>2, Zenon DEF SentPixel

\* What is read are the pixels of the channel and the polarization, or of the
\* channel the tiles are of.
LEMMA ReadPixelsAreSent ==
    ASSUME SpatialTypes, NEW s, NEW start \in Int, NEW end \in Int
    PROVE  ReadPixels(s, start, end) = [k \in 1..end - start |-> SentPixel(s, start + k - 1)]
<1>1. CASE StaleTiles(s)
  <2>1. ReadPixels(s, start, end) = Pixels(tile_of[1], tile_of[2], start, end)
    BY <1>1, Zenon DEF ReadPixels, StaleTiles
  <2>2. \A i : SentPixel(s, i) = Pixel(tile_of[1], tile_of[2], i)
    BY <1>1, Zenon DEF SentPixel
  <2> QED BY <2>1, <2>2, Zenon DEF Pixels
<1>2. CASE ~StaleTiles(s)
  <2>1. \A i : SentPixel(s, i) = Pixel(profile_z, s, i)
    BY <1>2, Zenon DEF SentPixel
  <2>2. ReadPixels(s, start, end) = Pixels(profile_z, s, start, end)
    <3>1. CASE s = profile_stokes /\ UsesTiles
      <4>1. tile_of = <<profile_z, s>>
        BY <1>2, <3>1, Zenon DEF StaleTiles
      <4>2. tile_of[1] = profile_z /\ tile_of[2] = s
        BY <4>1
      <4> QED BY <3>1, <4>2, Zenon DEF ReadPixels
    <3>2. CASE ~(s = profile_stokes /\ UsesTiles)
      BY <3>2, Zenon DEF ReadPixels
    <3> QED BY <3>1, <3>2
  <2> QED BY <2>1, <2>2, Zenon DEF Pixels
<1> QED BY <1>1, <1>2

\* Block k of a profile of n pixels, of m from q on, is kept in its two entries.
EntriesFit(n, pixels, mip, size, k, q, m, part, kept) ==
    /\ n \in Nat /\ pixels \in [1..n -> Int] /\ mip \in Nat \ {0} /\ size \in Nat /\ k \in Nat
    /\ 2 * k + 2 <= size /\ q \in Nat /\ q = 2 * mip * k /\ m \in Nat /\ q + m <= n
    /\ Least(2 * mip * (k + 1), n) = q + m
    /\ part = [j \in 1..m |-> pixels[q + j]] /\ kept = Decimate(pixels, mip, size)

LEMMA EntriesOfBlock ==
    ASSUME NEW n, NEW pixels, NEW mip, NEW size, NEW k, NEW q, NEW m, NEW part, NEW kept,
           EntriesFit(n, pixels, mip, size, k, q, m, part, kept)
    PROVE  /\ n # 1 => kept[2 * k + 1] = Extremes(part)[1] /\ kept[2 * k + 2] = Extremes(part)[2]
           /\ n = 1 /\ k = 0 => kept[1] = Extremes(part)[1] /\ kept[2] = 0
<1>0. /\ n \in Nat /\ pixels \in [1..n -> Int] /\ mip \in Nat \ {0} /\ size \in Nat /\ k \in Nat
      /\ 2 * k + 2 <= size /\ q \in Nat /\ q = 2 * mip * k /\ m \in Nat /\ q + m <= n
      /\ Least(2 * mip * (k + 1), n) = q + m
      /\ part = [j \in 1..m |-> pixels[q + j]] /\ kept = Decimate(pixels, mip, size)
  BY DEF EntriesFit
<1> DEFINE block == [j \in 1..m |-> pixels[q + j]]
           Block(l) == SubSeq(pixels, 2 * mip * l + 1, Least(2 * mip * (l + 1), Len(pixels)))
           Entry(i) == IF i > Len(pixels) /\ Len(pixels) = 1 THEN 0
                       ELSE Extremes(Block((i - 1) \div 2))[1 + ((i - 1) % 2)]
<1>1. Len(pixels) = n /\ pixels \in Seq(Int)
  BY <1>0
<1>2. Block(k) = block
  <2>1. 2 * mip * k + 1 = q + 1 /\ Least(2 * mip * (k + 1), Len(pixels)) = q + m
    BY <1>0, <1>1
  <2>2. Block(k) = SubSeq(pixels, q + 1, q + m)
    BY <2>1, Zenon
  <2>3. q + 1 \in Int /\ q + m \in Int /\ \A i \in q + 1..q + m : pixels[i] \in Int
    <3>1. /\ pixels \in [1..n -> Int] /\ q \in Nat /\ m \in Nat /\ q + m <= n /\ n \in Nat
      BY <1>0
    <3>2. \A i \in q + 1..q + m : i \in 1..n
      BY <3>1
    <3> QED BY <3>1, <3>2
  <2> DEFINE sub == SubSeq(pixels, q + 1, q + m)
  <2>4. sub \in Seq(Int) /\ Len(sub) = (IF q + 1 <= q + m THEN (q + m) - (q + 1) + 1 ELSE 0)
        /\ \A i \in 1..(q + m) - (q + 1) + 1 : sub[i] = pixels[(q + 1) + i - 1]
    BY <2>3, SubSeqProperties
  <2> HIDE DEF sub
  <2>5. sub \in [1..m -> Int] /\ \A i \in 1..m : sub[i] = pixels[q + i]
    <3>1. Len(sub) = m
      BY <1>0, <2>4
    <3>2. sub \in [1..m -> Int]
      BY <1>0, <2>4, <3>1
    <3>3. ASSUME NEW i \in 1..m PROVE sub[i] = pixels[q + i]
      <4>1. i \in 1..(q + m) - (q + 1) + 1 /\ (q + 1) + i - 1 = q + i
        BY <1>0
      <4> QED BY <2>4, <4>1
    <3> QED BY <3>2, <3>3
  <2>6. sub = block
    BY <1>0, <2>5
  <2> QED BY <2>2, <2>6 DEF sub
<1>3. kept = [i \in 1..size |-> Entry(i)]
  BY <1>0, Zenon DEF Decimate
<1> HIDE DEF Block, block
<1>4. 2 * k + 1 \in 1..size /\ 2 * k + 2 \in 1..size
  BY <1>0
<1>5. /\ ((2 * k + 1) - 1) \div 2 = k /\ ((2 * k + 1) - 1) % 2 = 0
      /\ ((2 * k + 2) - 1) \div 2 = k /\ ((2 * k + 2) - 1) % 2 = 1
  BY <1>0
<1>6. ASSUME n # 1 PROVE kept[2 * k + 1] = Extremes(block)[1] /\ kept[2 * k + 2] = Extremes(block)[2]
  <2>1. \A i : Entry(i) = Extremes(Block((i - 1) \div 2))[1 + ((i - 1) % 2)]
    BY <1>1, <1>6
  <2> HIDE DEF Entry
  <2>2. kept[2 * k + 1] = Entry(2 * k + 1) /\ kept[2 * k + 2] = Entry(2 * k + 2)
    BY <1>3, <1>4
  <2>3. Entry(2 * k + 1) = Extremes(Block(k))[1 + 0] /\ Entry(2 * k + 2) = Extremes(Block(k))[1 + 1]
    BY <1>5, <2>1
  <2> QED BY <1>2, <2>2, <2>3
<1>7. ASSUME n = 1, k = 0 PROVE kept[1] = Extremes(block)[1] /\ kept[2] = 0
  <2>1. Entry(1) = Extremes(Block((1 - 1) \div 2))[1 + ((1 - 1) % 2)] /\ Entry(2) = 0
    BY <1>1, <1>7
  <2>2. (1 - 1) \div 2 = k /\ 1 + ((1 - 1) % 2) = 1
    BY <1>7
  <2> HIDE DEF Entry
  <2>3. 1 \in 1..size /\ 2 \in 1..size
    BY <1>0, <1>7
  <2>4. kept[1] = Entry(1) /\ kept[2] = Entry(2)
    BY <1>3, <2>3
  <2>5. Entry(1) = Extremes(Block(k))[1]
    BY <2>1, <2>2
  <2> QED BY <1>2, <2>1, <2>4, <2>5
<1> QED BY <1>0, <1>6, <1>7 DEF block
\* What is asked of a profile.
AskedOf(c) ==
    /\ c.start \in Nat /\ c.end \in Nat /\ c.mip \in Nat /\ (c.end = 0 \/ c.start < c.end) /\ Askable(c)
    /\ c.mip >= 2 /\ HasMip(2) => {c.mip \div n : n \in {1, 2, 4, 8}} \cap profile_image.mips # {}

LEMMA RangeIsInRow ==
    ASSUME SpatialTypes, NEW c, AskedOf(c)
    PROVE  /\ c.start \in Nat /\ c.mip \in Nat /\ RequestedEnd(c) \in Nat
           /\ c.start < RequestedEnd(c) /\ RequestedEnd(c) <= profile_image.length
<1>1. profile_image.length \in Nat
  BY ImageFacts
<1> QED BY <1>1 DEF AskedOf, Askable, RequestedEnd

LEMMA DoubledMip ==
    ASSUME NEW u \in Int, NEW mip \in Int
    PROVE  2 * u * mip = u * (2 * mip) /\ u * (2 * mip) \in Int
OBVIOUS

\* A range is rounded up to blocks.
LEMMA RoundedRange ==
    ASSUME SpatialTypes, NEW c, AskedOf(c), c.mip >= 2,
           NEW block \in Nat, block = 2 * c.mip,
           NEW first, first = Ceil(c.start, block), NEW last, last = Ceil(RequestedEnd(c), block)
    PROVE  /\ first \in Nat /\ last \in Nat /\ first <= last
           /\ first * block \in Nat /\ last * block \in Nat /\ c.start <= first * block
           /\ first * block < c.start + block /\ RequestedEnd(c) <= last * block
           /\ RoundedStart(c) = first * block
           /\ RoundedEnd(c) = Least(last * block, profile_image.length)
           /\ \A b \in first..last - 1 : b * block \in Nat /\ b * block < RequestedEnd(c)
<1>1. /\ c.start \in Nat /\ c.mip \in Nat /\ RequestedEnd(c) \in Nat
      /\ c.start < RequestedEnd(c) /\ RequestedEnd(c) <= profile_image.length
  BY RangeIsInRow
<1>2. block \in Nat \ {0}
  BY <1>1
<1>3. first \in Nat /\ first * block \in Int /\ c.start <= first * block /\ first * block < c.start + block
  BY <1>1, <1>2, CeilIs
<1>4. last \in Nat /\ last * block \in Int /\ RequestedEnd(c) <= last * block
  BY <1>1, <1>2, CeilIs
<1>5. first <= last
  BY <1>1, <1>2, CeilAscends
<1>6. RoundedStart(c) = first * block
  <2>1. RoundedStart(c) = 2 * first * c.mip
    BY Zenon DEF RoundedStart
  <2> QED BY <1>1, <1>3, <2>1, DoubledMip
<1>7. RoundedEnd(c) = Least(last * block, profile_image.length)
  <2>1. RoundedEnd(c) = Least(2 * last * c.mip, profile_image.length)
    BY Zenon DEF RoundedEnd
  <2>2. 2 * last * c.mip = last * block
    BY <1>1, <1>4, DoubledMip
  <2> QED BY <2>1, <2>2, Zenon
<1>8. ASSUME NEW b \in first..last - 1 PROVE b * block \in Nat /\ b * block < RequestedEnd(c)
  <2>1. b \in Int /\ ~(last <= b) /\ first <= b
    BY <1>3, <1>4
  <2>2. ~(RequestedEnd(c) <= b * block)
    BY <1>1, <1>2, <2>1, CeilOrder
  <2>3. first * block <= b * block /\ b * block \in Int
    BY <1>2, <1>3, <2>1, MultiplesAscend
  <2> QED BY <1>1, <1>3, <2>2, <2>3
<1>9. first * block \in Nat /\ last * block \in Nat
  BY <1>1, <1>3, <1>4
<1> QED BY <1>3, <1>4, <1>5, <1>6, <1>7, <1>8, <1>9

\* A range is only cut short at the end of the row.
LEMMA CutShortAtTheEnd ==
    ASSUME SpatialTypes, NEW c, AskedOf(c), CutShort(RoundedStart(c), RoundedEnd(c))
    PROVE  c.mip >= 2 /\ profile_image.length - c.start < 2 * c.mip
<1>1. /\ c.start \in Nat /\ c.mip \in Nat /\ RequestedEnd(c) \in Nat
      /\ c.start < RequestedEnd(c) /\ RequestedEnd(c) <= profile_image.length
  BY RangeIsInRow
<1>2. c.mip >= 2
  <2>1. ASSUME ~(c.mip >= 2) PROVE FALSE
    BY <1>1, <2>1 DEF CutShort, RoundedStart, RoundedEnd
  <2> QED BY <2>1
<1> DEFINE block == 2 * c.mip
           first == Ceil(c.start, block)
           last == Ceil(RequestedEnd(c), block)
<1>3. block \in Nat
  BY <1>1
<1> HIDE DEF first, last
<1>4. /\ first \in Nat /\ last \in Nat /\ first <= last
      /\ first * block \in Nat /\ last * block \in Nat /\ c.start <= first * block
      /\ first * block < c.start + block /\ RequestedEnd(c) <= last * block
      /\ RoundedStart(c) = first * block
      /\ RoundedEnd(c) = Least(last * block, profile_image.length)
  BY <1>2, <1>3, RoundedRange DEF first, last
<1>5. first * block <= last * block
  BY <1>3, <1>4, MultiplesAscend
<1>6. profile_image.length \in Nat
  BY ImageFacts
<1> DEFINE S == first * block
           E == last * block
<1>7. /\ S \in Nat /\ E \in Nat /\ S < c.start + block /\ S <= E
      /\ S > Least(E, profile_image.length)
  BY <1>4, <1>5 DEF CutShort
<1> HIDE DEF S, E
<1> QED BY <1>1, <1>2, <1>6, <1>7 DEF Least

\* What Extremes keeps of the pixels from a to z is a pair of theirs.
LEMMA ExtremesArePair ==
    ASSUME SpatialTypes, NEW s \in Int, NEW a \in Nat, NEW z \in Nat, a <= z, z < profile_image.length,
           NEW block, block = [j \in 1..z - a + 1 |-> SentPixel(s, a + j - 1)]
    PROVE  /\ PairOfBlock(s, a, z, Extremes(block)[1], Extremes(block)[2])
           /\ a = z => Extremes(block)[1] = SentPixel(s, a)
<1> DEFINE n == z - a + 1
           there == {i \in a..z : SentPixel(s, i) # NaNPixel}
           x == Extremes(block)[1]
           y == Extremes(block)[2]
<1>1. n \in Nat /\ \A j \in 1..n : a + j - 1 \in a..z /\ a + j - 1 \in 0..profile_image.length - 1
  <2>1. profile_image.length \in Nat
    BY ImageFacts
  <2> QED BY <2>1
<1>2. \A j \in 1..n : SentPixel(s, a + j - 1) \in Int
  BY <1>1, SentPixelIsNumber
<1>3. block \in [1..n -> Int] /\ \A j \in 1..n : block[j] = SentPixel(s, a + j - 1)
  BY <1>2
<1>4. /\ Seen(block) = {} => Extremes(block) = <<NaNPixel, NaNPixel>>
      /\ Seen(block) # {} => InPlaceOrder(block, Seen(block), x, y)
  BY <1>1, <1>3, ExtremesAreKept
<1>5. \A j : j \in Seen(block) <=> j \in 1..n /\ SentPixel(s, a + j - 1) # NaNPixel
  BY <1>3 DEF Seen
<1>6. \A i \in there : i - a + 1 \in Seen(block) /\ block[i - a + 1] = SentPixel(s, i)
  <2>1. ASSUME NEW i \in there PROVE i - a + 1 \in Seen(block) /\ block[i - a + 1] = SentPixel(s, i)
    <3>1. i - a + 1 \in 1..n /\ a + (i - a + 1) - 1 = i
      OBVIOUS
    <3> QED BY <1>3, <1>5, <3>1
  <2> QED BY <2>1
<1>7. \A j \in Seen(block) : a + j - 1 \in there /\ block[j] = SentPixel(s, a + j - 1)
  BY <1>1, <1>3, <1>5
<1>8. CASE Seen(block) = {}
  <2>1. there = {}
    BY <1>6, <1>8
  <2>2. x = NaNPixel /\ y = NaNPixel
    BY <1>4, <1>8
  <2>3. PairOfBlock(s, a, z, x, y)
    BY <2>1, <2>2, Zenon DEF PairOfBlock
  <2>4. a = z => x = SentPixel(s, a)
    <3>1. ASSUME a = z PROVE SentPixel(s, a) = NaNPixel
      <4>1. a \in a..z
        BY <3>1
      <4> QED BY <2>1, <4>1
    <3> QED BY <2>2, <3>1
  <2> QED BY <2>3, <2>4
<1>9. CASE Seen(block) # {}
  <2>1. PICK i, j \in Seen(block) :
               /\ block[i] = x /\ block[j] = y /\ i <= j
               /\ \A k \in Seen(block) : /\ block[k] >= Least(x, y)
                                         /\ block[k] <= x + y - Least(x, y)
    BY <1>4, <1>9, Zenon DEF InPlaceOrder
  <2> HIDE DEF there, x, y
  <2>2. /\ a + i - 1 \in there /\ SentPixel(s, a + i - 1) = x
        /\ a + j - 1 \in there /\ SentPixel(s, a + j - 1) = y
    BY <1>7, <2>1
  <2>3. a + i - 1 <= a + j - 1
    <3>1. i \in Int /\ j \in Int
      BY <1>5
    <3> QED BY <2>1, <3>1
  <2>4. \A k \in there : SentPixel(s, k) >= Least(x, y) /\ SentPixel(s, k) <= x + y - Least(x, y)
    BY <1>6, <2>1, Zenon
  <2>5. PairOfBlock(s, a, z, x, y)
    <3>1. there # {}
      BY <2>2
    <3> QED BY <2>2, <2>3, <2>4, <3>1, Zenon DEF PairOfBlock, there
  <2>6. a = z => x = SentPixel(s, a)
    <3>1. ASSUME a = z PROVE a + i - 1 = a
      BY <1>5, <3>1
    <3> QED BY <2>2, <3>1
  <2> QED BY <2>5, <2>6 DEF x, y
<1> QED BY <1>8, <1>9

LEMMA LeastIs ==
    ASSUME NEW x \in Int, NEW y \in Int
    PROVE  /\ Least(x, y) \in Int /\ Least(x, y) <= x /\ Least(x, y) <= y
           /\ (Least(x, y) = x \/ Least(x, y) = y)
BY DEF Least

\* Where a block from a to end - 1 is in a range from S to E - 1 of a row.
BlockFits(length, block, S, top, a, E, end) ==
    /\ length \in Nat /\ block \in Nat /\ S \in Nat /\ top \in Nat /\ a \in Nat
    /\ block >= 4 /\ S <= a /\ a < length /\ a + block <= top /\ top < length + block
    /\ E = Least(top, length) /\ end = Least(a + block, length)

\* A block from a of a range from S to E, which is cut off where the row ends.
LEMMA BlockInRow ==
    ASSUME NEW length, NEW block, NEW S, NEW top, NEW a, NEW E, NEW end,
           BlockFits(length, block, S, top, a, E, end)
    PROVE  /\ end \in Nat /\ a < end /\ end <= length /\ E \in Nat /\ S < E /\ E <= length /\ end <= E
           /\ Least(a - S + block, E - S) = end - S
           /\ E - S = 1 => a = end - 1 /\ a = S /\ top = S + block
<1> USE DEF BlockFits
<1>1. E \in Int /\ E <= top /\ E <= length /\ (E = top \/ E = length)
  BY LeastIs
<1>2. end \in Int /\ end <= a + block /\ end <= length /\ (end = a + block \/ end = length)
  BY LeastIs
<1>3. end \in Nat /\ a < end /\ end <= length /\ E \in Nat /\ S < E /\ E <= length /\ end <= E
  BY <1>1, <1>2
<1>4. Least(a - S + block, E - S) = end - S
  BY <1>1, <1>2 DEF Least
<1>5. E - S = 1 => a = end - 1 /\ a = S /\ top = S + block
  BY <1>1, <1>2
<1> QED BY <1>3, <1>4, <1>5

LEMMA MultiplesApart ==
    ASSUME NEW i \in Int, NEW j \in Int, NEW b \in Nat \ {0}, j * b = i * b + b
    PROVE  j = i + 1
<1>1. (i + 1) * b = j * b /\ i + 1 \in Int /\ j + 1 \in Int /\ i + 2 \in Int
      /\ (i + 2) * b = (i + 1) * b + b /\ (j + 1) * b = j * b + b /\ j * b \in Int
  OBVIOUS
<1>2. ASSUME i + 2 <= j PROVE FALSE
  <2>1. (i + 2) * b <= j * b
    BY <1>1, <1>2, MultiplesAscend
  <2> QED BY <1>1, <2>1
<1>3. ASSUME j + 1 <= i + 1 PROVE FALSE
  <2>1. (j + 1) * b <= (i + 1) * b
    BY <1>1, <1>3, MultiplesAscend
  <2> QED BY <1>1, <2>1
<1> QED BY <1>2, <1>3

\* Where block b, from a to z, is in a row and in a profile from S to E - 1.
BlockAt(length, block, first, last, b, S, E, a, z, q) ==
    /\ a \in Nat /\ z \in Nat /\ a <= z /\ z < length /\ z - a + 1 \in Nat /\ q \in Nat /\ E - S \in Nat
    /\ S \in Nat /\ E \in Nat /\ E <= length /\ q = a - S /\ q = block * (b - first)
    /\ q + (z - a + 1) <= E - S /\ Least(block * (b - first + 1), E - S) = q + (z - a + 1)
    /\ E - S = 1 => a = z /\ b = first /\ last = first + 1

\* Where block b of a reduced profile is in the row and in the profile.
LEMMA BlockOfRange ==
    ASSUME NEW length \in Nat, NEW block \in Nat, block >= 4, NEW first \in Nat, NEW last \in Nat,
           NEW b \in first..last - 1, b * block < length, last * block < length + block
    PROVE  BlockAt(length, block, first, last, b, first * block, Least(last * block, length),
                   b * block, Least(b * block + block, length) - 1, block * (b - first))
<1> DEFINE S == first * block
           top == last * block
           E == Least(top, length)
           a == b * block
           end == Least(a + block, length)
           q == block * (b - first)
<1>1. S \in Nat /\ top \in Nat /\ a \in Nat /\ block \in Nat \ {0} /\ b \in Nat /\ b + 1 \in Nat
  OBVIOUS
<1>2. S <= a
  <2>1. first <= b /\ first \in Int /\ b \in Int
    OBVIOUS
  <2> QED BY <1>1, <2>1, MultiplesAscend
<1>3. a + block <= top
  <2>1. b + 1 <= last /\ b + 1 \in Int /\ last \in Int
    OBVIOUS
  <2>2. (b + 1) * block <= last * block
    BY <1>1, <2>1, MultiplesAscend
  <2>3. (b + 1) * block = b * block + block
    BY <1>1
  <2> QED BY <2>2, <2>3
<1>4. q = a - S /\ block * (b - first + 1) = q + block
  BY <1>1
<1>5. a < length /\ top < length + block
  OBVIOUS
<1>6. a = S => b = first
  <2>1. ASSUME a = S, first + 1 <= b PROVE FALSE
    <3>1. (first + 1) * block <= b * block
      BY <1>1, <2>1, MultiplesAscend
    <3>2. (first + 1) * block = first * block + block
      OBVIOUS
    <3> QED BY <1>1, <2>1, <3>1, <3>2
  <2> QED BY <2>1
<1>7. top = S + block => last = first + 1
  BY <1>1, MultiplesApart
<1> HIDE DEF S, top, a, q
<1> HIDE DEF E, end
<1>8. /\ end \in Nat /\ a < end /\ end <= length /\ E \in Nat /\ S < E /\ E <= length /\ end <= E
      /\ Least(a - S + block, E - S) = end - S
      /\ E - S = 1 => a = end - 1 /\ a = S /\ top = S + block
  <2>1. E = Least(top, length) /\ end = Least(a + block, length)
    BY DEF E, end
  <2>2. /\ length \in Nat /\ block \in Nat /\ S \in Nat /\ top \in Nat /\ a \in Nat
        /\ block >= 4 /\ S <= a /\ a < length /\ a + block <= top /\ top < length + block
    BY <1>1, <1>2, <1>3, <1>5
  <2>3. BlockFits(length, block, S, top, a, E, end)
    BY <2>1, <2>2 DEF BlockFits
  <2> QED BY <2>3, BlockInRow
<1>9. /\ end - 1 \in Nat /\ a <= end - 1 /\ end - 1 < length /\ (end - 1) - a + 1 \in Nat
      /\ q \in Nat /\ E - S \in Nat /\ q + ((end - 1) - a + 1) <= E - S
      /\ q + ((end - 1) - a + 1) = end - S
      /\ (E - S = 1 => a = end - 1 /\ b = first /\ last = first + 1)
  <2>1. q = a - S
    BY <1>4
  <2> QED BY <1>1, <1>2, <1>6, <1>7, <1>8, <2>1
<1>10. Least(block * (b - first + 1), E - S) = q + ((end - 1) - a + 1)
  <2>1. block * (b - first + 1) = a - S + block
    BY <1>1, <1>4
  <2> QED BY <1>8, <1>9, <2>1
<1>11. BlockAt(length, block, first, last, b, S, E, a, end - 1, q)
  <2>1. q = block * (b - first)
    BY DEF q
  <2> QED BY <1>1, <1>4, <1>8, <1>9, <1>10, <2>1 DEF BlockAt
<1> QED BY <1>11 DEF S, top, a, q, E, end

\* Of pixels S to E - 1, two for each block are kept.
KeptOf(s, mip, block, first, last, S, E, pixels, kept) ==
    /\ mip \in Nat \ {0} /\ block \in Nat /\ 2 * mip = block /\ first \in Nat /\ last \in Nat /\ first <= last
    /\ pixels = [k \in 1..E - S |-> SentPixel(s, S + k - 1)]
    /\ kept = Decimate(pixels, mip, 2 * (last - first))

\* The two entries of a block of a reduced profile are its extremes.
LEMMA ReducedBlock ==
    ASSUME SpatialTypes, NEW s \in Int, NEW mip, NEW block, NEW first, NEW last, NEW b \in first..last - 1,
           NEW S, NEW E, NEW a, NEW z, NEW q, NEW pixels, NEW kept,
           BlockAt(profile_image.length, block, first, last, b, S, E, a, z, q),
           KeptOf(s, mip, block, first, last, S, E, pixels, kept)
    PROVE  \/ PairOfBlock(s, a, z, kept[2 * (b - first) + 1], kept[2 * (b - first) + 1 + 1])
           \/ first = last - 1 /\ a = z /\ kept[1] = SentPixel(s, a) /\ kept[2] = 0
<1> DEFINE n == E - S
           m == z - a + 1
           t == b - first
           block1 == [j \in 1..m |-> pixels[q + j]]
<1>1. /\ a \in Nat /\ z \in Nat /\ a <= z /\ z < profile_image.length /\ m \in Nat /\ q \in Nat /\ n \in Nat
      /\ S \in Nat /\ E \in Nat /\ E <= profile_image.length /\ q = a - S
      /\ q + m <= n /\ Least(block * (t + 1), n) = q + m
      /\ n = 1 => a = z /\ b = first /\ last = first + 1
  BY DEF BlockAt
<1> DEFINE size == 2 * (last - first)
<1>2. t \in Nat /\ 2 * t + 2 <= size /\ size \in Nat
  BY DEF KeptOf
<1>3. pixels \in [1..n -> Int] /\ \A k \in 1..n : pixels[k] = SentPixel(s, S + k - 1)
  <2>1. ASSUME NEW k \in 1..n PROVE SentPixel(s, S + k - 1) \in Int
    <3>1. profile_image.length \in Nat
      BY ImageFacts
    <3>2. S + k - 1 \in 0..profile_image.length - 1
      BY <1>1, <3>1
    <3> QED BY <3>2, SentPixelIsNumber
  <2>2. pixels = [k \in 1..n |-> SentPixel(s, S + k - 1)]
    BY DEF KeptOf
  <2> HIDE DEF n
  <2> QED BY <2>1, <2>2
<1>4. block1 = [j \in 1..z - a + 1 |-> SentPixel(s, a + j - 1)]
  <2>1. ASSUME NEW j \in 1..m PROVE pixels[q + j] = SentPixel(s, a + j - 1)
    <3>1. q + j \in 1..n /\ S + (q + j) - 1 = a + j - 1
      BY <1>1
    <3> QED BY <1>3, <3>1
  <2> QED BY <2>1
<1>5. mip \in Nat \ {0} /\ q = 2 * mip * t /\ Least(2 * mip * (t + 1), n) = q + m
      /\ kept = Decimate(pixels, mip, size)
  <2>1. mip \in Nat \ {0} /\ 2 * mip = block /\ kept = Decimate(pixels, mip, size)
    BY DEF KeptOf
  <2>2. q = block * t /\ Least(block * (t + 1), n) = q + m
    BY DEF BlockAt
  <2> QED BY <2>1, <2>2
<1> HIDE DEF n, m, t, size
<1>6. /\ n # 1 => kept[2 * t + 1] = Extremes(block1)[1] /\ kept[2 * t + 2] = Extremes(block1)[2]
      /\ n = 1 /\ t = 0 => kept[1] = Extremes(block1)[1] /\ kept[2] = 0
  <2>1. EntriesFit(n, pixels, mip, size, t, q, m, block1, kept)
    BY <1>1, <1>2, <1>3, <1>5 DEF EntriesFit
  <2> QED BY <2>1, EntriesOfBlock
<1> HIDE DEF block1
<1>7. /\ PairOfBlock(s, a, z, Extremes(block1)[1], Extremes(block1)[2])
      /\ a = z => Extremes(block1)[1] = SentPixel(s, a)
  BY <1>1, <1>4, ExtremesArePair
<1>8. CASE n # 1
  <2>1. 2 * t + 1 + 1 = 2 * t + 2
    BY <1>2
  <2>2. PairOfBlock(s, a, z, kept[2 * t + 1], kept[2 * t + 1 + 1])
    BY <1>6, <1>7, <1>8, <2>1
  <2> QED BY <2>2 DEF t
<1>9. CASE n = 1
  <2>1. a = z /\ b = first /\ last = first + 1
    BY <1>1, <1>9
  <2>2. t = 0 /\ first = last - 1
    BY <2>1 DEF t
  <2> QED BY <1>6, <1>7, <1>9, <2>1, <2>2
<1> QED BY <1>8, <1>9

\* What is kept has two entries for each block.
LEMMA KeptEntries ==
    ASSUME NEW pixels, NEW mip, NEW size \in Nat, NEW kept, kept = Decimate(pixels, mip, size)
    PROVE  Len(kept) = size /\ DOMAIN kept = 1..size /\ (size = 2 => kept = <<kept[1], kept[2]>>)
<1> DEFINE Entry(i) == IF i > Len(pixels) /\ Len(pixels) = 1 THEN 0
                       ELSE Extremes(SubSeq(pixels, 2 * mip * ((i - 1) \div 2) + 1,
                                            Least(2 * mip * ((i - 1) \div 2 + 1), Len(pixels))))
                               [1 + ((i - 1) % 2)]
<1>1. Decimate(pixels, mip, size) = [i \in 1..size |-> Entry(i)]
  BY Zenon DEF Decimate
<1> HIDE DEF Entry
<1>2. kept = [i \in 1..size |-> Entry(i)]
  BY <1>1
<1> QED BY <1>2

\* Where there is no mipmap, a range of blocks is reduced to their extremes.
LEMMA ReducedAsAsked ==
    ASSUME SpatialTypes, NEW s \in Int, NEW c, AskedOf(c), c.mip >= 2,
           ~CutShort(RoundedStart(c), RoundedEnd(c)),
           NEW size, size = 2 * (Ceil(RequestedEnd(c), 2 * c.mip) - Ceil(c.start, 2 * c.mip)),
           NEW p, p.config = c, p.mip = c.mip,
           p.values = Decimate(ReadPixels(s, RoundedStart(c), RoundedEnd(c)), c.mip, size)
    PROVE  ProfileReduced(s, p)
<1> DEFINE block == 2 * c.mip
           first == Ceil(c.start, block)
           last == Ceil(RequestedEnd(c), block)
           S == first * block
           E == Least(last * block, profile_image.length)
           pixels == ReadPixels(s, S, E)
<1>1. /\ c.start \in Nat /\ c.mip \in Nat /\ RequestedEnd(c) \in Nat
      /\ c.start < RequestedEnd(c) /\ RequestedEnd(c) <= profile_image.length
      /\ profile_image.length \in Nat
  BY RangeIsInRow, ImageFacts
<1>2. block \in Nat /\ block >= 4 /\ c.mip \in Nat \ {0} /\ 2 * c.mip = block
  BY <1>1
<1> HIDE DEF block
<1> DEFINE f == first
           l == last
<1>3. f = Ceil(c.start, block) /\ l = Ceil(RequestedEnd(c), block)
  OBVIOUS
<1> HIDE DEF f, l
<1>4. /\ f \in Nat /\ l \in Nat /\ f <= l /\ f * block \in Nat /\ l * block \in Nat
      /\ RequestedEnd(c) <= l * block
      /\ RoundedStart(c) = f * block
      /\ RoundedEnd(c) = Least(l * block, profile_image.length)
      /\ \A b \in f..l - 1 : b * block \in Nat /\ b * block < RequestedEnd(c)
  <2>1. block = 2 * c.mip
    BY <1>2
  <2> QED BY <1>2, <1>3, <2>1, RoundedRange
<1>5. l * block < profile_image.length + block
  <2>1. Ceil(RequestedEnd(c), block) * block < RequestedEnd(c) + block
    BY <1>1, <1>2, CeilIs
  <2>2. l * block < RequestedEnd(c) + block
    BY <1>3, <2>1
  <2> DEFINE top == l * block
  <2>3. top \in Nat /\ top < RequestedEnd(c) + block
    BY <1>4, <2>2
  <2> HIDE DEF top
  <2>4. top < profile_image.length + block
    BY <1>1, <1>2, <2>3
  <2> QED BY <2>4 DEF top
<1>6. S = f * block /\ E = Least(l * block, profile_image.length)
      /\ RoundedStart(c) = S /\ RoundedEnd(c) = E /\ size = 2 * (l - f)
  BY <1>3, <1>4 DEF block
<1> HIDE DEF S, E, first, last
<1>7. S \in Int /\ E \in Int /\ size \in Nat
  <2> DEFINE top == l * block
             length == profile_image.length
  <2>1. top \in Int /\ length \in Int /\ E = Least(top, length)
    BY <1>1, <1>4, <1>6
  <2> HIDE DEF top, length
  <2>2. Least(top, length) \in Int
    BY <2>1, LeastIs
  <2>3. S \in Int /\ size \in Nat
    BY <1>4, <1>6
  <2> QED BY <2>1, <2>2, <2>3
<1>8. p.values = Decimate(pixels, c.mip, size)
      /\ pixels = [k \in 1..E - S |-> SentPixel(s, S + k - 1)]
  BY <1>6, <1>7, ReadPixelsAreSent
<1> HIDE DEF pixels
<1>9. Len(p.values) = size /\ (size = 2 => p.values = <<p.values[1], p.values[2]>>)
  BY <1>7, <1>8, KeptEntries
<1>10. ASSUME NEW b \in f..l - 1
       PROVE  LET a == block * b
                  z == Least(a + block, profile_image.length) - 1
                  k == 2 * (b - f) + 1
              IN \/ PairOfBlock(s, a, z, p.values[k], p.values[k + 1])
                 \/ f = l - 1 /\ a = z /\ p.values = <<SentPixel(s, a), 0>>
  <2> DEFINE a == block * b
             z == Least(a + block, profile_image.length) - 1
             q == block * (b - f)
  <2>1. block * b = b * block /\ b * block < profile_image.length
    <3>1. b * block \in Nat /\ b * block < RequestedEnd(c)
      BY <1>4
    <3>2. block * b = b * block
      BY <1>2, <1>4
    <3> QED BY <1>1, <3>1, <3>2
  <2>2. BlockAt(profile_image.length, block, f, l, b, f * block, Least(l * block, profile_image.length),
                b * block, Least(b * block + block, profile_image.length) - 1, block * (b - f))
    BY <1>1, <1>2, <1>4, <1>5, <2>1, BlockOfRange
  <2>3. BlockAt(profile_image.length, block, f, l, b, S, E, a, z, q)
    BY <1>6, <2>1, <2>2
  <2> DEFINE kept == p.values
  <2>4. q = block * (b - f) /\ kept = Decimate(pixels, c.mip, size)
    BY <1>8
  <2> HIDE DEF a, z, q, kept
  <2>5. \/ PairOfBlock(s, a, z, kept[2 * (b - f) + 1], kept[2 * (b - f) + 1 + 1])
        \/ f = l - 1 /\ a = z /\ kept[1] = SentPixel(s, a) /\ kept[2] = 0
    <3>1. KeptOf(s, c.mip, block, f, l, S, E, pixels, kept)
      <4>1. kept = Decimate(pixels, c.mip, 2 * (l - f))
        BY <1>6, <2>4
      <4> QED BY <1>2, <1>4, <1>8, <4>1 DEF KeptOf
    <3> QED BY <2>3, <3>1, ReducedBlock
  <2>6. ASSUME f = l - 1, kept[1] = SentPixel(s, a), kept[2] = 0
        PROVE  kept = <<SentPixel(s, a), 0>>
    <3>1. size = 2
      BY <1>4, <1>6, <2>6
    <3> QED BY <1>9, <2>6, <3>1 DEF kept
  <2> QED BY <2>5, <2>6, Zenon DEF a, z, kept
<1>11. f = Ceil(p.config.start, 2 * p.mip) /\ l = Ceil(RequestedEnd(p.config), 2 * p.mip)
       /\ block = 2 * p.mip
  BY <1>3 DEF block
<1>12. Len(p.values) = 2 * ((l - 1) - f + 1)
  BY <1>4, <1>6, <1>9
<1> QED BY <1>10, <1>11, <1>12, Zenon DEF ProfileReduced

\* The pixels of a mipmap are all those of the range, in their order.
LEMMA MipmapAsAsked ==
    ASSUME SpatialTypes, NEW s, NEW c, AskedOf(c), FromMipmap(s, c), NEW p \in GetDownsampled(s, c)
    PROVE  ProfileFromMipmap(s, p) /\ p.config = c
<1> DEFINE found == {c.mip \div n : n \in {1, 2, 4, 8}} \cap profile_image.mips
           mip == LoaderMip(c.mip)
           end == RequestedEnd(c)
           min == Ceil(c.start, mip)
           max == Ceil(end, mip)
           values == [k \in 1..max - min |-> MipPixel(profile_z, s, mip, min + k - 1)]
           length == profile_image.length
<1>1. /\ c.start \in Nat /\ c.mip \in Nat /\ end \in Nat
      /\ c.start < end /\ end <= length /\ length \in Nat /\ profile_image.mips \subseteq Nat \ {0}
  BY RangeIsInRow, ImageFacts
<1>2. found # {} /\ found \subseteq 0..c.mip
  <2>1. c.mip >= 2 /\ HasMip(2)
    BY DEF FromMipmap
  <2>2. found # {}
    BY <2>1 DEF AskedOf
  <2>3. {c.mip \div n : n \in {1, 2, 4, 8}} \subseteq 0..c.mip
    BY <1>1
  <2> QED BY <2>2, <2>3
<1>3. \E m \in found : \A other \in found : other <= m
  <2> HIDE DEF found
  <2> QED BY <1>1, <1>2, GreatestNumber
<1>4. mip \in found
  <2>1. mip = CHOOSE m \in found : \A other \in found : other <= m
    BY Zenon DEF LoaderMip
  <2> HIDE DEF mip, found
  <2> QED BY <1>3, <2>1, Zenon
<1>5. mip \in Nat \ {0} /\ mip <= c.mip /\ HasMip(mip)
  <2>1. mip \in 0..c.mip /\ mip \in profile_image.mips
    BY <1>2, <1>4
  <2> HIDE DEF mip, found
  <2> QED BY <1>1, <2>1 DEF HasMip
<1>6. p = [config |-> c, mip |-> mip, values |-> values]
  BY Zenon DEF GetDownsampled, Profile
<1>7. p.config = c /\ p.mip = mip /\ p.values = values
  BY <1>6
<1> HIDE DEF mip, found, end
<1>8. min \in Nat /\ max \in Nat /\ min <= max
  BY <1>1, <1>5, CeilIs, CeilAscends
<1>9. \A i \in Int : (min <= i <=> c.start <= i * mip) /\ (max <= i <=> end <= i * mip)
  BY <1>1, <1>5, CeilOrder
<1> DEFINE places == {i \in 0..length : c.start <= i * mip /\ i * mip < end}
<1> HIDE DEF min, max
<1>10. \A i : i \in places <=> i \in min..max - 1
  <2>1. ASSUME NEW i \in places PROVE i \in min..max - 1
    <3>1. i \in Int /\ c.start <= i * mip /\ i * mip < end /\ i * mip \in Int
      BY <1>1, <1>5
    <3>2. min <= i /\ ~(max <= i)
      BY <1>1, <1>9, <3>1
    <3> QED BY <1>8, <3>1, <3>2
  <2>2. ASSUME NEW i \in min..max - 1 PROVE i \in places
    <3>1. i \in Nat /\ min <= i /\ ~(max <= i)
      BY <1>8
    <3>2. c.start <= i * mip /\ ~(end <= i * mip) /\ i * mip \in Int
      BY <1>5, <1>9, <3>1
    <3>3. i <= i * mip
      BY <1>5, <3>1
    <3> QED BY <1>1, <3>1, <3>2, <3>3
  <2> QED BY <2>1, <2>2
<1> HIDE DEF places
<1>11. {values[k] : k \in DOMAIN values} = {MipPixel(profile_z, s, mip, i) : i \in places}
  <2>1. ASSUME NEW k \in DOMAIN values
        PROVE  values[k] \in {MipPixel(profile_z, s, mip, i) : i \in places}
    <3>1. k \in 1..max - min /\ min + k - 1 \in min..max - 1
      BY <1>8
    <3>2. values[k] = MipPixel(profile_z, s, mip, min + k - 1)
      BY <3>1
    <3> QED BY <1>10, <3>1, <3>2
  <2>2. ASSUME NEW i \in places
        PROVE  MipPixel(profile_z, s, mip, i) \in {values[k] : k \in DOMAIN values}
    <3>1. i - min + 1 \in 1..max - min /\ min + (i - min + 1) - 1 = i
      BY <1>8, <1>10
    <3>2. i - min + 1 \in DOMAIN values /\ values[i - min + 1] = MipPixel(profile_z, s, mip, i)
      BY <3>1
    <3> QED BY <3>2
  <2> QED BY <2>1, <2>2
<1>12. ASSUME NEW k \in DOMAIN values, NEW l \in DOMAIN values, k < l
       PROVE  values[k][4] < values[l][4]
  <2>1. k \in 1..max - min /\ l \in 1..max - min
    OBVIOUS
  <2>2. values[k][4] = min + k - 1 /\ values[l][4] = min + l - 1
    BY <2>1 DEF MipPixel
  <2> QED BY <1>8, <1>12, <2>1, <2>2
<1> HIDE DEF values
<1>13. places = {i \in 0..profile_image.length :
                    p.config.start <= i * p.mip /\ i * p.mip < RequestedEnd(p.config)}
  BY <1>7 DEF places, end
<1> QED BY <1>5, <1>7, <1>11, <1>12, <1>13, Zenon DEF ProfileFromMipmap

\* Other profiles are read whole.
LEMMA WholeAsAsked ==
    ASSUME SpatialTypes, NEW s, NEW c, AskedOf(c), NEW p, p.config = c, p.mip = c.mip,
           p.values = ReadPixels(s, RoundedStart(c), RoundedEnd(c))
    PROVE  ProfileWhole(s, p)
<1>1. RoundedStart(c) \in Int /\ RoundedEnd(c) \in Int
  <2>1. CASE c.mip >= 2
    <3> DEFINE block == 2 * c.mip
               first == Ceil(c.start, block)
               last == Ceil(RequestedEnd(c), block)
    <3>1. block \in Nat
      BY RangeIsInRow
    <3> HIDE DEF first, last
    <3>2. first * block \in Nat /\ last * block \in Nat /\ RoundedStart(c) = first * block
          /\ RoundedEnd(c) = Least(last * block, profile_image.length)
      BY <2>1, <3>1, RoundedRange DEF first, last
    <3> QED BY <3>2, ImageFacts DEF Least
  <2>2. CASE ~(c.mip >= 2)
    BY <2>2, RangeIsInRow DEF RoundedStart, RoundedEnd
  <2> QED BY <2>1, <2>2
<1>2. p.values = [k \in 1..RoundedEnd(c) - RoundedStart(c) |-> SentPixel(s, RoundedStart(c) + k - 1)]
  <2> DEFINE first == RoundedStart(c)
             last == RoundedEnd(c)
  <2>1. first \in Int /\ last \in Int /\ p.values = ReadPixels(s, first, last)
    BY <1>1
  <2> HIDE DEF first, last
  <2>2. ReadPixels(s, first, last) = [k \in 1..last - first |-> SentPixel(s, first + k - 1)]
    BY <2>1, ReadPixelsAreSent
  <2>3. p.values = [k \in 1..last - first |-> SentPixel(s, first + k - 1)]
    BY <2>1, <2>2, Zenon
  <2> QED BY <2>3 DEF first, last
<1>3. CASE c.mip >= 2
  BY <1>2, <1>3, Zenon DEF ProfileWhole
<1>4. CASE ~(c.mip >= 2)
  <2>1. RoundedStart(c) = c.start /\ RoundedEnd(c) = RequestedEnd(c)
    BY <1>4, Zenon DEF RoundedStart, RoundedEnd
  <2>2. p.values = [k \in 1..RequestedEnd(c) - c.start |-> SentPixel(s, c.start + k - 1)]
    BY <1>2, <2>1, Zenon
  <2> QED BY <1>4, <2>2, Zenon DEF ProfileWhole
<1> QED BY <1>3, <1>4

\* The index of a polarization the image has is one of its own.
LEMMA StokesIndex ==
    ASSUME SpatialTypes, NEW name
    PROVE  /\ GetStokesTypeIndex(name) \in Int
           /\ name \in DOMAIN profile_image.stokes \cup {CurrentStokes} =>
                 /\ GetStokesTypeIndex(name) # -1
                 /\ GetStokesTypeIndex(name) = Plinear => profile_stokes = Plinear
<1> DEFINE assumed == CASE name = "I" -> 0 [] name = "Q" -> 1 [] name = "U" -> 2 [] OTHER -> 3
           index == GetStokesTypeIndex(name)
           num == profile_image.num_stokes
<1>1. index = IF name = CurrentStokes THEN profile_stokes
              ELSE IF name \in DOMAIN profile_image.stokes THEN profile_image.stokes[name]
              ELSE IF name = "Plinear" THEN Plinear
              ELSE IF assumed < num THEN assumed ELSE -1
  BY Zenon DEF GetStokesTypeIndex
<1>2. assumed \in {0, 1, 2, 3}
  BY Zenon
<1>3. /\ num \in Nat /\ num <= 13 /\ profile_stokes \in Int
      /\ \A s \in DOMAIN profile_image.stokes : profile_image.stokes[s] \in 0..num - 1
  BY ImageFacts
<1>4. profile_stokes # -1
  BY <1>3 DEF SpatialTypes, Plinear
<1> HIDE DEF assumed, num, index
<1>5. CASE name = CurrentStokes
  BY <1>1, <1>3, <1>4, <1>5, Zenon DEF index
<1>6. CASE name # CurrentStokes /\ name \in DOMAIN profile_image.stokes
  <2>1. index = profile_image.stokes[name]
    BY <1>1, <1>6, Zenon
  <2>2. index \in 0..num - 1
    BY <1>3, <1>6, <2>1
  <2>3. index \in Int /\ index # -1 /\ index # Plinear
    BY <1>3, <2>2 DEF Plinear
  <2> QED BY <2>3, Zenon DEF index
<1>7. CASE name # CurrentStokes /\ name \notin DOMAIN profile_image.stokes
  <2>1. index \in {Plinear, assumed, -1}
    BY <1>1, <1>7, Zenon
  <2>2. index \in Int
    BY <1>2, <2>1 DEF Plinear
  <2> QED BY <1>7, <2>2, Zenon DEF index
<1> QED BY <1>5, <1>6, <1>7, Zenon

\* What is to hold of what was filled.
MessagesRight(data) ==
    IF data.aborted
    THEN \E i \in DOMAIN spatial_configs.configs :
            LET c == spatial_configs.configs[i]
            IN c.mip >= 2 /\ profile_image.length - c.start < 2 * c.mip
    ELSE /\ \A i \in DOMAIN spatial_configs.configs :
               LET c == spatial_configs.configs[i]
               IN \/ c.stokes \notin DOMAIN profile_image.stokes \cup {CurrentStokes}
                  \/ \E m \in data.messages : \E p \in m.profiles : p.config = c
         /\ \A m \in data.messages :
               /\ \/ m.value = Pixel(profile_z, m.stokes, spatial_configs.position)
                  \/ m.stokes = Plinear /\ ~Computable /\ m.value = 0
               /\ \A p \in m.profiles :
                     IF p.config.mip >= 2 /\ ~HasMip(2) THEN ProfileReduced(m.stokes, p)
                     ELSE IF FromMipmap(m.stokes, p.config) THEN ProfileFromMipmap(m.stokes, p)
                     ELSE ProfileWhole(m.stokes, p)

SpatialAsked ==
    \/ spatial_configs = NotAsked /\ spatial_data = NotFilled
    \/ /\ spatial_configs.position = profile_image.length - 1
       /\ spatial_configs.configs \in ProfileConfigs
       /\ \A i \in DOMAIN spatial_configs.configs : Askable(spatial_configs.configs[i])

DataTyped == spatial_data.done \in BOOLEAN /\ spatial_data.aborted \in BOOLEAN

SpatialIInv ==
    /\ SpatialTypes /\ SpatialAsked
    /\ profile_stokes = Plinear => Computable
    /\ ~cache_filled => tile_of = <<profile_z, profile_stokes>>
    /\ DataTyped
    /\ spatial_data.done => MessagesRight(spatial_data)

LEMMA ConfigsAreAsked ==
    ASSUME SpatialTypes, SpatialAsked, NEW i \in DOMAIN spatial_configs.configs, spatial_configs # NotAsked
    PROVE  AskedOf(spatial_configs.configs[i])
<1> DEFINE c == spatial_configs.configs[i]
<1>1. spatial_configs.configs \in ProfileConfigs /\ Askable(c)
  BY Zenon DEF SpatialAsked
<1>2. profile_image \in ProfileImages
  BY DEF SpatialTypes
<1>3. /\ c.start \in Nat /\ c.end \in Nat /\ c.mip \in Nat /\ (c.end = 0 \/ c.start < c.end)
      /\ c.mip >= 2 /\ 2 \in profile_image.mips =>
            {c.mip \div n2 : n2 \in {1, 2, 4, 8}} \cap profile_image.mips # {}
  BY <1>1, <1>2, ProfileConfigsAssumption, Zenon
<1> QED BY <1>1, <1>3, Zenon DEF AskedOf, HasMip

\* The value at the cursor is that of its pixel.
LEMMA CursorValueIsRight ==
    ASSUME SpatialIInv, NEW s
    PROVE  \/ CursorValue(s) = Pixel(profile_z, s, spatial_configs.position)
           \/ s = Plinear /\ ~Computable /\ CursorValue(s) = 0
<1>1. CASE s = profile_stokes /\ ~cache_filled
  <2>1. tile_of = <<profile_z, s>>
    BY <1>1, Zenon DEF SpatialIInv
  <2>2. tile_of[1] = profile_z /\ tile_of[2] = s
    BY <2>1
  <2> QED BY <1>1, <2>2, Zenon DEF CursorValue
<1>2. CASE ~(s = profile_stokes /\ ~cache_filled)
  BY <1>2, Zenon DEF CursorValue
<1> QED BY <1>1, <1>2

\* A profile that is filled is as it was asked for.
ProfileRight(s, p) ==
    IF p.config.mip >= 2 /\ ~HasMip(2) THEN ProfileReduced(s, p)
    ELSE IF FromMipmap(s, p.config) THEN ProfileFromMipmap(s, p)
    ELSE ProfileWhole(s, p)

LEMMA FilledProfileIsRight ==
    ASSUME SpatialTypes, NEW s \in Int, NEW c, AskedOf(c),
           FromMipmap(s, c) \/ ~CutShort(RoundedStart(c), RoundedEnd(c)), NEW p \in FillProfile(s, c)
    PROVE  p.config = c /\ ProfileRight(s, p)
<1>1. CASE FromMipmap(s, c)
  <2>1. p \in GetDownsampled(s, c)
    BY <1>1, Zenon DEF FillProfile
  <2>2. ProfileFromMipmap(s, p) /\ p.config = c
    BY <1>1, <2>1, MipmapAsAsked
  <2>3. HasMip(2)
    BY <1>1 DEF FromMipmap
  <2> QED BY <1>1, <2>2, <2>3, Zenon DEF ProfileRight
<1>2. CASE ~FromMipmap(s, c)
  <2> DEFINE start == RoundedStart(c)
             end == RoundedEnd(c)
             pixels == ReadPixels(s, start, end)
             size == 2 * (Ceil(RequestedEnd(c), 2 * c.mip) - Ceil(c.start, 2 * c.mip))
             values == IF c.mip >= 2 /\ ~HasMip(2) THEN Decimate(pixels, c.mip, size) ELSE pixels
  <2>1. p \in Profile(c, c.mip, values)
    <3>1. p \notin NoSuchProfile
      BY DEF NoSuchProfile
    <3> QED BY <1>2, <3>1, Zenon DEF FillProfile
  <2>2. p = [config |-> c, mip |-> c.mip, values |-> values]
    BY <2>1, Zenon DEF Profile
  <2> DEFINE v == values
  <2>3. v = values
    OBVIOUS
  <2> HIDE DEF v
  <2>4. p = [config |-> c, mip |-> c.mip, values |-> v]
    BY <2>2, <2>3, Zenon
  <2>5. p.config = c /\ p.mip = c.mip /\ p.values = v
    BY <2>4
  <2>6. CASE c.mip >= 2 /\ ~HasMip(2)
    <3> DEFINE z == size
    <3>1. v = Decimate(pixels, c.mip, z) /\ z = size
      BY <2>3, <2>6, Zenon
    <3> HIDE DEF z
    <3>2. ProfileReduced(s, p)
      BY <1>2, <2>5, <2>6, <3>1, ReducedAsAsked
    <3> QED BY <2>5, <2>6, <3>2, Zenon DEF ProfileRight
  <2>7. CASE ~(c.mip >= 2 /\ ~HasMip(2))
    <3>1. v = pixels
      BY <2>3, <2>7, Zenon
    <3>2. ProfileWhole(s, p)
      BY <2>5, <3>1, WholeAsAsked
    <3> QED BY <1>2, <2>5, <2>7, <3>2, Zenon DEF ProfileRight
  <2> QED BY <2>6, <2>7
<1> QED BY <1>1, <1>2

\* What FillSpatialProfileData fills.
IndexOfConfig(i) == GetStokesTypeIndex(spatial_configs.configs[i].stokes)
AskedConfigs == {i \in DOMAIN spatial_configs.configs : IndexOfConfig(i) # -1}
ConfigsOf(s) == {i \in AskedConfigs : IndexOfConfig(i) = s}
FilledStokes == IF spatial_configs.configs = <<>> THEN {profile_stokes} ELSE {IndexOfConfig(i) : i \in AskedConfigs}
FillThrows == \E s \in FilledStokes : \E i \in ConfigsOf(s) :
                 /\ ~FromMipmap(s, spatial_configs.configs[i])
                 /\ CutShort(RoundedStart(spatial_configs.configs[i]), RoundedEnd(spatial_configs.configs[i]))
FilledMessage(s) == [z |-> profile_z, stokes |-> s, value |-> CursorValue(s),
                     profiles |-> UNION {FillProfile(s, spatial_configs.configs[i]) : i \in ConfigsOf(s)}]
FilledMessages == IF FillThrows THEN {} ELSE {FilledMessage(s) : s \in FilledStokes}

LEMMA FilledAre ==
    FillSpatialProfileData <=>
       /\ spatial_configs # NotAsked /\ ~spatial_data.done
       /\ spatial_data' = [done |-> TRUE, aborted |-> FillThrows, messages |-> FilledMessages]
       /\ UNCHANGED <<profile_image, profile_z, profile_stokes, tile_of, cache_filled, spatial_configs>>
BY Zenon DEF FillSpatialProfileData, FilledMessages, FilledMessage, FillThrows, FilledStokes, ConfigsOf,
             AskedConfigs, IndexOfConfig

LEMMA FilledAsAsked ==
    ASSUME SpatialIInv, spatial_configs # NotAsked, NEW data, data.aborted <=> FillThrows,
           data.messages = FilledMessages
    PROVE  MessagesRight(data)
<1> DEFINE configs == spatial_configs.configs
<1>1. SpatialTypes /\ SpatialAsked
  BY DEF SpatialIInv
<1>2. \A i \in DOMAIN configs : AskedOf(configs[i])
  BY <1>1, ConfigsAreAsked
<1>3. \A i \in AskedConfigs : i \in DOMAIN configs
  BY Zenon DEF AskedConfigs
<1>4. CASE FillThrows
  <2>1. PICK s \in FilledStokes : \E i \in ConfigsOf(s) :
               CutShort(RoundedStart(configs[i]), RoundedEnd(configs[i]))
    BY <1>4, Zenon DEF FillThrows
  <2>11. PICK i \in ConfigsOf(s) : CutShort(RoundedStart(configs[i]), RoundedEnd(configs[i]))
    BY <2>1
  <2>2. i \in DOMAIN configs
    BY <1>3, Zenon DEF ConfigsOf
  <2> DEFINE c == configs[i]
  <2>3. AskedOf(c) /\ CutShort(RoundedStart(c), RoundedEnd(c))
    BY <1>2, <2>11, <2>2
  <2> HIDE DEF c
  <2>4. c.mip >= 2 /\ profile_image.length - c.start < 2 * c.mip
    BY <1>1, <2>3, CutShortAtTheEnd
  <2> QED BY <1>4, <2>2, <2>4, Zenon DEF MessagesRight, c
<1>5. CASE ~FillThrows
  <2>1. FilledMessages = {FilledMessage(s) : s \in FilledStokes}
    BY <1>5, Zenon DEF FilledMessages
  <2>2. ASSUME NEW s \in FilledStokes, NEW i \in ConfigsOf(s)
        PROVE  /\ s \in Int /\ s = IndexOfConfig(i) /\ i \in DOMAIN configs
               /\ FromMipmap(s, configs[i]) \/ ~CutShort(RoundedStart(configs[i]), RoundedEnd(configs[i]))
    <3>1. s = IndexOfConfig(i) /\ i \in DOMAIN configs
      BY <1>3, Zenon DEF ConfigsOf
    <3>2. IndexOfConfig(i) \in Int
      BY <1>1, StokesIndex DEF IndexOfConfig
    <3>3. FromMipmap(s, configs[i]) \/ ~CutShort(RoundedStart(configs[i]), RoundedEnd(configs[i]))
      BY <1>5, Zenon DEF FillThrows
    <3> QED BY <3>1, <3>2, <3>3
  <2>3. ASSUME NEW i \in DOMAIN configs, configs[i].stokes \in DOMAIN profile_image.stokes \cup {CurrentStokes}
        PROVE  \E m \in data.messages : \E p \in m.profiles : p.config = configs[i]
    <3> DEFINE s == IndexOfConfig(i)
    <3>1. s # -1 /\ (s = Plinear => profile_stokes = Plinear)
      BY <1>1, <2>3, StokesIndex DEF IndexOfConfig
    <3>2. i \in AskedConfigs /\ i \in ConfigsOf(s)
      BY <3>1, Zenon DEF AskedConfigs, ConfigsOf
    <3>3. s \in FilledStokes
      <4>1. configs # <<>>
        BY <2>3
      <4> QED BY <3>2, <4>1, Zenon DEF FilledStokes
    <3>4. FilledMessage(s) \in data.messages
      BY <2>1, <3>3, Zenon
    <3>5. ~(s = Plinear /\ ~Computable)
      BY <3>1 DEF SpatialIInv
    <3>6. \E p \in FillProfile(s, configs[i]) : p.config = configs[i]
      <4>1. \A mip, values : \E p \in Profile(configs[i], mip, values) : p.config = configs[i]
        BY DEF Profile
      <4>2. CASE FromMipmap(s, configs[i])
        BY <4>1, <4>2, Zenon DEF FillProfile, GetDownsampled
      <4>3. CASE ~FromMipmap(s, configs[i])
        BY <3>5, <4>1, <4>3, Zenon DEF FillProfile
      <4> QED BY <4>2, <4>3
    <3> HIDE DEF s
    <3>7. PICK p \in FillProfile(s, configs[i]) : p.config = configs[i]
      BY <3>6
    <3>8. p \in UNION {FillProfile(s, configs[j]) : j \in ConfigsOf(s)}
      BY <3>2, Zenon
    <3>9. p \in FilledMessage(s).profiles
      BY <3>8 DEF FilledMessage
    <3> QED BY <3>4, <3>7, <3>9, Zenon
  <2>4. ASSUME NEW m \in data.messages
        PROVE  /\ \/ m.value = Pixel(profile_z, m.stokes, spatial_configs.position)
                  \/ m.stokes = Plinear /\ ~Computable /\ m.value = 0
               /\ \A p \in m.profiles : ProfileRight(m.stokes, p)
    <3>1. PICK s \in FilledStokes : m = FilledMessage(s)
      BY <2>1
    <3>2. /\ m.stokes = s /\ m.value = CursorValue(s)
          /\ m.profiles = UNION {FillProfile(s, spatial_configs.configs[i]) : i \in ConfigsOf(s)}
      BY <3>1 DEF FilledMessage
    <3>3. \/ m.value = Pixel(profile_z, s, spatial_configs.position)
          \/ s = Plinear /\ ~Computable /\ m.value = 0
      BY <3>2, CursorValueIsRight
    <3>4. ASSUME NEW p \in m.profiles PROVE ProfileRight(s, p)
      <4>1. PICK i \in ConfigsOf(s) : p \in FillProfile(s, configs[i])
        BY <3>2, Zenon
      <4> DEFINE c == configs[i]
      <4>2. s \in Int /\ AskedOf(c) /\ (FromMipmap(s, c) \/ ~CutShort(RoundedStart(c), RoundedEnd(c)))
            /\ p \in FillProfile(s, c)
        BY <1>2, <2>2, <4>1
      <4> HIDE DEF c
      <4> QED BY <1>1, <4>2, FilledProfileIsRight
    <3> QED BY <3>2, <3>3, <3>4, Zenon
  <2> QED BY <1>5, <2>3, <2>4, Zenon DEF MessagesRight, ProfileRight
<1> QED BY <1>4, <1>5

\* What is right depends on the image, its channel, its tiles and what is asked.
LEMMA MessagesUnchanged ==
    ASSUME UNCHANGED <<profile_image, profile_z, profile_stokes, tile_of, spatial_configs>>, NEW data,
           spatial_data' = data
    PROVE  MessagesRight(spatial_data)' <=> MessagesRight(data)
BY DEF MessagesRight, Pixel, Computable, HasMip, FromMipmap, ProfileReduced, ProfileFromMipmap, ProfileWhole,
       PairOfBlock, SentPixel, StaleTiles, UsesTiles, RequestedEnd, RoundedStart, RoundedEnd, Ceil, Least,
       MipPixel, Plinear, NaNPixel

LEMMA SpatialInitially == SpatialProfilesInit => SpatialIInv
<1>1. SUFFICES ASSUME SpatialProfilesInit PROVE SpatialIInv
  OBVIOUS
<1> DEFINE low == CHOOSE z \in ProfileZ : \A y \in ProfileZ : z <= y
           S == 0..profile_image.num_stokes - 1
<1>2. low \in ProfileZ
  <2>1. PICK n \in ProfileZ : TRUE
    BY ProfileZAssumption
  <2> DEFINE T == {z \in ProfileZ : z <= n}
  <2>2. n \in Nat /\ T \subseteq 0..n /\ T # {}
    <3>1. n \in Nat /\ n <= n
      BY ProfileZAssumption
    <3>2. n \in T
      BY <3>1
    <3>3. \A z \in ProfileZ : z \in Nat
      BY ProfileZAssumption
    <3>4. ASSUME NEW z \in T PROVE z \in 0..n
      <4>1. z \in Nat /\ z <= n
        BY <3>3
      <4> QED BY <3>1, <4>1
    <3> HIDE DEF T
    <3> QED BY <3>1, <3>2, <3>4
  <2>3. PICK x \in T : \A y \in T : x <= y
    <3> HIDE DEF T
    <3> QED BY <2>2, LeastNumber
  <2>4. \A y \in ProfileZ : x <= y
    <3>1. ASSUME NEW y \in ProfileZ PROVE x <= y
      <4>1. x \in Nat /\ y \in Nat /\ n \in Nat /\ x <= n
        BY ProfileZAssumption
      <4>2. CASE y <= n
        BY <2>3, <4>2
      <4>3. CASE ~(y <= n)
        BY <4>1, <4>3
      <4> QED BY <4>2, <4>3
    <3> QED BY <3>1
  <2> QED BY <2>4
<1>3. profile_image \in ProfileImages /\ profile_z = low /\ profile_stokes = 0 /\ tile_of = <<profile_z, 0>>
      /\ cache_filled = ~(UsesTiles /\ HasMip(2)) /\ spatial_configs = NotAsked /\ spatial_data = NotFilled
  BY <1>1, Zenon DEF SpatialProfilesInit
<1>4. 0 \in S
  <2>1. profile_image.num_stokes \in 1..13
    BY <1>3, Zenon, ProfileImagesAssumption
  <2> QED BY <2>1
<1> HIDE DEF low, S
<1>5. tile_of \in ProfileZ \X S
  BY <1>2, <1>3, <1>4
<1>6. cache_filled \in BOOLEAN
  BY <1>3, Zenon
<1>7. SpatialTypes
  BY <1>2, <1>3, <1>4, <1>5, <1>6, Zenon DEF SpatialTypes, S
<1>8. SpatialAsked
  BY <1>3, Zenon DEF SpatialAsked
<1>9. spatial_data.done = FALSE /\ DataTyped
  <2>1. spatial_data.done = FALSE /\ spatial_data.aborted = FALSE
    BY <1>3, Zenon DEF NotFilled
  <2> QED BY <2>1, Zenon DEF DataTyped
<1>10. profile_stokes # Plinear
  BY <1>3 DEF Plinear
<1> QED BY <1>3, <1>7, <1>8, <1>9, <1>10, Zenon DEF SpatialIInv

LEMMA ChannelKeepsSpatial ==
    ASSUME SpatialIInv, NEW z \in ProfileZ, NEW s \in 0..profile_image.num_stokes - 1 \cup {Plinear},
           SetSpatialChannel(z, s)
    PROVE  SpatialIInv'
<1> DEFINE S == 0..profile_image.num_stokes - 1
           filled == ~(UsesTiles /\ HasMip(2)) \/ s = Plinear
<1>1. /\ SpatialTypes /\ SpatialAsked /\ (~cache_filled => tile_of = <<profile_z, profile_stokes>>)
  BY DEF SpatialIInv
<1>2. /\ spatial_configs = NotAsked /\ (s = Plinear => Computable)
      /\ profile_z' = z /\ profile_stokes' = s /\ cache_filled' = filled
      /\ tile_of' = (IF cache_filled' THEN tile_of ELSE <<z, s>>)
      /\ profile_image' = profile_image /\ spatial_configs' = spatial_configs /\ spatial_data' = spatial_data
  BY Zenon DEF SetSpatialChannel
<1>3. spatial_data = NotFilled
  <2>1. ~(spatial_configs.position = profile_image.length - 1)
    BY <1>1, <1>2, ImageFacts DEF NotAsked
  <2> QED BY <1>1, <2>1, Zenon DEF SpatialAsked
<1>4. SpatialAsked'
  BY <1>2, <1>3, Zenon DEF SpatialAsked
<1>5. spatial_data'.done = FALSE /\ DataTyped'
  <2>1. spatial_data'.done = FALSE /\ spatial_data'.aborted = FALSE
    BY <1>2, <1>3, Zenon DEF NotFilled
  <2> QED BY <2>1, Zenon DEF DataTyped
<1>6. Computable' <=> Computable
  BY <1>2, Zenon DEF Computable
<1>7. (~cache_filled => tile_of = <<profile_z, profile_stokes>>)'
  BY <1>2, Zenon
<1>8. tile_of' \in ProfileZ \X S
  <2>1. tile_of \in ProfileZ \X S
    BY <1>1, Zenon DEF SpatialTypes
  <2>2. CASE cache_filled'
    BY <1>2, <2>1, <2>2, Zenon
  <2>3. CASE ~cache_filled'
    <3>1. s # Plinear
      BY <1>2, <2>3, Zenon
    <3>2. s \in S
      BY <3>1
    <3>3. tile_of' = <<z, s>>
      BY <1>2, <2>3, Zenon
    <3> HIDE DEF S
    <3> QED BY <3>2, <3>3
  <2> QED BY <2>2, <2>3
<1>9. cache_filled' \in BOOLEAN
  BY <1>2, Zenon
<1>10. SpatialTypes'
  BY <1>1, <1>2, <1>8, <1>9, Zenon DEF SpatialTypes
<1> QED BY <1>2, <1>4, <1>5, <1>6, <1>7, <1>10, Zenon DEF SpatialIInv

LEMMA RequestKeepsSpatial ==
    ASSUME SpatialIInv, spatial_configs = NotAsked, NEW configs \in ProfileConfigs,
           \A i \in DOMAIN configs : Askable(configs[i]),
           SetCursorSpatialConfigs(profile_image.length - 1, configs)
    PROVE  SpatialIInv'
<1>1. SpatialTypes /\ SpatialAsked /\ (~cache_filled => tile_of = <<profile_z, profile_stokes>>)
      /\ (profile_stokes = Plinear => Computable)
  BY DEF SpatialIInv
<1>2. /\ spatial_configs' = [position |-> profile_image.length - 1, configs |-> configs]
      /\ profile_image' = profile_image /\ profile_z' = profile_z /\ profile_stokes' = profile_stokes
      /\ tile_of' = tile_of /\ cache_filled' = cache_filled /\ spatial_data' = spatial_data
  BY Zenon DEF SetCursorSpatialConfigs
<1>3. spatial_data = NotFilled
  <2>1. ~(spatial_configs.position = profile_image.length - 1)
    BY <1>1, ImageFacts DEF NotAsked
  <2> QED BY <1>1, <2>1, Zenon DEF SpatialAsked
<1>4. spatial_configs'.position = profile_image.length - 1 /\ spatial_configs'.configs = configs
  BY <1>2
<1>5. \A c : Askable(c)' <=> Askable(c)
  BY <1>2, Zenon DEF Askable
<1>6. SpatialAsked'
  BY <1>2, <1>4, <1>5, Zenon DEF SpatialAsked
<1>7. spatial_data'.done = FALSE /\ DataTyped'
  <2>1. spatial_data'.done = FALSE /\ spatial_data'.aborted = FALSE
    BY <1>2, <1>3, Zenon DEF NotFilled
  <2> QED BY <2>1, Zenon DEF DataTyped
<1>8. SpatialTypes'
  BY <1>1, <1>2, Zenon DEF SpatialTypes
<1>9. Computable' <=> Computable
  BY <1>2, Zenon DEF Computable
<1> QED BY <1>1, <1>2, <1>6, <1>7, <1>8, <1>9, Zenon DEF SpatialIInv

LEMMA FillKeepsSpatial ==
    ASSUME SpatialIInv, FillSpatialProfileData
    PROVE  SpatialIInv'
<1>1. SpatialTypes /\ SpatialAsked /\ (~cache_filled => tile_of = <<profile_z, profile_stokes>>)
      /\ (profile_stokes = Plinear => Computable)
  BY DEF SpatialIInv
<1>2. /\ spatial_configs # NotAsked /\ ~spatial_data.done
      /\ spatial_data' = [done |-> TRUE, aborted |-> FillThrows, messages |-> FilledMessages]
      /\ profile_image' = profile_image /\ profile_z' = profile_z /\ profile_stokes' = profile_stokes
      /\ tile_of' = tile_of /\ cache_filled' = cache_filled /\ spatial_configs' = spatial_configs
  BY FilledAre, Zenon
<1> DEFINE data == [done |-> TRUE, aborted |-> FillThrows, messages |-> FilledMessages]
<1>3. (data.aborted <=> FillThrows) /\ data.messages = FilledMessages /\ data.done = TRUE
  BY Zenon
<1>4. data.aborted \in BOOLEAN
  <2>1. data.aborted = FillThrows
    BY Zenon
  <2>2. FillThrows \in BOOLEAN
    BY Zenon DEF FillThrows
  <2> QED BY <2>1, <2>2, Zenon
<1> HIDE DEF data
<1>5. MessagesRight(data)
  BY <1>2, <1>3, FilledAsAsked
<1>6. MessagesRight(spatial_data)'
  <2>1. spatial_data' = data
    BY <1>2, Zenon DEF data
  <2>2. MessagesRight(spatial_data)' <=> MessagesRight(data)
    BY <1>2, <2>1, MessagesUnchanged
  <2> QED BY <1>5, <2>2
<1>7. DataTyped'
  BY <1>2, <1>3, <1>4, Zenon DEF data, DataTyped
<1>8. \A c : Askable(c)' <=> Askable(c)
  BY <1>2, Zenon DEF Askable
<1>9. SpatialAsked'
  BY <1>1, <1>2, <1>8, Zenon DEF SpatialAsked
<1>10. SpatialTypes'
  BY <1>1, <1>2, Zenon DEF SpatialTypes
<1>11. Computable' <=> Computable
  BY <1>2, Zenon DEF Computable
<1> QED BY <1>1, <1>2, <1>6, <1>7, <1>9, <1>10, <1>11, Zenon DEF SpatialIInv

LEMMA SentKeepsSpatial ==
    ASSUME SpatialIInv, SpatialDataSent
    PROVE  SpatialIInv'
<1>1. SpatialTypes /\ SpatialAsked /\ (~cache_filled => tile_of = <<profile_z, profile_stokes>>)
      /\ (profile_stokes = Plinear => Computable)
  BY DEF SpatialIInv
<1>2. /\ spatial_configs' = NotAsked /\ spatial_data' = NotFilled
      /\ profile_image' = profile_image /\ profile_z' = profile_z /\ profile_stokes' = profile_stokes
      /\ tile_of' = tile_of /\ cache_filled' = cache_filled
  BY Zenon DEF SpatialDataSent
<1>3. spatial_data'.done = FALSE /\ DataTyped'
  <2>1. spatial_data'.done = FALSE /\ spatial_data'.aborted = FALSE
    BY <1>2, Zenon DEF NotFilled
  <2> QED BY <2>1, Zenon DEF DataTyped
<1>4. SpatialTypes' /\ (Computable' <=> Computable) /\ SpatialAsked'
  BY <1>1, <1>2, Zenon DEF SpatialTypes, Computable, SpatialAsked
<1> QED BY <1>1, <1>2, <1>3, <1>4, Zenon DEF SpatialIInv

LEMMA StutterKeepsSpatial ==
    ASSUME SpatialIInv, UNCHANGED spatialVars
    PROVE  SpatialIInv'
<1> DEFINE data == spatial_data
<1>1. /\ UNCHANGED <<profile_image, profile_z, profile_stokes, tile_of, cache_filled, spatial_configs>>
      /\ spatial_data' = spatial_data /\ spatial_data' = data
  BY Zenon DEF spatialVars
<1> HIDE DEF data
<1>2. MessagesRight(spatial_data)' <=> MessagesRight(data)
  BY <1>1, MessagesUnchanged
<1>3. (MessagesRight(spatial_data)' <=> MessagesRight(spatial_data)) /\ (DataTyped' <=> DataTyped)
  BY <1>1, <1>2, Zenon DEF data, DataTyped
<1>4. \A c : Askable(c)' <=> Askable(c)
  BY <1>1, Zenon DEF Askable
<1>5. (SpatialTypes' <=> SpatialTypes) /\ (Computable' <=> Computable) /\ (SpatialAsked' <=> SpatialAsked)
  BY <1>1, <1>4, Zenon DEF SpatialTypes, Computable, SpatialAsked
<1> QED BY <1>1, <1>3, <1>5, Zenon DEF SpatialIInv

\* The invariant of what is filled for the cursor is inductive.
THEOREM SpatialProfilesInductive == SpatialProfilesSpec => []SpatialIInv
<1>1. SpatialIInv /\ [SpatialProfilesNext]_spatialVars => SpatialIInv'
  <2>1. SUFFICES ASSUME SpatialIInv, [SpatialProfilesNext]_spatialVars PROVE SpatialIInv'
    OBVIOUS
  <2>2. CASE \E z \in ProfileZ, s \in 0..profile_image.num_stokes - 1 \cup {Plinear} : SetSpatialChannel(z, s)
    BY <2>1, <2>2, ChannelKeepsSpatial
  <2>3. CASE /\ spatial_configs = NotAsked
             /\ \E configs \in ProfileConfigs :
                   /\ \A i \in DOMAIN configs : Askable(configs[i])
                   /\ SetCursorSpatialConfigs(profile_image.length - 1, configs)
    BY <2>1, <2>3, RequestKeepsSpatial
  <2>4. CASE FillSpatialProfileData
    BY <2>1, <2>4, FillKeepsSpatial
  <2>5. CASE SpatialDataSent
    BY <2>1, <2>5, SentKeepsSpatial
  <2>6. CASE UNCHANGED spatialVars
    BY <2>1, <2>6, StutterKeepsSpatial
  <2> QED BY <2>1, <2>2, <2>3, <2>4, <2>5, <2>6, Zenon DEF SpatialProfilesNext
<1> QED BY SpatialInitially, <1>1, PTL DEF SpatialProfilesSpec

\* Every profile asked for is there, with the pixels of its range: its blocks'
\* extremes in their order, those of the mipmap, or the pixels themselves; every
\* message has the value at the cursor; and nothing but a short range at the end
\* of the row ends the process.
THEOREM SpatialProfilesAreRight == SpatialProfilesSpec => []SpatialProfilesCorrect
<1>1. SpatialIInv => SpatialProfilesCorrect
  BY Zenon DEF SpatialIInv, MessagesRight, SpatialProfilesCorrect
<1> QED BY <1>1, SpatialProfilesInductive, PTL

\* The image, the channels, the requirements and what is filled have their types.
THEOREM SpatialProfilesTypeCorrect == SpatialProfilesSpec => []SpatialProfilesTypeOK
<1>1. SpatialIInv => SpatialProfilesTypeOK
  <2>1. SUFFICES ASSUME SpatialIInv PROVE SpatialProfilesTypeOK
    OBVIOUS
  <2>2. SpatialTypes /\ SpatialAsked /\ DataTyped
    BY <2>1, Zenon DEF SpatialIInv
  <2>3. spatial_configs.configs \in ProfileConfigs \cup {<<>>}
    BY <2>2 DEF SpatialAsked, NotAsked
  <2> QED BY <2>2, <2>3, Zenon DEF SpatialProfilesTypeOK, SpatialTypes, DataTyped
<1> QED BY <1>1, SpatialProfilesInductive, PTL
=============================================================================
