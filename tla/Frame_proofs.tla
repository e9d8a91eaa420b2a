---------------------------- MODULE Frame_proofs ----------------------------
(***************************************************************************)
(* Proofs about one file as it is viewed: the caches of its frame          *)
(* (FrameCache), and the requests for a channel and a cursor               *)
(* (ViewRequests).  They share no variable, and the two parts use nothing  *)
(* of each other.                                                          *)
(***************************************************************************)
EXTENDS FrameCache, ViewRequests, TLAPS

-----------------------------------------------------------------------------
(***************************************************************************)
(* Proofs about FrameCache, for any channels, tasks and kinds of loader.   *)
(*                                                                         *)
(* The cache follows the indices because whoever fills it does so for the  *)
(* current ones, and because the indices are only set by a setter that has *)
(* invalidated it.  Unless a fill is late no setter is between the two     *)
(* while the cache is valid or being filled: that is the strengthening.    *)
(***************************************************************************)

NoneAtIndex == \A s \in Setters : job[s].pc # "index"

\* What is in the cache, or is being read into it.
Current ==
    /\ cache_valid => cache_writer = "free"
    /\ ~late /\ cache_valid => cached = z_index /\ NoneAtIndex
    /\ ~late /\ cache_writer # "free" => job[cache_writer].data = z_index /\ NoneAtIndex

IInv == TypeOK /\ Current

-----------------------------------------------------------------------------
LEMMA NoJobType == NoJob \in Jobs
BY FirstChannelAssumption DEF NoJob, Jobs, SetterStates, WorkerStates, Resting

\* Effect of GotoWith on the jobs.
LEMMA GotoEffect ==
    ASSUME TypeOK, NEW a \in Actors, NEW state \in SetterStates \cup WorkerStates,
           NEW d \in Channels \cup {NoData}, GotoWith(a, state, d)
    PROVE  /\ \A b \in Actors : b # a => job'[b] = job[b]
           /\ job'[a].pc = state
           /\ state # "idle" => job'[a].data = d
           /\ job' \in [Actors -> Jobs]
<1>1. job'[a] = IF state = "idle" THEN NoJob
                ELSE [job[a] EXCEPT !.pc = state, !.data = d]
  BY DEF GotoWith, TypeOK
<1>2. job[a] \in Jobs
  BY DEF TypeOK
<1> DEFINE new == [job[a] EXCEPT !.pc = state, !.data = d]
<1>7. new \in Jobs /\ new.pc = state /\ new.data = d
  BY <1>2 DEF Jobs
<1>8. job'[a] = IF state = "idle" THEN NoJob ELSE new
  BY <1>1
<1> HIDE DEF new
<1>3. job'[a] \in Jobs
  BY <1>7, <1>8, NoJobType
<1>4. \A b \in Actors : b # a => job'[b] = job[b]
  BY DEF GotoWith, TypeOK
<1>5. job' \in [Actors -> Jobs]
  BY <1>3, <1>4 DEF GotoWith, TypeOK
<1>6. job'[a].pc = state /\ (state # "idle" => job'[a].data = d)
  BY <1>7, <1>8 DEF NoJob
<1> QED BY <1>4, <1>5, <1>6

-----------------------------------------------------------------------------
\* The parts of TypeOK that an action's job does and does not concern.
JobsOK ==
    /\ job \in [Actors -> Jobs]
    /\ \A s \in Setters : job[s].pc \in SetterStates
    /\ \A w \in Workers : job[w].pc \in WorkerStates
    /\ cache_writer \in Actors \cup {"free"}
    /\ \A a \in Actors : cache_writer = a <=> job[a].pc \in FillingStates

DataOK ==
    /\ loader \in Images
    /\ z_index \in Channels
    /\ cached \in Channels \cup {NoData}
    /\ cache_valid \in BOOLEAN
    /\ cache_sized \in BOOLEAN
    /\ tile_z \in Channels \cup {NoData}
    /\ stats \in [Channels -> Channels \cup {NoData, "none"}]
    /\ late \in BOOLEAN
    /\ failed \in BOOLEAN

LEMMA TypeParts == (TypeOK <=> JobsOK /\ DataOK) /\ (TypeOK' <=> JobsOK' /\ DataOK')
BY DEF TypeOK, JobsOK, DataOK

\* A state that an actor may be in.
MayBeIn(a, state) ==
    /\ a \in Setters => state \in SetterStates
    /\ a \in Workers => state \in WorkerStates

LEMMA StatesOf ==
    ASSUME NEW a \in Actors, NEW state, MayBeIn(a, state)
    PROVE  state \in SetterStates \cup WorkerStates
BY DEF MayBeIn, Actors

\* Steps of one job that have nothing to do with filling the cache, nor with
\* the indices.
LEMMA QuietStep ==
    ASSUME IInv, DataOK', NEW a \in Actors, NEW state, MayBeIn(a, state),
           \A b \in Actors : b # a => job'[b] = job[b],
           job' \in [Actors -> Jobs], job'[a].pc = state,
           state \notin FillingStates \cup {"index"}, job[a].pc \notin FillingStates,
           UNCHANGED <<z_index, cached, cache_valid, cache_writer>>,
           late => late'
    PROVE  IInv'
<1>1. JobsOK /\ Current
  BY TypeParts DEF IInv
<1>2. \A b \in Actors : cache_writer' = b <=> job'[b].pc \in FillingStates
  BY <1>1 DEF JobsOK
<1>3. JobsOK'
  BY <1>1, <1>2 DEF JobsOK, MayBeIn, Actors
<1>4. ~late' => ~late
  BY <1>1
<1>5. NoneAtIndex => NoneAtIndex'
  BY DEF NoneAtIndex, Actors
<1>6. cache_writer # "free" => job'[cache_writer] = job[cache_writer]
  BY <1>1 DEF JobsOK
<1>7. Current'
  BY <1>1, <1>4, <1>5, <1>6 DEF Current
<1> QED BY <1>3, <1>7, TypeParts DEF IInv

\* The same for the actions that end in Goto or GotoWith.
LEMMA QuietGoto ==
    ASSUME IInv, DataOK', NEW a \in Actors, NEW state, MayBeIn(a, state),
           NEW d \in Channels \cup {NoData}, GotoWith(a, state, d),
           state \notin FillingStates \cup {"index"}, job[a].pc \notin FillingStates,
           UNCHANGED <<z_index, cached, cache_valid, cache_writer>>,
           late => late'
    PROVE  IInv'
<1>1. TypeOK
  BY DEF IInv
<1>2. state \in SetterStates \cup WorkerStates
  BY StatesOf
<1>3. /\ \A b \in Actors : b # a => job'[b] = job[b]
      /\ job'[a].pc = state
      /\ job' \in [Actors -> Jobs]
  BY <1>1, <1>2, GotoEffect
<1> QED BY <1>3, QuietStep

LEMMA OwnData == ASSUME TypeOK, NEW a \in Actors PROVE job[a].data \in Channels \cup {NoData}
BY DEF TypeOK, Jobs

LEMMA InitOK == Init => IInv
<1> SUFFICES ASSUME Init PROVE IInv
  OBVIOUS
<1>1. \A a \in Actors : job[a] = NoJob
  BY DEF Init
<1>2. JobsOK
  BY <1>1, NoJobType, ActorsAssumption
     DEF Init, JobsOK, NoJob, SetterStates, WorkerStates, Resting, FillingStates, Actors
<1>3. DataOK
  BY FirstChannelAssumption DEF Init, DataOK
<1>4. Current
  BY <1>1 DEF Init, Current, NoneAtIndex, NoJob, Actors
<1> QED BY <1>2, <1>3, <1>4, TypeParts DEF IInv

-----------------------------------------------------------------------------
LEMMA BeginSetStep ==
    ASSUME IInv, NEW s \in Setters, NEW c \in Channels, BeginSet(s, c)
    PROVE  IInv'
<1>1. JobsOK /\ DataOK /\ Current
  BY TypeParts DEF IInv
<1>2. \A a \in Actors : job'[a].pc = IF a = s THEN "invalidate" ELSE job[a].pc
  BY <1>1 DEF BeginSet, JobsOK, Jobs, NoJob
<1>3. \A a \in Actors : a # s => job'[a].data = job[a].data
  BY <1>1 DEF BeginSet, JobsOK, Jobs, NoJob
<1>4. \A a \in Actors : job'[a] \in Jobs
  <2> SUFFICES ASSUME NEW a \in Actors PROVE job'[a] \in Jobs
    OBVIOUS
  <2>1. job[a] \in Jobs
    BY <1>1 DEF JobsOK
  <2>2. CASE a = s
    BY <2>2 DEF BeginSet, Jobs, NoJob, SetterStates
  <2>3. CASE a # s
    BY <2>1, <2>3 DEF BeginSet, Jobs
  <2> QED BY <2>2, <2>3
<1>5. DOMAIN job' = Actors /\ job' \in [Actors -> Jobs]
  BY <1>4 DEF BeginSet
<1>6. s \in Actors /\ job[s].pc = "idle" /\ s \notin Workers
  BY ActorsAssumption DEF BeginSet, Actors
<1>7. \A a \in Actors : cache_writer' = a <=> job'[a].pc \in FillingStates
  <2>1. cache_writer' = cache_writer
    BY DEF BeginSet
  <2>2. "invalidate" \notin FillingStates /\ job[s].pc \notin FillingStates
    BY <1>6 DEF FillingStates
  <2> QED BY <1>1, <1>2, <1>6, <2>1, <2>2 DEF JobsOK
<1>8. JobsOK'
  <2>1. \A a \in Setters : job'[a].pc \in SetterStates
    BY <1>1, <1>2 DEF JobsOK, SetterStates, Actors
  <2>2. \A w \in Workers : job'[w].pc \in WorkerStates
    BY <1>1, <1>2, <1>6 DEF JobsOK, Actors
  <2>3. cache_writer' \in Actors \cup {"free"}
    BY <1>1 DEF BeginSet, JobsOK
  <2> QED BY <1>5, <1>7, <2>1, <2>2, <2>3 DEF JobsOK
<1>9. DataOK'
  BY <1>1 DEF BeginSet, DataOK
<1>10. NoneAtIndex => NoneAtIndex'
  BY <1>2 DEF NoneAtIndex, Actors
<1>11. cache_writer # "free" => cache_writer \in Actors /\ cache_writer # s
  BY <1>1, <1>6 DEF JobsOK, FillingStates
<1>12. Current'
  BY <1>1, <1>3, <1>10, <1>11 DEF BeginSet, Current
<1> QED BY <1>8, <1>9, <1>12, TypeParts DEF IInv

LEMMA InvalidateStep ==
    ASSUME IInv, NEW s \in Setters, InvalidateImageCache(s)
    PROVE  IInv'
<1>1. TypeOK /\ JobsOK /\ DataOK /\ Current /\ s \in Actors
  BY TypeParts DEF IInv, Actors
<1>2. job[s].data \in Channels \cup {NoData} /\ "index" \in SetterStates \cup WorkerStates
  BY <1>1, OwnData DEF SetterStates
<1>3. /\ \A b \in Actors : b # s => job'[b] = job[b]
      /\ job'[s].pc = "index"
      /\ job' \in [Actors -> Jobs]
  BY <1>1, <1>2, GotoEffect DEF InvalidateImageCache, Goto
<1>4. cache_writer = "free" /\ cache_writer' = "free"
  BY DEF InvalidateImageCache, CanWrite, CanRead
<1>5. \A a \in Actors : cache_writer' = a <=> job'[a].pc \in FillingStates
  BY <1>1, <1>3, <1>4 DEF JobsOK, InvalidateImageCache, FillingStates
<1>6. JobsOK'
  BY <1>1, <1>3, <1>4, <1>5, ActorsAssumption DEF JobsOK, SetterStates, Actors
<1>7. DataOK'
  BY <1>1 DEF InvalidateImageCache, DataOK
<1>8. Current'
  BY <1>4 DEF InvalidateImageCache, Current
<1> QED BY <1>6, <1>7, <1>8, TypeParts DEF IInv

\* The indices change only while the cache is neither valid nor being filled,
\* unless a fill was late.
LEMMA SetIndexStep ==
    ASSUME IInv, NEW s \in Setters, SetIndex(s)
    PROVE  IInv'
<1>1. TypeOK /\ JobsOK /\ DataOK /\ Current /\ s \in Actors
  BY TypeParts DEF IInv, Actors
<1>2. PICK state \in {"reset", "fill"} : SetterGoto(s, state)
  BY DEF SetIndex
<1>3. \A a \in Actors : job'[a].pc = IF a = s THEN state ELSE job[a].pc
  BY <1>1, <1>2 DEF SetterGoto, JobsOK, Jobs
<1>4. \A a \in Actors : job'[a] \in Jobs
  <2> SUFFICES ASSUME NEW a \in Actors PROVE job'[a] \in Jobs
    OBVIOUS
  <2>1. job[a] \in Jobs /\ job[s] \in Jobs
    BY <1>1 DEF JobsOK
  <2>2. CASE a = s
    BY <1>2, <2>1, <2>2 DEF SetterGoto, Jobs, SetterStates
  <2>3. CASE a # s
    BY <1>2, <2>1, <2>3 DEF SetterGoto, Jobs
  <2> QED BY <2>2, <2>3
<1>5. job' \in [Actors -> Jobs]
  BY <1>2, <1>4 DEF SetterGoto
<1>6. s \notin Workers /\ job[s].pc = "index"
  BY ActorsAssumption DEF SetIndex
<1>7. \A a \in Actors : cache_writer' = a <=> job'[a].pc \in FillingStates
  BY <1>1, <1>3, <1>6 DEF SetIndex, JobsOK, FillingStates
<1>8. JobsOK'
  BY <1>1, <1>3, <1>5, <1>6, <1>7 DEF SetIndex, JobsOK, SetterStates, Actors
<1>9. job[s].z \in Channels
  BY <1>1 DEF JobsOK, Jobs
<1>10. DataOK'
  BY <1>1, <1>9 DEF SetIndex, DataOK
<1>11. ~NoneAtIndex
  BY <1>6 DEF NoneAtIndex
<1>12. Current'
  BY <1>1, <1>11 DEF SetIndex, Current
<1> QED BY <1>8, <1>10, <1>12, TypeParts DEF IInv

LEMMA ResetSteps ==
    ASSUME IInv, NEW s \in Setters, ReadIndex(s) \/ ResetTileCache(s)
    PROVE  IInv'
<1>1. TypeOK /\ DataOK /\ Current /\ s \in Actors /\ s \notin Workers
  BY TypeParts, ActorsAssumption DEF IInv, Actors
<1>2. CASE ReadIndex(s)
  <2>1. DataOK' /\ z_index \in Channels \cup {NoData}
    BY <1>1, <1>2 DEF ReadIndex, DataOK
  <2>2. MayBeIn(s, "resetting")
    BY <1>1 DEF MayBeIn, SetterStates
  <2>3. job[s].pc \notin FillingStates /\ "resetting" \notin FillingStates \cup {"index"}
    BY <1>2 DEF ReadIndex, FillingStates
  <2> QED BY <1>1, <1>2, <2>1, <2>2, <2>3, QuietGoto DEF ReadIndex
<1>3. CASE ResetTileCache(s)
  <2>1. job[s].pc \notin FillingStates /\ "idle" \notin FillingStates \cup {"index"}
    BY <1>3 DEF ResetTileCache, FillingStates
  <2>2. MayBeIn(s, "idle")
    BY <1>1 DEF MayBeIn, SetterStates
  <2>3. job[s].data \in Channels \cup {NoData}
    BY <1>1, OwnData
  <2>4. DataOK'
    BY <1>1, <1>3, <2>3 DEF ResetTileCache, DataOK
  <2> QED BY <1>1, <1>3, <2>1, <2>2, <2>3, <2>4, QuietGoto DEF ResetTileCache, Goto
<1> QED BY <1>2, <1>3

-----------------------------------------------------------------------------
LEMMA FillStatesOf ==
    ASSUME IInv, NEW a \in Actors, job[a].pc \in FillStates
    PROVE  /\ MayBeIn(a, Filling(a)) /\ Filling(a) \in FillingStates
           /\ \A ok \in BOOLEAN : MayBeIn(a, Filled(a, ok))
<1>1. JobsOK
  BY TypeParts DEF IInv
<1>2. CASE job[a].pc = "fill"
  <2>1. a \notin Workers
    BY <1>1, <1>2 DEF JobsOK, WorkerStates, Resting
  <2> QED BY <1>2, <2>1 DEF MayBeIn, Filling, Filled, FillingStates, SetterStates
<1>3. CASE job[a].pc = "contour fill"
  <2>1. a \notin Setters
    BY <1>1, <1>3 DEF JobsOK, SetterStates
  <2> QED BY <1>3, <2>1 DEF MayBeIn, Filling, Filled, FillingStates, WorkerStates, Resting
<1>4. CASE job[a].pc = "stats fill"
  <2>1. a \notin Setters
    BY <1>1, <1>4 DEF JobsOK, SetterStates
  <2> QED BY <1>4, <2>1 DEF MayBeIn, Filling, Filled, FillingStates, WorkerStates, Resting
<1> QED BY <1>2, <1>3, <1>4 DEF FillStates

LEMMA FillingStatesOf ==
    ASSUME IInv, NEW a \in Actors, job[a].pc \in FillingStates, NEW ok \in BOOLEAN
    PROVE  MayBeIn(a, Filled(a, ok)) /\ Filled(a, ok) \notin FillingStates \cup {"index"}
<1>1. JobsOK
  BY TypeParts DEF IInv
<1>2. CASE job[a].pc = "filling"
  <2>1. a \notin Workers
    BY <1>1, <1>2 DEF JobsOK, WorkerStates, Resting
  <2> QED BY <1>2, <2>1 DEF MayBeIn, Filled, FillingStates, SetterStates
<1>3. CASE job[a].pc = "contour filling"
  <2>1. a \notin Setters
    BY <1>1, <1>3 DEF JobsOK, SetterStates
  <2> QED BY <1>3, <2>1 DEF MayBeIn, Filled, FillingStates, WorkerStates, Resting
<1>4. CASE job[a].pc = "stats filling"
  <2>1. a \notin Setters
    BY <1>1, <1>4 DEF JobsOK, SetterStates
  <2> QED BY <1>4, <2>1 DEF MayBeIn, Filled, FillingStates, WorkerStates, Resting
<1> QED BY <1>2, <1>3, <1>4 DEF FillingStates

LEMMA FillFoundStep ==
    ASSUME IInv, NEW a \in Actors, FillFound(a)
    PROVE  IInv'
<1>1. TypeOK /\ DataOK
  BY TypeParts DEF IInv
<1>2. job[a].pc \in FillStates /\ job[a].pc \notin FillingStates
  BY DEF FillFound, FillStates, FillingStates
<1>3. MayBeIn(a, Filled(a, TRUE))
  BY <1>2, FillStatesOf
<1>4. Filled(a, TRUE) \notin FillingStates \cup {"index"}
  BY <1>2 DEF Filled, FillingStates, FillStates
<1>5. DataOK' /\ job[a].data \in Channels \cup {NoData}
  BY <1>1, OwnData DEF FillFound, DataOK
<1> QED BY <1>2, <1>3, <1>4, <1>5, QuietGoto DEF FillFound, Goto

LEMMA BeginFillStep ==
    ASSUME IInv, NEW a \in Actors, BeginFill(a)
    PROVE  IInv'
<1>1. TypeOK /\ JobsOK /\ DataOK /\ Current
  BY TypeParts DEF IInv
<1>2. job[a].pc \in FillStates
  BY DEF BeginFill
<1>3. MayBeIn(a, Filling(a)) /\ Filling(a) \in FillingStates
  BY <1>2, FillStatesOf
<1>4. z_index \in Channels \cup {NoData}
  BY <1>1 DEF DataOK
<1>5. Filling(a) \in SetterStates \cup WorkerStates /\ Filling(a) # "idle"
      /\ Filling(a) # "index"
  BY <1>3, StatesOf DEF FillingStates
<1>6. /\ \A b \in Actors : b # a => job'[b] = job[b]
      /\ job'[a].pc = Filling(a) /\ job'[a].data = z_index
      /\ job' \in [Actors -> Jobs]
  BY <1>1, <1>4, <1>5, GotoEffect DEF BeginFill
<1>7. cache_writer = "free" /\ cache_writer' = a /\ "free" \notin Actors
  BY ActorsAssumption DEF BeginFill, CanWrite, CanRead, Actors
<1>8. \A b \in Actors : cache_writer' = b <=> job'[b].pc \in FillingStates
  BY <1>1, <1>3, <1>6, <1>7 DEF JobsOK
<1>9. JobsOK'
  BY <1>1, <1>3, <1>6, <1>7, <1>8 DEF JobsOK, MayBeIn, Actors
<1>10. DataOK'
  BY <1>1 DEF BeginFill, DataOK
<1>11. ~late' => NoneAtIndex
  BY <1>1 DEF BeginFill, NoneAtIndex, DataOK
<1>12. NoneAtIndex => NoneAtIndex'
  BY <1>5, <1>6 DEF NoneAtIndex, Actors
<1>13. Current'
  BY <1>6, <1>7, <1>11, <1>12 DEF BeginFill, Current
<1> QED BY <1>9, <1>10, <1>13, TypeParts DEF IInv

LEMMA EndFillStep ==
    ASSUME IInv, NEW a \in Actors, NEW ok \in BOOLEAN, EndFill(a, ok)
    PROVE  IInv'
<1>1. TypeOK /\ JobsOK /\ DataOK /\ Current
  BY TypeParts DEF IInv
<1>2. cache_writer = a /\ cache_writer' = "free" /\ "free" \notin Actors
  BY ActorsAssumption DEF EndFill, Actors
<1>3. job[a].pc \in FillingStates
  BY <1>1, <1>2 DEF JobsOK
<1>4. MayBeIn(a, Filled(a, ok)) /\ Filled(a, ok) \notin FillingStates \cup {"index"}
  BY <1>3, FillingStatesOf
<1>5. job[a].data \in Channels \cup {NoData} /\ Filled(a, ok) \in SetterStates \cup WorkerStates
  BY <1>1, <1>4, OwnData, StatesOf
<1>6. /\ \A b \in Actors : b # a => job'[b] = job[b]
      /\ job'[a].pc = Filled(a, ok)
      /\ job' \in [Actors -> Jobs]
  BY <1>1, <1>5, GotoEffect DEF EndFill, Goto
<1>7. \A b \in Actors : cache_writer' = b <=> job'[b].pc \in FillingStates
  BY <1>1, <1>2, <1>4, <1>6 DEF JobsOK
<1>8. JobsOK'
  BY <1>1, <1>2, <1>4, <1>6, <1>7 DEF JobsOK, MayBeIn, Actors
<1>9. DataOK'
  BY <1>1, <1>5 DEF EndFill, DataOK
<1>10. NoneAtIndex => NoneAtIndex'
  BY <1>4, <1>6 DEF NoneAtIndex, Actors
<1>11. ~late => job[a].data = z_index /\ NoneAtIndex
  BY <1>1, <1>2 DEF Current
<1>12. Current'
  BY <1>2, <1>10, <1>11 DEF EndFill, Current
<1> QED BY <1>8, <1>9, <1>12, TypeParts DEF IInv

-----------------------------------------------------------------------------
LEMMA BeginStep ==
    ASSUME IInv, NEW w \in Workers, NEW c \in Channels,
           NEW state \in {"tile", "contour fill", "stats", "stats fill"}, Begin(w, c, state)
    PROVE  IInv'
<1>1. JobsOK /\ DataOK /\ w \in Actors /\ w \notin Setters
  BY TypeParts, ActorsAssumption DEF IInv, Actors
<1>2. MayBeIn(w, state) /\ state \notin FillingStates \cup {"index"}
      /\ state \in SetterStates \cup WorkerStates
  BY <1>1 DEF MayBeIn, WorkerStates, Resting, FillingStates
<1>3. DataOK'
  BY <1>1 DEF Begin, DataOK
<1>4. \A b \in Actors : b # w => job'[b] = job[b]
  BY <1>1 DEF Begin, JobsOK
<1> DEFINE new == [pc |-> state, z |-> c, data |-> NoData,
                   left |-> IF c = z_index THEN "no" ELSE "left",
                   overlap |-> \E s \in Setters : job[s].pc # "idle"]
<1>5. job'[w] = new
  BY <1>1 DEF Begin, JobsOK
<1>6. new \in Jobs /\ new.pc = state
  BY <1>2 DEF Jobs
<1>7. job' \in [Actors -> Jobs]
  BY <1>1, <1>5, <1>6 DEF Begin, JobsOK
<1>8. job[w].pc \notin FillingStates
  BY DEF Begin, Resting, FillingStates
<1> QED BY <1>1, <1>2, <1>3, <1>4, <1>5, <1>6, <1>7, <1>8, QuietStep DEF Begin

LEMMA TileGotoStep ==
    ASSUME IInv, NEW w \in Workers, NEW state \in {"idle", "raster", "tile cache", "copy", "tile sent"},
           job[w].pc \notin FillingStates, TileGoto(w, state)
    PROVE  IInv'
<1>1. TypeOK /\ DataOK /\ w \in Actors /\ w \notin Setters
  BY TypeParts, ActorsAssumption DEF IInv, Actors
<1>2. MayBeIn(w, state) /\ state \notin FillingStates \cup {"index"}
  BY <1>1 DEF MayBeIn, WorkerStates, Resting, FillingStates
<1>3. DataOK' /\ job[w].data \in Channels \cup {NoData}
  BY <1>1, OwnData DEF TileGoto, DataOK
<1> QED BY <1>1, <1>2, <1>3, QuietGoto DEF TileGoto, Goto

\* Steps by which a worker takes data.
LEMMA TakeDataStep ==
    ASSUME IInv, NEW w \in Workers, NEW d \in Channels \cup {NoData},
           NEW state \in {"tile check", "tracing", "smoothed"},
           job[w].pc \notin FillingStates, GotoWith(w, state, d),
           UNCHANGED <<loader, z_index, cached, cache_valid, cache_sized, cache_writer,
                       tile_z, stats, late, failed>>
    PROVE  IInv'
<1>1. TypeOK /\ DataOK /\ w \in Actors /\ w \notin Setters
  BY TypeParts, ActorsAssumption DEF IInv, Actors
<1>2. MayBeIn(w, state) /\ state \notin FillingStates \cup {"index"}
  BY <1>1 DEF MayBeIn, WorkerStates, Resting, FillingStates
<1>3. DataOK'
  BY <1>1 DEF DataOK
<1> QED BY <1>1, <1>2, <1>3, QuietGoto

LEMMA TileStep ==
    ASSUME IInv, NEW w \in Workers, Tile(w)
    PROVE  IInv'
<1>1. DataOK
  BY TypeParts DEF IInv
<1>2. CASE BeginTile(w)
  BY <1>1, <1>2, BeginStep DEF BeginTile, DataOK
<1>3. CASE LoadMipmapTile(w)
  BY <1>1, <1>3, TakeDataStep DEF LoadMipmapTile, DataOK, FillingStates
<1>4. CASE ChooseImageCache(w)
  BY <1>4, TileGotoStep DEF ChooseImageCache, FillingStates
<1>5. CASE ChooseTileCache(w)
  BY <1>5, TileGotoStep DEF ChooseTileCache, FillingStates
<1>6. CASE GetTileFromTileCache(w)
  BY <1>1, <1>6, TakeDataStep DEF GetTileFromTileCache, DataOK, FillingStates
<1>7. CASE CheckRaster(w)
  BY <1>7, TileGotoStep DEF CheckRaster, FillingStates
<1>8. CASE CopyRaster(w)
  BY <1>1, <1>8, TakeDataStep DEF CopyRaster, DataOK, FillingStates
<1>9. CASE SendTile(w)
  BY <1>9, TileGotoStep DEF SendTile, FillingStates
<1>10. CASE TileCacheFails(w)
  BY <1>10, TileGotoStep DEF TileCacheFails, FillingStates
<1> QED BY <1>2, <1>3, <1>4, <1>5, <1>6, <1>7, <1>8, <1>9, <1>10 DEF Tile

LEMMA ContourStep ==
    ASSUME IInv, NEW w \in Workers, Contour(w)
    PROVE  IInv'
<1>1. TypeOK /\ JobsOK /\ DataOK /\ w \in Actors /\ w \notin Setters
  BY TypeParts, ActorsAssumption DEF IInv, Actors
<1>2. CASE BeginContour(w)
  BY <1>1, <1>2, BeginStep DEF BeginContour, DataOK
<1>3. CASE TraceContours(w)
  BY <1>1, <1>3, TakeDataStep DEF TraceContours, DataOK, FillingStates
<1>4. CASE SendContours(w)
  <2>1. \A b \in Actors : b # w => job'[b] = job[b]
    BY <1>1, <1>4 DEF SendContours, JobsOK
  <2>2. job[w] \in Jobs /\ z_index \in Channels
    BY <1>1 DEF JobsOK, DataOK
  <2>3. job'[w] = [job[w] EXCEPT !.pc = "contours sent", !.z = z_index]
    BY <1>1, <1>4, <2>2 DEF SendContours, JobsOK, Jobs
  <2>4. job'[w].pc = "contours sent" /\ job'[w] \in Jobs
    BY <2>2, <2>3 DEF Jobs, WorkerStates, Resting
  <2>5. job' \in [Actors -> Jobs]
    BY <1>1, <1>4, <2>1, <2>4 DEF SendContours, JobsOK
  <2>6. MayBeIn(w, "contours sent") /\ "contours sent" \notin FillingStates \cup {"index"}
    BY <1>1 DEF MayBeIn, WorkerStates, Resting, FillingStates
  <2>7. DataOK' /\ job[w].pc \notin FillingStates
    BY <1>1, <1>4 DEF SendContours, DataOK, FillingStates
  <2> QED BY <1>1, <1>4, <2>1, <2>4, <2>5, <2>6, <2>7, QuietStep DEF SendContours
<1> QED BY <1>2, <1>3, <1>4 DEF Contour

LEMMA StatsStep ==
    ASSUME IInv, NEW w \in Workers, GetBasicStats(w)
    PROVE  IInv'
<1>1. TypeOK /\ JobsOK /\ DataOK /\ w \in Actors /\ w \notin Setters
  BY TypeParts, ActorsAssumption DEF IInv, Actors
<1>2. MayBeIn(w, "idle") /\ "idle" \notin FillingStates \cup {"index"}
  BY <1>1 DEF MayBeIn, WorkerStates, Resting, FillingStates
<1>3. job[w].data \in Channels \cup {NoData} /\ job[w].z \in Channels
  BY <1>1, OwnData DEF JobsOK, Jobs
<1>4. ASSUME NEW c \in Channels, BeginStats(w, c) PROVE IInv'
  BY <1>4, BeginStep DEF BeginStats
<1>5. ASSUME NEW c \in Channels, StatsOfOtherChannel(w, c) PROVE IInv'
  <2>1. DataOK' /\ job[w].pc \notin FillingStates
    BY <1>1, <1>5 DEF StatsOfOtherChannel, DataOK, Resting, FillingStates
  <2> QED BY <1>1, <1>2, <1>3, <1>5, <2>1, QuietGoto DEF StatsOfOtherChannel, Goto
<1>6. CASE CalcBasicStats(w)
  <2>1. PICK seen \in {cached} \cup {job[a].data : a \in Actors \cap {cache_writer}} :
           stats' = [stats EXCEPT ![job[w].z] = seen]
    BY <1>6 DEF CalcBasicStats
  <2>2. seen \in Channels \cup {NoData}
    BY <1>1, OwnData DEF DataOK
  <2>3. stats' \in [Channels -> Channels \cup {NoData, "none"}]
    BY <1>1, <1>3, <2>1, <2>2 DEF DataOK
  <2>4. DataOK' /\ job[w].pc \notin FillingStates
    BY <1>1, <1>6, <2>3 DEF CalcBasicStats, DataOK, FillingStates
  <2> QED BY <1>1, <1>2, <1>3, <1>6, <2>4, QuietGoto DEF CalcBasicStats, Goto
<1> QED BY <1>4, <1>5, <1>6 DEF GetBasicStats

-----------------------------------------------------------------------------
\* The invariant from which the others follow.
THEOREM Inductive == Spec => []IInv
<1>1. IInv /\ [Next]_vars => IInv'
  <2> SUFFICES ASSUME IInv, [Next]_vars PROVE IInv'
    OBVIOUS
  <2>1. ASSUME NEW s \in Setters, SetImageChannels(s) PROVE IInv'
    BY <2>1, BeginSetStep, InvalidateStep, SetIndexStep, ResetSteps DEF SetImageChannels
  <2>2. ASSUME NEW a \in Actors, FillImageCache(a) PROVE IInv'
    BY <2>2, FillFoundStep, BeginFillStep, EndFillStep DEF FillImageCache
  <2>3. CASE UNCHANGED vars
    BY <2>3 DEF vars, IInv, TypeOK, Current, NoneAtIndex
  <2> QED BY <2>1, <2>2, <2>3, TileStep, ContourStep, StatsStep DEF Next
<1> QED BY <1>1, InitOK, PTL DEF Spec

\* Types; the write lock is held exactly by the one who fills the cache.
THEOREM TypeCorrect == Spec => []TypeOK
<1>1. IInv => TypeOK
  BY DEF IInv
<1> QED BY <1>1, Inductive, PTL

\* Without a late fill the valid cache is that of the current channel.
THEOREM CacheIsCurrent == Spec => []CacheCurrentUnlessLate
<1>1. IInv => CacheCurrentUnlessLate
  BY DEF IInv, Current, CacheCurrentUnlessLate
<1> QED BY <1>1, Inductive, PTL

-----------------------------------------------------------------------------
(***************************************************************************)
(* What is sent.  A second invariant says, for each place where a worker   *)
(* may be, what is still true of the data it took.                         *)
(***************************************************************************)
TileStates == {"tile", "tile cache", "raster", "copy", "tile check"}
StatsStates == {"stats fill", "stats filling", "stats"}
SettersIdle == \A s \in Setters : job[s].pc = "idle"

\* A cache that is not valid will be filled by a setter.
WillBeFilled ==
    ~OnDemand(z_index) /\ ~failed /\ ~cache_valid =>
        \E s \in Setters : job[s].pc \in {"index", "fill", "filling"}

\* A tile cache that is behind will be reset by a setter.
WillBeReset ==
    OnDemand(z_index) /\ ~late /\ tile_z # z_index =>
        \E s \in Setters : job[s].pc \in {"reset", "resetting"}

\* The history of a job tells how its channel is related to the current one.
HistoryOK(w) ==
    /\ ~job[w].overlap => SettersIdle
    /\ job[w].left = "no" => job[w].z = z_index
    /\ job[w].pc \in TileStates /\ job[w].left = "left" => job[w].z # z_index

TileOK(w) ==
    /\ job[w].pc = "tile cache" => UsesTileCache
    /\ job[w].pc = "tile cache" /\ ~job[w].overlap /\ ~failed => OnDemand(z_index)
    /\ job[w].pc = "copy" /\ job[w].left = "no" /\ ~late /\ ~failed /\ cache_writer = "free" =>
          cached = job[w].z
    /\ job[w].pc = "tile check" /\ job[w].left = "no" /\ ~late /\ ~failed =>
          job[w].data = job[w].z \/ (UsesTileCache /\ job[w].overlap)
    /\ job[w].pc = "tile sent" /\ job[w].left # "back" /\ ~late /\ ~failed =>
          job[w].data = job[w].z \/ (UsesTileCache /\ job[w].overlap)

ContourOK(w) ==
    ~job[w].overlap /\ ~failed =>
        /\ job[w].pc = "contour" => cache_valid
        /\ job[w].pc \in {"tracing", "smoothed"} /\ ~late => job[w].data = z_index
        /\ job[w].pc = "contours sent" /\ ~late => job[w].data = job[w].z

StatsOK(w) == ~job[w].overlap /\ job[w].pc \in StatsStates => job[w].z = z_index

WorkerOK(w) == job[w].pc # "idle" => HistoryOK(w) /\ TileOK(w) /\ ContourOK(w) /\ StatsOK(w)

DataFollows == WillBeFilled /\ WillBeReset /\ \A w \in Workers : WorkerOK(w)

-----------------------------------------------------------------------------
LEMMA DataFollowsInit == Init => DataFollows
<1> SUFFICES ASSUME Init PROVE DataFollows
  OBVIOUS
<1>1. WillBeFilled /\ WillBeReset
  BY DEF Init, Images, WillBeFilled, WillBeReset, OnDemand, IsComputed
<1>2. \A w \in Workers : job[w].pc = "idle"
  BY DEF Init, NoJob, Actors
<1> QED BY <1>1, <1>2 DEF DataFollows, WorkerOK

\* What GotoWith leaves of a job.
LEMMA GotoKeeps ==
    ASSUME TypeOK, NEW a \in Actors, NEW state, state # "idle", NEW d, GotoWith(a, state, d)
    PROVE  /\ job'[a].z = job[a].z /\ job'[a].overlap = job[a].overlap
           /\ job'[a].left = job[a].left
           /\ job'[a].pc = state /\ job'[a].data = d
BY DEF GotoWith, TypeOK, Jobs

LEMMA GotoIdle ==
    ASSUME TypeOK, NEW a \in Actors, NEW d, GotoWith(a, "idle", d)
    PROVE  job'[a].pc = "idle"
BY DEF GotoWith, TypeOK, NoJob

LEMMA GotoOthers ==
    ASSUME TypeOK, NEW a \in Actors, NEW state, NEW d, GotoWith(a, state, d)
    PROVE  \A b \in Actors : b # a => job'[b] = job[b]
BY DEF GotoWith, TypeOK

\* A job of another is as it was, and so is all that it depends on.
LEMMA OtherWorkerKeeps ==
    ASSUME DataFollows, NEW v \in Workers, job'[v] = job[v],
           SettersIdle => SettersIdle',
           UNCHANGED <<loader, z_index, cached, cache_valid, cache_writer>>,
           late => late', failed => failed'
    PROVE  WorkerOK(v)'
<1>1. WorkerOK(v)
  BY DEF DataFollows
<1>2. HistoryOK(v) => HistoryOK(v)'
  BY DEF HistoryOK
<1>3. TileOK(v) => TileOK(v)'
  BY DEF TileOK, UsesTileCache, OnDemand, IsComputed
<1>4. ContourOK(v) => ContourOK(v)'
  BY DEF ContourOK
<1>5. StatsOK(v) => StatsOK(v)'
  BY DEF StatsOK
<1> QED BY <1>1, <1>2, <1>3, <1>4, <1>5 DEF WorkerOK

\* A step of a worker that fills nothing concerns no job but its own.
LEMMA WorkerKeeps ==
    ASSUME DataFollows, NEW w \in Workers, \A b \in Actors : b # w => job'[b] = job[b],
           UNCHANGED <<loader, z_index, cached, cache_valid, cache_writer, tile_z, late, failed>>,
           WorkerOK(w)'
    PROVE  DataFollows'
<1>1. \A s \in Setters : job'[s] = job[s]
  BY ActorsAssumption DEF Actors
<1>2. WillBeFilled' /\ WillBeReset'
  BY <1>1 DEF DataFollows, WillBeFilled, WillBeReset, OnDemand, IsComputed
<1>3. SettersIdle => SettersIdle'
  BY <1>1 DEF SettersIdle
<1>4. ASSUME NEW v \in Workers, v # w PROVE WorkerOK(v)'
  BY <1>3, <1>4, OtherWorkerKeeps DEF Actors
<1> QED BY <1>2, <1>4 DEF DataFollows

-----------------------------------------------------------------------------
\* Steps of a worker, given that the first invariant is kept.
LEMMA BeginFollows ==
    ASSUME IInv, DataFollows, NEW w \in Workers, NEW c \in Channels,
           NEW state \in {"tile", "contour fill", "stats", "stats fill"}, Begin(w, c, state),
           state \in StatsStates => c = z_index
    PROVE  DataFollows'
<1>1. TypeOK /\ w \in Actors
  BY DEF IInv, Actors
<1>2. \A b \in Actors : b # w => job'[b] = job[b]
  BY <1>1 DEF Begin, TypeOK
<1> DEFINE mark == IF c = z_index THEN "no" ELSE "left"
           busy == \E s \in Setters : job[s].pc # "idle"
           new == [pc |-> state, z |-> c, data |-> NoData, left |-> mark, overlap |-> busy]
<1>3. job'[w] = new
  BY <1>1 DEF Begin, TypeOK
<1>4. /\ job'[w].pc = state /\ job'[w].z = c /\ job'[w].left = mark
      /\ ~job'[w].overlap => SettersIdle'
  <2>1. new.pc = state /\ new.z = c /\ new.left = mark
    <3> HIDE DEF mark, busy
    <3> QED OBVIOUS
  <2>2. ~SettersIdle => new.overlap
    BY DEF SettersIdle
  <2>3. SettersIdle => SettersIdle'
    <3>1. \A s \in Setters : job'[s] = job[s]
      BY <1>2, ActorsAssumption DEF Actors
    <3> QED BY <3>1 DEF SettersIdle
  <2> HIDE DEF new
  <2> QED BY <1>3, <2>1, <2>2, <2>3
<1>5. z_index' = z_index
  BY DEF Begin
<1>6. HistoryOK(w)'
  BY <1>4, <1>5 DEF HistoryOK
<1>7. TileOK(w)' /\ ContourOK(w)'
  BY <1>4 DEF TileOK, ContourOK, OnDemand, IsComputed
<1>8. StatsOK(w)'
  BY <1>4, <1>5 DEF StatsOK
<1>9. WorkerOK(w)'
  BY <1>6, <1>7, <1>8 DEF WorkerOK
<1> QED BY <1>1, <1>2, <1>9, WorkerKeeps DEF Begin

\* The data a worker goes on with, of a tile.
LEMMA TileFollows ==
    ASSUME IInv, DataFollows, NEW w \in Workers, NEW state \in TileStates \cup {"tile sent"}, NEW d,
           GotoWith(w, state, d), job[w].pc \in TileStates,
           UNCHANGED <<loader, z_index, cached, cache_valid, cache_writer, tile_z, late, failed>>,
           state = "tile cache" =>
               UsesTileCache /\ (~job[w].overlap /\ ~failed => OnDemand(z_index)),
           state = "copy" => (job[w].left = "no" /\ ~late /\ ~failed => cached = z_index),
           state = "tile check" => (job[w].left = "no" /\ ~late /\ ~failed =>
               d = z_index \/ (UsesTileCache /\ job[w].overlap)),
           state = "tile sent" => job[w].pc = "tile check" /\ z_index = job[w].z /\ d = job[w].data
    PROVE  DataFollows'
<1>1. TypeOK /\ w \in Actors /\ w \notin Setters
  BY ActorsAssumption DEF IInv, Actors
<1>2. state # "idle" /\ state \notin StatsStates
      /\ state \notin {"contour", "tracing", "smoothed", "contours sent"}
  BY DEF TileStates, StatsStates
<1>3. \A b \in Actors : b # w => job'[b] = job[b]
  BY <1>1, GotoOthers
<1>4. /\ job'[w].z = job[w].z /\ job'[w].overlap = job[w].overlap
      /\ job'[w].left = job[w].left
      /\ job'[w].pc = state /\ job'[w].data = d
  <2>1. TypeOK /\ w \in Actors /\ state # "idle" /\ GotoWith(w, state, d)
    BY <1>1, <1>2
  <2> QED BY <2>1, GotoKeeps, Zenon
<1>5. HistoryOK(w) /\ TileOK(w)
  BY DEF DataFollows, WorkerOK, TileStates
<1>6. SettersIdle => SettersIdle'
  BY <1>1, <1>3 DEF SettersIdle, Actors
<1>7. HistoryOK(w)'
  BY <1>4, <1>5, <1>6 DEF HistoryOK
<1>8. job[w].left \in {"no", "left", "back"}
  BY <1>1 DEF TypeOK, Jobs
<1>9. TileOK(w)'
  <2>1. job[w].left = "no" => job[w].z = z_index
    BY <1>5 DEF HistoryOK
  <2>2. state = "tile sent" => job[w].left # "left"
    BY <1>5 DEF HistoryOK
  <2> QED BY <1>4, <1>5, <1>8, <2>1, <2>2 DEF TileOK, UsesTileCache, TileStates, OnDemand, IsComputed
<1>10. ContourOK(w)' /\ StatsOK(w)'
  BY <1>2, <1>4 DEF ContourOK, StatsOK
<1>11. WorkerOK(w)'
  BY <1>7, <1>9, <1>10 DEF WorkerOK
<1> QED BY <1>3, <1>11, WorkerKeeps

\* A worker that gives up has nothing to answer for.
LEMMA GiveUpFollows ==
    ASSUME IInv, DataFollows, NEW w \in Workers, NEW d, GotoWith(w, "idle", d),
           UNCHANGED <<loader, z_index, cached, cache_valid, cache_writer, tile_z, late, failed>>
    PROVE  DataFollows'
<1>1. TypeOK /\ w \in Actors
  BY DEF IInv, Actors
<1>2. job'[w].pc = "idle"
  BY <1>1, GotoIdle
<1>3. \A b \in Actors : b # w => job'[b] = job[b]
  BY <1>1, GotoOthers
<1> QED BY <1>2, <1>3, WorkerKeeps DEF WorkerOK

\* While no setter is at work a cache that is not filled on demand is valid.
LEMMA IdleValid ==
    ASSUME DataFollows, SettersIdle, ~OnDemand(z_index), ~failed
    PROVE  cache_valid
BY DEF DataFollows, WillBeFilled, SettersIdle, OnDemand, IsComputed

\* Then, too, the tile cache beside a cache that is filled on demand is current.
LEMMA IdleReset ==
    ASSUME DataFollows, SettersIdle, OnDemand(z_index), ~late
    PROVE  tile_z = z_index
BY DEF DataFollows, WillBeReset, SettersIdle, OnDemand, IsComputed

LEMMA TileStepFollows ==
    ASSUME IInv, DataFollows, NEW w \in Workers, Tile(w)
    PROVE  DataFollows'
<1>1. TypeOK /\ Current /\ WorkerOK(w)
  BY DEF IInv, DataFollows
<1>2. job[w].pc \in TileStates => HistoryOK(w) /\ TileOK(w)
  BY <1>1 DEF WorkerOK, TileStates
<1>3. CASE BeginTile(w)
  BY <1>1, <1>3, BeginFollows DEF BeginTile, TypeOK, StatsStates
<1>4. CASE LoadMipmapTile(w)
  BY <1>4, TileFollows DEF LoadMipmapTile, TileStates
<1>5. CASE ChooseImageCache(w)
  BY <1>5, TileFollows DEF ChooseImageCache, TileGoto, Goto, TileStates
<1>6. CASE ChooseTileCache(w)
  <2>1. ~job[w].overlap /\ ~failed => OnDemand(z_index)
    BY <1>2, <1>6, IdleValid DEF ChooseTileCache, HistoryOK, TileStates
  <2> QED BY <1>6, <2>1, TileFollows DEF ChooseTileCache, TileGoto, Goto, TileStates
<1>7. CASE GetTileFromTileCache(w)
  <2>1. UsesTileCache /\ (~job[w].overlap /\ ~failed => OnDemand(z_index) /\ SettersIdle)
    BY <1>2, <1>7 DEF GetTileFromTileCache, HistoryOK, TileOK, TileStates, OnDemand, IsComputed
  <2>2. ~late /\ ~failed => tile_z = z_index \/ (UsesTileCache /\ job[w].overlap)
    BY <2>1, IdleReset
  <2> QED BY <1>7, <2>2, TileFollows DEF GetTileFromTileCache, TileStates
<1>8. CASE TileCacheFails(w)
  BY <1>8, TileFollows DEF TileCacheFails, TileGoto, Goto, TileStates
<1>9. CASE CheckRaster(w)
  <2>1. CASE cache_valid
    <3>1. ~late => cached = z_index
      BY <1>1, <2>1 DEF Current
    <3> QED BY <1>9, <2>1, <3>1, TileFollows DEF CheckRaster, TileGoto, Goto, TileStates
  <2>2. CASE ~cache_valid
    BY <1>9, <2>2, GiveUpFollows DEF CheckRaster, TileGoto, Goto
  <2> QED BY <2>1, <2>2
<1>10. CASE CopyRaster(w)
  <2>1. job[w].left = "no" /\ ~late /\ ~failed => cached = z_index
    BY <1>2, <1>10 DEF CopyRaster, CanRead, HistoryOK, TileOK, TileStates, OnDemand, IsComputed
  <2> QED BY <1>10, <2>1, TileFollows DEF CopyRaster, TileStates
<1>11. CASE SendTile(w)
  <2>1. CASE z_index = job[w].z
    BY <1>11, <2>1, TileFollows DEF SendTile, TileGoto, Goto, TileStates
  <2>2. CASE z_index # job[w].z
    BY <1>11, <2>2, GiveUpFollows DEF SendTile, TileGoto, Goto
  <2> QED BY <2>1, <2>2
<1> QED BY <1>3, <1>4, <1>5, <1>6, <1>7, <1>8, <1>9, <1>10, <1>11 DEF Tile

-----------------------------------------------------------------------------
LEMMA ContourStepFollows ==
    ASSUME IInv, DataFollows, NEW w \in Workers, Contour(w)
    PROVE  DataFollows'
<1>1. TypeOK /\ Current /\ WorkerOK(w) /\ w \in Actors /\ w \notin Setters
  BY ActorsAssumption DEF IInv, DataFollows, Actors
<1>2. CASE BeginContour(w)
  BY <1>1, <1>2, BeginFollows DEF BeginContour, TypeOK, StatsStates
<1>3. CASE TraceContours(w)
  <2>1. HistoryOK(w) /\ ContourOK(w)
    BY <1>1, <1>3 DEF TraceContours, WorkerOK
  <2>2. PICK state \in {"tracing", "smoothed"} : GotoWith(w, state, cached)
    BY <1>3 DEF TraceContours
  <2>3. /\ job'[w].z = job[w].z /\ job'[w].overlap = job[w].overlap
        /\ job'[w].left = job[w].left
        /\ job'[w].pc = state /\ job'[w].data = cached
    BY <1>1, <2>2, GotoKeeps
  <2>4. \A b \in Actors : b # w => job'[b] = job[b]
    BY <1>1, <2>2, GotoOthers
  <2>5. SettersIdle => SettersIdle'
    BY <1>1, <2>4 DEF SettersIdle, Actors
  <2>6. ~job[w].overlap /\ ~failed /\ ~late => cached = z_index
    BY <1>1, <1>3, <2>1 DEF TraceContours, ContourOK, Current
  <2>7. HistoryOK(w)'
    BY <1>3, <2>1, <2>3, <2>5 DEF TraceContours, HistoryOK, TileStates
  <2>8. TileOK(w)' /\ StatsOK(w)'
    BY <2>3 DEF TileOK, StatsOK, StatsStates, OnDemand, IsComputed
  <2>9. ContourOK(w)'
    BY <1>3, <2>3, <2>6 DEF TraceContours, ContourOK
  <2>10. WorkerOK(w)'
    BY <2>7, <2>8, <2>9 DEF WorkerOK
  <2> QED BY <1>3, <2>4, <2>10, WorkerKeeps DEF TraceContours
<1>4. CASE SendContours(w)
  <2>1. HistoryOK(w) /\ ContourOK(w)
    BY <1>1, <1>4 DEF SendContours, WorkerOK
  <2>2. /\ job'[w].z = z_index /\ job'[w].overlap = job[w].overlap
        /\ job'[w].left = job[w].left
        /\ job'[w].pc = "contours sent" /\ job'[w].data = job[w].data
    BY <1>1, <1>4 DEF SendContours, TypeOK, Jobs
  <2>3. \A b \in Actors : b # w => job'[b] = job[b]
    BY <1>1, <1>4 DEF SendContours, TypeOK
  <2>4. SettersIdle => SettersIdle'
    BY <1>1, <2>3 DEF SettersIdle, Actors
  <2>5. HistoryOK(w)'
    BY <1>4, <2>1, <2>2, <2>4 DEF SendContours, HistoryOK, TileStates
  <2>6. TileOK(w)' /\ StatsOK(w)'
    BY <2>2 DEF TileOK, StatsOK, StatsStates, OnDemand, IsComputed
  <2>7. ContourOK(w)'
    BY <1>4, <2>1, <2>2 DEF SendContours, ContourOK
  <2>8. WorkerOK(w)'
    BY <2>5, <2>6, <2>7 DEF WorkerOK
  <2> QED BY <1>4, <2>3, <2>8, WorkerKeeps DEF SendContours
<1> QED BY <1>2, <1>3, <1>4 DEF Contour

LEMMA StatsStepFollows ==
    ASSUME IInv, DataFollows, NEW w \in Workers, GetBasicStats(w)
    PROVE  DataFollows'
<1>1. ASSUME NEW c \in Channels, BeginStats(w, c) PROVE DataFollows'
  BY <1>1, BeginFollows DEF BeginStats
<1>2. ASSUME NEW c \in Channels, StatsOfOtherChannel(w, c) PROVE DataFollows'
  BY <1>2, GiveUpFollows DEF StatsOfOtherChannel, Goto
<1>3. CASE CalcBasicStats(w)
  BY <1>3, GiveUpFollows DEF CalcBasicStats, Goto
<1> QED BY <1>1, <1>2, <1>3 DEF GetBasicStats

-----------------------------------------------------------------------------
\* A setter that is not idle stays so, or it is the one that moves.
LEMMA BeginSetFollows ==
    ASSUME IInv, DataFollows, NEW s \in Setters, NEW c \in Channels, BeginSet(s, c)
    PROVE  DataFollows'
<1>1. TypeOK /\ s \in Actors /\ s \notin Workers
  BY ActorsAssumption DEF IInv, Actors
<1>2. \A r \in Setters : r # s => job'[r] = job[r]
  BY <1>1, ActorsAssumption DEF BeginSet, Actors
<1>3. WillBeFilled' /\ WillBeReset'
  BY <1>2 DEF DataFollows, WillBeFilled, WillBeReset, BeginSet, OnDemand, IsComputed
<1>4. ASSUME NEW w \in Workers PROVE WorkerOK(w)'
  <2>1. WorkerOK(w) /\ w \in Actors /\ w # s
    BY <1>1 DEF DataFollows, Actors
  <2>2. CASE job[w].pc = "idle"
    BY <2>1, <2>2 DEF BeginSet, WorkerOK
  <2>3. CASE job[w].pc # "idle"
    <3>1. job[w] \in Jobs /\ job'[w] = [job[w] EXCEPT !.overlap = TRUE]
      BY <1>1, <2>1, <2>3 DEF BeginSet, TypeOK
    <3>2. /\ job'[w].overlap /\ job'[w].pc = job[w].pc /\ job'[w].z = job[w].z
          /\ job'[w].data = job[w].data /\ job'[w].left = job[w].left
      BY <3>1 DEF Jobs
    <3>3. HistoryOK(w) /\ TileOK(w)
      BY <2>1, <2>3 DEF WorkerOK
    <3>4. HistoryOK(w)'
      BY <3>2, <3>3 DEF BeginSet, HistoryOK
    <3>5. TileOK(w)'
      BY <3>2, <3>3 DEF BeginSet, TileOK, UsesTileCache, OnDemand, IsComputed
    <3> QED BY <3>2, <3>4, <3>5 DEF WorkerOK, ContourOK, StatsOK
  <2> QED BY <2>2, <2>3
<1> QED BY <1>3, <1>4 DEF DataFollows

\* A setter at work that goes on leaves the workers alone.
LEMMA SetterKeeps ==
    ASSUME IInv, DataFollows, NEW s \in Setters, job[s].pc # "idle",
           \A b \in Actors : b # s => job'[b] = job[b],
           UNCHANGED <<loader, z_index, cached, cache_writer>>,
           late => late', failed => failed', WillBeFilled', WillBeReset'
    PROVE  DataFollows'
<1>1. s \in Actors /\ s \notin Workers /\ ~SettersIdle
  BY ActorsAssumption DEF Actors, SettersIdle
<1>2. ASSUME NEW w \in Workers, WorkerOK(w) PROVE WorkerOK(w)'
  <2>1. job'[w] = job[w] /\ (job[w].pc # "idle" => job[w].overlap)
    BY <1>1, <1>2 DEF WorkerOK, HistoryOK, Actors
  <2>2. CASE job[w].pc = "idle"
    BY <2>1, <2>2 DEF WorkerOK
  <2>3. CASE job[w].pc # "idle"
    <3>1. HistoryOK(w) /\ TileOK(w) /\ job'[w].overlap
      BY <1>2, <2>1, <2>3 DEF WorkerOK
    <3>2. HistoryOK(w)' /\ TileOK(w)'
      BY <2>1, <3>1 DEF HistoryOK, TileOK, UsesTileCache, OnDemand, IsComputed
    <3> QED BY <3>1, <3>2 DEF WorkerOK, ContourOK, StatsOK
  <2> QED BY <2>2, <2>3
<1> QED BY <1>2 DEF DataFollows

LEMMA InvalidateFollows ==
    ASSUME IInv, DataFollows, NEW s \in Setters, InvalidateImageCache(s)
    PROVE  DataFollows'
<1>1. TypeOK /\ s \in Actors
  BY DEF IInv, Actors
<1>2. GotoWith(s, "index", job[s].data)
  BY DEF InvalidateImageCache, Goto
<1>3. job'[s].pc = "index" /\ \A b \in Actors : b # s => job'[b] = job[b]
  BY <1>1, <1>2, GotoKeeps, GotoOthers
<1>4. WillBeFilled'
  BY <1>3 DEF WillBeFilled, OnDemand, IsComputed
<1>5. WillBeReset'
  <2>1. job[s].pc \notin {"reset", "resetting"}
    BY DEF InvalidateImageCache
  <2> QED BY <1>1, <1>3, <2>1 DEF DataFollows, WillBeReset, InvalidateImageCache, Actors, OnDemand, IsComputed
<1> QED BY <1>3, <1>4, <1>5, SetterKeeps DEF InvalidateImageCache

\* A worker sees that its channel is left, or set again.
LEMMA SetIndexFollows ==
    ASSUME IInv, DataFollows, NEW s \in Setters, SetIndex(s)
    PROVE  DataFollows'
<1>1. TypeOK /\ s \in Actors /\ s \notin Workers
  BY ActorsAssumption DEF IInv, Actors
<1> DEFINE state == IF OnDemand(job[s].z) THEN "reset" ELSE "fill"
<1>2. SetterGoto(s, state) /\ z_index' = job[s].z
  BY DEF SetIndex
<1>3. job'[s].pc = state /\ \A r \in Setters : r # s => job'[r] = job[r]
  BY <1>1, <1>2 DEF SetterGoto, TypeOK, Jobs, Actors
<1>4. WillBeFilled' /\ WillBeReset'
  BY <1>3 DEF SetIndex, WillBeFilled, WillBeReset, OnDemand, IsComputed
<1>5. ASSUME NEW w \in Workers PROVE WorkerOK(w)'
  <2>1. WorkerOK(w) /\ w \in Actors /\ w # s /\ w \notin Setters /\ job[w] \in Jobs
    BY <1>1, ActorsAssumption DEF DataFollows, Actors, TypeOK
  <2>2. CASE job[w].pc = "idle"
    BY <1>2, <2>1, <2>2 DEF SetterGoto, WorkerOK
  <2>3. CASE job[w].pc # "idle"
    <3>1. /\ job'[w].pc = job[w].pc /\ job'[w].z = job[w].z /\ job'[w].data = job[w].data
          /\ job'[w].overlap = job[w].overlap
          /\ job'[w].left = IF job[w].z # job[s].z
                            THEN IF job[w].left = "no" THEN "left" ELSE job[w].left
                            ELSE IF job[w].left = "left" THEN "back" ELSE job[w].left
      BY <1>2, <2>1, <2>3 DEF SetterGoto, Jobs
    <3>2. HistoryOK(w) /\ TileOK(w)
      BY <2>1, <2>3 DEF WorkerOK
    <3>3. job[w].overlap
      BY <3>2 DEF SetIndex, HistoryOK, SettersIdle
    <3>4. HistoryOK(w)'
      BY <1>2, <3>1, <3>2, <3>3 DEF HistoryOK
    <3>5. job'[w].left = "no" => job[w].left = "no"
      BY <3>1
    <3>6. job'[w].left # "back" => job[w].left # "back"
      BY <3>1
    <3>7. TileOK(w)'
      BY <3>1, <3>2, <3>3, <3>5, <3>6 DEF SetIndex, TileOK, UsesTileCache
    <3> QED BY <3>1, <3>3, <3>4, <3>7 DEF WorkerOK, ContourOK, StatsOK
  <2> QED BY <2>2, <2>3
<1> QED BY <1>4, <1>5 DEF DataFollows

LEMMA ResetFollows ==
    ASSUME IInv, DataFollows, NEW s \in Setters, ReadIndex(s) \/ ResetTileCache(s)
    PROVE  DataFollows'
<1>1. TypeOK /\ s \in Actors
  BY DEF IInv, Actors
<1>2. WillBeFilled /\ WillBeReset
  BY DEF DataFollows
<1>3. CASE ReadIndex(s)
  <2>1. job'[s].pc = "resetting" /\ \A b \in Actors : b # s => job'[b] = job[b]
    BY <1>1, <1>3, GotoKeeps, GotoOthers DEF ReadIndex
  <2>2. WillBeFilled'
    BY <1>2, <1>3, <2>1 DEF WillBeFilled, ReadIndex, Actors, OnDemand, IsComputed
  <2>3. WillBeReset'
    BY <2>1 DEF WillBeReset, OnDemand, IsComputed
  <2> QED BY <1>3, <2>1, <2>2, <2>3, SetterKeeps DEF ReadIndex
<1>4. CASE ResetTileCache(s)
  <2>1. \A b \in Actors : b # s => job'[b] = job[b]
    BY <1>1, <1>4, GotoOthers DEF ResetTileCache, Goto
  <2>2. WillBeFilled'
    BY <1>2, <1>4, <2>1 DEF WillBeFilled, ResetTileCache, Actors, OnDemand, IsComputed
  <2>3. WillBeReset'
    BY <1>4 DEF WillBeReset, ResetTileCache, OnDemand, IsComputed
  <2>4. late => late'
    BY <1>4 DEF ResetTileCache
  <2> QED BY <1>4, <2>1, <2>2, <2>3, <2>4, SetterKeeps DEF ResetTileCache
<1> QED BY <1>3, <1>4

-----------------------------------------------------------------------------
\* FillImageCache.  The places of a worker that fills the cache concern
\* contours and statistics only.
LEMMA FillWorker ==
    ASSUME IInv, DataFollows, NEW w \in Workers, job[w].pc \in FillStates \cup FillingStates
    PROVE  HistoryOK(w) /\ StatsOK(w)
BY DEF DataFollows, WorkerOK, FillStates, FillingStates

\* Where a worker goes when its fill is over.
LEMMA FilledWorker ==
    ASSUME IInv, DataFollows, NEW w \in Workers, NEW ok \in BOOLEAN,
           job[w].pc \in FillStates \cup FillingStates,
           GotoWith(w, Filled(w, ok), job[w].data),
           SettersIdle => SettersIdle', z_index' = z_index,
           ~failed' => cache_valid'
    PROVE  WorkerOK(w)'
<1>1. TypeOK /\ w \in Actors /\ job[w].pc \notin SetterStates \ {"idle"}
  <2>1. TypeOK /\ job[w].pc \in WorkerStates
    BY DEF IInv, TypeOK
  <2> QED BY <2>1 DEF WorkerStates, SetterStates, Resting, Actors
<1>2. Filled(w, ok) \in {"idle", "contour", "stats"}
      /\ (Filled(w, ok) = "stats" => job[w].pc \in StatsStates)
  BY DEF Filled, FillStates, FillingStates, StatsStates
<1>3. CASE Filled(w, ok) = "idle"
  BY <1>1, <1>3, GotoIdle DEF WorkerOK
<1>4. CASE Filled(w, ok) # "idle"
  <2>1. /\ job'[w].z = job[w].z /\ job'[w].overlap = job[w].overlap
        /\ job'[w].left = job[w].left /\ job'[w].pc = Filled(w, ok)
    BY <1>1, <1>4, GotoKeeps
  <2>2. HistoryOK(w) /\ StatsOK(w)
    BY FillWorker
  <2>3. HistoryOK(w)'
    BY <1>2, <2>1, <2>2 DEF HistoryOK, TileStates
  <2>4. TileOK(w)' /\ ContourOK(w)'
    BY <1>2, <2>1 DEF TileOK, ContourOK, OnDemand, IsComputed
  <2>5. StatsOK(w)'
    BY <1>2, <2>1, <2>2 DEF StatsOK, StatsStates
  <2> QED BY <2>3, <2>4, <2>5 DEF WorkerOK
<1> QED BY <1>3, <1>4

\* The setters while the cache is being filled: one that fills goes on, and
\* one that is done leaves a valid cache or a failure.
LEMMA FillSetters ==
    ASSUME IInv, DataFollows, NEW a \in Actors, NEW state, NEW d, GotoWith(a, state, d),
           job[a].pc \in FillStates \cup FillingStates,
           UNCHANGED <<loader, z_index, tile_z>>, late => late'
    PROVE  /\ WillBeReset'
           /\ SettersIdle => SettersIdle'
           /\ ~SettersIdle /\ a \in Workers => ~SettersIdle'
<1>1. TypeOK /\ WillBeReset /\ \A b \in Actors : b # a => job'[b] = job[b]
  BY GotoOthers DEF IInv, DataFollows
<1>2. WillBeReset'
  <2>1. job[a].pc \notin {"reset", "resetting"}
    BY DEF FillStates, FillingStates
  <2> QED BY <1>1, <2>1 DEF WillBeReset, Actors, OnDemand, IsComputed
<1>3. SettersIdle => a \notin Setters
  BY DEF SettersIdle, FillStates, FillingStates
<1>4. a \in Workers => a \notin Setters
  BY ActorsAssumption
<1> QED BY <1>1, <1>2, <1>3, <1>4 DEF SettersIdle, Actors

LEMMA FillFoundFollows ==
    ASSUME IInv, DataFollows, NEW a \in Actors, FillFound(a)
    PROVE  DataFollows'
<1>1. TypeOK /\ GotoWith(a, Filled(a, TRUE), job[a].data) /\ job[a].pc \in FillStates
  BY DEF IInv, FillFound, Goto
<1>2. WillBeReset' /\ (SettersIdle => SettersIdle')
  BY <1>1, FillSetters DEF FillFound
<1>3. WillBeFilled'
  BY DEF FillFound, WillBeFilled, OnDemand, IsComputed
<1>4. ASSUME NEW w \in Workers PROVE WorkerOK(w)'
  <2>1. CASE w = a
    BY <1>1, <1>2, <2>1, FilledWorker DEF FillFound
  <2>2. CASE w # a
    <3>1. job'[w] = job[w]
      BY <1>1, <2>2, GotoOthers DEF Actors
    <3> QED BY <1>2, <3>1, OtherWorkerKeeps DEF FillFound
  <2> QED BY <2>1, <2>2
<1> QED BY <1>2, <1>3, <1>4 DEF DataFollows

LEMMA BeginFillFollows ==
    ASSUME IInv, DataFollows, NEW a \in Actors, BeginFill(a)
    PROVE  DataFollows'
<1>1. TypeOK /\ Current /\ GotoWith(a, Filling(a), z_index) /\ job[a].pc \in FillStates
  BY DEF IInv, BeginFill
<1>2. /\ Filling(a) \in FillingStates /\ Filling(a) # "idle"
      /\ job[a].pc = "fill" => Filling(a) = "filling"
      /\ Filling(a) = "stats filling" => job[a].pc = "stats fill"
  BY <1>1 DEF Filling, FillStates, FillingStates
<1>3. /\ \A b \in Actors : b # a => job'[b] = job[b]
      /\ job'[a].z = job[a].z /\ job'[a].overlap = job[a].overlap
      /\ job'[a].left = job[a].left /\ job'[a].pc = Filling(a)
  BY <1>1, <1>2, GotoOthers, GotoKeeps
<1>4. late => late'
  BY DEF BeginFill
<1>5. WillBeReset' /\ (SettersIdle => SettersIdle')
  BY <1>1, <1>4, FillSetters DEF BeginFill
<1>6. WillBeFilled'
  <2> SUFFICES ASSUME ~OnDemand(z_index), ~failed PROVE WillBeFilled'
    BY DEF WillBeFilled, BeginFill, OnDemand, IsComputed
  <2>1. PICK s \in Setters : job[s].pc \in {"index", "fill", "filling"}
    BY DEF DataFollows, WillBeFilled, BeginFill, OnDemand, IsComputed
  <2>2. CASE s = a
    <3>1. job[a].pc = "fill"
      BY <1>1, <2>1, <2>2 DEF FillStates
    <3> QED BY <1>2, <1>3, <2>2, <3>1 DEF WillBeFilled, OnDemand, IsComputed
  <2>3. CASE s # a
    BY <1>3, <2>1, <2>3 DEF WillBeFilled, Actors, OnDemand, IsComputed
  <2> QED BY <2>2, <2>3
<1>7. ASSUME NEW w \in Workers PROVE WorkerOK(w)'
  <2>1. CASE w = a
    <3>1. HistoryOK(w) /\ StatsOK(w)
      BY <1>1, <2>1, FillWorker
    <3>2. HistoryOK(w)'
      BY <1>2, <1>3, <1>5, <2>1, <3>1 DEF HistoryOK, TileStates, FillingStates, BeginFill
    <3>3. TileOK(w)' /\ ContourOK(w)'
      BY <1>2, <1>3, <2>1 DEF TileOK, ContourOK, FillingStates, OnDemand, IsComputed
    <3>4. StatsOK(w)'
      BY <1>2, <1>3, <2>1, <3>1 DEF StatsOK, StatsStates, FillingStates, BeginFill
    <3> QED BY <3>2, <3>3, <3>4 DEF WorkerOK
  <2>2. CASE w # a
    <3>1. job'[w] = job[w] /\ WorkerOK(w)
      BY <1>3, <2>2 DEF DataFollows, Actors
    <3>2. CASE job[w].pc = "idle"
      BY <3>1, <3>2 DEF WorkerOK
    <3>3. CASE job[w].pc # "idle"
      <4>1. HistoryOK(w) /\ TileOK(w) /\ ContourOK(w) /\ StatsOK(w)
        BY <3>1, <3>3 DEF WorkerOK
      <4>2. cache_writer' # "free"
        BY ActorsAssumption DEF BeginFill, Actors
      <4>3. HistoryOK(w)' /\ StatsOK(w)'
        BY <1>5, <3>1, <4>1 DEF HistoryOK, StatsOK, BeginFill
      <4>4. TileOK(w)'
        BY <1>4, <3>1, <4>1, <4>2 DEF TileOK, UsesTileCache, BeginFill, OnDemand, IsComputed
      <4>5. ContourOK(w)'
        BY <1>4, <3>1, <4>1 DEF ContourOK, BeginFill
      <4> QED BY <4>3, <4>4, <4>5 DEF WorkerOK
    <3> QED BY <3>2, <3>3
  <2> QED BY <2>1, <2>2
<1> QED BY <1>5, <1>6, <1>7 DEF DataFollows

\* The cache is filled for the current channel, or the fill was late.
LEMMA EndFillFollows ==
    ASSUME IInv, DataFollows, NEW a \in Actors, NEW ok \in BOOLEAN, EndFill(a, ok)
    PROVE  DataFollows'
<1>1. TypeOK /\ Current /\ GotoWith(a, Filled(a, ok), job[a].data) /\ a # "free"
  BY ActorsAssumption DEF IInv, EndFill, Goto, Actors
<1>2. job[a].pc \in FillingStates /\ cache_writer = a
  BY <1>1 DEF EndFill, TypeOK
<1>3. \A b \in Actors : b # a => job'[b] = job[b]
  BY <1>1, GotoOthers
<1>4. (failed => failed') /\ (~failed' => ok)
  BY <1>1 DEF EndFill, TypeOK
<1>5. WillBeReset' /\ (SettersIdle => SettersIdle')
  BY <1>1, <1>2, FillSetters DEF EndFill
<1>6. ~failed' => cache_valid'
  BY <1>4 DEF EndFill
<1>7. WillBeFilled'
  BY <1>6 DEF WillBeFilled, OnDemand, IsComputed
<1>8. ~late /\ ~failed' => cached' = z_index
  BY <1>1, <1>2, <1>4 DEF Current, EndFill
<1>9. ASSUME NEW w \in Workers PROVE WorkerOK(w)'
  <2>1. CASE w = a
    BY <1>1, <1>2, <1>5, <1>6, <2>1, FilledWorker DEF EndFill
  <2>2. CASE w # a
    <3>1. job'[w] = job[w] /\ WorkerOK(w)
      BY <1>3, <2>2 DEF DataFollows, Actors
    <3>2. CASE job[w].pc = "idle"
      BY <3>1, <3>2 DEF WorkerOK
    <3>3. CASE job[w].pc # "idle"
      <4>1. HistoryOK(w) /\ TileOK(w) /\ ContourOK(w) /\ StatsOK(w)
        BY <3>1, <3>3 DEF WorkerOK
      <4>2. HistoryOK(w)' /\ StatsOK(w)'
        BY <1>5, <3>1, <4>1 DEF HistoryOK, StatsOK, EndFill
      <4>3. TileOK(w)'
        <5>1. job[w].left = "no" => job[w].z = z_index
          BY <4>1 DEF HistoryOK
        <5> QED BY <1>4, <1>8, <3>1, <4>1, <5>1 DEF TileOK, UsesTileCache, EndFill, OnDemand, IsComputed
      <4>4. ContourOK(w)'
        BY <1>4, <1>6, <3>1, <4>1 DEF ContourOK, EndFill
      <4> QED BY <4>2, <4>3, <4>4 DEF WorkerOK
    <3> QED BY <3>2, <3>3
  <2> QED BY <2>1, <2>2
<1> QED BY <1>5, <1>7, <1>9 DEF DataFollows

-----------------------------------------------------------------------------
\* The invariant of the data that workers take.
THEOREM DataInductive == Spec => []DataFollows
<1>1. IInv /\ DataFollows /\ [Next]_vars => DataFollows'
  <2> SUFFICES ASSUME IInv, DataFollows, [Next]_vars PROVE DataFollows'
    OBVIOUS
  <2>1. ASSUME NEW s \in Setters, SetImageChannels(s) PROVE DataFollows'
    BY <2>1, BeginSetFollows, InvalidateFollows, SetIndexFollows, ResetFollows DEF SetImageChannels
  <2>2. ASSUME NEW a \in Actors, FillImageCache(a) PROVE DataFollows'
    BY <2>2, FillFoundFollows, BeginFillFollows, EndFillFollows DEF FillImageCache
  <2>3. CASE UNCHANGED vars
    <3>1. \A w \in Workers : WorkerOK(w)'
      BY <2>3, OtherWorkerKeeps DEF vars, SettersIdle
    <3> QED BY <2>3, <3>1 DEF vars, DataFollows, WillBeFilled, WillBeReset, OnDemand, IsComputed
  <2> QED BY <2>1, <2>2, <2>3, TileStepFollows, ContourStepFollows, StatsStepFollows DEF Next
<1> QED BY <1>1, DataFollowsInit, Inductive, PTL DEF Spec

\* After a change of channel the image can be shown, unless it was not read.
THEOREM ImageIsAvailable == Spec => []ImageAvailable
<1>1. DataFollows => ImageAvailable
  BY DEF DataFollows, WillBeFilled, ImageAvailable, OnDemand, IsComputed
<1> QED BY <1>1, DataInductive, PTL

\* Tiles and contours that are sent are of the channel they are marked with,
\* but for the races that the property names.
THEOREM DataIsOfItsChannel == Spec => []DataOfTheirChannel
<1>1. DataFollows => DataOfTheirChannel
  <2> SUFFICES ASSUME DataFollows, NEW w \in Workers
               PROVE  /\ job[w].pc = "tile sent" /\ ~late /\ job[w].left # "back" /\ ~failed =>
                           job[w].data = job[w].z \/ (UsesTileCache /\ job[w].overlap)
                      /\ job[w].pc = "contours sent" /\ ~late /\ ~failed =>
                           job[w].data = job[w].z \/ job[w].overlap
    BY DEF DataOfTheirChannel, TilesOfTheirChannel, ContoursOfTheirChannel
  <2> QED BY DEF DataFollows, WorkerOK, TileOK, ContourOK, OnDemand, IsComputed
<1> QED BY <1>1, DataInductive, PTL

\* No step caches statistics of another channel but for the races that the
\* property names.
THEOREM StatsAreOfTheirChannel == Spec => StatsOfTheirChannel
<1> DEFINE A == \A c \in Channels : stats'[c] # stats[c] /\ stats'[c] # c =>
                    \/ late \/ failed
                    \/ OnDemand(z_index)
                    \/ \E w \in Workers : job[w].pc = "stats" /\ job[w].overlap
<1>1. IInv /\ DataFollows /\ [Next]_vars => [A]_stats
  <2> SUFFICES ASSUME IInv, DataFollows, [Next]_vars, stats' # stats PROVE A
    OBVIOUS
  <2>1. PICK w \in Workers : (\E c \in Channels : StatsOfOtherChannel(w, c)) \/ CalcBasicStats(w)
    BY DEF Next, vars, SetImageChannels, BeginSet, InvalidateImageCache, SetIndex, ReadIndex,
           ResetTileCache, FillImageCache, FillFound, BeginFill, EndFill, Tile, BeginTile, Begin,
           LoadMipmapTile, ChooseImageCache, ChooseTileCache, GetTileFromTileCache,
           TileCacheFails, CheckRaster, CopyRaster, SendTile, TileGoto, Contour, BeginContour,
           TraceContours, SendContours, GetBasicStats, BeginStats
  <2>2. ASSUME NEW c \in Channels, StatsOfOtherChannel(w, c) PROVE A
    BY <2>2 DEF StatsOfOtherChannel, IInv, TypeOK
  <2>3. CASE CalcBasicStats(w)
    <3> SUFFICES ASSUME NEW c \in Channels, stats'[c] # stats[c], ~late, ~failed,
                        ~OnDemand(z_index), ~job[w].overlap
                 PROVE  stats'[c] = c
      BY <2>3 DEF CalcBasicStats
    <3>1. HistoryOK(w) /\ StatsOK(w) /\ job[w].pc = "stats"
      BY <2>3 DEF CalcBasicStats, DataFollows, WorkerOK
    <3>2. cache_valid
      BY <3>1, IdleValid DEF HistoryOK
    <3>3. cached = z_index /\ cache_writer = "free" /\ job[w].z = z_index
      BY <3>1, <3>2 DEF IInv, Current, StatsOK, StatsStates
    <3>4. Actors \cap {cache_writer} = {}
      BY <3>3, ActorsAssumption DEF Actors
    <3>5. stats' = [stats EXCEPT ![z_index] = z_index]
      BY <2>3, <3>3, <3>4 DEF CalcBasicStats
    <3> QED BY <3>5 DEF IInv, TypeOK
  <2> QED BY <2>1, <2>2, <2>3
<1> HIDE DEF A
<1>2. Spec => [][A]_stats
  BY <1>1, Inductive, DataInductive, PTL DEF Spec
<1> QED BY <1>2 DEF A, StatsOfTheirChannel

-----------------------------------------------------------------------------
(***************************************************************************)
(* Proofs about ViewRequests, for any numbers of tasks, requests and       *)
(* openings of the file.                                                   *)
(*                                                                         *)
(* Every request has a task because the flag is cleared in the step that   *)
(* empties the queue, under the mutex that guards both, and because a      *)
(* close clears the flag and leaves tasks and queue as they are.           *)
(***************************************************************************)

ViewStages == {"free", "queued", "locked", "execute"}
RequestNumbers == 0..MaxRequests

ViewTyped ==
    /\ open \in BOOLEAN /\ opens \in 0..MaxOpens
    /\ z \in RequestNumbers /\ cursor \in RequestNumbers
    /\ channel_queue \in RequestNumbers /\ latest_cursor \in RequestNumbers
    /\ task_active \in BOOLEAN
    /\ kind \in [Tasks -> Kinds]
    /\ stage \in [Tasks -> ViewStages]
    /\ request \in [Tasks -> RequestNumbers]
    /\ sent \in RequestNumbers
    /\ asked \in [Kinds -> RequestNumbers] /\ taken \in [Kinds -> RequestNumbers]
    /\ concurrent \in BOOLEAN /\ broken \in BOOLEAN

\* The mutex is held by a task that is inside, and only channel tasks take it.
HolderInside ==
    /\ channel_mutex = "free" \/ (channel_mutex \in Tasks /\ stage[channel_mutex] = "locked")
    /\ \A t \in Tasks : stage[t] = "locked" => kind[t] = "channel"

\* A new request is later than all before it.
AskedBefore == \A k \in Kinds : asked[k] <= sent

ViewIInv == ViewTyped /\ HolderInside /\ AskedBefore /\ RequestHasTask

-----------------------------------------------------------------------------
LEMMA ViewInitOK == ViewInit => ViewIInv
<1> SUFFICES ASSUME ViewInit PROVE ViewIInv
  OBVIOUS
<1>1. 0 \in RequestNumbers /\ 1 \in 0..MaxOpens
  BY BoundsAssumption DEF RequestNumbers
<1>2. ViewTyped
  BY <1>1 DEF ViewInit, ViewTyped, ViewStages, Kinds
<1>3. HolderInside /\ AskedBefore /\ RequestHasTask
  BY DEF ViewInit, HolderInside, AskedBefore, RequestHasTask, Kinds
<1> QED BY <1>2, <1>3 DEF ViewIInv

\* What is left of the invariant when no task leaves Coming and the channel
\* queue is as it was.
LEMMA ComingKept ==
    ASSUME RequestHasTask, Coming \subseteq Coming', UNCHANGED channel_queue,
           task_active' => task_active, broken => broken'
    PROVE  RequestHasTask'
BY DEF RequestHasTask

\* A new task is queued.
LEMMA QueueEffect ==
    ASSUME ViewTyped, HolderInside, NEW t \in Tasks, NEW k \in Kinds, QueueTask(t, k)
    PROVE  /\ kind' \in [Tasks -> Kinds] /\ stage' \in [Tasks -> ViewStages]
           /\ \A u \in Tasks \ {t} : kind'[u] = kind[u] /\ stage'[u] = stage[u]
           /\ kind'[t] = k /\ stage'[t] = "queued" /\ stage[t] = "free"
           /\ Coming \subseteq Coming'
<1>1. /\ kind' \in [Tasks -> Kinds] /\ stage' \in [Tasks -> ViewStages]
      /\ \A u \in Tasks \ {t} : kind'[u] = kind[u] /\ stage'[u] = stage[u]
      /\ kind'[t] = k /\ stage'[t] = "queued" /\ stage[t] = "free"
  BY DEF QueueTask, ViewTyped, ViewStages
<1>2. Coming \subseteq Coming'
  BY <1>1 DEF Coming
<1> QED BY <1>1, <1>2

-----------------------------------------------------------------------------
\* A request is numbered and asked for.
LEMMA AskEffect ==
    ASSUME ViewTyped, AskedBefore, sent < MaxRequests, sent' = sent + 1,
           NEW k \in Kinds, asked' = [asked EXCEPT ![k] = sent']
    PROVE  /\ sent' \in RequestNumbers /\ sent' # 0 /\ asked' \in [Kinds -> RequestNumbers] /\ AskedBefore'
           /\ sent' > asked[k] /\ asked'[k] = sent'
           /\ \A j \in Kinds : j # k => asked'[j] = asked[j]
<1>1. sent \in RequestNumbers /\ asked \in [Kinds -> RequestNumbers] /\ \A j \in Kinds : asked[j] <= sent
  BY DEF ViewTyped, AskedBefore
<1>2. sent' \in RequestNumbers /\ sent' # 0 /\ sent < sent'
  BY <1>1, BoundsAssumption DEF RequestNumbers
<1>3. /\ asked' \in [Kinds -> RequestNumbers] /\ asked'[k] = sent'
      /\ \A j \in Kinds : j # k => asked'[j] = asked[j]
  BY <1>1, <1>2
<1>4. \A j \in Kinds : asked'[j] <= sent' /\ asked[j] < sent'
  BY <1>1, <1>2, <1>3, BoundsAssumption DEF RequestNumbers
<1> QED BY <1>2, <1>3, <1>4 DEF AskedBefore

LEMMA SetImageChannelsStep ==
    ASSUME ViewIInv, NEW t \in Tasks, ~broken, SetChannels(t)
    PROVE  ViewIInv'
<1>1. ViewTyped /\ HolderInside /\ AskedBefore /\ RequestHasTask /\ "channel" \in Kinds
  BY DEF ViewIInv, Kinds
<1>2. /\ sent < MaxRequests /\ channel_mutex = "free" /\ sent' = sent + 1
      /\ asked' = [asked EXCEPT !["channel"] = sent']
      /\ channel_queue' = sent' /\ task_active' = TRUE
      /\ IF task_active THEN UNCHANGED <<kind, stage>> ELSE QueueTask(t, "channel")
      /\ UNCHANGED <<open, opens, z, cursor, channel_mutex, latest_cursor, request,
                     taken, concurrent, broken>>
  BY DEF SetChannels
<1>3. sent' \in RequestNumbers /\ asked' \in [Kinds -> RequestNumbers] /\ AskedBefore'
  BY <1>1, <1>2, AskEffect
<1>4. CASE task_active
  <2>1. Coming # {} /\ UNCHANGED <<kind, stage>>
    BY <1>1, <1>2, <1>4 DEF RequestHasTask
  <2>2. ViewTyped' /\ HolderInside'
    BY <1>1, <1>2, <1>3, <2>1 DEF ViewTyped, HolderInside
  <2>3. RequestHasTask'
    BY <2>1 DEF RequestHasTask, Coming
  <2> QED BY <1>3, <2>2, <2>3 DEF ViewIInv
<1>5. CASE ~task_active
  <2>1. /\ kind' \in [Tasks -> Kinds] /\ stage' \in [Tasks -> ViewStages]
        /\ \A u \in Tasks \ {t} : kind'[u] = kind[u] /\ stage'[u] = stage[u]
        /\ kind'[t] = "channel" /\ stage'[t] = "queued"
    BY <1>1, <1>2, <1>5, QueueEffect
  <2>2. ViewTyped' /\ HolderInside'
    BY <1>1, <1>2, <1>3, <2>1 DEF ViewTyped, HolderInside
  <2>3. RequestHasTask'
    BY <2>1 DEF RequestHasTask, Coming
  <2> QED BY <1>3, <2>2, <2>3 DEF ViewIInv
<1> QED BY <1>4, <1>5

LEMMA SetCursorStep ==
    ASSUME ViewIInv, NEW t \in Tasks, SetCursor(t)
    PROVE  ViewIInv'
<1>1. ViewTyped /\ HolderInside /\ AskedBefore /\ RequestHasTask /\ "cursor" \in Kinds
  BY DEF ViewIInv, Kinds
<1>2. /\ sent < MaxRequests /\ sent' = sent + 1 /\ latest_cursor' = sent'
      /\ asked' = [asked EXCEPT !["cursor"] = sent'] /\ QueueTask(t, "cursor")
      /\ UNCHANGED <<open, opens, z, cursor, channel_queue, task_active, channel_mutex,
                     request, taken, concurrent, broken>>
  BY DEF SetCursor
<1>3. sent' \in RequestNumbers /\ asked' \in [Kinds -> RequestNumbers] /\ AskedBefore'
  BY <1>1, <1>2, AskEffect
<1>4. /\ kind' \in [Tasks -> Kinds] /\ stage' \in [Tasks -> ViewStages]
      /\ \A u \in Tasks \ {t} : kind'[u] = kind[u] /\ stage'[u] = stage[u]
      /\ stage'[t] = "queued" /\ stage[t] = "free" /\ Coming \subseteq Coming'
  BY <1>1, <1>2, QueueEffect
<1>5. ViewTyped'
  BY <1>1, <1>2, <1>3, <1>4 DEF ViewTyped
<1>6. HolderInside'
  BY <1>1, <1>2, <1>4 DEF HolderInside
<1>7. RequestHasTask'
  BY <1>1, <1>2, <1>4, ComingKept
<1> QED BY <1>3, <1>5, <1>6, <1>7 DEF ViewIInv

\* A close, and an open that closes the file before.
LEMMA FileStep ==
    ASSUME ViewIInv, CloseFile \/ OpenFile
    PROVE  ViewIInv'
<1>1. ViewTyped /\ HolderInside /\ AskedBefore /\ RequestHasTask
  BY DEF ViewIInv
<1>2. /\ open' \in BOOLEAN /\ latest_cursor' \in {0, latest_cursor}
      /\ z' \in {0, z} /\ cursor' \in {0, cursor}
      /\ opens' = opens \/ (opens < MaxOpens /\ opens' = opens + 1)
      /\ UNCHANGED <<channel_queue, kind, stage, request, sent, asked, taken, concurrent>>
      /\ DeleteFrame \/ UNCHANGED <<task_active, channel_mutex, broken>>
  BY <1>1 DEF CloseFile, OpenFile, ViewTyped
<1>3. /\ task_active' \in BOOLEAN /\ broken' \in BOOLEAN
      /\ channel_mutex' \in {"free", channel_mutex}
      /\ task_active' => task_active
      /\ broken => broken'
  <2>1. CASE DeleteFrame
    <3>1. task_active' = FALSE
      BY <2>1 DEF DeleteFrame
    <3>2. channel_mutex' = "free"
      BY <2>1 DEF DeleteFrame
    <3>3. broken' = (broken \/ channel_mutex # "free")
      BY <2>1, Zenon DEF DeleteFrame
    <3>4. broken' \in BOOLEAN
      BY <3>3
    <3>5. broken => broken'
      BY <3>3
    <3>6. QED
      BY <3>1, <3>2, <3>4, <3>5
  <2>2. CASE UNCHANGED <<task_active, channel_mutex, broken>>
    <3>1. task_active' = task_active /\ channel_mutex' = channel_mutex /\ broken' = broken
      BY <2>2
    <3>2. task_active \in BOOLEAN /\ broken \in BOOLEAN
      BY <1>1 DEF ViewTyped
    <3>3. QED
      BY <3>1, <3>2
  <2>3. QED
    BY <1>2, <2>1, <2>2
<1>4. 0 \in RequestNumbers /\ opens' \in 0..MaxOpens
  BY <1>1, <1>2, BoundsAssumption DEF ViewTyped, RequestNumbers
<1>5. ViewTyped'
  <2>1. z' \in RequestNumbers /\ cursor' \in RequestNumbers /\ latest_cursor' \in RequestNumbers
    BY <1>1, <1>2, <1>4 DEF ViewTyped
  <2> QED BY <1>1, <1>2, <1>3, <1>4, <2>1 DEF ViewTyped
<1>6. HolderInside' /\ AskedBefore'
  BY <1>1, <1>2, <1>3 DEF HolderInside, AskedBefore
<1>7. Coming' = Coming
  BY <1>2 DEF Coming
<1>8. RequestHasTask'
  BY <1>1, <1>2, <1>3, <1>7, ComingKept
<1> QED BY <1>5, <1>6, <1>8 DEF ViewIInv

-----------------------------------------------------------------------------
LEMMA LockStep ==
    ASSUME ViewIInv, NEW t \in Tasks, LockChannel(t)
    PROVE  ViewIInv'
<1>1. ViewTyped /\ HolderInside /\ AskedBefore /\ RequestHasTask
  BY DEF ViewIInv
<1>2. /\ kind[t] = "channel" /\ stage[t] = "queued" /\ channel_mutex' = t
      /\ stage' = [stage EXCEPT ![t] = "locked"]
      /\ UNCHANGED <<open, opens, z, cursor, channel_queue, task_active, latest_cursor,
                     kind, request, sent, asked, taken, concurrent, broken>>
  BY DEF LockChannel
<1>3. /\ stage' \in [Tasks -> ViewStages] /\ stage'[t] = "locked"
      /\ \A u \in Tasks \ {t} : stage'[u] = stage[u]
  BY <1>1, <1>2 DEF ViewTyped, ViewStages
<1>4. ViewTyped' /\ HolderInside' /\ AskedBefore'
  BY <1>1, <1>2, <1>3 DEF ViewTyped, HolderInside, AskedBefore
<1>5. Coming \subseteq Coming'
  BY <1>2, <1>3 DEF Coming
<1>6. RequestHasTask'
  BY <1>1, <1>2, <1>5, ComingKept
<1> QED BY <1>4, <1>6 DEF ViewIInv

\* A task takes what waits, or ends.
LEMMA TakeEffect ==
    ASSUME ViewTyped, NEW t \in Tasks, NEW n \in RequestNumbers, TakeRequest(t, n)
    PROVE  /\ request' \in [Tasks -> RequestNumbers] /\ stage' \in [Tasks -> ViewStages]
           /\ taken' \in [Kinds -> RequestNumbers] /\ concurrent' \in BOOLEAN
           /\ \A u \in Tasks \ {t} : stage'[u] = stage[u]
           /\ stage'[t] \in {"free", "execute"}
           /\ \A k \in Kinds : taken'[k] = IF k = kind[t] /\ n # 0 THEN n ELSE taken[k]
<1>1. request' \in [Tasks -> RequestNumbers]
  BY DEF TakeRequest, ViewTyped
<1>2. /\ stage' \in [Tasks -> ViewStages] /\ stage'[t] \in {"free", "execute"}
      /\ \A u \in Tasks \ {t} : stage'[u] = stage[u]
  BY DEF TakeRequest, ViewTyped, ViewStages
<1>3. /\ taken' \in [Kinds -> RequestNumbers]
      /\ \A k \in Kinds : taken'[k] = IF k = kind[t] /\ n # 0 THEN n ELSE taken[k]
  BY DEF TakeRequest, ViewTyped
<1>4. concurrent' \in BOOLEAN
  BY DEF TakeRequest, ViewTyped
<1> QED BY <1>1, <1>2, <1>3, <1>4

LEMMA PopStep ==
    ASSUME ViewIInv, NEW t \in Tasks, PopChannel(t)
    PROVE  ViewIInv'
<1>1. ViewTyped /\ HolderInside /\ AskedBefore /\ channel_queue \in RequestNumbers
  BY DEF ViewIInv, ViewTyped
<1>2. /\ TakeRequest(t, channel_queue) /\ channel_queue' = 0 /\ task_active' = FALSE
      /\ channel_mutex' = "free"
      /\ UNCHANGED <<open, opens, z, cursor, latest_cursor, kind, sent, asked, broken>>
  BY DEF PopChannel
<1>3. /\ request' \in [Tasks -> RequestNumbers] /\ stage' \in [Tasks -> ViewStages]
      /\ taken' \in [Kinds -> RequestNumbers] /\ concurrent' \in BOOLEAN
      /\ \A u \in Tasks \ {t} : stage'[u] = stage[u]
      /\ stage'[t] \in {"free", "execute"}
  BY <1>1, <1>2, TakeEffect
<1>4. 0 \in RequestNumbers
  BY BoundsAssumption DEF RequestNumbers
<1>5. ViewTyped'
  BY <1>1, <1>2, <1>3, <1>4 DEF ViewTyped
<1>6. HolderInside' /\ AskedBefore'
  BY <1>1, <1>2, <1>3 DEF HolderInside, AskedBefore
<1>7. RequestHasTask'
  BY <1>2 DEF RequestHasTask
<1> QED BY <1>5, <1>6, <1>7 DEF ViewIInv

\* Steps of a task that has no lock to give back and looks into no queue.
LEMMA OtherStep ==
    ASSUME ViewIInv, NEW t \in Tasks, stage[t] # "locked",
           kind[t] = "channel" => stage[t] \notin {"queued", "locked"},
           stage' \in [Tasks -> ViewStages], stage'[t] \in {"free", "execute"},
           \A u \in Tasks \ {t} : stage'[u] = stage[u],
           UNCHANGED <<kind, channel_queue, task_active, channel_mutex, broken, asked, sent>>,
           ViewTyped'
    PROVE  ViewIInv'
<1>1. HolderInside /\ AskedBefore /\ RequestHasTask
  BY DEF ViewIInv
<1>2. HolderInside' /\ AskedBefore'
  BY <1>1 DEF HolderInside, AskedBefore
<1>3. Coming \subseteq Coming'
  BY DEF Coming
<1>4. RequestHasTask'
  BY <1>1, <1>3, ComingKept
<1> QED BY <1>2, <1>4 DEF ViewIInv

LEMMA ExecuteStep ==
    ASSUME ViewIInv, NEW t \in Tasks, ExecuteChannel(t) \/ ExecuteCursor(t)
    PROVE  ViewIInv'
<1>1. ViewTyped
  BY DEF ViewIInv
<1>2. /\ stage[t] = "execute" /\ stage' = [stage EXCEPT ![t] = "free"]
      /\ request' = [request EXCEPT ![t] = 0]
      /\ z' \in {z, request[t]} /\ cursor' \in {cursor, request[t]}
      /\ UNCHANGED <<open, opens, channel_queue, task_active, channel_mutex,
                     latest_cursor, kind, sent, asked, taken, concurrent, broken>>
  BY DEF ExecuteChannel, ExecuteCursor
<1>3. 0 \in RequestNumbers
  BY BoundsAssumption DEF RequestNumbers
<1>4. ViewTyped'
  BY <1>1, <1>2, <1>3 DEF ViewTyped, ViewStages
<1> QED BY <1>1, <1>2, <1>4, OtherStep DEF ViewTyped

LEMMA TakeCursorStep ==
    ASSUME ViewIInv, NEW t \in Tasks, TakeCursor(t)
    PROVE  ViewIInv'
<1>1. ViewTyped /\ latest_cursor \in RequestNumbers
  BY DEF ViewIInv, ViewTyped
<1>2. /\ kind[t] = "cursor" /\ stage[t] = "queued"
      /\ TakeRequest(t, latest_cursor) /\ latest_cursor' = 0
      /\ UNCHANGED <<open, opens, z, cursor, channel_queue, task_active, channel_mutex,
                     kind, sent, asked, broken>>
  BY DEF TakeCursor
<1>3. /\ request' \in [Tasks -> RequestNumbers] /\ stage' \in [Tasks -> ViewStages]
      /\ taken' \in [Kinds -> RequestNumbers] /\ concurrent' \in BOOLEAN
      /\ \A u \in Tasks \ {t} : stage'[u] = stage[u]
      /\ stage'[t] \in {"free", "execute"}
  BY <1>1, <1>2, TakeEffect
<1>4. 0 \in RequestNumbers
  BY BoundsAssumption DEF RequestNumbers
<1>5. ViewTyped'
  BY <1>1, <1>2, <1>3, <1>4 DEF ViewTyped
<1> QED BY <1>2, <1>3, <1>5, OtherStep

\* The strengthening is inductive.
LEMMA NextOK == ASSUME ViewIInv, [ViewNext]_viewVars PROVE ViewIInv'
<1>1. CASE UNCHANGED viewVars
  BY <1>1 DEF viewVars, viewState, ViewIInv, ViewTyped, HolderInside, AskedBefore, RequestHasTask, Coming
<1>2. CASE \E t \in Tasks : (~broken /\ SetChannels(t)) \/ SetCursor(t)
  BY <1>2, SetImageChannelsStep, SetCursorStep
<1>3. CASE \E t \in Tasks : Execute(t)
  BY <1>3, LockStep, PopStep, ExecuteStep, TakeCursorStep DEF Execute
<1>4. CASE CloseFile \/ OpenFile
  BY <1>4, FileStep
<1> QED BY <1>1, <1>2, <1>3, <1>4 DEF ViewNext

-----------------------------------------------------------------------------
\* The strengthening holds in every state.
THEOREM ViewRequestsInductive == ViewSpec => []ViewIInv
BY ViewInitOK, NextOK, PTL DEF ViewSpec

\* Every state has the types declared.
THEOREM ViewRequestsTypeCorrect == ViewSpec => []ViewTypeOK
<1>1. ViewIInv => ViewTypeOK
  BY DEF ViewIInv, ViewTyped, HolderInside, ViewTypeOK, ViewStages, RequestNumbers
<1> QED BY <1>1, ViewRequestsInductive, PTL

\* A request in the queue has a task on its way, whatever is closed and
\* reopened: the flag never says "active" for nothing.
THEOREM RequestsHaveTasks == ViewSpec => []RequestHasTask
<1>1. ViewIInv => RequestHasTask
  BY DEF ViewIInv
<1> QED BY <1>1, ViewRequestsInductive, PTL

-----------------------------------------------------------------------------
(***************************************************************************)
(* Refinement: both queues are a LatestValue, but for its liveness.        *)
(***************************************************************************)
LEMMA ChannelStep ==
    ASSUME ViewIInv, [ViewNext]_viewVars
    PROVE  [ChannelQueue!Next]_(ChannelQueue!vars)
<1> USE DEF ChannelQueue!vars
<1>1. ViewTyped /\ HolderInside /\ AskedBefore /\ "channel" \in Kinds /\ "cursor" \in Kinds
  BY DEF ViewIInv, Kinds
<1>2. CASE UNCHANGED viewVars
  BY <1>2 DEF viewVars, viewState
<1>3. ASSUME NEW t \in Tasks, SetChannels(t) PROVE ChannelQueue!Next
  <2>1. /\ sent < MaxRequests /\ sent' = sent + 1 /\ channel_queue' = sent'
        /\ asked' = [asked EXCEPT !["channel"] = sent'] /\ UNCHANGED taken
    BY <1>3 DEF SetChannels
  <2>2. sent' \in RequestNumbers /\ sent' # 0 /\ sent' > asked["channel"] /\ asked'["channel"] = sent'
    BY <1>1, <2>1, AskEffect
  <2>3. sent' \in 1..MaxRequests
    BY <2>2, BoundsAssumption DEF RequestNumbers
  <2> QED BY <2>1, <2>2, <2>3 DEF ChannelQueue!Next, ChannelQueue!Put
<1>4. ASSUME NEW t \in Tasks, SetCursor(t) PROVE UNCHANGED ChannelQueue!vars
  BY <1>1, <1>4 DEF SetCursor, ViewTyped
<1>5. ASSUME NEW t \in Tasks, PopChannel(t) PROVE [ChannelQueue!Next]_(ChannelQueue!vars)
  <2>1. /\ TakeRequest(t, channel_queue) /\ channel_queue \in RequestNumbers
        /\ channel_queue' = 0 /\ UNCHANGED asked /\ kind[t] = "channel"
    BY <1>1, <1>5 DEF PopChannel, ViewTyped, HolderInside
  <2>2. taken'["channel"] = IF channel_queue # 0 THEN channel_queue ELSE taken["channel"]
    BY <1>1, <2>1, TakeEffect
  <2> QED BY <2>1, <2>2 DEF ChannelQueue!Next, ChannelQueue!Take
<1>6. ASSUME NEW t \in Tasks, TakeCursor(t) PROVE UNCHANGED ChannelQueue!vars
  <2>1. /\ TakeRequest(t, latest_cursor) /\ latest_cursor \in RequestNumbers
        /\ UNCHANGED <<asked, channel_queue>> /\ kind[t] = "cursor"
    BY <1>1, <1>6 DEF TakeCursor, ViewTyped
  <2>2. taken'["channel"] = taken["channel"]
    BY <1>1, <2>1, TakeEffect
  <2> QED BY <2>1, <2>2
<1>7. ASSUME NEW t \in Tasks, LockChannel(t) \/ ExecuteChannel(t) \/ ExecuteCursor(t)
      PROVE  UNCHANGED ChannelQueue!vars
  BY <1>7 DEF LockChannel, ExecuteChannel, ExecuteCursor
<1>8. CASE CloseFile \/ OpenFile
  BY <1>8 DEF CloseFile, OpenFile
<1> QED BY <1>2, <1>3, <1>4, <1>5, <1>6, <1>7, <1>8 DEF ViewNext, Execute

LEMMA CursorStep ==
    ASSUME ViewIInv, [ViewNext]_viewVars
    PROVE  [Cursors!Next]_(Cursors!vars)
<1> USE DEF Cursors!vars
<1>1. ViewTyped /\ HolderInside /\ AskedBefore /\ "channel" \in Kinds /\ "cursor" \in Kinds
  BY DEF ViewIInv, Kinds
<1>2. CASE UNCHANGED viewVars
  BY <1>2 DEF viewVars, viewState
<1>3. ASSUME NEW t \in Tasks, SetCursor(t) PROVE Cursors!Next
  <2>1. /\ sent < MaxRequests /\ sent' = sent + 1 /\ latest_cursor' = sent'
        /\ asked' = [asked EXCEPT !["cursor"] = sent'] /\ UNCHANGED taken
    BY <1>3 DEF SetCursor
  <2>2. sent' \in RequestNumbers /\ sent' # 0 /\ sent' > asked["cursor"] /\ asked'["cursor"] = sent'
    BY <1>1, <2>1, AskEffect
  <2>3. sent' \in 1..MaxRequests
    BY <2>2, BoundsAssumption DEF RequestNumbers
  <2> QED BY <2>1, <2>2, <2>3 DEF Cursors!Next, Cursors!Put
<1>4. ASSUME NEW t \in Tasks, SetChannels(t) PROVE UNCHANGED Cursors!vars
  BY <1>1, <1>4 DEF SetChannels, ViewTyped
<1>5. ASSUME NEW t \in Tasks, TakeCursor(t) PROVE [Cursors!Next]_(Cursors!vars)
  <2>1. /\ TakeRequest(t, latest_cursor) /\ latest_cursor \in RequestNumbers
        /\ latest_cursor' = 0 /\ UNCHANGED asked /\ kind[t] = "cursor"
    BY <1>1, <1>5 DEF TakeCursor, ViewTyped
  <2>2. taken'["cursor"] = IF latest_cursor # 0 THEN latest_cursor ELSE taken["cursor"]
    BY <1>1, <2>1, TakeEffect
  <2> QED BY <2>1, <2>2 DEF Cursors!Next, Cursors!Take
<1>6. ASSUME NEW t \in Tasks, PopChannel(t) PROVE UNCHANGED Cursors!vars
  <2>1. /\ TakeRequest(t, channel_queue) /\ channel_queue \in RequestNumbers
        /\ UNCHANGED <<asked, latest_cursor>> /\ kind[t] = "channel"
    BY <1>1, <1>6 DEF PopChannel, ViewTyped, HolderInside
  <2>2. taken'["cursor"] = taken["cursor"]
    BY <1>1, <2>1, TakeEffect
  <2> QED BY <2>1, <2>2
<1>7. ASSUME NEW t \in Tasks, LockChannel(t) \/ ExecuteChannel(t) \/ ExecuteCursor(t)
      PROVE  UNCHANGED Cursors!vars
  BY <1>7 DEF LockChannel, ExecuteChannel, ExecuteCursor
<1>8. CASE CloseFile \/ OpenFile
  <2>1. UNCHANGED <<asked, taken>> /\ latest_cursor' \in {0, latest_cursor}
    BY <1>8 DEF CloseFile, OpenFile
  <2> QED BY <2>1 DEF Cursors!Next, Cursors!Drop
<1> QED BY <1>2, <1>3, <1>4, <1>5, <1>6, <1>7, <1>8 DEF ViewNext, Execute

\* Channel requests wait in a queue that keeps the latest one and loses only
\* what a later one replaced.
THEOREM ChannelRefinement == ViewSpec => ChannelQueueKeepsLatest
<1>1. ViewInit => ChannelQueue!Init
  BY DEF ViewInit, ChannelQueue!Init, Kinds
<1> QED BY <1>1, ChannelStep, ViewRequestsInductive, PTL DEF ViewSpec, ChannelQueueKeepsLatest

\* So do cursor requests, which are dropped with their file.
THEOREM CursorRefinement == ViewSpec => Cursors!Init /\ [][Cursors!Next]_(Cursors!vars)
<1>1. ViewInit => Cursors!Init
  BY DEF ViewInit, Cursors!Init, Kinds
<1> QED BY <1>1, CursorStep, ViewRequestsInductive, PTL DEF ViewSpec
=============================================================================
