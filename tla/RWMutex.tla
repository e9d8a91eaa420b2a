------------------------------- MODULE RWMutex -------------------------------
(***************************************************************************)
(* queuing_rw_mutex (Concurrency.h): readers share, writers queue up.      *)
(* Frame guards its image cache with one (Frame::_cache_mutex) and         *)
(* CursorSettings its pending cursors.                                     *)
(*                                                                         *)
(* Every method runs under the internal mutex _mtx and only a wait on a    *)
(* condition variable gives it up, so a step is a method call up to its    *)
(* return or to its wait, and the return from a wait is a step of its own  *)
(* ("woken": notified, not yet holding _mtx again).  wait is taken to      *)
(* return only after a notification; none of the waits has a predicate.    *)
(***************************************************************************)
EXTENDS Naturals, Sequences, FiniteSets

CONSTANTS Threads,
          Nesters     \* threads whose read section enters a second one, as
                      \* Frame::ContourImage does by calling GetRasterData

ASSUME ThreadsAssumption == IsFiniteSet(Threads) /\ Nesters \subseteq Threads

VARIABLES reader_count,     \* _reader_count
          writer_count,     \* _writer_count
          writers_cv_list,  \* _writers_cv_list: the thread behind each condition
                            \* variable, newest first
          at,               \* where each thread is: running or in a wait
          reading,          \* threads inside a read section
          nested,           \* those of them inside a second one
          writing           \* threads inside a write section

mutexState == <<reader_count, writer_count, writers_cv_list, at, reading, nested, writing>>

VARIABLES ahead,      \* history: <<v, w>>: v called writer_enter before w did,
                      \* and neither has left
          late        \* history: a reader entered after its wait although a
                      \* writer had called writer_enter by then

mutexVars == <<mutexState, ahead, late>>

InState(s) == {t \in Threads : at[t] = s}
\* From writer_enter to writer_leave.
Writers == writing \cup InState("wwait") \cup InState("wwoken")
Inside(t) == t \in reading \/ t \in writing

MutexTypeOK ==
    /\ reader_count \in Nat /\ writer_count \in Nat
    /\ writers_cv_list \in Seq(Threads)
    /\ at \in [Threads -> {"run", "rwait", "rwoken", "wwait", "wwoken"}]
    /\ reading \subseteq Threads /\ nested \subseteq reading /\ writing \subseteq Threads
    /\ ahead \subseteq Threads \X Threads
    /\ late \in BOOLEAN

MutexInit ==
    /\ reader_count = 0 /\ writer_count = 0
    /\ writers_cv_list = <<>>
    /\ at = [t \in Threads |-> "run"]
    /\ reading = {} /\ nested = {} /\ writing = {}
    /\ ahead = {}
    /\ late = FALSE

-----------------------------------------------------------------------------
\* ++_reader_count: t enters a read section, or the second one inside it.
CountReader(t) ==
    /\ reader_count' = reader_count + 1
    /\ IF t \in reading
         THEN nested' = nested \cup {t} /\ UNCHANGED reading
         ELSE reading' = reading \cup {t} /\ UNCHANGED nested

\* reader_enter, up to its return or its wait.
ReaderEnter(t) ==
    /\ at[t] = "run" /\ t \notin writing /\ t \notin nested
    /\ t \in reading => t \in Nesters
    /\ IF writer_count > 0
         THEN at' = [at EXCEPT ![t] = "rwait"] /\ UNCHANGED <<reader_count, reading, nested>>
         ELSE CountReader(t) /\ UNCHANGED at
    /\ UNCHANGED <<writer_count, writers_cv_list, writing, ahead, late>>

\* The rest of reader_enter after its wait: _writer_count is not read again.
ReaderResume(t) ==
    /\ at[t] = "rwoken"
    /\ at' = [at EXCEPT ![t] = "run"]
    /\ CountReader(t)
    /\ late' = (late \/ writer_count > 0)
    /\ UNCHANGED <<writer_count, writers_cv_list, writing, ahead>>

\* Mutant of WriterEnter: only other writers are looked at.
WriterEnterPastReaders(t) ==
    /\ at[t] = "run" /\ ~Inside(t)
    /\ writer_count' = writer_count + 1
    /\ ahead' = ahead \cup (Writers \X {t})
    /\ IF writer_count' > 1
         THEN /\ writers_cv_list' = <<t>> \o writers_cv_list
              /\ at' = [at EXCEPT ![t] = "wwait"]
              /\ UNCHANGED writing
         ELSE writing' = writing \cup {t} /\ UNCHANGED <<writers_cv_list, at>>
    /\ UNCHANGED <<reader_count, reading, nested, late>>

\* writer_enter with queue_writer up to its wait.
WriterEnter(t) ==
    /\ at[t] = "run" /\ ~Inside(t)
    /\ writer_count' = writer_count + 1
    /\ ahead' = ahead \cup (Writers \X {t})
    /\ IF reader_count > 0 \/ writer_count' > 1
         THEN /\ writers_cv_list' = <<t>> \o writers_cv_list
              /\ at' = [at EXCEPT ![t] = "wwait"]
              /\ UNCHANGED writing
         ELSE writing' = writing \cup {t} /\ UNCHANGED <<writers_cv_list, at>>
    /\ UNCHANGED <<reader_count, reading, nested, late>>

\* The rest of queue_writer after its wait.
WriterResume(t) ==
    /\ at[t] = "wwoken"
    /\ at' = [at EXCEPT ![t] = "run"]
    /\ writing' = writing \cup {t}
    /\ UNCHANGED <<reader_count, writer_count, writers_cv_list, reading, nested, ahead, late>>

\* Mutant of DequeueOneWriter: the newest writer first.
DequeueNewestWriter ==
    IF writers_cv_list = <<>>
      THEN UNCHANGED <<writers_cv_list, at>>
      ELSE /\ at' = [at EXCEPT ![Head(writers_cv_list)] = "wwoken"]
           /\ writers_cv_list' = Tail(writers_cv_list)

\* dequeue_one_writer: the oldest condition variable is notified and dropped.
DequeueOneWriter ==
    IF writers_cv_list = <<>>
      THEN UNCHANGED <<writers_cv_list, at>>
      ELSE LET n == Len(writers_cv_list)
           IN  /\ at' = [at EXCEPT ![writers_cv_list[n]] = "wwoken"]
               /\ writers_cv_list' = SubSeq(writers_cv_list, 1, n - 1)

\* Mutant of ReaderLeave: the last reader out wakes nobody.
ReaderLeaveSilently(t) ==
    /\ at[t] = "run" /\ t \in reading
    /\ reader_count' = reader_count - 1
    /\ IF t \in nested
         THEN nested' = nested \ {t} /\ UNCHANGED reading
         ELSE reading' = reading \ {t} /\ UNCHANGED nested
    /\ UNCHANGED <<writer_count, writers_cv_list, at, writing, ahead, late>>

ReaderLeave(t) ==
    /\ at[t] = "run" /\ t \in reading
    /\ reader_count' = reader_count - 1
    /\ IF t \in nested
         THEN nested' = nested \ {t} /\ UNCHANGED reading
         ELSE reading' = reading \ {t} /\ UNCHANGED nested
    /\ IF reader_count' = 0 /\ writer_count > 0
         THEN DequeueOneWriter
         ELSE UNCHANGED <<writers_cv_list, at>>
    /\ UNCHANGED <<writer_count, writing, ahead, late>>

NotifyReaders == at' = [t \in Threads |-> IF at[t] = "rwait" THEN "rwoken" ELSE at[t]]

\* Mutant of WriterLeave: one reader is notified instead of all.
WriterLeaveNotifyOne(t) ==
    /\ at[t] = "run" /\ t \in writing
    /\ writer_count' = writer_count - 1
    /\ writing' = writing \ {t}
    /\ ahead' = {p \in ahead : t \notin {p[1], p[2]}}
    /\ IF writer_count' > 0
         THEN DequeueOneWriter
         ELSE /\ IF InState("rwait") = {}
                   THEN UNCHANGED at
                   ELSE \E r \in InState("rwait") : at' = [at EXCEPT ![r] = "rwoken"]
              /\ UNCHANGED writers_cv_list
    /\ UNCHANGED <<reader_count, reading, nested, late>>

WriterLeave(t) ==
    /\ at[t] = "run" /\ t \in writing
    /\ writer_count' = writer_count - 1
    /\ writing' = writing \ {t}
    /\ ahead' = {p \in ahead : t \notin {p[1], p[2]}}
    /\ IF writer_count' > 0
         THEN DequeueOneWriter
         ELSE NotifyReaders /\ UNCHANGED writers_cv_list
    /\ UNCHANGED <<reader_count, reading, nested, late>>

-----------------------------------------------------------------------------
Proceed(t) == ReaderResume(t) \/ WriterResume(t) \/ ReaderLeave(t) \/ WriterLeave(t)

MutexNext == \E t \in Threads : ReaderEnter(t) \/ WriterEnter(t) \/ Proceed(t)

MutexSpec == MutexInit /\ [][MutexNext]_mutexVars

\* A notified thread gets _mtx and a section ends; nobody has to enter one.
FairMutexSpec == MutexSpec /\ \A t \in Threads : WF_mutexVars(Proceed(t))

-----------------------------------------------------------------------------
(***************************************************************************)
(* Properties.                                                             *)
(***************************************************************************)

\* "many readers ... but only one writer at a time" (Concurrency.h:69).  The
\* code breaks it: see late.
Exclusion ==
    /\ \A v, w \in writing : v = w
    /\ writing # {} => reading = {}

\* The reader that does not look again after its wait is the only way in: as
\* long as no reader resumed late, the sections exclude each other.
ExclusionUnlessLate == ~late => Exclusion

\* "writes happen in the order that they first attempt to enter"
\* (Concurrency.h:70): nobody ahead of the writer inside is left.
WritersInOrder == ~late => \A t \in writing, v \in Threads : <<v, t>> \notin ahead

\* The counters are exact: a leaked count would block the mutex for ever.
CountsExact ==
    /\ reader_count = Cardinality(reading) + Cardinality(nested)
    /\ writer_count = Cardinality(Writers)

\* No wakeup is lost, late readers or not: a queued writer has somebody ahead
\* whose leaving dequeues it, and a reader that waits has a writer ahead.
NoLostWakeup ==
    /\ InState("wwait") # {} =>
         reading # {} \/ writing # {} \/ InState("wwoken") # {}
    /\ InState("rwait") # {} =>
         writing # {} \/ InState("wwait") # {} \/ InState("wwoken") # {}

\* A reader inside its read section that waits to enter another one: the
\* queued writer waits for it to leave and it waits for the writer.
SelfBlocked == \E t \in Threads : t \in reading /\ at[t] \in {"rwait", "rwoken"}

\* A queued writer enters, unless a reader blocks itself.
WriterEnters ==
    \A t \in Threads : at[t] = "wwait" ~> (t \in writing \/ SelfBlocked)
=============================================================================
