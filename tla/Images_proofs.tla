---------------------------- MODULE Images_proofs ----------------------------
(***************************************************************************)
(* Proofs about images: those that are generated, as moments and fits      *)
(* (Generators) and PV previews (PvPreview), the loaders kept of the files *)
(* (LoaderCache), what is saved of an image (SaveFiles), and hypercubes    *)
(* made of several files (Hypercubes).  They share no variable.            *)
(***************************************************************************)
EXTENDS Generators, PvPreview, LoaderCache, SaveFiles, Hypercubes, Profiles_proofs,
        FiniteSetTheorems, SequenceTheorems, TLAPS

-----------------------------------------------------------------------------
(***************************************************************************)
(* Moments.  The request that holds the image is the one that calculates:  *)
(* the rest frequency it saved is the image's own, and its generator is    *)
(* that of a request that has been made.                                   *)
(***************************************************************************)

MomentStates ==
    /\ \A j \in MomentJobs :
         /\ JobAt(j, {"idle", "reset", "wait", "set", "create", "restore", "respond", "open", "done"})
         /\ Running(j) <=> image_mutex = j
         /\ JobAt(j, {"wait"}) => moment_generator # NoJob
         /\ Running(j) => job[j].generator # NoJob
         /\ JobAt(j, {"idle", "reset"}) =>
              moment_generator # j /\ \A k \in MomentJobs : job[k].generator # j

Frequencies ==
    /\ image_mutex = NoJob => rest_frequency = 0
    /\ \A j \in MomentJobs :
         /\ Running(j) => job[j].saved = 0
         /\ JobAt(j, {"set"}) => rest_frequency = 0
         /\ JobAt(j, {"create"}) => rest_frequency = job[j].requested
         /\ job[j].used # 0 => job[j].used = job[j].requested /\ ~JobAt(j, {"idle"})

MomentStops ==
    \A j \in MomentJobs :
        /\ Running(j) /\ ~GeneratorGone(j) /\ job[j].generator \in moment_cancel
             => j \in stopped_running
        /\ job[j].cancel => /\ JobAt(j, {"respond", "open", "done"})
                            /\ j \in stopped_running \/ GeneratorGone(j)

Moments == MomentStates /\ Frequencies /\ MomentStops

(***************************************************************************)
(* Fits.  One at a time, so that the stop flag is of that one: it was      *)
(* running when the flag was set, and its residuals are zero only then.    *)
(***************************************************************************)

Fits ==
    /\ \A j, k \in FitJobs : Fitting(j) /\ Fitting(k) => j = k
    /\ \A j \in FitJobs :
         /\ JobAt(j, {"idle", "solve", "solved", "check", "respond", "open", "done"})
         /\ JobAt(j, {"idle"}) => ~job[j].zeroed
         /\ Fitting(j) /\ stop_fitting => j \in stopped_running
         /\ Fitting(j) /\ job[j].zeroed => stop_fitting
         /\ JobAt(j, {"check"}) /\ ~job[j].failed => job[j].values = "fitted" \/ stop_fitting
         /\ JobAt(j, {"respond", "open", "done"}) /\ ~job[j].failed => job[j].values = "fitted"
         /\ job[j].cancel => j \in stopped_running

(***************************************************************************)
(* File ids.  Each request moves the last id by two at most.  The ids of a *)
(* request that opened its images alone are behind the last one for good.  *)
(***************************************************************************)

Begun == {j \in Jobs : ~JobAt(j, {"idle"})}
ImagesOpened == {j \in Jobs : JobAt(j, {"open", "done"})}
RanAlone(j) == \A k \in Jobs : {j, k} \notin overlapped

Numbers ==
    /\ Cardinality(Begun) <= MaxRequests
    /\ last_file_id <= 2 * Cardinality(ImagesOpened)
    /\ \A j \in Jobs : JobAt(j, {"open"}) =>
         1 <= job[j].next_file_id /\ job[j].next_file_id + 1 <= 2 * Cardinality(ImagesOpened)

Images ==
    /\ \A j \in Jobs :
         /\ ~JobAt(j, {"open", "done"}) => job[j].ids = {}
         /\ JobAt(j, {"open"}) => /\ job[j].images # {}
                                  /\ \A id \in job[j].ids, n \in job[j].images :
                                       id < job[j].next_file_id + n
    /\ \A j, k \in Jobs : j # k /\ JobAt(j, {"open"}) /\ JobAt(k, {"open"}) => {j, k} \in overlapped
    /\ \A j \in Jobs : RanAlone(j) =>
         \A id \in job[j].ids :
            /\ frames[id] = j /\ id <= last_file_id
            /\ \A k \in Jobs \ {j} : JobAt(k, {"open"}) => id < job[k].next_file_id

GeneratorsIInv == GeneratorsTypeOK /\ Moments /\ Fits /\ Numbers /\ Images

-----------------------------------------------------------------------------
\* What steps leave of a request.
SameMoment(a, b) ==
    /\ b.requested = a.requested /\ b.saved = a.saved /\ b.used = a.used
    /\ b.generator = a.generator
SameFit(a, b) == b.failed = a.failed /\ b.values = a.values /\ b.zeroed = a.zeroed
SameFile(a, b) == b.images = a.images /\ b.next_file_id = a.next_file_id /\ b.ids = a.ids

\* Only request j changes.
Moves(j) ==
    /\ job' \in [Jobs -> JobRecords]
    /\ \A k \in Jobs \ {j} : job'[k] = job[k]

LEMMA JobSet ==
    ASSUME GeneratorsTypeOK, NEW j \in Jobs, NEW r \in JobRecords, job' = [job EXCEPT ![j] = r]
    PROVE  Moves(j) /\ job'[j] = r
BY DEF GeneratorsTypeOK, Moves

LEMMA RequestEffect ==
    ASSUME GeneratorsTypeOK, NEW j \in MomentJobs, NEW f \in RestFrequencies, RequestMoments(j, f)
    PROVE  /\ Moves(j)
           /\ job'[j].at = "reset"
           /\ job'[j].saved = job[j].saved /\ job'[j].used = job[j].used /\ job'[j].generator = job[j].generator
           /\ job'[j].cancel = job[j].cancel /\ SameFile(job[j], job'[j])
<1> DEFINE r == [job[j] EXCEPT !.at = "reset", !.requested = f]
<1>1. j \in Jobs /\ job[j] \in JobRecords
  BY DEF GeneratorsTypeOK, Jobs
<1>2. /\ r \in JobRecords
      /\ r.at = "reset"
      /\ r.saved = job[j].saved /\ r.used = job[j].used /\ r.generator = job[j].generator
      /\ r.cancel = job[j].cancel /\ SameFile(job[j], r)
  BY <1>1 DEF JobRecords, SameMoment, SameFit, SameFile
<1>3. job' = [job EXCEPT ![j] = r]
  BY <1>1 DEF RequestMoments, GeneratorsTypeOK
<1> HIDE DEF r
<1> QED BY <1>1, <1>2, <1>3, JobSet

LEMMA ResetEffect ==
    ASSUME GeneratorsTypeOK, NEW j \in MomentJobs, ResetGenerator(j)
    PROVE  /\ Moves(j)
           /\ job'[j].at = "wait" /\ SameMoment(job[j], job'[j])
           /\ job'[j].cancel = job[j].cancel /\ SameFile(job[j], job'[j])
<1> DEFINE r == [job[j] EXCEPT !.at = "wait"]
<1>1. j \in Jobs /\ job[j] \in JobRecords
  BY DEF GeneratorsTypeOK, Jobs
<1>2. /\ r \in JobRecords
      /\ r.at = "wait" /\ SameMoment(job[j], r)
      /\ r.cancel = job[j].cancel /\ SameFile(job[j], r)
  BY <1>1 DEF JobRecords, SameMoment, SameFit, SameFile
<1>3. job' = [job EXCEPT ![j] = r]
  BY <1>1 DEF ResetGenerator, GeneratorsTypeOK
<1> HIDE DEF r
<1> QED BY <1>1, <1>2, <1>3, JobSet

LEMMA BeginEffect ==
    ASSUME GeneratorsTypeOK, NEW j \in MomentJobs, BeginCalculation(j)
    PROVE  /\ Moves(j)
           /\ job'[j].at = "set" /\ job'[j].requested = job[j].requested /\ job'[j].used = job[j].used
           /\ job'[j].generator = moment_generator /\ job'[j].saved = rest_frequency
           /\ job'[j].cancel = job[j].cancel /\ SameFile(job[j], job'[j])
<1> DEFINE r == [job[j] EXCEPT !.at = "set", !.generator = moment_generator, !.saved = rest_frequency]
<1>1. j \in Jobs /\ job[j] \in JobRecords
  BY DEF GeneratorsTypeOK, Jobs
<1>2. /\ r \in JobRecords
      /\ r.at = "set" /\ r.requested = job[j].requested /\ r.used = job[j].used
      /\ r.generator = moment_generator /\ r.saved = rest_frequency
      /\ r.cancel = job[j].cancel /\ SameFile(job[j], r)
  BY <1>1 DEF JobRecords, SameMoment, SameFit, SameFile, GeneratorsTypeOK
<1>3. job' = [job EXCEPT ![j] = r]
  BY <1>1 DEF BeginCalculation, GeneratorsTypeOK
<1> HIDE DEF r
<1> QED BY <1>1, <1>2, <1>3, JobSet

LEMMA ResetImageEffect ==
    ASSUME GeneratorsTypeOK, NEW j \in MomentJobs, ResetImageMoments(j)
    PROVE  /\ Moves(j)
           /\ SameMoment(job[j], job'[j]) /\ SameFile(job[j], job'[j])
           /\ job'[j].cancel = job[j].cancel
           /\ \/ job'[j].at = "restore"
              \/ job'[j].at = "create" /\ rest_frequency' = job[j].requested
<1> DEFINE r == [job[j] EXCEPT !.at = "restore", !.failed = TRUE]
           q == [job[j] EXCEPT !.at = "create"]
<1>1. j \in Jobs /\ job[j] \in JobRecords
  BY DEF GeneratorsTypeOK, Jobs
<1>2. /\ r \in JobRecords /\ r.at = "restore"
      /\ SameMoment(job[j], r) /\ SameFile(job[j], r) /\ r.cancel = job[j].cancel
  BY <1>1 DEF JobRecords, SameMoment, SameFile
<1>3. /\ q \in JobRecords /\ q.at = "create"
      /\ SameMoment(job[j], q) /\ SameFile(job[j], q) /\ q.cancel = job[j].cancel
  BY <1>1 DEF JobRecords, SameMoment, SameFile
<1>4. \/ job' = [job EXCEPT ![j] = r]
      \/ job' = [job EXCEPT ![j] = q] /\ rest_frequency' = job[j].requested
  BY <1>1 DEF ResetImageMoments, GeneratorsTypeOK
<1> HIDE DEF r, q
<1> QED BY <1>1, <1>2, <1>3, <1>4, JobSet

LEMMA CreateEffect ==
    ASSUME GeneratorsTypeOK, NEW j \in MomentJobs, CreateMoments(j)
    PROVE  /\ Moves(j) /\ job'[j].at = "restore"
           /\ job'[j].requested = job[j].requested /\ job'[j].saved = job[j].saved
           /\ job'[j].generator = job[j].generator /\ job'[j].used = rest_frequency
           /\ job'[j].cancel = job[j].cancel /\ job'[j].ids = job[j].ids
<1> DEFINE r(failed, images) == [job[j] EXCEPT !.at = "restore", !.failed = failed,
                    !.used = rest_frequency, !.images = IF failed THEN {} ELSE images]
<1>1. j \in Jobs /\ job[j] \in JobRecords
  BY DEF GeneratorsTypeOK, Jobs
<1>2. ASSUME NEW failed \in BOOLEAN, NEW images \in SUBSET {0, 1}
      PROVE  /\ r(failed, images) \in JobRecords /\ r(failed, images).at = "restore"
             /\ r(failed, images).requested = job[j].requested
             /\ r(failed, images).saved = job[j].saved
             /\ r(failed, images).generator = job[j].generator
             /\ r(failed, images).used = rest_frequency
             /\ r(failed, images).cancel = job[j].cancel
             /\ r(failed, images).ids = job[j].ids
  BY <1>1, <1>2, ZenonT(40) DEF JobRecords, GeneratorsTypeOK
<1>3. PICK failed \in BOOLEAN, images \in {{0}, {0, 1}} :
         job' = [job EXCEPT ![j].at = "restore", ![j].failed = failed, ![j].used = rest_frequency,
                            ![j].images = IF failed THEN {} ELSE images]
  BY Zenon DEF CreateMoments
<1> DEFINE chosen == IF failed THEN {} ELSE images
<1>4. job' = [job EXCEPT ![j] = [job[j] EXCEPT !.at = "restore", !.failed = failed,
                                     !.used = rest_frequency, !.images = chosen]]
  <2> HIDE DEF chosen
  <2>1. job' = [job EXCEPT ![j].at = "restore", ![j].failed = failed, ![j].used = rest_frequency,
                            ![j].images = chosen]
    BY <1>3 DEF chosen
  <2> QED BY <1>1, <2>1 DEF GeneratorsTypeOK
<1>5. images \in SUBSET {0, 1} /\ job' = [job EXCEPT ![j] = r(failed, images)]
  BY <1>3, <1>4
<1> HIDE DEF r
<1>6. Moves(j) /\ job'[j] = r(failed, images)
  BY <1>1, <1>2, <1>3, <1>5, JobSet
<1> QED BY <1>2, <1>3, <1>5, <1>6

LEMMA FinishEffect ==
    ASSUME GeneratorsTypeOK, NEW j \in MomentJobs, FinishCalculation(j)
    PROVE  /\ Moves(j) /\ job'[j].at = "respond"
           /\ SameMoment(job[j], job'[j]) /\ SameFile(job[j], job'[j])
           /\ job'[j].cancel => GeneratorGone(j) \/ job[j].generator \in moment_cancel
<1> DEFINE r(cancel) == [job[j] EXCEPT !.at = "respond", !.cancel = cancel]
<1>1. j \in Jobs /\ job[j] \in JobRecords
  BY DEF GeneratorsTypeOK, Jobs
<1>2. ASSUME NEW cancel \in BOOLEAN
      PROVE  /\ r(cancel) \in JobRecords /\ r(cancel).at = "respond"
             /\ SameMoment(job[j], r(cancel)) /\ SameFile(job[j], r(cancel))
             /\ r(cancel).cancel = cancel
  BY <1>1, <1>2 DEF JobRecords, SameMoment, SameFile
<1>3. PICK cancel \in BOOLEAN :
         /\ ~GeneratorGone(j) => cancel = (job[j].generator \in moment_cancel)
         /\ job' = [job EXCEPT ![j] = r(cancel)]
  BY <1>1, Zenon DEF FinishCalculation, GeneratorsTypeOK
<1> HIDE DEF r
<1>4. Moves(j) /\ job'[j] = r(cancel)
  BY <1>1, <1>2, <1>3, JobSet
<1> QED BY <1>2, <1>3, <1>4

LEMMA StartEffect ==
    ASSUME GeneratorsTypeOK, NEW j \in FitJobs, NEW images \in SUBSET {0, 1}, StartFit(j, images)
    PROVE  /\ Moves(j)
           /\ job'[j].at = "solve" \/ (job'[j].at = "done" /\ job'[j].failed)
           /\ job'[j].zeroed = job[j].zeroed /\ job'[j].cancel = job[j].cancel
           /\ job'[j].ids = job[j].ids
<1> DEFINE r(at) == [job[j] EXCEPT !.at = at, !.failed = at = "done", !.images = images]
<1>1. j \in Jobs /\ job[j] \in JobRecords
  BY DEF GeneratorsTypeOK, Jobs
<1>2. ASSUME NEW at \in {"solve", "done"}
      PROVE  /\ r(at) \in JobRecords /\ r(at).at = at /\ r(at).failed = (at = "done")
             /\ r(at).zeroed = job[j].zeroed /\ r(at).cancel = job[j].cancel
             /\ r(at).ids = job[j].ids
  BY <1>1, <1>2, ZenonT(40) DEF JobRecords
<1>3. PICK at \in {"solve", "done"} : job' = [job EXCEPT ![j] = r(at)]
  BY <1>1, ZenonT(40) DEF StartFit, GeneratorsTypeOK
<1> HIDE DEF r
<1>4. Moves(j) /\ job'[j] = r(at)
  BY <1>1, <1>2, <1>3, JobSet
<1> QED BY <1>2, <1>3, <1>4

LEMMA IterateEffect ==
    ASSUME GeneratorsTypeOK, NEW j \in FitJobs, Iterate(j)
    PROVE  /\ Moves(j)
           /\ job'[j].at = job[j].at /\ job'[j].cancel = job[j].cancel
           /\ SameFile(job[j], job'[j])
<1> DEFINE r == [job[j] EXCEPT !.zeroed = TRUE]
<1>1. j \in Jobs /\ job[j] \in JobRecords
  BY DEF GeneratorsTypeOK, Jobs
<1>2. /\ r \in JobRecords
      /\ r.at = job[j].at /\ r.cancel = job[j].cancel
      /\ SameFile(job[j], r)
  BY <1>1 DEF JobRecords, SameMoment, SameFit, SameFile
<1>3. job' = [job EXCEPT ![j] = r]
  BY <1>1 DEF Iterate, GeneratorsTypeOK
<1> HIDE DEF r
<1> QED BY <1>1, <1>2, <1>3, JobSet

LEMMA SolveEffect ==
    ASSUME GeneratorsTypeOK, NEW j \in FitJobs, SolveSystem(j)
    PROVE  /\ Moves(j) /\ job'[j].at = "solved"
           /\ job'[j].zeroed = job[j].zeroed /\ job'[j].cancel = job[j].cancel
           /\ SameFile(job[j], job'[j])
<1> DEFINE r(failed) == [job[j] EXCEPT !.at = "solved", !.failed = failed]
<1>1. j \in Jobs /\ job[j] \in JobRecords
  BY DEF GeneratorsTypeOK, Jobs
<1>2. ASSUME NEW failed \in BOOLEAN
      PROVE  /\ r(failed) \in JobRecords /\ r(failed).at = "solved"
             /\ r(failed).zeroed = job[j].zeroed /\ r(failed).cancel = job[j].cancel
             /\ SameFile(job[j], r(failed))
  BY <1>1, <1>2 DEF JobRecords, SameFile
<1>3. PICK failed \in BOOLEAN : job' = [job EXCEPT ![j] = r(failed)]
  BY <1>1, Zenon DEF SolveSystem, GeneratorsTypeOK
<1> HIDE DEF r
<1> QED BY <1>1, <1>2, <1>3, JobSet

LEMMA TakeEffect ==
    ASSUME GeneratorsTypeOK, NEW j \in FitJobs, TakeSolution(j)
    PROVE  /\ Moves(j) /\ job'[j].at = "check"
           /\ job'[j].zeroed = job[j].zeroed /\ job'[j].cancel = job[j].cancel
           /\ job'[j].values = "fitted" \/ stop_fitting \/ job[j].zeroed
           /\ SameFile(job[j], job'[j])
<1> DEFINE v == IF stop_fitting THEN "initial" ELSE IF job[j].zeroed THEN "zeroed" ELSE "fitted"
           r == [job[j] EXCEPT !.at = "check", !.values = v]
<1>1. j \in Jobs /\ job[j] \in JobRecords
  BY DEF GeneratorsTypeOK, Jobs
<1>2. v \in {"initial", "zeroed", "fitted"} /\ (v = "fitted" \/ stop_fitting \/ job[j].zeroed)
  OBVIOUS
<1>3. job' = [job EXCEPT ![j].at = "check", ![j].values = v]
  BY DEF TakeSolution
<1> HIDE DEF v
<1>4. job' = [job EXCEPT ![j] = r]
  BY <1>1, <1>3 DEF GeneratorsTypeOK
<1>5. /\ r \in JobRecords /\ r.at = "check" /\ r.values = v
      /\ r.zeroed = job[j].zeroed /\ r.cancel = job[j].cancel /\ SameFile(job[j], r)
  BY <1>1, <1>2, ZenonT(40) DEF JobRecords, SameFile
<1> HIDE DEF r
<1>6. Moves(j) /\ job'[j] = r
  BY <1>1, <1>4, <1>5, JobSet
<1> QED BY <1>2, <1>5, <1>6

LEMMA FitAnswerEffect ==
    ASSUME GeneratorsTypeOK, NEW j \in FitJobs, AnswerFit(j)
    PROVE  /\ Moves(j) /\ job'[j].at = "respond"
           /\ job'[j].values = job[j].values /\ job'[j].ids = job[j].ids
           /\ job'[j].cancel => stop_fitting
           /\ ~job'[j].failed => ~job[j].failed /\ ~stop_fitting
<1> DEFINE failed == job[j].failed \/ stop_fitting
           images == IF failed THEN {} ELSE job[j].images
           r == [job[j] EXCEPT !.cancel = stop_fitting, !.failed = failed,
                    !.at = "respond", !.images = images]
<1>1. j \in Jobs /\ job[j] \in JobRecords /\ stop_fitting \in BOOLEAN
  BY DEF GeneratorsTypeOK, Jobs
<1>2. failed \in BOOLEAN /\ images \in SUBSET {0, 1} /\ (~failed => ~job[j].failed /\ ~stop_fitting)
  BY <1>1 DEF JobRecords
<1>3. job' = [job EXCEPT ![j].cancel = stop_fitting, ![j].failed = failed,
                         ![j].at = "respond", ![j].images = images]
  BY <1>1 DEF AnswerFit, GeneratorsTypeOK
<1> HIDE DEF failed, images
<1>4. job' = [job EXCEPT ![j] = r]
  BY <1>1, <1>3 DEF GeneratorsTypeOK
<1>5. /\ r \in JobRecords /\ r.at = "respond"
      /\ r.values = job[j].values /\ r.ids = job[j].ids
      /\ r.cancel = stop_fitting /\ r.failed = failed
  BY <1>1, <1>2, ZenonT(40) DEF JobRecords
<1> HIDE DEF r
<1>6. Moves(j) /\ job'[j] = r
  BY <1>1, <1>4, <1>5, JobSet
<1> QED BY <1>2, <1>5, <1>6

LEMMA NextIdEffect ==
    ASSUME GeneratorsTypeOK, NEW j \in Jobs, NextFileId(j)
    PROVE  /\ Moves(j)
           /\ SameMoment(job[j], job'[j]) /\ SameFit(job[j], job'[j])
           /\ job'[j].cancel = job[j].cancel
           /\ job'[j].images = job[j].images /\ job'[j].ids = job[j].ids
           /\ job'[j].next_file_id = last_file_id + 1
           /\ job'[j].at = IF job[j].images = {} THEN "done" ELSE "open"
<1> DEFINE at == IF job[j].images = {} THEN "done" ELSE "open"
           r == [job[j] EXCEPT !.at = at, !.next_file_id = last_file_id + 1]
<1>1. job[j] \in JobRecords /\ last_file_id + 1 \in Nat /\ at \in {"done", "open"}
  BY RequestsAssumption DEF GeneratorsTypeOK, FileIds
<1>2. job' = [job EXCEPT ![j] = r]
  BY <1>1 DEF NextFileId, GeneratorsTypeOK
<1> HIDE DEF at
<1>3. /\ r \in JobRecords /\ r.at = at /\ r.cancel = job[j].cancel
      /\ SameMoment(job[j], r) /\ SameFit(job[j], r)
      /\ r.images = job[j].images /\ r.ids = job[j].ids /\ r.next_file_id = last_file_id + 1
  BY <1>1 DEF JobRecords, SameMoment, SameFit
<1> HIDE DEF r
<1> QED BY <1>1, <1>2, <1>3, JobSet DEF at

LEMMA OpenedFinite ==
    ASSUME Numbers
    PROVE  /\ IsFiniteSet(ImagesOpened) /\ Cardinality(ImagesOpened) \in Nat
           /\ IsFiniteSet(Begun) /\ Cardinality(Begun) \in Nat
           /\ Cardinality(ImagesOpened) <= MaxRequests
<1>1. ImagesOpened \subseteq Begun /\ Begun \subseteq Jobs
  BY DEF ImagesOpened, Begun, JobAt
<1>2. IsFiniteSet(Begun) /\ IsFiniteSet(ImagesOpened)
  BY <1>1, RequestsAssumption, FS_Subset
<1>3. Cardinality(Begun) \in Nat /\ Cardinality(ImagesOpened) \in Nat
  BY <1>2, FS_CardinalityType
<1>4. Cardinality(ImagesOpened) <= Cardinality(Begun)
  BY <1>1, <1>2, FS_Subset
<1> QED BY <1>2, <1>3, <1>4, RequestsAssumption DEF Numbers

LEMMA OpenEffect ==
    ASSUME GeneratorsTypeOK, Numbers, Images, NEW j \in Jobs, OpenImage(j)
    PROVE  /\ Moves(j)
           /\ SameMoment(job[j], job'[j]) /\ SameFit(job[j], job'[j])
           /\ job'[j].cancel = job[j].cancel
           /\ job'[j].next_file_id = job[j].next_file_id
           /\ job'[j].at = "open" => job'[j].images # {}
           /\ job'[j].at \in {"done", "open"}
           /\ \E n \in job[j].images :
                LET id == job[j].next_file_id + n IN
                /\ id \in FileIds /\ id <= 2 * Cardinality(ImagesOpened)
                /\ job'[j].images = job[j].images \ {n}
                /\ job'[j].ids = job[j].ids \cup {id}
                /\ \A o \in job'[j].images : n < o
                /\ frames' = [frames EXCEPT ![id] = j] /\ last_file_id' = id
<1> DEFINE offset == CHOOSE n \in job[j].images : \A o \in job[j].images : n <= o
           id == job[j].next_file_id + offset
           at == IF job[j].images = {offset} THEN "done" ELSE "open"
           r == [job[j] EXCEPT !.images = @ \ {offset}, !.ids = @ \cup {id}, !.at = at]
<1>1. job[j] \in JobRecords /\ job[j].images \in SUBSET {0, 1} /\ job[j].images # {}
      /\ job[j].next_file_id \in Nat /\ job[j].next_file_id + 1 <= 2 * Cardinality(ImagesOpened)
  BY Zenon DEF OpenImage, GeneratorsTypeOK, JobRecords, Numbers, Images, JobAt
<1>2. offset \in job[j].images /\ \A o \in job[j].images : offset <= o
  <2>1. \E n \in job[j].images : \A o \in job[j].images : n <= o
    <3>1. CASE 0 \in job[j].images
      BY <1>1, <3>1
    <3>2. CASE 0 \notin job[j].images
      BY <1>1, <3>2, SMTT(30)
    <3> QED BY <3>1, <3>2
  <2> QED BY <2>1
<1>3. /\ job' = [job EXCEPT ![j].images = @ \ {offset}, ![j].ids = @ \cup {id}, ![j].at = at]
      /\ frames' = [frames EXCEPT ![id] = j] /\ last_file_id' = id
  BY Zenon DEF OpenImage
<1>4. offset \in {0, 1} /\ at \in {"done", "open"} /\ (at = "open" => job[j].images \ {offset} # {})
  BY <1>1, <1>2
<1> HIDE DEF offset, at
<1>5. id \in Nat /\ id <= job[j].next_file_id + 1 /\ id >= 1 /\ id <= 2 * Cardinality(ImagesOpened)
  <2>1. job[j].next_file_id >= 1
    BY Zenon DEF Numbers, OpenImage
  <2> QED BY <1>1, <1>4, <2>1, OpenedFinite, SMTT(30)
<1>6. id \in FileIds
  BY <1>5, OpenedFinite, RequestsAssumption DEF FileIds
<1> HIDE DEF id
<1>7. job' = [job EXCEPT ![j] = r]
  BY <1>1, <1>3 DEF GeneratorsTypeOK
<1>8. /\ r \in JobRecords /\ r.at = at /\ r.cancel = job[j].cancel
      /\ SameMoment(job[j], r) /\ SameFit(job[j], r)
      /\ r.next_file_id = job[j].next_file_id
      /\ r.images = job[j].images \ {offset} /\ r.ids = job[j].ids \cup {id}
  BY <1>1, <1>4, <1>6, ZenonT(40) DEF JobRecords, SameMoment, SameFit
<1> HIDE DEF r
<1>9. Moves(j) /\ job'[j] = r
  BY <1>1, <1>7, <1>8, JobSet
<1>10. \A o \in r.images : offset < o
  BY <1>1, <1>2, <1>4, <1>8
<1> QED BY <1>2, <1>3, <1>4, <1>5, <1>6, <1>8, <1>9, <1>10 DEF id

-----------------------------------------------------------------------------
LEMMA MomentsKept ==
    ASSUME GeneratorsTypeOK, Moments, NEW j \in Jobs, Moves(j),
           UNCHANGED <<moment_generator, image_mutex, rest_frequency, moment_cancel>>,
           stopped_running \subseteq stopped_running',
           j \in MomentJobs =>
              /\ SameMoment(job[j], job'[j]) /\ job'[j].cancel = job[j].cancel
              /\ JobAt(j, {"respond", "open"}) /\ job'[j].at \in {"open", "done"}
    PROVE  Moments'
<1>1. \A k \in MomentJobs :
        /\ SameMoment(job[k], job'[k]) /\ job'[k].cancel = job[k].cancel
        /\ \/ job'[k].at = job[k].at
           \/ job[k].at \in {"respond", "open"} /\ job'[k].at \in {"open", "done"}
  BY DEF Moves, Jobs, JobAt, SameMoment
<1>2. MomentStates'
  BY <1>1 DEF Moments, MomentStates, JobAt, Running, SameMoment
<1>3. Frequencies'
  BY <1>1 DEF Moments, Frequencies, JobAt, Running, SameMoment
<1>4. MomentStops'
  BY <1>1 DEF Moments, MomentStops, JobAt, Running, SameMoment, GeneratorGone
<1> QED BY <1>2, <1>3, <1>4 DEF Moments

LEMMA FitsKept ==
    ASSUME GeneratorsTypeOK, Fits, NEW j \in Jobs, Moves(j),
           UNCHANGED stop_fitting, stopped_running \subseteq stopped_running',
           j \in FitJobs =>
              /\ SameFit(job[j], job'[j]) /\ job'[j].cancel = job[j].cancel
              /\ JobAt(j, {"respond", "open"}) /\ job'[j].at \in {"open", "done"}
    PROVE  Fits'
<1>1. \A k \in FitJobs :
        /\ SameFit(job[k], job'[k]) /\ job'[k].cancel = job[k].cancel
        /\ \/ job'[k].at = job[k].at
           \/ job[k].at \in {"respond", "open"} /\ job'[k].at \in {"open", "done"}
  BY DEF Moves, Jobs, JobAt, SameFit
<1> QED BY <1>1 DEF Fits, Fitting, JobAt, SameFit

LEMMA BegunKept ==
    ASSUME GeneratorsTypeOK, Numbers, NEW j \in Jobs, Moves(j),
           ~JobAt(j, {"idle"}) \/ MayRequest, job'[j].at # "idle"
    PROVE  (Cardinality(Begun) <= MaxRequests)'
<1>1. Begun' = Begun \cup {j}
  BY DEF Begun, JobAt, Moves
<1>2. IsFiniteSet(Begun) /\ Cardinality(Begun) \in Nat /\ Cardinality(Begun) <= MaxRequests
  BY OpenedFinite DEF Numbers
<1>3. CASE j \in Begun
  BY <1>1, <1>2, <1>3
<1>4. CASE j \notin Begun
  <2>1. MayRequest
    BY <1>4 DEF Begun
  <2>2. Begun = {k \in Jobs : job[k].at # "idle"}
    BY DEF Begun, JobAt
  <2>3. Cardinality(Begun) < MaxRequests
    BY <2>1, <2>2 DEF MayRequest
  <2>4. Cardinality(Begun') = Cardinality(Begun) + 1
    BY <1>1, <1>2, <1>4, FS_AddElement
  <2> QED BY <1>2, <2>3, <2>4, RequestsAssumption
<1> QED BY <1>3, <1>4

\* A request that opens, or has no image to open, is one more that was opened.
LEMMA OpenedGrows ==
    ASSUME GeneratorsTypeOK, Numbers, NEW j \in Jobs, Moves(j),
           job'[j].at \in {"open", "done"} \/ ~JobAt(j, {"open", "done"})
    PROVE  /\ Cardinality(ImagesOpened') \in Nat /\ Cardinality(ImagesOpened) \in Nat
           /\ Cardinality(ImagesOpened') >= Cardinality(ImagesOpened)
           /\ job'[j].at \in {"open", "done"} /\ ~JobAt(j, {"open", "done"})
                => Cardinality(ImagesOpened') = Cardinality(ImagesOpened) + 1
<1>1. ImagesOpened' = IF job'[j].at \in {"open", "done"} THEN ImagesOpened \cup {j} ELSE ImagesOpened
  BY DEF ImagesOpened, JobAt, Moves
<1>2. IsFiniteSet(ImagesOpened) /\ Cardinality(ImagesOpened) \in Nat
  BY OpenedFinite
<1>3. CASE ImagesOpened' = ImagesOpened
  <2>1. ~(job'[j].at \in {"open", "done"} /\ ~JobAt(j, {"open", "done"}))
    BY <1>1, <1>3 DEF ImagesOpened
  <2> QED BY <1>2, <1>3, <2>1
<1>4. CASE ImagesOpened' # ImagesOpened
  <2>1. ImagesOpened' = ImagesOpened \cup {j} /\ j \notin ImagesOpened
    BY <1>1, <1>4
  <2>2. Cardinality(ImagesOpened') = Cardinality(ImagesOpened) + 1
    BY <1>2, <2>1, FS_AddElement
  <2> QED BY <1>2, <2>2
<1> QED BY <1>3, <1>4

\* Steps before the images are opened.
LEMMA FileIdsKept ==
    ASSUME GeneratorsTypeOK, Numbers, Images, NEW j \in Jobs, Moves(j),
           UNCHANGED <<last_file_id, frames, overlapped>>,
           ~JobAt(j, {"open", "done"}), job'[j].at \notin {"open", "idle"},
           ~JobAt(j, {"idle"}) \/ MayRequest,
           job'[j].ids = job[j].ids
    PROVE  Numbers' /\ Images'
<1>1. (Cardinality(Begun) <= MaxRequests)'
  BY BegunKept
<1>2. /\ Cardinality(ImagesOpened') \in Nat /\ Cardinality(ImagesOpened) \in Nat
      /\ Cardinality(ImagesOpened') >= Cardinality(ImagesOpened)
  BY OpenedGrows
<1>3. \A k \in Jobs : job'[k].at = "open" => k # j /\ job'[k] = job[k] /\ JobAt(k, {"open"})
  BY DEF Moves, JobAt
<1>4. \A k \in Jobs : JobAt(k, {"open"}) => job[k].next_file_id \in Nat
  BY DEF GeneratorsTypeOK, JobRecords
<1>5. last_file_id \in Nat
  BY RequestsAssumption DEF GeneratorsTypeOK, FileIds
<1>6. Numbers'
  <2>1. last_file_id' <= 2 * Cardinality(ImagesOpened')
    BY <1>2, <1>5 DEF Numbers
  <2>2. ASSUME NEW k \in Jobs, job'[k].at = "open"
        PROVE  1 <= job'[k].next_file_id /\ job'[k].next_file_id + 1 <= 2 * Cardinality(ImagesOpened')
    <3>1. job'[k] = job[k] /\ JobAt(k, {"open"}) /\ job[k].next_file_id \in Nat
      BY <1>3, <1>4, <2>2
    <3>2. 1 <= job[k].next_file_id /\ job[k].next_file_id + 1 <= 2 * Cardinality(ImagesOpened)
      BY <3>1 DEF Numbers
    <3> QED BY <1>2, <3>1, <3>2
  <2> QED BY <1>1, <2>1, <2>2 DEF Numbers, JobAt
<1>7. \A k \in Jobs : job'[k].ids = job[k].ids /\ (RanAlone(k)' <=> RanAlone(k))
  BY DEF Moves, RanAlone
<1>8. job[j].ids = {}
  BY DEF Images
<1>9. Images'
  <2>1. \A k \in Jobs : JobAt(k, {"open", "done"})' => k = j \/ JobAt(k, {"open", "done"})
    BY DEF Moves, JobAt
  <2>2. \A k \in Jobs : ~JobAt(k, {"open", "done"})' => ~JobAt(k, {"open", "done"})
    BY DEF Moves, JobAt
  <2>3. \A k, l \in Jobs : k # l /\ JobAt(k, {"open"})' /\ JobAt(l, {"open"})' => {k, l} \in overlapped'
    BY <1>3 DEF Images, JobAt
  <2> QED BY <1>3, <1>7, <1>8, <2>2, <2>3 DEF Images, JobAt
<1> QED BY <1>6, <1>9

-----------------------------------------------------------------------------
LEMMA TypesStep == GeneratorsIInv /\ [GeneratorsNext]_generatorVars => GeneratorsTypeOK'
<1> SUFFICES ASSUME GeneratorsIInv, [GeneratorsNext]_generatorVars PROVE GeneratorsTypeOK'
  OBVIOUS
<1>1. GeneratorsTypeOK /\ Moments /\ MomentStates /\ Numbers /\ Images
  BY DEF GeneratorsIInv, Moments
<1> USE <1>1
<1>2. MomentJobs \subseteq Jobs /\ FitJobs \subseteq Jobs
  BY DEF Jobs
<1>3. ASSUME NEW j \in MomentJobs, NEW f \in RestFrequencies, RequestMoments(j, f) PROVE GeneratorsTypeOK'
  BY <1>3, RequestEffect DEF RequestMoments, otherVars, GeneratorsTypeOK, Moves
<1>4. ASSUME NEW j \in MomentJobs, ResetGenerator(j) PROVE GeneratorsTypeOK'
  BY <1>4, ResetEffect DEF ResetGenerator, otherVars, GeneratorsTypeOK, Moves
<1>5. ASSUME NEW j \in MomentJobs, BeginCalculation(j) PROVE GeneratorsTypeOK'
  BY <1>5, BeginEffect, ZenonT(40) DEF BeginCalculation, otherVars, GeneratorsTypeOK, Moves
<1>6. ASSUME NEW j \in MomentJobs, ResetImageMoments(j) PROVE GeneratorsTypeOK'
  <2>1. job[j].requested \in RestFrequencies \cup {0} /\ job[j].generator \in MomentJobs
    BY <1>2, <1>6 DEF ResetImageMoments, GeneratorsTypeOK, JobRecords, MomentStates, Running, JobAt
  <2> QED BY <1>6, <2>1, ResetImageEffect DEF ResetImageMoments, otherVars, GeneratorsTypeOK, Moves
<1>7. ASSUME NEW j \in MomentJobs, CreateMoments(j) PROVE GeneratorsTypeOK'
  BY <1>7, CreateEffect, Zenon DEF CreateMoments, otherVars, GeneratorsTypeOK, Moves
<1>8. ASSUME NEW j \in MomentJobs, FinishCalculation(j) PROVE GeneratorsTypeOK'
  <2>1. job[j].saved \in RestFrequencies \cup {0}
    BY <1>2 DEF GeneratorsTypeOK, JobRecords
  <2> QED BY <1>8, <2>1, FinishEffect DEF FinishCalculation, otherVars, GeneratorsTypeOK, Moves
<1>9. ASSUME NEW j \in MomentJobs, UseAfterEnd(j) PROVE GeneratorsTypeOK'
  BY <1>9 DEF UseAfterEnd, otherVars, GeneratorsTypeOK
<1>10. CASE StopMomentCalc
  BY <1>2, <1>10, SMTT(30) DEF StopMomentCalc, otherVars, GeneratorsTypeOK
<1>11. ASSUME NEW j \in FitJobs, NEW images \in SUBSET {0, 1}, StartFit(j, images) PROVE GeneratorsTypeOK'
  BY <1>11, StartEffect, Zenon DEF StartFit, fitUnchanged, GeneratorsTypeOK, Moves
<1>12. ASSUME NEW j \in FitJobs, Iterate(j) PROVE GeneratorsTypeOK'
  BY <1>12, IterateEffect DEF Iterate, fitUnchanged, GeneratorsTypeOK, Moves
<1>13. ASSUME NEW j \in FitJobs, SolveSystem(j) PROVE GeneratorsTypeOK'
  BY <1>13, SolveEffect DEF SolveSystem, fitUnchanged, GeneratorsTypeOK, Moves
<1>14. ASSUME NEW j \in FitJobs, TakeSolution(j) PROVE GeneratorsTypeOK'
  BY <1>14, TakeEffect DEF TakeSolution, fitUnchanged, GeneratorsTypeOK, Moves
<1>15. ASSUME NEW j \in FitJobs, AnswerFit(j) PROVE GeneratorsTypeOK'
  BY <1>15, FitAnswerEffect, Zenon DEF AnswerFit, fitUnchanged, GeneratorsTypeOK, Moves
<1>16. CASE StopFitting
  BY <1>2, <1>16, SMTT(30) DEF StopFitting, fitUnchanged, GeneratorsTypeOK
<1>17. ASSUME NEW j \in Jobs, NextFileId(j) PROVE GeneratorsTypeOK'
  BY <1>17, NextIdEffect, ZenonT(40) DEF NextFileId, openUnchanged, GeneratorsTypeOK, Moves
<1>18. ASSUME NEW j \in Jobs, OpenImage(j) PROVE GeneratorsTypeOK'
  <2>1. Moves(j) /\ \E id \in FileIds : frames' = [frames EXCEPT ![id] = j] /\ last_file_id' = id
    BY <1>18, OpenEffect
  <2> QED BY <1>18, <2>1, Zenon DEF OpenImage, openUnchanged, GeneratorsTypeOK, Moves
<1>19. CASE UNCHANGED generatorVars
  BY <1>19 DEF generatorVars, GeneratorsTypeOK
<1> QED BY <1>3, <1>4, <1>5, <1>6, <1>7, <1>8, <1>9, <1>10, <1>11, <1>12, <1>13, <1>14, <1>15,
           <1>16, <1>17, <1>18, <1>19 DEF GeneratorsNext

-----------------------------------------------------------------------------
\* A step of a moment request is read off its effect.
LEMMA MomentsMoved ==
    ASSUME GeneratorsTypeOK, Moments, NEW j \in MomentJobs, Moves(j)
    PROVE  \A k \in MomentJobs \ {j} : job'[k] = job[k]
BY DEF Moves, Jobs

LEMMA MomentsStep == GeneratorsIInv /\ [GeneratorsNext]_generatorVars => Moments'
<1> SUFFICES ASSUME GeneratorsIInv, [GeneratorsNext]_generatorVars PROVE Moments'
  OBVIOUS
<1>1. GeneratorsTypeOK /\ Moments /\ MomentStates /\ Frequencies /\ MomentStops /\ Numbers /\ Images
  BY DEF GeneratorsIInv, Moments
<1> USE <1>1
<1>2. MomentJobs \subseteq Jobs /\ FitJobs \subseteq Jobs /\ NoJob \notin MomentJobs
      /\ \A j \in FitJobs : j \notin MomentJobs
  BY RequestsAssumption DEF Jobs
<1> USE DEF JobAt, Running, GeneratorGone
<1>3. ASSUME NEW j \in MomentJobs, NEW f \in RestFrequencies, RequestMoments(j, f) PROVE Moments'
  <2>1. /\ job[j].at = "idle" /\ UNCHANGED <<moment_generator, image_mutex, rest_frequency, moment_cancel, stopped_running>>
    BY <1>3 DEF RequestMoments
  <2>2. \A k \in MomentJobs \ {j} : job'[k] = job[k]
    BY <1>3, RequestEffect, MomentsMoved
  <2>3. /\ job'[j].at = "reset" /\ job'[j].used = job[j].used
        /\ job'[j].generator = job[j].generator /\ job'[j].cancel = job[j].cancel
    BY <1>3, RequestEffect
  <2>4. job[j].used = 0
    BY <2>1 DEF Frequencies
  <2> QED BY <2>1, <2>2, <2>3, <2>4 DEF Moments, MomentStates, Frequencies, MomentStops
<1>4. ASSUME NEW j \in MomentJobs, ResetGenerator(j) PROVE Moments'
  <2>1. /\ job[j].at = "reset" /\ moment_generator' = j
        /\ UNCHANGED <<image_mutex, rest_frequency, moment_cancel, stopped_running>>
    BY <1>4 DEF ResetGenerator, otherVars
  <2>2. \A k \in MomentJobs \ {j} : job'[k] = job[k]
    BY <1>4, ResetEffect, MomentsMoved
  <2>3. job'[j].at = "wait" /\ SameMoment(job[j], job'[j]) /\ job'[j].cancel = job[j].cancel
    BY <1>4, ResetEffect
  <2>4. j # NoJob /\ \A k \in MomentJobs : job'[k].generator # j
    BY <1>2, <2>1, <2>2, <2>3 DEF MomentStates, SameMoment
  <2> QED BY <2>1, <2>2, <2>3, <2>4 DEF Moments, MomentStates, Frequencies, MomentStops, SameMoment
<1>5. ASSUME NEW j \in MomentJobs, BeginCalculation(j) PROVE Moments'
  <2>1. /\ job[j].at = "wait" /\ image_mutex = NoJob /\ image_mutex' = j
        /\ moment_cancel' = moment_cancel \ {moment_generator}
        /\ UNCHANGED <<moment_generator, rest_frequency, stopped_running>>
    BY <1>5 DEF BeginCalculation
  <2>2. \A k \in MomentJobs \ {j} : job'[k] = job[k]
    BY <1>5, BeginEffect, MomentsMoved
  <2>3. /\ job'[j].at = "set" /\ job'[j].requested = job[j].requested /\ job'[j].used = job[j].used
        /\ job'[j].generator = moment_generator /\ job'[j].saved = rest_frequency
        /\ job'[j].cancel = job[j].cancel
    BY <1>5, BeginEffect
  <2>4. rest_frequency = 0 /\ \A k \in MomentJobs : ~Running(k)
    BY <1>2, <2>1 DEF Frequencies, MomentStates
  <2>5. moment_generator # NoJob
    BY <2>1 DEF MomentStates
  <2>6. MomentStates'
    BY <1>2, <2>1, <2>2, <2>3, <2>4, <2>5 DEF MomentStates
  <2>7. Frequencies'
    BY <1>2, <2>1, <2>2, <2>3, <2>4 DEF Frequencies
  <2>8. MomentStops'
    BY <2>1, <2>2, <2>3 DEF MomentStops
  <2> QED BY <2>6, <2>7, <2>8 DEF Moments
<1>6. ASSUME NEW j \in MomentJobs, ResetImageMoments(j) PROVE Moments'
  <2>1. /\ job[j].at = "set" /\ UNCHANGED <<moment_generator, image_mutex, moment_cancel, stopped_running>>
    BY <1>6 DEF ResetImageMoments, otherVars
  <2>2. \A k \in MomentJobs \ {j} : job'[k] = job[k]
    BY <1>6, ResetImageEffect, MomentsMoved
  <2>3. /\ SameMoment(job[j], job'[j]) /\ job'[j].cancel = job[j].cancel
        /\ job'[j].at = "restore" \/ (job'[j].at = "create" /\ rest_frequency' = job[j].requested)
    BY <1>6, ResetImageEffect
  <2>4. image_mutex = j /\ \A k \in MomentJobs \ {j} : ~Running(k)
    BY <2>1 DEF MomentStates
  <2>5. MomentStates'
    BY <2>1, <2>2, <2>3 DEF MomentStates, SameMoment
  <2>6. Frequencies'
    BY <1>2, <2>1, <2>2, <2>3, <2>4 DEF Frequencies, SameMoment
  <2>7. MomentStops'
    BY <2>1, <2>2, <2>3 DEF MomentStops, SameMoment
  <2> QED BY <2>5, <2>6, <2>7 DEF Moments
<1>7. ASSUME NEW j \in MomentJobs, CreateMoments(j) PROVE Moments'
  <2>1. /\ job[j].at = "create"
        /\ UNCHANGED <<moment_generator, image_mutex, rest_frequency, moment_cancel, stopped_running>>
    BY <1>7 DEF CreateMoments, otherVars
  <2>2. \A k \in MomentJobs \ {j} : job'[k] = job[k]
    BY <1>7, CreateEffect, MomentsMoved
  <2>3. /\ job'[j].at = "restore" /\ job'[j].requested = job[j].requested
        /\ job'[j].saved = job[j].saved /\ job'[j].generator = job[j].generator
        /\ job'[j].used = rest_frequency /\ job'[j].cancel = job[j].cancel
    BY <1>7, CreateEffect
  <2>4. MomentStates'
    BY <2>1, <2>2, <2>3 DEF MomentStates
  <2>5. Frequencies'
    BY <2>1, <2>2, <2>3 DEF Frequencies
  <2>6. MomentStops'
    BY <2>1, <2>2, <2>3 DEF MomentStops
  <2> QED BY <2>4, <2>5, <2>6 DEF Moments
<1>8. ASSUME NEW j \in MomentJobs, FinishCalculation(j) PROVE Moments'
  <2>1. /\ job[j].at = "restore" /\ rest_frequency' = job[j].saved /\ image_mutex' = NoJob
        /\ UNCHANGED <<moment_generator, moment_cancel, stopped_running>>
    BY <1>8 DEF FinishCalculation, otherVars
  <2>2. \A k \in MomentJobs \ {j} : job'[k] = job[k]
    BY <1>8, FinishEffect, MomentsMoved
  <2>3. /\ job'[j].at = "respond" /\ SameMoment(job[j], job'[j])
        /\ job'[j].cancel => GeneratorGone(j) \/ job[j].generator \in moment_cancel
    BY <1>8, FinishEffect
  <2>4. image_mutex = j /\ job[j].saved = 0 /\ \A k \in MomentJobs \ {j} : ~Running(k)
    BY <2>1 DEF MomentStates, Frequencies
  <2>5. MomentStates'
    BY <1>2, <2>1, <2>2, <2>3, <2>4 DEF MomentStates, SameMoment
  <2>6. Frequencies'
    BY <2>1, <2>2, <2>3, <2>4 DEF Frequencies, SameMoment
  <2>7. MomentStops'
    BY <2>1, <2>2, <2>3 DEF MomentStops, SameMoment
  <2> QED BY <2>5, <2>6, <2>7 DEF Moments
<1>9. ASSUME NEW j \in MomentJobs, UseAfterEnd(j) PROVE Moments'
  BY <1>9 DEF UseAfterEnd, otherVars, Moments, MomentStates, Frequencies, MomentStops
<1>10. CASE StopMomentCalc
  BY <1>10, SMTT(30) DEF StopMomentCalc, Moments, MomentStates, Frequencies, MomentStops
<1>11. ASSUME NEW j \in FitJobs, NEW images \in SUBSET {0, 1}, StartFit(j, images) PROVE Moments'
  BY <1>2, <1>11, StartEffect, MomentsKept, Zenon DEF StartFit, fitUnchanged
<1>12. ASSUME NEW j \in FitJobs, Iterate(j) PROVE Moments'
  BY <1>2, <1>12, IterateEffect, MomentsKept DEF Iterate, fitUnchanged
<1>13. ASSUME NEW j \in FitJobs, SolveSystem(j) PROVE Moments'
  BY <1>2, <1>13, SolveEffect, MomentsKept DEF SolveSystem, fitUnchanged
<1>14. ASSUME NEW j \in FitJobs, TakeSolution(j) PROVE Moments'
  BY <1>2, <1>14, TakeEffect, MomentsKept DEF TakeSolution, fitUnchanged
<1>15. ASSUME NEW j \in FitJobs, AnswerFit(j) PROVE Moments'
  BY <1>2, <1>15, FitAnswerEffect, MomentsKept, Zenon DEF AnswerFit, fitUnchanged
<1>16. CASE StopFitting
  BY <1>16 DEF StopFitting, fitUnchanged, Moments, MomentStates, Frequencies, MomentStops
<1>17. ASSUME NEW j \in Jobs, NextFileId(j) PROVE Moments'
  <2>1. /\ UNCHANGED <<moment_generator, image_mutex, rest_frequency, moment_cancel, stopped_running>>
        /\ JobAt(j, {"respond", "open"})
    BY <1>17 DEF NextFileId, openUnchanged
  <2> QED BY <1>17, <2>1, NextIdEffect, MomentsKept
<1>18. ASSUME NEW j \in Jobs, OpenImage(j) PROVE Moments'
  <2>1. /\ UNCHANGED <<moment_generator, image_mutex, rest_frequency, moment_cancel, stopped_running>>
        /\ JobAt(j, {"respond", "open"})
    BY <1>18, Zenon DEF OpenImage, openUnchanged
  <2>2. /\ Moves(j) /\ SameMoment(job[j], job'[j]) /\ job'[j].cancel = job[j].cancel
        /\ job'[j].at \in {"done", "open"}
    BY <1>18, OpenEffect
  <2> QED BY <2>1, <2>2, MomentsKept, SMTT(30)
<1>19. CASE UNCHANGED generatorVars
  BY <1>19 DEF generatorVars, Moments, MomentStates, Frequencies, MomentStops
<1> QED BY <1>3, <1>4, <1>5, <1>6, <1>7, <1>8, <1>9, <1>10, <1>11, <1>12, <1>13, <1>14, <1>15,
           <1>16, <1>17, <1>18, <1>19 DEF GeneratorsNext

-----------------------------------------------------------------------------
LEMMA FitsMoved ==
    ASSUME GeneratorsTypeOK, NEW j \in FitJobs, Moves(j)
    PROVE  \A k \in FitJobs \ {j} : job'[k] = job[k]
BY DEF Moves, Jobs

LEMMA FitsStep == GeneratorsIInv /\ [GeneratorsNext]_generatorVars => Fits'
<1> SUFFICES ASSUME GeneratorsIInv, [GeneratorsNext]_generatorVars PROVE Fits'
  OBVIOUS
<1>1. GeneratorsTypeOK /\ Fits /\ Numbers /\ Images
  BY DEF GeneratorsIInv
<1> USE <1>1
<1>2. MomentJobs \subseteq Jobs /\ FitJobs \subseteq Jobs /\ \A j \in MomentJobs : j \notin FitJobs
  BY RequestsAssumption DEF Jobs
<1> USE DEF JobAt, Fitting
<1>3. ASSUME NEW j \in MomentJobs, NEW f \in RestFrequencies, RequestMoments(j, f) PROVE Fits'
  BY <1>2, <1>3, RequestEffect, FitsKept DEF RequestMoments, otherVars
<1>4. ASSUME NEW j \in MomentJobs, ResetGenerator(j) PROVE Fits'
  BY <1>2, <1>4, ResetEffect, FitsKept DEF ResetGenerator, otherVars
<1>5. ASSUME NEW j \in MomentJobs, BeginCalculation(j) PROVE Fits'
  BY <1>2, <1>5, BeginEffect, FitsKept, Zenon DEF BeginCalculation, otherVars
<1>6. ASSUME NEW j \in MomentJobs, ResetImageMoments(j) PROVE Fits'
  BY <1>2, <1>6, ResetImageEffect, FitsKept, SMTT(30) DEF ResetImageMoments, otherVars
<1>7. ASSUME NEW j \in MomentJobs, CreateMoments(j) PROVE Fits'
  BY <1>2, <1>7, CreateEffect, FitsKept, Zenon DEF CreateMoments, otherVars
<1>8. ASSUME NEW j \in MomentJobs, FinishCalculation(j) PROVE Fits'
  BY <1>2, <1>8, FinishEffect, FitsKept DEF FinishCalculation, otherVars
<1>9. ASSUME NEW j \in MomentJobs, UseAfterEnd(j) PROVE Fits'
  BY <1>9 DEF UseAfterEnd, otherVars, Fits
<1>10. CASE StopMomentCalc
  BY <1>10 DEF StopMomentCalc, otherVars, Fits
<1>11. ASSUME NEW j \in FitJobs, NEW images \in SUBSET {0, 1}, StartFit(j, images) PROVE Fits'
  <2>1. /\ job[j].at = "idle" /\ stop_fitting' = FALSE /\ UNCHANGED stopped_running
        /\ \A k \in FitJobs : ~Fitting(k)
    BY <1>11 DEF StartFit
  <2>2. \A k \in FitJobs \ {j} : job'[k] = job[k]
    BY <1>11, StartEffect, FitsMoved
  <2>3. /\ job'[j].at = "solve" \/ (job'[j].at = "done" /\ job'[j].failed)
        /\ job'[j].zeroed = job[j].zeroed /\ job'[j].cancel = job[j].cancel
    BY <1>11, StartEffect
  <2> QED BY <2>1, <2>2, <2>3 DEF Fits
<1>12. ASSUME NEW j \in FitJobs, Iterate(j) PROVE Fits'
  <2>1. job[j].at = "solve" /\ stop_fitting /\ UNCHANGED <<stop_fitting, stopped_running>>
    BY <1>12 DEF Iterate
  <2>2. \A k \in FitJobs \ {j} : job'[k] = job[k]
    BY <1>12, IterateEffect, FitsMoved
  <2>3. job'[j].at = "solve" /\ job'[j].cancel = job[j].cancel
    BY <1>12, <2>1, IterateEffect
  <2> QED BY <2>1, <2>2, <2>3 DEF Fits
<1>13. ASSUME NEW j \in FitJobs, SolveSystem(j) PROVE Fits'
  <2>1. job[j].at = "solve" /\ UNCHANGED <<stop_fitting, stopped_running>>
    BY <1>13 DEF SolveSystem
  <2>2. \A k \in FitJobs \ {j} : job'[k] = job[k]
    BY <1>13, SolveEffect, FitsMoved
  <2>3. /\ job'[j].at = "solved" /\ job'[j].zeroed = job[j].zeroed
        /\ job'[j].cancel = job[j].cancel
    BY <1>13, SolveEffect
  <2> QED BY <2>1, <2>2, <2>3 DEF Fits
<1>14. ASSUME NEW j \in FitJobs, TakeSolution(j) PROVE Fits'
  <2>1. job[j].at = "solved" /\ UNCHANGED <<stop_fitting, stopped_running>>
    BY <1>14 DEF TakeSolution
  <2>2. \A k \in FitJobs \ {j} : job'[k] = job[k]
    BY <1>14, TakeEffect, FitsMoved
  <2>3. /\ job'[j].at = "check" /\ job'[j].zeroed = job[j].zeroed
        /\ job'[j].cancel = job[j].cancel
        /\ job'[j].values = "fitted" \/ stop_fitting \/ job[j].zeroed
    BY <1>14, TakeEffect
  <2> QED BY <2>1, <2>2, <2>3 DEF Fits
<1>15. ASSUME NEW j \in FitJobs, AnswerFit(j) PROVE Fits'
  <2>1. job[j].at = "check" /\ UNCHANGED <<stop_fitting, stopped_running>>
    BY <1>15 DEF AnswerFit
  <2>2. \A k \in FitJobs \ {j} : job'[k] = job[k]
    BY <1>15, FitAnswerEffect, FitsMoved
  <2>3. /\ job'[j].at = "respond" /\ job'[j].values = job[j].values
        /\ job'[j].cancel => stop_fitting
        /\ ~job'[j].failed => ~job[j].failed /\ ~stop_fitting
    BY <1>15, FitAnswerEffect
  <2> QED BY <2>1, <2>2, <2>3 DEF Fits
<1>16. CASE StopFitting
  BY <1>16 DEF StopFitting, Fits
<1>17. ASSUME NEW j \in Jobs, NextFileId(j) PROVE Fits'
  <2>1. /\ UNCHANGED <<stop_fitting, stopped_running>>
        /\ JobAt(j, {"respond", "open"})
    BY <1>17 DEF NextFileId, openUnchanged
  <2> QED BY <1>17, <2>1, NextIdEffect, FitsKept
<1>18. ASSUME NEW j \in Jobs, OpenImage(j) PROVE Fits'
  <2>1. /\ UNCHANGED <<stop_fitting, stopped_running>>
        /\ JobAt(j, {"respond", "open"})
    BY <1>18, Zenon DEF OpenImage, openUnchanged
  <2>2. /\ Moves(j) /\ SameFit(job[j], job'[j]) /\ job'[j].cancel = job[j].cancel
        /\ job'[j].at \in {"done", "open"}
    BY <1>18, OpenEffect
  <2> QED BY <2>1, <2>2, FitsKept, SMTT(30)
<1>19. CASE UNCHANGED generatorVars
  BY <1>19 DEF generatorVars, Fits
<1> QED BY <1>3, <1>4, <1>5, <1>6, <1>7, <1>8, <1>9, <1>10, <1>11, <1>12, <1>13, <1>14, <1>15,
           <1>16, <1>17, <1>18, <1>19 DEF GeneratorsNext

-----------------------------------------------------------------------------
\* The ids of a request are chosen: they are behind those of every request that
\* opened its images alone, and it is not alone with those that are opening theirs.
LEMMA NextIdFiles ==
    ASSUME GeneratorsTypeOK, Numbers, Images, NEW j \in Jobs, NextFileId(j)
    PROVE  Numbers' /\ Images'
<1>1. /\ job[j].at = "respond" /\ UNCHANGED <<last_file_id, frames>>
      /\ overlapped' = overlapped \cup {{j, k} : k \in {k \in Jobs : k # j /\ JobAt(k, {"open"})}}
  BY DEF NextFileId, openUnchanged, JobAt
<1>2. /\ Moves(j) /\ job'[j].ids = job[j].ids /\ job'[j].images = job[j].images
      /\ job'[j].next_file_id = last_file_id + 1
      /\ job'[j].at = IF job[j].images = {} THEN "done" ELSE "open"
  BY NextIdEffect
<1>3. (Cardinality(Begun) <= MaxRequests)'
  BY <1>1, <1>2, BegunKept DEF JobAt
<1>4. /\ Cardinality(ImagesOpened') \in Nat /\ Cardinality(ImagesOpened) \in Nat
      /\ Cardinality(ImagesOpened') = Cardinality(ImagesOpened) + 1
  BY <1>1, <1>2, OpenedGrows DEF JobAt
<1>5. last_file_id \in Nat /\ last_file_id <= 2 * Cardinality(ImagesOpened)
  BY RequestsAssumption DEF GeneratorsTypeOK, FileIds, Numbers
<1>6. \A k \in Jobs \ {j} : job'[k] = job[k]
  BY <1>2 DEF Moves
<1>7. Numbers'
  <2>1. last_file_id' <= 2 * Cardinality(ImagesOpened')
    BY <1>1, <1>4, <1>5
  <2>2. ASSUME NEW k \in Jobs, job'[k].at = "open"
        PROVE  1 <= job'[k].next_file_id /\ job'[k].next_file_id + 1 <= 2 * Cardinality(ImagesOpened')
    <3>1. CASE k = j
      BY <1>2, <1>4, <1>5, <3>1
    <3>2. CASE k # j
      <4>1. job'[k] = job[k] /\ job[k].next_file_id \in Nat
        BY <1>6, <3>2 DEF GeneratorsTypeOK, JobRecords
      <4>2. 1 <= job[k].next_file_id /\ job[k].next_file_id + 1 <= 2 * Cardinality(ImagesOpened)
        BY <2>2, <4>1 DEF Numbers, JobAt
      <4> QED BY <1>4, <4>1, <4>2
    <3> QED BY <3>1, <3>2
  <2> QED BY <1>3, <2>1, <2>2 DEF Numbers, JobAt
<1>8. job[j].ids = {}
  BY <1>1 DEF Images, JobAt
<1>9. ASSUME NEW k \in Jobs
      PROVE  /\ ~JobAt(k, {"open", "done"})' => job'[k].ids = {}
             /\ JobAt(k, {"open"})' => /\ job'[k].images # {}
                                       /\ \A id \in job'[k].ids, n \in job'[k].images :
                                            id < job'[k].next_file_id + n
  <2>1. CASE k = j
    BY <1>2, <1>8, <2>1 DEF JobAt
  <2>2. CASE k # j
    BY <1>6, <2>2 DEF JobAt, Images
  <2> QED BY <2>1, <2>2
<1>10. ASSUME NEW k \in Jobs, NEW l \in Jobs, k # l, JobAt(k, {"open"})', JobAt(l, {"open"})'
       PROVE  {k, l} \in overlapped'
  <2>1. CASE k = j
    <3>1. JobAt(l, {"open"})
      BY <1>6, <1>10, <2>1 DEF JobAt
    <3> QED BY <1>1, <1>10, <2>1, <3>1
  <2>2. CASE l = j
    <3>1. JobAt(k, {"open"}) /\ {k, l} = {j, k}
      BY <1>6, <1>10, <2>2 DEF JobAt
    <3> QED BY <1>1, <1>10, <2>2, <3>1
  <2>3. CASE k # j /\ l # j
    BY <1>1, <1>6, <1>10, <2>3 DEF JobAt, Images
  <2> QED BY <2>1, <2>2, <2>3
<1>11. ASSUME NEW k \in Jobs, RanAlone(k)', NEW id \in job'[k].ids
       PROVE  /\ frames'[id] = k /\ id <= last_file_id'
              /\ \A l \in Jobs \ {k} : JobAt(l, {"open"})' => id < job'[l].next_file_id
  <2>1. k # j /\ job'[k] = job[k] /\ RanAlone(k)
    BY <1>1, <1>2, <1>6, <1>8, <1>11 DEF RanAlone
  <2>2. /\ frames[id] = k /\ id <= last_file_id
        /\ \A l \in Jobs \ {k} : JobAt(l, {"open"}) => id < job[l].next_file_id
    BY <1>11, <2>1 DEF Images
  <2>3. id \in Nat
    BY <2>1, <1>11, RequestsAssumption DEF GeneratorsTypeOK, JobRecords, FileIds
  <2>4. id < job'[j].next_file_id
    BY <1>2, <1>5, <2>2, <2>3
  <2>5. ASSUME NEW l \in Jobs \ {k}, JobAt(l, {"open"})' PROVE id < job'[l].next_file_id
    BY <1>6, <2>2, <2>4, <2>5 DEF JobAt
  <2> QED BY <1>1, <2>2, <2>5
<1> QED BY <1>7, <1>9, <1>10, <1>11 DEF Images

\* An image is opened: its id is of no request that opened its images alone,
\* but for the one that opens it.
LEMMA OpenFiles ==
    ASSUME GeneratorsTypeOK, Numbers, Images, NEW j \in Jobs, OpenImage(j)
    PROVE  Numbers' /\ Images'
<1>1. job[j].at = "open" /\ UNCHANGED overlapped
  BY Zenon DEF OpenImage, JobAt
<1>2. /\ Moves(j) /\ job'[j].next_file_id = job[j].next_file_id
      /\ job'[j].at \in {"done", "open"} /\ (job'[j].at = "open" => job'[j].images # {})
  BY OpenEffect
<1>3. PICK n \in job[j].images :
        LET id == job[j].next_file_id + n IN
        /\ id \in FileIds /\ id <= 2 * Cardinality(ImagesOpened)
        /\ job'[j].images = job[j].images \ {n}
        /\ job'[j].ids = job[j].ids \cup {id}
        /\ \A o \in job'[j].images : n < o
        /\ frames' = [frames EXCEPT ![id] = j] /\ last_file_id' = id
  BY OpenEffect
<1> DEFINE new == job[j].next_file_id + n
<1>4. job[j].next_file_id \in Nat /\ n \in {0, 1} /\ new \in Nat
      /\ job'[j].images \subseteq {0, 1} /\ job[j].ids \subseteq FileIds
  BY <1>3 DEF GeneratorsTypeOK, JobRecords
<1>5. \A k \in Jobs \ {j} : job'[k] = job[k]
  BY <1>2 DEF Moves
<1>6. ImagesOpened' = ImagesOpened /\ Begun' = Begun
  <2>1. \A k \in Jobs : /\ JobAt(k, {"open", "done"})' <=> JobAt(k, {"open", "done"})
                        /\ JobAt(k, {"idle"})' <=> JobAt(k, {"idle"})
    BY <1>1, <1>2, <1>5 DEF JobAt
  <2> QED BY <2>1 DEF ImagesOpened, Begun
<1>7. Numbers'
  <2>1. last_file_id' <= 2 * Cardinality(ImagesOpened')
    BY <1>3, <1>6
  <2>2. ASSUME NEW k \in Jobs, JobAt(k, {"open"})'
        PROVE  1 <= job'[k].next_file_id /\ job'[k].next_file_id + 1 <= 2 * Cardinality(ImagesOpened')
    <3>1. job'[k].next_file_id = job[k].next_file_id /\ JobAt(k, {"open"})
      BY <1>1, <1>2, <1>5, <2>2 DEF JobAt
    <3> QED BY <1>6, <3>1 DEF Numbers
  <2> QED BY <1>6, <2>1, <2>2 DEF Numbers
<1>8. \A id \in job[j].ids : id < new
  BY <1>1, <1>3 DEF Images, JobAt
<1>9. ASSUME NEW k \in Jobs
      PROVE  /\ ~JobAt(k, {"open", "done"})' => job'[k].ids = {}
             /\ JobAt(k, {"open"})' => /\ job'[k].images # {}
                                       /\ \A id \in job'[k].ids, o \in job'[k].images :
                                            id < job'[k].next_file_id + o
  <2>1. CASE k = j
    <3>1. ASSUME NEW id \in job'[j].ids, NEW o \in job'[j].images
          PROVE  id < job'[j].next_file_id + o
      <4>1. n < o /\ o \in {0, 1}
        BY <1>3, <1>4, <3>1
      <4>2. id = new \/ id \in job[j].ids
        BY <1>3, <3>1
      <4>3. id \in Nat /\ id <= new
        BY <1>4, <1>8, <4>2, RequestsAssumption DEF FileIds
      <4> QED BY <1>2, <1>4, <4>1, <4>3
    <3> QED BY <1>2, <2>1, <3>1 DEF JobAt
  <2>2. CASE k # j
    BY <1>5, <2>2 DEF JobAt, Images
  <2> QED BY <2>1, <2>2
<1>10. \A k \in Jobs : JobAt(k, {"open"})' => JobAt(k, {"open"})
  BY <1>1, <1>5 DEF JobAt
<1>11. \A k \in Jobs : JobAt(k, {"open"}) /\ k # j => ~RanAlone(j) /\ ~RanAlone(k)
  BY <1>1 DEF Images, JobAt, RanAlone
<1>12. ASSUME NEW k \in Jobs, RanAlone(k)', NEW id \in job'[k].ids
       PROVE  /\ frames'[id] = k /\ id <= last_file_id'
              /\ \A l \in Jobs \ {k} : JobAt(l, {"open"})' => id < job'[l].next_file_id
  <2>1. RanAlone(k)
    BY <1>1, <1>12 DEF RanAlone
  <2>2. CASE k = j
    <3>1. \A l \in Jobs \ {k} : ~JobAt(l, {"open"})'
      BY <1>10, <1>11, <2>1, <2>2
    <3>2. CASE id = new
      BY <1>3, <1>4, <2>2, <3>1, <3>2 DEF GeneratorsTypeOK
    <3>3. CASE id # new
      <4>1. id \in job[j].ids /\ id < new /\ id \in Nat
        BY <1>3, <1>4, <1>8, <1>12, <2>2, <3>3, RequestsAssumption DEF FileIds
      <4>2. frames[id] = j
        BY <2>1, <2>2, <4>1 DEF Images
      <4>3. frames'[id] = frames[id]
        BY <1>3, <1>4, <3>3, <4>1 DEF GeneratorsTypeOK
      <4> QED BY <1>3, <1>4, <2>2, <3>1, <4>1, <4>2, <4>3
    <3> QED BY <3>2, <3>3
  <2>3. CASE k # j
    <3>1. id \in job[k].ids /\ id \in FileIds /\ id \in Nat
      BY <1>5, <1>12, <2>3, RequestsAssumption DEF GeneratorsTypeOK, JobRecords, FileIds
    <3>2. /\ frames[id] = k
          /\ \A l \in Jobs \ {k} : JobAt(l, {"open"}) => id < job[l].next_file_id
      BY <2>1, <3>1 DEF Images
    <3>3. id < job[j].next_file_id
      BY <1>1, <2>3, <3>2 DEF JobAt
    <3>4. id < new
      BY <1>4, <3>1, <3>3
    <3>5. frames'[id] = k /\ id <= last_file_id'
      BY <1>3, <1>4, <3>1, <3>2, <3>4 DEF GeneratorsTypeOK
    <3>6. \A l \in Jobs \ {k} : JobAt(l, {"open"})' => id < job'[l].next_file_id
      BY <1>2, <1>5, <1>10, <3>2
    <3> QED BY <3>5, <3>6
  <2> QED BY <2>2, <2>3
<1>13. \A k, l \in Jobs : k # l /\ JobAt(k, {"open"})' /\ JobAt(l, {"open"})' => {k, l} \in overlapped'
  BY <1>1, <1>10 DEF Images
<1> QED BY <1>7, <1>9, <1>12, <1>13, SMTT(30) DEF Images

LEMMA FilesStep == GeneratorsIInv /\ [GeneratorsNext]_generatorVars => Numbers' /\ Images'
<1> SUFFICES ASSUME GeneratorsIInv, [GeneratorsNext]_generatorVars PROVE Numbers' /\ Images'
  OBVIOUS
<1>1. GeneratorsTypeOK /\ Numbers /\ Images /\ MomentJobs \subseteq Jobs /\ FitJobs \subseteq Jobs
  BY DEF GeneratorsIInv, Jobs
<1> USE <1>1
<1> DEFINE Files == <<last_file_id, frames, overlapped>>
<1>2. ASSUME UNCHANGED <<Files, job>> PROVE Numbers' /\ Images'
  BY <1>2 DEF Numbers, Images, Begun, ImagesOpened, RanAlone, JobAt
<1>3. ASSUME NEW j \in MomentJobs, NEW f \in RestFrequencies, RequestMoments(j, f)
      PROVE Numbers' /\ Images'
  BY <1>3, RequestEffect, FileIdsKept DEF RequestMoments, otherVars, JobAt, SameFile
<1>4. ASSUME NEW j \in MomentJobs, ResetGenerator(j) PROVE Numbers' /\ Images'
  BY <1>4, ResetEffect, FileIdsKept DEF ResetGenerator, otherVars, JobAt, SameFile
<1>5. ASSUME NEW j \in MomentJobs, BeginCalculation(j) PROVE Numbers' /\ Images'
  BY <1>5, BeginEffect, FileIdsKept, Zenon DEF BeginCalculation, otherVars, JobAt, SameFile
<1>6. ASSUME NEW j \in MomentJobs, ResetImageMoments(j) PROVE Numbers' /\ Images'
  BY <1>6, ResetImageEffect, FileIdsKept, SMTT(30) DEF ResetImageMoments, otherVars, JobAt, SameFile
<1>7. ASSUME NEW j \in MomentJobs, CreateMoments(j) PROVE Numbers' /\ Images'
  BY <1>7, CreateEffect, FileIdsKept, Zenon DEF CreateMoments, otherVars, JobAt, SameFile
<1>8. ASSUME NEW j \in MomentJobs, FinishCalculation(j) PROVE Numbers' /\ Images'
  BY <1>8, FinishEffect, FileIdsKept DEF FinishCalculation, otherVars, JobAt, SameFile
<1>9. ASSUME NEW j \in MomentJobs, UseAfterEnd(j) PROVE Numbers' /\ Images'
  BY <1>2, <1>9 DEF UseAfterEnd, otherVars
<1>10. CASE StopMomentCalc
  BY <1>2, <1>10, SMTT(30) DEF StopMomentCalc, otherVars
<1>11. ASSUME NEW j \in FitJobs, NEW images \in SUBSET {0, 1}, StartFit(j, images)
       PROVE Numbers' /\ Images'
  BY <1>11, StartEffect, FileIdsKept, Zenon DEF StartFit, fitUnchanged, JobAt
<1>12. ASSUME NEW j \in FitJobs, Iterate(j) PROVE Numbers' /\ Images'
  BY <1>12, IterateEffect, FileIdsKept DEF Iterate, fitUnchanged, JobAt, SameFile
<1>13. ASSUME NEW j \in FitJobs, SolveSystem(j) PROVE Numbers' /\ Images'
  BY <1>13, SolveEffect, FileIdsKept DEF SolveSystem, fitUnchanged, JobAt, SameFile
<1>14. ASSUME NEW j \in FitJobs, TakeSolution(j) PROVE Numbers' /\ Images'
  BY <1>14, TakeEffect, FileIdsKept DEF TakeSolution, fitUnchanged, JobAt, SameFile
<1>15. ASSUME NEW j \in FitJobs, AnswerFit(j) PROVE Numbers' /\ Images'
  BY <1>15, FitAnswerEffect, FileIdsKept, Zenon DEF AnswerFit, fitUnchanged, JobAt, SameFile
<1>16. CASE StopFitting
  BY <1>2, <1>16 DEF StopFitting, fitUnchanged
<1>17. ASSUME NEW j \in Jobs, NextFileId(j) PROVE Numbers' /\ Images'
  BY <1>17, NextIdFiles
<1>18. ASSUME NEW j \in Jobs, OpenImage(j) PROVE Numbers' /\ Images'
  BY <1>18, OpenFiles
<1>19. CASE UNCHANGED generatorVars
  BY <1>2, <1>19 DEF generatorVars
<1> QED BY <1>3, <1>4, <1>5, <1>6, <1>7, <1>8, <1>9, <1>10, <1>11, <1>12, <1>13, <1>14, <1>15,
           <1>16, <1>17, <1>18, <1>19 DEF GeneratorsNext

-----------------------------------------------------------------------------
LEMMA GeneratorsInitOK == GeneratorsInit => GeneratorsIInv
<1> SUFFICES ASSUME GeneratorsInit PROVE GeneratorsIInv
  OBVIOUS
<1>1. /\ NewJob \in JobRecords /\ NewJob.at = "idle" /\ NewJob.generator = NoJob
      /\ NewJob.used = 0 /\ ~NewJob.cancel /\ ~NewJob.zeroed /\ NewJob.ids = {}
  BY DEF NewJob, JobRecords
<1>2. \A j \in Jobs : job[j] = NewJob
  BY DEF GeneratorsInit
<1>3. GeneratorsTypeOK
  BY <1>1 DEF GeneratorsInit, GeneratorsTypeOK
<1>4. MomentJobs \subseteq Jobs /\ FitJobs \subseteq Jobs /\ NoJob \notin MomentJobs
  BY RequestsAssumption DEF Jobs
<1>5. Moments
  BY <1>1, <1>2, <1>4 DEF GeneratorsInit, Moments, MomentStates, Frequencies, MomentStops, JobAt, Running
<1>6. Fits
  BY <1>1, <1>2, <1>4 DEF Fits, JobAt, Fitting
<1>7. Begun = {} /\ ImagesOpened = {}
  BY <1>1, <1>2 DEF Begun, ImagesOpened, JobAt
<1>8. Numbers
  BY <1>1, <1>2, <1>7, FS_EmptySet, RequestsAssumption DEF GeneratorsInit, Numbers, JobAt
<1>9. Images
  BY <1>1, <1>2 DEF Images, JobAt
<1> QED BY <1>3, <1>5, <1>6, <1>8, <1>9 DEF GeneratorsIInv

\* The invariant of Generators is inductive: what a request holds and has
\* saved, who was stopped, and which ids are taken, in every interleaving.
THEOREM GeneratorsInductive == GeneratorsSpec => []GeneratorsIInv
<1>1. GeneratorsIInv /\ [GeneratorsNext]_generatorVars => GeneratorsIInv'
  BY TypesStep, MomentsStep, FitsStep, FilesStep DEF GeneratorsIInv
<1> QED BY <1>1, GeneratorsInitOK, PTL DEF GeneratorsSpec

\* Types, the ids of generated images within their bound among them.
THEOREM GeneratorsTypeCorrect == GeneratorsSpec => []GeneratorsTypeOK
<1>1. GeneratorsIInv => GeneratorsTypeOK
  BY DEF GeneratorsIInv
<1> QED BY <1>1, GeneratorsInductive, PTL

\* For any requests and frequencies: the rest frequency is the image's own when
\* nothing is calculated, only the stopped are reported cancelled, zero residuals
\* are never a result, and images opened alone are not replaced.
THEOREM ImagesAreKept == GeneratorsSpec => []GeneratorsCorrect
<1>1. GeneratorsIInv => GeneratorsCorrect
  <2> SUFFICES ASSUME GeneratorsIInv PROVE GeneratorsCorrect
    OBVIOUS
  <2>1. RestFrequencyRestored
    BY DEF GeneratorsIInv, Moments, Frequencies, RestFrequencyRestored
  <2>2. CancelledWhileRunning
    BY DEF GeneratorsIInv, Moments, MomentStops, Fits, CancelledWhileRunning, Jobs
  <2>3. FitOfTheData
    BY DEF GeneratorsIInv, Fits, FitOfTheData
  <2>4. GeneratedImagesKept
    BY DEF GeneratorsIInv, Images, RanAlone, GeneratedImagesKept
  <2> QED BY <2>1, <2>2, <2>3, <2>4 DEF GeneratorsCorrect
<1> QED BY <1>1, GeneratorsInductive, PTL

-----------------------------------------------------------------------------
(***************************************************************************)
(* PV previews.  A load of a cube has an end: whoever holds the cube while  *)
(* it is loaded knows of the overlap, so an answer without overlap is cut  *)
(* from whole data.  Every state in a queue has a task that waits for it,  *)
(* which is why the queues are empty when all tasks are idle.              *)
(***************************************************************************)
\* Where requests are, and who has a cut and a cube.
RequestPlaces == {"read", "cut", "frame", "cube", "image", "subimage", "load", "loading", "set"}
WithCut == {"frame", "cube", "image", "subimage", "load", "loading", "set", "take", "compute"}
WithCube == {"image", "subimage", "load", "loading", "set", "take", "compute"}

\* A task is at a place of its kind, has what it has got on its way there, and an
\* update in progress finds the cuts and frames that it looks at.
TaskOK(t) ==
    LET r == preview_task[t]
    IN  /\ r.at = "idle" => r = NoPreviewTask
        /\ r.at \in RequestPlaces => r.kind = "request"
        /\ r.at \in {"queued", "next"} => r.kind = "update"
        /\ r.at \in {"take", "compute"} => r.kind \in {"request", "update"}
        /\ r.kind = "request" => r.preview \in Previews /\ r.cut_kind \in CutKinds /\ r.cube_kind \in CubeKinds
        /\ r.at \in RequestPlaces \ {"read"} => r.read # 0
        /\ r.at \in WithCut => r.cut # NoPreview
        /\ r.at \in WithCube => r.cube # NoPreview
        /\ r.todo # {} => r.kind = "update" /\ r.at # "queued"
        /\ \A p \in r.todo : cut_of[p] # NoPreview
        /\ r.kind = "update" /\ r.at \in {"take", "compute"} =>
             r.preview \in Previews /\ preview_frame[r.preview] # NoPreview

TaskStates == \A t \in PreviewTasks : TaskOK(t)

\* Data in part is being loaded; who goes on to cut has whole data or has noted an
\* overlap; who has the cube that another task is loading has noted it.
WholeCubes ==
    /\ \A c \in Cubes : cube[c].data = "part" =>
         \E u \in PreviewTasks : PreviewAt(u) = "loading" /\ preview_task[u].cube = c
    /\ \A t \in PreviewTasks : PreviewAt(t) \in {"set", "take", "compute"} =>
         cube[preview_task[t].cube].data = "full" \/ preview_task[t].overlap
    /\ \A t, u \in PreviewTasks :
         t # u /\ PreviewAt(t) = "loading" /\ preview_task[u].cube = preview_task[t].cube
            => preview_task[u].overlap

\* A stop that is still to be used has not been counted as a cancel.
StopsCounted ==
    \A c \in Cubes : /\ cube_cancels[c] <= cube_stops[c]
                     /\ cube[c].stop => cube_cancels[c] < cube_stops[c]

\* Task t will take a state from the queue of cut k, or end and say that it skipped it.
WillTake(t, k) ==
    LET r == preview_task[t]
    IN  \/ r.kind = "request" /\ r.at \in WithCut \ {"compute"} /\ r.cut = k
        \/ r.kind = "update" /\ r.at = "queued"
        \/ r.kind = "update" /\ r.at = "take" /\ r.cut = k
        \/ \E p \in r.todo : cut_of[p] = k
Waiting(k) == {t \in PreviewTasks : WillTake(t, k)}

\* For every state in a queue there is a task that will take it.
WillCatchUp ==
    \A p \in Previews : cut_of[p] # NoPreview =>
        \/ cut_of[p] \in skipped
        \/ Len(cut[cut_of[p]].queue) <= Cardinality(Waiting(cut_of[p]))

PreviewIInv == PvPreviewTypeOK /\ TaskStates /\ WholeCubes /\ StopsCounted /\ WillCatchUp

-----------------------------------------------------------------------------
\* What goes to another place leaves all else of a task.
SameTask(a, b) ==
    /\ b.kind = a.kind /\ b.preview = a.preview /\ b.cut_kind = a.cut_kind
    /\ b.cube_kind = a.cube_kind /\ b.cut = a.cut /\ b.cube = a.cube /\ b.read = a.read
    /\ b.frame_set = a.frame_set /\ b.todo = a.todo /\ b.overlap = a.overlap

PreviewPlaces ==
    {"idle", "read", "cut", "frame", "cube", "image", "subimage", "load", "loading",
     "set", "queued", "next", "take", "compute"}

LEMMA PlaceSet ==
    ASSUME NEW r \in PreviewTaskRecords, NEW at \in PreviewPlaces
    PROVE  LET b == [r EXCEPT !.at = at] IN
           b \in PreviewTaskRecords /\ b.at = at /\ SameTask(r, b)
BY DEF PreviewTaskRecords, PreviewPlaces, SameTask

LEMMA NoTaskSet ==
    /\ NoPreviewTask \in PreviewTaskRecords
    /\ NoPreviewTask.at = "idle" /\ NoPreviewTask.kind = "none" /\ NoPreviewTask.todo = {}
    /\ NoPreviewTask.cut = NoPreview /\ NoPreviewTask.cube = NoPreview
BY PreviewsAssumption DEF NoPreviewTask, PreviewTaskRecords, NoPreview

LEMMA UpdateSet ==
    LET b == [NoPreviewTask EXCEPT !.at = "queued", !.kind = "update"] IN
    /\ b \in PreviewTaskRecords /\ b.at = "queued" /\ b.kind = "update" /\ b.todo = {}
    /\ b.cut = NoPreview /\ b.cube = NoPreview
BY NoTaskSet DEF PreviewTaskRecords

LEMMA PreviewFrameSet ==
    ASSUME NEW r \in PreviewTaskRecords, NEW f \in BOOLEAN
    PROVE  LET b == [r EXCEPT !.at = "cube", !.frame_set = f] IN
           /\ b \in PreviewTaskRecords /\ b.at = "cube"
           /\ b.kind = r.kind /\ b.preview = r.preview /\ b.cut_kind = r.cut_kind
           /\ b.cube_kind = r.cube_kind /\ b.cut = r.cut /\ b.cube = r.cube /\ b.read = r.read
           /\ b.todo = r.todo /\ b.overlap = r.overlap
BY DEF PreviewTaskRecords

LEMMA TodoSet ==
    ASSUME NEW r \in PreviewTaskRecords, NEW todo \in SUBSET Previews
    PROVE  LET b == [r EXCEPT !.at = "next", !.todo = todo] IN
           /\ b \in PreviewTaskRecords /\ b.at = "next" /\ b.todo = todo
           /\ b.kind = r.kind /\ b.cut = r.cut /\ b.cube = r.cube /\ b.overlap = r.overlap
BY DEF PreviewTaskRecords

\* Only task t changes, to r.
LEMMA OneTaskSet ==
    ASSUME PvPreviewTypeOK, NEW t \in PreviewTasks, NEW r \in PreviewTaskRecords,
           preview_task' = [preview_task EXCEPT ![t] = r]
    PROVE  /\ preview_task' \in [PreviewTasks -> PreviewTaskRecords] /\ preview_task'[t] = r
           /\ \A u \in PreviewTasks \ {t} : preview_task'[u] = preview_task[u]
BY DEF PvPreviewTypeOK

LEMMA QueueSet ==
    ASSUME PvPreviewTypeOK, NEW k \in Cuts, NEW q \in Seq(1..MaxLineMoves),
           cut' = [cut EXCEPT ![k].queue = q]
    PROVE  /\ cut' \in Seq(CutRecords) /\ Len(cut') = Len(cut) /\ Cuts' = Cuts
           /\ cut'[k].queue = q /\ \A j \in Cuts \ {k} : cut'[j] = cut[j]
<1>1. cut \in Seq(CutRecords) /\ k \in 1..Len(cut) /\ cut[k] \in CutRecords
  BY ElementOfSeq DEF PvPreviewTypeOK, Cuts
<1> DEFINE r == [cut[k] EXCEPT !.queue = q]
<1>2. r \in CutRecords /\ r.queue = q
  BY <1>1 DEF CutRecords
<1>3. cut' = [cut EXCEPT ![k] = r]
  BY <1>1
<1> HIDE DEF r
<1> QED BY <1>1, <1>2, <1>3, ExceptSeq DEF Cuts

LEMMA CubeRecordSet ==
    ASSUME PvPreviewTypeOK, NEW c \in Cubes, NEW r \in CubeRecords, cube' = [cube EXCEPT ![c] = r]
    PROVE  /\ cube' \in Seq(CubeRecords) /\ Len(cube') = Len(cube) /\ Cubes' = Cubes
           /\ cube'[c] = r /\ \A d \in Cubes \ {c} : cube'[d] = cube[d]
BY ExceptSeq DEF PvPreviewTypeOK, Cubes

LEMMA CubeFieldSet ==
    ASSUME NEW r \in CubeRecords, NEW d \in {"empty", "part", "full"}, NEW b \in BOOLEAN
    PROVE  /\ LET q == [r EXCEPT !.stop = b] IN
                q \in CubeRecords /\ q.data = r.data /\ q.stop = b
           /\ LET q == [r EXCEPT !.image = TRUE] IN
                q \in CubeRecords /\ q.data = r.data /\ q.stop = r.stop
           /\ LET q == [r EXCEPT !.data = d] IN
                q \in CubeRecords /\ q.data = d /\ q.stop = r.stop
           /\ LET q == [r EXCEPT !.stop = FALSE, !.data = d] IN
                q \in CubeRecords /\ q.data = d /\ ~q.stop
BY DEF CubeRecords

-----------------------------------------------------------------------------
\* A step of task t.
OneTask(t) ==
    /\ preview_task' \in [PreviewTasks -> PreviewTaskRecords]
    /\ \A u \in PreviewTasks \ {t} : preview_task'[u] = preview_task[u]

\* An update in progress keeps the cuts and the frames that it looks at.
UpdatesKept ==
    \/ \A p \in Previews : /\ cut_of[p] # NoPreview => cut_of'[p] # NoPreview
                           /\ preview_frame[p] # NoPreview => preview_frame'[p] # NoPreview
    \/ \A u \in PreviewTasks : ~Updating(u)

LEMMA TodoOfUpdates ==
    ASSUME PvPreviewTypeOK, TaskStates, NEW u \in PreviewTasks, ~Updating(u)
    PROVE  preview_task[u].todo = {}
           /\ ~(preview_task[u].kind = "update" /\ preview_task[u].at \in {"take", "compute"})
BY NoTaskSet DEF TaskStates, TaskOK, Updating, PreviewAt

LEMMA TasksKept ==
    ASSUME PvPreviewTypeOK, TaskStates, NEW t \in PreviewTasks, OneTask(t), TaskOK(t)', UpdatesKept
    PROVE  TaskStates'
<1> SUFFICES ASSUME NEW u \in PreviewTasks, u # t PROVE TaskOK(u)'
  BY DEF TaskStates
<1>1. preview_task'[u] = preview_task[u] /\ preview_task[u].todo \subseteq Previews /\ TaskOK(u)
  BY DEF OneTask, TaskStates, PvPreviewTypeOK, PreviewTaskRecords
<1>2. CASE Updating(u)
  BY <1>1, <1>2 DEF TaskOK, UpdatesKept
<1>3. CASE ~Updating(u)
  BY <1>1, <1>3, TodoOfUpdates DEF TaskOK
<1> QED BY <1>2, <1>3

\* Data that is there is whole, or on its way in another task.
LEMMA DataOfCube ==
    ASSUME PvPreviewTypeOK, WholeCubes, NEW t \in PreviewTasks, NEW c \in Cubes,
           PreviewAt(t) # "loading", cube[c].data # "empty"
    PROVE  cube[c].data = "full" \/ LoadedElsewhere(t, c)
<1>1. cube[c].data \in {"empty", "part", "full"}
  <2>1. cube \in Seq(CubeRecords) /\ c \in 1..Len(cube)
    BY DEF PvPreviewTypeOK, Cubes
  <2>2. cube[c] \in CubeRecords
    BY <2>1, ElementOfSeq
  <2> QED BY <2>2 DEF CubeRecords
<1>2. CASE cube[c].data = "part"
  BY <1>2 DEF WholeCubes, LoadedElsewhere, LoadingCube
<1> QED BY <1>1, <1>2

LEMMA WholeKept ==
    ASSUME PvPreviewTypeOK, TaskStates, WholeCubes, NEW t \in PreviewTasks, OneTask(t),
           Cubes \subseteq Cubes', \A c \in Cubes : cube'[c].data = cube[c].data,
           \A c \in Cubes' \ Cubes : cube'[c].data # "part",
           PreviewAt(t) # "loading", PreviewAt(t)' # "loading",
           PreviewAt(t)' \in {"set", "take", "compute"} =>
              /\ preview_task'[t].cube \in Cubes
              /\ cube[preview_task'[t].cube].data = "full" \/ preview_task'[t].overlap,
           \A u \in PreviewTasks \ {t} :
              PreviewAt(u) = "loading" /\ preview_task'[t].cube = preview_task[u].cube
                => preview_task'[t].overlap
    PROVE  WholeCubes'
<1>1. \A u \in PreviewTasks \ {t} : preview_task'[u] = preview_task[u]
  BY DEF OneTask
<1>2. \A c \in Cubes' : cube'[c].data = "part" =>
         \E u \in PreviewTasks : PreviewAt(u)' = "loading" /\ preview_task'[u].cube = c
  <2> SUFFICES ASSUME NEW c \in Cubes', cube'[c].data = "part"
               PROVE  \E u \in PreviewTasks : PreviewAt(u)' = "loading" /\ preview_task'[u].cube = c
    OBVIOUS
  <2>1. c \in Cubes /\ cube[c].data = "part"
    OBVIOUS
  <2>2. PICK u \in PreviewTasks : PreviewAt(u) = "loading" /\ preview_task[u].cube = c
    BY <2>1 DEF WholeCubes
  <2> QED BY <1>1, <2>2 DEF PreviewAt
<1>3. ASSUME NEW u \in PreviewTasks, PreviewAt(u)' \in {"set", "take", "compute"}
      PROVE  cube'[preview_task'[u].cube].data = "full" \/ preview_task'[u].overlap
  <2>1. CASE u = t
    BY <1>3, <2>1
  <2>2. CASE u # t
    <3>1. /\ preview_task'[u] = preview_task[u] /\ PreviewAt(u) \in {"set", "take", "compute"}
          /\ preview_task[u].cube \in Cubes
      BY <1>1, <1>3, <2>2 DEF PreviewAt, TaskStates, TaskOK, WithCube, PvPreviewTypeOK
    <3> QED BY <3>1 DEF WholeCubes
  <2> QED BY <2>1, <2>2
<1>4. ASSUME NEW v \in PreviewTasks, NEW u \in PreviewTasks, v # u, PreviewAt(v)' = "loading",
             preview_task'[u].cube = preview_task'[v].cube
      PROVE  preview_task'[u].overlap
  <2>1. v # t /\ preview_task'[v] = preview_task[v] /\ PreviewAt(v) = "loading"
    BY <1>1, <1>4 DEF PreviewAt
  <2>2. CASE u = t
    BY <1>4, <2>1, <2>2
  <2>3. CASE u # t
    BY <1>1, <1>4, <2>1, <2>3 DEF WholeCubes
  <2> QED BY <2>2, <2>3
<1> QED BY <1>2, <1>3, <1>4 DEF WholeCubes

LEMMA StopsKept ==
    ASSUME PvPreviewTypeOK, StopsCounted, Cubes \subseteq Cubes',
           \A c \in Cubes : /\ cube'[c].stop = cube[c].stop
                            /\ cube_cancels'[c] = cube_cancels[c] /\ cube_stops'[c] = cube_stops[c],
           \A c \in Cubes' \ Cubes : ~cube'[c].stop /\ cube_cancels'[c] = 0 /\ cube_stops'[c] = 0
    PROVE  StopsCounted'
BY DEF StopsCounted

-----------------------------------------------------------------------------
LEMMA WaitingFinite ==
    ASSUME NEW k
    PROVE  IsFiniteSet(Waiting(k)) /\ Cardinality(Waiting(k)) \in Nat
<1>1. Waiting(k) \subseteq PreviewTasks
  BY DEF Waiting
<1> QED BY <1>1, PreviewsAssumption, FS_Subset, FS_CardinalityType

LEMMA WaitingGrows ==
    ASSUME NEW k, NEW t \in PreviewTasks
    PROVE  /\ Waiting(k) \subseteq Waiting(k)' => Cardinality(Waiting(k)') >= Cardinality(Waiting(k))
           /\ Waiting(k) \ {t} \subseteq Waiting(k)' =>
                Cardinality(Waiting(k)') >= Cardinality(Waiting(k)) - 1
           /\ t \notin Waiting(k) /\ Waiting(k) \cup {t} \subseteq Waiting(k)' =>
                Cardinality(Waiting(k)') >= Cardinality(Waiting(k)) + 1
<1> DEFINE W == Waiting(k)
           V == Waiting(k)'
<1>1. IsFiniteSet(W) /\ Cardinality(W) \in Nat
  BY WaitingFinite
<1>2. IsFiniteSet(V) /\ Cardinality(V) \in Nat
  <2>1. V \subseteq PreviewTasks
    BY DEF Waiting
  <2> QED BY <2>1, PreviewsAssumption, FS_Subset, FS_CardinalityType
<1> HIDE DEF W, V
<1>3. W \subseteq V => Cardinality(V) >= Cardinality(W)
  BY <1>1, <1>2, FS_Subset
<1>4. W \ {t} \subseteq V => Cardinality(V) >= Cardinality(W) - 1
  <2>1. CASE t \in W
    <3>1. /\ IsFiniteSet(W \ {t}) /\ Cardinality(W \ {t}) = Cardinality(W) - 1
      BY <1>1, <2>1, FS_RemoveElement
    <3>2. W \ {t} \subseteq V => Cardinality(W \ {t}) <= Cardinality(V)
      BY <1>2, FS_Subset
    <3> QED BY <1>1, <1>2, <3>1, <3>2
  <2>2. CASE t \notin W
    BY <1>1, <1>2, <1>3, <2>2
  <2> QED BY <2>1, <2>2
<1>5. t \notin W /\ W \cup {t} \subseteq V => Cardinality(V) >= Cardinality(W) + 1
  <2>1. t \notin W => IsFiniteSet(W \cup {t}) /\ Cardinality(W \cup {t}) = Cardinality(W) + 1
    BY <1>1, FS_AddElement
  <2>2. W \cup {t} \subseteq V => Cardinality(W \cup {t}) <= Cardinality(V)
    BY <1>2, FS_Subset
  <2> QED BY <1>1, <1>2, <2>1, <2>2
<1> QED BY <1>3, <1>4, <1>5 DEF W, V

\* What a step may do to the queue of a cut: cut it short, or leave it with as many
\* tasks that wait for it as states.
QueueKept(t, k) ==
    \/ k \in skipped'
    \/ cut'[k].queue = <<>>
    \/ /\ k \notin skipped /\ cut'[k].queue = cut[k].queue
       /\ Waiting(k) \subseteq Waiting(k)'
    \/ /\ k \notin skipped /\ Len(cut'[k].queue) = Len(cut[k].queue) + 1
       /\ t \notin Waiting(k) /\ Waiting(k) \cup {t} \subseteq Waiting(k)'
    \/ /\ k \notin skipped /\ Len(cut'[k].queue) = Len(cut[k].queue) - 1
       /\ Waiting(k) \ {t} \subseteq Waiting(k)'

LEMMA CatchUpKept ==
    ASSUME PvPreviewTypeOK, NEW t \in PreviewTasks, NEW k \in Cuts, QueueKept(t, k),
           k \in skipped \/ Len(cut[k].queue) <= Cardinality(Waiting(k))
    PROVE  k \in skipped' \/ Len(cut'[k].queue) <= Cardinality(Waiting(k)')
<1> DEFINE n == Cardinality(Waiting(k))
           m == Cardinality(Waiting(k)')
           x == Len(cut[k].queue)
           y == Len(cut'[k].queue)
<1>1. x \in Nat
  <2>1. cut \in Seq(CutRecords) /\ k \in 1..Len(cut)
    BY DEF PvPreviewTypeOK, Cuts
  <2>2. cut[k] \in CutRecords
    BY <2>1, ElementOfSeq
  <2> QED BY <2>2 DEF CutRecords
<1>2. n \in Nat /\ m \in Nat
  <2>1. Waiting(k)' \subseteq PreviewTasks
    BY DEF Waiting
  <2> QED BY <2>1, WaitingFinite, PreviewsAssumption, FS_Subset, FS_CardinalityType
<1>3. k \in skipped \/ x <= n
  OBVIOUS
<1>4. /\ Waiting(k) \subseteq Waiting(k)' => m >= n
      /\ Waiting(k) \ {t} \subseteq Waiting(k)' => m >= n - 1
      /\ t \notin Waiting(k) /\ Waiting(k) \cup {t} \subseteq Waiting(k)' => m >= n + 1
  BY WaitingGrows
<1>5. \/ k \in skipped'
      \/ cut'[k].queue = <<>> /\ y = 0
      \/ k \notin skipped /\ y = x /\ Waiting(k) \subseteq Waiting(k)'
      \/ k \notin skipped /\ y = x + 1 /\ t \notin Waiting(k)
           /\ Waiting(k) \cup {t} \subseteq Waiting(k)'
      \/ k \notin skipped /\ y = x - 1 /\ Waiting(k) \ {t} \subseteq Waiting(k)'
  BY DEF QueueKept
<1> SUFFICES k \in skipped' \/ y <= m
  OBVIOUS
<1> HIDE DEF n, m, x, y
<1> QED BY <1>1, <1>2, <1>3, <1>4, <1>5

\* A cut is as it was with its tasks, or is new with one state and one task.
LEMMA CatchUpFrom ==
    ASSUME PvPreviewTypeOK, PvPreviewTypeOK', WillCatchUp, NEW t \in PreviewTasks,
           \A p \in Previews, k \in Nat : cut_of'[p] = k /\ k # NoPreview =>
                \/ cut_of[p] = k /\ QueueKept(t, k)
                \/ Len(cut'[k].queue) = 1 /\ WillTake(t, k)'
    PROVE  WillCatchUp'
<1>0. \A p \in Previews : cut_of'[p] \in Nat
  BY DEF PvPreviewTypeOK, Cuts, NoPreview
<1> SUFFICES ASSUME NEW p \in Previews, NEW k \in Nat, cut_of'[p] = k, k # NoPreview
             PROVE  k \in skipped' \/ Len(cut'[k].queue) <= Cardinality(Waiting(k)')
  BY <1>0 DEF WillCatchUp, NoPreview
<1>1. CASE cut_of[p] = k /\ QueueKept(t, k)
  <2>1. k \in Cuts
    BY <1>1 DEF PvPreviewTypeOK, NoPreview
  <2>2. k \in skipped \/ Len(cut[k].queue) <= Cardinality(Waiting(k))
    BY <1>1 DEF WillCatchUp
  <2> QED BY <1>1, <2>1, <2>2, CatchUpKept
<1>2. CASE Len(cut'[k].queue) = 1 /\ WillTake(t, k)'
  <2>1. {t} \subseteq Waiting(k)' /\ Waiting(k)' \subseteq PreviewTasks
    BY <1>2 DEF Waiting
  <2>2. Cardinality({t}) = 1 /\ IsFiniteSet(Waiting(k)') /\ Cardinality(Waiting(k)') \in Nat
    BY <2>1, PreviewsAssumption, FS_Subset, FS_CardinalityType, FS_Singleton
  <2>3. Cardinality({t}) <= Cardinality(Waiting(k)')
    BY <2>1, <2>2, FS_Subset
  <2> QED BY <1>2, <2>2, <2>3
<1> QED BY <1>1, <1>2

\* The other tasks wait for what they waited for.
LEMMA OthersWait ==
    ASSUME PvPreviewTypeOK, TaskStates, NEW t \in PreviewTasks, OneTask(t),
           UNCHANGED cut_of \/ \A u \in PreviewTasks : ~Updating(u)
    PROVE  \A u \in PreviewTasks \ {t}, k \in Nat : WillTake(u, k)' <=> WillTake(u, k)
<1> SUFFICES ASSUME NEW u \in PreviewTasks \ {t}, NEW k \in Nat
             PROVE  WillTake(u, k)' <=> WillTake(u, k)
  OBVIOUS
<1>1. preview_task'[u] = preview_task[u]
  BY DEF OneTask
<1>2. CASE UNCHANGED cut_of
  BY <1>1, <1>2 DEF WillTake
<1>3. CASE \A v \in PreviewTasks : ~Updating(v)
  BY <1>1, <1>3, TodoOfUpdates DEF WillTake
<1> QED BY <1>2, <1>3

LEMMA WaitingOthers ==
    ASSUME PvPreviewTypeOK, TaskStates, NEW t \in PreviewTasks, OneTask(t), NEW k \in Nat,
           UNCHANGED cut_of \/ \A u \in PreviewTasks : ~Updating(u)
    PROVE  /\ Waiting(k) \ {t} \subseteq Waiting(k)'
           /\ (WillTake(t, k) => WillTake(t, k)') => Waiting(k) \subseteq Waiting(k)'
           /\ WillTake(t, k)' => Waiting(k) \cup {t} \subseteq Waiting(k)'
BY OthersWait DEF Waiting

-----------------------------------------------------------------------------
LEMMA TaskFacts ==
    ASSUME PvPreviewTypeOK, NEW t \in PreviewTasks
    PROVE  /\ preview_task[t] \in PreviewTaskRecords
           /\ preview_task[t].at \in PreviewPlaces /\ preview_task[t].todo \in SUBSET Previews
           /\ preview_task[t].cut \in Cuts \cup {NoPreview} /\ preview_task[t].cut \in Nat
           /\ preview_task[t].cube \in Cubes \cup {NoPreview} /\ preview_task[t].cube \in Nat
BY DEF PvPreviewTypeOK, PreviewTaskRecords, PreviewPlaces

LEMMA TypeKept ==
    ASSUME PvPreviewTypeOK, NEW t \in PreviewTasks, OneTask(t), line' \in 1..MaxLineMoves,
           cut' \in Seq(CutRecords), cube' \in Seq(CubeRecords),
           Cuts \subseteq Cuts', Cubes \subseteq Cubes',
           cut_of' \in [Previews -> Cuts' \cup {NoPreview}],
           cube_of' \in [Previews -> Cubes' \cup {NoPreview}],
           preview_frame' \in [Previews -> Cubes' \cup {NoPreview}],
           preview_task'[t].cut \in Cuts' \cup {NoPreview},
           preview_task'[t].cube \in Cubes' \cup {NoPreview},
           preview_lock' \in PreviewTasks \cup {NoPreview},
           cube_stops' \in [Cubes' -> Nat], cube_cancels' \in [Cubes' -> Nat],
           skipped' \subseteq Cuts'
    PROVE  PvPreviewTypeOK'
<1>1. ASSUME NEW u \in PreviewTasks
      PROVE  /\ preview_task'[u].cut \in Cuts' \cup {NoPreview}
             /\ preview_task'[u].cube \in Cubes' \cup {NoPreview}
  <2>1. CASE u = t
    BY <2>1
  <2>2. CASE u # t
    BY <2>2, TaskFacts DEF OneTask
  <2> QED BY <2>1, <2>2
<1> QED BY <1>1 DEF PvPreviewTypeOK, OneTask

\* Who has the cube of a load in progress has noted it.
LEMMA OverlapNoted ==
    ASSUME PvPreviewTypeOK, TaskStates, WholeCubes, NEW t \in PreviewTasks,
           \/ preview_task'[t].cube = NoPreview
           \/ /\ preview_task'[t].cube = preview_task[t].cube
              /\ preview_task'[t].overlap = preview_task[t].overlap
           \/ preview_task'[t].overlap = LoadedElsewhere(t, preview_task'[t].cube)
    PROVE  \A u \in PreviewTasks \ {t} :
              PreviewAt(u) = "loading" /\ preview_task'[t].cube = preview_task[u].cube
                => preview_task'[t].overlap
<1> SUFFICES ASSUME NEW u \in PreviewTasks \ {t}, PreviewAt(u) = "loading",
                    preview_task'[t].cube = preview_task[u].cube
             PROVE  preview_task'[t].overlap
  OBVIOUS
<1>1. preview_task[u].cube # NoPreview
  BY DEF TaskStates, TaskOK, WithCube, PreviewAt
<1>2. LoadedElsewhere(t, preview_task'[t].cube)
  BY DEF LoadedElsewhere, LoadingCube
<1> QED BY <1>1, <1>2 DEF WholeCubes

\* A step of one task that leaves cuts, data and stops alone.
LEMMA QuietStep ==
    ASSUME PreviewIInv, NEW t \in PreviewTasks, OneTask(t),
           UNCHANGED <<line, cut_of, cut, preview_frame, cube_stops, cube_cancels>>,
           cube_of' \in [Previews -> Cubes \cup {NoPreview}],
           cube' \in Seq(CubeRecords), Cubes' = Cubes,
           \A c \in Cubes : cube'[c].data = cube[c].data /\ cube'[c].stop = cube[c].stop,
           preview_lock' \in PreviewTasks \cup {NoPreview},
           skipped \subseteq skipped', skipped' \subseteq Cuts,
           preview_task'[t].cut \in Cuts \cup {NoPreview},
           preview_task'[t].cube \in Cubes \cup {NoPreview},
           TaskOK(t)', PreviewAt(t) # "loading", PreviewAt(t)' # "loading",
           PreviewAt(t)' \in {"set", "take", "compute"} =>
              cube[preview_task'[t].cube].data = "full" \/ preview_task'[t].overlap,
           \/ preview_task'[t].cube = NoPreview
           \/ /\ preview_task'[t].cube = preview_task[t].cube
              /\ preview_task'[t].overlap = preview_task[t].overlap
           \/ preview_task'[t].overlap = LoadedElsewhere(t, preview_task'[t].cube),
           \A p \in Previews, k \in Nat : cut_of[p] = k /\ k # NoPreview =>
              \/ k \in skipped' \/ cut[k].queue = <<>>
              \/ WillTake(t, k) => WillTake(t, k)'
    PROVE  PreviewIInv'
<1> USE DEF PreviewIInv
<1>0. Cuts' = Cuts
  BY DEF Cuts
<1>1. PvPreviewTypeOK'
  <2>1. /\ line' \in 1..MaxLineMoves /\ cut' \in Seq(CutRecords)
        /\ cut_of' \in [Previews -> Cuts' \cup {NoPreview}]
        /\ cube_of' \in [Previews -> Cubes' \cup {NoPreview}]
        /\ preview_frame' \in [Previews -> Cubes' \cup {NoPreview}]
        /\ cube_stops' \in [Cubes' -> Nat] /\ cube_cancels' \in [Cubes' -> Nat]
    BY <1>0 DEF PvPreviewTypeOK
  <2> QED BY <1>0, <2>1, TypeKept
<1>2. TaskStates'
  <2>1. UpdatesKept
    BY DEF UpdatesKept
  <2> QED BY <2>1, TasksKept
<1>3. WholeCubes'
  <2>1. PreviewAt(t)' \in {"set", "take", "compute"} => preview_task'[t].cube \in Cubes
    BY DEF TaskOK, WithCube, PreviewAt
  <2> QED BY <2>1, OverlapNoted, WholeKept
<1>4. StopsCounted'
  BY StopsKept
<1>5. WillCatchUp'
  <2>1. ASSUME NEW p \in Previews, NEW k \in Nat, cut_of'[p] = k, k # NoPreview
        PROVE  cut_of[p] = k /\ QueueKept(t, k)
    <3>1. cut_of[p] = k
      BY <2>1
    <3>2. (WillTake(t, k) => WillTake(t, k)') => Waiting(k) \subseteq Waiting(k)'
      BY WaitingOthers
    <3> QED BY <2>1, <3>1, <3>2 DEF QueueKept
  <2> QED BY <1>1, <2>1, CatchUpFrom
<1> QED BY <1>1, <1>2, <1>3, <1>4, <1>5

-----------------------------------------------------------------------------
LEMMA ReadCutStateStep ==
    ASSUME PreviewIInv, NEW t \in PreviewTasks, ReadCutState(t)
    PROVE  PreviewIInv'
<1> USE DEF PreviewIInv
<1> DEFINE a == preview_task[t]
           r == [a EXCEPT !.at = "cut", !.read = line]
<1>1. a \in PreviewTaskRecords /\ line \in 0..MaxLineMoves /\ line # 0 /\ "cut" \in PreviewPlaces
  BY TaskFacts, PreviewsAssumption DEF PvPreviewTypeOK, PreviewPlaces
<1>2. preview_task' = [preview_task EXCEPT ![t] = r]
  BY DEF ReadCutState, PvPreviewTypeOK
<1>3. /\ r \in PreviewTaskRecords /\ r.at = "cut" /\ r.read = line
      /\ r.kind = a.kind /\ r.preview = a.preview /\ r.cut_kind = a.cut_kind
      /\ r.cube_kind = a.cube_kind /\ r.cut = a.cut /\ r.cube = a.cube
      /\ r.todo = a.todo /\ r.overlap = a.overlap
  <2> HIDE DEF a
  <2> QED BY <1>1 DEF PreviewTaskRecords
<1> HIDE DEF r
<1>4. OneTask(t) /\ preview_task'[t] = r
  BY <1>2, <1>3, OneTaskSet DEF OneTask
<1>5. a.at = "read" /\ a.kind = "request" /\ TaskOK(t)
  BY DEF ReadCutState, PreviewAt, TaskStates, TaskOK, RequestPlaces
<1>6. TaskOK(t)'
  BY <1>1, <1>3, <1>4, <1>5 DEF TaskOK, ReadCutState, RequestPlaces, WithCut, WithCube, KeepMain
<1>7. ASSUME NEW k \in Nat PROVE ~WillTake(t, k)
  BY <1>5 DEF WillTake, WithCut, TaskOK
<1>8. /\ UNCHANGED <<line, cut_of, cut, cube_of, preview_frame, cube_stops, cube_cancels>>
      /\ UNCHANGED <<cube, skipped, preview_lock>> /\ Cubes' = Cubes
  BY DEF ReadCutState, KeepMain, Cubes
<1>9. /\ PreviewAt(t) # "loading" /\ PreviewAt(t)' # "loading"
      /\ PreviewAt(t)' \notin {"set", "take", "compute"}
  BY <1>3, <1>4, <1>5 DEF PreviewAt
<1>10. /\ cube_of \in [Previews -> Cubes \cup {NoPreview}]
       /\ a.cut \in Cuts \cup {NoPreview} /\ a.cube \in Cubes \cup {NoPreview}
       /\ cube \in Seq(CubeRecords) /\ skipped \subseteq Cuts
       /\ preview_lock \in PreviewTasks \cup {NoPreview}
  BY TaskFacts DEF PvPreviewTypeOK
<1> QED BY <1>3, <1>4, <1>6, <1>7, <1>8, <1>9, <1>10, QuietStep

-----------------------------------------------------------------------------
LEMMA GoToFacts ==
    ASSUME PvPreviewTypeOK, NEW t \in PreviewTasks, NEW at \in PreviewPlaces, GoTo(t, at)
    PROVE  OneTask(t) /\ preview_task'[t].at = at /\ SameTask(preview_task[t], preview_task'[t])
<1> DEFINE r == [preview_task[t] EXCEPT !.at = at]
<1>1. preview_task' = [preview_task EXCEPT ![t] = r]
  BY DEF GoTo
<1>2. r \in PreviewTaskRecords /\ r.at = at /\ SameTask(preview_task[t], r)
  BY TaskFacts, PlaceSet
<1> HIDE DEF r
<1> QED BY <1>1, <1>2, OneTaskSet DEF OneTask

LEMMA EndFacts ==
    ASSUME PvPreviewTypeOK, NEW t \in PreviewTasks, End(t)
    PROVE  OneTask(t) /\ preview_task'[t] = NoPreviewTask
BY NoTaskSet, OneTaskSet DEF End, OneTask

LEMMA StateTypes ==
    ASSUME PvPreviewTypeOK
    PROVE  /\ cube_of \in [Previews -> Cubes \cup {NoPreview}]
           /\ cube \in Seq(CubeRecords) /\ skipped \subseteq Cuts
           /\ preview_lock \in PreviewTasks \cup {NoPreview}
           /\ \A t \in PreviewTasks : /\ preview_task[t].cut \in Cuts \cup {NoPreview}
                                      /\ preview_task[t].cube \in Cubes \cup {NoPreview}
BY DEF PvPreviewTypeOK

LEMMA NoTaskOK ==
    ASSUME NEW t \in PreviewTasks, preview_task'[t] = NoPreviewTask
    PROVE  /\ TaskOK(t)' /\ PreviewAt(t)' = "idle"
           /\ preview_task'[t].cut = NoPreview /\ preview_task'[t].cube = NoPreview
BY NoTaskSet DEF TaskOK, PreviewAt, RequestPlaces, WithCut, WithCube

\* The end of a task: what it waited for is cut, or noted as skipped.
LEMMA PreviewEndStep ==
    ASSUME PreviewIInv, NEW t \in PreviewTasks, End(t), PreviewAt(t) # "loading",
           UNCHANGED <<line, cut_of, cut, cube_of, preview_frame, cube_stops, cube_cancels, cube>>,
           preview_lock' \in PreviewTasks \cup {NoPreview},
           skipped \subseteq skipped', skipped' \subseteq Cuts,
           \A p \in Previews, k \in Nat : cut_of[p] = k /\ k # NoPreview /\ WillTake(t, k) =>
              k \in skipped' \/ cut[k].queue = <<>>
    PROVE  PreviewIInv'
<1> USE DEF PreviewIInv
<1>1. OneTask(t) /\ preview_task'[t] = NoPreviewTask
  BY EndFacts
<1>2. /\ TaskOK(t)' /\ PreviewAt(t)' # "loading" /\ PreviewAt(t)' \notin {"set", "take", "compute"}
      /\ preview_task'[t].cut = NoPreview /\ preview_task'[t].cube = NoPreview
  BY <1>1, NoTaskOK
<1>3. /\ cube' \in Seq(CubeRecords) /\ Cubes' = Cubes
      /\ cube_of' \in [Previews -> Cubes \cup {NoPreview}]
      /\ \A c \in Cubes : cube'[c].data = cube[c].data /\ cube'[c].stop = cube[c].stop
  BY StateTypes DEF Cubes
<1> QED BY <1>1, <1>2, <1>3, QuietStep

\* The cube that a task has, with data in it.
LEMMA DataOfOwn ==
    ASSUME PvPreviewTypeOK, WholeCubes, NEW t \in PreviewTasks, NEW c \in Cubes,
           preview_task[t].cube = c, PreviewAt(t) # "loading", cube[c].data # "empty"
    PROVE  cube[c].data = "full" \/ preview_task[t].overlap
<1>1. cube[c].data \in {"empty", "part", "full"}
  <2>1. cube \in Seq(CubeRecords) /\ c \in 1..Len(cube)
    BY DEF PvPreviewTypeOK, Cubes
  <2>2. cube[c] \in CubeRecords
    BY <2>1, ElementOfSeq
  <2> QED BY <2>2 DEF CubeRecords
<1>2. CASE cube[c].data = "part"
  BY <1>2 DEF WholeCubes
<1> QED BY <1>1, <1>2

\* A request goes on with its cut and its cube.
LEMMA RequestOn ==
    ASSUME PvPreviewTypeOK, NEW t \in PreviewTasks, TaskOK(t), UNCHANGED cut_of,
           SameTask(preview_task[t], preview_task'[t]), PreviewAt(t) \in WithCube \ {"take", "compute"},
           PreviewAt(t)' \in WithCube \ {"compute"}
    PROVE  /\ TaskOK(t)'
           /\ \A k \in Nat : WillTake(t, k) => WillTake(t, k)'
           /\ preview_task'[t].cut = preview_task[t].cut
           /\ preview_task'[t].cube = preview_task[t].cube
           /\ preview_task'[t].overlap = preview_task[t].overlap
<1> DEFINE a == preview_task[t]
           b == preview_task'[t]
<1>1. /\ a.at \in {"image", "subimage", "load", "loading", "set"}
      /\ b.at \in {"image", "subimage", "load", "loading", "set", "take"}
  BY DEF WithCube, PreviewAt
<1>2. /\ a.kind = "request" /\ a.cut # NoPreview /\ a.cube # NoPreview /\ a.read # 0 /\ a.todo = {}
      /\ a.preview \in Previews /\ a.cut_kind \in CutKinds /\ a.cube_kind \in CubeKinds
  BY <1>1 DEF TaskOK, RequestPlaces, WithCut, WithCube
<1>3. TaskOK(t)'
  BY <1>1, <1>2 DEF TaskOK, SameTask, RequestPlaces, WithCut, WithCube
<1>4. \A k \in Nat : WillTake(t, k) => WillTake(t, k)'
  BY <1>1, <1>2 DEF WillTake, SameTask, WithCut
<1> QED BY <1>3, <1>4 DEF SameTask

-----------------------------------------------------------------------------
LEMMA FindFrameStep ==
    ASSUME PreviewIInv, NEW t \in PreviewTasks, FindFrame(t)
    PROVE  PreviewIInv'
<1> USE DEF PreviewIInv
<1> DEFINE a == preview_task[t]
           f == preview_frame[a.preview] # NoPreview
           r == [a EXCEPT !.at = "cube", !.frame_set = f]
<1>1. a \in PreviewTaskRecords /\ f \in BOOLEAN
  BY TaskFacts
<1>2. preview_task' = [preview_task EXCEPT ![t] = r]
  BY DEF FindFrame, PvPreviewTypeOK
<1>3. /\ r \in PreviewTaskRecords /\ r.at = "cube"
      /\ r.kind = a.kind /\ r.preview = a.preview /\ r.cut_kind = a.cut_kind
      /\ r.cube_kind = a.cube_kind /\ r.cut = a.cut /\ r.cube = a.cube /\ r.read = a.read
      /\ r.todo = a.todo /\ r.overlap = a.overlap
  <2> HIDE DEF a, f
  <2> QED BY <1>1, PreviewFrameSet, Zenon
<1> HIDE DEF r
<1>4. OneTask(t) /\ preview_task'[t] = r
  BY <1>2, <1>3, OneTaskSet DEF OneTask
<1>5. a.at = "frame" /\ a.kind = "request" /\ TaskOK(t)
  BY DEF FindFrame, PreviewAt, TaskStates, TaskOK, RequestPlaces
<1>6. TaskOK(t)'
  BY <1>1, <1>3, <1>4, <1>5 DEF TaskOK, FindFrame, RequestPlaces, WithCut, WithCube, KeepMain
<1>7. \A k \in Nat : WillTake(t, k) => WillTake(t, k)'
  BY <1>3, <1>4, <1>5 DEF WillTake, WithCut, TaskOK
<1>8. /\ UNCHANGED <<line, cut_of, cut, cube_of, preview_frame, cube_stops, cube_cancels>>
      /\ UNCHANGED <<cube, skipped, preview_lock>> /\ Cubes' = Cubes
  BY DEF FindFrame, KeepMain, Cubes
<1>9. /\ PreviewAt(t) # "loading" /\ PreviewAt(t)' # "loading"
      /\ PreviewAt(t)' \notin {"set", "take", "compute"}
  BY <1>3, <1>4, <1>5 DEF PreviewAt
<1> QED BY <1>3, <1>4, <1>6, <1>7, <1>8, <1>9, StateTypes, QuietStep

LEMMA GetPreviewImageStep ==
    ASSUME PreviewIInv, NEW t \in PreviewTasks, GetPreviewImage(t)
    PROVE  PreviewIInv'
<1> USE DEF PreviewIInv
<1> DEFINE a == preview_task[t]
           b == preview_task'[t]
<1>1. a.at = "image" /\ TaskOK(t) /\ a.cube \in Cubes
  BY StateTypes DEF GetPreviewImage, PreviewAt, TaskStates, TaskOK, WithCube
<1>2. PICK at \in {"load", "set", "subimage"} :
         GoTo(t, at) /\ (at = "set" => cube[a.cube].data # "empty")
  BY DEF GetPreviewImage
<1>3. OneTask(t) /\ b.at = at /\ SameTask(a, b)
  BY <1>2, GoToFacts DEF PreviewPlaces
<1>4. /\ UNCHANGED <<line, cut_of, cut, cube_of, preview_frame, cube_stops, cube_cancels>>
      /\ UNCHANGED <<cube, skipped>> /\ Cubes' = Cubes /\ preview_lock' \in PreviewTasks \cup {NoPreview}
  BY StateTypes DEF GetPreviewImage, KeepMain, Cubes
<1>5. /\ TaskOK(t)' /\ \A k \in Nat : WillTake(t, k) => WillTake(t, k)'
      /\ b.cut = a.cut /\ b.cube = a.cube /\ b.overlap = a.overlap
  BY <1>1, <1>2, <1>3, <1>4, RequestOn DEF WithCube, PreviewAt
<1>6. /\ PreviewAt(t) # "loading" /\ PreviewAt(t)' # "loading"
      /\ PreviewAt(t)' \in {"set", "take", "compute"} => at = "set"
  BY <1>1, <1>2, <1>3 DEF PreviewAt
<1>7. at = "set" => cube[a.cube].data = "full" \/ a.overlap
  BY <1>1, <1>2, <1>6, DataOfOwn
<1> QED BY <1>3, <1>4, <1>5, <1>6, <1>7, StateTypes, QuietStep

LEMMA MakePreviewImageStep ==
    ASSUME PreviewIInv, NEW t \in PreviewTasks, MakePreviewImage(t)
    PROVE  PreviewIInv'
<1> USE DEF PreviewIInv
<1> DEFINE a == preview_task[t]
           b == preview_task'[t]
<1>1. a.at = "subimage" /\ TaskOK(t) /\ a.cube \in Cubes /\ a.cut \in Cuts /\ a.kind = "request"
      /\ a.todo = {} /\ PreviewAt(t) # "loading"
  BY StateTypes DEF MakePreviewImage, PreviewAt, TaskStates, TaskOK, WithCube, WithCut, RequestPlaces
<1>2. UNCHANGED <<line, cut_of, cut, cube_of, preview_frame, cube_stops, cube_cancels>>
  BY DEF MakePreviewImage, KeepMain
<1>3. CASE End(t) /\ Release(t) /\ Skip(t) /\ UNCHANGED cube
  <2>1. preview_lock' \in PreviewTasks \cup {NoPreview} /\ skipped' = skipped \cup {a.cut}
    BY <1>3, StateTypes DEF Release, Skip
  <2>2. ASSUME NEW k \in Nat, WillTake(t, k) PROVE k \in skipped'
    BY <1>1, <2>1, <2>2, SMTT(30) DEF WillTake
  <2> QED BY <1>1, <1>2, <1>3, <2>1, <2>2, StateTypes, PreviewEndStep
<1>4. CASE /\ cube' = [cube EXCEPT ![a.cube].image = TRUE]
           /\ GoTo(t, IF cube[a.cube].image /\ cube[a.cube].data # "empty" THEN "set" ELSE "load")
           /\ UNCHANGED <<preview_lock, skipped>>
  <2>1. PICK at \in {"load", "set"} : GoTo(t, at) /\ (at = "set" => cube[a.cube].data # "empty")
    BY <1>4
  <2>2. OneTask(t) /\ b.at = at /\ SameTask(a, b)
    BY <2>1, GoToFacts DEF PreviewPlaces
  <2>3. /\ TaskOK(t)' /\ \A k \in Nat : WillTake(t, k) => WillTake(t, k)'
        /\ b.cut = a.cut /\ b.cube = a.cube /\ b.overlap = a.overlap
    BY <1>1, <1>2, <2>1, <2>2, RequestOn DEF WithCube, PreviewAt
  <2>4. /\ cube' \in Seq(CubeRecords) /\ Cubes' = Cubes
        /\ \A c \in Cubes : cube'[c].data = cube[c].data /\ cube'[c].stop = cube[c].stop
    <3> DEFINE c == a.cube
               q == cube[c]
               r == [q EXCEPT !.image = TRUE]
    <3>1. q \in CubeRecords
      BY <1>1, StateTypes, ElementOfSeq DEF Cubes
    <3>2. r \in CubeRecords /\ r.data = q.data /\ r.stop = q.stop
      BY <3>1, CubeFieldSet, Zenon
    <3>3. cube' = [cube EXCEPT ![c] = r]
      BY <1>4
    <3> HIDE DEF r, c
    <3> QED BY <1>1, <3>2, <3>3, CubeRecordSet DEF c
  <2>5. /\ PreviewAt(t)' # "loading"
        /\ PreviewAt(t)' \in {"set", "take", "compute"} => at = "set"
    BY <2>1, <2>2 DEF PreviewAt
  <2>6. at = "set" => cube[a.cube].data = "full" \/ a.overlap
    BY <1>1, <2>1, DataOfOwn
  <2> QED BY <1>1, <1>2, <1>4, <2>2, <2>3, <2>4, <2>5, <2>6, StateTypes, QuietStep
<1> QED BY <1>3, <1>4 DEF MakePreviewImage

-----------------------------------------------------------------------------
LEMMA UpdatePvPreviewImageStep ==
    ASSUME PreviewIInv, NEW t \in PreviewTasks, UpdatePvPreviewImage(t)
    PROVE  PreviewIInv'
<1> USE DEF PreviewIInv
<1> DEFINE a == preview_task[t]
           todo == {p \in Previews : cut_of[p] # NoPreview}
           r == [a EXCEPT !.at = "next", !.todo = todo]
<1>1. a \in PreviewTaskRecords /\ todo \in SUBSET Previews
  BY TaskFacts
<1>2. preview_task' = [preview_task EXCEPT ![t] = r]
  BY DEF UpdatePvPreviewImage, PvPreviewTypeOK
<1>3. /\ r \in PreviewTaskRecords /\ r.at = "next" /\ r.todo = todo
      /\ r.kind = a.kind /\ r.cut = a.cut /\ r.cube = a.cube /\ r.overlap = a.overlap
  <2> HIDE DEF a, todo
  <2> QED BY <1>1, TodoSet, Zenon
<1> HIDE DEF r
<1>4. OneTask(t) /\ preview_task'[t] = r
  BY <1>2, <1>3, OneTaskSet DEF OneTask
<1>5. a.at = "queued" /\ a.kind = "update"
  BY DEF UpdatePvPreviewImage, PreviewAt, TaskStates, TaskOK
<1>6. /\ UNCHANGED <<line, cut_of, cut, cube_of, preview_frame, cube_stops, cube_cancels>>
      /\ UNCHANGED <<cube, skipped, preview_lock>> /\ Cubes' = Cubes
  BY DEF UpdatePvPreviewImage, KeepMain, Cubes
<1>7. TaskOK(t)'
  BY <1>3, <1>4, <1>5, <1>6 DEF TaskOK, RequestPlaces, WithCut, WithCube
<1>8. ASSUME NEW p \in Previews, NEW k \in Nat, cut_of[p] = k, k # NoPreview
      PROVE  WillTake(t, k)'
  <2>1. p \in preview_task'[t].todo /\ cut_of'[p] = k
    BY <1>3, <1>4, <1>6, <1>8
  <2> QED BY <2>1 DEF WillTake
<1>9. /\ PreviewAt(t) # "loading" /\ PreviewAt(t)' # "loading"
      /\ PreviewAt(t)' \notin {"set", "take", "compute"}
  BY <1>3, <1>4, <1>5 DEF PreviewAt
<1> QED BY <1>3, <1>4, <1>6, <1>7, <1>8, <1>9, StateTypes, QuietStep

\* The cuts that an update has passed over or has to leave.
LEMMA LeftByUpdate ==
    ASSUME PvPreviewTypeOK, NEW t \in PreviewTasks, TaskOK(t), NEW P \in SUBSET preview_task[t].todo
    PROVE  {cut_of[q] : q \in P} \subseteq Cuts
<1>1. preview_task[t].todo \in SUBSET Previews
  BY TaskFacts, SMTT(30)
<1> QED BY <1>1 DEF TaskOK, PvPreviewTypeOK

LEMMA UpdateNextStep ==
    ASSUME PreviewIInv, NEW t \in PreviewTasks, UpdateNext(t)
    PROVE  PreviewIInv'
<1> USE DEF PreviewIInv
<1> DEFINE a == preview_task[t]
<1>1. /\ a.at = "next" /\ a.kind = "update" /\ TaskOK(t) /\ a \in PreviewTaskRecords
      /\ a.todo \in SUBSET Previews /\ PreviewAt(t) # "loading"
  BY TaskFacts, Zenon DEF UpdateNext, PreviewAt, TaskStates, TaskOK
<1>2. /\ UNCHANGED <<line, cut_of, cut, cube_of, preview_frame, cube_stops, cube_cancels>>
      /\ UNCHANGED <<cube, preview_lock>> /\ Cubes' = Cubes
      /\ preview_lock' \in PreviewTasks \cup {NoPreview}
  BY StateTypes, Zenon DEF UpdateNext, KeepMain, Cubes
<1>3. ASSUME NEW k \in Nat, WillTake(t, k) PROVE \E q \in a.todo : cut_of[q] = k
  BY <1>1, <1>3 DEF WillTake
<1>4. CASE a.todo = {} /\ End(t) /\ UNCHANGED skipped
  BY <1>1, <1>2, <1>3, <1>4, StateTypes, PreviewEndStep
<1>5. CASE End(t) /\ skipped' = skipped \cup {cut_of[q] : q \in a.todo}
  <2>1. skipped \subseteq skipped' /\ skipped' \subseteq Cuts
    BY <1>1, <1>5, LeftByUpdate, StateTypes
  <2>2. ASSUME NEW k \in Nat, WillTake(t, k) PROVE k \in skipped'
    BY <1>3, <1>5, <2>2
  <2> QED BY <1>1, <1>2, <1>5, <2>1, <2>2, PreviewEndStep
<1>6. ASSUME NEW p \in a.todo, cube_of[p] # NoPreview, preview_frame[p] # NoPreview,
             cube[cube_of[p]].data # "empty", UNCHANGED skipped,
             preview_task' = [preview_task EXCEPT ![t] = [a EXCEPT
                 !.at = "take", !.preview = p, !.cut = cut_of[p], !.cube = cube_of[p],
                 !.todo = @ \ {p}, !.overlap = LoadedElsewhere(t, cube_of[p])]]
      PROVE  PreviewIInv'
  <2> DEFINE k == cut_of[p]
             c == cube_of[p]
             o == LoadedElsewhere(t, c)
             r == [a EXCEPT !.at = "take", !.preview = p, !.cut = k, !.cube = c,
                            !.todo = @ \ {p}, !.overlap = o]
  <2>1. /\ p \in Previews /\ k \in Cuts /\ c \in Cubes /\ k \in Nat /\ c \in Nat /\ o \in BOOLEAN
        /\ k # NoPreview /\ c # NoPreview
    BY <1>1, <1>6 DEF TaskOK, PvPreviewTypeOK, Cuts, Cubes, LoadedElsewhere
  <2>2. /\ r \in PreviewTaskRecords /\ r.at = "take" /\ r.preview = p /\ r.cut = k
        /\ r.cube = c /\ r.todo = a.todo \ {p} /\ r.overlap = o /\ r.kind = a.kind
    <3> HIDE DEF a, k, c, o
    <3> QED BY <1>1, <2>1 DEF PreviewTaskRecords
  <2>3. preview_task' = [preview_task EXCEPT ![t] = r]
    BY <1>6
  <2> HIDE DEF r
  <2>4. OneTask(t) /\ preview_task'[t] = r
    BY <2>2, <2>3, OneTaskSet DEF OneTask
  <2>5. TaskOK(t)'
    BY <1>1, <1>2, <1>6, <2>1, <2>2, <2>4 DEF TaskOK, RequestPlaces, WithCut, WithCube
  <2>6. ASSUME NEW j \in Nat, WillTake(t, j) PROVE WillTake(t, j)'
    <3>1. PICK q \in a.todo : cut_of[q] = j
      BY <1>3, <2>6
    <3>2. CASE q = p
      BY <1>1, <2>2, <2>4, <3>1, <3>2 DEF WillTake
    <3>3. CASE q # p
      BY <1>2, <2>2, <2>4, <3>1, <3>3 DEF WillTake
    <3> QED BY <3>2, <3>3
  <2>7. cube[c].data = "full" \/ o
    BY <1>1, <1>6, <2>1, DataOfCube
  <2>8. PreviewAt(t)' # "loading"
    BY <2>2, <2>4 DEF PreviewAt
  <2> QED BY <1>1, <1>2, <1>6, <2>1, <2>2, <2>4, <2>5, <2>6, <2>7, <2>8, StateTypes, QuietStep
<1>7. ASSUME NEW p \in a.todo, preview_task' = [preview_task EXCEPT ![t].todo = @ \ {p}],
             skipped' = skipped \cup {cut_of[p]}
      PROVE  PreviewIInv'
  <2> DEFINE todo == a.todo \ {p}
             r == [a EXCEPT !.at = "next", !.todo = todo]
  <2>1. /\ r \in PreviewTaskRecords /\ r.at = "next" /\ r.todo = todo
        /\ r.kind = a.kind /\ r.cut = a.cut /\ r.cube = a.cube /\ r.overlap = a.overlap
    <3>1. todo \in SUBSET Previews
      BY <1>1
    <3> HIDE DEF a, todo
    <3> QED BY <1>1, <3>1, TodoSet, Zenon DEF a
  <2>2. preview_task' = [preview_task EXCEPT ![t] = r]
    <3>1. r = [a EXCEPT !.todo = todo]
      BY <1>1 DEF PreviewTaskRecords
    <3> QED BY <1>7, <3>1
  <2> HIDE DEF r
  <2>3. OneTask(t) /\ preview_task'[t] = r
    BY <2>1, <2>2, OneTaskSet DEF OneTask
  <2>4. TaskOK(t)'
    BY <1>1, <1>2, <2>1, <2>3 DEF TaskOK, RequestPlaces, WithCut, WithCube
  <2>5. ASSUME NEW j \in Nat, WillTake(t, j) PROVE j \in skipped' \/ WillTake(t, j)'
    <3>1. PICK q \in a.todo : cut_of[q] = j
      BY <1>3, <2>5
    <3>2. CASE q = p
      BY <1>7, <3>1, <3>2
    <3>3. CASE q # p
      BY <1>2, <2>1, <2>3, <3>1, <3>3 DEF WillTake
    <3> QED BY <3>2, <3>3
  <2>6. skipped \subseteq skipped' /\ skipped' \subseteq Cuts
    BY <1>1, <1>7, StateTypes DEF TaskOK, PvPreviewTypeOK
  <2>7. PreviewAt(t)' # "loading" /\ PreviewAt(t)' \notin {"set", "take", "compute"}
    BY <2>1, <2>3 DEF PreviewAt
  <2> QED BY <1>1, <1>2, <2>1, <2>3, <2>4, <2>5, <2>6, <2>7, StateTypes, QuietStep
<1>8. \/ a.todo = {} /\ End(t) /\ UNCHANGED skipped
      \/ End(t) /\ skipped' = skipped \cup {cut_of[q] : q \in a.todo}
      \/ \E p \in a.todo :
           /\ cube_of[p] # NoPreview /\ preview_frame[p] # NoPreview
           /\ cube[cube_of[p]].data # "empty" /\ UNCHANGED skipped
           /\ preview_task' = [preview_task EXCEPT ![t] = [a EXCEPT
                 !.at = "take", !.preview = p, !.cut = cut_of[p], !.cube = cube_of[p],
                 !.todo = @ \ {p}, !.overlap = LoadedElsewhere(t, cube_of[p])]]
      \/ \E p \in a.todo : /\ preview_task' = [preview_task EXCEPT ![t].todo = @ \ {p}]
                           /\ skipped' = skipped \cup {cut_of[p]}
  BY Zenon DEF UpdateNext
<1> QED BY <1>4, <1>5, <1>6, <1>7, <1>8, ZenonT(40)

\* The task ends, or goes on with the next cut.
LEMMA AfterCutFacts ==
    ASSUME PvPreviewTypeOK, TaskStates, NEW t \in PreviewTasks, AfterCut(t),
           PreviewAt(t) \in {"take", "compute"}, UNCHANGED cut_of
    PROVE  /\ OneTask(t) /\ TaskOK(t)' /\ PreviewAt(t)' \in {"idle", "next"}
           /\ \/ preview_task'[t].cut = NoPreview /\ preview_task'[t].cube = NoPreview
              \/ /\ preview_task'[t].cut = preview_task[t].cut
                 /\ preview_task'[t].cube = preview_task[t].cube
                 /\ preview_task'[t].overlap = preview_task[t].overlap
           /\ \A k \in Nat : WillTake(t, k) =>
                WillTake(t, k)' \/ (k = preview_task[t].cut /\ PreviewAt(t) = "take")
<1> DEFINE a == preview_task[t]
           b == preview_task'[t]
<1>1. TaskOK(t) /\ a.at \in {"take", "compute"} /\ a.kind \in {"request", "update"}
  BY DEF TaskStates, TaskOK, PreviewAt
<1>2. CASE a.kind = "update" /\ GoTo(t, "next")
  <2>1. OneTask(t) /\ b.at = "next" /\ SameTask(a, b)
    BY <1>2, GoToFacts DEF PreviewPlaces
  <2>2. TaskOK(t)'
    BY <1>1, <1>2, <2>1 DEF TaskOK, SameTask, RequestPlaces, WithCut, WithCube
  <2>3. ASSUME NEW k \in Nat, WillTake(t, k)
        PROVE  WillTake(t, k)' \/ (k = a.cut /\ PreviewAt(t) = "take")
    <3>1. (\E p \in a.todo : cut_of[p] = k) \/ (k = a.cut /\ a.at = "take")
      BY <1>1, <1>2, <2>3 DEF WillTake
    <3>2. (\E p \in a.todo : cut_of[p] = k) => WillTake(t, k)'
      BY <2>1 DEF WillTake, SameTask
    <3> QED BY <3>1, <3>2 DEF PreviewAt
  <2> QED BY <2>1, <2>2, <2>3 DEF SameTask, PreviewAt
<1>3. CASE a.kind = "request" /\ End(t)
  <2>1. OneTask(t) /\ b = NoPreviewTask
    BY <1>3, EndFacts
  <2>2. a.todo = {}
    BY <1>1, <1>3 DEF TaskOK
  <2>3. \A k \in Nat : WillTake(t, k) => k = preview_task[t].cut /\ PreviewAt(t) = "take"
    BY <1>1, <1>3, <2>2 DEF WillTake, PreviewAt, WithCut
  <2> QED BY <2>1, <2>3, NoTaskOK
<1> QED BY <1>1, <1>2, <1>3 DEF AfterCut

LEMMA ComputePreviewStep ==
    ASSUME PreviewIInv, NEW t \in PreviewTasks, ComputePreview(t)
    PROVE  PreviewIInv'
<1> USE DEF PreviewIInv
<1> DEFINE a == preview_task[t]
<1>1. a.at = "compute" /\ TaskOK(t) /\ PreviewAt(t) = "compute"
  BY DEF ComputePreview, PreviewAt, TaskStates
<1>2. /\ UNCHANGED <<line, cut_of, cut, cube_of, preview_frame, cube_stops, cube_cancels>>
      /\ UNCHANGED <<cube, preview_lock, skipped>> /\ Cubes' = Cubes
  BY DEF ComputePreview, KeepMain, Cubes
<1>3. CASE AfterCut(t)
  BY <1>1, <1>2, <1>3, AfterCutFacts, StateTypes, QuietStep
<1>4. CASE preview_frame[a.preview] = NoPreview /\ End(t)
  <2>1. a.kind = "request" /\ a.todo = {}
    BY <1>1, <1>4 DEF TaskOK
  <2>2. ASSUME NEW k \in Nat PROVE ~WillTake(t, k)
    BY <1>1, <2>1 DEF WillTake
  <2> QED BY <1>1, <1>2, <1>4, <2>2, StateTypes, PreviewEndStep
<1> QED BY <1>3, <1>4 DEF ComputePreview

-----------------------------------------------------------------------------
LEMMA SetPreviewFrameStep ==
    ASSUME PreviewIInv, NEW t \in PreviewTasks, SetPreviewFrame(t)
    PROVE  PreviewIInv'
<1> USE DEF PreviewIInv
<1> DEFINE a == preview_task[t]
           b == preview_task'[t]
<1>1. a.at = "set" /\ TaskOK(t) /\ a.cube \in Cubes /\ a.kind = "request" /\ a.preview \in Previews
  BY StateTypes DEF SetPreviewFrame, PreviewAt, TaskStates, TaskOK, WithCube, RequestPlaces
<1>2. OneTask(t) /\ b.at = "take" /\ SameTask(a, b)
  BY GoToFacts DEF SetPreviewFrame, PreviewPlaces
<1>3. /\ UNCHANGED <<line, cut_of, cut, cube_of, cube_stops, cube_cancels, cube, skipped>>
      /\ preview_lock' \in PreviewTasks \cup {NoPreview}
      /\ preview_frame' = [preview_frame EXCEPT ![a.preview] = a.cube]
      /\ Cubes' = Cubes /\ Cuts' = Cuts
  BY StateTypes DEF SetPreviewFrame, KeepMain, Release, Cubes, Cuts
<1>4. /\ TaskOK(t)' /\ \A k \in Nat : WillTake(t, k) => WillTake(t, k)'
      /\ b.cut = a.cut /\ b.cube = a.cube /\ b.overlap = a.overlap
  BY <1>1, <1>2, <1>3, RequestOn DEF WithCube, PreviewAt
<1>5. a.cube # NoPreview
  BY <1>1 DEF Cubes, NoPreview
<1>6. PvPreviewTypeOK'
  <2>1. /\ line' \in 1..MaxLineMoves /\ cut' \in Seq(CutRecords) /\ cube' \in Seq(CubeRecords)
        /\ cut_of' \in [Previews -> Cuts' \cup {NoPreview}]
        /\ cube_of' \in [Previews -> Cubes' \cup {NoPreview}]
        /\ preview_frame' \in [Previews -> Cubes' \cup {NoPreview}]
        /\ cube_stops' \in [Cubes' -> Nat] /\ cube_cancels' \in [Cubes' -> Nat]
        /\ skipped' \subseteq Cuts'
    BY <1>1, <1>3 DEF PvPreviewTypeOK
  <2> QED BY <1>2, <1>3, <1>4, <2>1, StateTypes, TypeKept
<1>7. TaskStates'
  <2>1. UpdatesKept
    BY <1>1, <1>3, <1>5 DEF UpdatesKept, PvPreviewTypeOK
  <2> QED BY <1>2, <1>4, <2>1, TasksKept
<1>8. WholeCubes'
  <2>1. /\ PreviewAt(t) # "loading" /\ PreviewAt(t)' # "loading"
        /\ cube[a.cube].data = "full" \/ a.overlap
    BY <1>1, <1>2 DEF PreviewAt, WholeCubes
  <2> QED BY <1>1, <1>2, <1>3, <1>4, <2>1, OverlapNoted, WholeKept
<1>9. StopsCounted'
  BY <1>3, StopsKept
<1>10. WillCatchUp'
  <2>1. ASSUME NEW p \in Previews, NEW k \in Nat, cut_of'[p] = k, k # NoPreview
        PROVE  cut_of[p] = k /\ QueueKept(t, k)
    <3>1. Waiting(k) \subseteq Waiting(k)'
      BY <1>2, <1>3, <1>4, WaitingOthers
    <3> QED BY <1>3, <2>1, <3>1 DEF QueueKept
  <2> QED BY <1>6, <2>1, CatchUpFrom
<1> QED BY <1>6, <1>7, <1>8, <1>9, <1>10

\* The queue of a cut.
LEMMA QueueFacts ==
    ASSUME PvPreviewTypeOK, NEW k \in Cuts
    PROVE  /\ cut[k] \in CutRecords /\ cut[k].queue \in Seq(1..MaxLineMoves)
           /\ Len(cut[k].queue) \in Nat
<1>1. cut \in Seq(CutRecords) /\ k \in 1..Len(cut)
  BY DEF PvPreviewTypeOK, Cuts
<1>2. cut[k] \in CutRecords
  BY <1>1, ElementOfSeq
<1> QED BY <1>2 DEF CutRecords

LEMMA GetNextRegionStep ==
    ASSUME PreviewIInv, NEW t \in PreviewTasks, GetNextRegion(t)
    PROVE  PreviewIInv'
<1> USE DEF PreviewIInv
<1> DEFINE a == preview_task[t]
           k == a.cut
           q == cut[k].queue
           n == Head(q)
           r == [a EXCEPT !.at = "compute", !.read = n]
<1>1. /\ a.at = "take" /\ TaskOK(t) /\ a.cut \in Cuts /\ a.cube \in Cubes /\ a \in PreviewTaskRecords
      /\ PreviewAt(t) = "take" /\ k \in Nat /\ k # NoPreview /\ a.cube # NoPreview
  BY StateTypes, TaskFacts DEF GetNextRegion, PreviewAt, TaskStates, TaskOK, WithCube, WithCut
<1>2. /\ UNCHANGED <<line, cut_of, cube_of, cube_stops, cube_cancels, cube, skipped>>
      /\ UNCHANGED <<preview_frame, preview_lock>> /\ Cubes' = Cubes
      /\ preview_lock' \in PreviewTasks \cup {NoPreview}
  BY StateTypes DEF GetNextRegion, KeepMain, Cubes
<1>3. CASE q = <<>> /\ UNCHANGED cut /\ AfterCut(t)
  <2>1. ASSUME NEW p \in Previews, NEW j \in Nat, cut_of[p] = j, j # NoPreview
        PROVE  \/ j \in skipped' \/ cut[j].queue = <<>>
               \/ WillTake(t, j) => WillTake(t, j)'
    BY <1>1, <1>2, <1>3, AfterCutFacts
  <2> QED BY <1>1, <1>2, <1>3, <2>1, AfterCutFacts, StateTypes, QuietStep
<1>4. CASE /\ q # <<>> /\ cut' = [cut EXCEPT ![k].queue = Tail(@)]
           /\ preview_task' = [preview_task EXCEPT ![t].at = "compute", ![t].read = n]
  <2>1. q \in Seq(1..MaxLineMoves) /\ Len(q) \in Nat
    BY <1>1, QueueFacts
  <2>2. n \in 1..MaxLineMoves /\ Tail(q) \in Seq(1..MaxLineMoves) /\ Len(Tail(q)) = Len(q) - 1
    BY <1>4, <2>1, HeadTailProperties
  <2>3. cut' = [cut EXCEPT ![k].queue = Tail(q)]
    BY <1>4
  <2>4. /\ cut' \in Seq(CutRecords) /\ Cuts' = Cuts /\ cut'[k].queue = Tail(q)
        /\ \A j \in Cuts \ {k} : cut'[j] = cut[j]
    BY <1>1, <2>2, <2>3, QueueSet
  <2>5. /\ r \in PreviewTaskRecords /\ r.at = "compute" /\ r.read = n
        /\ r.kind = a.kind /\ r.preview = a.preview /\ r.cut_kind = a.cut_kind
        /\ r.cube_kind = a.cube_kind /\ r.cut = a.cut /\ r.cube = a.cube
        /\ r.todo = a.todo /\ r.overlap = a.overlap
    <3>1. n \in 0..MaxLineMoves
      BY <2>2
    <3> HIDE DEF a, n
    <3> QED BY <1>1, <3>1 DEF PreviewTaskRecords
  <2>6. preview_task' = [preview_task EXCEPT ![t] = r]
    BY <1>4 DEF PvPreviewTypeOK
  <2> HIDE DEF r
  <2>7. OneTask(t) /\ preview_task'[t] = r
    BY <2>5, <2>6, OneTaskSet DEF OneTask
  <2>8. TaskOK(t)'
    <3>1. n # 0
      BY <2>2
    <3> HIDE DEF n
    <3> QED BY <1>1, <1>2, <2>5, <2>7, <3>1 DEF TaskOK, RequestPlaces, WithCut, WithCube
  <2>9. PvPreviewTypeOK'
    <3>1. /\ line' \in 1..MaxLineMoves /\ cube' \in Seq(CubeRecords)
          /\ cut_of' \in [Previews -> Cuts' \cup {NoPreview}]
          /\ cube_of' \in [Previews -> Cubes' \cup {NoPreview}]
          /\ preview_frame' \in [Previews -> Cubes' \cup {NoPreview}]
          /\ cube_stops' \in [Cubes' -> Nat] /\ cube_cancels' \in [Cubes' -> Nat]
          /\ skipped' \subseteq Cuts'
      BY <1>2, <2>4 DEF PvPreviewTypeOK
    <3> QED BY <1>1, <1>2, <2>4, <2>5, <2>7, <3>1, TypeKept
  <2>10. TaskStates'
    <3>1. UpdatesKept
      BY <1>2 DEF UpdatesKept
    <3> QED BY <2>7, <2>8, <3>1, TasksKept
  <2>11. WholeCubes'
    <3>1. /\ PreviewAt(t) # "loading" /\ PreviewAt(t)' # "loading"
          /\ cube[a.cube].data = "full" \/ a.overlap
      BY <1>1, <2>5, <2>7 DEF PreviewAt, WholeCubes
    <3> QED BY <1>1, <1>2, <2>5, <2>7, <3>1, OverlapNoted, WholeKept
  <2>12. StopsCounted'
    BY <1>2, StopsKept
  <2>13. WillCatchUp'
    <3>1. ASSUME NEW p \in Previews, NEW j \in Nat, cut_of'[p] = j, j # NoPreview
          PROVE  cut_of[p] = j /\ QueueKept(t, j)
      <4>1. cut_of[p] = j /\ j \in Cuts
        BY <1>2, <3>1 DEF PvPreviewTypeOK
      <4>2. CASE j = k
        <5>1. Waiting(j) \ {t} \subseteq Waiting(j)'
          BY <1>2, <2>7, WaitingOthers
        <5>2. Len(cut'[j].queue) = Len(cut[j].queue) - 1
          BY <2>2, <2>4, <4>2
        <5> QED BY <1>2, <4>1, <5>1, <5>2 DEF QueueKept
      <4>3. CASE j # k
        <5>1. WillTake(t, j) => \E x \in a.todo : cut_of[x] = j
          BY <1>1, <4>3 DEF WillTake, WithCut
        <5>2. (\E x \in a.todo : cut_of[x] = j) => WillTake(t, j)'
          BY <1>2, <2>5, <2>7 DEF WillTake
        <5>3. Waiting(j) \subseteq Waiting(j)'
          BY <1>2, <2>7, <5>1, <5>2, WaitingOthers
        <5> QED BY <1>2, <2>4, <4>1, <4>3, <5>3 DEF QueueKept
      <4> QED BY <4>2, <4>3
    <3> QED BY <2>9, <3>1, CatchUpFrom
  <2> QED BY <2>9, <2>10, <2>11, <2>12, <2>13
<1> QED BY <1>3, <1>4 DEF GetNextRegion

-----------------------------------------------------------------------------
LEMMA IdleTaskFacts ==
    ASSUME PvPreviewTypeOK, TaskStates, NEW t \in PreviewTasks, IdlePreviewTask(t)
    PROVE  /\ preview_task[t] = NoPreviewTask /\ PreviewAt(t) = "idle"
           /\ \A k \in Nat : ~WillTake(t, k)
BY NoTaskSet DEF TaskStates, TaskOK, IdlePreviewTask, PreviewAt, WillTake

LEMMA ClearedQueue ==
    ASSUME PvPreviewTypeOK, NEW p \in Previews, cut' = ClearRegionQueue(p)
    PROVE  /\ cut' \in Seq(CutRecords) /\ Cuts' = Cuts
           /\ \A k \in Cuts : k # cut_of[p] => cut'[k] = cut[k]
           /\ cut_of[p] # NoPreview => cut'[cut_of[p]].queue = <<>>
<1>1. cut_of[p] \in Cuts \cup {NoPreview} /\ cut \in Seq(CutRecords)
  BY DEF PvPreviewTypeOK
<1>2. CASE cut_of[p] = NoPreview
  BY <1>1, <1>2 DEF ClearRegionQueue, Cuts
<1>3. CASE cut_of[p] # NoPreview
  <2> DEFINE k == cut_of[p]
             q == <<>>
  <2>1. k \in Cuts /\ q \in Seq(1..MaxLineMoves)
    BY <1>1, <1>3
  <2>2. cut' = [cut EXCEPT ![k].queue = q]
    BY <1>3 DEF ClearRegionQueue
  <2> HIDE DEF k, q
  <2>3. /\ cut' \in Seq(CutRecords) /\ Cuts' = Cuts /\ cut'[k].queue = q
        /\ \A j \in Cuts \ {k} : cut'[j] = cut[j]
    BY <2>1, <2>2, QueueSet
  <2> QED BY <2>3 DEF k, q
<1> QED BY <1>2, <1>3

LEMMA RequestPreviewStep ==
    ASSUME PreviewIInv, NEW t \in PreviewTasks, NEW p \in Previews,
           NEW kind \in CutKinds, NEW cube_kind \in CubeKinds,
           RequestPreview(t, p, kind, cube_kind)
    PROVE  PreviewIInv'
<1> USE DEF PreviewIInv
<1> DEFINE r == [NoPreviewTask EXCEPT !.at = "read", !.kind = "request", !.preview = p,
                                      !.cut_kind = kind, !.cube_kind = cube_kind]
<1>1. /\ preview_task[t] = NoPreviewTask /\ PreviewAt(t) = "idle"
      /\ \A k \in Nat : ~WillTake(t, k)
  BY IdleTaskFacts DEF RequestPreview
<1>2. /\ UNCHANGED <<line, cut_of, cube_of, cube, preview_frame, preview_lock, cube_stops, cube_cancels>>
      /\ Cubes' = Cubes /\ cut' = ClearRegionQueue(p) /\ skipped' = skipped \ {cut_of[p]}
      /\ preview_task' = [preview_task EXCEPT ![t] = r]
  BY DEF RequestPreview, Cubes
<1>3. /\ r \in PreviewTaskRecords /\ r.at = "read" /\ r.kind = "request" /\ r.preview = p
      /\ r.cut_kind = kind /\ r.cube_kind = cube_kind /\ r.todo = {}
      /\ r.cut = NoPreview /\ r.cube = NoPreview
  BY NoTaskSet DEF PreviewTaskRecords
<1> HIDE DEF r
<1>4. OneTask(t) /\ preview_task'[t] = r
  BY <1>2, <1>3, OneTaskSet DEF OneTask
<1>5. /\ cut' \in Seq(CutRecords) /\ Cuts' = Cuts
      /\ \A k \in Cuts : k # cut_of[p] => cut'[k] = cut[k]
      /\ cut_of[p] # NoPreview => cut'[cut_of[p]].queue = <<>>
  BY <1>2, ClearedQueue
<1>6. PvPreviewTypeOK'
  <2>1. /\ line' \in 1..MaxLineMoves /\ cube' \in Seq(CubeRecords)
        /\ cut_of' \in [Previews -> Cuts' \cup {NoPreview}]
        /\ cube_of' \in [Previews -> Cubes' \cup {NoPreview}]
        /\ preview_frame' \in [Previews -> Cubes' \cup {NoPreview}]
        /\ preview_lock' \in PreviewTasks \cup {NoPreview}
        /\ cube_stops' \in [Cubes' -> Nat] /\ cube_cancels' \in [Cubes' -> Nat]
        /\ skipped' \subseteq Cuts'
    BY <1>2, <1>5 DEF PvPreviewTypeOK
  <2> QED BY <1>2, <1>3, <1>4, <1>5, <2>1, TypeKept
<1>7. TaskStates'
  <2>1. TaskOK(t)'
    BY <1>3, <1>4 DEF TaskOK, RequestPlaces, WithCut, WithCube
  <2>2. UpdatesKept
    BY <1>2 DEF UpdatesKept
  <2> QED BY <1>4, <2>1, <2>2, TasksKept
<1>8. WholeCubes'
  <2>1. PreviewAt(t) # "loading" /\ PreviewAt(t)' = "read"
    BY <1>1, <1>3, <1>4 DEF PreviewAt
  <2> QED BY <1>2, <1>3, <1>4, <2>1, OverlapNoted, WholeKept
<1>9. StopsCounted'
  BY <1>2, StopsKept
<1>10. WillCatchUp'
  <2>1. ASSUME NEW x \in Previews, NEW k \in Nat, cut_of'[x] = k, k # NoPreview
        PROVE  cut_of[x] = k /\ QueueKept(t, k)
    <3>1. cut_of[x] = k /\ k \in Cuts
      BY <1>2, <2>1 DEF PvPreviewTypeOK
    <3>2. Waiting(k) \subseteq Waiting(k)'
      BY <1>1, <1>2, <1>4, WaitingOthers
    <3> QED BY <1>2, <1>5, <2>1, <3>1, <3>2 DEF QueueKept
  <2> QED BY <1>6, <2>1, CatchUpFrom
<1> QED BY <1>6, <1>7, <1>8, <1>9, <1>10

\* The moved line is added to the queues of its cuts.
LEMMA QueuesGrow ==
    ASSUME PvPreviewTypeOK, NEW n \in 1..MaxLineMoves, NEW K,
           cut' = [k \in Cuts |-> IF k \in K THEN [cut[k] EXCEPT !.queue = Append(@, n)] ELSE cut[k]]
    PROVE  /\ cut' \in Seq(CutRecords) /\ Cuts' = Cuts
           /\ \A k \in Cuts \ K : cut'[k] = cut[k]
           /\ \A k \in Cuts \cap K : Len(cut'[k].queue) = Len(cut[k].queue) + 1
<1>1. ASSUME NEW k \in Cuts
      PROVE  /\ [cut[k] EXCEPT !.queue = Append(@, n)] \in CutRecords
             /\ Len([cut[k] EXCEPT !.queue = Append(@, n)].queue) = Len(cut[k].queue) + 1
  <2>1. cut[k] \in CutRecords /\ cut[k].queue \in Seq(1..MaxLineMoves)
    BY QueueFacts
  <2> DEFINE q == Append(cut[k].queue, n)
  <2>2. q \in Seq(1..MaxLineMoves) /\ Len(q) = Len(cut[k].queue) + 1
    BY <2>1, AppendProperties
  <2>3. [cut[k] EXCEPT !.queue = q] \in CutRecords /\ [cut[k] EXCEPT !.queue = q].queue = q
    <3> HIDE DEF q
    <3> QED BY <2>1, <2>2 DEF CutRecords
  <2> QED BY <2>2, <2>3
<1>2. \A k \in Cuts : cut[k] \in CutRecords
  BY QueueFacts
<1>3. Len(cut) \in Nat /\ cut' \in [1..Len(cut) -> CutRecords]
  <2> DEFINE f(k) == IF k \in K THEN [cut[k] EXCEPT !.queue = Append(@, n)] ELSE cut[k]
  <2>1. \A k \in Cuts : f(k) \in CutRecords
    BY <1>1, <1>2
  <2>2. cut' = [k \in Cuts |-> f(k)]
    OBVIOUS
  <2> HIDE DEF f
  <2>3. cut' \in [Cuts -> CutRecords]
    BY <2>1, <2>2
  <2> QED BY <2>3, LenProperties DEF PvPreviewTypeOK, Cuts
<1>4. cut' \in Seq(CutRecords)
  BY <1>3, SeqDef, SMTT(30)
<1>5. Cuts' = Cuts
  BY <1>3, <1>4, LenProperties DEF Cuts
<1> QED BY <1>1, <1>4, <1>5

LEMMA MovePreviewLineStep ==
    ASSUME PreviewIInv, NEW t \in PreviewTasks, MovePreviewLine(t)
    PROVE  PreviewIInv'
<1> USE DEF PreviewIInv
<1> DEFINE K == {cut_of[p] : p \in Previews} \ {NoPreview}
           r == [NoPreviewTask EXCEPT !.at = "queued", !.kind = "update"]
<1>1. /\ preview_task[t] = NoPreviewTask /\ PreviewAt(t) = "idle"
      /\ \A k \in Nat : ~WillTake(t, k)
  BY IdleTaskFacts DEF MovePreviewLine
<1>2. /\ UNCHANGED <<cut_of, cube_of, cube, preview_frame, preview_lock, cube_stops, cube_cancels, skipped>>
      /\ Cubes' = Cubes /\ line' \in 1..MaxLineMoves
  BY PreviewsAssumption DEF MovePreviewLine, Cubes, PvPreviewTypeOK
<1>3. /\ cut' \in Seq(CutRecords) /\ Cuts' = Cuts
      /\ \A k \in Cuts \ K : cut'[k] = cut[k]
      /\ \A k \in Cuts \cap K : Len(cut'[k].queue) = Len(cut[k].queue) + 1
  <2>1. cut' = [k \in Cuts |-> IF k \in K THEN [cut[k] EXCEPT !.queue = Append(@, line')]
                                        ELSE cut[k]]
    BY DEF MovePreviewLine
  <2> HIDE DEF K
  <2> QED BY <1>2, <2>1, QueuesGrow
<1>4. /\ r \in PreviewTaskRecords /\ r.at = "queued" /\ r.kind = "update" /\ r.todo = {}
      /\ r.cut = NoPreview /\ r.cube = NoPreview
  BY UpdateSet
<1>5. preview_task' = IF K = {} THEN preview_task ELSE [preview_task EXCEPT ![t] = r]
  BY DEF MovePreviewLine
<1> HIDE DEF r
<1>6. /\ OneTask(t) /\ preview_task'[t] = (IF K = {} THEN NoPreviewTask ELSE r)
  <2>1. CASE K = {}
    BY <1>1, <1>5, <2>1 DEF OneTask, PvPreviewTypeOK
  <2>2. CASE K # {}
    <3>1. preview_task' = [preview_task EXCEPT ![t] = r]
      BY <1>5, <2>2
    <3> QED BY <1>4, <2>2, <3>1, OneTaskSet DEF OneTask
  <2> QED BY <2>1, <2>2
<1>7. /\ TaskOK(t)' /\ PreviewAt(t)' \in {"idle", "queued"}
      /\ preview_task'[t].cut = NoPreview /\ preview_task'[t].cube = NoPreview
  <2>1. CASE K = {}
    BY <1>6, <2>1, NoTaskOK
  <2>2. CASE K # {}
    BY <1>4, <1>6, <2>2 DEF TaskOK, PreviewAt, RequestPlaces, WithCut, WithCube
  <2> QED BY <2>1, <2>2
<1>8. PvPreviewTypeOK'
  <2>1. /\ cube' \in Seq(CubeRecords)
        /\ cut_of' \in [Previews -> Cuts' \cup {NoPreview}]
        /\ cube_of' \in [Previews -> Cubes' \cup {NoPreview}]
        /\ preview_frame' \in [Previews -> Cubes' \cup {NoPreview}]
        /\ preview_lock' \in PreviewTasks \cup {NoPreview}
        /\ cube_stops' \in [Cubes' -> Nat] /\ cube_cancels' \in [Cubes' -> Nat]
        /\ skipped' \subseteq Cuts'
    BY <1>2, <1>3 DEF PvPreviewTypeOK
  <2> QED BY <1>2, <1>3, <1>6, <1>7, <2>1, TypeKept
<1>9. TaskStates'
  <2>1. UpdatesKept
    BY <1>2 DEF UpdatesKept
  <2> QED BY <1>6, <1>7, <2>1, TasksKept
<1>10. WholeCubes'
  <2>1. PreviewAt(t) # "loading"
    BY <1>1
  <2> QED BY <1>2, <1>6, <1>7, <2>1, OverlapNoted, WholeKept
<1>11. StopsCounted'
  BY <1>2, StopsKept
<1>12. WillCatchUp'
  <2>1. ASSUME NEW x \in Previews, NEW k \in Nat, cut_of'[x] = k, k # NoPreview
        PROVE  cut_of[x] = k /\ QueueKept(t, k)
    <3>1. cut_of[x] = k /\ k \in Cuts /\ k \in K
      BY <1>2, <2>1 DEF PvPreviewTypeOK
    <3>2. WillTake(t, k)'
      BY <1>4, <1>6, <3>1 DEF WillTake
    <3>3. t \notin Waiting(k) /\ Waiting(k) \cup {t} \subseteq Waiting(k)'
      BY <1>1, <1>2, <1>6, <3>2, WaitingOthers DEF Waiting
    <3> QED BY <1>2, <1>3, <3>1, <3>3 DEF QueueKept
  <2> QED BY <1>8, <2>1, CatchUpFrom
<1> QED BY <1>8, <1>9, <1>10, <1>11, <1>12

-----------------------------------------------------------------------------
\* The cut of a request gets the state that was read, or is new with that state.
LEMMA SetPreviewCutStep ==
    ASSUME PreviewIInv, NEW t \in PreviewTasks, SetPreviewCut(t)
    PROVE  PreviewIInv'
<1> USE DEF PreviewIInv
<1> DEFINE a == preview_task[t]
           p == a.preview
           n == a.read
           k == cut_of[p]
           m == cut_of'[p]
           r == [a EXCEPT !.at = "frame", !.cut = m]
<1>1. /\ a.at = "cut" /\ a.kind = "request" /\ TaskOK(t) /\ a \in PreviewTaskRecords
      /\ p \in Previews /\ a.cut_kind \in CutKinds /\ a.todo = {} /\ a.read # 0
      /\ \A u \in PreviewTasks : ~Updating(u)
  BY TaskFacts DEF SetPreviewCut, PreviewAt, TaskStates, TaskOK, RequestPlaces
<1>2. n \in 1..MaxLineMoves
  <2>1. n \in 0..MaxLineMoves
    BY <1>1, SMTT(30) DEF PreviewTaskRecords
  <2> QED BY <1>1, <2>1
<1>3. /\ UNCHANGED <<line, cube_of, cube, preview_frame, preview_lock, cube_stops, cube_cancels, skipped>>
      /\ Cubes' = Cubes
  BY DEF SetPreviewCut, KeepMain, Cubes
<1>4. ASSUME NEW j \in Nat PROVE ~WillTake(t, j)
  BY <1>1, SMTT(30) DEF WillTake, WithCut
<1>5. /\ cut' \in Seq(CutRecords) /\ Cuts \subseteq Cuts' /\ m \in Cuts' /\ m \in Nat /\ m # NoPreview
      /\ cut_of' \in [Previews -> Cuts' \cup {NoPreview}]
      /\ \A x \in Previews \ {p} : cut_of'[x] = cut_of[x]
      /\ \A j \in Cuts \ {m} : cut'[j] = cut[j]
      /\ \/ m = k /\ m \in Cuts /\ Len(cut'[m].queue) = Len(cut[m].queue) + 1
         \/ m \notin Cuts /\ Len(cut'[m].queue) = 1
  <2>1. k \in Cuts \cup {NoPreview} /\ cut \in Seq(CutRecords) /\ cut_of \in [Previews -> Cuts \cup {NoPreview}]
    BY <1>1, SMTT(30) DEF PvPreviewTypeOK
  <2>2. CASE /\ k # NoPreview /\ cut' = [cut EXCEPT ![k].queue = Append(@, n)] /\ UNCHANGED cut_of
    <3> DEFINE q == Append(cut[k].queue, n)
    <3>1. k \in Cuts /\ m = k
      BY <2>1, <2>2
    <3>2. q \in Seq(1..MaxLineMoves) /\ Len(q) = Len(cut[k].queue) + 1
      BY <1>2, <3>1, QueueFacts, AppendProperties
    <3>3. cut' = [cut EXCEPT ![k].queue = q]
      BY <2>2, SMTT(30)
    <3> HIDE DEF q
    <3>4. /\ cut' \in Seq(CutRecords) /\ Cuts' = Cuts /\ cut'[k].queue = q
          /\ \A j \in Cuts \ {k} : cut'[j] = cut[j]
      BY <3>1, <3>2, <3>3, QueueSet, Zenon
    <3>5. m \in Nat /\ m # NoPreview
      BY <3>1 DEF Cuts, NoPreview
    <3> QED BY <2>1, <2>2, <3>1, <3>2, <3>4, <3>5, Zenon
  <2>3. CASE /\ cut' = Append(cut, [kind |-> a.cut_kind, queue |-> <<n>>])
             /\ cut_of' = [cut_of EXCEPT ![p] = Len(cut')]
    <3> DEFINE e == [kind |-> a.cut_kind, queue |-> <<n>>]
    <3>1. e \in CutRecords /\ Len(e.queue) = 1
      BY <1>1, <1>2 DEF CutRecords
    <3>2. cut' = Append(cut, e)
      BY <2>3
    <3> HIDE DEF e
    <3>3. /\ cut' \in Seq(CutRecords) /\ Len(cut') = Len(cut) + 1 /\ Len(cut) \in Nat
          /\ \A j \in 1..Len(cut) : cut'[j] = cut[j]
          /\ cut'[Len(cut) + 1] = e
      BY <2>1, <3>1, <3>2, AppendProperties, LenProperties
    <3>4. m = Len(cut) + 1
      BY <1>1, <2>1, <2>3, <3>3
    <3> QED BY <2>1, <2>3, <3>1, <3>3, <3>4 DEF Cuts, NoPreview
  <2> QED BY <2>2, <2>3, Zenon DEF SetPreviewCut
<1>6. preview_task' = [preview_task EXCEPT ![t] = r]
  <2>1. preview_task' = [preview_task EXCEPT ![t].at = "frame", ![t].cut = m]
    BY DEF SetPreviewCut
  <2>2. preview_task \in [PreviewTasks -> PreviewTaskRecords]
    BY DEF PvPreviewTypeOK
  <2> HIDE DEF m
  <2> QED BY <2>1, <2>2
<1>7. /\ r \in PreviewTaskRecords /\ r.at = "frame" /\ r.cut = m
      /\ r.kind = a.kind /\ r.preview = a.preview /\ r.cut_kind = a.cut_kind
      /\ r.cube_kind = a.cube_kind /\ r.cube = a.cube /\ r.read = a.read
      /\ r.todo = a.todo /\ r.overlap = a.overlap
  <2>1. m \in Nat /\ a \in PreviewTaskRecords
    BY <1>1, <1>5
  <2> HIDE DEF a, m
  <2> QED BY <2>1 DEF PreviewTaskRecords
<1> HIDE DEF r
<1>8. OneTask(t) /\ preview_task'[t] = r
  BY <1>6, <1>7, OneTaskSet DEF OneTask
<1>9. PvPreviewTypeOK'
  <2>1. /\ line' \in 1..MaxLineMoves /\ cube' \in Seq(CubeRecords)
        /\ cube_of' \in [Previews -> Cubes' \cup {NoPreview}]
        /\ preview_frame' \in [Previews -> Cubes' \cup {NoPreview}]
        /\ preview_lock' \in PreviewTasks \cup {NoPreview}
        /\ cube_stops' \in [Cubes' -> Nat] /\ cube_cancels' \in [Cubes' -> Nat]
        /\ skipped' \subseteq Cuts'
    BY <1>3, <1>5 DEF PvPreviewTypeOK
  <2>2. r.cut \in Cuts' \cup {NoPreview} /\ r.cube \in Cubes' \cup {NoPreview}
    BY <1>3, <1>5, <1>7, StateTypes
  <2> QED BY <1>3, <1>5, <1>8, <2>1, <2>2, TypeKept
<1>10. TaskStates'
  <2>1. TaskOK(t)'
    BY <1>1, <1>5, <1>7, <1>8 DEF TaskOK, RequestPlaces, WithCut, WithCube
  <2>2. UpdatesKept
    BY <1>1 DEF UpdatesKept
  <2> QED BY <1>8, <2>1, <2>2, TasksKept
<1>11. WholeCubes'
  <2>1. PreviewAt(t) # "loading" /\ PreviewAt(t)' = "frame"
    BY <1>1, <1>7, <1>8 DEF PreviewAt
  <2> QED BY <1>3, <1>7, <1>8, <2>1, OverlapNoted, WholeKept
<1>12. StopsCounted'
  BY <1>3, StopsKept
<1>13. WillCatchUp'
  <2>2. ASSUME NEW x \in Previews, NEW j \in Nat, cut_of'[x] = j, j # NoPreview
        PROVE  \/ cut_of[x] = j /\ QueueKept(t, j)
               \/ Len(cut'[j].queue) = 1 /\ WillTake(t, j)'
    <3>0. WillTake(t, j)' \/ j # m
      <4>1. r.cut = m
        BY <1>7
      <4> QED BY <1>1, <1>7, <1>8, <4>1 DEF WillTake, WithCut
    <3>1. CASE j = m /\ m = k /\ m \in Cuts /\ Len(cut'[m].queue) = Len(cut[m].queue) + 1
      <4>1. cut_of[x] = j
        BY <1>5, <2>2, <3>1
      <4>2. t \notin Waiting(j) /\ Waiting(j) \cup {t} \subseteq Waiting(j)'
        BY <1>1, <1>4, <1>8, <3>0, <3>1, WaitingOthers DEF Waiting
      <4> QED BY <1>3, <3>1, <4>1, <4>2 DEF QueueKept
    <3>2. CASE j = m /\ m \notin Cuts
      BY <1>5, <3>0, <3>2
    <3>3. CASE j # m
      <4>1. cut_of[x] = j /\ j \in Cuts
        BY <1>5, <2>2, <3>3 DEF PvPreviewTypeOK
      <4>2. Waiting(j) \subseteq Waiting(j)'
        BY <1>1, <1>4, <1>8, WaitingOthers
      <4> QED BY <1>3, <1>5, <3>3, <4>1, <4>2 DEF QueueKept
    <3> QED BY <1>5, <3>1, <3>2, <3>3
  <2> QED BY <1>9, <2>2, CatchUpFrom
<1> QED BY <1>9, <1>10, <1>11, <1>12, <1>13

-----------------------------------------------------------------------------
\* The cube that a request uses.
LEMMA UseCube ==
    ASSUME PvPreviewTypeOK, NEW t \in PreviewTasks, NEW c \in Nat, NEW at \in PreviewPlaces,
           preview_task' = [preview_task EXCEPT ![t].cube = c, ![t].at = at,
                                                ![t].overlap = LoadedElsewhere(t, c)]
    PROVE  LET a == preview_task[t]
               b == preview_task'[t]
           IN  /\ OneTask(t) /\ b.at = at /\ b.cube = c /\ b.overlap = LoadedElsewhere(t, c)
               /\ b.kind = a.kind /\ b.preview = a.preview /\ b.cut_kind = a.cut_kind
               /\ b.cube_kind = a.cube_kind /\ b.cut = a.cut /\ b.read = a.read /\ b.todo = a.todo
<1> DEFINE a == preview_task[t]
           o == LoadedElsewhere(t, c)
           r == [a EXCEPT !.cube = c, !.at = at, !.overlap = o]
<1>1. a \in PreviewTaskRecords /\ o \in BOOLEAN
  BY TaskFacts DEF LoadedElsewhere
<1>2. preview_task' = [preview_task EXCEPT ![t] = r]
  BY DEF PvPreviewTypeOK
<1>3. /\ r \in PreviewTaskRecords /\ r.at = at /\ r.cube = c /\ r.overlap = o
      /\ r.kind = a.kind /\ r.preview = a.preview /\ r.cut_kind = a.cut_kind
      /\ r.cube_kind = a.cube_kind /\ r.cut = a.cut /\ r.read = a.read /\ r.todo = a.todo
  <2> HIDE DEF a, o
  <2> QED BY <1>1, ZenonT(40) DEF PreviewTaskRecords, PreviewPlaces
<1> HIDE DEF r
<1>4. OneTask(t) /\ preview_task'[t] = r
  BY <1>2, <1>3, OneTaskSet DEF OneTask
<1> QED BY <1>3, <1>4

LEMMA SetPreviewCubeStep ==
    ASSUME PreviewIInv, NEW t \in PreviewTasks, SetPreviewCube(t)
    PROVE  PreviewIInv'
<1> USE DEF PreviewIInv
<1> DEFINE a == preview_task[t]
           b == preview_task'[t]
           p == a.preview
           Used(c, at) == preview_task' = [preview_task EXCEPT ![t].cube = c, ![t].at = at,
                                              ![t].overlap = LoadedElsewhere(t, c)]
<1>1. /\ a.at = "cube" /\ a.kind = "request" /\ TaskOK(t) /\ p \in Previews
      /\ a.cut_kind \in CutKinds /\ a.cube_kind \in CubeKinds /\ a.todo = {} /\ a.read # 0
      /\ a.cut # NoPreview /\ a.cut \in Cuts /\ PreviewAt(t) # "loading"
  BY StateTypes, Zenon DEF SetPreviewCube, PreviewAt, TaskStates, TaskOK, RequestPlaces, WithCut
<1>2. UNCHANGED <<line, cut_of, cut, preview_frame, preview_lock, skipped>> /\ Cuts' = Cuts
  BY DEF SetPreviewCube, Cuts
<1>3. ASSUME NEW c \in Nat, c # NoPreview, NEW at \in {"image", "take"}, Used(c, at)
      PROVE  /\ OneTask(t) /\ b.at = at /\ b.cube = c /\ b.cut = a.cut
             /\ b.overlap = LoadedElsewhere(t, c) /\ TaskOK(t)'
             /\ \A k \in Nat : WillTake(t, k) => WillTake(t, k)'
             /\ PreviewAt(t)' = at
  <2>1. /\ OneTask(t) /\ b.at = at /\ b.cube = c /\ b.overlap = LoadedElsewhere(t, c)
        /\ b.kind = a.kind /\ b.preview = a.preview /\ b.cut_kind = a.cut_kind
        /\ b.cube_kind = a.cube_kind /\ b.cut = a.cut /\ b.read = a.read /\ b.todo = a.todo
    BY <1>3, UseCube, Zenon DEF PreviewPlaces
  <2>2. TaskOK(t)'
    BY <1>1, <1>3, <2>1 DEF TaskOK, RequestPlaces, WithCut, WithCube
  <2>3. \A k \in Nat : WillTake(t, k) => WillTake(t, k)'
    BY <1>1, <2>1 DEF WillTake, WithCut
  <2> QED BY <2>1, <2>2, <2>3, SMTT(30) DEF PreviewAt
<1>4. ASSUME NEW c \in Cubes, NEW at \in {"image", "take"}, Used(c, at),
             at = "take" => cube[c].data # "empty",
             UNCHANGED <<cube, cube_cancels, cube_stops>>,
             cube_of' \in [Previews -> Cubes \cup {NoPreview}]
      PROVE  PreviewIInv'
  <2>1. c \in Nat /\ c # NoPreview /\ Cubes' = Cubes
    BY <1>4, SMTT(30) DEF Cubes, NoPreview
  <2>2. /\ OneTask(t) /\ b.at = at /\ b.cube = c /\ b.cut = a.cut
        /\ b.overlap = LoadedElsewhere(t, c) /\ TaskOK(t)'
        /\ \A k \in Nat : WillTake(t, k) => WillTake(t, k)'
        /\ PreviewAt(t)' = at
    BY <1>3, <1>4, <2>1, Zenon
  <2>3. PreviewAt(t)' \in {"set", "take", "compute"} => cube[c].data = "full" \/ b.overlap
    BY <1>1, <1>4, <2>2, DataOfCube
  <2> QED BY <1>1, <1>2, <1>4, <2>1, <2>2, <2>3, StateTypes, QuietStep
<1>5. ASSUME Used(Len(cube'), "image"),
             cube' = Append(cube, [kind |-> a.cube_kind, image |-> FALSE, data |-> "empty", stop |-> FALSE]),
             cube_cancels' = Append(cube_cancels, 0), cube_stops' = Append(cube_stops, 0),
             cube_of' = [cube_of EXCEPT ![p] = Len(cube')]
      PROVE  PreviewIInv'
  <2> DEFINE e == [kind |-> a.cube_kind, image |-> FALSE, data |-> "empty", stop |-> FALSE]
             c == Len(cube) + 1
  <2>1. e \in CubeRecords /\ e.data = "empty" /\ e.stop = FALSE
    BY <1>1 DEF CubeRecords
  <2>2. cube' = Append(cube, e)
    BY <1>5
  <2> HIDE DEF e
  <2>3. /\ cube' \in Seq(CubeRecords) /\ Len(cube') = c /\ Len(cube) \in Nat
        /\ \A j \in 1..Len(cube) : cube'[j] = cube[j]
        /\ cube'[c] = e
    BY <2>1, <2>2, AppendProperties, LenProperties DEF PvPreviewTypeOK
  <2>4. /\ Cubes' = Cubes \cup {c} /\ c \notin Cubes /\ c \in Nat /\ c # NoPreview
    BY <2>3 DEF Cubes, NoPreview
  <2>5. /\ OneTask(t) /\ b.at = "image" /\ b.cube = c /\ b.cut = a.cut
        /\ b.overlap = LoadedElsewhere(t, c) /\ TaskOK(t)'
        /\ \A k \in Nat : WillTake(t, k) => WillTake(t, k)'
        /\ PreviewAt(t)' = "image"
    <3>1. Used(c, "image")
      BY <1>5, <2>3
    <3> HIDE DEF c, Used
    <3> QED BY <1>3, <2>4, <3>1
  <2>6. /\ cube_stops' \in [Cubes' -> Nat] /\ cube_cancels' \in [Cubes' -> Nat]
        /\ cube_stops'[c] = 0 /\ cube_cancels'[c] = 0
        /\ \A j \in Cubes : cube_stops'[j] = cube_stops[j] /\ cube_cancels'[j] = cube_cancels[j]
    <3>1. cube_stops \in Seq(Nat) /\ cube_cancels \in Seq(Nat)
      <4> DEFINE n == Len(cube)
      <4>1. n \in Nat /\ cube_stops \in [1..n -> Nat] /\ cube_cancels \in [1..n -> Nat]
        BY <2>3 DEF PvPreviewTypeOK, Cubes
      <4> HIDE DEF n
      <4> QED BY <4>1, SeqDef
    <3>2. Len(cube_stops) = Len(cube) /\ Len(cube_cancels) = Len(cube)
      <4>1. /\ DOMAIN cube_stops = 1..Len(cube) /\ DOMAIN cube_cancels = 1..Len(cube)
        BY DEF PvPreviewTypeOK, Cubes
      <4>2. /\ DOMAIN cube_stops = 1..Len(cube_stops) /\ DOMAIN cube_cancels = 1..Len(cube_cancels)
            /\ Len(cube_stops) \in Nat /\ Len(cube_cancels) \in Nat
        BY <3>1, LenProperties
      <4> QED BY <2>3, <4>1, <4>2
    <3>3. /\ cube_stops' \in Seq(Nat) /\ Len(cube_stops') = c /\ cube_stops'[c] = 0
          /\ \A j \in 1..Len(cube) : cube_stops'[j] = cube_stops[j]
      BY <1>5, <3>1, <3>2, AppendProperties
    <3>4. /\ cube_cancels' \in Seq(Nat) /\ Len(cube_cancels') = c /\ cube_cancels'[c] = 0
          /\ \A j \in 1..Len(cube) : cube_cancels'[j] = cube_cancels[j]
      BY <1>5, <3>1, <3>2, AppendProperties
    <3>5. cube_stops' \in [1..c -> Nat] /\ cube_cancels' \in [1..c -> Nat]
      BY <3>3, <3>4, LenProperties
    <3> QED BY <2>3, <3>3, <3>4, <3>5 DEF Cubes
  <2>7. PvPreviewTypeOK'
    <3>1. /\ line' \in 1..MaxLineMoves /\ cut' \in Seq(CutRecords)
          /\ cut_of' \in [Previews -> Cuts' \cup {NoPreview}]
          /\ cube_of' \in [Previews -> Cubes' \cup {NoPreview}]
          /\ preview_frame' \in [Previews -> Cubes' \cup {NoPreview}]
          /\ preview_lock' \in PreviewTasks \cup {NoPreview}
          /\ skipped' \subseteq Cuts'
      BY <1>2, <1>5, <2>3, <2>4 DEF PvPreviewTypeOK
    <3>2. b.cut \in Cuts' \cup {NoPreview} /\ b.cube \in Cubes' \cup {NoPreview}
      BY <1>1, <1>2, <2>4, <2>5
    <3>3. Cuts \subseteq Cuts' /\ Cubes \subseteq Cubes'
      BY <1>2, <2>4
    <3> HIDE DEF c
    <3> QED BY <2>3, <2>5, <2>6, <3>1, <3>2, <3>3, TypeKept
  <2>8. TaskStates'
    <3>1. UpdatesKept
      BY <1>2 DEF UpdatesKept
    <3> QED BY <2>5, <3>1, TasksKept
  <2>9. WholeCubes'
    <3>1. /\ Cubes \subseteq Cubes' /\ \A d \in Cubes : cube'[d].data = cube[d].data
          /\ \A d \in Cubes' \ Cubes : cube'[d].data # "part"
      BY <2>1, <2>3, <2>4 DEF Cubes
    <3>2. PreviewAt(t)' # "loading" /\ PreviewAt(t)' \notin {"set", "take", "compute"}
      BY <2>5
    <3>3. b.overlap = LoadedElsewhere(t, b.cube)
      BY <2>5
    <3> HIDE DEF c
    <3> QED BY <1>1, <2>5, <3>1, <3>2, <3>3, OverlapNoted, WholeKept
  <2>10. StopsCounted'
    <3>1. Cubes \subseteq Cubes' /\ \A d \in Cubes : cube'[d].stop = cube[d].stop
      BY <2>3, <2>4 DEF Cubes
    <3>2. \A d \in Cubes' \ Cubes : ~cube'[d].stop /\ cube_cancels'[d] = 0 /\ cube_stops'[d] = 0
      BY <2>1, <2>3, <2>4, <2>6
    <3> HIDE DEF c
    <3> QED BY <2>6, <3>1, <3>2, StopsKept
  <2>11. WillCatchUp'
    <3>1. ASSUME NEW x \in Previews, NEW k \in Nat, cut_of'[x] = k, k # NoPreview
          PROVE  cut_of[x] = k /\ QueueKept(t, k)
      <4>1. Waiting(k) \subseteq Waiting(k)'
        BY <1>2, <2>5, WaitingOthers, SMTT(30)
      <4> QED BY <1>2, <3>1, <4>1 DEF QueueKept
    <3> QED BY <2>7, <3>1, CatchUpFrom
  <2> QED BY <2>7, <2>8, <2>9, <2>10, <2>11
<1>6. \/ \E c \in Cubes, at \in {"image", "take"} :
            /\ Used(c, at) /\ (at = "take" => cube[c].data # "empty")
            /\ UNCHANGED <<cube, cube_cancels, cube_stops>>
            /\ cube_of' \in [Previews -> Cubes \cup {NoPreview}]
      \/ /\ Used(Len(cube'), "image")
         /\ cube' = Append(cube, [kind |-> a.cube_kind, image |-> FALSE, data |-> "empty", stop |-> FALSE])
         /\ cube_cancels' = Append(cube_cancels, 0) /\ cube_stops' = Append(cube_stops, 0)
         /\ cube_of' = [cube_of EXCEPT ![p] = Len(cube')]
  <2> DEFINE Same(c) == c # NoPreview /\ cube[c].kind = a.cube_kind
             place(c, kept) == IF kept /\ a.frame_set /\ cube'[c].data # "empty" THEN "take" ELSE "image"
  <2>0. cube_of \in [Previews -> Cubes \cup {NoPreview}]
    BY StateTypes
  <2>1. CASE /\ Same(cube_of[p]) /\ UNCHANGED <<cube, cube_of, cube_cancels, cube_stops>>
             /\ Used(cube_of[p], place(cube_of[p], TRUE))
    <3> DEFINE c == cube_of[p]
               at == place(c, TRUE)
    <3>1. c \in Cubes
      BY <1>1, <2>0, <2>1
    <3>2. at \in {"image", "take"} /\ (at = "take" => cube[c].data # "empty")
      BY <2>1
    <3>3. Used(c, at)
      BY <2>1
    <3> HIDE DEF c, at, Used
    <3> QED BY <2>0, <2>1, <3>1, <3>2, <3>3
  <2>2. CASE /\ \E q \in Previews : Same(cube_of[q]) /\ cube_of' = [cube_of EXCEPT ![p] = cube_of[q]]
             /\ UNCHANGED <<cube, cube_cancels, cube_stops>>
             /\ Used(cube_of'[p], place(cube_of'[p], FALSE))
    <3>1. PICK q \in Previews : Same(cube_of[q]) /\ cube_of' = [cube_of EXCEPT ![p] = cube_of[q]]
      BY <2>2
    <3>2. cube_of[q] \in Cubes /\ cube_of' \in [Previews -> Cubes \cup {NoPreview}] /\ cube_of'[p] \in Cubes
      BY <1>1, <2>0, <3>1
    <3>3. Used(cube_of'[p], "image")
      BY <2>2
    <3> HIDE DEF Used
    <3> QED BY <2>2, <3>2, <3>3
  <2>3. CASE /\ cube' = Append(cube, [kind |-> a.cube_kind, image |-> FALSE, data |-> "empty", stop |-> FALSE])
             /\ cube_cancels' = Append(cube_cancels, 0) /\ cube_stops' = Append(cube_stops, 0)
             /\ cube_of' = [cube_of EXCEPT ![p] = Len(cube')]
             /\ Used(Len(cube'), place(Len(cube'), FALSE))
    BY <2>3
  <2> QED BY <2>1, <2>2, <2>3, Zenon DEF SetPreviewCube
<1> HIDE DEF Used
<1> QED BY <1>4, <1>5, <1>6

-----------------------------------------------------------------------------
LEMMA StopCubeFacts ==
    ASSUME PvPreviewTypeOK, StopsCounted, NEW p \in Previews, StopCube(p), UNCHANGED cube_cancels
    PROVE  /\ cube' \in Seq(CubeRecords) /\ Cubes' = Cubes
           /\ \A c \in Cubes : cube'[c].data = cube[c].data
           /\ cube_stops' \in [Cubes -> Nat] /\ cube_cancels' \in [Cubes -> Nat]
           /\ StopsCounted'
<1>1. /\ cube \in Seq(CubeRecords) /\ cube_of[p] \in Cubes \cup {NoPreview}
      /\ cube_stops \in [Cubes -> Nat] /\ cube_cancels \in [Cubes -> Nat]
  BY DEF PvPreviewTypeOK
<1>2. CASE cube_of[p] = NoPreview
  <2>1. UNCHANGED <<cube, cube_stops>>
    BY <1>2 DEF StopCube
  <2> QED BY <1>1, <2>1 DEF Cubes, StopsCounted
<1>3. CASE cube_of[p] # NoPreview
  <2> DEFINE c == cube_of[p]
             q == cube[c]
             b == TRUE
             r == [q EXCEPT !.stop = b]
  <2>1. c \in Cubes /\ q \in CubeRecords
    BY <1>1, <1>3, ElementOfSeq DEF Cubes
  <2>2. r \in CubeRecords /\ r.data = q.data /\ r.stop = TRUE
    BY <2>1, CubeFieldSet, Zenon
  <2>3. cube' = [cube EXCEPT ![c] = r] /\ cube_stops' = [cube_stops EXCEPT ![c] = @ + 1]
    BY <1>3 DEF StopCube
  <2> HIDE DEF r, c
  <2>4. /\ cube' \in Seq(CubeRecords) /\ Cubes' = Cubes /\ cube'[c] = r
        /\ \A d \in Cubes \ {c} : cube'[d] = cube[d]
    BY <2>1, <2>2, <2>3, CubeRecordSet
  <2>5. /\ cube_stops' \in [Cubes -> Nat] /\ cube_stops'[c] = cube_stops[c] + 1
        /\ \A d \in Cubes \ {c} : cube_stops'[d] = cube_stops[d]
    BY <1>1, <2>1, <2>3
  <2>6. cube_cancels[c] <= cube_stops[c] /\ cube_cancels[c] \in Nat /\ cube_stops[c] \in Nat
    BY <1>1, <2>1 DEF StopsCounted
  <2>7. cube_cancels[c] <= cube_stops'[c] /\ cube_cancels[c] < cube_stops'[c]
    BY <2>5, <2>6
  <2>8. StopsCounted'
    BY <2>4, <2>5, <2>7 DEF StopsCounted
  <2> QED BY <1>1, <2>2, <2>4, <2>5, <2>8
<1> QED BY <1>2, <1>3

\* A step of the main thread that leaves the tasks alone.
LEMMA PreviewMainStep ==
    ASSUME PreviewIInv, NEW p \in Previews, StopCube(p),
           UNCHANGED <<line, preview_task, preview_lock, skipped, cube_cancels>>,
           cut' \in Seq(CutRecords), Cuts' = Cuts,
           \A k \in Cuts : cut'[k] = cut[k] \/ cut'[k].queue = <<>>,
           cut_of' \in [Previews -> Cuts \cup {NoPreview}],
           cube_of' \in [Previews -> Cubes \cup {NoPreview}],
           preview_frame' \in [Previews -> Cubes \cup {NoPreview}],
           UNCHANGED <<cut_of, preview_frame>> \/ \A u \in PreviewTasks : ~Updating(u),
           \A x \in Previews : cut_of'[x] # NoPreview => cut_of'[x] = cut_of[x]
    PROVE  PreviewIInv'
<1> USE DEF PreviewIInv
<1>1. /\ cube' \in Seq(CubeRecords) /\ Cubes' = Cubes
      /\ \A c \in Cubes : cube'[c].data = cube[c].data
      /\ cube_stops' \in [Cubes -> Nat] /\ cube_cancels' \in [Cubes -> Nat]
      /\ StopsCounted'
  BY StopCubeFacts
<1>2. PvPreviewTypeOK'
  BY <1>1 DEF PvPreviewTypeOK
<1>3. TaskStates'
  <2>1. CASE UNCHANGED <<cut_of, preview_frame>>
    BY <2>1 DEF TaskStates, TaskOK
  <2>2. CASE \A u \in PreviewTasks : ~Updating(u)
    <3> SUFFICES ASSUME NEW u \in PreviewTasks PROVE TaskOK(u)'
      BY DEF TaskStates
    <3>1. TaskOK(u) /\ preview_task[u].todo = {}
          /\ ~(preview_task[u].kind = "update" /\ preview_task[u].at \in {"take", "compute"})
      BY <2>2, TodoOfUpdates DEF TaskStates
    <3> QED BY <3>1 DEF TaskOK
  <2> QED BY <2>1, <2>2
<1>4. WholeCubes'
  <2>1. \A t \in PreviewTasks : PreviewAt(t) \in {"set", "take", "compute"} =>
           preview_task[t].cube \in Cubes
    BY DEF TaskStates, TaskOK, WithCube, PreviewAt, PvPreviewTypeOK
  <2> QED BY <1>1, <2>1 DEF WholeCubes, PreviewAt
<1>5. WillCatchUp'
  <2>0. \A x \in Previews : cut_of'[x] \in Nat
    BY DEF Cuts, NoPreview
  <2> SUFFICES ASSUME NEW x \in Previews, NEW k \in Nat, cut_of'[x] = k, k # NoPreview
               PROVE  k \in skipped' \/ Len(cut'[k].queue) <= Cardinality(Waiting(k)')
    BY <2>0 DEF WillCatchUp, NoPreview
  <2>1. cut_of[x] = k /\ k \in Cuts
    BY DEF PvPreviewTypeOK
  <2>2. k \in skipped \/ Len(cut[k].queue) <= Cardinality(Waiting(k))
    BY <2>1 DEF WillCatchUp
  <2>3. \A u \in PreviewTasks : WillTake(u, k)' <=> WillTake(u, k)
    <3>1. CASE UNCHANGED <<cut_of, preview_frame>>
      BY <3>1 DEF WillTake
    <3>2. CASE \A u \in PreviewTasks : ~Updating(u)
      BY <3>2, TodoOfUpdates DEF WillTake
    <3> QED BY <3>1, <3>2
  <2>4. Waiting(k)' = Waiting(k)
    BY <2>3 DEF Waiting
  <2>5. CASE cut'[k].queue = <<>>
    <3>1. Len(cut'[k].queue) = 0
      BY <2>5, EmptySeq
    <3> QED BY <2>4, <3>1, WaitingFinite
  <2>6. CASE cut'[k] = cut[k]
    BY <2>2, <2>4, <2>6
  <2> QED BY <2>1, <2>5, <2>6
<1> QED BY <1>1, <1>2, <1>3, <1>4, <1>5

LEMMA StopPvPreviewStep ==
    ASSUME PreviewIInv, NEW p \in Previews, StopPvPreview(p)
    PROVE  PreviewIInv'
<1>1. /\ StopCube(p) /\ Cuts' = Cuts
      /\ UNCHANGED <<line, preview_task, preview_lock, skipped, cube_cancels,
                     cut, cut_of, cube_of, preview_frame>>
  BY DEF StopPvPreview, Cuts
<1>2. /\ cut' \in Seq(CutRecords) /\ cut_of' \in [Previews -> Cuts \cup {NoPreview}]
      /\ cube_of' \in [Previews -> Cubes \cup {NoPreview}]
      /\ preview_frame' \in [Previews -> Cubes \cup {NoPreview}]
  BY <1>1 DEF PreviewIInv, PvPreviewTypeOK
<1> QED BY <1>1, <1>2, PreviewMainStep

LEMMA ClosePvPreviewStep ==
    ASSUME PreviewIInv, NEW p \in Previews, ClosePvPreview(p)
    PROVE  PreviewIInv'
<1>1. /\ StopCube(p) /\ \A u \in PreviewTasks : ~Updating(u)
      /\ UNCHANGED <<line, preview_task, preview_lock, skipped, cube_cancels>>
      /\ cut' = ClearRegionQueue(p)
      /\ cut_of' = [cut_of EXCEPT ![p] = NoPreview]
      /\ cube_of' = [cube_of EXCEPT ![p] = NoPreview]
      /\ preview_frame' = [preview_frame EXCEPT ![p] = NoPreview]
  BY DEF ClosePvPreview
<1>2. /\ cut' \in Seq(CutRecords) /\ Cuts' = Cuts
      /\ \A k \in Cuts : cut'[k] = cut[k] \/ cut'[k].queue = <<>>
  <2>1. /\ cut' \in Seq(CutRecords) /\ Cuts' = Cuts
        /\ \A k \in Cuts : k # cut_of[p] => cut'[k] = cut[k]
        /\ cut_of[p] # NoPreview => cut'[cut_of[p]].queue = <<>>
    BY <1>1, ClearedQueue DEF PreviewIInv
  <2>2. \A k \in Cuts : k # NoPreview
    BY DEF Cuts, NoPreview
  <2> QED BY <2>1, <2>2
<1>3. /\ cut_of' \in [Previews -> Cuts \cup {NoPreview}]
      /\ cube_of' \in [Previews -> Cubes \cup {NoPreview}]
      /\ preview_frame' \in [Previews -> Cubes \cup {NoPreview}]
      /\ \A x \in Previews : cut_of'[x] # NoPreview => cut_of'[x] = cut_of[x]
  BY <1>1 DEF PreviewIInv, PvPreviewTypeOK
<1> QED BY <1>1, <1>2, <1>3, PreviewMainStep

-----------------------------------------------------------------------------
\* A load that was stopped empties what it has read and clears the stop.
LEMMA CancelledLoad ==
    ASSUME PreviewIInv, NEW t \in PreviewTasks, PreviewAt(t) \in {"load", "loading"},
           NEW c \in Cubes, c = preview_task[t].cube, cube[c].stop,
           cube' = [cube EXCEPT ![c] = [cube[c] EXCEPT !.stop = FALSE, !.data = Emptied(t)]],
           cube_cancels' = [cube_cancels EXCEPT ![c] = @ + 1],
           End(t), Release(t), Skip(t),
           UNCHANGED <<line, cube_stops, cut_of, cut, cube_of, preview_frame>>
    PROVE  PreviewIInv'
<1> USE DEF PreviewIInv
<1> DEFINE a == preview_task[t]
           d == Emptied(t)
           q == cube[c]
           r == [q EXCEPT !.stop = FALSE, !.data = d]
<1>1. /\ a.at \in {"load", "loading"} /\ TaskOK(t) /\ a.cut \in Cuts /\ a.kind = "request" /\ a.todo = {}
  BY StateTypes DEF PreviewAt, TaskStates, TaskOK, WithCut, RequestPlaces
<1>2. q \in CubeRecords /\ q.data \in {"empty", "part", "full"}
  <2>1. cube \in Seq(CubeRecords) /\ c \in 1..Len(cube)
    BY StateTypes DEF Cubes
  <2>2. q \in CubeRecords
    BY <2>1, ElementOfSeq
  <2> QED BY <2>2 DEF CubeRecords
<1>3. d \in {"empty", "part", "full"} /\ d = (IF PreviewAt(t) = "loading" THEN "empty" ELSE q.data)
  BY <1>2 DEF Emptied
<1>4. r \in CubeRecords /\ r.data = d /\ r.stop = FALSE
  <2> HIDE DEF q, d
  <2> QED BY <1>2, <1>3 DEF CubeRecords
<1>5. cube' = [cube EXCEPT ![c] = r]
  OBVIOUS
<1> HIDE DEF r, q, d
<1>6. /\ cube' \in Seq(CubeRecords) /\ Cubes' = Cubes /\ cube'[c] = r
      /\ \A e \in Cubes \ {c} : cube'[e] = cube[e]
  BY <1>4, <1>5, CubeRecordSet, ZenonT(40)
<1>7. OneTask(t) /\ preview_task'[t] = NoPreviewTask
  BY EndFacts
<1>8. /\ TaskOK(t)' /\ PreviewAt(t)' = "idle"
      /\ preview_task'[t].cut = NoPreview /\ preview_task'[t].cube = NoPreview
  BY <1>7, NoTaskOK
<1>9. /\ preview_lock' \in PreviewTasks \cup {NoPreview} /\ skipped' = skipped \cup {a.cut}
      /\ Cuts' = Cuts
  BY StateTypes DEF Release, Skip, Cuts
<1>10. /\ cube_cancels \in [Cubes -> Nat] /\ cube_stops \in [Cubes -> Nat]
       /\ cube_cancels' \in [Cubes -> Nat] /\ cube_cancels'[c] = cube_cancels[c] + 1
       /\ \A e \in Cubes \ {c} : cube_cancels'[e] = cube_cancels[e]
  BY DEF PvPreviewTypeOK
<1>11. PvPreviewTypeOK'
  <2>1. /\ line' \in 1..MaxLineMoves /\ cut' \in Seq(CutRecords)
        /\ cut_of' \in [Previews -> Cuts' \cup {NoPreview}]
        /\ cube_of' \in [Previews -> Cubes' \cup {NoPreview}]
        /\ preview_frame' \in [Previews -> Cubes' \cup {NoPreview}]
        /\ cube_stops' \in [Cubes' -> Nat] /\ skipped' \subseteq Cuts'
    BY <1>1, <1>6, <1>9 DEF PvPreviewTypeOK
  <2> QED BY <1>6, <1>7, <1>8, <1>9, <1>10, <2>1, TypeKept
<1>12. TaskStates'
  <2>1. UpdatesKept
    BY DEF UpdatesKept
  <2> QED BY <1>7, <1>8, <2>1, TasksKept
<1>13. WholeCubes'
  <2>1. \A u \in PreviewTasks \ {t} : preview_task'[u] = preview_task[u]
    BY <1>7 DEF OneTask
  <2>2. ASSUME NEW e \in Cubes', cube'[e].data = "part"
        PROVE  \E u \in PreviewTasks : PreviewAt(u)' = "loading" /\ preview_task'[u].cube = e
    <3>1. e \in Cubes /\ cube[e].data = "part" /\ (e = c => PreviewAt(t) # "loading")
      BY <1>3, <1>4, <1>6, <2>2 DEF q
    <3>2. PICK u \in PreviewTasks : PreviewAt(u) = "loading" /\ preview_task[u].cube = e
      BY <3>1 DEF WholeCubes
    <3>3. u # t
      BY <3>1, <3>2
    <3> QED BY <2>1, <3>2, <3>3 DEF PreviewAt
  <2>3. ASSUME NEW u \in PreviewTasks, PreviewAt(u)' \in {"set", "take", "compute"}
        PROVE  cube'[preview_task'[u].cube].data = "full" \/ preview_task'[u].overlap
    <3>1. /\ u # t /\ preview_task'[u] = preview_task[u] /\ preview_task[u].cube \in Cubes
          /\ PreviewAt(u) \in {"set", "take", "compute"}
      BY <1>8, <2>1, <2>3, StateTypes DEF PreviewAt, TaskStates, TaskOK, WithCube
    <3>2. cube[preview_task[u].cube].data = "full" \/ preview_task[u].overlap
      BY <3>1 DEF WholeCubes
    <3>3. CASE preview_task[u].cube = c
      <4>1. PreviewAt(t) = "loading" => preview_task[u].overlap
        BY <3>1, <3>3 DEF WholeCubes
      <4>2. PreviewAt(t) # "loading" => cube'[c].data = cube[c].data
        BY <1>3, <1>4, <1>6 DEF q
      <4> QED BY <3>1, <3>2, <3>3, <4>1, <4>2
    <3>4. CASE preview_task[u].cube # c
      BY <1>6, <3>1, <3>2, <3>4
    <3> QED BY <3>3, <3>4
  <2>4. ASSUME NEW v \in PreviewTasks, NEW u \in PreviewTasks, v # u, PreviewAt(v)' = "loading",
               preview_task'[u].cube = preview_task'[v].cube
        PROVE  preview_task'[u].overlap
    <3>1. /\ v # t /\ preview_task'[v] = preview_task[v] /\ PreviewAt(v) = "loading"
      BY <1>8, <2>1, <2>4 DEF PreviewAt
    <3>2. u # t
      BY <1>8, <2>4, <3>1 DEF TaskStates, TaskOK, WithCube, PreviewAt
    <3> QED BY <2>1, <2>4, <3>1, <3>2 DEF WholeCubes
  <2> QED BY <2>2, <2>3, <2>4 DEF WholeCubes
<1>14. StopsCounted'
  <2>1. cube_cancels[c] < cube_stops[c] /\ cube_cancels[c] \in Nat /\ cube_stops[c] \in Nat
    BY <1>10 DEF StopsCounted
  <2>2. cube_cancels'[c] <= cube_stops[c]
    BY <1>10, <2>1
  <2> QED BY <1>4, <1>6, <1>10, <2>2 DEF StopsCounted
<1>15. WillCatchUp'
  <2>1. ASSUME NEW x \in Previews, NEW k \in Nat, cut_of'[x] = k, k # NoPreview
        PROVE  cut_of[x] = k /\ QueueKept(t, k)
    <3>1. CASE k = a.cut
      BY <1>9, <2>1, <3>1 DEF QueueKept
    <3>2. CASE k # a.cut
      <4>1. ~WillTake(t, k)
        BY <1>1, <3>2 DEF WillTake
      <4>2. Waiting(k) \subseteq Waiting(k)'
        BY <1>7, <4>1, WaitingOthers
      <4> QED BY <1>9, <2>1, <4>2 DEF QueueKept
    <3> QED BY <3>1, <3>2
  <2> QED BY <1>11, <2>1, CatchUpFrom
<1> QED BY <1>11, <1>12, <1>13, <1>14, <1>15

LEMMA SameRecord ==
    ASSUME NEW r \in PreviewTaskRecords, NEW o \in BOOLEAN, NEW at, o = r.overlap, at = r.at
    PROVE  [r EXCEPT !.overlap = o, !.at = at] = r
BY DEF PreviewTaskRecords

\* What the tasks know of a load that goes on: who has the cube has noted it.
Noted(t, c, where) ==
    LET overlapping == {u \in PreviewTasks : \/ u # t /\ preview_task[u].cube = c
                                             \/ u = t /\ LoadedElsewhere(t, c)}
    IN  preview_task' = [u \in PreviewTasks |->
            [preview_task[u] EXCEPT !.overlap = @ \/ u \in overlapping,
                                    !.at = IF u = t THEN where ELSE @]]

LEMMA NotedFacts ==
    ASSUME PvPreviewTypeOK, NEW t \in PreviewTasks, NEW c, NEW where \in PreviewPlaces,
           Noted(t, c, where)
    PROVE  /\ preview_task' \in [PreviewTasks -> PreviewTaskRecords]
           /\ \A u \in PreviewTasks :
                LET a == preview_task[u]
                    b == preview_task'[u]
                IN  /\ b.at = (IF u = t THEN where ELSE a.at)
                    /\ b.kind = a.kind /\ b.preview = a.preview /\ b.cut_kind = a.cut_kind
                    /\ b.cube_kind = a.cube_kind /\ b.cut = a.cut /\ b.cube = a.cube
                    /\ b.read = a.read /\ b.todo = a.todo
                    /\ a.overlap => b.overlap
                    /\ u # t /\ a.cube = c => b.overlap
                    /\ u = t /\ LoadedElsewhere(t, c) => b.overlap
                    /\ u # t /\ a.cube # c => b = a
<1> DEFINE overlapping == {u \in PreviewTasks : \/ u # t /\ preview_task[u].cube = c
                                                \/ u = t /\ LoadedElsewhere(t, c)}
           o(u) == preview_task[u].overlap \/ u \in overlapping
           at(u) == IF u = t THEN where ELSE preview_task[u].at
           r(u) == [preview_task[u] EXCEPT !.overlap = o(u), !.at = at(u)]
<1>1. preview_task' = [u \in PreviewTasks |-> r(u)]
  BY Zenon DEF Noted
<1>2. ASSUME NEW u \in PreviewTasks
      PROVE  LET a == preview_task[u] IN
             /\ r(u) \in PreviewTaskRecords /\ r(u).at = at(u) /\ r(u).overlap = o(u)
             /\ r(u).kind = a.kind /\ r(u).preview = a.preview /\ r(u).cut_kind = a.cut_kind
             /\ r(u).cube_kind = a.cube_kind /\ r(u).cut = a.cut /\ r(u).cube = a.cube
             /\ r(u).read = a.read /\ r(u).todo = a.todo
             /\ o(u) = a.overlap /\ at(u) = a.at => r(u) = a
  <2> DEFINE a == preview_task[u]
             x == o(u)
             y == at(u)
  <2>1. a \in PreviewTaskRecords /\ x \in BOOLEAN /\ y \in PreviewPlaces
    BY TaskFacts
  <2> HIDE DEF a, x, y
  <2>2. LET b == [a EXCEPT !.overlap = x, !.at = y] IN
           /\ b \in PreviewTaskRecords /\ b.at = y /\ b.overlap = x
           /\ b.kind = a.kind /\ b.preview = a.preview /\ b.cut_kind = a.cut_kind
           /\ b.cube_kind = a.cube_kind /\ b.cut = a.cut /\ b.cube = a.cube
           /\ b.read = a.read /\ b.todo = a.todo
    BY <2>1, ZenonT(40) DEF PreviewTaskRecords, PreviewPlaces
  <2>3. x = a.overlap /\ y = a.at => [a EXCEPT !.overlap = x, !.at = y] = a
    BY <2>1, SameRecord, Zenon
  <2> QED BY <2>2, <2>3 DEF a, x, y
<1>3. ASSUME NEW u \in PreviewTasks
      PROVE  /\ preview_task[u].overlap => o(u)
             /\ u # t /\ preview_task[u].cube = c => o(u)
             /\ u = t /\ LoadedElsewhere(t, c) => o(u)
             /\ u # t /\ preview_task[u].cube # c => o(u) = preview_task[u].overlap
  <2>1. preview_task[u].overlap \in BOOLEAN
    BY TaskFacts DEF PreviewTaskRecords
  <2> QED BY <2>1
<1>4. \A u \in PreviewTasks : u # t => at(u) = preview_task[u].at
  OBVIOUS
<1>5. \A u \in PreviewTasks : at(u) = (IF u = t THEN where ELSE preview_task[u].at)
  OBVIOUS
<1> HIDE DEF r, o, at
<1>6. \A u \in PreviewTasks : preview_task'[u] = r(u)
  BY <1>1
<1>7. preview_task' \in [PreviewTasks -> PreviewTaskRecords]
  BY <1>1, <1>2
<1> QED BY <1>2, <1>3, <1>4, <1>5, <1>6, <1>7

\* A load that goes on: the data is there in part, or whole.
LEMMA LoadGoesOn ==
    ASSUME PreviewIInv, NEW t \in PreviewTasks, PreviewAt(t) \in {"load", "loading"},
           NEW c \in Cubes, c = preview_task[t].cube,
           NEW where \in {"loading", "set"}, NEW d \in {"part", "full"},
           where = "loading" <=> d = "part", Noted(t, c, where),
           cube' = [cube EXCEPT ![c].data = d],
           UNCHANGED <<line, cube_stops, cut_of, cut, cube_of, preview_frame, cube_cancels,
                       skipped, preview_lock>>
    PROVE  PreviewIInv'
<1> USE DEF PreviewIInv
<1> DEFINE a == preview_task[t]
           q == cube[c]
           r == [q EXCEPT !.data = d]
<1>1. /\ a.at \in {"load", "loading"} /\ TaskOK(t) /\ a.kind = "request" /\ a.todo = {}
      /\ a.cut # NoPreview /\ a.cube # NoPreview /\ a.read # 0 /\ a.preview \in Previews
      /\ a.cut_kind \in CutKinds /\ a.cube_kind \in CubeKinds
  BY DEF PreviewAt, TaskStates, TaskOK, WithCut, WithCube, RequestPlaces
<1>2. q \in CubeRecords
  <2>1. cube \in Seq(CubeRecords) /\ c \in 1..Len(cube)
    BY StateTypes DEF Cubes
  <2> QED BY <2>1, ElementOfSeq
<1>3. r \in CubeRecords /\ r.data = d /\ r.stop = q.stop
  <2> HIDE DEF q
  <2> QED BY <1>2 DEF CubeRecords
<1>4. cube' = [cube EXCEPT ![c] = r]
  OBVIOUS
<1> HIDE DEF r, q
<1>5. /\ cube' \in Seq(CubeRecords) /\ Cubes' = Cubes /\ cube'[c] = r
      /\ \A e \in Cubes \ {c} : cube'[e] = cube[e]
  BY <1>3, <1>4, CubeRecordSet, Zenon
<1>6. /\ preview_task' \in [PreviewTasks -> PreviewTaskRecords]
      /\ \A u \in PreviewTasks :
            LET x == preview_task[u]
                y == preview_task'[u]
            IN  /\ y.at = (IF u = t THEN where ELSE x.at)
                /\ y.kind = x.kind /\ y.preview = x.preview /\ y.cut_kind = x.cut_kind
                /\ y.cube_kind = x.cube_kind /\ y.cut = x.cut /\ y.cube = x.cube
                /\ y.read = x.read /\ y.todo = x.todo
                /\ x.overlap => y.overlap
                /\ u # t /\ x.cube = c => y.overlap
                /\ u = t /\ LoadedElsewhere(t, c) => y.overlap
                /\ u # t /\ x.cube # c => y = x
  BY NotedFacts DEF PreviewPlaces
<1>7. Cuts' = Cuts
  BY DEF Cuts
<1>8. PvPreviewTypeOK'
  BY <1>5, <1>6, <1>7 DEF PvPreviewTypeOK
<1>9. TaskStates'
  <2> SUFFICES ASSUME NEW u \in PreviewTasks PROVE TaskOK(u)'
    BY DEF TaskStates
  <2>1. CASE u = t
    BY <1>1, <1>6, <2>1 DEF TaskOK, RequestPlaces, WithCut, WithCube
  <2>2. CASE u # t /\ preview_task[u].at = "idle"
    <3>1. preview_task[u] = NoPreviewTask /\ c # NoPreview
      BY <1>1, <2>2 DEF TaskStates, TaskOK
    <3>2. preview_task'[u] = NoPreviewTask
      BY <1>6, <2>2, <3>1, NoTaskSet
    <3> QED BY <3>2, NoTaskOK
  <2>3. CASE u # t /\ preview_task[u].at # "idle"
    <3>1. TaskOK(u)
      BY DEF TaskStates
    <3>2. LET x == preview_task[u]
              y == preview_task'[u]
          IN  /\ y.at = x.at /\ y.kind = x.kind /\ y.preview = x.preview
              /\ y.cut_kind = x.cut_kind /\ y.cube_kind = x.cube_kind /\ y.cut = x.cut
              /\ y.cube = x.cube /\ y.read = x.read /\ y.todo = x.todo
      BY <1>6, <2>3
    <3> QED BY <2>3, <3>1, <3>2 DEF TaskOK
  <2> QED BY <2>1, <2>2, <2>3
<1>10. WholeCubes'
  <2>1. ASSUME NEW e \in Cubes', cube'[e].data = "part"
        PROVE  \E u \in PreviewTasks : PreviewAt(u)' = "loading" /\ preview_task'[u].cube = e
    <3>1. CASE e = c
      <4>1. where = "loading"
        BY <1>3, <1>5, <2>1, <3>1
      <4> QED BY <1>6, <3>1, <4>1 DEF PreviewAt
    <3>2. CASE e # c
      <4>1. e \in Cubes /\ cube[e].data = "part"
        BY <1>5, <2>1, <3>2
      <4>2. PICK u \in PreviewTasks : PreviewAt(u) = "loading" /\ preview_task[u].cube = e
        BY <4>1 DEF WholeCubes
      <4>3. u # t
        BY <3>2, <4>2
      <4> QED BY <1>6, <4>2, <4>3 DEF PreviewAt
    <3> QED BY <3>1, <3>2
  <2>2. ASSUME NEW u \in PreviewTasks, PreviewAt(u)' \in {"set", "take", "compute"}
        PROVE  cube'[preview_task'[u].cube].data = "full" \/ preview_task'[u].overlap
    <3>1. CASE u = t
      <4>1. d = "full"
        BY <1>6, <2>2, <3>1 DEF PreviewAt
      <4> QED BY <1>3, <1>5, <1>6, <3>1, <4>1
    <3>2. CASE u # t /\ preview_task[u].cube = c
      BY <1>6, <3>2
    <3>3. CASE u # t /\ preview_task[u].cube # c
      <4>1. preview_task'[u] = preview_task[u] /\ PreviewAt(u) \in {"set", "take", "compute"}
        BY <1>6, <2>2, <3>3 DEF PreviewAt
      <4>2. preview_task[u].cube \in Cubes
        BY <4>1, StateTypes DEF TaskStates, TaskOK, WithCube, PreviewAt
      <4>3. cube[preview_task[u].cube].data = "full" \/ preview_task[u].overlap
        BY <4>1 DEF WholeCubes
      <4> QED BY <1>5, <3>3, <4>1, <4>2, <4>3
    <3> QED BY <3>1, <3>2, <3>3
  <2>3. ASSUME NEW v \in PreviewTasks, NEW u \in PreviewTasks, v # u, PreviewAt(v)' = "loading",
               preview_task'[u].cube = preview_task'[v].cube
        PROVE  preview_task'[u].overlap
    <3>1. preview_task[u].cube = preview_task[v].cube
      BY <1>6, <2>3
    <3>2. CASE v = t
      BY <1>6, <2>3, <3>1, <3>2
    <3>3. CASE v # t /\ u = t
      <4>1. PreviewAt(v) = "loading" /\ preview_task[v].cube = c
        BY <1>6, <2>3, <3>1, <3>3 DEF PreviewAt
      <4>2. LoadedElsewhere(t, c)
        BY <3>3, <4>1 DEF LoadedElsewhere, LoadingCube
      <4> QED BY <1>6, <3>3, <4>2
    <3>4. CASE v # t /\ u # t
      <4>1. PreviewAt(v) = "loading"
        BY <1>6, <2>3, <3>4 DEF PreviewAt
      <4>2. preview_task[u].overlap
        BY <2>3, <3>1, <4>1 DEF WholeCubes
      <4> QED BY <1>6, <4>2
    <3> QED BY <3>2, <3>3, <3>4
  <2> QED BY <2>1, <2>2, <2>3 DEF WholeCubes
<1>11. StopsCounted'
  <2>1. \A e \in Cubes : cube'[e].stop = cube[e].stop
    BY <1>3, <1>5 DEF q
  <2> QED BY <1>5, <2>1 DEF StopsCounted
<1>12. WillCatchUp'
  <2>0. \A x \in Previews : cut_of'[x] \in Nat
    BY DEF PvPreviewTypeOK, Cuts, NoPreview
  <2> SUFFICES ASSUME NEW x \in Previews, NEW k \in Nat, cut_of'[x] = k, k # NoPreview
               PROVE  k \in skipped' \/ Len(cut'[k].queue) <= Cardinality(Waiting(k)')
    BY <2>0 DEF WillCatchUp, NoPreview
  <2>1. k \in skipped \/ Len(cut[k].queue) <= Cardinality(Waiting(k))
    BY DEF WillCatchUp
  <2>2. ASSUME NEW u \in PreviewTasks PROVE WillTake(u, k)' <=> WillTake(u, k)
    <3>1. CASE u = t
      <4>1. preview_task'[t].at \in {"loading", "set"} /\ preview_task'[t].kind = "request"
            /\ preview_task'[t].cut = a.cut /\ preview_task'[t].todo = {}
        BY <1>1, <1>6
      <4> QED BY <1>1, <3>1, <4>1 DEF WillTake, WithCut
    <3>2. CASE u # t
      <4>1. LET y == preview_task'[u]
                z == preview_task[u]
            IN  y.at = z.at /\ y.kind = z.kind /\ y.cut = z.cut /\ y.todo = z.todo
        BY <1>6, <3>2
      <4> QED BY <4>1 DEF WillTake
    <3> QED BY <3>1, <3>2
  <2>3. Waiting(k)' = Waiting(k)
    BY <2>2 DEF Waiting
  <2> QED BY <2>1, <2>3
<1> QED BY <1>8, <1>9, <1>10, <1>11, <1>12

LEMMA LoadCubeDataStep ==
    ASSUME PreviewIInv, NEW t \in PreviewTasks, LoadCubeData(t)
    PROVE  PreviewIInv'
<1> DEFINE c == preview_task[t].cube
<1>1. PreviewAt(t) \in {"load", "loading"} /\ c \in Cubes
  BY StateTypes, Zenon DEF PreviewIInv, LoadCubeData, Load, TaskStates, TaskOK, WithCube, PreviewAt
<1>2. UNCHANGED <<line, cube_stops, cut_of, cut, cube_of, preview_frame>>
  BY Zenon DEF LoadCubeData, Load, KeepMain
<1>3. CASE cube[c].stop
  <2>1. /\ cube' = [cube EXCEPT ![c] = [cube[c] EXCEPT !.stop = FALSE, !.data = Emptied(t)]]
        /\ cube_cancels' = [cube_cancels EXCEPT ![c] = @ + 1]
        /\ End(t) /\ Release(t) /\ Skip(t)
    BY <1>3 DEF LoadCubeData, Load
  <2> QED BY <1>1, <1>2, <1>3, <2>1, CancelledLoad, Zenon
<1>4. CASE ~cube[c].stop
  <2>1. UNCHANGED <<cube_cancels, skipped, preview_lock>>
    BY <1>4, ZenonT(40) DEF LoadCubeData, Load
  <2>2. \/ cube' = [cube EXCEPT ![c].data = "part"] /\ Noted(t, c, "loading")
        \/ cube' = [cube EXCEPT ![c].data = "full"] /\ Noted(t, c, "set")
    BY <1>4, Zenon DEF LoadCubeData, Load, Noted
  <2> HIDE DEF c
  <2> QED BY <1>1, <1>2, <2>1, <2>2, LoadGoesOn, SMTT(30) DEF c
<1> QED BY <1>3, <1>4, SMTT(30)

-----------------------------------------------------------------------------
LEMMA PreviewTaskStep ==
    ASSUME PreviewIInv, NEW t \in PreviewTasks, PreviewStep(t)
    PROVE  PreviewIInv'
<1>1. CASE ReadCutState(t)
  BY <1>1, ReadCutStateStep
<1>2. CASE SetPreviewCut(t)
  BY <1>2, SetPreviewCutStep
<1>3. CASE FindFrame(t)
  BY <1>3, FindFrameStep
<1>4. CASE SetPreviewCube(t)
  BY <1>4, SetPreviewCubeStep
<1>5. CASE GetPreviewImage(t)
  BY <1>5, GetPreviewImageStep
<1>6. CASE MakePreviewImage(t)
  BY <1>6, MakePreviewImageStep
<1>7. CASE LoadCubeData(t)
  BY <1>7, LoadCubeDataStep
<1>8. CASE SetPreviewFrame(t)
  BY <1>8, SetPreviewFrameStep
<1>9. CASE UpdatePvPreviewImage(t)
  BY <1>9, UpdatePvPreviewImageStep
<1>10. CASE UpdateNext(t)
  BY <1>10, UpdateNextStep
<1>11. CASE GetNextRegion(t)
  BY <1>11, GetNextRegionStep
<1>12. CASE ComputePreview(t)
  BY <1>12, ComputePreviewStep
<1> QED BY <1>1, <1>2, <1>3, <1>4, <1>5, <1>6, <1>7, <1>8, <1>9, <1>10, <1>11, <1>12 DEF PreviewStep

LEMMA PreviewBegins ==
    ASSUME PvPreviewInit
    PROVE  PreviewIInv
<1>1. cut = <<>> /\ cube = <<>> /\ Cuts = {} /\ Cubes = {} /\ cube_stops = <<>> /\ cube_cancels = <<>>
  BY EmptySeq DEF PvPreviewInit, Cuts, Cubes
<1>2. \A t \in PreviewTasks : preview_task[t] = NoPreviewTask
  BY DEF PvPreviewInit
<1>3. preview_task \in [PreviewTasks -> PreviewTaskRecords]
  BY NoTaskSet DEF PvPreviewInit
<1>4. /\ cut \in Seq(CutRecords) /\ cube \in Seq(CubeRecords)
      /\ cube_stops \in [Cubes -> Nat] /\ cube_cancels \in [Cubes -> Nat]
  BY <1>1, EmptySeq
<1>5. PvPreviewTypeOK
  BY <1>1, <1>2, <1>3, <1>4, PreviewsAssumption, NoTaskSet DEF PvPreviewTypeOK, PvPreviewInit
<1>6. TaskStates
  BY <1>2, NoTaskSet DEF TaskStates, TaskOK, RequestPlaces, WithCut, WithCube
<1>7. WholeCubes
  BY <1>1, <1>2, NoTaskSet DEF WholeCubes, PreviewAt
<1>8. StopsCounted /\ WillCatchUp
  BY <1>1 DEF StopsCounted, WillCatchUp, PvPreviewInit
<1> QED BY <1>5, <1>6, <1>7, <1>8 DEF PreviewIInv

\* The invariant of the previews is inductive.
THEOREM PreviewInductive == PvPreviewSpec => []PreviewIInv
<1>1. PvPreviewInit => PreviewIInv
  BY PreviewBegins
<1>2. PreviewIInv /\ [PvPreviewNext]_previewVars => PreviewIInv'
  <2> SUFFICES ASSUME PreviewIInv, [PvPreviewNext]_previewVars
               PROVE  PreviewIInv'
    OBVIOUS
  <2>1. ASSUME NEW p \in Previews, StopPvPreview(p) PROVE PreviewIInv'
    BY <2>1, StopPvPreviewStep
  <2>2. ASSUME NEW p \in Previews, ClosePvPreview(p) PROVE PreviewIInv'
    BY <2>2, ClosePvPreviewStep
  <2>3. ASSUME NEW t \in PreviewTasks, MovePreviewLine(t) PROVE PreviewIInv'
    BY <2>3, MovePreviewLineStep
  <2>4. ASSUME NEW t \in PreviewTasks, PreviewStep(t) PROVE PreviewIInv'
    BY <2>4, PreviewTaskStep
  <2>5. ASSUME NEW t \in PreviewTasks, NEW p \in Previews, NEW k \in CutKinds, NEW c \in CubeKinds,
               RequestPreview(t, p, k, c)
        PROVE  PreviewIInv'
    BY <2>5, RequestPreviewStep
  <2>6. CASE UNCHANGED previewVars
    <3>1. PvPreviewTypeOK'
      BY <2>6 DEF previewVars, PreviewIInv, PvPreviewTypeOK, Cuts, Cubes
    <3>2. TaskStates'
      BY <2>6 DEF previewVars, PreviewIInv, TaskStates, TaskOK
    <3>3. WholeCubes' /\ StopsCounted'
      BY <2>6 DEF previewVars, PreviewIInv, WholeCubes, StopsCounted, PreviewAt, Cubes
    <3>4. WillCatchUp'
      <4>1. \A k : Waiting(k)' = Waiting(k)
        BY <2>6 DEF previewVars, Waiting, WillTake
      <4> QED BY <2>6, <4>1 DEF previewVars, PreviewIInv, WillCatchUp
    <3> QED BY <3>1, <3>2, <3>3, <3>4 DEF PreviewIInv
  <2> QED BY <2>1, <2>2, <2>3, <2>4, <2>5, <2>6 DEF PvPreviewNext
<1> QED BY <1>1, <1>2, PTL DEF PvPreviewSpec

\* The state of the previews always has its type.
THEOREM PreviewTypeCorrect == PvPreviewSpec => []PvPreviewTypeOK
<1>1. PreviewIInv => PvPreviewTypeOK
  BY DEF PreviewIInv
<1> QED BY <1>1, PreviewInductive, PTL

\* A stop cancels one load at most, however stops, loads and requests interleave.
THEOREM StopsCancelOnce == PvPreviewSpec => []StopCancelsOnce
<1>1. PreviewIInv => StopCancelsOnce
  BY DEF PreviewIInv, StopsCounted, StopCancelsOnce
<1> QED BY <1>1, PreviewInductive, PTL

\* At rest the previews have caught up with the line.
THEOREM PreviewsCatchUp == PvPreviewSpec => []PreviewCaughtUp
<1>1. PreviewIInv => PreviewCaughtUp
  <2> SUFFICES ASSUME PreviewIInv, \A t \in PreviewTasks : IdlePreviewTask(t),
                      NEW p \in Previews, cut_of[p] # NoPreview, cut_of[p] \notin skipped
               PROVE  cut[cut_of[p]].queue = <<>>
    BY DEF PreviewCaughtUp
  <2> DEFINE k == cut_of[p]
             q == cut[k].queue
  <2>1. k \in Cuts /\ k \in Nat
    BY DEF PreviewIInv, PvPreviewTypeOK, Cuts
  <2>2. Waiting(k) = {}
    BY <2>1, IdleTaskFacts DEF PreviewIInv, Waiting
  <2>3. Len(q) <= Cardinality(Waiting(k)) /\ Cardinality(Waiting(k)) = 0
    BY <2>2, FS_EmptySet DEF PreviewIInv, WillCatchUp
  <2>4. q \in Seq(1..MaxLineMoves) /\ Len(q) \in Nat
    BY <2>1, QueueFacts DEF PreviewIInv
  <2> HIDE DEF q
  <2>5. q = <<>>
    BY <2>3, <2>4, EmptySeq
  <2> QED BY <2>5 DEF q
<1> QED BY <1>1, PreviewInductive, PTL

\* What is sent is cut from a whole cube, unless the cube was being loaded.
LEMMA SentKept ==
    ASSUME PreviewIInv, PreviewFromWholeCube, [PvPreviewNext]_previewVars
    PROVE  PreviewFromWholeCube'
<1>1. CASE UNCHANGED preview_sent
  BY <1>1 DEF PreviewFromWholeCube
<1>2. CASE \E t \in PreviewTasks : ComputePreview(t)
  <2>1. PICK t \in PreviewTasks : ComputePreview(t)
    BY <1>2
  <2> DEFINE r == preview_task[t]
             loading == r.overlap \/ LoadedElsewhere(t, r.cube)
  <2>2. cube[r.cube].data = "full" \/ r.overlap
    BY <2>1 DEF PreviewIInv, WholeCubes, ComputePreview
  <2>3. \/ UNCHANGED preview_sent
        \/ preview_sent' = preview_sent \cup {[data |-> cube[r.cube].data, late |-> loading]}
    BY <2>1 DEF ComputePreview
  <2>4. ASSUME NEW x \in preview_sent' PROVE x.data = "full" \/ x.late
    <3> DEFINE d == cube[r.cube].data
               e == [data |-> d, late |-> loading]
    <3>1. CASE x \in preview_sent
      BY <3>1 DEF PreviewFromWholeCube
    <3>2. CASE x = e
      <4>1. d = "full" \/ loading
        BY <2>2
      <4> HIDE DEF loading, d
      <4>2. x.data = d /\ x.late = loading
        BY <3>2, ZenonT(40)
      <4> QED BY <4>1, <4>2, Zenon
    <3> QED BY <2>3, <2>4, <3>1, <3>2
  <2> QED BY <2>4 DEF PreviewFromWholeCube
<1>3. (\E t \in PreviewTasks : ComputePreview(t)) \/ UNCHANGED preview_sent
  BY ZenonT(40) DEF PvPreviewNext, previewVars, StopPvPreview, ClosePvPreview, MovePreviewLine, RequestPreview,
     PreviewStep, ReadCutState, SetPreviewCut, FindFrame, SetPreviewCube, GetPreviewImage,
     MakePreviewImage, LoadCubeData, Load, SetPreviewFrame, UpdatePvPreviewImage, UpdateNext,
     GetNextRegion, KeepMain
<1> QED BY <1>1, <1>2, <1>3

\* PV previews are cut from whole cubes, stopped once and caught up with the line.
THEOREM PreviewsAreWhole == PvPreviewSpec => []PvPreviewCorrect
<1>1. PvPreviewInit => PreviewFromWholeCube
  BY DEF PvPreviewInit, PreviewFromWholeCube
<1>2. PreviewIInv /\ PreviewFromWholeCube /\ [PvPreviewNext]_previewVars => PreviewFromWholeCube'
  BY SentKept
<1>3. PvPreviewSpec => []PreviewFromWholeCube
  BY <1>1, <1>2, PreviewInductive, PTL DEF PvPreviewSpec
<1>4. PreviewFromWholeCube /\ StopCancelsOnce /\ PreviewCaughtUp => PvPreviewCorrect
  BY DEF PvPreviewCorrect
<1> QED BY <1>3, <1>4, StopsCancelOnce, PreviewsCatchUp, PTL

-----------------------------------------------------------------------------
(***************************************************************************)
(* Of a file it watches, a task gets a loader that reads the file as it    *)
(* was when the task asked for it, or later, unless another task was       *)
(* making a loader of the file then, or the file is no image: for any      *)
(* number of files, tasks and changes, and any capacity.                   *)
(*                                                                         *)
(* What a task finds in the map when it comes back may be of another       *)
(* task's making.  The invariant says of which: of one that began later    *)
(* (Overtaken), hence of a file that is no older.                          *)
(***************************************************************************)

LoaderRequest == [at : {"idle", "load", "insert", "got"}, file : LoaderFiles \cup {NoLoader},
            since : Nat, read : Int, result : Int, raced : BOOLEAN]

\* The types of what the proof is about; the queue is not part of it.
LoaderTypes ==
    /\ version \in [LoaderFiles -> Nat]
    /\ loader_map \in [LoaderFiles -> Int]
    /\ getting \in [LoaderTasks -> LoaderRequest]

BeingLoaded(t) == getting[t].at \in {"load", "insert"}

\* A request names a file that has not become older since.
LoaderNamed == \A t \in LoaderTasks : getting[t].at # "idle" =>
            getting[t].file \in LoaderFiles /\ getting[t].since <= version[getting[t].file]

\* A loader that was made is of the file as it was when asked for, or newer.
LoaderMade == \A t \in LoaderTasks : getting[t].at = "insert" =>
            getting[t].read = NullLoader \/ getting[t].read >= getting[t].since

\* A task that makes a loader beside another one began after it.
Overtaken ==
    \A t, u \in LoaderTasks :
        t # u /\ BeingLoaded(t) /\ BeingLoaded(u) /\ getting[t].file = getting[u].file /\ ~getting[t].raced =>
            getting[u].since >= getting[t].since

\* What is in the map by now is not older than what the task asked for.
MapFresh ==
    \A t \in LoaderTasks :
        BeingLoaded(t) /\ ~getting[t].raced /\ getting[t].file \in Watched =>
            \/ loader_map[getting[t].file] \in {NoLoader, NullLoader}
            \/ loader_map[getting[t].file] >= getting[t].since

LoaderIInv == LoaderTypes /\ LoaderNamed /\ LoaderMade /\ Overtaken /\ MapFresh /\ LoaderFresh

-----------------------------------------------------------------------------
LEMMA LoaderInitStep == LoaderCacheInit => LoaderIInv
  BY DEF LoaderCacheInit, LoaderIInv, LoaderTypes, LoaderRequest, LoaderNamed, LoaderMade, Overtaken, MapFresh, LoaderFresh,
         BeingLoaded, NotGetting, NoLoader, NullLoader

LEMMA ChangeFileStep ==
  ASSUME NEW f \in LoaderFiles, LoaderIInv, ChangeFile(f)
  PROVE  LoaderIInv'
<1> USE DEF LoaderIInv, LoaderTypes, LoaderRequest, ChangeFile
<1>1. LoaderTypes'
  OBVIOUS
<1>2. \A g \in LoaderFiles : version'[g] >= version[g]
  OBVIOUS
<1>3. LoaderNamed'
  BY <1>1, <1>2 DEF LoaderNamed
<1>4. (LoaderMade /\ Overtaken /\ MapFresh /\ LoaderFresh)'
  BY DEF LoaderMade, Overtaken, MapFresh, LoaderFresh, BeingLoaded
<1> QED
  BY <1>1, <1>3, <1>4

\* A loader whose image is closed reads the file as it is now.
LEMMA CloseImageStep ==
  ASSUME NEW f \in LoaderFiles, LoaderIInv, CloseImageIfUpdated(f)
  PROVE  LoaderIInv'
<1> USE DEF LoaderIInv, LoaderTypes, LoaderRequest
<1>1. /\ loader_map' = [loader_map EXCEPT ![f] = version[f]]
      /\ UNCHANGED <<version, getting>>
  BY DEF CloseImageIfUpdated
<1>2. LoaderTypes'
  BY <1>1
<1>3. (LoaderNamed /\ LoaderMade /\ Overtaken /\ LoaderFresh)'
  BY <1>1 DEF LoaderNamed, LoaderMade, Overtaken, LoaderFresh, BeingLoaded
<1>4. MapFresh'
  <2> SUFFICES ASSUME NEW t \in LoaderTasks, BeingLoaded(t), ~getting[t].raced,
                      getting[t].file \in Watched
               PROVE  \/ loader_map'[getting[t].file] \in {NoLoader, NullLoader}
                      \/ loader_map'[getting[t].file] >= getting[t].since
    BY <1>1 DEF MapFresh, BeingLoaded
  <2>1. getting[t].file \in LoaderFiles /\ getting[t].since <= version[getting[t].file]
    BY DEF LoaderNamed, BeingLoaded
  <2>2. CASE getting[t].file = f
    BY <1>1, <2>1, <2>2
  <2>3. CASE getting[t].file # f
    BY <1>1, <2>1, <2>3 DEF MapFresh
  <2> QED
    BY <2>2, <2>3
<1> QED
  BY <1>2, <1>3, <1>4

\* Get answers from the map, or starts to make a loader.
LEMMA GetStep ==
  ASSUME NEW t \in LoaderTasks, NEW f \in LoaderFiles, LoaderIInv, Get(t, f)
  PROVE  LoaderIInv'
<1> USE DEF LoaderIInv, LoaderTypes, LoaderRequest
<1>1. CASE f \in Cached /\ ~Outdated(f)
  <2>1. /\ getting' = [getting EXCEPT ![t] = [at |-> "got", file |-> f, since |-> version[f], read |-> 0,
                                              result |-> loader_map[f], raced |-> FALSE]]
        /\ UNCHANGED <<version, loader_map>>
    BY <1>1 DEF Get, Got, NotGetting
  <2>2. LoaderTypes'
    BY <2>1
  <2>3. (LoaderNamed /\ LoaderMade)'
    BY <2>1 DEF LoaderNamed, LoaderMade
  <2>4. (Overtaken /\ MapFresh)'
    BY <2>1 DEF Overtaken, MapFresh, BeingLoaded
  <2>5. LoaderFresh'
    <3>1. f \in Watched /\ loader_map[f] # NullLoader => loader_map[f] = version[f]
      BY <1>1 DEF Outdated, Cached
    <3> QED BY <2>1, <3>1 DEF LoaderFresh
  <2> QED
    BY <2>2, <2>3, <2>4, <2>5
<1>2. CASE ~(f \in Cached /\ ~Outdated(f))
  <2>1. /\ getting' = [getting EXCEPT ![t] = [at |-> "load", file |-> f, since |-> version[f], read |-> 0,
                                              result |-> NoLoader, raced |-> LoadingTasks(f, t)]]
        /\ loader_map' = [loader_map EXCEPT ![f] = NoLoader]
        /\ UNCHANGED version
    BY <1>2 DEF Get, EraseLoader, NotGetting
  <2>2. LoadingTasks(f, t) \in BOOLEAN
    BY DEF LoadingTasks
  <2>3. LoaderTypes'
    BY <2>1, <2>2 DEF NoLoader
  <2>4. (LoaderNamed /\ LoaderMade)'
    BY <2>1 DEF LoaderNamed, LoaderMade
  <2>5. Overtaken'
    <3> SUFFICES ASSUME NEW u \in LoaderTasks, NEW w \in LoaderTasks, u # w,
                        BeingLoaded(u)', BeingLoaded(w)', getting'[u].file = getting'[w].file, ~getting'[u].raced
                 PROVE  getting'[w].since >= getting'[u].since
      BY DEF Overtaken
    <3>1. CASE u = t
      BY <3>1, <2>1 DEF BeingLoaded, LoadingTasks
    <3>2. CASE w = t
      BY <3>2, <2>1 DEF BeingLoaded, LoaderNamed
    <3>3. CASE u # t /\ w # t
      BY <3>3, <2>1 DEF BeingLoaded, Overtaken
    <3> QED
      BY <3>1, <3>2, <3>3
  <2>6. MapFresh'
    BY <2>1, <2>3 DEF MapFresh, BeingLoaded, NoLoader, LoaderNamed
  <2>7. LoaderFresh'
    BY <2>1 DEF LoaderFresh
  <2> QED
    BY <2>3, <2>4, <2>5, <2>6, <2>7
<1> QED
  BY <1>1, <1>2

LEMMA GetLoaderStep ==
  ASSUME NEW t \in LoaderTasks, LoaderIInv, GetLoader(t)
  PROVE  LoaderIInv'
<1> DEFINE made == {version[getting[t].file]}
                       \cup (IF getting[t].file \in Watched THEN {NullLoader} ELSE {})
<1>a. /\ getting[t].at = "load" /\ UNCHANGED <<version, loader_map, loader_queue>>
      /\ \E loader \in made : getting' = [getting EXCEPT ![t].at = "insert", ![t].read = loader]
  BY DEF GetLoader
<1>b. made \subseteq {version[getting[t].file], NullLoader}
  OBVIOUS
<1> HIDE DEF made
<1>c. PICK loader \in made : getting' = [getting EXCEPT ![t].at = "insert", ![t].read = loader]
  BY <1>a
<1> USE <1>a DEF LoaderIInv, LoaderTypes, LoaderRequest
<1>1. getting[t].file \in LoaderFiles /\ version[getting[t].file] \in Nat
  BY DEF LoaderNamed
<1>2. /\ loader \in {version[getting[t].file], NullLoader}
      /\ getting' = [getting EXCEPT ![t] = [getting[t] EXCEPT !.at = "insert", !.read = loader]]
  <2>1. getting \in [LoaderTasks -> LoaderRequest]
    OBVIOUS
  <2> HIDE <1>a DEF LoaderIInv, LoaderTypes
  <2>2. loader \in {version[getting[t].file], NullLoader}
    BY <1>b, <1>c
  <2>3. getting' = [getting EXCEPT ![t] = [getting[t] EXCEPT !.at = "insert", !.read = loader]]
    BY <1>c, <2>1
  <2> QED BY <2>2, <2>3
<1>3. getting[t].since <= version[getting[t].file] /\ loader \in Int
  BY <1>1, <1>2 DEF LoaderNamed, NullLoader
<1>4. LoaderTypes'
  <2>1. getting \in [LoaderTasks -> LoaderRequest]
    OBVIOUS
  <2>2. [getting[t] EXCEPT !.at = "insert", !.read = loader] \in LoaderRequest
    BY <1>3, <2>1
  <2>3. getting' \in [LoaderTasks -> LoaderRequest]
    BY <1>2, <2>1, <2>2
  <2> QED BY <2>3
<1>5. (LoaderNamed /\ LoaderMade)'
  BY <1>1, <1>2, <1>3 DEF LoaderNamed, LoaderMade
<1>6. (Overtaken /\ MapFresh /\ LoaderFresh)'
  BY <1>2 DEF Overtaken, MapFresh, LoaderFresh, BeingLoaded
<1> QED
  BY <1>4, <1>5, <1>6

\* A task inserts its loader, or takes what another one inserted.
LEMMA InsertStep ==
  ASSUME NEW t \in LoaderTasks, LoaderIInv, Insert(t)
  PROVE  LoaderIInv'
<1> DEFINE f == getting[t].file
<1> USE DEF LoaderIInv, LoaderTypes, LoaderRequest
<1>1. getting[t].at = "insert" /\ f \in LoaderFiles /\ UNCHANGED version
  BY DEF Insert, LoaderNamed
<1>2. /\ loader_map' \in [LoaderFiles -> Int]
      /\ \A g \in LoaderFiles \ {f} : loader_map'[g] \in {NoLoader, loader_map[g]}
      /\ loader_map'[f] = IF f \in Cached THEN loader_map[f] ELSE getting[t].read
  <2>1. CASE f \in Cached
    BY <2>1, <1>1 DEF Insert
  <2>2. CASE f \notin Cached
    <3> DEFINE full == Cardinality(Cached) = Capacity
               last == loader_queue[Len(loader_queue)]
    <3>1. loader_map' = [g \in LoaderFiles |-> IF g = f THEN getting[t].read
                            ELSE IF full /\ g = last THEN NoLoader ELSE loader_map[g]]
      BY <2>2 DEF Insert
    <3> HIDE DEF full, last
    <3> QED
      BY <3>1, <2>2, <1>1 DEF NoLoader
  <2> QED
    BY <2>1, <2>2
<1>3. getting' = [getting EXCEPT ![t] = [getting[t] EXCEPT !.at = "got", !.result = loader_map'[f]]]
  BY DEF Insert
<1>4. LoaderTypes'
  BY <1>1, <1>2, <1>3, ZenonT(60)
<1>5. (LoaderNamed /\ LoaderMade)'
  BY <1>1, <1>3 DEF LoaderNamed, LoaderMade
<1>6. Overtaken'
  BY <1>3 DEF Overtaken, BeingLoaded
<1>7. MapFresh'
  <2> SUFFICES ASSUME NEW u \in LoaderTasks, BeingLoaded(u)', ~getting'[u].raced,
                      getting'[u].file \in Watched
               PROVE  \/ loader_map'[getting'[u].file] \in {NoLoader, NullLoader}
                      \/ loader_map'[getting'[u].file] >= getting'[u].since
    BY DEF MapFresh
  <2>1. u # t /\ getting'[u] = getting[u] /\ BeingLoaded(u)
    BY <1>3 DEF BeingLoaded
  <2>2. getting[u].file \in LoaderFiles
    BY <2>1 DEF LoaderNamed, BeingLoaded
  <2>3. CASE getting[u].file # f
    BY <2>1, <2>2, <2>3, <1>2 DEF MapFresh
  <2>4. CASE getting[u].file = f /\ f \in Cached
    BY <2>1, <2>4, <1>2 DEF MapFresh
  <2>5. CASE getting[u].file = f /\ f \notin Cached
    <3>1. /\ getting[t].read = NullLoader \/ getting[t].read >= getting[t].since
          /\ getting[t].since >= getting[u].since
      BY <2>1, <2>5, <1>1 DEF LoaderMade, Overtaken, BeingLoaded
    <3> QED
      BY <3>1, <2>1, <2>5, <1>2
  <2> QED
    BY <2>3, <2>4, <2>5
<1>8. LoaderFresh'
  <2> SUFFICES ASSUME NEW u \in LoaderTasks, getting'[u].at = "got",
                      getting'[u].file \in Watched, getting'[u].result # NullLoader
               PROVE  getting'[u].result >= getting'[u].since \/ getting'[u].raced
    BY DEF LoaderFresh
  <2>1. CASE u # t
    BY <2>1, <1>3 DEF LoaderFresh
  <2>2. CASE u = t /\ f \in Cached
    <3>1. loader_map[f] # NoLoader /\ loader_map[f] # NullLoader /\ f \in Watched
      BY <1>1, <1>2, <1>3, <2>2 DEF Cached
    <3>2. getting[t].raced \/ loader_map[f] >= getting[t].since
      BY <3>1, <1>1 DEF MapFresh, BeingLoaded
    <3> QED
      BY <3>2, <2>2, <1>2, <1>3
  <2>3. CASE u = t /\ f \notin Cached
    BY <2>3, <1>1, <1>2, <1>3 DEF LoaderMade
  <2> QED
    BY <2>1, <2>2, <2>3
<1> QED
  BY <1>4, <1>5, <1>6, <1>7, <1>8

LEMMA RemoveLoaderStep ==
  ASSUME NEW t \in LoaderTasks, LoaderIInv, RemoveLoader(t)
  PROVE  LoaderIInv'
<1> USE DEF LoaderIInv, LoaderTypes, LoaderRequest
<1>1. /\ getting' = [getting EXCEPT ![t] = [at |-> "idle", file |-> NoLoader, since |-> 0, read |-> 0,
                                            result |-> NoLoader, raced |-> FALSE]]
      /\ loader_map' = [loader_map EXCEPT ![getting[t].file] = NoLoader]
      /\ UNCHANGED version
  BY DEF RemoveLoader, EraseLoader, NotGetting
<1>2. LoaderTypes'
  <2>1. loader_map' \in [LoaderFiles -> Int]
    <3>1. NoLoader \in Int
      BY DEF NoLoader
    <3> HIDE DEF LoaderRequest
    <3> QED BY <1>1, <3>1
  <2>2. getting' \in [LoaderTasks -> LoaderRequest]
    BY <1>1 DEF NoLoader
  <2> QED BY <1>1, <2>1, <2>2
<1>3. (LoaderNamed /\ LoaderMade)'
  BY <1>1 DEF LoaderNamed, LoaderMade
<1>4. (Overtaken /\ LoaderFresh)'
  BY <1>1 DEF Overtaken, LoaderFresh, BeingLoaded
<1>5. MapFresh'
  BY <1>1 DEF MapFresh, BeingLoaded, LoaderNamed, NoLoader
<1> QED
  BY <1>2, <1>3, <1>4, <1>5

-----------------------------------------------------------------------------
\* The conjunction holds in every state of LoaderCache::Get and Remove with
\* their callers.
THEOREM LoaderInductive == LoaderCacheSpec => []LoaderIInv
<1>1. LoaderIInv /\ [LoaderCacheNext]_loaderVars => LoaderIInv'
  <2> SUFFICES ASSUME LoaderIInv, [LoaderCacheNext]_loaderVars
               PROVE  LoaderIInv'
    OBVIOUS
  <2>1. CASE UNCHANGED loaderVars
    BY <2>1 DEF loaderVars, LoaderIInv, LoaderTypes, LoaderNamed, LoaderMade, Overtaken, MapFresh, LoaderFresh, BeingLoaded
  <2>2. CASE LoaderCacheNext
    BY <2>2, ChangeFileStep, CloseImageStep, GetStep, GetLoaderStep, InsertStep, RemoveLoaderStep DEF LoaderCacheNext
  <2> QED
    BY <2>1, <2>2
<1> QED
  BY <1>1, LoaderInitStep, PTL DEF LoaderCacheSpec

\* Of a file that is neither compressed nor generated, LoaderCache::Get returns
\* a loader that reads it as it is when Get is called or later, unless another
\* task was making a loader of it at that time or the file is no image, whatever
\* Frames close the images of the loaders they hold.
THEOREM LoadersAreFresh == LoaderCacheSpec => []LoaderFresh
  BY LoaderInductive, PTL DEF LoaderIInv

-----------------------------------------------------------------------------
(* The queue. *)

\* A queue has each file once, so it is as long as it has files.
QueuedFiles(q) == {q[i] : i \in 1..Len(q)}
EachOnce(q) == \A i, j \in 1..Len(q) : q[i] = q[j] => i = j
LoaderQueues == {q \in Seq(LoaderFiles) : EachOnce(q)}
QueueIs(q, held) == q \in LoaderQueues /\ QueuedFiles(q) = held

LEMMA QueueLength ==
    ASSUME NEW q \in LoaderQueues
    PROVE  IsFiniteSet(QueuedFiles(q)) /\ Cardinality(QueuedFiles(q)) = Len(q)
<1> DEFINE n == Len(q)
           S == 1..n
           T == QueuedFiles(q)
<1>1. n \in Nat /\ q \in [1..n -> LoaderFiles] /\ EachOnce(q)
  BY DEF LoaderQueues
<1>2. q \in [S -> T]
  BY <1>1 DEF QueuedFiles
<1>3. q \in Bijection(S, T)
  <2>1. IsInjective(q)
    BY <1>1 DEF IsInjective, EachOnce
  <2>2. \A t \in T : \E i \in S : q[i] = t
    BY DEF QueuedFiles
  <2> QED BY <1>2, <2>1, <2>2 DEF Bijection, Injection, Surjection
<1>4. ExistsBijection(S, T)
  BY <1>3 DEF ExistsBijection
<1>5. Cardinality(T) = n
  BY <1>1, <1>4, FS_CountingElements
<1>6. IsFiniteSet(T)
  <2>1. IsFiniteSet(S)
    BY <1>1, FS_Interval
  <2> QED BY <1>4, <2>1, FS_Bijection
<1> QED BY <1>5, <1>6

\* What list::remove leaves of the first i places.
LeftOf(f, i) == {loader_queue[j] : j \in {k \in 1..i : loader_queue[k] # f}}
RightRest(f, r, i) == QueueIs(r, LeftOf(f, i))

LEMMA QueueFirst ==
    ASSUME NEW q \in LoaderQueues, NEW f \in LoaderFiles, f \notin QueuedFiles(q)
    PROVE  QueueIs(<<f>> \o q, {f} \cup QueuedFiles(q)) /\ Len(<<f>> \o q) = Len(q) + 1
<1> DEFINE r == <<f>> \o q
<1>1. q \in Seq(LoaderFiles) /\ Len(q) \in Nat /\ EachOnce(q)
  BY DEF LoaderQueues
<1>2. r \in Seq(LoaderFiles) /\ Len(r) = Len(q) + 1 /\ r[1] = f
  BY <1>1
<1>3. \A i \in 2..Len(r) : r[i] = q[i - 1] /\ i - 1 \in 1..Len(q)
  BY <1>1, <1>2
<1>4. \A i \in 1..Len(q) : r[i + 1] = q[i] /\ i + 1 \in 2..Len(r)
  BY <1>1, <1>2
<1> HIDE DEF r
<1>5. \A i \in 1..Len(r) : i = 1 \/ i \in 2..Len(r)
  BY <1>1, <1>2
<1>6. QueuedFiles(r) = {f} \cup QueuedFiles(q)
  <2>1. 1 \in 1..Len(r) /\ \A i \in 2..Len(r) : i \in 1..Len(r)
    BY <1>1, <1>2
  <2>2. ASSUME NEW i \in 1..Len(r)
        PROVE  r[i] \in {f} \cup QueuedFiles(q)
    <3>1. CASE i = 1
      BY <1>2, <3>1
    <3>2. CASE i \in 2..Len(r)
      <4>1. r[i] = q[i - 1] /\ i - 1 \in 1..Len(q)
        BY <1>3, <3>2
      <4> QED BY <4>1 DEF QueuedFiles
    <3> QED BY <1>5, <3>1, <3>2
  <2>3. ASSUME NEW i \in 1..Len(q)
        PROVE  q[i] \in QueuedFiles(r)
    <3>1. r[i + 1] = q[i] /\ i + 1 \in 1..Len(r)
      BY <1>4, <2>1
    <3> QED BY <3>1 DEF QueuedFiles
  <2>4. f \in QueuedFiles(r)
    BY <1>2, <2>1 DEF QueuedFiles
  <2>5. QueuedFiles(r) \subseteq {f} \cup QueuedFiles(q)
    BY <2>2 DEF QueuedFiles
  <2>6. QueuedFiles(q) \subseteq QueuedFiles(r)
    BY <2>3 DEF QueuedFiles
  <2> QED BY <2>4, <2>5, <2>6
<1>7. EachOnce(r)
  <2>1. SUFFICES ASSUME NEW i \in 1..Len(r), NEW j \in 1..Len(r), r[i] = r[j] PROVE i = j
    BY DEF EachOnce
  <2>2. CASE i = 1 /\ j = 1
    BY <2>2
  <2>3. CASE i # 1 /\ j # 1
    <3>1. i - 1 \in 1..Len(q) /\ j - 1 \in 1..Len(q) /\ q[i - 1] = q[j - 1]
      BY <1>3, <1>5, <2>1, <2>3
    <3>2. i - 1 = j - 1
      BY <1>1, <3>1 DEF EachOnce
    <3> QED BY <1>1, <1>2, <3>2
  <2>4. CASE i = 1 /\ j # 1
    BY <1>2, <1>3, <1>5, <2>1, <2>4 DEF QueuedFiles
  <2>5. CASE i # 1 /\ j = 1
    BY <1>2, <1>3, <1>5, <2>1, <2>5 DEF QueuedFiles
  <2> QED BY <2>2, <2>3, <2>4, <2>5
<1> QED BY <1>2, <1>6, <1>7 DEF LoaderQueues, QueueIs, r

LEMMA QueueLast ==
    ASSUME NEW q \in LoaderQueues, NEW f \in LoaderFiles, f \notin QueuedFiles(q)
    PROVE  QueueIs(Append(q, f), QueuedFiles(q) \cup {f})
<1> DEFINE r == Append(q, f)
<1>1. q \in Seq(LoaderFiles) /\ Len(q) \in Nat /\ EachOnce(q)
  BY DEF LoaderQueues
<1>2. r \in Seq(LoaderFiles) /\ Len(r) = Len(q) + 1 /\ r[Len(q) + 1] = f
  BY <1>1
<1>3. \A i \in 1..Len(q) : r[i] = q[i] /\ i \in 1..Len(r)
  BY <1>1, <1>2
<1> HIDE DEF r
<1>4. \A i \in 1..Len(r) : i = Len(q) + 1 \/ i \in 1..Len(q)
  BY <1>1, <1>2
<1>5. QueuedFiles(r) = QueuedFiles(q) \cup {f}
  <2>1. Len(q) + 1 \in 1..Len(r)
    BY <1>1, <1>2
  <2> QED BY <1>2, <1>3, <1>4, <2>1 DEF QueuedFiles
<1>6. EachOnce(r)
  BY <1>1, <1>2, <1>3, <1>4 DEF EachOnce, QueuedFiles
<1> QED BY <1>2, <1>5, <1>6 DEF LoaderQueues, QueueIs, r

LEMMA EmptyQueue == QueueIs(<<>>, {}) /\ Len(<<>>) = 0
BY DEF QueueIs, LoaderQueues, QueuedFiles, EachOnce

\* list::remove takes the file out and keeps the others.
LEMMA QueueWithout ==
    ASSUME loader_queue \in LoaderQueues, NEW f
    PROVE  QueueIs(Without(f), QueuedFiles(loader_queue) \ {f})
<1> DEFINE n == Len(loader_queue)
           X == LoaderQueues \cup Seq(LoaderFiles)
           Next(r, i) == IF loader_queue[i] = f THEN r ELSE Append(r, loader_queue[i])
           Body(r) == [i \in 0..n |-> IF i = 0 THEN <<>> ELSE Next(r[i - 1], i)]
           rest == CHOOSE r : r = Body(r)
           step == [i \in 1..n |-> [r \in Seq(LoaderFiles) |-> Next(r, i)]]
<1>1. n \in Nat /\ loader_queue \in Seq(LoaderFiles) /\ EachOnce(loader_queue)
      /\ \A i \in 1..n : loader_queue[i] \in LoaderFiles
  BY DEF LoaderQueues
<1>2. Without(f) = rest[n]
  BY DEF Without
<1>3. \A r \in Seq(LoaderFiles) : \A i \in 1..n : Next(r, i) \in Seq(LoaderFiles)
  BY <1>1
<1>4. step \in [1..n -> [Seq(LoaderFiles) -> Seq(LoaderFiles)]] /\ <<>> \in Seq(LoaderFiles)
  <2> HIDE DEF Next
  <2> QED BY <1>3
<1> HIDE DEF n
<1>5. PICK g \in [0..n -> Seq(LoaderFiles)] : Recursive(g, n, <<>>, step)
  <2> DEFINE Y == Seq(LoaderFiles)
             z == <<>>
  <2>1. step \in [1..n -> [Y -> Y]] /\ z \in Y
    BY <1>4
  <2> HIDE DEF step, Y, z
  <2>2. \E g \in [0..n -> Y] : Recursive(g, n, z, step)
    BY <1>1, <2>1, RecursionTo
  <2> QED BY <2>2 DEF Y, z
<1>6. \A i \in 1..n : g[i] = Next(g[i - 1], i)
  <2>1. \A i \in 1..n : g[i - 1] \in Seq(LoaderFiles)
    BY <1>1
  <2> HIDE DEF Next
  <2> QED BY <1>5, <2>1 DEF Recursive
<1> HIDE DEF Next
<1>7. g = Body(g)
  <2>1. \A i \in 0..n : g[i] = Body(g)[i]
    BY <1>1, <1>5, <1>6 DEF Recursive
  <2> QED BY <1>5, <2>1
<1>8. rest = Body(rest)
  <2> HIDE DEF Body
  <2> QED BY <1>7
<1>9. rest[0] = <<>> /\ \A i \in 1..n : rest[i] = Next(rest[i - 1], i)
  <2> HIDE DEF rest
  <2>1. \A i \in 0..n : rest[i] = IF i = 0 THEN <<>> ELSE Next(rest[i - 1], i)
    BY <1>8
  <2> QED BY <2>1, <1>1
<1> HIDE DEF rest
<1> DEFINE G == {i \in 0..n : RightRest(f, rest[i], i)}
<1>10. 0 \in G
  <2>1. LeftOf(f, 0) = {}
    BY DEF LeftOf
  <2>2. RightRest(f, <<>>, 0)
    BY <2>1, EmptyQueue DEF RightRest
  <2>3. 0 \in 0..n /\ rest[0] = <<>>
    BY <1>1, <1>9
  <2> QED BY <2>2, <2>3
<1>11. ASSUME NEW i \in 0..n - 1, i \in G PROVE i + 1 \in G
  <2> DEFINE r == rest[i]
             e == loader_queue[i + 1]
  <2>1. i \in Nat /\ i + 1 \in 1..n /\ 1..i + 1 = 1..i \cup {i + 1} /\ i + 1 \in 0..n
    BY <1>1
  <2>2. rest[i + 1] = Next(r, i + 1)
    <3>1. rest[i + 1] = Next(rest[(i + 1) - 1], i + 1) /\ (i + 1) - 1 = i
      BY <1>9, <2>1
    <3> QED BY <3>1
  <2>3. r \in LoaderQueues /\ QueuedFiles(r) = LeftOf(f, i)
    BY <1>11 DEF RightRest, QueueIs
  <2>4. e \in LoaderFiles
    BY <1>1, <2>1
  <2>5. CASE e = f
    <3>1. LeftOf(f, i + 1) = LeftOf(f, i)
      BY <2>1, <2>5 DEF LeftOf
    <3>2. rest[i + 1] = r
      BY <2>2, <2>5 DEF Next
    <3> QED BY <2>1, <2>3, <3>1, <3>2 DEF RightRest, QueueIs
  <2>6. CASE e # f
    <3>1. LeftOf(f, i + 1) = LeftOf(f, i) \cup {e}
      BY <2>1, <2>6 DEF LeftOf
    <3>2. rest[i + 1] = Append(r, e)
      BY <2>2, <2>6 DEF Next
    <3>3. e \notin LeftOf(f, i)
      <4>1. \A j \in 1..i : loader_queue[j] # e
        <5>1. \A j \in 1..i : j \in 1..n /\ j # i + 1
          BY <2>1, <1>1
        <5> QED BY <1>1, <2>1, <5>1 DEF EachOnce, n
      <4> QED BY <4>1 DEF LeftOf
    <3>4. QueueIs(Append(r, e), LeftOf(f, i) \cup {e})
      <4> HIDE DEF r, e
      <4> QED BY <2>3, <2>4, <3>3, QueueLast
    <3> QED BY <2>1, <3>1, <3>2, <3>4 DEF RightRest
  <2> QED BY <2>5, <2>6
<1>12. 0..n \subseteq G
  <2> HIDE DEF G
  <2> QED BY <1>1, <1>10, <1>11, InductionTo
<1>13. RightRest(f, rest[n], n)
  BY <1>1, <1>12
<1>14. LeftOf(f, n) = QueuedFiles(loader_queue) \ {f}
  BY DEF LeftOf, QueuedFiles, n
<1> QED BY <1>2, <1>13, <1>14 DEF RightRest

-----------------------------------------------------------------------------
(* The queue and the map. *)

\* Files have versions from 1, and so have the loaders made of them.
VersionsFromOne ==
    /\ \A f \in LoaderFiles : version[f] # 0
    /\ \A t \in LoaderTasks : getting[t].at = "insert" => getting[t].read # NoLoader
QueueFits == QueueIs(loader_queue, Cached) /\ Len(loader_queue) <= Capacity
QueueIInv == LoaderIInv /\ VersionsFromOne /\ QueueFits

LEMMA QueueInit == LoaderCacheInit => VersionsFromOne /\ QueueFits
<1> SUFFICES ASSUME LoaderCacheInit PROVE VersionsFromOne /\ QueueFits
  OBVIOUS
<1>1. VersionsFromOne
  BY DEF LoaderCacheInit, VersionsFromOne, NotGetting
<1>2. Cached = {}
  BY DEF LoaderCacheInit, Cached
<1>3. QueueFits
  BY <1>2, EmptyQueue, CapacityAssumption DEF LoaderCacheInit, QueueFits
<1> QED BY <1>1, <1>3

\* A file that is erased is neither in the map nor in the queue.
LEMMA EraseFits ==
    ASSUME QueueFits, loader_map \in [LoaderFiles -> Int], NEW f,
           loader_map' = EraseLoader(f), loader_queue' = Without(f)
    PROVE  QueueFits'
<1>1. loader_queue \in LoaderQueues /\ QueuedFiles(loader_queue) = Cached
  BY DEF QueueFits, QueueIs
<1>2. QueueIs(loader_queue', Cached \ {f})
  BY <1>1, QueueWithout
<1>3. Cached' = Cached \ {f}
  BY DEF Cached, EraseLoader, NoLoader
<1>4. Len(loader_queue') <= Len(loader_queue)
  <2>1. loader_queue' \in LoaderQueues /\ QueuedFiles(loader_queue') = Cached \ {f}
    BY <1>2 DEF QueueIs
  <2>2. IsFiniteSet(Cached) /\ Cardinality(Cached) = Len(loader_queue)
        /\ Cardinality(Cached \ {f}) = Len(loader_queue')
    BY <1>1, <2>1, QueueLength
  <2> QED BY <2>2, FS_Subset
<1>5. Len(loader_queue) \in Nat /\ Len(loader_queue') \in Nat
  BY <1>1, <1>2 DEF QueueIs, LoaderQueues
<1> QED BY <1>2, <1>3, <1>4, <1>5, CapacityAssumption DEF QueueFits

LEMMA GetQueue ==
    ASSUME QueueIInv, NEW t \in LoaderTasks, NEW f \in LoaderFiles, Get(t, f)
    PROVE  (VersionsFromOne /\ QueueFits)'
<1> DEFINE request == getting'[t]
<1>1. /\ loader_map \in [LoaderFiles -> Int] /\ getting \in [LoaderTasks -> LoaderRequest]
      /\ QueueFits /\ VersionsFromOne /\ version' = version
  BY DEF QueueIInv, LoaderIInv, LoaderTypes, Get
<1>2. getting' \in [LoaderTasks -> LoaderRequest] /\ request.at # "insert"
      /\ \A u \in LoaderTasks \ {t} : getting'[u] = getting[u]
  <2>1. getting'[t].at # "insert" /\ \A u \in LoaderTasks \ {t} : getting'[u] = getting[u]
    BY <1>1 DEF Get, Got, NotGetting
  <2>2. LoaderIInv'
    BY GetStep DEF QueueIInv
  <2> QED BY <2>1, <2>2 DEF LoaderIInv, LoaderTypes
<1>3. VersionsFromOne'
  BY <1>1, <1>2 DEF VersionsFromOne
<1>4. CASE f \in Cached /\ ~Outdated(f)
  <2>1. loader_map' = loader_map /\ loader_queue' = <<f>> \o Without(f)
    BY <1>4 DEF Get
  <2>2. f \in Cached
    BY <1>4
  <2>3. loader_queue \in LoaderQueues /\ QueuedFiles(loader_queue) = Cached
    BY <1>1 DEF QueueFits, QueueIs
  <2>4. Without(f) \in LoaderQueues /\ QueuedFiles(Without(f)) = Cached \ {f}
    BY <2>3, QueueWithout DEF QueueIs
  <2>5. QueueIs(loader_queue', {f} \cup (Cached \ {f}))
    BY <2>1, <2>4, QueueFirst
  <2>6. {f} \cup (Cached \ {f}) = Cached /\ Cached' = Cached
    BY <2>1, <2>2 DEF Cached
  <2>7. Len(loader_queue') = Len(loader_queue)
    BY <2>3, <2>5, <2>6, QueueLength DEF QueueIs
  <2> QED BY <1>1, <1>3, <2>5, <2>6, <2>7 DEF QueueFits
<1>5. CASE ~(f \in Cached /\ ~Outdated(f))
  <2>1. loader_map' = EraseLoader(f) /\ loader_queue' = Without(f)
    BY <1>5 DEF Get
  <2> QED BY <1>1, <1>3, <2>1, EraseFits
<1> QED BY <1>4, <1>5

\* The queue without its last file.
LEMMA QueueFront ==
    ASSUME NEW q \in LoaderQueues, Len(q) # 0
    PROVE  /\ QueueIs(Front(q), QueuedFiles(q) \ {q[Len(q)]})
           /\ Len(Front(q)) = Len(q) - 1
<1> DEFINE r == Front(q)
<1>1. q \in Seq(LoaderFiles) /\ Len(q) \in Nat /\ EachOnce(q)
  BY DEF LoaderQueues
<1>2. r \in Seq(LoaderFiles) /\ Len(r) = Len(q) - 1 /\ \A i \in 1..Len(r) : r[i] = q[i]
  <2> DEFINE m == Len(q) - 1
  <2>1. m \in Int /\ m >= 0 /\ 1 \in Int /\ \A i \in 1..m : q[i] \in LoaderFiles
    BY <1>1
  <2>2. r = SubSeq(q, 1, m)
    BY DEF Front
  <2> HIDE DEF m, r
  <2>3. /\ r \in Seq(LoaderFiles) /\ Len(r) = IF 1 <= m THEN m - 1 + 1 ELSE 0
        /\ \A i \in 1..m - 1 + 1 : r[i] = q[1 + i - 1]
    BY <2>1, <2>2, SubSeqProperties
  <2>4. Len(r) = m /\ m - 1 + 1 = m /\ \A i \in Int : 1 + i - 1 = i
    BY <2>1, <2>3
  <2>5. \A i \in 1..m : r[i] = q[i]
    <3>1. \A i \in 1..m : i \in Int /\ i \in 1..m - 1 + 1
      BY <2>1
    <3>2. \A i \in 1..m : r[i] = q[1 + i - 1]
      BY <2>3, <3>1
    <3> QED BY <2>4, <3>1, <3>2
  <2> QED BY <2>3, <2>4, <2>5 DEF m
<1> HIDE DEF r
<1>3. \A i \in 1..Len(q) : i = Len(q) \/ i \in 1..Len(r)
  BY <1>1, <1>2
<1>4. \A i \in 1..Len(r) : i \in 1..Len(q) /\ i # Len(q)
  BY <1>1, <1>2
<1>5. EachOnce(r)
  BY <1>1, <1>2, <1>4 DEF EachOnce
<1>6. QueuedFiles(r) = QueuedFiles(q) \ {q[Len(q)]}
  <2>1. \A i \in 1..Len(r) : q[i] # q[Len(q)]
    <3>1. Len(q) \in 1..Len(q)
      BY <1>1
    <3> QED BY <1>1, <1>4, <3>1 DEF EachOnce
  <2> QED BY <1>2, <1>3, <1>4, <2>1 DEF QueuedFiles
<1> QED BY <1>2, <1>5, <1>6 DEF QueueIs, LoaderQueues, r

LEMMA InsertQueue ==
    ASSUME QueueIInv, NEW t \in LoaderTasks, Insert(t)
    PROVE  (VersionsFromOne /\ QueueFits)'
<1> DEFINE f == getting[t].file
           full == Cardinality(Cached) = Capacity
           last == loader_queue[Len(loader_queue)]
<1>1. /\ loader_map \in [LoaderFiles -> Int] /\ getting \in [LoaderTasks -> LoaderRequest]
      /\ QueueFits /\ VersionsFromOne /\ version' = version
      /\ f \in LoaderFiles /\ getting[t].at = "insert" /\ getting[t].read # NoLoader
  BY DEF QueueIInv, LoaderIInv, LoaderTypes, LoaderNamed, VersionsFromOne, Insert
<1>2. VersionsFromOne'
  <2>1. getting'[t].at # "insert" /\ \A u \in LoaderTasks \ {t} : getting'[u] = getting[u]
    BY <1>1 DEF Insert, LoaderRequest
  <2> QED BY <1>1, <2>1 DEF VersionsFromOne
<1>3. /\ loader_queue \in LoaderQueues /\ QueuedFiles(loader_queue) = Cached
      /\ Len(loader_queue) <= Capacity /\ Len(loader_queue) \in Nat
      /\ Cardinality(Cached) = Len(loader_queue)
  <2>1. loader_queue \in LoaderQueues /\ QueuedFiles(loader_queue) = Cached /\ Len(loader_queue) <= Capacity
    BY <1>1 DEF QueueFits, QueueIs
  <2> QED BY <2>1, QueueLength DEF LoaderQueues
<1>4. CASE f \in Cached
  <2>1. UNCHANGED <<loader_map, loader_queue>>
    BY <1>4 DEF Insert
  <2> QED BY <1>1, <1>2, <2>1 DEF QueueFits, Cached
<1>5. CASE f \notin Cached
  <2>1. /\ loader_map' = [g \in LoaderFiles |-> IF g = f THEN getting[t].read
                              ELSE IF full /\ g = last THEN NoLoader ELSE loader_map[g]]
        /\ loader_queue' = <<f>> \o (IF full THEN Front(loader_queue) ELSE loader_queue)
    BY <1>5 DEF Insert
  <2>2. CASE full
    <3>1. Len(loader_queue) # 0 /\ Len(loader_queue) = Capacity
      BY <1>3, <2>2, CapacityAssumption
    <3>2. /\ Front(loader_queue) \in LoaderQueues
          /\ QueuedFiles(Front(loader_queue)) = Cached \ {last}
          /\ Len(Front(loader_queue)) = Len(loader_queue) - 1
      BY <1>3, <3>1, QueueFront DEF QueueIs
    <3>3. loader_queue' = <<f>> \o Front(loader_queue)
      BY <2>1, <2>2
    <3>4. /\ QueueIs(loader_queue', {f} \cup (Cached \ {last}))
          /\ Len(loader_queue') = (Len(loader_queue) - 1) + 1
      BY <1>1, <1>5, <3>2, <3>3, QueueFirst
    <3>5. Cached' = {f} \cup (Cached \ {last})
      <4>1. \A g \in LoaderFiles : loader_map'[g] = IF g = f THEN getting[t].read
                              ELSE IF g = last THEN NoLoader ELSE loader_map[g]
        BY <2>1, <2>2
      <4> HIDE DEF last, f
      <4> QED BY <1>1, <4>1 DEF Cached
    <3> QED BY <1>2, <1>3, <3>1, <3>4, <3>5 DEF QueueFits
  <2>3. CASE ~full
    <3>1. loader_queue' = <<f>> \o loader_queue
      BY <2>1, <2>3
    <3>2. QueueIs(loader_queue', {f} \cup Cached) /\ Len(loader_queue') = Len(loader_queue) + 1
      BY <1>1, <1>3, <1>5, <3>1, QueueFirst
    <3>3. Cached' = {f} \cup Cached
      <4>1. \A g \in LoaderFiles : loader_map'[g] = IF g = f THEN getting[t].read ELSE loader_map[g]
        BY <2>1, <2>3
      <4> HIDE DEF f
      <4> QED BY <1>1, <4>1 DEF Cached
    <3>4. Len(loader_queue) + 1 <= Capacity
      BY <1>3, <2>3, CapacityAssumption
    <3> QED BY <1>2, <3>2, <3>3, <3>4 DEF QueueFits
  <2> QED BY <2>2, <2>3
<1> QED BY <1>4, <1>5

LEMMA RemoveQueue ==
    ASSUME QueueIInv, NEW t \in LoaderTasks, RemoveLoader(t)
    PROVE  (VersionsFromOne /\ QueueFits)'
<1>1. /\ loader_map \in [LoaderFiles -> Int] /\ getting \in [LoaderTasks -> LoaderRequest]
      /\ QueueFits /\ VersionsFromOne
  BY DEF QueueIInv, LoaderIInv, LoaderTypes
<1>2. VersionsFromOne'
  BY <1>1 DEF RemoveLoader, VersionsFromOne, NotGetting
<1> QED BY <1>1, <1>2, EraseFits DEF RemoveLoader

LEMMA OthersQueue ==
    ASSUME QueueIInv,
           \/ \E f \in LoaderFiles : ChangeFile(f) \/ CloseImageIfUpdated(f)
           \/ \E t \in LoaderTasks : GetLoader(t)
           \/ UNCHANGED loaderVars
    PROVE  (VersionsFromOne /\ QueueFits)'
<1>1. /\ version \in [LoaderFiles -> Nat] /\ loader_map \in [LoaderFiles -> Int]
      /\ getting \in [LoaderTasks -> LoaderRequest]
      /\ QueueFits /\ VersionsFromOne /\ LoaderNamed
  BY DEF QueueIInv, LoaderIInv, LoaderTypes
<1>2. UNCHANGED loader_queue /\ Cached' = Cached
  <2>1. CASE \E f \in LoaderFiles : CloseImageIfUpdated(f)
    <3>1. PICK f \in LoaderFiles : CloseImageIfUpdated(f)
      BY <2>1
    <3>2. /\ loader_map[f] # NoLoader /\ version[f] # NoLoader
          /\ loader_map' = [loader_map EXCEPT ![f] = version[f]]
      BY <1>1, <3>1 DEF CloseImageIfUpdated, Outdated, VersionsFromOne, NoLoader
    <3>3. loader_map'[f] # NoLoader /\ \A g \in LoaderFiles \ {f} : loader_map'[g] = loader_map[g]
      BY <1>1, <3>2
    <3> QED BY <3>1, <3>2, <3>3 DEF CloseImageIfUpdated, Cached
  <2>2. CASE UNCHANGED <<loader_map, loader_queue>>
    BY <2>2 DEF Cached
  <2> QED BY <2>1, <2>2 DEF ChangeFile, GetLoader, loaderVars
<1>3. QueueFits'
  BY <1>1, <1>2 DEF QueueFits
<1>4. CASE \E f \in LoaderFiles : ChangeFile(f)
  BY <1>1, <1>3, <1>4 DEF ChangeFile, VersionsFromOne
<1>7. CASE \E f \in LoaderFiles : CloseImageIfUpdated(f)
  BY <1>1, <1>3, <1>7 DEF CloseImageIfUpdated, VersionsFromOne
<1>5. CASE \E t \in LoaderTasks : GetLoader(t)
  <2>1. PICK t \in LoaderTasks : GetLoader(t)
    BY <1>5
  <2>2. getting[t].file \in LoaderFiles
    BY <1>1, <2>1 DEF GetLoader, LoaderNamed
  <2>3. VersionsFromOne'
    BY <1>1, <2>1, <2>2 DEF GetLoader, VersionsFromOne, NoLoader, NullLoader, LoaderRequest
  <2> QED BY <1>3, <2>3
<1>6. CASE UNCHANGED loaderVars
  BY <1>1, <1>3, <1>6 DEF loaderVars, VersionsFromOne
<1> QED BY <1>4, <1>5, <1>6, <1>7

\* With what is known of the loaders, the queue and the map are an inductive
\* invariant.
THEOREM QueueInductive == LoaderCacheSpec => []QueueIInv
<1>1. LoaderCacheInit => VersionsFromOne /\ QueueFits
  BY QueueInit
<1>2. ASSUME QueueIInv, [LoaderCacheNext]_loaderVars PROVE (VersionsFromOne /\ QueueFits)'
  BY <1>2, GetQueue, InsertQueue, RemoveQueue, OthersQueue DEF LoaderCacheNext
<1> QED BY <1>1, <1>2, LoaderInductive, PTL DEF LoaderCacheSpec, QueueIInv

\* The queue of LoaderCache orders the loaders of its map, each once, and they
\* are no more than its capacity, with any number of files and tasks.
THEOREM LoaderQueueIsRight == LoaderCacheSpec => []LoaderCacheCorrect
<1>1. ASSUME QueueIInv PROVE LoaderCacheCorrect
  <2>1. /\ loader_queue \in LoaderQueues /\ QueuedFiles(loader_queue) = Cached
        /\ Len(loader_queue) <= Capacity /\ LoaderFresh
    BY <1>1 DEF QueueIInv, QueueFits, QueueIs, LoaderIInv
  <2>2. Cardinality(Cached) = Len(loader_queue)
    BY <2>1, QueueLength
  <2> QED BY <2>1, <2>2 DEF LoaderCacheCorrect, QueueOrdersMap, QueuedFiles
<1> QED BY <1>1, QueueInductive, PTL

\* A loader is of a version of its file, if it is one.
LoaderOf(f, loader) == loader = NullLoader \/ loader \in 1..version[f]
LoadersOfVersions ==
    /\ \A f \in LoaderFiles : version[f] \in 1..MaxFileChanges
    /\ \A f \in LoaderFiles : loader_map[f] = NoLoader \/ LoaderOf(f, loader_map[f])
    /\ \A t \in LoaderTasks : getting[t].at = "insert" => LoaderOf(getting[t].file, getting[t].read)

LEMMA LoadersOfVersionsKept ==
    ASSUME QueueIInv, LoadersOfVersions, LoaderCacheNext PROVE LoadersOfVersions'
<1>1. /\ version \in [LoaderFiles -> Nat] /\ loader_map \in [LoaderFiles -> Int]
      /\ getting \in [LoaderTasks -> LoaderRequest] /\ LoaderNamed
  BY DEF QueueIInv, LoaderIInv, LoaderTypes
<1>2. ASSUME NEW f \in LoaderFiles, ChangeFile(f) PROVE LoadersOfVersions'
  <2>1. \A g \in LoaderFiles : version'[g] \in {version[g], version[g] + 1} /\ version'[g] <= MaxFileChanges
    BY <1>1, <1>2, FileChangesAssumption DEF ChangeFile, LoadersOfVersions
  <2>2. loader_map' = loader_map /\ getting' = getting
    BY <1>2 DEF ChangeFile
  <2>3. \A t \in LoaderTasks : getting[t].at = "insert" => getting[t].file \in LoaderFiles
    BY <1>1 DEF LoaderNamed
  <2>4. \A g \in LoaderFiles : version'[g] \in 1..MaxFileChanges /\ 1..version[g] \subseteq 1..version'[g]
    BY <1>1, <2>1, FileChangesAssumption DEF LoadersOfVersions
  <2> QED BY <2>2, <2>3, <2>4 DEF LoadersOfVersions, LoaderOf
<1>3. ASSUME NEW t \in LoaderTasks, GetLoader(t) PROVE LoadersOfVersions'
  <2>1. getting[t].file \in LoaderFiles /\ version[getting[t].file] \in 1..version[getting[t].file]
    BY <1>1, <1>3 DEF GetLoader, LoaderNamed, LoadersOfVersions
  <2>2. /\ version' = version /\ loader_map' = loader_map
        /\ \E loader \in {version[getting[t].file], NullLoader} :
              getting' = [getting EXCEPT ![t].at = "insert", ![t].read = loader]
    BY <1>3 DEF GetLoader
  <2>3. PICK loader \in {version[getting[t].file], NullLoader} :
              getting' = [getting EXCEPT ![t].at = "insert", ![t].read = loader]
    BY <2>2
  <2>4. /\ getting'[t].file = getting[t].file /\ getting'[t].read = loader
        /\ \A u \in LoaderTasks \ {t} : getting'[u] = getting[u]
    BY <1>1, <2>3 DEF LoaderRequest
  <2>5. LoaderOf(getting[t].file, loader)
    BY <2>1, <2>3 DEF LoaderOf
  <2> QED BY <2>2, <2>4, <2>5 DEF LoadersOfVersions, LoaderOf
<1>4. ASSUME NEW t \in LoaderTasks, Insert(t) PROVE LoadersOfVersions'
  <2>1. /\ version' = version /\ getting'[t].at # "insert"
        /\ \A u \in LoaderTasks \ {t} : getting'[u] = getting[u]
    BY <1>1, <1>4 DEF Insert, LoaderRequest
  <2>2. getting[t].file \in LoaderFiles /\ LoaderOf(getting[t].file, getting[t].read)
    BY <1>1, <1>4 DEF Insert, LoaderNamed, LoadersOfVersions
  <2>3. \A g \in LoaderFiles : loader_map'[g] = NoLoader \/ LoaderOf(g, loader_map'[g])
    <3>1. CASE getting[t].file \in Cached
      BY <1>1, <1>4, <3>1 DEF Insert, LoadersOfVersions
    <3>2. CASE getting[t].file \notin Cached
      <4>1. \A g \in LoaderFiles : \/ g = getting[t].file /\ loader_map'[g] = getting[t].read
                                   \/ loader_map'[g] \in {NoLoader, loader_map[g]}
        BY <1>1, <1>4, <3>2 DEF Insert
      <4> QED BY <2>2, <4>1 DEF LoadersOfVersions
    <3> QED BY <3>1, <3>2
  <2> QED BY <2>1, <2>3 DEF LoadersOfVersions, LoaderOf
<1>5. ASSUME NEW t \in LoaderTasks, RemoveLoader(t) PROVE LoadersOfVersions'
  <2>1. /\ version' = version /\ getting'[t].at # "insert"
        /\ \A u \in LoaderTasks \ {t} : getting'[u] = getting[u]
    BY <1>1, <1>5 DEF RemoveLoader, NotGetting
  <2>2. \A g \in LoaderFiles : loader_map'[g] \in {NoLoader, loader_map[g]}
    BY <1>1, <1>5 DEF RemoveLoader, EraseLoader
  <2> QED BY <2>1, <2>2 DEF LoadersOfVersions, LoaderOf
<1>6. ASSUME NEW t \in LoaderTasks, NEW f \in LoaderFiles, Get(t, f) PROVE LoadersOfVersions'
  <2>1. /\ version' = version /\ getting'[t].at # "insert"
        /\ \A u \in LoaderTasks \ {t} : getting'[u] = getting[u]
    BY <1>1, <1>6 DEF Get, Got, NotGetting
  <2>2. \A g \in LoaderFiles : loader_map'[g] \in {NoLoader, loader_map[g]}
    BY <1>1, <1>6 DEF Get, EraseLoader
  <2> QED BY <2>1, <2>2 DEF LoadersOfVersions, LoaderOf
<1>7. ASSUME NEW f \in LoaderFiles, CloseImageIfUpdated(f) PROVE LoadersOfVersions'
  <2>1. version' = version /\ getting' = getting
    BY <1>7 DEF CloseImageIfUpdated
  <2>2. \A g \in LoaderFiles : loader_map'[g] \in {version[g], loader_map[g]}
    BY <1>1, <1>7 DEF CloseImageIfUpdated
  <2>3. \A g \in LoaderFiles : LoaderOf(g, version[g])
    BY <1>1 DEF LoadersOfVersions, LoaderOf
  <2> QED BY <2>1, <2>2, <2>3 DEF LoadersOfVersions, LoaderOf
<1> QED BY <1>2, <1>3, <1>4, <1>5, <1>6, <1>7 DEF LoaderCacheNext

\* The cache, its files and the tasks have the types declared.
THEOREM LoaderCacheTypeCorrect == LoaderCacheSpec => []LoaderCacheTypeOK
<1>1. LoaderCacheInit => LoadersOfVersions
  BY FileChangesAssumption DEF LoaderCacheInit, LoadersOfVersions, NotGetting, NoLoader
<1>2. ASSUME QueueIInv, LoadersOfVersions, [LoaderCacheNext]_loaderVars PROVE LoadersOfVersions'
  <2>1. CASE UNCHANGED loaderVars
    BY <1>2, <2>1 DEF loaderVars, LoadersOfVersions, LoaderOf
  <2> QED BY <1>2, <2>1, LoadersOfVersionsKept
<1>3. ASSUME QueueIInv, LoadersOfVersions PROVE LoaderCacheTypeOK
  <2>1. /\ version \in [LoaderFiles -> Nat] /\ loader_map \in [LoaderFiles -> Int]
        /\ getting \in [LoaderTasks -> LoaderRequest] /\ loader_queue \in Seq(LoaderFiles)
    BY <1>3 DEF QueueIInv, LoaderIInv, LoaderTypes, QueueFits, QueueIs, LoaderQueues
  <2>2. \A f \in LoaderFiles : 1..version[f] \subseteq 1..MaxFileChanges
    BY <1>3, <2>1, FileChangesAssumption DEF LoadersOfVersions
  <2>3. \A f \in LoaderFiles : loader_map[f] \in {NoLoader, NullLoader} \cup 1..MaxFileChanges
    BY <1>3, <2>2 DEF LoadersOfVersions, LoaderOf
  <2> QED BY <1>3, <2>1, <2>3 DEF LoaderCacheTypeOK, LoaderRequest, LoadersOfVersions
<1> QED BY <1>1, <1>2, <1>3, QueueInductive, PTL DEF LoaderCacheSpec

(***************************************************************************)
(* Proofs about SaveFiles, for any images and requests.                    *)
(*                                                                         *)
(* What cannot be overwritten is always there, and a rest frequency other  *)
(* than that of the header is only ever set in a plane: with these the     *)
(* rules of what is saved and of what is kept pass from request to request.*)
(***************************************************************************)

\* What is kept from request to request: what cannot be overwritten is there, a
\* rest frequency is only set in a plane, and the last answer is to a request.
SaveFilesIInv ==
    /\ SaveFilesTypeOK
    /\ files["directory"] # Absent /\ files["special"] # Absent
    /\ loader_rest = HeaderRest \/ save_image.axes = "plane"
    /\ saves = 0 => save_ack = NoAck
    /\ saves > 0 => save_ack.request \in SaveRequests
    /\ SaveFilesCorrect

RequestFields(req) ==
    /\ req.path \in Paths \cup {"alias"} /\ req.type \in {"CASA", "FITS", "HDF5"} /\ req.overwrite \in BOOLEAN
    /\ req.region \in {"none", "inside", "outside", "unknown"} /\ req.rest_freq \in Nat
    /\ req.channels \in {<<>>} \cup Int \X Int /\ req.stokes \in {<<>>} \cup Int \X Int \X Int

LEMMA SaveRequestIs ==
    ASSUME NEW req \in SaveRequests
    PROVE  RequestFields(req) /\ At(req.path) \in Paths
<1>1. RequestFields(req)
  BY SaveRequestsAssumption DEF RequestFields
<1>2. At(req.path) \in Paths
  BY <1>1 DEF RequestFields, At, Paths
<1> QED BY <1>1, <1>2

LEMMA SavedImageIs ==
    ASSUME save_image \in SavedImages
    PROVE  save_image.channels \in Nat \ {0} /\ save_image.stokes \in Nat \ {0}
  BY SavedImagesAssumption, Zenon

\* The channels of a range are those in it, or one if there is none in it.
LEMMA ChannelsAreAsked ==
    ASSUME NEW req \in SaveRequests, save_image \in SavedImages
    PROVE  OrOne(ValidChannels(req), Asked(req.channels, save_image.channels))
<1>1. RequestFields(req) /\ save_image.channels \in Nat \ {0}
  BY SaveRequestIs, SavedImageIs
<1> DEFINE n == save_image.channels
           range == req.channels
<1>2. CASE range = <<>>
  <2>1. ValidChannels(req) = 0..n - 1
    BY <1>2 DEF ValidChannels
  <2>2. Asked(range, n) = 0..n - 1
    BY <1>2 DEF Asked
  <2>3. 0 \in 0..n - 1
    BY <1>1
  <2> QED BY <2>1, <2>2, <2>3 DEF OrOne
<1>3. CASE range # <<>>
  <2>1. range[1] \in Int /\ range[2] \in Int
    BY <1>1, <1>3 DEF RequestFields
  <2> DEFINE start == Clamp(range[1], 0, n - 1)
             end == Clamp(range[2], start, n - 1)
  <2>2. start \in 0..n - 1 /\ end \in start..n - 1
    <3>1. start \in 0..n - 1
      BY <1>1, <2>1, 0 <= n - 1 DEF Clamp
    <3> HIDE DEF start
    <3>2. start \in Int /\ n - 1 \in Int /\ start <= n - 1
      BY <1>1, <3>1
    <3> QED BY <2>1, <3>1, <3>2 DEF Clamp
  <2>3. ValidChannels(req) = start..end
    BY <1>3 DEF ValidChannels
  <2>4. Asked(range, n) = {i \in 0..n - 1 : range[1] <= i /\ i <= range[2]}
    BY <1>3 DEF Asked
  <2>5. CASE Asked(range, n) = {}
    <3>1. ~(\E i \in 0..n - 1 : range[1] <= i /\ i <= range[2])
      BY <2>4, <2>5
    <3>2. start = end
      BY <1>1, <2>1, <2>2, <3>1 DEF Clamp
    <3>3. start..end = {start}
      BY <2>2, <3>2
    <3> QED BY <2>3, <2>5, <3>3, FS_Singleton DEF OrOne
  <2>6. CASE Asked(range, n) # {}
    <3>1. PICK i \in 0..n - 1 : range[1] <= i /\ i <= range[2]
      BY <2>4, <2>6
    <3>2. \A j \in 0..n - 1 : start <= j <=> range[1] <= j
      BY <1>1, <2>1, <3>1 DEF Clamp
    <3>3. \A j \in 0..n - 1 : j <= end <=> j <= range[2]
      BY <1>1, <2>1, <2>2, <3>1, <3>2 DEF Clamp
    <3>4. start..end = {j \in 0..n - 1 : range[1] <= j /\ j <= range[2]}
      BY <1>1, <2>2, <3>2, <3>3
    <3> QED BY <2>3, <2>4, <2>6, <3>4 DEF OrOne
  <2> QED BY <2>5, <2>6
<1> QED BY <1>2, <1>3

LEMMA SmallRemainder ==
    ASSUME NEW k \in Nat \ {0}, NEW i \in 0..k - 1
    PROVE  i % k = i
  OBVIOUS

StokesOf(range) == {s \in Asked(range, save_image.stokes) : range = <<>> \/ InSteps(s, range)}

\* The polarizations of a range are those in it and in its steps, or one if
\* there is none in it.
LEMMA StokesSetIsAsked ==
    ASSUME NEW req \in SaveRequests, save_image \in SavedImages
    PROVE  OrOne(ValidStokes(req), StokesOf(req.stokes))
<1>1. RequestFields(req) /\ save_image.stokes \in Nat \ {0}
  BY SaveRequestIs, SavedImageIs
<1> DEFINE n == save_image.stokes
           range == req.stokes
<1>2. CASE range = <<>>
  <2>1. ValidStokes(req) = 0..n - 1
    BY <1>2 DEF ValidStokes
  <2>2. StokesOf(range) = 0..n - 1
    BY <1>2 DEF Asked, StokesOf
  <2>3. 0 \in 0..n - 1
    BY <1>1
  <2> QED BY <2>1, <2>2, <2>3 DEF OrOne
<1>3. CASE range # <<>>
  <2>1. range[1] \in Int /\ range[2] \in Int /\ range[3] \in Int
    BY <1>1, <1>3 DEF RequestFields
  <2> DEFINE start == Clamp(range[1], 0, n - 1)
             end == Clamp(range[2], start, n - 1)
             stride == Clamp(range[3], 1, n - start)
  <2>2. start \in 0..n - 1 /\ end \in start..n - 1 /\ stride \in 1..n - start
    <3>1. start \in 0..n - 1
      BY <1>1, <2>1, 0 <= n - 1 DEF Clamp
    <3> HIDE DEF start
    <3>2. start \in Int /\ n - 1 \in Int /\ start <= n - 1 /\ n - start \in Int /\ 1 <= n - start
      BY <1>1, <3>1
    <3>3. end \in start..n - 1
      BY <2>1, <3>2 DEF Clamp
    <3>4. stride \in 1..n - start
      BY <2>1, <3>2 DEF Clamp
    <3> QED BY <3>1, <3>3, <3>4
  <2>3. ValidStokes(req) = {s \in start..end : (s - start) % stride = 0}
    BY <1>3 DEF ValidStokes
  <2>4. StokesOf(range) = {s \in 0..n - 1 : range[1] <= s /\ s <= range[2] /\ InSteps(s, range)}
    BY <1>3 DEF StokesOf, Asked
  <2>5. CASE ~(\E i \in 0..n - 1 : range[1] <= i /\ i <= range[2])
    <3>1. StokesOf(range) = {}
      BY <2>4, <2>5
    <3>2. start = end
      BY <1>1, <2>1, <2>2, <2>5 DEF Clamp
    <3>3. (start - start) % stride = 0
      BY <2>2, SmallRemainder
    <3>4. ValidStokes(req) = {start}
      BY <2>2, <2>3, <3>2, <3>3
    <3> QED BY <3>1, <3>4, FS_Singleton DEF OrOne
  <2>6. ASSUME NEW i \in 0..n - 1, range[1] <= i, i <= range[2]
        PROVE  OrOne(ValidStokes(req), StokesOf(range))
    <3>1. \A j \in 0..n - 1 : start <= j <=> range[1] <= j
      BY <1>1, <2>1, <2>6 DEF Clamp
    <3>2. \A j \in 0..n - 1 : j <= end <=> j <= range[2]
      BY <1>1, <2>1, <2>2, <2>6, <3>1 DEF Clamp
    <3>3. start = IF range[1] < 0 THEN 0 ELSE range[1]
      BY <1>1, <2>1, <2>6 DEF Clamp
    <3> DEFINE most == n - start
    <3>8. most \in Int /\ 1 <= most /\ n \in Int /\ start \in Int
      BY <1>1, <2>2
    <3>9. /\ range[3] < 1 => stride = 1
          /\ range[3] \in 1..most => stride = range[3]
          /\ range[3] > most => stride = most
      <4> DEFINE given == range[3]
      <4>1. given \in Int
        BY <2>1
      <4> HIDE DEF most, given
      <4>2. stride = Clamp(given, 1, most)
        BY DEF most, given
      <4> HIDE DEF stride
      <4>3. /\ given < 1 => stride = 1
            /\ given \in 1..most => stride = given
            /\ given > most => stride = most
        BY <3>8, <4>1, <4>2 DEF Clamp
      <4> QED BY <4>3 DEF given
    <3> HIDE DEF start, end, stride
    <3>4. ASSUME NEW s \in start..n - 1
          PROVE  (s - start) % stride = 0 <=> InSteps(s, range)
      <4>1. InSteps(s, range) <=> (range[3] < 1 \/ (s - start) % range[3] = 0)
        BY <3>3 DEF InSteps
      <4>2. CASE range[3] < 1
        <5>1. stride = 1
          BY <3>9, <4>2
        <5>2. (s - start) % 1 = 0
          BY <2>2
        <5> QED BY <4>1, <4>2, <5>1, <5>2
      <4>3. CASE range[3] \in 1..n - start
        <5>1. stride = range[3]
          BY <3>9, <4>3
        <5> QED BY <4>1, <4>3, <5>1
      <4>4. CASE range[3] > n - start
        <5>1. stride = n - start
          BY <3>9, <4>4
        <5>2. s - start \in 0..n - start - 1 /\ n - start \in Nat \ {0} /\ range[3] \in Nat \ {0}
          BY <1>1, <2>1, <2>2, <4>4
        <5>3. (s - start) % (n - start) = s - start /\ (s - start) % range[3] = s - start
          BY <4>4, <5>2, SmallRemainder, <1>1, <2>1, <2>2
        <5> QED BY <2>1, <2>2, <1>1, <4>1, <4>4, <5>1, <5>3
      <4> QED BY <1>1, <2>1, <2>2, <4>2, <4>3, <4>4
    <3>5. ASSUME NEW s
          PROVE  s \in ValidStokes(req) <=> s \in StokesOf(range)
      <4>1. s \in start..end <=> s \in 0..n - 1 /\ range[1] <= s /\ s <= range[2]
        BY <1>1, <2>2, <3>1, <3>2
      <4>2. s \in start..end => s \in start..n - 1
        BY <1>1, <2>2
      <4> QED BY <2>3, <2>4, <3>4, <4>1, <4>2
    <3>6. start \in ValidStokes(req)
      <4>1. (start - start) % stride = 0
        BY <2>2, SmallRemainder
      <4> QED BY <2>2, <2>3, <4>1
    <3>7. ValidStokes(req) = StokesOf(range)
      BY <3>5
    <3> QED BY <3>6, <3>7 DEF OrOne
  <2> QED BY <2>5, <2>6
<1> QED BY <1>2, <1>3

LEMMA SavesCounted ==
    ASSUME SaveFilesIInv, saves < MaxSaves, saves' = saves + 1
    PROVE  saves' \in 0..MaxSaves /\ saves' # 0 /\ saves' > 0
<1>1. MaxSaves \in Nat
  BY SaveRequestsAssumption
<1>2. saves \in 0..MaxSaves
  BY DEF SaveFilesIInv, SaveFilesTypeOK
<1> QED BY <1>1, <1>2

LEMMA OneFileChanges ==
    ASSUME DOMAIN files = Paths, NEW path \in Paths, NEW held,
           files' = files \/ files' = [files EXCEPT ![path] = held]
    PROVE  /\ DOMAIN files' = Paths
           /\ \A p \in Paths : files'[p] = files[p] \/ (p = path /\ files'[p] = held)
<1>1. CASE files' = files
  BY <1>1
<1>2. CASE files' = [files EXCEPT ![path] = held]
  BY <1>2
<1> QED BY <1>1, <1>2

\* A file is free if there is none, or one that may be overwritten.
LEMMA FreeIs ==
    ASSUME NEW req, Occupied(req) = "free", files[At(req.path)] # Absent
    PROVE  req.path \notin {"source", "special", "directory"} /\ req.overwrite
<1>1. CASE req.path \in {"source", "special", "directory"}
  BY <1>1 DEF Occupied
<1>2. CASE req.path \notin {"source", "special", "directory"}
  BY <1>2 DEF Occupied
<1> QED BY <1>1, <1>2

\* What becomes of a request that is answered without a change.
LEMMA RefusalKeeps ==
    ASSUME SaveFilesIInv, NEW req \in SaveRequests, NEW confirm, Refuse(req, confirm),
           saves' = saves + 1, saves < MaxSaves, UNCHANGED <<save_image, read_only>>,
           confirm => Occupied(req) = "confirm",
           (req.region = "inside" /\ ~read_only) =>
               files[At(req.path)] # Absent \/ save_image.axes \in {"stokes", "stokes channels"}
    PROVE  SaveFilesIInv'
<1>1. /\ save_ack'.request = req /\ save_ack'.before = files /\ ~save_ack'.success
      /\ save_ack'.confirm = confirm /\ files' = files /\ loader_rest' = loader_rest
  BY Zenon DEF Refuse, Acknowledge
<1>2. saves' \in 0..MaxSaves /\ saves' # 0 /\ saves' > 0
  BY SavesCounted, Zenon
<1>3. SaveFilesTypeOK'
  <2>1. /\ save_image \in SavedImages /\ read_only \in ReadOnlyModes /\ DOMAIN files = Paths
        /\ \A p \in Paths : files[p].is \in {"absent", "original", "expression", "pixels"}
        /\ loader_rest \in {HeaderRest} \cup {r.rest_freq : r \in SaveRequests}
    BY Zenon DEF SaveFilesIInv, SaveFilesTypeOK
  <2> QED BY <1>1, <1>2, <2>1, Zenon DEF SaveFilesTypeOK
<1>4. SavedAsAsked'
  BY <1>1, Zenon DEF SavedAsAsked
<1>5. FilesKept'
  <2>1. \A p \in Paths : files'[p] = save_ack'.before[p]
    BY <1>1, Zenon
  <2>2. confirm => req.path \in {"alias", "image", "file", "new"} /\ ~req.overwrite
    <3>1. RequestFields(req)
      BY SaveRequestIs, Zenon
    <3>2. ASSUME confirm
          PROVE  req.path \notin {"source", "special", "directory"} /\ ~req.overwrite
      BY <3>2, Zenon DEF Occupied
    <3>3. req.path \in {"source", "image", "file", "directory", "special", "new", "alias"}
      BY <3>1, Zenon DEF RequestFields, Paths
    <3> QED BY <3>2, <3>3, Zenon
  <2> QED BY <1>1, <2>1, <2>2, Zenon DEF FilesKept
<1>6. RegionsSaved'
  BY <1>1, Zenon DEF RegionsSaved
<1>7. /\ files["directory"] # Absent /\ files["special"] # Absent
      /\ loader_rest = HeaderRest \/ save_image.axes = "plane"
  BY Zenon DEF SaveFilesIInv
<1>8. /\ (files["directory"] # Absent)' /\ (files["special"] # Absent)'
      /\ (loader_rest = HeaderRest \/ save_image.axes = "plane")'
  BY <1>1, <1>7, Zenon DEF Absent, HeaderRest
<1>9. saves' # 0 /\ save_ack'.request \in SaveRequests
  BY <1>1, <1>2, Zenon
<1> QED BY <1>3, <1>4, <1>5, <1>6, <1>8, <1>9, Zenon DEF SaveFilesIInv, SaveFilesCorrect

\* The file of the request has what it is to hold, or is as it was, and the
\* answer says so.
FileWritten(req, success, held) ==
    /\ Acknowledge(req, success, FALSE, FALSE)
    /\ held.is \in {"absent", "original", "expression", "pixels"}
    /\ files' = files \/ files' = [files EXCEPT ![At(req.path)] = held]
    /\ success => SavedAsAsked'

\* What becomes of a request whose file may be written: it alone is.
LEMMA WritingKeeps ==
    ASSUME SaveFilesIInv, NEW req \in SaveRequests, NEW success, NEW held, FileWritten(req, success, held),
           saves' = saves + 1, saves < MaxSaves, UNCHANGED <<save_image, read_only>>,
           ~read_only, req.region \notin {"unknown", "outside"}, Occupied(req) = "free",
           loader_rest' \in {HeaderRest} \cup {r.rest_freq : r \in SaveRequests},
           loader_rest' = HeaderRest \/ save_image.axes = "plane"
    PROVE  SaveFilesIInv'
<1>1. /\ save_ack'.request = req /\ save_ack'.before = files /\ save_ack'.success = success
      /\ save_ack'.confirm = FALSE /\ save_ack'.cut = FALSE
  BY DEF FileWritten, Acknowledge
<1>2. saves' \in 0..MaxSaves /\ saves' # 0 /\ saves' > 0
  BY SavesCounted
<1>3. RequestFields(req) /\ At(req.path) \in Paths
  BY SaveRequestIs
<1>12. DOMAIN files = Paths
  BY DEF SaveFilesIInv, SaveFilesTypeOK
<1>4. DOMAIN files' = Paths
  BY <1>3, <1>12, OneFileChanges DEF FileWritten
<1>5. \A p \in Paths : files'[p] = files[p] \/ (p = At(req.path) /\ files'[p] = held)
  BY <1>3, <1>12, OneFileChanges DEF FileWritten
<1>6. SaveFilesTypeOK'
  <2>1. /\ save_image \in SavedImages /\ read_only \in ReadOnlyModes
        /\ \A p \in Paths : files[p].is \in {"absent", "original", "expression", "pixels"}
    BY DEF SaveFilesIInv, SaveFilesTypeOK
  <2>3. \A p \in Paths : files'[p].is \in {"absent", "original", "expression", "pixels"}
    BY <1>5, <2>1 DEF FileWritten
  <2> QED BY <1>1, <1>4, <1>2, <2>1, <2>3 DEF SaveFilesTypeOK
<1>7. SavedAsAsked'
  BY <1>1 DEF SavedAsAsked, FileWritten
<1>8. files[At(req.path)] = Absent \/ (req.path \notin {"source", "special", "directory"} /\ req.overwrite)
  BY FreeIs
<1>9. At(req.path) \notin {"directory", "special"}
  BY <1>8 DEF At, SaveFilesIInv
<1>10. FilesKept'
  <2>1. ASSUME NEW p \in Paths, files'[p] # files[p]
        PROVE  /\ p = At(req.path) /\ p \notin {"directory", "special"}
               /\ files[p] # Absent => req.overwrite /\ req.path # "source"
    BY <1>5, <1>8, <1>9, <2>1
  <2> QED BY <1>1, <2>1 DEF FilesKept
<1>11. RegionsSaved'
  BY <1>1, Zenon DEF RegionsSaved
<1>13. files'["directory"] # Absent /\ files'["special"] # Absent
  BY <1>5, <1>9 DEF SaveFilesIInv, Paths, Absent
<1> QED BY <1>1, <1>2, <1>6, <1>7, <1>10, <1>11, <1>13 DEF SaveFilesIInv, SaveFilesCorrect

LEMMA SelectionIs ==
    ASSUME SaveFilesIInv, NEW req \in SaveRequests
    PROVE  /\ Selection(req).is = "pixels" /\ Selection(req).channels = ValidChannels(req)
           /\ Selection(req).stokes = ValidStokes(req)
           /\ Selection(req).region = (req.region = "inside")
           /\ Selection(req).rest \in {HeaderRest} \cup {r.rest_freq : r \in SaveRequests}
           /\ \/ req.rest_freq # NotNumber /\ save_image.spectral /\ Selection(req).rest = req.rest_freq
              \/ (req.rest_freq = NotNumber \/ ~save_image.spectral) /\ Selection(req).rest = loader_rest
<1>1. loader_rest \in {HeaderRest} \cup {r.rest_freq : r \in SaveRequests}
  BY DEF SaveFilesIInv, SaveFilesTypeOK
<1>2. Selection(req).rest = IF req.rest_freq # NotNumber /\ save_image.spectral
                             THEN req.rest_freq ELSE loader_rest
  BY DEF Selection
<1>3. /\ Selection(req).is = "pixels" /\ Selection(req).channels = ValidChannels(req)
      /\ Selection(req).stokes = ValidStokes(req)
      /\ Selection(req).region = (req.region = "inside")
  BY DEF Selection
<1> QED BY <1>1, <1>2, <1>3

\* Frame::SaveFile of the pixels.
LEMMA SelectionStep ==
    ASSUME SaveFilesIInv, NEW req \in SaveRequests, SaveSelection(req),
           saves' = saves + 1, saves < MaxSaves, UNCHANGED <<save_image, read_only>>,
           ~read_only, req.region \notin {"unknown", "outside"}, Occupied(req) = "free"
    PROVE  SaveFilesIInv'
<1>1. PICK extends \in IF req.region = "inside" THEN RegionExtends ELSE {TRUE} :
          IF extends
          THEN \E success \in BOOLEAN :
                  /\ Export(req, success)
                  /\ ChangeRestFrequency(req)
                  /\ Acknowledge(req, success, FALSE, FALSE)
          ELSE Refuse(req, FALSE)
  BY DEF SaveSelection
<1>2. CASE ~extends
  <2>1. Refuse(req, FALSE)
    BY <1>1, <1>2
  <2>2. save_image.axes \in {"stokes", "stokes channels"}
    <3>1. req.region = "inside" /\ extends \in RegionExtends
      BY <1>1, <1>2
    <3>2. CASE save_image.axes \notin {"stokes", "stokes channels"}
      BY <1>2, <3>1, <3>2, Zenon DEF RegionExtends
    <3> QED BY <3>2, Zenon
  <2> QED BY <2>1, <2>2, RefusalKeeps, Zenon
<1>3. CASE extends
  <2>1. PICK success \in BOOLEAN : Export(req, success) /\ ChangeRestFrequency(req)
                                     /\ Acknowledge(req, success, FALSE, FALSE)
    BY <1>1, <1>3
  <2> DEFINE sel == Selection(req)
  <2>2. loader_rest' \in {HeaderRest} \cup {r.rest_freq : r \in SaveRequests}
    BY <2>1, SelectionIs DEF ChangeRestFrequency, SaveFilesIInv, SaveFilesTypeOK
  <2>3. loader_rest' = HeaderRest \/ save_image.axes = "plane"
    BY <2>1 DEF ChangeRestFrequency, SaveFilesIInv
  <2>4. CASE success
    <3>1. files' = [files EXCEPT ![At(req.path)] = sel]
      BY <2>1, <2>4 DEF Export
    <3>2. save_ack'.request = req
      BY <2>1 DEF Acknowledge
    <3>3. files'[At(req.path)] = sel
      BY <3>1, SaveRequestIs DEF SaveFilesIInv, SaveFilesTypeOK
    <3>4. OrOne(ValidChannels(req), Asked(req.channels, save_image.channels))
      BY ChannelsAreAsked DEF SaveFilesIInv, SaveFilesTypeOK
    <3>5. OrOne(ValidStokes(req), AskedStokes')
      <4>1. AskedStokes' = StokesOf(req.stokes)
        BY <3>2 DEF AskedStokes, StokesOf, Asked, InSteps
      <4> QED BY <4>1, StokesSetIsAsked DEF SaveFilesIInv, SaveFilesTypeOK
    <3>6. SavedAsAsked'
      <4>1. sel.rest = loader_rest => sel.rest = HeaderRest \/ save_image.axes = "plane"
        BY DEF SaveFilesIInv
      <4> HIDE DEF sel
      <4>2. /\ sel.is = "pixels" /\ sel.channels = ValidChannels(req) /\ sel.stokes = ValidStokes(req)
            /\ sel.region = (req.region = "inside")
            /\ \/ req.rest_freq # NotNumber /\ save_image.spectral /\ sel.rest = req.rest_freq
               \/ (req.rest_freq = NotNumber \/ ~save_image.spectral)
                     /\ (sel.rest = HeaderRest \/ save_image.axes = "plane")
        BY <4>1, SelectionIs DEF sel
      <4>3. OrOne(sel.channels, Asked(req.channels, save_image.channels)) /\ OrOne(sel.stokes, AskedStokes')
        BY <3>4, <3>5, <4>2
      <4>4. save_image' = save_image
        OBVIOUS
      <4> QED BY <3>2, <3>3, <4>2, <4>3, <4>4 DEF SavedAsAsked, OrOne, Asked
    <3>7. sel.is = "pixels"
      BY SelectionIs
    <3> HIDE DEF sel
    <3>8. FileWritten(req, success, sel)
      BY <2>1, <3>1, <3>6, <3>7 DEF FileWritten
    <3> QED BY <2>2, <2>3, <3>8, WritingKeeps
  <2>5. CASE ~success
    <3>1. files' = files \/ files' = [files EXCEPT ![At(req.path)] = Absent]
      BY <2>1, <2>5 DEF Export
    <3>2. Absent.is = "absent"
      BY DEF Absent
    <3>3. FileWritten(req, success, Absent)
      BY <2>1, <2>5, <3>1, <3>2 DEF FileWritten
    <3> QED BY <2>2, <2>3, <3>3, WritingKeeps
  <2> QED BY <2>4, <2>5
<1> QED BY <1>2, <1>3

\* Frame::SaveFile of an expression.
LEMMA ExpressionStep ==
    ASSUME SaveFilesIInv, NEW req \in SaveRequests, SaveExpression(req),
           saves' = saves + 1, saves < MaxSaves, UNCHANGED <<save_image, read_only>>,
           ~read_only, req.region \notin {"unknown", "outside"}, Occupied(req) = "free"
    PROVE  SaveFilesIInv'
<1>1. /\ save_image.expression /\ files' = [files EXCEPT ![At(req.path)] = Expression]
      /\ Acknowledge(req, TRUE, FALSE, FALSE) /\ loader_rest' = loader_rest
  BY DEF SaveExpression
<1>2. save_ack'.request = req
  BY <1>1 DEF Acknowledge
<1>3. files'[At(req.path)] = Expression
  BY <1>1, SaveRequestIs DEF SaveFilesIInv, SaveFilesTypeOK
<1>4. SavedAsAsked'
  <2>1. files'[At(save_ack'.request.path)] = Expression /\ save_image'.expression
    BY <1>1, <1>2, <1>3
  <2>2. (files[At(save_ack.request.path)] = Expression /\ save_image.expression)'
    BY <2>1 DEF Expression, At
  <2> QED BY <2>2 DEF SavedAsAsked
<1>5. Expression.is = "expression"
  BY DEF Expression
<1>6. /\ loader_rest' \in {HeaderRest} \cup {r.rest_freq : r \in SaveRequests}
      /\ loader_rest' = HeaderRest \/ save_image.axes = "plane"
  BY <1>1 DEF SaveFilesIInv, SaveFilesTypeOK
<1>7. FileWritten(req, TRUE, Expression)
  BY <1>1, <1>4, <1>5 DEF FileWritten
<1> QED BY <1>6, <1>7, WritingKeeps

\* Session::OnSaveFile.
LEMMA SaveFilesStep ==
    ASSUME SaveFilesIInv, SaveFilesNext
    PROVE  SaveFilesIInv'
<1>1. PICK req \in SaveRequests : OnSaveFile(req)
  BY DEF SaveFilesNext
<1>2. saves < MaxSaves /\ saves' = saves + 1 /\ UNCHANGED <<save_image, read_only>>
  BY <1>1 DEF SaveFilesNext, OnSaveFile
<1>3. CASE read_only \/ req.region = "unknown"
  <2>1. Refuse(req, FALSE)
    BY <1>1, <1>3 DEF OnSaveFile
  <2> QED BY <1>2, <1>3, <2>1, RefusalKeeps, Zenon
<1>4. CASE ~(read_only \/ req.region = "unknown")
  <2>1. SaveFile(req)
    BY <1>1, <1>4 DEF OnSaveFile
  <2>2. CASE Occupied(req) # "free"
    <3>1. Refuse(req, Occupied(req) = "confirm")
      BY <2>1, <2>2 DEF SaveFile
    <3>2. files[At(req.path)] # Absent
      BY <2>2 DEF Occupied
    <3> QED BY <1>2, <3>1, <3>2, RefusalKeeps, Zenon
  <2>3. CASE Occupied(req) = "free" /\ req.region = "outside"
    <3>1. Refuse(req, FALSE)
      BY <2>1, <2>3 DEF SaveFile
    <3> QED BY <1>2, <2>3, <3>1, RefusalKeeps, Zenon
  <2>4. CASE Occupied(req) = "free" /\ req.region # "outside"
    <3>1. SaveExpression(req) \/ SaveSelection(req)
      BY <2>1, <2>4 DEF SaveFile
    <3> QED BY <1>2, <1>4, <2>4, <3>1, ExpressionStep, SelectionStep
  <2> QED BY <2>2, <2>3, <2>4
<1> QED BY <1>3, <1>4

LEMMA SaveFilesStart ==
    ASSUME SaveFilesInit
    PROVE  SaveFilesIInv
<1>1. /\ DOMAIN files = Paths /\ files["directory"] = Original /\ files["special"] = Original
      /\ \A p \in Paths : files[p] \in {Absent, Original}
  BY DEF SaveFilesInit, Paths
<1>2. Absent.is = "absent" /\ Original.is = "original"
  BY DEF Absent, Original
<1>3. MaxSaves \in Nat /\ 0 \in 0..MaxSaves
  BY SaveRequestsAssumption
<1>4. \A p \in Paths : files[p].is \in {"absent", "original", "expression", "pixels"}
  BY <1>1, <1>2
<1>5. SaveFilesTypeOK
  BY <1>1, <1>3, <1>4 DEF SaveFilesInit, SaveFilesTypeOK
<1>6. Original # Absent
  BY <1>2
<1>7. save_ack = NoAck /\ saves = 0 /\ loader_rest = HeaderRest
  BY DEF SaveFilesInit
<1>8. SaveFilesCorrect
  <2>1. NoAck.success = FALSE
    BY DEF NoAck
  <2> QED BY <1>7, <2>1 DEF SaveFilesCorrect, SavedAsAsked, FilesKept, RegionsSaved
<1> QED BY <1>1, <1>5, <1>6, <1>7, <1>8 DEF SaveFilesIInv

\* The files and what is known of them stay right.
THEOREM SaveFilesInductive == SaveFilesSpec => []SaveFilesIInv
<1>1. SaveFilesIInv /\ UNCHANGED saveVars => SaveFilesIInv'
  <2> SUFFICES ASSUME SaveFilesIInv, UNCHANGED saveVars PROVE SaveFilesIInv'
    OBVIOUS
  <2>1. /\ save_image' = save_image /\ read_only' = read_only /\ files' = files
        /\ loader_rest' = loader_rest /\ saves' = saves /\ save_ack' = save_ack
    BY DEF saveVars
  <2>2. SaveFilesTypeOK'
    BY <2>1, SMTT(30) DEF SaveFilesIInv, SaveFilesTypeOK
  <2>3. SavedAsAsked' /\ FilesKept' /\ RegionsSaved'
    BY <2>1, ZenonT(40) DEF SaveFilesIInv, SaveFilesCorrect, SavedAsAsked, FilesKept, RegionsSaved, AskedStokes,
                At, Asked, OrOne, InSteps
  <2> QED BY <2>1, <2>2, <2>3 DEF SaveFilesIInv, SaveFilesCorrect
<1> QED BY <1>1, SaveFilesStart, SaveFilesStep, PTL DEF SaveFilesSpec

\* A saved file has the channels, polarizations and rest frequency that were
\* asked for, and no other file is touched (Frame::SaveFile).
THEOREM SavedFilesAreRight == SaveFilesSpec => []SaveFilesCorrect
<1>1. SaveFilesIInv => SaveFilesCorrect
  BY DEF SaveFilesIInv
<1> QED BY <1>1, SaveFilesInductive, PTL

\* Files, answers and rest frequencies have their types.
THEOREM SaveFilesTypeCorrect == SaveFilesSpec => []SaveFilesTypeOK
<1>1. SaveFilesIInv => SaveFilesTypeOK
  BY DEF SaveFilesIInv
<1> QED BY <1>1, SaveFilesInductive, PTL

(***************************************************************************)
(* Proofs about Hypercubes, for any requests of files.                     *)
(*                                                                         *)
(* A type is added after the types before it, so the planes are in the     *)
(* order of their types and each is there once. Numbers of the FITS axis   *)
(* that are all apart and in equal steps ascend or descend throughout, and *)
(* that is how the steps of the request and of the cube are compared.      *)
(***************************************************************************)

LEMMA NoErrorIsNone == NoError \notin {"open", "kinds", "axis", "shapes", "coordinates", "library"}
  BY Zenon DEF NoError

\* Numbers that ascend from each place to the next ascend.
LEMMA AscendingThroughout ==
    ASSUME NEW n \in Nat, NEW N, N \subseteq 1..n, NEW g, \A i \in N : g[i] \in Int,
           \A i, j \in N : (i < j /\ \A k \in N : k <= i \/ j <= k) => g[i] < g[j]
    PROVE  \A i, j \in N : i < j => g[i] < g[j]
<1> DEFINE G == {m \in 0..n : \A i, j \in N : (i < j /\ j <= m) => g[i] < g[j]}
<1>1. 0 \in G
  OBVIOUS
<1>2. ASSUME NEW m \in 0..n - 1, m \in G PROVE m + 1 \in G
  <2>1. m + 1 \in 0..n
    OBVIOUS
  <2>2. ASSUME NEW i \in N, NEW j \in N, i < j, j <= m + 1
        PROVE  g[i] < g[j]
    <3>1. CASE j <= m
      BY <1>2, <2>2, <3>1
    <3>2. CASE j = m + 1
      <4> DEFINE P == {k \in N : k < j}
      <4>1. P \subseteq 0..n /\ i \in P
        <5>1. \A k \in N : k \in 0..n
          OBVIOUS
        <5> QED BY <2>2, <5>1
      <4>2. PICK p \in P : \A y \in P : y <= p
        <5> HIDE DEF P
        <5> QED BY <4>1, GreatestNumber
      <4>3. p \in N /\ p < j /\ i <= p /\ \A k \in N : k <= p \/ j <= k
        BY <4>1, <4>2
      <4>4. g[p] < g[j]
        BY <4>3
      <4>5. CASE i = p
        BY <4>4, <4>5
      <4>6. CASE i < p
        <5>1. g[i] < g[p]
          BY <1>2, <3>2, <4>3, <4>6
        <5> QED BY <4>3, <4>4, <5>1
      <4> QED BY <4>3, <4>5, <4>6
    <3> QED BY <2>2, <3>1, <3>2
  <2> QED BY <2>1, <2>2
<1>3. 0..n \subseteq G
  <2> HIDE DEF G
  <2> QED BY <1>1, <1>2, InductionTo
<1>4. n \in G
  <2>1. n \in 0..n
    OBVIOUS
  <2> HIDE DEF G
  <2> QED BY <1>3, <2>1
<1>5. \A j \in N : j <= n
  OBVIOUS
<1> QED BY <1>4, <1>5

\* What comes after what among the places N.
Neighbours(N, i, j) == i \in N /\ j \in N /\ i < j /\ \A k \in N : k <= i \/ j <= k

\* Different numbers in equal steps ascend or descend.
LEMMA EqualStepsAscendOrDescend ==
    ASSUME NEW n \in Nat, NEW N, N \subseteq 1..n, NEW g, \A i \in N : g[i] \in Int,
           \A i, j \in N : i # j => g[i] # g[j],
           \A i, j, k, l \in N : Neighbours(N, i, j) /\ Neighbours(N, k, l) => g[j] - g[i] = g[l] - g[k]
    PROVE  \/ \A i, j \in N : i < j => g[i] < g[j]
           \/ \A i, j \in N : i < j => g[j] < g[i]
<1>1. CASE \A i, j \in N : Neighbours(N, i, j) => g[i] < g[j]
  <2>1. \A i, j \in N : (i < j /\ \A k \in N : k <= i \/ j <= k) => g[i] < g[j]
    BY <1>1 DEF Neighbours
  <2> QED BY <2>1, AscendingThroughout
<1>2. ASSUME NEW a \in N, NEW b \in N, Neighbours(N, a, b), ~(g[a] < g[b])
      PROVE  \A i, j \in N : i < j => g[j] < g[i]
  <2> DEFINE h == [i \in N |-> 0 - g[i]]
  <2>1. g[b] < g[a]
    <3>1. a < b /\ a \in Int /\ b \in Int
      BY <1>2 DEF Neighbours
    <3>2. a # b /\ g[a] \in Int /\ g[b] \in Int
      BY <3>1
    <3>3. g[a] # g[b]
      BY <3>2
    <3> QED BY <1>2, <3>2, <3>3
  <2>2. ASSUME NEW i \in N, NEW j \in N, Neighbours(N, i, j) PROVE g[j] < g[i]
    <3>1. g[j] - g[i] = g[b] - g[a]
      BY <1>2, <2>2
    <3> QED BY <2>1, <3>1
  <2>3. \A i \in N : h[i] = 0 - g[i] /\ h[i] \in Int
    OBVIOUS
  <2>4. \A i, j \in N : (i < j /\ \A k \in N : k <= i \/ j <= k) => h[i] < h[j]
    <3>1. ASSUME NEW i \in N, NEW j \in N, i < j, \A k \in N : k <= i \/ j <= k
          PROVE  h[i] < h[j]
      <4>1. g[j] < g[i]
        BY <2>2, <3>1 DEF Neighbours
      <4> QED BY <2>3, <4>1
    <3> QED BY <3>1
  <2> HIDE DEF h
  <2>5. \A i, j \in N : i < j => h[i] < h[j]
    BY <2>3, <2>4, AscendingThroughout
  <2> QED BY <2>3, <2>5
<1> QED BY <1>1, <1>2

\* Two numbers of such with none between them are beside each other.
LEMMA ClosestAreNeighbours ==
    ASSUME NEW n \in Nat, NEW N, N \subseteq 1..n, NEW g, \A i \in N : g[i] \in Int,
           \/ \A i, j \in N : i < j => g[i] < g[j]
           \/ \A i, j \in N : i < j => g[j] < g[i],
           NEW i \in N, NEW j \in N, i < j,
           \A k \in N : ~(g[i] < g[k] /\ g[k] < g[j]) /\ ~(g[j] < g[k] /\ g[k] < g[i])
    PROVE  Neighbours(N, i, j)
<1>1. ASSUME NEW k \in N, i < k, k < j PROVE FALSE
  BY <1>1
<1> QED BY <1>1 DEF Neighbours

ConcatRequestFields(req) ==
    /\ Len(req) \in Nat /\ DOMAIN req = 1..Len(req) /\ Len(req) # 0
    /\ \A i \in 1..Len(req) : req[i].type \in 0..StokesTypes

LEMMA ConcatRequestIs ==
    ASSUME NEW req \in ConcatRequests
    PROVE  ConcatRequestFields(req)
<1>1. req # <<>> /\ req \in Seq({req[i] : i \in DOMAIN req})
  BY ConcatRequestsAssumption
<1>2. \A i \in DOMAIN req : req[i].type \in 0..StokesTypes
  BY ConcatRequestsAssumption
<1>3. Len(req) \in Nat /\ DOMAIN req = 1..Len(req)
  <2> DEFINE S == {req[i] : i \in DOMAIN req}
  <2>1. req \in Seq(S)
    BY <1>1
  <2> HIDE DEF S
  <2> QED BY <2>1
<1>4. Len(req) # 0
  <2> DEFINE S == {req[i] : i \in DOMAIN req}
  <2>1. req \in Seq(S)
    BY <1>1
  <2> HIDE DEF S
  <2> QED BY <1>1, <2>1
<1> QED BY <1>2, <1>3, <1>4 DEF ConcatRequestFields

\* What lists the numbers of a set, each once and in their order.
Lists(r, T) ==
    /\ r \in Seq(1..StokesTypes) /\ Len(r) = Cardinality(T) /\ T = {r[i] : i \in 1..Len(r)}
    /\ \A i, j \in 1..Len(r) : i < j => r[i] < r[j]

LEMMA ListsNothing == Lists(<<>>, {})
<1>1. <<>> \in Seq(1..StokesTypes)
  BY SMTT(30)
<1> QED BY <1>1, FS_EmptySet DEF Lists

LEMMA ListsOneMore ==
    ASSUME NEW n \in 1..StokesTypes, NEW T, T \subseteq 1..n - 1, NEW r, Lists(r, T)
    PROVE  Lists(Append(r, n), T \cup {n})
<1> DEFINE a == Append(r, n)
<1>1. r \in Seq(1..StokesTypes) /\ Len(r) \in Nat /\ StokesTypes \in Nat
  <2>1. r \in Seq(1..StokesTypes) /\ StokesTypes \in Nat
    BY Zenon DEF Lists, StokesTypes
  <2> QED BY <2>1, SMTT(30)
<1>2. /\ a \in Seq(1..StokesTypes) /\ Len(a) = Len(r) + 1 /\ a[Len(r) + 1] = n
      /\ \A i \in 1..Len(r) : a[i] = r[i]
  BY <1>1, SMTT(30)
<1> HIDE DEF a
<1>3. Len(a) = Cardinality(T \cup {n})
  <2>1. IsFiniteSet(T)
    <3>1. IsFiniteSet(1..n - 1)
      BY FS_Interval, n - 1 \in Int
    <3> QED BY <3>1, FS_Subset
  <2>2. n \notin T
    OBVIOUS
  <2>3. Cardinality(T \cup {n}) = Cardinality(T) + 1
    BY <2>1, <2>2, FS_AddElement
  <2> QED BY <1>2, <2>3, Zenon DEF Lists
<1>4. T \cup {n} = {a[i] : i \in 1..Len(a)}
  <2>1. \A x \in T : \E i \in 1..Len(r) : x = r[i]
    BY ZenonT(40) DEF Lists
  <2>2. \A i \in 1..Len(r) : r[i] \in T
    BY Zenon DEF Lists
  <2>3. ASSUME NEW x \in T \cup {n} PROVE \E i \in 1..Len(a) : x = a[i]
    <3>1. CASE x = n
      BY <1>1, <1>2, <3>1, SMTT(30)
    <3>2. CASE x \in T
      <4>1. PICK i \in 1..Len(r) : x = r[i]
        BY <2>1, <3>2
      <4>2. i \in 1..Len(a) /\ x = a[i]
        BY <1>1, <1>2, <4>1
      <4> QED BY <4>2
    <3> QED BY <3>1, <3>2
  <2>4. ASSUME NEW i \in 1..Len(a) PROVE a[i] \in T \cup {n}
    <3>1. i \in 1..Len(r) \/ i = Len(r) + 1
      BY <1>1, <1>2
    <3> QED BY <1>2, <2>2, <3>1
  <2> QED BY <2>3, <2>4, SMTT(30)
<1>5. ASSUME NEW i \in 1..Len(a), NEW j \in 1..Len(a), i < j
      PROVE  a[i] < a[j]
  <2>1. i \in 1..Len(r) /\ r[i] \in T
    <3>1. i \in 1..Len(r)
      BY <1>1, <1>2, <1>5
    <3> QED BY <3>1, Zenon DEF Lists
  <2>2. CASE j = Len(r) + 1
    <3>1. a[i] = r[i] /\ a[j] = n /\ r[i] \in 1..n - 1
      BY <1>2, <2>1, <2>2, Zenon
    <3> QED BY <3>1
  <2>3. CASE j # Len(r) + 1
    <3>1. j \in 1..Len(r)
      BY <1>1, <1>2, <2>3
    <3> QED BY <1>2, <1>5, <2>1, <3>1, Zenon DEF Lists
  <2> QED BY <2>2, <2>3
<1> QED BY <1>2, <1>3, <1>4, <1>5, Zenon DEF Lists, a

\* The loop of DoConcat goes through the polarizations of the files in their order.
LEMMA InOrderListsTypes ==
    ASSUME NEW req \in ConcatRequests
    PROVE  Lists(InOrder(req), TypesOf(req) \ {0})
<1> DEFINE n == StokesTypes
           Y == Seq(1..StokesTypes)
           z == <<>>
           Next(r, i) == IF i \in TypesOf(req) THEN Append(r, i) ELSE r
           Body(r) == [i \in 0..n |-> IF i = 0 THEN z ELSE Next(r[i - 1], i)]
           added == CHOOSE r : r = Body(r)
           step == [i \in 1..n |-> [r \in Y |-> Next(r, i)]]
<1>1. n \in Nat /\ z \in Y
  BY DEF StokesTypes
<1>2. InOrder(req) = added[n]
  BY DEF InOrder
<1>3. \A r \in Y : \A i \in 1..n : Next(r, i) \in Y
  <2>1. ASSUME NEW r \in Y, NEW i \in 1..n PROVE Append(r, i) \in Y
    <3>1. r \in Seq(1..StokesTypes) /\ i \in 1..StokesTypes
      OBVIOUS
    <3> QED BY <3>1
  <2> QED BY <2>1
<1>4. step \in [1..n -> [Y -> Y]]
  <2> HIDE DEF Next, Y
  <2> QED BY <1>3
<1> HIDE DEF n, Y, z
<1>5. PICK g \in [0..n -> Y] : Recursive(g, n, z, step)
  <2> HIDE DEF step
  <2> QED BY <1>1, <1>4, RecursionTo
<1>6. \A i \in 1..n : g[i] = Next(g[i - 1], i)
  <2>1. \A i \in 1..n : g[i - 1] \in Y
    BY <1>1
  <2> HIDE DEF Next
  <2> QED BY <1>5, <2>1 DEF Recursive
<1> HIDE DEF Next
<1>7. g = Body(g)
  <2>1. \A i \in 0..n : g[i] = Body(g)[i]
    BY <1>1, <1>5, <1>6 DEF Recursive
  <2> QED BY <1>5, <2>1
<1>8. added = Body(added)
  <2> HIDE DEF Body
  <2> QED BY <1>7
<1>9. added[0] = z /\ \A i \in 1..n : added[i] = Next(added[i - 1], i)
  <2> HIDE DEF added
  <2>1. \A i \in 0..n : added[i] = IF i = 0 THEN z ELSE Next(added[i - 1], i)
    BY <1>8
  <2> QED BY <2>1, <1>1
<1> HIDE DEF added
<1> DEFINE Of(i) == TypesOf(req) \cap 1..i
           G == {i \in 0..n : Lists(added[i], Of(i))}
<1>10. 0 \in G
  <2>1. Of(0) = {}
    OBVIOUS
  <2>2. 0 \in 0..n
    BY <1>1
  <2> QED BY <1>9, <2>1, <2>2, ListsNothing DEF z
<1>11. ASSUME NEW i \in 0..n - 1, i \in G PROVE i + 1 \in G
  <2>1. i + 1 \in 1..n /\ i + 1 \in 0..n /\ i + 1 - 1 = i
    BY <1>1
  <2>2. added[i + 1] = IF i + 1 \in TypesOf(req) THEN Append(added[i], i + 1) ELSE added[i]
    <3>1. added[i + 1] = Next(added[i + 1 - 1], i + 1)
      BY <1>9, <2>1
    <3> QED BY <2>1, <3>1 DEF Next
  <2>3. Lists(added[i], Of(i))
    BY <1>11
  <2>4. CASE i + 1 \in TypesOf(req)
    <3>1. Of(i + 1) = Of(i) \cup {i + 1}
      BY <1>1, <2>1, <2>4
    <3>2. Of(i) \subseteq 1..(i + 1) - 1
      BY <2>1
    <3>3. i + 1 \in 1..StokesTypes
      BY <2>1 DEF n
    <3> HIDE DEF Of
    <3>4. Lists(Append(added[i], i + 1), Of(i) \cup {i + 1})
      BY <2>3, <3>2, <3>3, ListsOneMore
    <3> QED BY <2>1, <2>2, <2>4, <3>1, <3>4
  <2>5. CASE i + 1 \notin TypesOf(req)
    <3>1. Of(i + 1) = Of(i)
      BY <1>1, <2>1, <2>5
    <3> HIDE DEF Of
    <3> QED BY <2>1, <2>2, <2>3, <2>5, <3>1
  <2> QED BY <2>4, <2>5
<1>12. n \in G
  <2> HIDE DEF G
  <2>1. 0..n \subseteq G
    BY <1>1, <1>10, <1>11, InductionTo
  <2> QED BY <1>1, <2>1
<1>13. Of(n) = TypesOf(req) \ {0}
  <2>1. \A t \in TypesOf(req) : t \in 0..n
    BY ConcatRequestIs DEF ConcatRequestFields, TypesOf, n
  <2> QED BY <1>1, <2>1
<1> QED BY <1>2, <1>12, <1>13

\* The planes of a hypercube, by the listed polarizations.

LEMMA PlanesAre ==
    ASSUME NEW req \in ConcatRequests
    PROVE  LET types == InOrder(req)
           IN /\ Len(types) \in Nat /\ DOMAIN types = 1..Len(types) /\ DOMAIN Planes(req) = 1..Len(types)
              /\ Len(Planes(req)) = Len(types)
              /\ \A i \in 1..Len(types) :
                    /\ types[i] \in 1..StokesTypes /\ types[i] \in TypesOf(req)
                    /\ Planes(req)[i].label = LabelOf(types[i])
                    /\ Planes(req)[i].file = FileOfType(req, types[i])
<1> DEFINE types == InOrder(req)
<1>1. Lists(types, TypesOf(req) \ {0})
  BY InOrderListsTypes
<1>2. types \in Seq(1..StokesTypes) /\ \A i \in 1..Len(types) : types[i] \in TypesOf(req)
  BY <1>1 DEF Lists
<1>3. Planes(req) = [i \in DOMAIN types |-> [label |-> LabelOf(types[i]), file |-> FileOfType(req, types[i])]]
  BY DEF Planes
<1> HIDE DEF types
<1>4. Len(types) \in Nat /\ DOMAIN types = 1..Len(types)
  BY <1>2
<1>5. Len(Planes(req)) = Len(types) /\ DOMAIN Planes(req) = 1..Len(types)
  BY <1>3, <1>4
<1>6. ASSUME NEW i \in 1..Len(types)
      PROVE  /\ types[i] \in 1..StokesTypes /\ types[i] \in TypesOf(req)
             /\ Planes(req)[i].label = LabelOf(types[i])
             /\ Planes(req)[i].file = FileOfType(req, types[i])
  <2>1. Planes(req)[i] = [label |-> LabelOf(types[i]), file |-> FileOfType(req, types[i])]
    BY <1>3, <1>4
  <2>2. types[i] \in 1..StokesTypes
    <3> DEFINE S == 1..StokesTypes
    <3>1. types \in Seq(S)
      BY <1>2
    <3> HIDE DEF S
    <3>2. types[i] \in S
      BY <1>4, <3>1
    <3> QED BY <3>2 DEF S
  <2> QED BY <1>2, <2>1, <2>2
<1> QED BY <1>4, <1>5, <1>6 DEF types

LEMMA FileOfTypeIs ==
    ASSUME NEW req, NEW t \in TypesOf(req)
    PROVE  \E i \in DOMAIN req : req[i].type = t /\ FileOfType(req, t) = req[i].file
<1>1. \E i \in DOMAIN req : req[i].type = t
  BY DEF TypesOf
<1> QED BY <1>1 DEF FileOfType

\* The first stop is one, and there is none if it is 0.
LEMMA FirstStopIs ==
    ASSUME NEW req \in ConcatRequests
    PROVE  \/ FirstStop(req) = 0 /\ \A i \in 1..Len(req) : ~OpenStops(req, i)
           \/ FirstStop(req) \in 1..Len(req) /\ OpenStops(req, FirstStop(req))
<1> DEFINE stops == {i \in DOMAIN req : OpenStops(req, i)}
<1>1. Len(req) \in Nat /\ DOMAIN req = 1..Len(req)
  BY ConcatRequestIs DEF ConcatRequestFields
<1>2. FirstStop(req) = IF stops = {} THEN 0 ELSE CHOOSE i \in stops : \A j \in stops : i <= j
  BY DEF FirstStop
<1>3. CASE stops = {}
  BY <1>1, <1>2, <1>3
<1>4. CASE stops # {}
  <2>1. stops \subseteq 0..Len(req)
    BY <1>1
  <2>2. \E i \in stops : \A j \in stops : i <= j
    <3> HIDE DEF stops
    <3> QED BY <1>1, <1>4, <2>1, LeastNumber
  <2>3. FirstStop(req) \in stops
    <3> HIDE DEF stops
    <3> QED BY <1>2, <1>4, <2>2
  <2> QED BY <1>1, <2>3
<1> QED BY <1>3, <1>4

\* What is known of the files of a request that gives a hypercube.
LEMMA FilesThatOpen ==
    ASSUME NEW req \in ConcatRequests, OpenError(req) = NoError
    PROVE  /\ \A i, j \in 1..Len(req) : i # j => req[i].type # req[j].type
           /\ \A i \in 1..Len(req) : req[i].file.kind = req[1].file.kind
           /\ Len(req) > 2 => EqualSteps(Types(req))
<1>1. FirstStop(req) = 0 /\ (Len(req) > 2 => EqualSteps(Types(req)))
  BY NoErrorIsNone DEF OpenError
<1>2. Len(req) \in Nat
  BY ConcatRequestIs DEF ConcatRequestFields
<1>3. \A i \in 1..Len(req) : ~OpenStops(req, i)
  <2>1. 0 \notin 1..Len(req)
    BY <1>2
  <2> QED BY <1>1, <2>1, FirstStopIs, Zenon
<1>4. ASSUME NEW i \in 1..Len(req), NEW j \in 1..Len(req), i < j
      PROVE  req[i].type # req[j].type
  <2>1. ~DuplicateAt(req, j)
    BY <1>3, Zenon DEF OpenStops
  <2>2. i \in 1..j - 1
    BY <1>2, <1>4
  <2> QED BY <2>1, <2>2 DEF DuplicateAt
<1>5. \A i, j \in 1..Len(req) : i # j => req[i].type # req[j].type
  <2>1. \A i, j \in 1..Len(req) : i # j => i < j \/ j < i
    BY <1>2
  <2> QED BY <1>4, <2>1
<1>6. \A i \in 1..Len(req) : req[i].file.kind = req[1].file.kind
  BY <1>3, Zenon DEF OpenStops
<1> QED BY <1>1, <1>5, <1>6

LEMMA NoErrorIs ==
    ASSUME NEW req, ConcatError(req) = NoError
    PROVE  OpenError(req) = NoError /\ StokesFilesValid(req)
<1>1. OpenError(req) = NoError
  BY DEF ConcatError
<1>2. StokesFilesValid(req)
  BY <1>1, NoErrorIsNone DEF ConcatError
<1> QED BY <1>1, <1>2

\* The planes of a request whose files go together.
LEMMA PlanesAreAsAsked ==
    ASSUME NEW req \in ConcatRequests, ConcatError(req) = NoError,
           concat_request = req, hypercube = Planes(req)
    PROVE  PlanesAsAsked
<1> DEFINE types == InOrder(req)
<1>1. /\ Len(types) \in Nat /\ DOMAIN types = 1..Len(types) /\ DOMAIN hypercube = 1..Len(types)
      /\ Len(hypercube) = Len(types)
      /\ \A i \in 1..Len(types) :
            /\ types[i] \in 1..StokesTypes /\ types[i] \in TypesOf(req)
            /\ hypercube[i].label = LabelOf(types[i])
            /\ hypercube[i].file = FileOfType(req, types[i])
  BY PlanesAre
<1>2. Len(types) = Cardinality(TypesOf(req) \ {0})
      /\ \A i, j \in 1..Len(types) : i < j => types[i] < types[j]
  BY InOrderListsTypes DEF Lists
<1>3. DOMAIN req = 1..Len(req) /\ 1 \in 1..Len(req)
  <2>1. ConcatRequestFields(req)
    BY ConcatRequestIs
  <2>2. DOMAIN req = 1..Len(req) /\ Len(req) \in Nat /\ Len(req) # 0
    BY <2>1 DEF ConcatRequestFields
  <2> QED BY <2>2
<1>4. \A i \in 1..Len(req) : req[i].file.kind = req[1].file.kind /\ req[i].file.shape = req[1].file.shape
  BY <1>3, NoErrorIs, FilesThatOpen DEF StokesFilesValid
<1> HIDE DEF types
<1>5. ASSUME NEW i \in 1..Len(types)
      PROVE  \/ \E j \in 1..Len(req) : req[j].type = hypercube[i].label /\ req[j].file = hypercube[i].file
             \/ hypercube[i].label = Unset /\ \E t \in TypesOf(req) : t > 12
  <2>4. types[i] \in TypesOf(req)
    BY <1>1
  <2>1. PICK j \in 1..Len(req) : req[j].type = types[i] /\ FileOfType(req, types[i]) = req[j].file
    BY <2>4, <1>3, FileOfTypeIs, ZenonT(40)
  <2>2. CASE types[i] \in Labels
    BY <1>1, <2>1, <2>2 DEF LabelOf
  <2>3. CASE types[i] \notin Labels
    <3>1. hypercube[i].label = Unset
      BY <1>1, <2>3 DEF LabelOf
    <3>2. types[i] > 12
      <4>1. types[i] \in 1..StokesTypes
        BY <1>1
      <4> QED BY <2>3, <4>1, SMTT(30) DEF Labels, StokesTypes
    <3> QED BY <2>4, <3>1, <3>2
  <2> QED BY <2>2, <2>3
<1>6. ASSUME NEW i \in 1..Len(types)
      PROVE  hypercube[i].file.kind = req[1].file.kind /\ hypercube[i].file.shape = req[1].file.shape
  <2>2. types[i] \in TypesOf(req)
    BY <1>1
  <2>1. PICK j \in 1..Len(req) : FileOfType(req, types[i]) = req[j].file
    BY <2>2, <1>3, FileOfTypeIs, ZenonT(40)
  <2> QED BY <1>1, <1>4, <2>1
<1>7. ASSUME NEW i \in 1..Len(types), NEW j \in 1..Len(types), i < j, hypercube[j].label # Unset
      PROVE  hypercube[i].label < hypercube[j].label
  <2>1. types[i] < types[j] /\ types[i] \in 1..StokesTypes /\ types[j] \in 1..StokesTypes
    BY <1>1, <1>2, <1>7
  <2>2. types[j] \in Labels /\ hypercube[j].label = types[j]
    BY <1>1, <1>7 DEF LabelOf
  <2>3. types[i] \in Labels
    <3> DEFINE a == types[i]
               b == types[j]
    <3>1. a < b /\ a \in 1..StokesTypes /\ b \in 1..12
      BY <2>1, <2>2 DEF Labels
    <3> HIDE DEF a, b
    <3>2. a \in 1..12
      BY <3>1 DEF StokesTypes
    <3> QED BY <3>2 DEF a, Labels
  <2>4. hypercube[i].label = types[i]
    BY <1>1, <2>3 DEF LabelOf
  <2> QED BY <2>1, <2>2, <2>4
<1>8. \A i \in DOMAIN hypercube :
        \/ \E j \in DOMAIN concat_request :
              /\ concat_request[j].type = hypercube[i].label
              /\ concat_request[j].file = hypercube[i].file
        \/ hypercube[i].label = Unset /\ \E t \in TypesOf(concat_request) : t > 12
  BY <1>1, <1>3, <1>5
<1>9. Len(hypercube) = Cardinality(TypesOf(concat_request) \ {0})
  BY <1>1, <1>2
<1>10. \A i, j \in DOMAIN hypercube :
         /\ hypercube[i].file.shape = hypercube[j].file.shape
         /\ hypercube[i].file.kind = hypercube[j].file.kind
         /\ i < j /\ hypercube[j].label # Unset => hypercube[i].label < hypercube[j].label
  BY <1>1, <1>6, <1>7
<1> QED BY <1>8, <1>9, <1>10 DEF PlanesAsAsked

\* Files in ascending order have no duplicates, and go together if they are alike.
LEMMA AscendingFilesAccepted ==
    ASSUME NEW req \in ConcatRequests, Len(req) >= 2,
           \A i \in 1..Len(req) : req[i].file = req[1].file /\ req[i].file.opens /\ req[i].file.planes = 1,
           TypesOf(req) \subseteq Labels, \A i \in 1..Len(req) - 1 : req[i].type < req[i + 1].type
    PROVE  ConcatError(req) = NoError \/ ~EqualSteps(Types(req))
<1>1. ConcatRequestFields(req)
  BY ConcatRequestIs
<1> DEFINE n == Len(req)
           N == 1..n
           g == [i \in N |-> req[i].type]
<1>2. \A i, j \in 1..n : i < j => req[i].type < req[j].type
  <2>1. \A i \in N : g[i] = req[i].type /\ g[i] \in Int
    BY <1>1 DEF ConcatRequestFields
  <2>2. ASSUME NEW i \in N, NEW j \in N, i < j, \A k \in N : k <= i \/ j <= k
        PROVE  g[i] < g[j]
    <3>1. n \in Nat
      BY <1>1 DEF ConcatRequestFields
    <3>2. j = i + 1 /\ i \in 1..n - 1
      BY <2>2, <3>1
    <3> QED BY <2>1, <3>2
  <2>3. n \in Nat
    BY <1>1 DEF ConcatRequestFields
  <2> HIDE DEF g
  <2>4. N \subseteq 1..n
    OBVIOUS
  <2> HIDE DEF N, n
  <2>5. \A i, j \in N : i < j => g[i] < g[j]
    BY <2>1, <2>2, <2>3, <2>4, AscendingThroughout
  <2> QED BY <2>1, <2>5 DEF N
<1>3. ASSUME NEW i \in 1..n PROVE ~OpenStops(req, i)
  <2>1. ASSUME NEW j \in 1..i - 1 PROVE req[j].type # req[i].type
    <3>1. j \in 1..n /\ j < i
      BY <1>1 DEF ConcatRequestFields
    <3>2. req[j].type < req[i].type /\ req[i].type \in Int /\ req[j].type \in Int
      BY <1>1, <1>2, <3>1 DEF ConcatRequestFields
    <3> QED BY <3>2
  <2>2. ~DuplicateAt(req, i)
    BY <2>1 DEF DuplicateAt
  <2> QED BY <2>2 DEF OpenStops
<1>4. FirstStop(req) = 0
  BY <1>3, FirstStopIs
<1>5. ASSUME EqualSteps(Types(req)) PROVE OpenError(req) = NoError
  <2>1. ~(Len(req) < 2)
    BY <1>1 DEF ConcatRequestFields
  <2> QED BY <1>4, <1>5, <2>1 DEF OpenError
<1>6. DOMAIN req = 1..n
  BY <1>1 DEF ConcatRequestFields
<1>7. StokesFilesValid(req)
  <2>1. \A i \in DOMAIN req : req[i].file = req[1].file
    BY <1>6
  <2> QED BY <2>1 DEF StokesFilesValid
<1>8. ~(\/ ~req[1].file.axis /\ ~TypesOf(req) \subseteq Labels
        \/ req[1].file.axis /\ \E i \in DOMAIN req : req[i].type # 0 /\ req[i].file.planes # 1)
  BY <1>6
<1> QED BY <1>5, <1>7, <1>8 DEF ConcatError

FitsOrdered(S) ==
    /\ \A z \in S : FitsValue(z) \in Int /\ z \in Int
    /\ \/ \A a, b \in S : a < b <=> FitsValue(a) < FitsValue(b)
       \/ \A a, b \in S : a < b <=> FitsValue(b) < FitsValue(a)

\* The polarizations are numbered one way in each of two groups.
LEMMA FitsValueOrder ==
    ASSUME NEW S, S \subseteq 1..4 \/ S \subseteq 5..12
    PROVE  FitsOrdered(S)
<1>1. CASE S \subseteq 1..4
  <2>1. \A x \in S : FitsValue(x) = x /\ x \in 1..4
    BY <1>1 DEF FitsValue
  <2> QED BY <2>1 DEF FitsOrdered
<1>2. CASE S \subseteq 5..12
  <2>1. \A x \in S : FitsValue(x) = 4 - x /\ x \in 5..12
    BY <1>2 DEF FitsValue
  <2> QED BY <2>1 DEF FitsOrdered
<1> QED BY <1>1, <1>2

Numbered(types) == {i \in DOMAIN types : HasFitsValue(types[i])}

LEMMA FollowingIs ==
    ASSUME NEW types, NEW i, NEW j
    PROVE  <<i, j>> \in Following(types) <=> Neighbours(Numbered(types), i, j)
  BY DEF Following, Numbered, Neighbours

\* Polarizations of one group that come in equal steps: a step between two of
\* them with none between them is one of these, or goes the other way.
LEMMA StepsAmongFiles ==
    ASSUME NEW req \in ConcatRequests, EqualSteps(Types(req)),
           \A i, j \in 1..Len(req) : i # j => req[i].type # req[j].type,
           NEW S, S \subseteq 1..4 \/ S \subseteq 5..12,
           \A z : z \in S <=> z \in TypesOf(req) /\ z \in Labels,
           NEW x \in S, NEW y \in S, x < y, \A z \in S : z <= x \/ y <= z
    PROVE  \E p \in Following(Types(req)) :
              \/ StepOver(Types(req), p) = FitsValue(y) - FitsValue(x)
              \/ StepOver(Types(req), p) = FitsValue(x) - FitsValue(y)
<1> DEFINE m == Types(req)
           n == Len(req)
           N == Numbered(m)
           g == [i \in N |-> FitsValue(m[i])]
<1>1. n \in Nat /\ DOMAIN req = 1..n /\ DOMAIN m = 1..n /\ \A i \in 1..n : m[i] = req[i].type
  BY ConcatRequestIs DEF ConcatRequestFields, Types
<1>2. N \subseteq 1..n /\ \A i \in 1..n : i \in N <=> m[i] \in 1..12
  BY <1>1 DEF Numbered, HasFitsValue
<1>3. \A i \in N : m[i] \in S
  <2>1. \A i \in N : req[i].type \in TypesOf(req) /\ m[i] = req[i].type /\ m[i] \in 1..12
    BY <1>1, <1>2 DEF TypesOf
  <2> QED BY <2>1 DEF Labels
<1>4. \A z \in S : \E i \in N : m[i] = z
  <2>1. ASSUME NEW z \in S PROVE \E i \in N : m[i] = z
    <3>1. z \in TypesOf(req) /\ z \in 1..12
      BY DEF Labels
    <3>2. PICK i \in DOMAIN req : req[i].type = z
      BY <3>1 DEF TypesOf
    <3> QED BY <1>1, <1>2, <3>1, <3>2
  <2> QED BY <2>1
<1>5. \A i, j \in N : i # j => m[i] # m[j]
  BY <1>1, <1>2
<1>6. \A i, j \in N : StepOver(m, <<i, j>>) = g[j] - g[i]
  BY DEF StepOver
<1>7. /\ \A z \in S : FitsValue(z) \in Int /\ z \in Int
      /\ \/ \A a, b \in S : a < b <=> FitsValue(a) < FitsValue(b)
         \/ \A a, b \in S : a < b <=> FitsValue(b) < FitsValue(a)
  <2> HIDE DEF g, N, m, n
  <2>1. /\ \A z \in S : FitsValue(z) \in Int /\ z \in Int
        /\ \/ \A a, b \in S : a < b <=> FitsValue(a) < FitsValue(b)
           \/ \A a, b \in S : a < b <=> FitsValue(b) < FitsValue(a)
    BY FitsValueOrder DEF FitsOrdered
  <2> QED BY <2>1
<1>8. \A i \in N : g[i] = FitsValue(m[i]) /\ g[i] \in Int
  BY <1>3, <1>7
<1>9. \A i, j \in N : i # j => g[i] # g[j]
  <2>1. ASSUME NEW i \in N, NEW j \in N, i # j PROVE g[i] # g[j]
    <3>1. m[i] \in S /\ m[j] \in S /\ m[i] # m[j]
      BY <1>3, <1>5, <2>1
    <3>2. m[i] < m[j] \/ m[j] < m[i]
      BY <1>7, <3>1
    <3>3. FitsValue(m[i]) # FitsValue(m[j])
      BY <1>7, <3>1, <3>2
    <3> QED BY <1>8, <3>3
  <2> QED BY <2>1
<1>10. \A i, j, k, l \in N : Neighbours(N, i, j) /\ Neighbours(N, k, l) => g[j] - g[i] = g[l] - g[k]
  <2>1. ASSUME NEW i \in N, NEW j \in N, NEW k \in N, NEW l \in N, Neighbours(N, i, j), Neighbours(N, k, l)
        PROVE  g[j] - g[i] = g[l] - g[k]
    <3>1. <<i, j>> \in Following(m) /\ <<k, l>> \in Following(m)
      BY <2>1, FollowingIs
    <3>2. StepOver(m, <<i, j>>) = StepOver(m, <<k, l>>)
      BY <3>1 DEF EqualSteps
    <3> QED BY <1>6, <3>2
  <2> QED BY <2>1
<1> HIDE DEF g
<1> HIDE DEF N, n, m
<1>11. \/ \A i, j \in N : i < j => g[i] < g[j]
       \/ \A i, j \in N : i < j => g[j] < g[i]
  BY <1>1, <1>2, <1>8, <1>9, <1>10, EqualStepsAscendOrDescend
<1>12. PICK i \in N, j \in N : m[i] = x /\ m[j] = y
  BY <1>4
<1>13. \A k \in N : ~(g[i] < g[k] /\ g[k] < g[j]) /\ ~(g[j] < g[k] /\ g[k] < g[i])
  <2>1. ASSUME NEW k \in N, (g[i] < g[k] /\ g[k] < g[j]) \/ (g[j] < g[k] /\ g[k] < g[i])
        PROVE  FALSE
    <3> DEFINE z == m[k]
    <3>1. z \in S /\ g[k] = FitsValue(z) /\ g[i] = FitsValue(x) /\ g[j] = FitsValue(y)
      BY <1>3, <1>8, <1>12
    <3> HIDE DEF z
    <3>2. z <= x \/ y <= z
      BY <3>1
    <3>3. FitsValue(x) \in Int /\ FitsValue(y) \in Int /\ FitsValue(z) \in Int
          /\ x \in Int /\ y \in Int /\ z \in Int
      BY <1>7, <3>1
    <3>4. CASE \A a, b \in S : a < b <=> FitsValue(a) < FitsValue(b)
      <4>1. FitsValue(x) < FitsValue(y)
        BY <3>4
      <4>2. FitsValue(x) < FitsValue(z) /\ FitsValue(z) < FitsValue(y)
        BY <2>1, <3>1, <3>3, <4>1
      <4>3. x < z /\ z < y
        BY <3>1, <3>4, <4>2
      <4> QED BY <3>2, <3>3, <4>3
    <3>5. CASE \A a, b \in S : a < b <=> FitsValue(b) < FitsValue(a)
      <4>1. FitsValue(y) < FitsValue(x)
        BY <3>5
      <4>2. FitsValue(y) < FitsValue(z) /\ FitsValue(z) < FitsValue(x)
        BY <2>1, <3>1, <3>3, <4>1
      <4>3. x < z /\ z < y
        BY <3>1, <3>5, <4>2
      <4> QED BY <3>2, <3>3, <4>3
    <3> QED BY <1>7, <3>4, <3>5
  <2> QED BY <2>1
<1>14. i # j
  BY <1>7, <1>12
<1>15. i \in Int /\ j \in Int
  BY <1>2, <1>1
<1>16. CASE i < j
  <2>1. Neighbours(N, i, j)
    BY <1>1, <1>2, <1>8, <1>11, <1>13, <1>16, ClosestAreNeighbours
  <2>2. <<i, j>> \in Following(m)
    BY <2>1, FollowingIs DEF N
  <2>3. StepOver(m, <<i, j>>) = FitsValue(y) - FitsValue(x)
    BY <1>6, <1>8, <1>12
  <2> QED BY <2>2, <2>3 DEF m
<1>17. CASE j < i
  <2>1. Neighbours(N, j, i)
    BY <1>1, <1>2, <1>8, <1>11, <1>13, <1>17, ClosestAreNeighbours
  <2>2. <<j, i>> \in Following(m)
    BY <2>1, FollowingIs DEF N
  <2>3. StepOver(m, <<j, i>>) = FitsValue(x) - FitsValue(y)
    BY <1>6, <1>8, <1>12
  <2> QED BY <2>2, <2>3 DEF m
<1> QED BY <1>14, <1>15, <1>16, <1>17

\* The steps of the axis are those of the files, in ascending order.
LEMMA AxisIsLinear ==
    ASSUME NEW req \in ConcatRequests, ConcatError(req) = NoError, Len(req) > 2,
           concat_request = req, hypercube = Planes(req)
    PROVE  AxisLinear
<1> DEFINE types == InOrder(req)
           labels == [i \in DOMAIN hypercube |-> hypercube[i].label]
           n == Len(types)
           S == TypesOf(req) \cap Labels
<1>1. /\ n \in Nat /\ DOMAIN hypercube = 1..n
      /\ \A i \in 1..n : types[i] \in 1..StokesTypes /\ types[i] \in TypesOf(req)
      /\ \A i \in 1..n : hypercube[i].label = LabelOf(types[i])
  BY PlanesAre
<1>2. /\ TypesOf(req) \ {0} = {types[i] : i \in 1..n}
      /\ \A i, j \in 1..n : i < j => types[i] < types[j]
  BY InOrderListsTypes DEF Lists
<1>3. /\ \A i, j \in 1..Len(req) : i # j => req[i].type # req[j].type
      /\ EqualSteps(Types(req))
  BY NoErrorIs, FilesThatOpen
<1>4. DOMAIN labels = 1..n /\ \A i \in 1..n : labels[i] = LabelOf(types[i])
  BY <1>1
<1>5. \A i \in 1..n : /\ labels[i] \in 1..12 <=> types[i] \in 1..12
                      /\ labels[i] \in 1..12 => labels[i] = types[i] /\ types[i] \in S
  <2>1. ASSUME NEW i \in 1..n
        PROVE  /\ labels[i] \in 1..12 <=> types[i] \in 1..12
               /\ labels[i] \in 1..12 => labels[i] = types[i] /\ types[i] \in S
    <3>1. labels[i] = IF types[i] \in 1..12 THEN types[i] ELSE 0
      BY <1>4 DEF LabelOf, Labels, Unset
    <3>2. types[i] \in TypesOf(req)
      BY <1>1
    <3> HIDE DEF labels, types
    <3>3. CASE types[i] \in 1..12
      BY <3>1, <3>2, <3>3 DEF Labels
    <3>4. CASE types[i] \notin 1..12
      BY <3>1, <3>4
    <3> QED BY <3>3, <3>4
  <2> HIDE DEF labels, types, n, S
  <2> QED BY <2>1, Zenon
<1>6. \A z \in S : z \in 1..12 /\ \E i \in 1..n : labels[i] = z /\ types[i] = z
  <2>1. ASSUME NEW z \in S PROVE z \in 1..12 /\ \E i \in 1..n : labels[i] = z /\ types[i] = z
    <3>1. z \in TypesOf(req) \ {0} /\ z \in 1..12
      BY DEF Labels
    <3>2. PICK i \in 1..n : types[i] = z
      BY <1>2, <3>1
    <3>3. labels[i] = z
      BY <1>5, <3>1, <3>2
    <3> QED BY <3>1, <3>2, <3>3
  <2> QED BY <2>1
<1>7. CASE \E i, j \in DOMAIN labels : labels[i] \in 1..4 /\ labels[j] \in 5..12
  BY <1>7 DEF AxisLinear
<1>8. CASE ~(\E i, j \in DOMAIN labels : labels[i] \in 1..4 /\ labels[j] \in 5..12)
  <2>1. S \subseteq 1..4 \/ S \subseteq 5..12
    <3> HIDE DEF S, labels
    <3>1. \A y, z \in S : ~(y \in 1..4 /\ z \in 5..12)
      BY <1>4, <1>6, <1>8, SMTT(30)
    <3>2. \A z \in S : z \in 1..4 \/ z \in 5..12
      BY <1>6
    <3> QED BY <3>1, <3>2
  <2>2. ASSUME NEW p \in Following(labels)
        PROVE  /\ labels[p[1]] \in S /\ labels[p[2]] \in S /\ labels[p[1]] < labels[p[2]]
               /\ \A z \in S : z <= labels[p[1]] \/ labels[p[2]] <= z
    <3> DEFINE a == p[1]
               b == p[2]
    <3>1. a \in 1..n /\ b \in 1..n /\ labels[a] \in 1..12 /\ labels[b] \in 1..12 /\ a < b
          /\ \A k \in 1..n : labels[k] \in 1..12 => k <= a \/ b <= k
      BY <1>4, Zenon DEF Following, HasFitsValue
    <3> HIDE DEF a, b, labels
    <3>2. labels[a] = types[a] /\ labels[b] = types[b] /\ types[a] \in S /\ types[b] \in S
      <4> HIDE DEF types, n, S
      <4> QED BY <1>5, <3>1, Zenon
    <3>3. types[a] < types[b]
      BY <1>2, <3>1
    <3>4. ASSUME NEW z \in S PROVE z <= types[a] \/ types[b] <= z
      <4>1. PICK k \in 1..n : labels[k] = z /\ types[k] = z /\ z \in 1..12
        BY <1>6
      <4>2. k <= a \/ b <= k
        BY <3>1, <4>1
      <4>3. types[a] \in Int /\ types[b] \in Int /\ types[k] \in Int
        BY <1>1, <3>1
      <4>4. CASE k <= a
        <5>1. k = a \/ k < a
          BY <1>1, <3>1, <4>1, <4>4
        <5> QED BY <1>2, <3>1, <4>1, <4>3, <5>1
      <4>5. CASE b <= k
        <5>1. b = k \/ b < k
          BY <1>1, <3>1, <4>1, <4>5
        <5> QED BY <1>2, <3>1, <4>1, <4>3, <5>1
      <4> QED BY <4>2, <4>4, <4>5
    <3> QED BY <3>2, <3>3, <3>4 DEF a, b
  <2>3. ASSUME NEW p \in Following(labels)
        PROVE  /\ StepOver(labels, p) \in Int
               /\ \E o \in Following(Types(req)) :
                     StepOver(Types(req), o) = StepOver(labels, p) \/ StepOver(Types(req), o) = 0 - StepOver(labels, p)
    <3> DEFINE x == labels[p[1]]
               y == labels[p[2]]
    <3>1. x \in S /\ y \in S /\ x < y /\ \A z \in S : z <= x \/ y <= z
      BY <2>2
    <3>2. StepOver(labels, p) = FitsValue(y) - FitsValue(x)
      BY DEF StepOver
    <3> HIDE DEF x, y, labels
    <3>3. FitsValue(x) \in Int /\ FitsValue(y) \in Int
      <4> HIDE DEF S
      <4> QED BY <2>1, <3>1, FitsValueOrder DEF FitsOrdered
    <3>4. \E o \in Following(Types(req)) :
             \/ StepOver(Types(req), o) = FitsValue(y) - FitsValue(x)
             \/ StepOver(Types(req), o) = FitsValue(x) - FitsValue(y)
      <4>1. \A z : z \in S <=> z \in TypesOf(req) /\ z \in Labels
        OBVIOUS
      <4> HIDE DEF S
      <4> QED BY <1>3, <2>1, <3>1, <4>1, StepsAmongFiles
    <3> QED BY <3>2, <3>3, <3>4
  <2>4. \/ \A p \in Following(labels) : StepOver(labels, p) > 0
        \/ \A p \in Following(labels) : StepOver(labels, p) < 0
    <3> HIDE DEF S
    <3>1. /\ \A z \in S : FitsValue(z) \in Int /\ z \in Int
          /\ \/ \A a, b \in S : a < b <=> FitsValue(a) < FitsValue(b)
             \/ \A a, b \in S : a < b <=> FitsValue(b) < FitsValue(a)
      BY <2>1, FitsValueOrder DEF FitsOrdered
    <3> HIDE DEF labels
    <3>2. \A p \in Following(labels) : StepOver(labels, p) = FitsValue(labels[p[2]]) - FitsValue(labels[p[1]])
      BY DEF StepOver
    <3>3. CASE \A a, b \in S : a < b <=> FitsValue(a) < FitsValue(b)
      <4>1. \A p \in Following(labels) : StepOver(labels, p) > 0
        BY <2>2, <3>1, <3>2, <3>3
      <4> QED BY <4>1
    <3>4. CASE \A a, b \in S : a < b <=> FitsValue(b) < FitsValue(a)
      <4>1. \A p \in Following(labels) : StepOver(labels, p) < 0
        BY <2>2, <3>1, <3>2, <3>4
      <4> QED BY <4>1
    <3> QED BY <3>1, <3>3, <3>4
  <2>5. ASSUME NEW p \in Following(labels), NEW q \in Following(labels)
        PROVE  StepOver(labels, p) = StepOver(labels, q)
    <3> HIDE DEF labels
    <3>1. PICK o \in Following(Types(req)) :
             StepOver(Types(req), o) = StepOver(labels, p) \/ StepOver(Types(req), o) = 0 - StepOver(labels, p)
      BY <2>3
    <3>2. PICK r \in Following(Types(req)) :
             StepOver(Types(req), r) = StepOver(labels, q) \/ StepOver(Types(req), r) = 0 - StepOver(labels, q)
      BY <2>3
    <3>3. StepOver(Types(req), o) = StepOver(Types(req), r)
      BY <1>3 DEF EqualSteps
    <3>4. StepOver(labels, p) \in Int /\ StepOver(labels, q) \in Int
      BY <2>3
    <3> QED BY <2>4, <3>1, <3>2, <3>3, <3>4
  <2>6. EqualSteps(labels)
    BY <2>5 DEF EqualSteps
  <2> QED BY <2>6 DEF AxisLinear
<1> QED BY <1>7, <1>8

\* A request that is carried out determines what there is: its planes if there
\* is no error, and files that are open until the response.
HypercubesIInv ==
    /\ concat_request = NoConcat \/ concat_request \in ConcatRequests
    /\ concat_ack.sent \in BOOLEAN /\ concat_ack.success \in BOOLEAN /\ concat_ack.opened \in BOOLEAN
    /\ concat_request = NoConcat => hypercube = <<>> /\ concat_error = NoError /\ ~concat_ack.sent
                                      /\ stokes_loaders = {}
    /\ concat_request # NoConcat =>
          /\ \/ concat_error = ConcatError(concat_request)
             \/ concat_error = "library" /\ ConcatError(concat_request) = NoError
          /\ hypercube = IF concat_error = NoError THEN Planes(concat_request) ELSE <<>>
    /\ stokes_loaders = {} \/ (concat_request # NoConcat /\ ~concat_ack.sent
                                 /\ stokes_loaders = Opened(concat_request))

LEMMA OpenedAreTypes ==
    ASSUME NEW req \in ConcatRequests
    PROVE  Opened(req) \subseteq TypesOf(req)
<1>1. DOMAIN req = 1..Len(req) /\ Len(req) \in Nat
  BY ConcatRequestIs DEF ConcatRequestFields
<1>2. FirstStop(req) = 0 \/ FirstStop(req) \in 1..Len(req)
  BY FirstStopIs
<1>3. 1..(IF FirstStop(req) # 0 THEN FirstStop(req) ELSE Len(req)) \subseteq 1..Len(req)
  BY <1>1, <1>2
<1> QED BY <1>1, <1>3 DEF Opened, TypesOf

LEMMA ConcatErrors ==
    ASSUME NEW req
    PROVE  ConcatError(req) \in {NoError, "open", "kinds", "axis", "shapes", "coordinates"}
<1>1. OpenError(req) \in {NoError, "open", "kinds", "axis"}
  BY DEF OpenError
<1> QED BY <1>1 DEF ConcatError

\* What is right of a hypercube follows from what there is.
LEMMA HypercubesAreAsAsked ==
    ASSUME HypercubesIInv
    PROVE  HypercubesCorrect /\ HypercubesTypeOK
<1>1. CASE concat_request = NoConcat
  <2>1. hypercube = <<>> /\ concat_error = NoError /\ ~concat_ack.sent /\ stokes_loaders = {}
        /\ concat_request = <<>>
    BY <1>1 DEF HypercubesIInv, NoConcat
  <2>2. Len(concat_request) = 0 /\ DOMAIN concat_request = {} /\ DOMAIN hypercube = {}
    BY <2>1
  <2>3. PlanesAsAsked
    BY <2>1 DEF PlanesAsAsked
  <2>4. AxisLinear
    BY <2>2 DEF AxisLinear
  <2>5. OrderedAccepted
    BY <2>2 DEF OrderedAccepted
  <2>6. LoadersFreed
    BY <2>1 DEF LoadersFreed
  <2>7. HypercubesTypeOK
    BY <2>1, <2>2 DEF HypercubesIInv, HypercubesTypeOK
  <2> QED BY <2>3, <2>4, <2>5, <2>6, <2>7 DEF HypercubesCorrect
<1>2. CASE concat_request # NoConcat
  <2> DEFINE req == concat_request
  <2>1. req \in ConcatRequests
    BY <1>2 DEF HypercubesIInv
  <2>2. /\ \/ concat_error = ConcatError(req)
           \/ concat_error = "library" /\ ConcatError(req) = NoError
        /\ hypercube = IF concat_error = NoError THEN Planes(req) ELSE <<>>
    BY <1>2 DEF HypercubesIInv
  <2>3. ConcatRequestFields(req)
    BY <2>1, ConcatRequestIs
  <2>4. DOMAIN req = 1..Len(req) /\ Len(req) \in Nat /\ \A i \in 1..Len(req) : req[i].type \in 0..StokesTypes
    BY <2>3 DEF ConcatRequestFields
  <2>5. stokes_loaders \subseteq TypesOf(req)
    BY <2>1, OpenedAreTypes DEF HypercubesIInv
  <2>6. concat_error \in {NoError, "open", "kinds", "axis", "shapes", "coordinates", "library"}
    BY <2>2, ConcatErrors
  <2>7. LoadersFreed
    BY DEF HypercubesIInv, LoadersFreed
  <2>8. OrderedAccepted
    <3>1. ASSUME Len(req) >= 2,
                 \A i \in DOMAIN req : req[i].file = req[1].file /\ req[i].file.opens /\ req[i].file.planes = 1,
                 TypesOf(req) \subseteq Labels, \A i \in 1..Len(req) - 1 : req[i].type < req[i + 1].type,
                 EqualSteps(Types(req))
          PROVE  concat_error \in {NoError, "library"}
      <4>1. \A i \in 1..Len(req) : req[i].file = req[1].file /\ req[i].file.opens /\ req[i].file.planes = 1
        BY <2>4, <3>1, Zenon
      <4>2. ConcatError(req) = NoError
        BY <2>1, <3>1, <4>1, AscendingFilesAccepted
      <4> QED BY <2>2, <4>2
    <3> QED BY <3>1, Zenon DEF OrderedAccepted
  <2>9. CASE concat_error # NoError
    <3>1. hypercube = <<>> /\ DOMAIN hypercube = {}
      BY <2>2, <2>9
    <3>2. PlanesAsAsked
      BY <3>1 DEF PlanesAsAsked
    <3>3. AxisLinear
      <4> DEFINE labels == [i \in DOMAIN hypercube |-> hypercube[i].label]
      <4>1. DOMAIN labels = {}
        BY <3>1
      <4> HIDE DEF labels
      <4>2. Following(labels) = {}
        BY <4>1 DEF Following
      <4>3. EqualSteps(labels)
        BY <4>2 DEF EqualSteps
      <4> QED BY <4>3 DEF AxisLinear, labels
    <3>4. HypercubesTypeOK
      BY <2>4, <2>5, <2>6, <3>1 DEF HypercubesIInv, HypercubesTypeOK
    <3> QED BY <2>7, <2>8, <3>2, <3>3, <3>4 DEF HypercubesCorrect
  <2>10. CASE concat_error = NoError
    <3>1. ConcatError(req) = NoError /\ hypercube = Planes(req)
      BY <2>2, <2>10, NoErrorIsNone
    <3>2. PlanesAsAsked
      BY <2>1, <3>1, PlanesAreAsAsked
    <3>3. AxisLinear
      <4>1. CASE Len(req) > 2
        BY <2>1, <3>1, <4>1, AxisIsLinear
      <4>2. CASE ~(Len(req) > 2)
        BY <4>2 DEF AxisLinear
      <4> QED BY <4>1, <4>2
    <3>4. \A i \in DOMAIN hypercube : hypercube[i].label \in Labels \cup {Unset}
      BY <2>1, <3>1, PlanesAre DEF LabelOf
    <3>5. HypercubesTypeOK
      BY <2>4, <2>5, <2>6, <3>4 DEF HypercubesIInv, HypercubesTypeOK
    <3> QED BY <2>7, <2>8, <3>2, <3>3, <3>5 DEF HypercubesCorrect
  <2> QED BY <2>9, <2>10
<1> QED BY <1>1, <1>2

LEMMA HypercubesStart == HypercubesInit => HypercubesIInv
  BY DEF HypercubesInit, HypercubesIInv, NoConcatAck

LEMMA HypercubesStep ==
    ASSUME HypercubesIInv, HypercubesNext
    PROVE  HypercubesIInv'
<1>1. ASSUME NEW req \in ConcatRequests, concat_request = NoConcat, DoConcat(req)
      PROVE  HypercubesIInv'
  <2>1. concat_request' = req /\ stokes_loaders' = Opened(req) /\ concat_ack' = concat_ack
    BY <1>1 DEF DoConcat
  <2>2. PICK library \in BOOLEAN :
           /\ concat_error' = IF ConcatError(req) = NoError /\ library THEN "library" ELSE ConcatError(req)
           /\ hypercube' = IF concat_error' = NoError THEN Planes(req) ELSE <<>>
    BY <1>1 DEF DoConcat
  <2>3. req # NoConcat
    BY ConcatRequestsAssumption DEF NoConcat
  <2>4. ~concat_ack.sent /\ concat_ack.sent \in BOOLEAN /\ concat_ack.success \in BOOLEAN
        /\ concat_ack.opened \in BOOLEAN
    BY <1>1 DEF HypercubesIInv
  <2>5. \/ concat_error' = ConcatError(req)
        \/ concat_error' = "library" /\ ConcatError(req) = NoError
    BY <2>2
  <2>6. (\/ concat_error = ConcatError(concat_request)
         \/ concat_error = "library" /\ ConcatError(concat_request) = NoError)'
    BY <2>1, <2>5
  <2>7. (hypercube = IF concat_error = NoError THEN Planes(concat_request) ELSE <<>>)'
    BY <2>1, <2>2
  <2>8. (stokes_loaders = Opened(concat_request))' /\ (concat_request # NoConcat)'
    BY <2>1, <2>3
  <2> QED BY <2>1, <2>4, <2>6, <2>7, <2>8 DEF HypercubesIInv
<1>2. CASE OpenHypercube
  <2>1. concat_request # NoConcat /\ stokes_loaders' = {}
        /\ concat_request' = concat_request /\ hypercube' = hypercube /\ concat_error' = concat_error
    BY <1>2 DEF OpenHypercube
  <2>2. PICK opened \in BOOLEAN :
           concat_ack' = [sent |-> TRUE, success |-> concat_error = NoError, opened |-> opened]
    BY <1>2 DEF OpenHypercube
  <2>3. concat_ack'.sent \in BOOLEAN /\ concat_ack'.success \in BOOLEAN /\ concat_ack'.opened \in BOOLEAN
    BY <2>2
  <2> QED BY <2>1, <2>3 DEF HypercubesIInv
<1>3. CASE HypercubeKept
  <2>1. concat_ack.sent /\ stokes_loaders' = stokes_loaders /\ concat_request' = NoConcat
        /\ hypercube' = <<>> /\ concat_error' = NoError /\ concat_ack' = NoConcatAck
    BY <1>3 DEF HypercubeKept
  <2>2. stokes_loaders = {}
    BY <2>1 DEF HypercubesIInv
  <2> QED BY <2>1, <2>2 DEF HypercubesIInv, NoConcatAck
<1> QED BY <1>1, <1>2, <1>3 DEF HypercubesNext

THEOREM HypercubesInductive == HypercubesSpec => []HypercubesIInv
<1>1. HypercubesIInv /\ UNCHANGED hypercubeVars => HypercubesIInv'
  BY DEF HypercubesIInv, hypercubeVars
<1> QED BY <1>1, HypercubesStart, HypercubesStep, PTL DEF HypercubesSpec

\* A hypercube has the files it was asked of, in the order of their
\* polarizations and in equal steps, files in order are not refused, and none
\* stays open (StokesFilesConnector::DoConcat, Session::OnConcatStokesFiles).
THEOREM HypercubesAreRight == HypercubesSpec => []HypercubesCorrect
<1>1. HypercubesIInv => HypercubesCorrect
  BY HypercubesAreAsAsked
<1> QED BY <1>1, HypercubesInductive, PTL

\* The request, the planes, the errors and the response have their types.
THEOREM HypercubesTypeCorrect == HypercubesSpec => []HypercubesTypeOK
<1>1. HypercubesIInv => HypercubesTypeOK
  BY HypercubesAreAsAsked
<1> QED BY <1>1, HypercubesInductive, PTL
=============================================================================
