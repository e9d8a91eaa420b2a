------------------------------ MODULE Generators ------------------------------
(***************************************************************************)
(* Moment images and image fits of one frame.  Each request is a task, a   *)
(* stop is handled on the main thread.  The tasks share the frame's        *)
(* MomentGenerator, which every request replaces, its ImageFitter, the     *)
(* rest frequency of the image and the session's last file id.             *)
(*                                                                         *)
(* Moment requests may overlap.  A client sends its next fit after the     *)
(* answer to the last one: two fits at once have no lock between them.     *)
(***************************************************************************)
EXTENDS Naturals, FiniteSets

CONSTANTS MomentJobs,       \* moment requests, also the generators they make
          FitJobs,          \* fitting requests
          RestFrequencies,  \* requested rest frequencies; the image's own is 0
          MaxRequests       \* bound on the requests

VARIABLES moment_generator, \* _moment_generator: the job that made it, or NoJob
          image_mutex,      \* the job that holds _image_mutex
          rest_frequency,   \* of the image's coordinate system
          image_moments,    \* generators with _image_moments set
          moment_cancel,    \* generators whose _cancel is set: they were stopped
          stop_fitting,     \* _fit_data.stop_fitting
          job,              \* the requests
          last_file_id,     \* _last_file_id
          frames            \* _frames: the job of each generated image's id

VARIABLES stopped_running,  \* history: jobs that were running when a stop came
          overlapped,       \* history: pairs of jobs that opened images at once
          process_ended     \* undefined behaviour ended the process

generatorVars == <<moment_generator, image_mutex, rest_frequency, image_moments,
                   moment_cancel, stop_fitting, job, last_file_id, frames,
                   stopped_running, overlapped, process_ended>>

\* Not read or written by a moment calculation.
otherVars == <<stop_fitting, last_file_id, frames, overlapped>>

NoJob == "none"
Jobs == MomentJobs \cup FitJobs

ASSUME RequestsAssumption ==
    /\ IsFiniteSet(Jobs) /\ MaxRequests \in Nat
    /\ MomentJobs \cap FitJobs = {} /\ NoJob \notin Jobs

FileIds == 1..2 * MaxRequests

\* requested, saved, used: rest frequencies; images: the offsets of the ids
\* of its images that are still to be opened; ids: those opened.
NewJob == [at |-> "idle", requested |-> 0, saved |-> 0, used |-> 0, generator |-> NoJob,
           failed |-> FALSE, cancel |-> FALSE, values |-> "none", zeroed |-> FALSE,
           images |-> {}, next_file_id |-> 0, ids |-> {}]

JobRecords ==
    [at : {"idle", "reset", "wait", "set", "create", "restore", "solve", "solved",
           "check", "respond", "open", "done"},
     requested : RestFrequencies \cup {0}, saved : RestFrequencies \cup {0},
     used : RestFrequencies \cup {0}, generator : MomentJobs \cup {NoJob},
     failed : BOOLEAN, cancel : BOOLEAN, zeroed : BOOLEAN,
     values : {"none", "initial", "zeroed", "fitted"},
     images : SUBSET {0, 1}, next_file_id : Nat, ids : SUBSET FileIds]

GeneratorsTypeOK ==
    /\ {moment_generator, image_mutex} \subseteq MomentJobs \cup {NoJob}
    /\ rest_frequency \in RestFrequencies \cup {0}
    /\ image_moments \cup moment_cancel \subseteq MomentJobs
    /\ stop_fitting \in BOOLEAN
    /\ job \in [Jobs -> JobRecords]
    /\ frames \in [FileIds -> Jobs \cup {NoJob}] /\ last_file_id \in FileIds \cup {0}
    /\ stopped_running \subseteq Jobs

GeneratorsInit ==
    /\ moment_generator = NoJob /\ image_mutex = NoJob /\ rest_frequency = 0
    /\ image_moments = {} /\ moment_cancel = {}
    /\ stop_fitting = FALSE /\ job = [j \in Jobs |-> NewJob]
    /\ last_file_id = 0 /\ frames = [id \in FileIds |-> NoJob]
    /\ stopped_running = {} /\ overlapped = {} /\ process_ended = FALSE

MayRequest == Cardinality({j \in Jobs : job[j].at # "idle"}) < MaxRequests
JobAt(j, places) == job[j].at \in places
Running(j) == JobAt(j, {"set", "create", "restore"})
Fitting(j) == JobAt(j, {"solve", "solved", "check"})

-----------------------------------------------------------------------------
(***************************************************************************)
(* Moments.                                                                *)
(***************************************************************************)

\* The generator a job calculates with was replaced by a later request: it is
\* gone, and what is read through it is undefined.
GeneratorGone(j) == job[j].generator # moment_generator

RequestMoments(j, f) ==
    /\ JobAt(j, {"idle"}) /\ MayRequest
    /\ job' = [job EXCEPT ![j].at = "reset", ![j].requested = f]
    /\ UNCHANGED <<moment_generator, image_mutex, rest_frequency, image_moments,
                   moment_cancel, stopped_running, process_ended, otherVars>>

\* _moment_generator.reset(new MomentGenerator), before the image is locked.
ResetGenerator(j) ==
    /\ JobAt(j, {"reset"})
    /\ moment_generator' = j
    /\ job' = [job EXCEPT ![j].at = "wait"]
    /\ UNCHANGED <<image_mutex, rest_frequency, image_moments, moment_cancel,
                   stopped_running, process_ended, otherVars>>

\* Mutant of BeginCalculation: the flag of the last run is kept.
BeginUncleared(j) ==
    /\ JobAt(j, {"wait"}) /\ image_mutex = NoJob
    /\ image_mutex' = j
    /\ job' = [job EXCEPT ![j].at = "set", ![j].generator = moment_generator,
                          ![j].saved = rest_frequency]
    /\ UNCHANGED <<moment_generator, rest_frequency, image_moments, moment_cancel,
                   stopped_running, process_ended, otherVars>>

\* The pointer is read after the image is locked: the generator may be that of
\* another request.  Its flags are reset and the rest frequency is saved.
BeginCalculation(j) ==
    /\ JobAt(j, {"wait"}) /\ image_mutex = NoJob
    /\ image_mutex' = j
    /\ moment_cancel' = moment_cancel \ {moment_generator}
    /\ job' = [job EXCEPT ![j].at = "set", ![j].generator = moment_generator,
                          ![j].saved = rest_frequency]
    /\ UNCHANGED <<moment_generator, rest_frequency, image_moments, stopped_running,
                   process_ended, otherVars>>

\* ResetImageMoments: the rest frequency is refused, or it is set and the
\* sub-image cannot be made, or there is a new ImageMoments.
ResetImageMoments(j) ==
    /\ JobAt(j, {"set"})
    /\ \/ /\ job' = [job EXCEPT ![j].at = "restore", ![j].failed = TRUE]
          /\ rest_frequency' \in {rest_frequency, job[j].requested}
          /\ UNCHANGED image_moments
       \/ /\ job' = [job EXCEPT ![j].at = "create"]
          /\ rest_frequency' = job[j].requested
          /\ image_moments' = image_moments \cup {job[j].generator}
    /\ UNCHANGED <<moment_generator, image_mutex, moment_cancel, stopped_running,
                   process_ended, otherVars>>

\* createMoments fails, and does so when it sees that it was stopped; a stop
\* may also come after its last look.
CreateMoments(j) ==
    /\ JobAt(j, {"create"})
    /\ \E failed \in BOOLEAN, images \in {{0}, {0, 1}} :
          job' = [job EXCEPT ![j].at = "restore", ![j].failed = failed, ![j].used = rest_frequency,
                             ![j].images = IF failed THEN {} ELSE images]
    /\ UNCHANGED <<moment_generator, image_mutex, rest_frequency, image_moments,
                   moment_cancel, stopped_running, process_ended, otherVars>>

\* The rest frequency is restored, the response filled and the image unlocked.
FinishCalculation(j) ==
    /\ JobAt(j, {"restore"})
    /\ rest_frequency' = job[j].saved /\ image_mutex' = NoJob
    /\ \E cancel \in BOOLEAN :
          /\ ~GeneratorGone(j) => cancel = (job[j].generator \in moment_cancel)
          /\ job' = [job EXCEPT ![j].at = "respond", ![j].cancel = cancel]
    /\ UNCHANGED <<moment_generator, image_moments, moment_cancel, stopped_running,
                   process_ended, otherVars>>

\* A job that uses a generator that is gone may end the process.
UseAfterEnd(j) ==
    /\ Running(j) /\ GeneratorGone(j)
    /\ process_ended' = TRUE
    /\ UNCHANGED <<moment_generator, image_mutex, rest_frequency, image_moments,
                   moment_cancel, job, stopped_running, otherVars>>

\* StopMomentCalc stops the newest generator, once it has an ImageMoments.
StopMomentCalc ==
    /\ moment_generator \in image_moments
    /\ moment_cancel' = moment_cancel \cup {moment_generator}
    /\ stopped_running' = stopped_running \cup {j \in MomentJobs : Running(j)}
    /\ UNCHANGED <<moment_generator, image_mutex, rest_frequency, image_moments, job,
                   process_ended, otherVars>>

-----------------------------------------------------------------------------
(***************************************************************************)
(* Fits.                                                                   *)
(***************************************************************************)

fitUnchanged == UNCHANGED <<moment_generator, image_mutex, rest_frequency, image_moments,
                            moment_cancel, last_file_id, frames, overlapped,
                            process_ended>>

\* Mutant of StartFit: the stop of an earlier fit is kept.
StartUncleared(j, images) ==
    /\ JobAt(j, {"idle"}) /\ MayRequest /\ ~\E k \in FitJobs : Fitting(k)
    /\ job' = [job EXCEPT ![j].at = "solve", ![j].images = images]
    /\ fitUnchanged /\ UNCHANGED <<stop_fitting, stopped_running>>

\* FitImage: a stop that came before is forgotten.  There may be too few points.
StartFit(j, images) ==
    /\ JobAt(j, {"idle"}) /\ MayRequest /\ ~\E k \in FitJobs : Fitting(k)
    /\ stop_fitting' = FALSE
    /\ \E at \in {"solve", "done"} :
          job' = [job EXCEPT ![j].at = at, ![j].failed = at = "done", ![j].images = images]
    /\ fitUnchanged /\ UNCHANGED stopped_running

\* Mutant of Iterate: the stop is taken as served.
IterateOnce(j) ==
    /\ JobAt(j, {"solve"}) /\ stop_fitting
    /\ job' = [job EXCEPT ![j].zeroed = TRUE]
    /\ stop_fitting' = FALSE
    /\ fitUnchanged /\ UNCHANGED stopped_running

\* FuncF: the residuals are zero once the fit was stopped, and the solver
\* takes that for a perfect fit.
Iterate(j) ==
    /\ JobAt(j, {"solve"}) /\ stop_fitting
    /\ job' = [job EXCEPT ![j].zeroed = TRUE]
    /\ fitUnchanged /\ UNCHANGED <<stop_fitting, stopped_running>>

\* The solver's driver ends, converged or not.
SolveSystem(j) ==
    /\ JobAt(j, {"solve"})
    /\ \E failed \in BOOLEAN : job' = [job EXCEPT ![j].at = "solved", ![j].failed = failed]
    /\ fitUnchanged /\ UNCHANGED <<stop_fitting, stopped_running>>

\* The solution and the image data are taken over unless the fit was stopped.
TakeSolution(j) ==
    /\ JobAt(j, {"solved"})
    /\ job' = [job EXCEPT ![j].at = "check",
                          ![j].values = IF stop_fitting THEN "initial"
                                        ELSE IF job[j].zeroed THEN "zeroed" ELSE "fitted"]
    /\ fitUnchanged /\ UNCHANGED <<stop_fitting, stopped_running>>

\* The response: cancelled, failed, or the values.
AnswerFit(j) ==
    /\ JobAt(j, {"check"})
    /\ job' = [job EXCEPT ![j].cancel = stop_fitting, ![j].failed = @ \/ stop_fitting,
                          ![j].at = "respond",
                          ![j].images = IF job[j].failed \/ stop_fitting THEN {} ELSE @]
    /\ fitUnchanged /\ UNCHANGED <<stop_fitting, stopped_running>>

StopFitting ==
    /\ \E j \in FitJobs : ~JobAt(j, {"idle"})       \* there is an _image_fitter
    /\ stop_fitting' = TRUE
    /\ stopped_running' = stopped_running \cup {j \in FitJobs : Fitting(j)}
    /\ fitUnchanged /\ UNCHANGED job

-----------------------------------------------------------------------------
(***************************************************************************)
(* The generated images are opened under the next file ids.                *)
(***************************************************************************)
openUnchanged == UNCHANGED <<moment_generator, image_mutex, rest_frequency, image_moments,
                             moment_cancel, stop_fitting, stopped_running,
                             process_ended>>

NextFileId(j) ==
    /\ JobAt(j, {"respond"})
    /\ job' = [job EXCEPT ![j].at = IF job[j].images = {} THEN "done" ELSE "open",
                          ![j].next_file_id = last_file_id + 1]
    /\ overlapped' = overlapped \cup
           {{j, k} : k \in {k \in Jobs : k # j /\ JobAt(k, {"open"})}}
    /\ openUnchanged /\ UNCHANGED <<last_file_id, frames>>

\* Mutant of OpenImage: only files opened by a client move the last id.
OpenSilently(j) ==
    LET offset == CHOOSE n \in job[j].images : \A o \in job[j].images : n <= o
        id == job[j].next_file_id + offset
    IN  /\ JobAt(j, {"open"})
        /\ frames' = [frames EXCEPT ![id] = j]
        /\ job' = [job EXCEPT ![j].images = @ \ {offset}, ![j].ids = @ \cup {id},
                              ![j].at = IF job[j].images = {offset} THEN "done" ELSE "open"]
        /\ openUnchanged /\ UNCHANGED <<overlapped, last_file_id>>

\* A fit's residual image takes the second id, with or without a model image.
OpenImage(j) ==
    LET offset == CHOOSE n \in job[j].images : \A o \in job[j].images : n <= o
        id == job[j].next_file_id + offset
    IN  /\ JobAt(j, {"open"})
        /\ frames' = [frames EXCEPT ![id] = j] /\ last_file_id' = id
        /\ job' = [job EXCEPT ![j].images = @ \ {offset}, ![j].ids = @ \cup {id},
                              ![j].at = IF job[j].images = {offset} THEN "done" ELSE "open"]
        /\ openUnchanged /\ UNCHANGED overlapped

GeneratorsNext ==
    /\ ~process_ended
    /\ \/ \E j \in MomentJobs :
             \/ \E f \in RestFrequencies : RequestMoments(j, f)
             \/ ResetGenerator(j) \/ BeginCalculation(j) \/ ResetImageMoments(j)
             \/ CreateMoments(j) \/ FinishCalculation(j) \/ UseAfterEnd(j)
       \/ StopMomentCalc
       \/ \E j \in FitJobs :
             \/ \E images \in SUBSET {0, 1} : StartFit(j, images)
             \/ Iterate(j) \/ SolveSystem(j) \/ TakeSolution(j) \/ AnswerFit(j)
       \/ StopFitting
       \/ \E j \in Jobs : NextFileId(j) \/ OpenImage(j)

GeneratorsSpec == GeneratorsInit /\ [][GeneratorsNext]_generatorVars

-----------------------------------------------------------------------------
(***************************************************************************)
(* Properties.                                                             *)
(***************************************************************************)

\* Moment requests of different rest frequencies do not disturb each other nor
\* the image: each result has the frequency it asked for, and the image its
\* own when none is calculated, whatever failed.
RestFrequencyRestored ==
    /\ image_mutex = NoJob => rest_frequency = 0
    /\ \A j \in MomentJobs : job[j].used # 0 => job[j].used = job[j].requested

\* A response says that it was cancelled only when a stop came during its own
\* calculation, except where the generator had been replaced.
CancelledWhileRunning ==
    \A j \in Jobs : job[j].cancel =>
        j \in stopped_running \/ (j \in MomentJobs /\ GeneratorGone(j))

\* The zero residuals of a stopped fit are never reported as its result.
FitOfTheData == \A j \in FitJobs : JobAt(j, {"respond", "open", "done"}) /\ ~job[j].failed =>
                    job[j].values = "fitted"

\* A generated image that was acknowledged is not replaced by that of another
\* request, unless some request opened images while this one opened its own:
\* they choose the same ids then, and the last id may go back.
GeneratedImagesKept ==
    \A j \in Jobs : \A id \in job[j].ids :
        frames[id] = j \/ \E k \in Jobs : {j, k} \in overlapped

GeneratorsCorrect ==
    RestFrequencyRestored /\ CancelledWhileRunning /\ FitOfTheData /\ GeneratedImagesKept
=============================================================================
