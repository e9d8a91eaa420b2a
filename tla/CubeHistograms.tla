--------------------------- MODULE CubeHistograms ---------------------------
(***************************************************************************)
(* Histograms of a whole cube: Session::OnSetHistogramRequirements,        *)
(* SendRegionHistogramData and CalculateCubeHistogram with the Frame's     *)
(* requirements and caches.  The channels are gone through twice, for the  *)
(* statistics and for the bins.  All the tasks of a session look at one    *)
(* flag, _histogram_context: an empty request sets it and every other      *)
(* request resets it, both on the main thread when the message arrives.    *)
(*                                                                         *)
(* Progress messages are left out: they say that they are partial.         *)
(***************************************************************************)
EXTENDS Integers, Sequences, FiniteSets

CONSTANTS HistogramTasks,
          CubeConfigs,          \* configurations a request may name
          InLoader,             \* those the file itself has a histogram for
          WithoutStokes,        \* those of a polarization the image has not
          CubeDepth,            \* channels of the image
          MaxHistogramMessages  \* bound: messages received

ASSUME CubeDepthAssumption == CubeDepth \in Nat \ {0}

VARIABLES cube_configs,         \* _cube_histogram_configs
          histogram_context,    \* _histogram_context: cancelled
          cube_frame,           \* _frames: "open", "null" (reset) or "gone"
          cube_stats,           \* _cube_basic_stats: channels they are of
          cube_histograms,      \* _cube_histograms: configurations
          histogram_task,       \* the tasks
          histogram_messages    \* messages received

VARIABLES histograms_sent,      \* history: complete histograms
          half_cached,          \* history: the statistics in the cache are of a
                                \* cancelled task that a reset had revived
          null_frame            \* a Frame was used that is null: the process ends

histogramVars == <<cube_configs, histogram_context, cube_frame, cube_stats, cube_histograms,
                   histogram_task, histogram_messages, histograms_sent, half_cached, null_frame>>

NoCubeConfig == "none"
AllZ == 1..CubeDepth

\* stats, bins: the channels gone through; cut: a loop was left early; stopped:
\* a cancel came when a look at the flag was still to come; revived: a reset
\* came after the loop was left and before the next look.
NoHistogram == [at |-> "idle", config |-> NoCubeConfig, todo |-> <<>>, stats |-> {}, bins |-> {},
                cut |-> FALSE, stopped |-> FALSE, revived |-> FALSE]
HistogramAt(t, where) == histogram_task[t].at = where

CubeHistogramsTypeOK ==
    /\ cube_configs \in Seq(CubeConfigs) /\ histogram_context \in BOOLEAN
    /\ cube_frame \in {"open", "null", "gone"}
    /\ cube_stats \subseteq AllZ /\ cube_histograms \subseteq CubeConfigs
    /\ \A t \in HistogramTasks :
          /\ histogram_task[t].config \in CubeConfigs \cup {NoCubeConfig}
          /\ histogram_task[t].stats \subseteq AllZ /\ histogram_task[t].bins \subseteq AllZ
    /\ half_cached \in BOOLEAN /\ null_frame \in BOOLEAN

CubeHistogramsInit ==
    /\ cube_configs = <<>> /\ histogram_context = FALSE /\ cube_frame = "open"
    /\ cube_stats = {} /\ cube_histograms = {}
    /\ histogram_task = [t \in HistogramTasks |-> NoHistogram] /\ histogram_messages = 0
    /\ histograms_sent = {} /\ half_cached = FALSE /\ null_frame = FALSE

-----------------------------------------------------------------------------
(***************************************************************************)
(* The main thread.                                                        *)
(***************************************************************************)

HistogramMessage ==
    histogram_messages < MaxHistogramMessages /\ histogram_messages' = histogram_messages + 1
KeepResults == UNCHANGED <<cube_stats, cube_histograms, histograms_sent, half_cached>>

\* SET_HISTOGRAM_REQUIREMENTS with a histogram: ResetHistContext, for every
\* task, and a new task.
RequestHistogram(t, config) ==
    /\ HistogramMessage /\ HistogramAt(t, "idle")
    /\ histogram_context' = FALSE
    /\ histogram_task' = [u \in HistogramTasks |->
           IF u = t THEN [NoHistogram EXCEPT !.at = "require", !.todo = <<config>>]
           ELSE [histogram_task[u] EXCEPT !.stopped = FALSE, !.revived = @ \/ histogram_task[u].cut]]
    /\ KeepResults /\ UNCHANGED <<cube_configs, cube_frame, null_frame>>

\* Without one: CancelSetHistRequirements; so does the end of the connection.
CancelSetHistRequirements ==
    /\ HistogramMessage
    /\ histogram_context' = TRUE
    /\ histogram_task' = [u \in HistogramTasks |->
           [histogram_task[u] EXCEPT !.stopped = @ \/ histogram_task[u].at \notin {"idle", "send"}]]
    /\ KeepResults /\ UNCHANGED <<cube_configs, cube_frame, null_frame>>

\* DeleteFrame resets the pointer and erases it from the map; it waits for the
\* tasks that hold the Frame's mutex, and these do not.
CloseCube ==
    /\ cube_frame # "gone"
    /\ cube_frame' = IF cube_frame = "open" THEN "null" ELSE "gone"
    /\ KeepResults
    /\ UNCHANGED <<cube_configs, histogram_context, histogram_task, histogram_messages, null_frame>>

-----------------------------------------------------------------------------
(***************************************************************************)
(* The task.  Each step looks the Frame up: at() throws when it is gone,   *)
(* which ends the task, and returns null while it is being deleted.        *)
(***************************************************************************)

KeepMessages == UNCHANGED <<histogram_context, cube_frame, histogram_messages>>
NextStep(t, task) == histogram_task' = [histogram_task EXCEPT ![t] = task]
WithFrame(t, step, unchanged) ==
    \/ cube_frame = "open" /\ step /\ UNCHANGED null_frame
    \/ /\ cube_frame = "gone" /\ NextStep(t, NoHistogram)
       /\ unchanged /\ UNCHANGED null_frame
    \/ /\ cube_frame = "null" /\ null_frame' = TRUE /\ UNCHANGED histogram_task
       /\ unchanged

\* Frame::SetHistogramRequirements: cleared, then filled, without a lock.
SetHistogramRequirements(t) ==
    LET r == histogram_task[t]
        clear == HistogramAt(t, "require") /\ cube_configs' = <<>>
                 /\ NextStep(t, [r EXCEPT !.at = "push"])
        push == HistogramAt(t, "push") /\ cube_configs' = cube_configs \o r.todo
                /\ NextStep(t, [r EXCEPT !.at = "fill"])
    IN  /\ HistogramAt(t, "require") \/ HistogramAt(t, "push")
        /\ WithFrame(t, clear \/ push, UNCHANGED cube_configs)
        /\ KeepResults /\ KeepMessages

\* Frame::FillRegionHistogramData: the histograms of the file are sent, up to
\* the first that it has not.
FillHistograms(t) ==
    LET required == SelectSeq(cube_configs, LAMBDA c : c \notin WithoutStokes)
        found == {c \in InLoader : \E i \in DOMAIN required :
                     required[i] = c /\ \A j \in 1..i : required[j] \in InLoader}
        all == required # <<>> /\ \A i \in DOMAIN required : required[i] \in InLoader
        step == /\ histograms_sent' = histograms_sent \cup
                       {[whole |-> TRUE, revived |-> FALSE, stopped |-> FALSE] : c \in found}
                /\ NextStep(t, IF all THEN NoHistogram
                               ELSE [histogram_task[t] EXCEPT !.at = "config"])
    IN  /\ HistogramAt(t, "fill")
        /\ WithFrame(t, step, UNCHANGED histograms_sent)
        /\ KeepMessages /\ UNCHANGED <<cube_configs, cube_stats, cube_histograms, half_cached>>

\* GetCubeHistogramConfig: the first requirement there is by now.
GetCubeHistogramConfig(t) ==
    LET none == cube_configs = <<>> \/ Head(cube_configs) \in WithoutStokes
        step == NextStep(t, IF none THEN NoHistogram
                            ELSE [histogram_task[t] EXCEPT !.at = "stats",
                                                           !.config = Head(cube_configs)])
    IN  /\ HistogramAt(t, "config")
        /\ WithFrame(t, step, TRUE)
        /\ KeepResults /\ KeepMessages /\ UNCHANGED cube_configs

\* The loop over the channels is left after one when the flag is set.
Loop(r, done, where) ==
    IF histogram_context THEN [r EXCEPT !.at = where, !.cut = done # AllZ]
    ELSE IF done = AllZ THEN [r EXCEPT !.at = where] ELSE r

\* GetBasicStats of the next channel, joined; it may be unreadable.
JoinStats(t) ==
    LET r == histogram_task[t]
        done == r.stats \cup {Cardinality(r.stats) + 1}
    IN  /\ HistogramAt(t, "stats")
        /\ WithFrame(t, \/ NextStep(t, NoHistogram)
                        \/ NextStep(t, Loop([r EXCEPT !.stats = done], done, "bounds")), TRUE)
        /\ KeepResults /\ KeepMessages /\ UNCHANGED cube_configs

\* Unless it was cancelled, the statistics are cached and bins follow.
CacheCubeStats(t) ==
    LET r == histogram_task[t]
        go == /\ cube_stats' = r.stats /\ half_cached' = r.revived
              /\ NextStep(t, [r EXCEPT !.at = "bins"])
    IN  /\ HistogramAt(t, "bounds")
        /\ IF histogram_context
           THEN NextStep(t, NoHistogram) /\ UNCHANGED <<cube_stats, half_cached, null_frame>>
           ELSE WithFrame(t, go, UNCHANGED <<cube_stats, half_cached>>)
        /\ KeepMessages /\ UNCHANGED <<cube_configs, cube_histograms, histograms_sent>>

\* CalculateHistogram of the next channel, added; it may fail.
AddHistogram(t) ==
    LET r == histogram_task[t]
        done == r.bins \cup {Cardinality(r.bins) + 1}
        looped == Loop([r EXCEPT !.bins = done], done, "complete")
    IN  /\ HistogramAt(t, "bins")
        /\ WithFrame(t, \/ NextStep(t, NoHistogram)
                        \/ NextStep(t, [looped EXCEPT !.cut = @ \/ r.cut]), TRUE)
        /\ KeepResults /\ KeepMessages /\ UNCHANGED cube_configs

CachedResults(t) ==
    /\ cube_histograms' = cube_histograms \cup {histogram_task[t].config}
    /\ NextStep(t, [histogram_task[t] EXCEPT !.at = "send"])

\* Mutant of CacheCubeHistogram: the flag is not looked at again.
CacheAnyHistogram(t) ==
    /\ HistogramAt(t, "complete")
    /\ WithFrame(t, CachedResults(t), UNCHANGED cube_histograms)
    /\ KeepMessages /\ UNCHANGED <<cube_configs, cube_stats, half_cached, histograms_sent>>

\* Unless it was cancelled, the histogram is cached ...
CacheCubeHistogram(t) ==
    /\ HistogramAt(t, "complete")
    /\ IF histogram_context
       THEN NextStep(t, NoHistogram) /\ UNCHANGED <<cube_histograms, null_frame>>
       ELSE WithFrame(t, CachedResults(t), UNCHANGED cube_histograms)
    /\ KeepMessages /\ UNCHANGED <<cube_configs, cube_stats, half_cached, histograms_sent>>

\* ... and sent as complete.
SendCubeHistogram(t) ==
    LET r == histogram_task[t]
    IN  /\ HistogramAt(t, "send")
        /\ histograms_sent' = histograms_sent \cup
               {[whole |-> r.stats = AllZ /\ r.bins = AllZ, revived |-> r.revived,
                 stopped |-> r.stopped]}
        /\ NextStep(t, NoHistogram)
        /\ KeepMessages
        /\ UNCHANGED <<cube_configs, cube_stats, cube_histograms, half_cached, null_frame>>

CalculateCubeHistogram(t) ==
    \/ GetCubeHistogramConfig(t) \/ JoinStats(t) \/ CacheCubeStats(t) \/ AddHistogram(t)
    \/ CacheCubeHistogram(t) \/ SendCubeHistogram(t)

CubeHistogramsNext ==
    /\ ~null_frame
    /\ \/ CancelSetHistRequirements \/ CloseCube
       \/ \E t \in HistogramTasks :
             \/ \E config \in CubeConfigs : RequestHistogram(t, config)
             \/ SetHistogramRequirements(t) \/ FillHistograms(t) \/ CalculateCubeHistogram(t)

CubeHistogramsSpec == CubeHistogramsInit /\ [][CubeHistogramsNext]_histogramVars

-----------------------------------------------------------------------------
(***************************************************************************)
(* Properties.                                                             *)
(***************************************************************************)

\* "set completed cube histogram" (Session.cc): a cube histogram sent as complete,
\* and the statistics in the cache, are of every channel, unless another request
\* reset the flag after the task had left a loop early and before it looked at
\* the flag again.
CompleteHistogramsWhole ==
    /\ \A h \in histograms_sent : h.whole \/ h.revived
    /\ cube_stats \in {{}, AllZ} \/ half_cached

\* A histogram is not sent when it was cancelled before the last look at the
\* flag and no request reset the flag afterwards.
CancelledHistogramNotSent == \A h \in histograms_sent : ~h.stopped

CubeHistogramsCorrect == CompleteHistogramsWhole /\ CancelledHistogramNotSent
=============================================================================
