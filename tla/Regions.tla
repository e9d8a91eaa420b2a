------------------------------- MODULE Regions -------------------------------
(***************************************************************************)
(* RegionHandler of one session: the regions, what the client requires of  *)
(* them, the cached results, and the tasks that fill data messages while   *)
(* the main thread sets and removes regions and closes the file.           *)
(*                                                                         *)
(* One image file.  What a region is (control points, rotation) is a       *)
(* member of Points; whether it lies in the image does not matter here     *)
(* (module RegionApplied).  Channel and stokes are fixed, so the caches,   *)
(* whose keys also name them, have one entry per region.  A result is the  *)
(* points it was calculated for.  The locks _spectral_mutex and            *)
(* _region_mutex are held for single accesses only: an action is what      *)
(* happens between two such accesses.                                      *)
(***************************************************************************)
EXTENDS Naturals, FiniteSets, Sequences

CONSTANTS Points,        \* what a region can be set to
          Stats,         \* the statistics of a spectral profile
          RegionTasks,   \* task objects; bounds the tasks that exist at once
          MaxObjects,    \* bound on the Region objects created
          MaxRegionMessages   \* bound on the client's messages

ASSUME RegionsAssumption ==
    Points # {} /\ Stats # {} /\ MaxObjects \in Nat \ {0} /\ MaxRegionMessages \in Nat

VARIABLES regions,          \* _regions: the Region object of an id, or 0
          object,           \* Region objects: [points, connected]
          created,          \* Region objects so far
          region_frame,     \* the Frame in _frames: "open", "closing" or "gone"
          spectral_req,     \* _spectral_req: [all, new] statistics of an id
          value_req,        \* _stats_req, _histogram_req: the ids required
          spectral_cache,   \* _spectral_cache
          value_cache,      \* _stats_cache, _histogram_cache
          task,             \* the tasks
          main,             \* where the main thread is, and its region id
          messages          \* messages so far

VARIABLES profile_sent,     \* history: the points of the profile sent last
          stale,            \* history: ids with a result stored or sent late
          unsent,           \* history: ids whose new statistics were replaced
                            \* by a difference before they were sent
          terminated        \* history: at() found nothing, or a null was used

history == <<profile_sent, stale, unsent, terminated>>
handler == <<regions, object, created, region_frame, spectral_req, value_req,
             spectral_cache, value_cache, task, main, messages>>
regionVars == <<handler, history>>

Ids == 1..MaxObjects
Values == {"stats", "histogram"}
Nothing == "none"               \* nothing cached
NaNs == "nan"                \* "outside the image": a result of NaNs
Results == Points \cup {Nothing, NaNs}

IdleRegionTask == [at |-> "idle", id |-> 0]
NoTask == [id |-> 0, todo |-> << >>, at |-> "free", need |-> {}, obj |-> 0,
           of |-> Nothing, initial |-> Nothing, overlap |-> FALSE, tardy |-> FALSE]

RegionsTypeOK ==
    /\ regions \in [Ids -> 0..MaxObjects] /\ created \in 0..MaxObjects
    /\ object \in [1..MaxObjects -> [points : Points \cup {Nothing}, connected : BOOLEAN]]
    /\ region_frame \in {"open", "closing", "gone"}
    /\ spectral_req \in [Ids -> [all : SUBSET Stats, new : SUBSET Stats]]
    /\ value_req \in [Values -> SUBSET Ids]
    /\ spectral_cache \in [Ids -> Results]
    /\ value_cache \in [Values -> [Ids -> Results]]
    /\ \A t \in RegionTasks :
          /\ task[t].need \subseteq Stats /\ task[t].obj \in 0..MaxObjects
          /\ task[t].of \in Results /\ task[t].initial \in Results
    /\ main.id \in 0..MaxObjects /\ messages \in 0..MaxRegionMessages
    /\ profile_sent \in [Ids -> [Stats -> Results]]
    /\ stale \subseteq Ids /\ unsent \subseteq Ids /\ terminated \in BOOLEAN

\* A region is set, a profile of one statistic is required, sent and cached.
FirstPoints == CHOOSE p \in Points : TRUE
FirstStat == {CHOOSE s \in Stats : TRUE}

RegionsInit ==
    /\ regions = [i \in Ids |-> IF i = 1 THEN 1 ELSE 0] /\ created = 1
    /\ object = [o \in 1..MaxObjects |->
                    [points |-> IF o = 1 THEN FirstPoints ELSE Nothing, connected |-> TRUE]]
    /\ region_frame = "open"
    /\ spectral_req = [i \in Ids |-> IF i = 1 THEN [all |-> FirstStat, new |-> FirstStat]
                                              ELSE [all |-> {}, new |-> {}]]
    /\ value_req = [d \in Values |-> {}]
    /\ spectral_cache = [i \in Ids |-> IF i = 1 THEN FirstPoints ELSE Nothing]
    /\ value_cache = [d \in Values |-> [i \in Ids |-> Nothing]]
    /\ task = [t \in RegionTasks |-> NoTask]
    /\ main = IdleRegionTask /\ messages = 0
    /\ profile_sent = [i \in Ids |-> [s \in Stats |->
                          IF i = 1 /\ s \in FirstStat THEN FirstPoints ELSE Nothing]]
    /\ stale = {} /\ unsent = {} /\ terminated = FALSE

PointsOf(id) == object[regions[id]].points
RegionSet(id) == regions[id] # 0 /\ object[regions[id]].connected
FrameSet == region_frame = "open"
RegionFileIdsValid(id) == RegionSet(id) /\ FrameSet

\* Tasks that hold the active-task mutex of a Region, and of the Frame.
Locked == {"locked", "apply", "initial", "calculate", "send", "store"}
RegionUsers(o) == {t \in RegionTasks : task[t].obj = o /\ task[t].at \in Locked}
FrameUsers == {t \in RegionTasks : task[t].at \in Locked \cup {"get", "at", "lock"}}

\* The regions of ids change under every task that works on them.
Overlap(ids) ==
    [t \in RegionTasks |->
        [task[t] EXCEPT !.overlap = @ \/ (task[t].id \in ids /\ task[t].at # "free")]]

Stream == <<"spectral", "histogram", "stats">>
NewTask(tasks, t, id, todo) ==
    [tasks EXCEPT ![t] = [NoTask EXCEPT !.id = id, !.todo = todo, !.at = "start"]]

-----------------------------------------------------------------------------
(***************************************************************************)
(* The main thread: one message at a time.                                 *)
(***************************************************************************)

ReceiveRegionMessage == main = IdleRegionTask /\ messages < MaxRegionMessages /\ messages' = messages + 1

\* GetNextRegionId: the largest id and one.
IsNextRegionId(i) == /\ \A j \in Ids : regions[j] # 0 => j < i
                     /\ i = 1 \/ regions[i - 1] # 0

\* OnSetRegion of a new region, or of an id that is no longer set: the data
\* streams are a task.
NewRegion(t, p) ==
    /\ ReceiveRegionMessage /\ region_frame = "open" /\ task[t].at = "free" /\ created < MaxObjects
    /\ created' = created + 1
    /\ object' = [object EXCEPT ![created'] = [points |-> p, connected |-> TRUE]]
    /\ \E id \in {i \in Ids : IsNextRegionId(i) \/ (i <= created /\ regions[i] = 0)} :
          /\ regions' = [regions EXCEPT ![id] = created']
          /\ task' = NewTask(Overlap({id}), t, id, Stream)
    /\ UNCHANGED <<region_frame, spectral_req, value_req, spectral_cache, value_cache,
                   main, history>>

\* OnSetRegion of a region that is set: UpdateRegion.
UpdateRegion(id, p) ==
    /\ ReceiveRegionMessage /\ region_frame = "open" /\ RegionSet(id)
    /\ object' = [object EXCEPT ![regions[id]].points = p]
    /\ task' = IF p = PointsOf(id) THEN task ELSE Overlap({id})
    /\ main' = [at |-> IF p = PointsOf(id) THEN "stream" ELSE "renew", id |-> id]
    /\ UNCHANGED <<regions, created, region_frame, spectral_req, value_req,
                   spectral_cache, value_cache, history>>

\* Mutant of UpdateNewSpectralRequirements: what is new stays as it was.
RequirementsStay ==
    /\ main.at = "renew"
    /\ main' = [main EXCEPT !.at = "clear"]
    /\ UNCHANGED <<regions, object, created, region_frame, spectral_req, value_req,
                   spectral_cache, value_cache, task, messages, history>>

\* RegionChanged: every requirement of the region is new.
UpdateNewSpectralRequirements ==
    /\ main.at = "renew"
    /\ spectral_req' = [spectral_req EXCEPT ![main.id].new = spectral_req[main.id].all]
    /\ main' = [main EXCEPT !.at = "clear"]
    /\ UNCHANGED <<regions, object, created, region_frame, value_req,
                   spectral_cache, value_cache, task, messages, history>>

\* Mutant of ClearRegionCache: the spectral profiles are left.
ClearValueCaches ==
    /\ main.at = "clear"
    /\ value_cache' = [d \in Values |-> [value_cache[d] EXCEPT ![main.id] = Nothing]]
    /\ stale' = stale \ {main.id}
    /\ main' = [main EXCEPT !.at = "stream"]
    /\ UNCHANGED <<regions, object, created, region_frame, spectral_req, value_req,
                   spectral_cache, task, messages, profile_sent, unsent, terminated>>

ClearRegionCache ==
    /\ main.at = "clear"
    /\ spectral_cache' = [spectral_cache EXCEPT ![main.id] = Nothing]
    /\ value_cache' = [d \in Values |-> [value_cache[d] EXCEPT ![main.id] = Nothing]]
    /\ stale' = stale \ {main.id}
    /\ main' = [main EXCEPT !.at = "stream"]
    /\ UNCHANGED <<regions, object, created, region_frame, spectral_req, value_req,
                   task, messages, profile_sent, unsent, terminated>>

\* The data streams of the changed region are a task.
QueueStreams(t) ==
    /\ main.at = "stream" /\ task[t].at = "free"
    /\ task' = NewTask(task, t, main.id, Stream)
    /\ main' = IdleRegionTask
    /\ UNCHANGED <<regions, object, created, region_frame, spectral_req, value_req,
                   spectral_cache, value_cache, messages, history>>

\* RemoveRegion: the region is disconnected ...
DisconnectRegion(id) ==
    /\ ReceiveRegionMessage /\ RegionSet(id)
    /\ object' = [object EXCEPT ![regions[id]].connected = FALSE]
    /\ task' = Overlap({id})
    /\ main' = [at |-> "erase", id |-> id]
    /\ UNCHANGED <<regions, created, region_frame, spectral_req, value_req,
                   spectral_cache, value_cache, history>>

\* Mutant of EraseRegion: WaitForTaskCancellation does not wait.
EraseRegionAtOnce ==
    /\ main.at = "erase"
    /\ regions' = [regions EXCEPT ![main.id] = 0]
    /\ main' = [main EXCEPT !.at = "purge"]
    /\ UNCHANGED <<object, created, region_frame, spectral_req, value_req,
                   spectral_cache, value_cache, task, messages, history>>

\* ... waits for the tasks that hold its mutex, and is erased ...
EraseRegion ==
    /\ main.at = "erase" /\ RegionUsers(regions[main.id]) = {}
    /\ regions' = [regions EXCEPT ![main.id] = 0]
    /\ main' = [main EXCEPT !.at = "purge"]
    /\ UNCHANGED <<object, created, region_frame, spectral_req, value_req,
                   spectral_cache, value_cache, task, messages, history>>

\* ... with its requirements and its caches.
RemoveRegionRequirementsCache ==
    /\ main.at = "purge"
    /\ spectral_req' = [spectral_req EXCEPT ![main.id] = [all |-> {}, new |-> {}]]
    /\ value_req' = [d \in Values |-> value_req[d] \ {main.id}]
    /\ spectral_cache' = [spectral_cache EXCEPT ![main.id] = Nothing]
    /\ value_cache' = [d \in Values |-> [value_cache[d] EXCEPT ![main.id] = Nothing]]
    /\ profile_sent' = [profile_sent EXCEPT ![main.id] = [s \in Stats |-> Nothing]]
    /\ stale' = stale \ {main.id} /\ unsent' = unsent \ {main.id}
    /\ main' = IdleRegionTask
    /\ UNCHANGED <<regions, object, created, region_frame, task, messages, terminated>>

\* OnSetSpectralRequirements: what is required already is not new, whether or
\* not it has been sent.
SetSpectralRequirements(t, id, required) ==
    /\ ReceiveRegionMessage /\ region_frame = "open" /\ RegionSet(id) /\ task[t].at = "free"
    /\ spectral_req' = [spectral_req EXCEPT ![id] =
          [all |-> required, new |-> required \ spectral_req[id].all]]
    /\ unsent' = IF \A s \in required \cap spectral_req[id].all :
                        profile_sent[id][s] = PointsOf(id)
                 THEN unsent ELSE unsent \cup {id}
    /\ task' = NewTask(task, t, id, <<"spectral">>)
    /\ UNCHANGED <<regions, object, created, region_frame, value_req, spectral_cache,
                   value_cache, main, profile_sent, stale, terminated>>

\* OnSetStatsRequirements and OnSetHistogramRequirements are tasks.
SetValueRequirements(t, id, d) ==
    /\ ReceiveRegionMessage /\ region_frame = "open" /\ RegionSet(id) /\ task[t].at = "free"
    /\ task' = NewTask(task, t, id, <<"require", d>>)
    /\ UNCHANGED <<regions, object, created, region_frame, spectral_req, value_req,
                   spectral_cache, value_cache, main, history>>

\* DeleteFrame: the Frame is disconnected ...
CloseFile ==
    /\ ReceiveRegionMessage /\ region_frame = "open"
    /\ region_frame' = "closing" /\ main' = [at |-> "close", id |-> 0]
    /\ task' = Overlap(Ids)
    /\ UNCHANGED <<regions, object, created, spectral_req, value_req, spectral_cache,
                   value_cache, history>>

\* The requirements and the results of every region in the file.
RemoveFileRequirementsCache ==
    /\ spectral_req' = [i \in Ids |-> [all |-> {}, new |-> {}]]
    /\ value_req' = [d \in Values |-> {}]
    /\ spectral_cache' = [i \in Ids |-> Nothing]
    /\ value_cache' = [d \in Values |-> [i \in Ids |-> Nothing]]
    /\ stale' = {} /\ unsent' = {}

\* ... waits for its tasks, and goes with RemoveFrame.
RemoveFrame ==
    /\ main.at = "close" /\ FrameUsers = {}
    /\ region_frame' = "gone" /\ main' = IdleRegionTask
    /\ RemoveFileRequirementsCache
    /\ UNCHANGED <<regions, object, created, task, messages, profile_sent, terminated>>

-----------------------------------------------------------------------------
(***************************************************************************)
(* Worker threads.                                                         *)
(***************************************************************************)

RegionTaskAt(t, where) == task[t].at = where
Part(t) == Head(task[t].todo)
RegionTaskGoto(t, where) == [task EXCEPT ![t].at = where]

\* The next part of the task, or its end.
NextPart(t) ==
    IF Len(task[t].todo) > 1 THEN NewTask(task, t, task[t].id, Tail(task[t].todo))
                             ELSE [task EXCEPT ![t] = NoTask]

\* The task leaves everything but itself alone.
OnlyTask == UNCHANGED <<regions, object, created, region_frame, spectral_req, value_req,
                        spectral_cache, value_cache, main, messages>>

\* FillSpectralProfileData: the new statistics, if the ids are valid.
FillSpectralProfileData(t) ==
    /\ RegionTaskAt(t, "start") /\ Part(t) = "spectral"
    /\ LET new == spectral_req[task[t].id].new
       IN  task' = IF RegionFileIdsValid(task[t].id) /\ new # {}
                   THEN [task EXCEPT ![t].at = "check", ![t].need = new]
                   ELSE NextPart(t)
    /\ OnlyTask /\ UNCHANGED history

\* One of the statistics is still required.
HasSpectralRequirements(t) == task[t].need \cap spectral_req[task[t].id].all # {}

\* GetRegionSpectralData: the checks, then the Frame's mutex.
CheckCancel(t) ==
    /\ RegionTaskAt(t, "check")
    /\ IF RegionFileIdsValid(task[t].id) /\ HasSpectralRequirements(t)
       THEN task' = RegionTaskGoto(t, "get") ELSE task' = NextPart(t)
    /\ OnlyTask /\ UNCHANGED history

\* GetRegion: RegionSet and, if it is, at() under a lock of its own; the
\* caller uses what it gets, and a null too.
GetRegion(t) ==
    /\ RegionTaskAt(t, "get")
    /\ IF RegionSet(task[t].id)
       THEN \/ task' = [task EXCEPT ![t].at = "lock", ![t].obj = regions[task[t].id]]
               /\ UNCHANGED terminated
            \/ task' = RegionTaskGoto(t, "at") /\ UNCHANGED terminated
       ELSE terminated' = TRUE /\ UNCHANGED task
    /\ OnlyTask /\ UNCHANGED <<profile_sent, stale, unsent>>

\* The second lock of GetRegion, after other threads had their turn.
GetRegionAt(t) ==
    /\ RegionTaskAt(t, "at")
    /\ IF regions[task[t].id] # 0
       THEN task' = [task EXCEPT ![t].at = "lock", ![t].obj = regions[task[t].id]]
            /\ UNCHANGED terminated
       ELSE terminated' = TRUE /\ UNCHANGED task
    /\ OnlyTask /\ UNCHANGED <<profile_sent, stale, unsent>>

\* The shared lock of the Region's mutex; too late if it is disconnected.
LockRegion(t) ==
    /\ RegionTaskAt(t, "lock")
    /\ task' = [task EXCEPT ![t].at = "locked",
                           ![t].tardy = ~object[task[t].obj].connected]
    /\ OnlyTask /\ UNCHANGED history

SendSpectralProfile(t, of) ==
    profile_sent' = [profile_sent EXCEPT ![task[t].id] =
        [s \in Stats |-> IF s \in task[t].need THEN of ELSE @[s]]]

\* A profile in the cache is sent.
LookUpProfile(t) ==
    /\ RegionTaskAt(t, "locked")
    /\ IF spectral_cache[task[t].id] # Nothing
       THEN SendSpectralProfile(t, spectral_cache[task[t].id]) /\ task' = NextPart(t)
       ELSE task' = RegionTaskGoto(t, "apply") /\ UNCHANGED profile_sent
    /\ OnlyTask /\ UNCHANGED <<stale, unsent, terminated>>

\* ApplyRegionToFile: NaNs are sent for a region that cannot be applied, one
\* that is being removed included.
ApplyRegion(t) ==
    /\ RegionTaskAt(t, "apply")
    /\ IF RegionFileIdsValid(task[t].id)
       THEN task' = [task EXCEPT ![t].of = PointsOf(task[t].id), ![t].at = "initial"]
            /\ UNCHANGED profile_sent
       ELSE SendSpectralProfile(t, NaNs) /\ task' = NextPart(t)
    /\ OnlyTask /\ UNCHANGED <<stale, unsent, terminated>>

\* initial_region_state is read after the region was applied.
InitialState(t) ==
    /\ RegionTaskAt(t, "initial")
    /\ task' = [task EXCEPT ![t].initial = object[task[t].obj].points, ![t].at = "calculate"]
    /\ OnlyTask /\ UNCHANGED history

\* Where a task goes whose profile is calculated.  It is up to date if the
\* region was, when its initial state was read, and that was the region's.
GoOnOrCancel(t, goOn) ==
    IF goOn THEN [task EXCEPT ![t].at = "send",
                              ![t].overlap = task[t].of # task[t].initial \/ task[t].tardy]
            ELSE NextPart(t)

\* Mutant of Calculate: a changed region does not cancel.
CalculateAnyway(t) ==
    /\ RegionTaskAt(t, "calculate")
    /\ task' = GoOnOrCancel(t, RegionFileIdsValid(task[t].id) /\ HasSpectralRequirements(t))
    /\ OnlyTask /\ UNCHANGED history

\* The profile, and the tests that cancel it.
Calculate(t) ==
    /\ RegionTaskAt(t, "calculate")
    /\ task' = GoOnOrCancel(t, /\ RegionFileIdsValid(task[t].id)
                               /\ object[task[t].obj].points = task[t].initial
                               /\ HasSpectralRequirements(t))
    /\ OnlyTask /\ UNCHANGED history

\* A task that overlapped with a change leaves a result of its own.
Late(t) == stale' = IF task[t].overlap THEN stale \cup {task[t].id} ELSE stale

Send(t) ==
    /\ RegionTaskAt(t, "send")
    /\ SendSpectralProfile(t, task[t].of)
    /\ Late(t)
    /\ task' = RegionTaskGoto(t, "store")
    /\ OnlyTask /\ UNCHANGED <<unsent, terminated>>

\* The profile is cached, unless it came from the loader's own data.
StoreProfile(t) ==
    /\ RegionTaskAt(t, "store")
    /\ \/ /\ spectral_cache' = [spectral_cache EXCEPT ![task[t].id] = task[t].of]
          /\ Late(t)
       \/ UNCHANGED <<spectral_cache, stale>>
    /\ task' = NextPart(t)
    /\ UNCHANGED <<regions, object, created, region_frame, spectral_req, value_req,
                   value_cache, main, messages, profile_sent, unsent, terminated>>

\* SetStatsRequirements, SetHistogramRequirements: set, or cleared.
SetRequirements(t) ==
    /\ RegionTaskAt(t, "start") /\ Part(t) = "require"
    /\ LET d == task[t].todo[2] IN
       IF RegionSet(task[t].id)
       THEN \/ /\ value_req' = [value_req EXCEPT ![d] = @ \cup {task[t].id}]
               /\ task' = NextPart(t)
            \/ /\ value_req' = [value_req EXCEPT ![d] = @ \ {task[t].id}]
               /\ task' = [task EXCEPT ![t] = NoTask]
       ELSE task' = [task EXCEPT ![t] = NoTask] /\ UNCHANGED value_req
    /\ UNCHANGED <<regions, object, created, region_frame, spectral_req, spectral_cache,
                   value_cache, main, messages, history>>

\* FillRegionStatsData, FillRegionHistogramData.
FillValues(t) ==
    /\ RegionTaskAt(t, "start") /\ Part(t) \in Values
    /\ task' = IF RegionFileIdsValid(task[t].id) /\ task[t].id \in value_req[Part(t)]
               THEN RegionTaskGoto(t, "value") ELSE NextPart(t)
    /\ OnlyTask /\ UNCHANGED history

\* GetRegionStatsData, GetRegionHistogramData: a cached result is sent; else
\* the region is applied.  Statistics outside the image are NaNs and cached.
GetValue(t) ==
    /\ RegionTaskAt(t, "value")
    /\ LET id == task[t].id
           applied == IF RegionFileIdsValid(id) THEN PointsOf(id) ELSE NaNs
       IN  IF region_frame = "gone"
           THEN terminated' = TRUE /\ UNCHANGED task
           ELSE /\ UNCHANGED terminated
                /\ task' = IF \/ value_cache[Part(t)][id] # Nothing
                              \/ applied = NaNs /\ Part(t) = "histogram"
                           THEN NextPart(t)
                           ELSE [task EXCEPT ![t].of = applied, ![t].at = "keep"]
    /\ OnlyTask /\ UNCHANGED <<profile_sent, stale, unsent>>

\* The result is calculated for what was applied, cached and sent; at() of a
\* Frame that is gone throws.
KeepValue(t) ==
    /\ RegionTaskAt(t, "keep")
    /\ IF region_frame = "gone" /\ task[t].of # NaNs
       THEN terminated' = TRUE /\ UNCHANGED <<task, value_cache, stale>>
       ELSE /\ value_cache' = [value_cache EXCEPT ![Part(t)][task[t].id] = task[t].of]
            /\ Late(t)
            /\ task' = NextPart(t)
            /\ UNCHANGED terminated
    /\ UNCHANGED <<regions, object, created, region_frame, spectral_req, value_req,
                   spectral_cache, main, messages, profile_sent, unsent>>

Work(t) ==
    \/ FillSpectralProfileData(t) \/ CheckCancel(t) \/ GetRegion(t) \/ GetRegionAt(t)
    \/ LockRegion(t) \/ LookUpProfile(t) \/ ApplyRegion(t) \/ InitialState(t) \/ Calculate(t)
    \/ Send(t) \/ StoreProfile(t)
    \/ SetRequirements(t) \/ FillValues(t) \/ GetValue(t) \/ KeepValue(t)

MainStep ==
    \/ UpdateNewSpectralRequirements \/ ClearRegionCache
    \/ EraseRegion \/ RemoveRegionRequirementsCache \/ RemoveFrame
    \/ \E t \in RegionTasks : QueueStreams(t)

Message ==
    \/ \E t \in RegionTasks, p \in Points : NewRegion(t, p)
    \/ \E id \in Ids, p \in Points : UpdateRegion(id, p)
    \/ \E id \in Ids : DisconnectRegion(id)
    \/ \E t \in RegionTasks, id \in Ids, r \in SUBSET Stats : SetSpectralRequirements(t, id, r)
    \/ \E t \in RegionTasks, id \in Ids, d \in Values : SetValueRequirements(t, id, d)
    \/ CloseFile

RegionsNext == ~terminated /\ (Message \/ MainStep \/ \E t \in RegionTasks : Work(t))

RegionsSpec == RegionsInit /\ [][RegionsNext]_regionVars

-----------------------------------------------------------------------------
(***************************************************************************)
(* Properties.                                                             *)
(***************************************************************************)

\* A cached profile, statistic or histogram is of the region as it is, also
\* when an id is used again, unless it was stored late: a statistic by a task
\* during which the region changed, a profile by one during which it changed
\* before the initial state was read or after the last test, or one that holds
\* a region that was removed, whose initial state stays as it was.
CachedResultsCurrent ==
    \A id \in Ids \ stale :
        (regions[id] # 0 /\ main.id # id) =>
            /\ spectral_cache[id] \in {Nothing, PointsOf(id)}
            /\ \A d \in Values : value_cache[d][id] \in {Nothing, PointsOf(id)}

\* When no task is left, every statistic that is required was sent for the
\* region as it is, unless a late result stands in the cache, or a difference
\* of requirements replaced statistics that were still to be sent.
Quiet == main = IdleRegionTask /\ \A t \in RegionTasks : task[t] = NoTask
RequiredProfilesSent ==
    (Quiet /\ FrameSet /\ ~terminated) =>
        \A id \in Ids \ (stale \cup unsent) :
            RegionSet(id) =>
                \A s \in spectral_req[id].all : profile_sent[id][s] = PointsOf(id)

\* The region a task calculates with stays in the map until the task lets go
\* of its mutex, whatever is removed and set in the meantime, if the task had
\* the mutex before the region was disconnected.
RegionKeptForItsTasks ==
    \A t \in RegionTasks :
        (task[t].at \in Locked /\ ~task[t].tardy) => regions[task[t].id] = task[t].obj

\* Results of regions are current, sent and calculated with a region that lives.
RegionsCorrect == CachedResultsCurrent /\ RequiredProfilesSent /\ RegionKeptForItsTasks
=============================================================================
