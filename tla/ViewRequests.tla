---------------------------- MODULE ViewRequests ----------------------------
(***************************************************************************)
(* SET_IMAGE_CHANNELS and SET_CURSOR of one session: the main thread       *)
(* leaves the latest request of a file in a queue of its own               *)
(* (_set_channel_queues) or in CursorSettings, and a task on a worker      *)
(* thread takes it and carries it out.  CLOSE_FILE and OPEN_FILE run on    *)
(* the main thread in between.                                             *)
(*                                                                         *)
(* The requests of one file are modelled; those of different files share   *)
(* nothing but the pool.  A request is its number in the order of arrival. *)
(* A critical section of CursorSettings (whose rw mutex is only taken for  *)
(* writing) is one step; so is OnSetImageChannels, which holds             *)
(* _frame_mutex throughout.                                                *)
(***************************************************************************)
EXTENDS Naturals, FiniteSets

CONSTANTS Tasks,         \* task objects; bounds the tasks that exist at once
          MaxRequests,   \* bound on the requests
          MaxOpens       \* bound on how often the file is opened

ASSUME BoundsAssumption == MaxRequests \in Nat /\ MaxOpens \in Nat \ {0}

VARIABLES open,             \* the file id is a key of _frames
          opens,            \* number of the current or last opening
          z,                \* the request the Frame's channel comes from
          cursor,           \* the request the Frame's cursor comes from
          channel_queue,    \* _set_channel_queues: the request in it, or 0
          task_active,      \* _image_channel_task_active
          channel_mutex,    \* _image_channel_mutexes: the task that holds it, or "free"
          latest_cursor,    \* CursorSettings::_latest_cursor, or 0
          kind,             \* "channel" or "cursor" task
          stage,            \* where each task is; "free": no such task
          request,          \* the request a task has taken
          sent              \* requests so far

VARIABLES asked,            \* history: the last request of each kind
          taken,            \* history: the last one taken by a task
          concurrent,       \* history: two tasks carried out requests of one
                            \* kind at once
          broken            \* history: the mutex was erased while it was held

viewState == <<open, opens, z, cursor, channel_queue, task_active, channel_mutex, latest_cursor,
               kind, stage, request, sent>>
viewVars == <<viewState, asked, taken, concurrent, broken>>

Kinds == {"channel", "cursor"}

ViewTypeOK ==
    /\ open \in BOOLEAN /\ opens \in 0..MaxOpens
    /\ z \in 0..MaxRequests /\ cursor \in 0..MaxRequests
    /\ channel_queue \in 0..MaxRequests /\ latest_cursor \in 0..MaxRequests
    /\ task_active \in BOOLEAN
    /\ channel_mutex \in {"free"} \cup {t \in Tasks : stage[t] = "locked"}
    /\ kind \in [Tasks -> Kinds]
    /\ stage \in [Tasks -> {"free", "queued", "locked", "execute"}]
    /\ request \in [Tasks -> 0..MaxRequests]
    /\ sent \in 0..MaxRequests
    /\ asked \in [Kinds -> 0..MaxRequests] /\ taken \in [Kinds -> 0..MaxRequests]
    /\ concurrent \in BOOLEAN /\ broken \in BOOLEAN

ViewInit ==
    /\ open = TRUE /\ opens = 1
    /\ z = 0 /\ cursor = 0
    /\ channel_queue = 0 /\ latest_cursor = 0
    /\ task_active = FALSE
    /\ channel_mutex = "free"
    /\ kind = [t \in Tasks |-> "channel"]
    /\ stage = [t \in Tasks |-> "free"]
    /\ request = [t \in Tasks |-> 0]
    /\ sent = 0
    /\ asked = [k \in Kinds |-> 0] /\ taken = [k \in Kinds |-> 0]
    /\ concurrent = FALSE /\ broken = FALSE

\* Tasks that have taken a request and not carried it out.
Executing(k) == {t \in Tasks : kind[t] = k /\ stage[t] = "execute"}
\* Channel tasks that have yet to look into the queue.
Coming == {t \in Tasks : kind[t] = "channel" /\ stage[t] \in {"queued", "locked"}}

QueueTask(t, k) ==
    /\ stage[t] = "free"
    /\ kind' = [kind EXCEPT ![t] = k]
    /\ stage' = [stage EXCEPT ![t] = "queued"]

-----------------------------------------------------------------------------
(***************************************************************************)
(* The main thread.                                                        *)
(***************************************************************************)

\* Mutant of SetChannels: the task flag is tested, the request left out
\* when a task is on its way.
SetChannelsIfIdle(t) ==
    /\ sent < MaxRequests /\ channel_mutex = "free"
    /\ sent' = sent + 1
    /\ asked' = [asked EXCEPT !["channel"] = sent']
    /\ channel_queue' = IF task_active THEN channel_queue ELSE sent'
    /\ task_active' = TRUE
    /\ IF task_active THEN UNCHANGED <<kind, stage>> ELSE QueueTask(t, "channel")
    /\ UNCHANGED <<open, opens, z, cursor, channel_mutex, latest_cursor, request,
                   taken, concurrent, broken>>

\* ImageChannelLock, TestAndSet, AddToSetChannelQueue, ImageChannelUnlock.
SetChannels(t) ==
    /\ sent < MaxRequests /\ channel_mutex = "free"
    /\ sent' = sent + 1
    /\ asked' = [asked EXCEPT !["channel"] = sent']
    /\ channel_queue' = sent'
    /\ task_active' = TRUE
    /\ IF task_active THEN UNCHANGED <<kind, stage>> ELSE QueueTask(t, "channel")
    /\ UNCHANGED <<open, opens, z, cursor, channel_mutex, latest_cursor, request,
                   taken, concurrent, broken>>

\* Mutant of SetCursor: a new setting does not replace the one that waits.
SetCursorIfNone(t) ==
    /\ sent < MaxRequests
    /\ sent' = sent + 1
    /\ asked' = [asked EXCEPT !["cursor"] = sent']
    /\ latest_cursor' = IF latest_cursor = 0 THEN sent' ELSE latest_cursor
    /\ IF latest_cursor = 0 THEN QueueTask(t, "cursor") ELSE UNCHANGED <<kind, stage>>
    /\ UNCHANGED <<open, opens, z, cursor, channel_queue, task_active, channel_mutex,
                   request, taken, concurrent, broken>>

\* AddCursorSetting, and a task for every message.
SetCursor(t) ==
    /\ sent < MaxRequests
    /\ sent' = sent + 1
    /\ asked' = [asked EXCEPT !["cursor"] = sent']
    /\ latest_cursor' = sent'
    /\ QueueTask(t, "cursor")
    /\ UNCHANGED <<open, opens, z, cursor, channel_queue, task_active, channel_mutex,
                   request, taken, concurrent, broken>>

\* DeleteFrame: the mutex and the flag go with the Frame, the queue stays.
DeleteFrame ==
    /\ task_active' = FALSE
    /\ channel_mutex' = "free"
    /\ broken' = (broken \/ channel_mutex # "free")

CloseFile ==
    /\ open
    /\ open' = FALSE
    /\ latest_cursor' = 0
    /\ DeleteFrame
    /\ UNCHANGED <<opens, z, cursor, channel_queue, kind, stage, request, sent,
                   asked, taken, concurrent>>

\* A new Frame under the file id; one that is there is deleted.
OpenFile ==
    /\ opens < MaxOpens
    /\ opens' = opens + 1
    /\ open' = TRUE
    /\ z' = 0 /\ cursor' = 0
    /\ IF open THEN DeleteFrame ELSE UNCHANGED <<task_active, channel_mutex, broken>>
    /\ UNCHANGED <<channel_queue, latest_cursor, kind, stage, request, sent,
                   asked, taken, concurrent>>

-----------------------------------------------------------------------------
(***************************************************************************)
(* Worker threads.                                                         *)
(***************************************************************************)

LockChannel(t) ==
    /\ kind[t] = "channel" /\ stage[t] = "queued"
    /\ channel_mutex = "free"
    /\ channel_mutex' = t
    /\ stage' = [stage EXCEPT ![t] = "locked"]
    /\ UNCHANGED <<open, opens, z, cursor, channel_queue, task_active, latest_cursor,
                   kind, request, sent, asked, taken, concurrent, broken>>

\* A task takes request n, or ends if there is none.
TakeRequest(t, n) ==
    /\ request' = [request EXCEPT ![t] = n]
    /\ stage' = [stage EXCEPT ![t] = IF n = 0 THEN "free" ELSE "execute"]
    /\ taken' = IF n = 0 THEN taken ELSE [taken EXCEPT ![kind[t]] = n]
    /\ concurrent' = (concurrent \/ (n # 0 /\ Executing(kind[t]) # {}))

\* Mutant of PopChannel: the flag stays set.
PopChannelActive(t) ==
    /\ stage[t] = "locked"
    /\ TakeRequest(t, channel_queue)
    /\ channel_queue' = 0
    /\ channel_mutex' = "free"
    /\ UNCHANGED <<open, opens, z, cursor, task_active, latest_cursor, kind, sent, asked, broken>>

\* Mutant of PopChannel: the request is read and left in the queue.
PeekChannel(t) ==
    /\ stage[t] = "locked"
    /\ TakeRequest(t, channel_queue)
    /\ task_active' = FALSE
    /\ channel_mutex' = "free"
    /\ UNCHANGED <<open, opens, z, cursor, channel_queue, latest_cursor, kind, sent, asked, broken>>

\* Mutant of PopChannel: the mutex is left locked if there is a request.
PopChannelLocked(t) ==
    /\ stage[t] = "locked"
    /\ TakeRequest(t, channel_queue)
    /\ channel_queue' = 0
    /\ task_active' = FALSE
    /\ channel_mutex' = IF channel_queue = 0 THEN "free" ELSE channel_mutex
    /\ UNCHANGED <<open, opens, z, cursor, latest_cursor, kind, sent, asked, broken>>

\* try_pop, ImageChannelTaskSetIdle, ImageChannelUnlock.
PopChannel(t) ==
    /\ stage[t] = "locked"
    /\ TakeRequest(t, channel_queue)
    /\ channel_queue' = 0
    /\ task_active' = FALSE
    /\ channel_mutex' = "free"
    /\ UNCHANGED <<open, opens, z, cursor, latest_cursor, kind, sent, asked, broken>>

\* OnSetImageChannels, under _frame_mutex.
ExecuteChannel(t) ==
    /\ kind[t] = "channel" /\ stage[t] = "execute"
    /\ z' = IF open THEN request[t] ELSE z
    /\ request' = [request EXCEPT ![t] = 0]
    /\ stage' = [stage EXCEPT ![t] = "free"]
    /\ UNCHANGED <<open, opens, cursor, channel_queue, task_active, channel_mutex,
                   latest_cursor, kind, sent, asked, taken, concurrent, broken>>

\* CursorSettings::ExecuteOne up to the release of its lock.
TakeCursor(t) ==
    /\ kind[t] = "cursor" /\ stage[t] = "queued"
    /\ TakeRequest(t, latest_cursor)
    /\ latest_cursor' = 0
    /\ UNCHANGED <<open, opens, z, cursor, channel_queue, task_active, channel_mutex,
                   kind, sent, asked, broken>>

\* OnSetCursor
ExecuteCursor(t) ==
    /\ kind[t] = "cursor" /\ stage[t] = "execute"
    /\ cursor' = IF open THEN request[t] ELSE cursor
    /\ request' = [request EXCEPT ![t] = 0]
    /\ stage' = [stage EXCEPT ![t] = "free"]
    /\ UNCHANGED <<open, opens, z, channel_queue, task_active, channel_mutex,
                   latest_cursor, kind, sent, asked, taken, concurrent, broken>>

-----------------------------------------------------------------------------
\* What a channel task does with a mutex that was destroyed while in use is
\* not modelled.
Execute(t) ==
    \/ ~broken /\ (LockChannel(t) \/ PopChannel(t) \/ ExecuteChannel(t))
    \/ TakeCursor(t) \/ ExecuteCursor(t)

ViewNext ==
    \/ \E t \in Tasks : (~broken /\ SetChannels(t)) \/ SetCursor(t) \/ Execute(t)
    \/ CloseFile \/ OpenFile

ViewSpec == ViewInit /\ [][ViewNext]_viewVars

FairViewSpec == ViewSpec /\ \A t \in Tasks : WF_viewVars(Execute(t))

-----------------------------------------------------------------------------
(***************************************************************************)
(* Properties.                                                             *)
(***************************************************************************)

\* "has its own queue to keep channels in order during animation"
\* (SessionManager.cc): a Frame never goes back to an older request.  The code
\* breaks it: a task is idle again before it carries out its request.
ChannelsInOrder == [][opens' = opens => z' >= z]_viewVars

\* A request in the queue has a task on its way, whatever was closed and
\* reopened in the meantime: the flag never says "active" for nothing.
RequestHasTask ==
    /\ channel_queue # 0 => Coming # {}
    /\ task_active /\ ~broken => Coming # {}

\* Requests for channels are taken in order; the one that waits is always the
\* last one made, so what is lost is what a later request replaced.
ChannelQueue == INSTANCE LatestValue
    WITH last <- asked["channel"], pending <- channel_queue, taken <- taken["channel"]
ChannelQueueKeepsLatest == ChannelQueue!Init /\ [][ChannelQueue!Next]_(ChannelQueue!vars)

\* The cursor settings keep the same promise, and a setting that waits is
\* taken in the end, or dropped with its file.
Cursors == INSTANCE LatestValue
    WITH last <- asked["cursor"], pending <- latest_cursor, taken <- taken["cursor"]
CursorsKeepLatest == Cursors!Spec

\* Both queues of requests refine the abstract one.
QueuesKeepLatest == ChannelQueueKeepsLatest /\ CursorsKeepLatest

\* The Frame comes to show the last channel asked for, unless its file is
\* closed or a second task overtook (the disorder of ChannelsInOrder).
LatestChannelShown ==
    \A n \in 1..MaxRequests :
        (asked["channel"] = n /\ taken["channel"] < n /\ open)
            ~> (z >= n \/ asked["channel"] > n \/ ~open \/ concurrent \/ broken)
=============================================================================
