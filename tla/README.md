# CARTA backend: TLA+ models and proofs

The CARTA backend serves astronomical images to browser clients over a
WebSocket. Its numerical code is tested well; what is hard to test is how its
threads share sessions, frames, regions and caches, and what a long sequence of
requests leaves behind. This directory models that part: six components of the
**core** as specifications with a run of their own, two of them checked against
an abstract specification, and seventeen **services** beside the core, checked
together in one run. Eight modules hold theorems that TLAPS proves for every
value of the constants.

Paths are relative to the repository; the code is under `src/`.

## 1. The system

One **main thread** runs the uWebSockets loop: it accepts connections, parses
messages, answers most of them at once and makes an `OnMessageTask` for those
that take time. A pool of **worker threads** executes the tasks. A session owns
a `Frame` per open image; the frames own the caches. A worker sends by pushing
to the session's `_out_msgs` and deferring a function to the loop; the main
thread alone touches a socket.

| Part | State | Operations | Shared with | Hard behaviour | What must hold | Module |
|---|---|---|---|---|---|---|
| `ThreadManager` (`ThreadingManager/ThreadingManager.*`) | task queue, mutex, condition variable, exit flag | `QueueTask`, worker loop, `ExitEventHandlingThreads` | every session | a wait without a predicate; the flag is outside the mutex; the signal handler that exits runs on top of any code of the main thread | no lost wake-up, one owner and queue order for tasks, exit ends | `TaskPool` |
| `queuing_rw_mutex` (`ThreadingManager/Concurrency.h`) | reader and writer count, list of condition variables | enter and leave, for readers and writers | `Frame::_cache_mutex`, `CursorSettings` | waits without a loop, nested reads | exclusion, writers' order, no lost wake-up | `RWMutex` |
| `SessionManager`, `Session` (`Session/SessionManager.*`, `Session.*`, `OnMessageTask.h`) | `_sessions` and its mutex, reference count, `_connected`, `_out_msgs` | connect, disconnect, resume, register, `DeleteSession`, `SendEvent`, a task's constructor and destructor | tasks, deferred functions | who deletes a session; what is deferred beyond its deletion; changed ids | not freed in use, freed in the end, answers sent, silence after a disconnect | `SessionLifecycle` |
| Animation (`Session.cc`, `AnimationObject.h`, `OnMessageTask.cc`) | `AnimationObject`, active flag | start, stop, flow control, close; `StartAnimationTask`, `AnimationTask` | main thread and two kinds of tasks, no lock | forks of the chain of tasks; an acknowledgement between the test and the park; turns and wraps at both ends; a close in two steps | one chain, order of frames, distance to the client, resume, stop | `Animation` |
| View requests (`SessionManager.cc`, `OnMessageTask.cc`, `CursorSettings.*`) | channel queue and idle flag per file, latest cursor per file | `SET_IMAGE_CHANNELS`, `SET_CURSOR`, their tasks, open and close | main thread and tasks | the idle flag is cleared before the work is done; close while a task holds the mutex | no request stranded, the latest wins, order | `ViewRequests` |
| Image cache (`Frame/Frame.*`, `Cache/TileCache.*`) | indices, image cache and its flags, tile cache, cached statistics | `SetImageChannels`, `FillImageCache`, tiles, contours, statistics | channel task, animation, data tasks | a change of channel is four steps, of which two take a lock | data belongs to the channel it is marked with | `FrameCache` |
| `LoaderCache` (`Cache/LoaderCache.*`) | map and LRU list of loaders | `Get`, `Remove` | tasks of a session | the lock is released while a loader is built; files change on disk, and only some loaders notice | queue and map agree, capacity, no loader of an older file that is watched | `LoaderCache` |
| `RegionHandler`, `RequirementsCache` (`Region/RegionHandler.*`, `Cache/RequirementsCache.h`) | regions, requirements, cached results | set, remove, requirements, close; spectral profiles, statistics, histograms | main thread and tasks | region changed or removed while a result is calculated; late results | results cached and sent are of the region as it is | `Regions` |
| `Region`, `RegionConverter` | region state, cached lattice regions | update, apply to the reference and to a matched image | main thread and tasks | caches are reset before the state is set | the region applied is the present one, and found | `RegionApplied` |
| Line profiles and PV images (`RegionHandler.cc`) | line, stop flag per file, temporary boxes | box after box, stop | tasks, channel | a stop meets the next request; line or channel changes between boxes | sent for the present line and channel, not when stopped | `LineProfiles` |
| PV previews (`RegionHandler.cc`, `ImageGenerators/PvPreview*`) | preview cubes, cuts with queues of line states, frames | request, update, stop, close | tasks | objects held after the maps have lost them | cut from a whole cube, caught up with the line | `PvPreview` |
| Cursor and point profiles (`Frame.cc`) | cursor, requirements, image and tile caches | spectral and spatial profiles | tasks | changes while a profile is filled; two caches; rounding at the end of a row | present cursor, complete; the pixels asked for | `CursorProfiles`, `SpatialProfiles` |
| Cube histograms (`Session.cc`, `Frame.cc`) | one cancel flag per session, requirements, cached statistics | request, cancel, two passes over the channels | tasks | the flag is reset by the next request | complete ones are of all channels, cancelled ones not sent | `CubeHistograms` |
| Moments and fits (`MomentGenerator`, `ImageFitter`, `Session.cc`) | generator of a frame, stop flag, rest frequency, next file id | calculate, stop, open the generated images | tasks | a generator replaced in use; two requests with the same ids | image left as it was, cancelled only by a stop, images kept | `Generators` |
| Saved images (`Frame::SaveFile`) | files on disk, the loader's image | save whole, range or region | tasks | a file removed before its successor is written | what was asked for, other files kept | `SaveFiles` |
| Stokes hypercubes (`StokesFilesConnector`) | loaders | open, check, concatenate | main thread | order of files against order of planes | planes labelled as asked, equal steps, loaders freed | `Hypercubes` |
| `FileListHandler` | locks per kind, one stop flag, one progress callback | list, stop | **all** sessions | a stop before the start is lost; callback of another session | progress to its owner, a stop ends its list | `FileLists` |
| `HttpServer` scripting, `Session` callbacks | request number, callbacks | request, response, abort, session closed | main thread | ids of other requests, request sent before its callback is known | each request answered once | `Scripting` |
| `HttpServer` database | preferences, objects, files | get, update, clear | servers of one user | read, change and write without a lock; a crash while writing | what was saved is kept | `Preferences` |
| Region files (`CrtfImportExport`, `Ds9ImportExport`, `RegionImportExport`) | parser state from line to line | export, import | – | state of one region taken for the next | what is imported is what was exported | `RegionFiles` |
| Catalogue tables (`Table/*`) | tables, cached views | open, close, filter, sort, pages | – | an older view answers a new request | rows of the present table and filters, complete pages | `Tables` |
| Settings and start (`Main/ProgramSettings.*`, `SessionManager::Listen`) | four sources, port range | apply, listen | – | two ways of merging, unparsable files | precedence, lowest free port | `Settings` |
| Image loaders, data streams, statistics, file information, `TilePool`, logger, messages | mostly none | sequential | – | – | numerical or I/O | not modelled (section 7) |

`PROJECT.json` lists every part, the hazards at their lines and the properties
that stand guard over each.

### How the parts meet

* `OnMessage` creates tasks (`SessionLifecycle`'s `StartTask` is any moment after
  that; `TaskPool` is what happens until then).
* `SET_IMAGE_CHANNELS` and the animation both end in `Frame::SetImageChannels`;
  the first under `Session::_frame_mutex`, the second without. `FrameCache` has
  both as *setters*.
* `FrameCache` uses the read-write lock by what it promises (`CanRead`,
  `CanWrite`); `RWMutex` says when the lock keeps the promise, and when not: a
  reader that resumes late breaks it. The models are composed by this interface,
  not in one state space.
* `Animation` and `ViewRequests` use the pool as a queue of tasks, which
  `TaskPool` is shown to implement (`TaskService`).
* The tasks of the services are started like the others, and hold their `Session`
  as `SessionLifecycle` says. `Frame::WaitForTaskCancellation` and
  `Region::WaitForTaskCancellation` are what a task's lock in `Regions` and
  `CursorProfiles` meets.
* The services meet each other in what they take as given: `Regions` leaves to
  `RegionApplied` whether the region that is applied is the present one, and
  `SpatialProfiles` has the two caches of `FrameCache` at rest, between two
  changes of the channel.

## 2. Modules

| Module | What it is |
|---|---|
| `TaskPool` | the pool: one action per lock section of `thread_lambda`, `QueueTask`, `ExitEventHandlingThreads` |
| `TaskService` | abstract: a FIFO of tasks and the set in execution |
| `RWMutex` | `queuing_rw_mutex`, one action per method up to its return or wait |
| `SessionLifecycle` | sockets, sessions, tasks, deferred sends |
| `Animation`, `MCAnimation` | playback: messages, tasks, the object they share; what its run's clients ask for |
| `ViewRequests` | channel and cursor requests of one file |
| `LatestValue` | abstract: a cell in which a request replaces the one that waits |
| `FrameCache`, `MCFrameCache` | one frame's caches; the symmetry of its run |
| `Regions`, `RegionApplied` | the regions of a session; one region and its lattice regions |
| `LineProfiles`, `PvPreview` | profiles and PV images along a line; PV previews |
| `CursorProfiles`, `SpatialProfiles`, `CubeHistograms` | spectral profiles of the cursor, spatial profiles of a point, histograms of a cube |
| `Generators`, `SaveFiles`, `Hypercubes` | images that are generated, saved and put together |
| `Scripting`, `Preferences`, `Settings` | HTTP interface, its database, the program's start |
| `FileLists`, `LoaderCache`, `RegionFiles`, `Tables` | folders, loaders, region files, catalogs |
| `Services`, `MCServices` | the services side by side; the sets of inputs for their run |
| `Threading_proofs` | theorems on `TaskPool` and `RWMutex` |
| `SessionLifecycle_proofs`, `Animation_proofs` | on the modules they are named after |
| `Frame_proofs` | on `FrameCache` and `ViewRequests` |
| `Profiles_proofs` | on `LineProfiles`, `CursorProfiles`, `CubeHistograms`, `SpatialProfiles`; the lemmas on induction over numbers |
| `Regions_proofs` | on `Regions`, `RegionApplied`, `RegionFiles` |
| `Images_proofs` | on `Generators`, `PvPreview`, `LoaderCache`, `SaveFiles`, `Hypercubes` |
| `Services_proofs` | on `Scripting`, `FileLists`, `Settings`, `Preferences`, `Tables`, and the services side by side |

The configuration `X.cfg` checks module `X`, but `Animation.cfg`,
`FrameCache.cfg` and `Services.cfg` check `MCAnimation`, `MCFrameCache` and `MCServices`;
the other five configurations (section 5) check one claim of a document each.

### Code and model

**TaskPool.** `pc[w]` is where a worker is: about to take the mutex (`loop`), in
`wait`, woken, with a task, or before `if (_has_exited)`. `Sleep`, `Take`,
`Finish`, `LeaveOrLoop`, `Wake`, `CheckExit` are the branches of
`thread_lambda`; `SpuriousWakeup` is the one every condition variable may have.
`MainQueueTask` and `MainQueueTaskReturn` split the call made by the main thread,
because the SIGINT handler, which exits, may run inside it and then holds the
mutex for ever. `ExitSetFlag`, `ExitNotifyAll` and `ExitJoin` are the exit. A
task is a name; what it does is `run` and, possibly, queueing another.

**RWMutex.** Every method runs under `_mtx`, so a method is one action up to its
return or its wait, and the return from a wait another. A *nester* enters a read
section inside its read section, as `Frame::ContourImage` does when it averages
blocks. `late` and `ahead` are history. Spurious wake-ups of these waits are not
modelled; they would add one more way to the violation of section 5.

**SessionLifecycle.** `OnConnect`, `OnDisconnect`, `OnForcedDisconnect` (code
4003), `OnRegisterViewer` (which may change a session's id), `OnResumeSession`
and `RunDeferred` run on the main thread, one at a time. A task is counted from
its constructor (`NewTask`, `SpawnTask`) to `EndTask`, the decrement in its
destructor; `ReadId` is the read that follows. `DeleteSession` is three actions:
not found, entered (mutex taken, `_connected` cleared), and the end, which waits
for running calculations, then checks the count. `dangling` records a use of a
freed object, after which the behaviour is not followed.

**Animation.** Every read of a flag that other threads write is a step:
`TestActive` and `Build` (`StartAnimationTask`), `BeginFrame`, `ShowFrame`,
`CompareGap`, `Park`, `Finish` (`AnimationTask`). The messages are
`StartAnimation`, `StopAnimation`, `HandleFlowControl`, `CloseFile`, `OpenFile`.
A frame is its channel. A behaviour's clients ask for one `Plan`: where to start,
the delta from frame to frame, whose sign `NewObject` turns into `going_forward`,
and the mode at the end of the range (once, loop, reverse). CLOSE_FILE is two
steps, `CloseFile` (`CheckCancelAnimationOnFileClose`) and `DeleteFrame`; `closing`
keeps the main thread from other messages in between, and the tasks run on. If one
of them builds a new object there, it is `orphaned`: nothing tells it that its file
is gone, and it plays on, showing no frame, until it is stopped; it is not followed
once its file id is given to another file. `forked`, `missed` and `crashed` record
the other races; the properties say what holds without them, and a behaviour is not
followed after a fork or a crash, where two threads race for one freed object.

**ViewRequests.** Requests are numbered. `SetImageChannels` pushes and starts a
task when none is active; `LockChannel`, `PopChannel`, `ExecuteChannel` are
`SetImageChannelsTask::execute`; `SetCursor`, `TakeCursor`, `ExecuteCursor` are
`CursorSettings`. `CloseFile` and `OpenFile` erase the flag and the mutex as
`DeleteFrame` does; `broken` records that the mutex was in use.

**FrameCache.** A channel stands for the pair of indices and for the pixels
read for it. A job is an actor's place and what it holds. `SetImageChannels` is
`BeginSet`, `InvalidateImageCache`, `SetIndex`, then a fill, or `ReadIndex` and
`ResetTileCache`. `FillImageCache` has the early exit, the read of the indices,
the success and the failure. `Tile`, `Contour` and `GetBasicStats` are the
consumers. `loader` is the kind of loader and the channels that are a computed
polarization: the image cache is left to be filled on demand (`OnDemand`) only for
a loader with mipmaps and a channel that is in the file, as the test in
`SetImageChannels` says (`Frame.cc:352`). `late` and `failed` are history; so are `overlap` and `left` of a job.

**Regions.** `SetRegion`, `RemoveRegion`, the requirement messages and the
closing of the file run on the main thread, a step for each access to a shared
map. A task goes from the test that the region is set, over the lock it takes, to
the calculation, the storing and the sending. A result is the control points it
was calculated for. `stale`, `unsent` and a task's `tardy` are history.

**RegionApplied.** `ResetRegionCache` and `SetRegionState` are the two halves of
`UpdateRegion`. `GetCachedLCRegion`, `TestSet`, `MakeLCRegion`, `CacheLCRegion`
apply the region to its own image, `UseConverter`, `MakeConverter`, `Convert` to a
matched one. `freed` ends a behaviour in which a task uses a converter that the
main thread has reset.

**LineProfiles, PvPreview.** A task makes one box after the other, tests between
them whether the line moved, the image is closed or the PV image stopped
(`CheckBox`), and sends. A preview takes its line states from the queue of its
cut (`GetNextRegion`) and its data from the cube, which it loads first.

**CursorProfiles, SpatialProfiles.** The first follows tasks through the channels
of a profile (`ReadSlice`, `CheckProfile`, `SendCursorProfile`), with positions as
names. The second takes the loops of `FillSpatialProfileData` as operators on a
row of pixels: `Decimate`, `Extremes`, `ReadPixels`, `GetDownsampled`; channels
change between requests, so that the two caches differ as the code lets them.

**CubeHistograms.** The tasks go through the channels twice, look at
`_histogram_context` where the code does, and cache what they have.

**Generators.** Moment jobs share `moment_generator` and the image's rest
frequency, fits the fitter's stop flag; both take ids for the images they open.
A job's pixels are whole, zero (a stopped fit) or none.

**SaveFiles, Hypercubes.** A file on disk is what it holds: its original, an
expression, or a selection of channels and polarizations. A hypercube is the
sequence of its labelled planes. What casacore decides is `\E`.

**Scripting, Preferences, FileLists, LoaderCache.** One action per handler, split
where a lock is released or where another process may come in. An abort erases the
callback of the newest id and writes its 500 all the same (`EndHttp`). A loader is the version of its
file that it reads. `Watched` files are those whose loader looks at the time of
modification (`ImageUpdated`); a compressed, remote, generated or LEL one never
does, and stays in the cache when its file changes. `GetLoader` may give a null pointer, which is cached like a
loader and never dropped for a change. `CloseImageIfUpdated` is a frame that closes
its image: the loader takes note of the change, is no longer `Outdated`, and reads
the pixels of the file as it is (what it knows of the header stays). `misdirected`,
`spoiled`, `alone`, `raced` are history.

**RegionFiles, Tables, Settings.** Sequential: the writers and parsers line by
line, the filters and pages request by request, the sources of a setting one by
one. Texts are classes (a name with `global` in it, a colour that looks like a
hexadecimal number), numbers small integers.

## 3. Runs

| Run | Bounds | What it shows |
|---|---|---|
| `TaskPool` | 3 workers, 3 tasks | `WorkConserving`: as long as a worker sleeps there are as many others on their way to the queue as tasks in it. `ImplementsTaskService`: order of `QueueTask`, each once. `QueuedTaskRuns`. `QuietExitCompletes`: an exit that finds no worker between its test and its wait ends. |
| `RWMutex` | 4 threads, 1 nester | `ExclusionUnlessLate`, `WritersInOrder`, `NoLostWakeup`, `WriterEnters` (unless a nested reader blocks itself and everybody else: the code allows this deadlock). |
| `SessionLifecycle` | 2 sessions, 2 tasks, 1 unsent message each | `RefCountExact`, `SessionOutlivesTasks`, `OpenSessionConnected` (as long as no session took another one's id), `ClosedSessionSilent`, `DisconnectedSessionFreed`, `MessageSent`. |
| `Animation` | 1 file, 3 task objects, 2 workers, 3 channels, window 0, 2 starts, 3 unacknowledged frames, 4 plans: once from 0 by 1, once from 2 by -1, loop from 1 by -2, reverse from 0 by 2 | `OneChain`, `WindowKept` (the distance to the client, and that an animation is parked only when it is ahead), `FramesInOrder`, `ParkedAnimationResumes`, `StartIsCarriedOut`, `StoppedAnimationRests`. |
| `ViewRequests` | 3 requests, 3 tasks, 2 openings | `RequestHasTask`, `QueuesKeepLatest` (both queues refine `LatestValue`), `LatestChannelShown`. |
| `FrameCache` | 2 setters, 1 worker, 2 channels, each kind of loader with and without a computed polarization | `CacheCurrentUnlessLate`, `ImageAvailable`, `DataOfTheirChannel` (tiles and contours), `StatsOfTheirChannel`. |
| `Services` | see below | `RegionHandlerCorrect`, `PvPreviewCorrect`, `ProfilesCorrect`, `GeneratorsCorrect`, `ScriptingCorrect`, `FileListsCorrect`, `ImageFilesCorrect`, `RegionFilesCorrect`, `TablesCorrect`, `ConfigurationCorrect`. |

Each property is also run against a mutated definition that stands for a
plausible error in the code, and is violated there; the mutated definitions are
next to the originals, marked *Mutant of*. The type invariants of `Animation`,
`ViewRequests` and the services are checked with them; those of the other modules
and some parts of their inductive invariants (`SingleOwner`, `CountsExact`) are only
proved (section 6).

**The services in one run.** `Services` chooses a service initially and then
takes its steps only. No two services share a variable in these models, so a
property of one that holds in its own behaviours holds in every interleaving with
the others: the states of the run are the *sum* of the services' states, not
their product. A property is evaluated when its service moves; a service that
does not move keeps one of its initial states (`Pinned`), so that the choice of
an initial state multiplies nothing. What the services do share in the program is
what the models take as given (section 1). Their tasks are interchangeable
(`TaskSymmetry`); no service chooses one by `CHOOSE` and none has a liveness
property, so the symmetry is sound.

| Service | Bounds | Properties |
|---|---|---|
| `Regions` | 2 shapes, 1 statistic, 2 tasks, 2 region objects, 3 messages | `CachedResultsCurrent`, `RequiredProfilesSent`, `RegionKeptForItsTasks` |
| `RegionApplied` | 3 shapes, 2 tasks, 1 update to a state outside the image, 2 converters | `AppliedRegionCurrent`, `RegionInsideIsFound` |
| `PvPreview` | 2 previews, 2 tasks, 3 messages | `PreviewFromWholeCube`, `StopCancelsOnce`, `PreviewCaughtUp` |
| `LineProfiles` | 2 tasks, 2 coordinates, 1 box, 2 line states and channels, 2 messages | `SentLineCurrent`, `StoppedPvNotSent`, `ProfileOfItsChannel` |
| `CursorProfiles` | 2 tasks, 2 positions, 2 requirements, 2 slices | `RequiredProfilesComplete` |
| `SpatialProfiles` | 2 rows of 9 and 10 pixels, 16 images, 58 requests, 2 channels | `SpatialProfilesCorrect` |
| `CubeHistograms` | 2 tasks, 3 configurations, 2 channels, 3 messages | `CompleteHistogramsWhole`, `CancelledHistogramNotSent` |
| `Generators` | 2 moment requests, 2 fits, 2 rest frequencies | `RestFrequencyRestored`, `CancelledWhileRunning`, `FitOfTheData`, `GeneratedImagesKept` |
| `SaveFiles` | 7 images, about 75 requests, 2 saves | `SavedAsAsked`, `FilesKept`, `RegionsSaved` |
| `Hypercubes` | 1 to 4 files, alike or one that differs, 7 polarizations and the usual sequences | `PlanesAsAsked`, `AxisLinear`, `OrderedAccepted`, `LoadersFreed` |
| `Scripting` | 3 requests, 2 sessions | `AnsweredOnce`, `OpenRequestKnown` |
| `FileLists` | 2 lists, 2 entries, 4 messages | `ProgressToItsOwner`, `StopEndsItsList` |
| `LoaderCache` | 3 files of 2 versions, 1 of them watched, 2 tasks, capacity 2 | `QueueOrdersMap`, `LoaderFresh` |
| `RegionFiles` | every type of region with its angles, sizes, names, colours and styles, up to 2 others after it, both formats and frames, one edit | `ImportedAsExported`, `NothingLost` |
| `Tables` | 4 files, 7 lists of filters, 3 columns, 3 messages | `FilteredRowsCurrent`, `PagesComplete` |
| `Settings` | every setting, every content of two files, every subset of its options, up to 2 arguments, 6 port lists | `SettingsPrecedence`, `OpenedFiles`, `LowestFreePort` |
| `Preferences` | 3 servers (1 read-only), 2 preferences, 1 object, 3 requests | `SavedIsKept`, `ListedIsReadable` |

**Why these bounds are enough.** The errors these components can have need few
actors. Pool: one worker busy, one asleep, one on its way, and a task that
queues a task. Lock: the late reader needs a writer to wait for and a second one
to meet; the fourth thread makes two writers wait at once. Sessions: two, since
one may take the id of the other. Animation: three channels give a middle and
two ends; the plans have every mode, both directions, both ends and the middle as a
start, a delta that meets the ends and one that leaps over the range, so that every
branch of `Advance` is taken; the theorems are for all plans. A second start covers replacing the object; window 0 reaches the park
at once (the size is a parameter of one comparison only). Requests: three show
that one in the middle is skipped and the last kept. Cache: two channels are
enough to leave one and return; a third setter adds no kind of step
(the two are alike, and the run, of invariants and a property of steps, uses their symmetry). Services:
two tasks meet in every pair of steps, and the exceptions that the properties
name are all reached with them; three files and a capacity of two make the loader
cache evict; two loops of a slice, box or channel make a first and a last one
(one box is both); a row of ten pixels has whole blocks, a cut one and one
without any value for both reductions.
Numbers that grow without limit in the code (starts, requests, openings, unsent
messages, unacknowledged frames) are bounded by guards on what *clients* may do,
named `Max...`, except `MaxTasks`, `MaxUnacked` and `MaxMessages`, which also
delay a worker until there is room.

`CHECK_DEADLOCK FALSE` stands where the system may stop: the process ends
(`TaskPool`), all sessions are gone, all requests are made (also in `Services`), or
a nested reader is blocked (`RWMutex`). `FrameCache` is checked for deadlock.

## 4. Fairness

* Workers: weak fairness of each worker's own steps. The operating system runs
  threads that can run; a task is assumed to end.
* Mutexes: where an actor competes for a `std::mutex` again and again
  (`DeleteSession`), strong fairness; elsewhere the holder's release leaves the
  waiter enabled long enough for weak fairness.
* The loop runs what was deferred (uWebSockets does so in each iteration).
* Clients: nothing, but that a client acknowledges the frames it gets
  (`Animation`); a client that does not is what flow control is for. This is strong
  fairness: the main thread handles its messages in turn, so an acknowledgement has
  its turn however many files are opened and closed before it.
* A close that was begun ends (`DeleteFrame`): it waits for tasks of the file, which
  end.
* A spurious wake-up, a client's request, a close: no fairness.
* The services state no fairness and no liveness; what is due at their end is
  stated as an invariant of the states at rest (`RequiredProfilesSent`,
  `PreviewCaughtUp`, `RequiredProfilesComplete`).

## 5. Where the code does not do what is written

Each has a run that must fail, with one property quoting the claim:

| Run | Claim | What happens |
|---|---|---|
| `TaskPoolExit` | "Fixed problem with backend hanging rather than exiting …" (`CHANGELOG.md:156`) | `_has_exited` is set and everybody notified without the mutex; a worker between its look at the flag and `wait` sleeps for ever, and `join` with it. |
| `RWMutexShared` | "only one writer at a time" (`Concurrency.h:69`) | a reader resumes after `wait` without looking again, next to a second writer. |
| `SessionDangling` | "Ensured that sessions are deleted correctly" (`CHANGELOG.md:162`) | `~OnMessageTask` reads the session after giving up its reference; deferred functions hold none. |
| `ViewRequestsOrder` | "keep channels in order" (`SessionManager.cc:184`) | the task is idle again before it carries its request out, and the next one may overtake it. |
| `FrameCacheValid` | "cached image data is valid for current z and stokes" (`Frame.h:302`) | a fill between the invalidation and the new index leaves the old channel, marked valid. |

The passing runs say what holds all the same. Where a property has an exception
it names the race or the fault that the code permits, and each has a variable, a
field or an operator of that name. In the core: `late` (a reader, or a fill of the
cache), `dangling`, a changed `id`, `forked`, `orphaned`, `missed`, `crashed`, `concurrent`,
`broken`, `failed` (a read of the image whose result is ignored), `overlap` and
`left` (the channel was changed while a worker used it), `OnDemand` (a cache that is
not filled by the setter), `SelfBlocked`. In the services:

| Module | Exceptions |
|---|---|
| `Regions` | `stale` (a result stored when its region had changed), `unsent` (a difference of requirements replaced others still to be sent), `tardy` (a task that locked a region already disconnected; a profile it stores is late, too) |
| `RegionApplied` | `overlap`, `leftover` (the old state is read after the caches were reset), `raced`, `spent` (computed polarizations use up the only attempt), `freed` |
| `LineProfiles` | `moved`, `changed` (after the last test); a stop that another PV request of the file reset or erased does not count as `stopped` |
| `PvPreview` | `late` (the cube was being loaded for another request), `skipped` (a task ended before it took the state queued for it) |
| `CursorProfiles` | `late` (the cursor moved between the test and the message), `unreadable` |
| `SpatialProfiles` | `StaleTiles`, a zero beside a single pixel, a range within the last block of a row, a computed polarization that is not reduced |
| `CubeHistograms` | `revived` (another request reset the flag), `half_cached`, `null_frame` |
| `Generators` | `GeneratorGone` (the generator was replaced), `overlapped` (another request opened images while this one opened its own), `process_ended` |
| `Scripting` | `misdirected` (the abort took the callback of the newest request) |
| `FileLists` | lists that were not `alone`, ended `others` |
| `LoaderCache` | files that are not `Watched`, `NullLoader`, `raced` (another task was making the loader) |
| `SaveFiles` | the rest frequency of a plane, an expression, a region of an image whose axes are mistaken, the source under another name |
| `Hypercubes` | `Unset` labels, files of no polarization, mixed signs, three files out of order |
| `RegionFiles` | `ReadAsWritten` (names with `global` in DS9, an edit between the lines of one text), what `Kept` says a format loses |
| `Settings` | an unparsable user's file, deprecated options, a positional folder |
| `Preferences` | `spoiled` (two servers at once, a crash while writing, a stream that does not open) |

An exception is an interleaving that the code permits, so the properties that have one
show the absence of *other* ways to go wrong and do not guard against the named
one: a nested read may block a frame's lock, cached statistics may be of
a channel that was left during their calculation, the result of a region may be stored late, an update of the preferences may be
lost when two servers write. Beside the named ones there is what the models leave
out (section 7). Most exceptions are not against anything that is
written, and have no run of their own; some are worth knowing:

* **An animation without a file.** `CheckCancelAnimationOnFileClose` marks the object
  there is (`Session.cc:639`); the frame is deleted after the tasks that use it
  (641). `BuildAnimationObject` (2044) between the two makes an object that nobody
  marks: its tasks go on and show nothing until the client stops it.
* **Loaders of files that changed.** `LoaderCache::Get` drops a loader only when
  it says that its file changed (`LoaderCache.cc:20`). Loaders of compressed, remote and
  generated images and LEL expressions never say so (`FileLoader.cc:136`), a null
  loader cannot, and a change that `CloseImageIfUpdated` has seen is not seen again.

* **Profiles of a channel left before.** For a chunked HDF5 file without mipmaps,
  or when a computed polarization is shown, `SetImageChannels` fills the image
  cache and leaves the tile cache alone (`Frame.cc:352`), while
  `FillSpatialProfileData` takes the profile from the tile cache (`Frame.cc:1198`).
  The value at the cursor is of the new channel, the profile of an old one.
* A profile range that starts in the last block of a row is rounded past its end;
  `end - start` underflows and `resize` throws (`Frame.cc:1195`, 1199). A profile of
  a single pixel is written one past its end (1313).
* A computed polarization is not reduced if the image has mipmaps (1162, 1289).
  An image whose header has no I is asked for its first polarization (2330).
* The tests in `FillSpatialProfileData` whether the point has moved compare a copy
  and never fire.
* Saving recognises the source by its spelling, and `ExportCASAImage` removes the old
  file before it reads the pixels (`Frame.cc:1939`, 2095): under another name the
  source is lost. The rest frequency given for a plane stays in the image (2033).
  A region of a cube of polarizations reads a length that is not there (2293), and
  of a hypercube whose polarizations come first takes both lengths swapped (2307). An expression saved as CASA ignores the channels asked for,
  although the comment at 1970 says that it is for an entire image (1972).
* Files of a hypercube are compared in the order of the request: U, I, Q is refused,
  I, Q, U is not (`StokesFilesConnector.cc:269`). A computed polarization gets a label
  that was never initialized (126), and the response reports success when the
  hypercube could not be opened (`Session.cc:1324`).
* A cached cube histogram is never read, although the comment at `Session.cc:1488`
  says so.
* A user's `backend.json` that cannot be parsed discards the system's settings
  (`ProgramSettings.cc:405`). The end of a port range is narrowed to 16 bits
  (`SessionManager.cc:567`), and `Main.cc:177` announces a port although none was found.
* `Ds9ImportExport.cc:339` leaves pixel coordinates off after a world frame; a CRTF
  text box without its text takes what follows; a `#` is put before colours that look
  like hexadecimal numbers.
* A filter on a catalog that failed to parse throws (`TableController.cc:114`).
* A preferences file whose stream does not open is reported as written
  (`HttpServer.cc:252`).
* `ImageFitter.cc:437` fills the residuals with zeros when it is stopped, which the
  response then hides.
* Fits with a field of view share the id of a temporary region (`RegionHandler.cc:1535`),
  which stays behind when it lies outside of the image (1562).
  `_image_basic_stats` and `_cube_histogram_configs` are used without a lock
  (`Frame.cc:838`, 690, 948).

## 6. Proofs

TLAPS proves, for any finite or infinite choice the assumptions allow:

| Module | Theorem | Property |
|---|---|---|
| `Threading_proofs` | `TypeCorrect`, `OneOwner`, `NoTaskLeftAsleep`, `Refinement` | `TypeOK`, `SingleOwner`, `WorkConserving`, `ImplementsTaskService` |
| | `MutexInductive`, `MutexTypeCorrect`, `CountersAreRight`, `MutualExclusion`, `WakeupsKept`, `FirstComeFirstServed` | `MutexTypeOK`, `CountsExact`, `ExclusionUnlessLate`, `NoLostWakeup`, `WritersInOrder` |
| `SessionLifecycle_proofs` | `Inductive`, `TypeCorrect`, `RefCounts`, `TasksAreSafe`, `ClosedIsSilent`, `CutOffs`, `OpenIsConnected` | `TypeOK`, `RefCountExact`, `SessionOutlivesTasks`, `ClosedSessionSilent`, `OpenSessionConnected` |
| `Animation_proofs` | `BaseInductive`, `TypeCorrect`, `Inductive`, `OneChainPlays`, `WindowIsKept`, `FramesFollow` | `TypeOK`, `OneChain`, `WindowKept`, `FramesInOrder` |
| `Frame_proofs` | `Inductive`, `TypeCorrect`, `CacheIsCurrent`, `DataInductive`, `ImageIsAvailable`, `DataIsOfItsChannel`, `StatsAreOfTheirChannel` | `TypeOK`, `CacheCurrentUnlessLate`, `ImageAvailable`, `DataOfTheirChannel`, `StatsOfTheirChannel` |
| | `ViewRequestsInductive`, `ViewRequestsTypeCorrect`, `RequestsHaveTasks`, `ChannelRefinement`, `CursorRefinement` | `ViewTypeOK`, `RequestHasTask`, the safety part of the two refinements of `LatestValue` |
| `Profiles_proofs` | `LineProfilesInductive`, `LineProfilesTypeCorrect`, `LineProfilesAreRight` | `LineProfilesTypeOK`, `LineProfilesCorrect` |
| | `CursorProfilesInductive`, `CursorProfilesTypeCorrect`, `CursorProfilesComplete` | `CursorProfilesTypeOK`, `RequiredProfilesComplete` |
| | `CubeHistogramsInductive`, `CubeHistogramsTypeCorrect`, `CubeHistogramsAreRight` | `CubeHistogramsTypeOK`, `CubeHistogramsCorrect` |
| | `SpatialProfilesInductive`, `SpatialProfilesTypeCorrect`, `SpatialProfilesAreRight` | `SpatialProfilesTypeOK`, `SpatialProfilesCorrect` |
| `Regions_proofs` | `AppliedInductive`, `AppliedTypeCorrect`, `AppliedRegionsAreRight` | `RegionAppliedTypeOK`, `RegionAppliedCorrect` |
| | `RegionsInductive`, `RegionsTypeCorrect`, `RegionsAreRight` | `RegionsTypeOK`, `RegionsCorrect` |
| | `RegionFilesInductive`, `RegionFilesTypeCorrect`, `RegionFilesAreRead` | `RegionFilesTypeOK`, `RegionFilesCorrect` |
| `Images_proofs` | `GeneratorsInductive`, `GeneratorsTypeCorrect`, `ImagesAreKept` | `GeneratorsTypeOK`, `GeneratorsCorrect` |
| | `PreviewInductive`, `PreviewTypeCorrect`, `StopsCancelOnce`, `PreviewsCatchUp`, `PreviewsAreWhole` | `PvPreviewTypeOK`, `StopCancelsOnce`, `PreviewCaughtUp`, `PvPreviewCorrect` |
| | `LoaderInductive`, `LoadersAreFresh`, `QueueInductive`, `LoaderQueueIsRight`, `LoaderCacheTypeCorrect` | `LoaderFresh`, `LoaderCacheCorrect`, `LoaderCacheTypeOK` |
| | `SaveFilesInductive`, `SaveFilesTypeCorrect`, `SavedFilesAreRight` | `SaveFilesTypeOK`, `SaveFilesCorrect` |
| | `HypercubesInductive`, `HypercubesTypeCorrect`, `HypercubesAreRight` | `HypercubesTypeOK`, `HypercubesCorrect` |
| `Services_proofs` | `ScriptingInductive`, `ScriptingTypeCorrect`, `RequestsAnswered` | `ScriptingTypeOK`, `ScriptingCorrect` |
| | `ListsInductive`, `ListsTypeCorrect`, `ListsMeetTheirStops` | `FileListsTypeOK`, `FileListsCorrect` |
| | `SettingsInductive`, `SettingsTypeCorrect`, `SettingsAreRight` | `SettingsTypeOK`, `SettingsCorrect` |
| | `DatabaseInductive`, `DatabaseTypeCorrect`, `SavedFilesAreKept` | `DatabaseTypeOK`, `DatabaseCorrect` |
| | `TablesInductive`, `TablesTypeCorrect`, `TablesAreRight` | `TablesTypeOK`, `TablesCorrect` |
| | `ServicesRunAlone`, `RegionHandlerIsRight`, `ProfilesAreRight`, `ImageFilesAreRight`, `ConfigurationIsRight`, `RequestsAreMet`, `ServicesTypeCorrect` | every property of the run `Services` |

So every invariant that a run checks, and every action property, is a theorem.

Assumptions are those the modules state (`ASSUME`). Of the core: sets of threads, tasks
and sessions are finite where they are counted, the names for "nobody" and "no
animation" are not names of somebody, an animation has a file. Of what clients send: a
request is for moments or for a fit and not both (`RequestsAssumption`); one for a
hypercube names some files, each with a polarization or none (`ConcatRequestsAssumption`);
one to save an image has the fields of the message (`SaveRequestsAssumption`); filters
compare with numbers (`FiltersAssumption`), pages have a size (`PagesAssumption`); regions
are as the client makes them (`RegionsToExport`). Of data: a row has the pixels that an
image is wide (`ProfileImagesAssumption`), mipmaps are there for each reduction asked for
where a file has any (`ProfileConfigsAssumption`), a file to be saved has one of five orders
of axes (`SavedImagesAssumption`), columns of numbers hold numbers (`TableFilesAssumption`),
ports are below the modulus (`PortsAssumption`), and the preferences are not one of the
objects (`DatabaseAssumption`). Loops over boxes, slices and channels are not empty
(`LineAssumption`, `CursorAssumption`, `CubeDepthAssumption`), caches hold at least one
(`CapacityAssumption`). Bounds on messages, objects, updates and moves are numbers, and have
no other part in the proofs: a theorem holds for each of them, so for runs of any length.

**Induction.** The induction theorems of the proof library take a predicate as parameter.
`Profiles_proofs` has them for *sets* of numbers instead: a set of numbers has a least one
(`LeastNumber`, from the well-foundedness of finite subsets), so a set that has 0 and with
each number up to *n* the next has all (`InductionTo`), and a function defined by recursion
up to *n* exists and meets its equations (`RecursionTo`). With these the recursive functions
of the models (filters, sorts, queues, lines of files, axes of a cube) are proved about
for every length.

*TaskPool.* `TypeOK` is inductive, and `SingleOwner` is with it.
`WorkConserving` is inductive given the types: a push adds one task and wakes one
worker (or finds none asleep), and a worker falls asleep only when the queue is
empty. The refinement follows from single ownership: a step that takes the head
of the queue is the service's start, a push its submission, the rest stutters.

*RWMutex.* The properties are not inductive. `MutexIInv` adds that the list holds the
waiting writers and each once (`ListExact`), that at most one writer is admitted
— inside, or woken and not yet inside — and nobody reads then unless late
(`Admission`), and that the list is in the order of `ahead` (`InOrder`). The
counters tell who is inside only together with the list, so all parts are proved
at once, one lemma for each action.

*SessionLifecycle.* `IInv` joins the reference count, the map and the objects;
`Consistent` says what the actor in `DeleteSession` knows between its steps.
A session is freed at a count of zero, the count is exact, hence no task has a
reference. That a task's *destructor* still reads the session afterwards is
outside of this invariant, and is the run `SessionDangling`.
That an open session stays connected, unless another whose id had become its own was
closed, needs `Blame`: whoever deletes does it for a closed session under the id of
that session (`LastOfClosed`, `MainDeletesClosed`), and one that is cut off has
another closed one to blame (`CutOffByItsId`). `OwnIds` alone is not inductive: ids
could be exchanged and changed back.

*FrameCache.* `Current`: unless a fill is late, what is valid or being read is of
the current channel and no setter stands between invalidation and index. What is
sent is a second invariant on top of it, `DataFollows`: a cache that is not valid has
a setter on its way to fill it (`WillBeFilled`), a tile cache that is behind has one
that will reset it (`WillBeReset`), and a worker's data is of the channel that it
took, or its `overlap`, `late` or `left` is set (`WorkerOK`). No lock spans the test of
a cache and its use, so the channel of the data is that of the setter who filled last,
and the proof has to follow both. The cache of a channel that is filled on demand has
no setter to fill it, but one to reset the tiles: `WillBeFilled` is about the others.

*Animation.* `Base` is inductive by itself: a queued task is in the queue once, so that
it is taken once (`QueuedOnce`); only a start task builds, and nobody plays without an
object (`Places`); objects and the start tasks still to run are no more than the starts
received (`Numbered`). `Played` is about several tasks, until a second start forks the
chain: one task plays, and none while the animation is parked (`Chain`); the object's
next frame follows the last one sent (`Ordered`); in a single pass the frames not yet
confirmed follow each other by the delta, in its direction, and end at the current one
(`OnePass`), which is why they span the window and one step at most; and a gap found too
large stays so until the client confirms, or the event was `missed` (`Ahead`).
`WindowKept` is not inductive without the chain: a second task would make the gap
larger after the first has measured it. `FramesInOrder`, a property of steps, follows
from both parts.

*ViewRequests.* A request that waits has a task on its way. `ViewIInv` joins `ViewTyped`,
who is inside of the locked part (`HolderInside`), that no number asked for is
newer than the last one sent (`AskedBefore`), and `RequestHasTask`. It is inductive
because the flag `task_active` is cleared in the very step that finds the queue
empty, under the mutex, and a push under the same mutex that finds it clear queues
a task. In the refinements of `LatestValue` a request made is its `Put`, one taken
its `Take`, one dropped with its file its `Drop`, and all else stutters. For the
channels `ChannelRefinement` is the whole refinement, which is safety only; for the
cursor it is the safety part, and TLC checks that a setting that waits is taken.

*Scripting.* Ids are unique (`IdsUnique`), an open HTTP request knows its id and
its session (`OpenHasSession`), and a stored callback is of an open request with
its id (`CallbackOfRequest`), unless an abort took another's callback: that is how
an answer could come twice. A session that is gone has none (`GoneHasNone`), so
none is forgotten.

*FileLists.* A list that has run alone owns the callback (`AloneOwnsCallback`),
a stopped one finds the flag at its next entry (`StoppedSeesFlag`), and a flag that
is seen was set for this list or for one beside it (`FlagIsOfAStop`).

*LoaderCache.* A loader that a task finds in the map when it comes back with its
own was made by a task that began later (`Overtaken`), of a file that was no older
(`LoaderMade`, `MapFresh`): the older loader is not handed out. This is about files that
are watched and loaders that are not null; the queue is about all. The queue has each file
once and the files of the map, so it is as long as the map is large (`QueueFits`); what an
insertion leaves of it is defined by recursion along the queue, and the proof goes up to
its length.

*RegionApplied.* What a cache of the region holds is of its state, and nothing is
cached during an update, unless it is a `leftover` (`CachesFollow`); the lattice regions
of a converter are of the converter's state (`ConverterWhole`); a task that runs during
an update overlaps with it (`UpdateOverlaps`), and two that make the region at once know
of each other (`RacersKnown`), which is when an attempt may be lost (`Attempted`).

*Regions.* The main thread changes a region in several accesses and the tasks read it in
several, so `RegionsIInv` says for every point between two accesses what each knows.
`MainKnows` is what the main thread found when it received its message.
`ObjectsOwned` and `ObjectsHeld`: an object is the region of one id, and a task's is that
of its own id until it is disconnected, even if the id is set again; erasing waits for
the tasks that locked it before. `TasksCurrent` and `CachesCurrent`: a result that is not
late is of the region as it is, and so is what is cached, except between the change of
the region and the clearing of its caches. `ProfilesOwed`: each statistic required was
sent, or some task owes it and will send it unless it finds the region changed, in which
case the main thread is about to ask for all of them again (`Owes`, `main.at`). Two
frames, `WorkStep` for a task and the `Stay` lemmas for the main thread, say what a step
owes the invariant, and there is one lemma for each action. The proof found an exception
that a run with three messages cannot reach: a task that got a region's object before the
region was removed and locks it afterwards compares that object with itself
(`RegionHandler.cc:1895`, 2095), finds it unchanged, and caches its profile for the id,
which may by then be set again, to other points, and changed. `CachedResultsCurrent` excepts
it as stored late.

*RegionFiles.* A line is read as it was written: for each form that a region takes in a file
(of a type, as a mark, as the two lines of a text; in DS9 and in CRTF) one
lemma says what the import of its lines gives (`RegionRead`), which is what the format keeps of the
region, and in which state they leave the importer's flags, which is the state the next
region needs. So the reader is in the header, between two regions, or between the
two lines of a text, and has imported what is kept of the regions before (`Progress`). The
file is the concatenation of the lines of all regions; `UpTo` is that concatenation up to
each of them, by recursion, and the proof finds a line's region in it. A line that was added,
a comment or one of an unknown kind, changes neither the regions imported nor the flags (`Pos` counts
the lines without it). What was read of a file that is not `ReadAsWritten` has at least its
types (`ImportIs`).

*LineProfiles.* `RightLineTask` is about one task and what it was sent to do: past its last
look at the line it has the present state or is marked `moved` (`OfLine`); a stop that it
is to see stays set until it has seen it (`LineStopToSee`); the label of its profile is of the
channel, or marked as `changed` (`LineOfChannel`). It needs where a task is (`LinePlaced`),
because a stop is looked at once for each box. Tasks disturb each other through the box
region they share (`box_owner`) and the flag only.

*CursorProfiles.* Each required coordinate was sent whole for the present cursor, is recorded
as `late`, or is owed by a task (`RequiredProfilesCovered`). A task owes what its copy of
the requirements names, and only while the copy is part of what is required now and its
cursor the present one (`CursorOwes`): when that ends, the main thread has just
started another task. No task is left at the end, so all is sent.

*CubeHistograms.* A task goes through the channels in order; what lies behind it is complete
or a loop was left early (`HistogramProgress`), which happens only with the flag set, and
the flag is set until another request resets it, which marks the task as `revived`
(`HistogramFlagged`). So a histogram that is complete counts every channel.

*SpatialProfiles.* There is no interleaving in what is proved here but data: a range is
rounded to blocks, pixels are read from the image or from tiles, or values from a mipmap,
and reduced to a least and a greatest value of each block. The lemmas say that the block read for a pair of values has the pixels
of its places (`BlockOfRange`, and those on `Ceil`), also the last one, which the image
cuts (`CutShortAtTheEnd`), and that the extremes found along a block are its least and
greatest pixel (`ExtremesAreKept`). The invariant adds where the tiles come from: they are of the present channel
wherever no image cache is filled.

*SaveFiles.* A path that cannot be overwritten is always there, and a rest frequency other
than that of the header is only ever set in an image without other axes; with these two facts
the rules of what is saved, and of what is kept of other files, pass from request to
request.

*Hypercubes.* A request that is carried out determines what there is: its planes if it has no error,
and files open until the response. A type is added after the types before it, by
recursion along the request, so the planes are in the order of their types and each is
there once; numbers of the FITS axis that are apart and in equal steps ascend or
descend throughout, and that compares the steps of the request with those of the cube
(`AxisLinear`).

*Settings.* Each step of the start has made of the files and the options what the
steps before it left (`SettingsSoFar`). Positional arguments are taken one by one, by
induction along their list; of a range of ports all up to the one that is tried are in use
(`TriedSoFar`), so the first that is not is the lowest.

*Preferences.* A server that writes to a file and overlapped with none has the file for itself
(`FlushAlone`), and writes what its request makes of the preferences as they are meant to be
(`UpdateAlone`). Where a server crashed with the file empty, or a write failed or
overlapped, the file is `spoiled`, until its object is saved alone, or removed.

*Tables.* A view lists each row that passes its filters once (`Shows`): a filter keeps what
passes of a list, which is a recursion along it; a sort permutes it, in an order that the
comparison of the column gives. The chunks of a response are pieces of a view that follow on each
other and cover what was asked for, and the pages the client has are places of that view
(`PagesOf`).

*Services.* A step of the services is a step of one of them and leaves the variables of
the others alone (`OneServiceMoves`), so the specification of all implies that of each
(`ServicesRunAlone`), and what is proved of one alone holds beside the others: each
property of the run `Services` is a theorem of `ServicesSpec` in this way, and so is its type
invariant.

*Generators.* Whoever holds the image has saved the frequency that is the image's own
(`Frequencies`), and the generator of a request that has not begun is nobody's
(`MomentStates`): an answer is reported cancelled only by its own stop. One fit runs
at a time (`Fits`). For the file ids `Numbers` bounds the last one by two for each
request that opened images, and `Images` says that the ids of a request that opened
alone are behind the last one. They are not for ever: with three requests the last id
can go *back*, when two overlap and the one with fewer images ends last, and a third
that overlaps with nobody then replaces an image. The exception of `GeneratedImagesKept`
is therefore any overlap of the request whose image is lost, and not only one with the
request that replaced it; the proof found this, the run with two requests could not.

*PvPreview.* `TaskStates` says what a task has at each place. `WholeCubes`: data in
part is being loaded by somebody, who goes on to cut has whole data or an overlap, and
everybody with the cube of a load in progress has noted it; the last is what a
cancelled load, which empties the data others go on with, rests on. `StopsCounted`: a
stop flag that is set stands for a stop not yet used, so loads cancelled are never more
than stops. `WillCatchUp`: the states in the queue of a cut are no more than the
tasks that will take one from it, unless a task skipped the cut. It is inductive
because a state comes into a queue in the step that adds a task to take it, and
because a preview is closed only when no update is in progress (`_pv_cut_mutex`). The
cuts are visited in any order: they are in an unordered map (`RegionHandler.h:210`).

Only model-checked:

* the liveness properties: `QueuedTaskRuns`, `QuietExitCompletes`, `WriterEnters`,
  `DisconnectedSessionFreed`, `MessageSent`, `ParkedAnimationResumes`,
  `StartIsCarriedOut`, `StoppedAnimationRests`, `LatestChannelShown`. They rest on
  fairness and on `ENABLED`, for which the prover has no rules;
* in `QueuesKeepLatest`, that a cursor setting that waits is taken: the fairness of
  `LatestValue`. Its safety part is proved (`ChannelRefinement`, `CursorRefinement`).

## 7. Not modelled, and why

* The kernels: pixels, coordinate conversions, statistics, histograms' bins,
  smoothing, contours, compression, moments and the fit itself are data of large
  domains without interleaving. The image loaders and the loaders of file
  information are reads through casacore, CFITSIO and HDF5 with one outcome each.
* `LineBoxRegions`: geometry of the boxes along a line. Vector fields: the tiles
  are sent the way raster tiles are.
* The polarization as a second index beside the channel: it is set next to the
  first (`Frame.cc:349`), so a reader may take the new one of one and the old one of
  the other. `FrameCache` treats the pair as one, its races are those of the pair.
* Data races on containers (`SessionManager.cc:111`, `Session.cc:768`): undefined
  behaviour that no property of the protocol tells apart. The same holds for an
  acknowledgement without an animation (`Session.cc:2317`), whose frame number is
  modelled and whose null pointer is not.
* Exceptions that nobody catches end the process. `_frames.at` in a PV preview that is
  closed meanwhile throws one (`RegionHandler.cc:1201`); the model ends the task and goes
  on, which is more than the process does.
* `TilePool`: one critical section for each operation.
* The logger and the conversions of messages keep no state of their own.
* The exit timer and its signals, except what the pool does when told to exit.
* Liveness of the services: each is a call that ends, or waits for one of the parts
  of the core that has its own liveness property.

## 8. What is left

1. `ViewRequests` with the setter of `FrameCache`, to state that the image finally
   shown is of the channel asked for last across both (`ViewRequests` says so with
   the setter as one step).
2. The geometry of `LineBoxRegions` against a reference definition.
3. Liveness of the services that hold a lock while they wait (`PvPreview`,
   `LineProfiles`).
4. The two reads of a frame's channel and polarization as two steps (section 7).
