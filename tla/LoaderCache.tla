----------------------------- MODULE LoaderCache -----------------------------
(***************************************************************************)
(* The cache of FileLoaders of a session.  Tasks get and remove loaders;   *)
(* the lock is released while a loader is made.  Files change on disk.     *)
(* A loader knows the file by its time of modification (_modify_time); it  *)
(* looks at that time again only for some files (ImageUpdated).            *)
(***************************************************************************)
EXTENDS Integers, Sequences, FiniteSets, SequencesExt

CONSTANTS LoaderFiles,    \* the files
          Watched,        \* those whose changes a loader notices: not compressed, not
                          \* remote or generated, not a LEL expression
          LoaderTasks,    \* task threads
          Capacity,       \* _capacity
          MaxFileChanges  \* bound on the versions of each file

ASSUME CapacityAssumption == Capacity \in Nat \ {0}
ASSUME FileChangesAssumption == MaxFileChanges \in Nat \ {0}
ASSUME WatchedAssumption == Watched \subseteq LoaderFiles

VARIABLES version,        \* the file's version on disk, its time of modification
          loader_map,     \* _map: file -> _modify_time of its loader, or one of the
                          \* two values below
          loader_queue,   \* _queue, the most recently used first
          getting         \* the tasks: [at, file, since, read, result, raced]

loaderVars == <<version, loader_map, loader_queue, getting>>

NoLoader == 0      \* the file is not in the map
NullLoader == -1   \* a null pointer is in the map: the file is not an image
NotGetting == [at |-> "idle", file |-> NoLoader, since |-> 0, read |-> 0,
               result |-> NoLoader, raced |-> FALSE]
Cached == {f \in LoaderFiles : loader_map[f] # NoLoader}

LoaderCacheTypeOK ==
    /\ version \in [LoaderFiles -> 1..MaxFileChanges]
    /\ loader_map \in [LoaderFiles -> {NoLoader, NullLoader} \cup 1..MaxFileChanges]
    /\ loader_queue \in Seq(LoaderFiles)
    /\ \A t \in LoaderTasks : getting[t].at \in {"idle", "load", "insert", "got"}

LoaderCacheInit ==
    /\ version = [f \in LoaderFiles |-> 1]
    /\ loader_map = [f \in LoaderFiles |-> NoLoader]
    /\ loader_queue = <<>>
    /\ getting = [t \in LoaderTasks |-> NotGetting]

-----------------------------------------------------------------------------

ChangeFile(f) ==
    /\ version[f] < MaxFileChanges
    /\ version' = [version EXCEPT ![f] = @ + 1]
    /\ UNCHANGED <<loader_map, loader_queue, getting>>

LoadingTasks(f, t) == \E u \in LoaderTasks \ {t} :
                    getting[u].file = f /\ getting[u].at \in {"load", "insert"}
EraseLoader(f) == [loader_map EXCEPT ![f] = NoLoader]
\* _queue.remove: the other files keep their order.
Without(f) ==
    LET rest[i \in 0..Len(loader_queue)] ==
            IF i = 0 THEN <<>>
            ELSE IF loader_queue[i] = f THEN rest[i - 1]
            ELSE Append(rest[i - 1], loader_queue[i])
    IN rest[Len(loader_queue)]
Got(t, f, loader) == getting' = [getting EXCEPT
    ![t] = [NotGetting EXCEPT !.at = "got", !.file = f, !.since = version[f], !.result = loader]]

\* ImageUpdated: the loader's file has changed, and the loader looks at it.
Outdated(f) ==
    f \in Watched /\ loader_map[f] \notin {NoLoader, NullLoader} /\ loader_map[f] # version[f]

\* A Frame that holds a cached loader closes its image for the time being when
\* the file has changed (no one else uses the image); the loader will read the
\* file as it is now, and the change is not noticed again.
CloseImageIfUpdated(f) ==
    /\ Outdated(f)
    /\ loader_map' = [loader_map EXCEPT ![f] = version[f]]
    /\ UNCHANGED <<version, loader_queue, getting>>

\* Mutant of Get: a loader of a file that changed is used.
GetAny(t, f) ==
    /\ getting[t].at \in {"idle", "got"}
    /\ IF f \in Cached
       THEN Got(t, f, loader_map[f]) /\ UNCHANGED loader_map
            /\ loader_queue' = <<f>> \o Without(f)
       ELSE /\ getting' = [getting EXCEPT ![t] = [NotGetting EXCEPT
                   !.at = "load", !.file = f, !.since = version[f], !.raced = LoadingTasks(f, t)]]
            /\ UNCHANGED <<loader_map, loader_queue>>
    /\ UNCHANGED version

\* The first part of Get, under the lock: a loader whose file it finds changed
\* is dropped; any other, also a null pointer, is moved to the front.
Get(t, f) ==
    /\ getting[t].at \in {"idle", "got"}
    /\ IF f \in Cached /\ ~Outdated(f)
       THEN Got(t, f, loader_map[f]) /\ UNCHANGED loader_map
            /\ loader_queue' = <<f>> \o Without(f)
       ELSE /\ loader_map' = EraseLoader(f) /\ loader_queue' = Without(f)
            /\ getting' = [getting EXCEPT ![t] = [NotGetting EXCEPT
                   !.at = "load", !.file = f, !.since = version[f], !.raced = LoadingTasks(f, t)]]
    /\ UNCHANGED version

\* GetLoader, without the lock: a loader, or none for a file that is no image.
GetLoader(t) ==
    /\ getting[t].at = "load"
    /\ \E loader \in {version[getting[t].file]}
                       \cup (IF getting[t].file \in Watched THEN {NullLoader} ELSE {}) :
          getting' = [getting EXCEPT ![t].at = "insert", ![t].read = loader]
    /\ UNCHANGED <<version, loader_map, loader_queue>>

\* Mutant of Insert: the file is not looked up again.
InsertAlways(t) ==
    LET f == getting[t].file
        full == Cardinality(Cached) = Capacity
        last == loader_queue[Len(loader_queue)]
    IN  /\ getting[t].at = "insert"
        /\ loader_map' = [g \in LoaderFiles |-> IF g = f THEN getting[t].read
                             ELSE IF full /\ g = last THEN NoLoader ELSE loader_map[g]]
        /\ loader_queue' = <<f>> \o (IF full THEN Front(loader_queue) ELSE loader_queue)
        /\ getting' = [getting EXCEPT ![t].at = "got", ![t].result = loader_map'[f]]
        /\ UNCHANGED version

\* The rest of Get, under the lock: the loader is inserted, the oldest one
\* evicted at the limit, unless another task inserted one in the meantime.
Insert(t) ==
    LET f == getting[t].file
        full == Cardinality(Cached) = Capacity
        last == loader_queue[Len(loader_queue)]
    IN  /\ getting[t].at = "insert"
        /\ IF f \in Cached THEN UNCHANGED <<loader_map, loader_queue>>
           ELSE /\ loader_map' = [g \in LoaderFiles |-> IF g = f THEN getting[t].read
                                     ELSE IF full /\ g = last THEN NoLoader ELSE loader_map[g]]
                /\ loader_queue' = <<f>> \o (IF full THEN Front(loader_queue) ELSE loader_queue)
        /\ getting' = [getting EXCEPT ![t].at = "got", ![t].result = loader_map'[f]]
        /\ UNCHANGED version

\* The caller is done with the loader it got, and may remove it from the cache.
RemoveLoader(t) ==
    /\ getting[t].at = "got"
    /\ loader_map' = EraseLoader(getting[t].file) /\ loader_queue' = Without(getting[t].file)
    /\ getting' = [getting EXCEPT ![t] = NotGetting]
    /\ UNCHANGED version

LoaderCacheNext == \/ \E f \in LoaderFiles : ChangeFile(f) \/ CloseImageIfUpdated(f)
        \/ \E t \in LoaderTasks : \/ GetLoader(t) \/ Insert(t) \/ RemoveLoader(t)
                                  \/ \E f \in LoaderFiles : Get(t, f)

LoaderCacheSpec == LoaderCacheInit /\ [][LoaderCacheNext]_loaderVars

-----------------------------------------------------------------------------
(***************************************************************************)
(* Properties.                                                             *)
(***************************************************************************)

\* The queue orders exactly the loaders of the map, each once, and the cache
\* keeps to its capacity, whatever is inserted or removed while the lock is
\* released to make a loader.
QueueOrdersMap ==
    /\ {loader_queue[i] : i \in 1..Len(loader_queue)} = Cached
    /\ Len(loader_queue) = Cardinality(Cached)
    /\ Cardinality(Cached) <= Capacity

\* "We have a cached loader, but the file has changed" (LoaderCache.cc): of a
\* file it watches, Get returns a loader that reads the file as it is when Get
\* is called or later, unless another task was making its loader at that time.
LoaderFresh ==
    \A t \in LoaderTasks :
        getting[t].at = "got" /\ getting[t].file \in Watched /\ getting[t].result # NullLoader
            => getting[t].result >= getting[t].since \/ getting[t].raced

\* The cache is in order and serves fresh loaders of the files it watches.
LoaderCacheCorrect == QueueOrdersMap /\ LoaderFresh
=============================================================================
