----------------------------- MODULE FrameCache -----------------------------
(***************************************************************************)
(* The image cache of one Frame, which holds the data of one channel, and  *)
(* what tasks make of it while others change the channel: tiles, contours  *)
(* and image statistics.                                                   *)
(*                                                                         *)
(* A channel stands for a pair of z and stokes indices.  Pixel data is     *)
(* reduced to the channel it belongs to.  Setters are the tasks that call  *)
(* SetImageChannels: the one that holds Session::_frame_mutex, and the     *)
(* animation, which does not take it.  Workers prepare data and take no    *)
(* mutex of the Session.                                                   *)
(*                                                                         *)
(* The loader is "plain" (no tile cache), "chunked" (a tile cache but no   *)
(* mipmap) or "mipmapped" (both; only here the image cache is filled on    *)
(* demand, but not for a computed polarization, of which the file has no   *)
(* mipmap).  _cache_mutex is given by what it promises (module RWMutex).   *)
(***************************************************************************)
EXTENDS Naturals, FiniteSets

CONSTANTS Channels, FirstChannel,
          NoData,           \* a buffer into which nothing was read
          Setters, Workers,
          Loaders           \* the kinds of loader to consider

ASSUME FirstChannelAssumption == FirstChannel \in Channels
ASSUME NoDataAssumption == NoData \notin Channels
ASSUME ActorsAssumption == Setters \cap Workers = {} /\ "free" \notin Setters \cup Workers
ASSUME LoadersAssumption == Loaders \subseteq {"plain", "chunked", "mipmapped"}

VARIABLES loader,       \* its kind, given by _use_tile_cache and _loader->HasMip(2),
                        \* and the channels of a computed polarization
          z_index,      \* _z_index, _stokes_index
          cached,       \* the channel whose data _image_cache holds
          cache_valid,  \* _image_cache_valid
          cache_sized,  \* _image_cache_size # 0
          cache_writer, \* who has the write lock of _cache_mutex, or "free"
          tile_z,       \* TileCache::_z, the channel of all its tiles
          stats,        \* _image_basic_stats, by key: whose statistics
          job           \* what each actor does: where it is (pc), for which
                        \* channel (z) and whose data it has

\* History.  A job also records that SetImageChannels ran during the work of a
\* worker (overlap) and that the channel it works for was left, and set back.
VARIABLES late,         \* a cache was filled or reset for indices that another
                        \* setter was about to replace, or had replaced
          failed        \* reading the image failed

vars == <<loader, z_index, cached, cache_valid, cache_sized, cache_writer, tile_z,
          stats, job, late, failed>>

Actors == Setters \cup Workers

\* States of a worker: nothing to do, or a result that was sent.
Resting == {"idle", "tile sent", "contours sent"}

SetterStates == {"idle", "invalidate", "index", "fill", "filling", "reset", "resetting"}
WorkerStates == Resting \cup
    {"tile", "tile cache", "raster", "copy", "tile check",
     "contour fill", "contour filling", "contour", "tracing", "smoothed",
     "stats fill", "stats filling", "stats"}

FillingStates == {"filling", "contour filling", "stats filling"}

Jobs == [pc : SetterStates \cup WorkerStates, z : Channels, data : Channels \cup {NoData},
         overlap : BOOLEAN, left : {"no", "left", "back"}]

\* An image is opened at a channel of its file.
Images == [kind : Loaders, computed : SUBSET (Channels \ {FirstChannel})]

TypeOK ==
    /\ loader \in Images
    /\ z_index \in Channels
    /\ cached \in Channels \cup {NoData}
    /\ cache_valid \in BOOLEAN
    /\ cache_sized \in BOOLEAN
    /\ cache_writer \in Actors \cup {"free"}
    /\ tile_z \in Channels \cup {NoData}
    /\ stats \in [Channels -> Channels \cup {NoData, "none"}]
    /\ job \in [Actors -> Jobs]
    /\ \A s \in Setters : job[s].pc \in SetterStates
    /\ \A w \in Workers : job[w].pc \in WorkerStates
    /\ \A a \in Actors : cache_writer = a <=> job[a].pc \in FillingStates
    /\ late \in BOOLEAN
    /\ failed \in BOOLEAN

NoJob == [pc |-> "idle", z |-> FirstChannel, data |-> NoData,
          overlap |-> FALSE, left |-> "no"]

\* The constructor fills the cache unless the loader is mipmapped; then
\* _image_cache_size stays uninitialized.
Init ==
    /\ loader \in Images
    /\ z_index = FirstChannel
    /\ cache_valid = (loader.kind # "mipmapped")
    /\ cached = IF cache_valid THEN FirstChannel ELSE NoData
    /\ cache_sized \in IF cache_valid THEN {TRUE} ELSE BOOLEAN
    /\ cache_writer = "free"
    /\ tile_z = FirstChannel
    /\ stats = [c \in Channels |-> "none"]
    /\ job = [a \in Actors |-> NoJob]
    /\ late = FALSE /\ failed = FALSE

UsesTileCache == loader.kind \in {"chunked", "mipmapped"}
IsComputed(c) == c \in loader.computed   \* IsComputedStokes

\* The image cache of channel c is left to be filled on demand.
OnDemand(c) == loader.kind = "mipmapped" /\ ~IsComputed(c)

\* queuing_rw_mutex: a contour keeps its read lock while it traces.
CanRead == cache_writer = "free"
CanWrite == CanRead /\ \A w \in Workers : job[w].pc # "tracing"

\* The actor goes on with some data, or forgets everything.
GotoWith(a, state, d) ==
    job' = [job EXCEPT ![a] = IF state = "idle" THEN NoJob
                              ELSE [@ EXCEPT !.pc = state, !.data = d]]
Goto(a, state) == GotoWith(a, state, job[a].data)

-----------------------------------------------------------------------------
(***************************************************************************)
(* SetImageChannels.                                                       *)
(***************************************************************************)

BeginSet(s, c) ==
    /\ job[s].pc = "idle"
    /\ c # z_index
    /\ job' = [a \in Actors |->
                  IF a = s THEN [NoJob EXCEPT !.pc = "invalidate", !.z = c]
                  ELSE IF a \in Workers /\ job[a].pc # "idle"
                    THEN [job[a] EXCEPT !.overlap = TRUE]
                    ELSE job[a]]
    /\ UNCHANGED <<loader, z_index, cached, cache_valid, cache_sized, cache_writer,
                   tile_z, stats, late, failed>>

\* Mutant of InvalidateImageCache: the flag stays.
InvalidateNothing(s) ==
    /\ job[s].pc = "invalidate"
    /\ CanWrite
    /\ Goto(s, "index")
    /\ UNCHANGED <<loader, z_index, cached, cache_valid, cache_sized, cache_writer,
                   tile_z, stats, late, failed>>

InvalidateImageCache(s) ==
    /\ job[s].pc = "invalidate"
    /\ CanWrite
    /\ cache_valid' = FALSE
    /\ Goto(s, "index")
    /\ UNCHANGED <<loader, z_index, cached, cache_sized, cache_writer, tile_z,
                   stats, late, failed>>

\* The channel is changed: workers see theirs left or set back.
SetterGoto(s, state) ==
    job' = [a \in Actors |->
              IF a = s THEN [job[s] EXCEPT !.pc = state]
              ELSE IF a \in Setters \/ job[a].pc = "idle" THEN job[a]
              ELSE IF job[a].z # job[s].z
                THEN [job[a] EXCEPT !.left = IF @ = "no" THEN "left" ELSE @]
                ELSE [job[a] EXCEPT !.left = IF @ = "left" THEN "back" ELSE @]]

\* Mutant of SetIndex: the cache of a new channel is not filled.
SetIndexOnly(s) ==
    /\ job[s].pc = "index"
    /\ z_index' = job[s].z
    /\ SetterGoto(s, "reset")
    /\ UNCHANGED <<loader, cached, cache_valid, cache_sized, cache_writer, tile_z,
                   stats, late, failed>>

SetIndex(s) ==
    /\ job[s].pc = "index"
    /\ z_index' = job[s].z
    /\ SetterGoto(s, IF OnDemand(job[s].z) THEN "reset" ELSE "fill")
    /\ UNCHANGED <<loader, cached, cache_valid, cache_sized, cache_writer, tile_z,
                   stats, late, failed>>

\* TileCache::Reset(_z_index, _stokes_index): its arguments are read before
\* it takes the mutex of the tile cache.
ReadIndex(s) ==
    /\ job[s].pc = "reset"
    /\ GotoWith(s, "resetting", z_index)
    /\ UNCHANGED <<loader, z_index, cached, cache_valid, cache_sized, cache_writer,
                   tile_z, stats, late, failed>>

ResetTileCache(s) ==
    /\ job[s].pc = "resetting"
    /\ tile_z' = job[s].data
    /\ late' = (late \/ job[s].data # z_index)
    /\ Goto(s, "idle")
    /\ UNCHANGED <<loader, z_index, cached, cache_valid, cache_sized, cache_writer,
                   stats, failed>>

-----------------------------------------------------------------------------
(***************************************************************************)
(* FillImageCache, called by a setter, for contours or for statistics.     *)
(***************************************************************************)

FillStates == {"fill", "contour fill", "stats fill"}

Filling(a) == CASE job[a].pc = "fill" -> "filling"
                [] job[a].pc = "contour fill" -> "contour filling"
                [] OTHER -> "stats filling"

\* What the caller does next: only statistics look at the result.
Filled(a, ok) == CASE job[a].pc \in {"fill", "filling"} -> "idle"
                   [] job[a].pc \in {"contour fill", "contour filling"} -> "contour"
                   [] OTHER -> IF ok THEN "stats" ELSE "idle"

\* The cache was filled by somebody else.
FillFound(a) ==
    /\ job[a].pc \in FillStates
    /\ CanWrite
    /\ cache_valid
    /\ Goto(a, Filled(a, TRUE))
    /\ UNCHANGED <<loader, z_index, cached, cache_valid, cache_sized, cache_writer,
                   tile_z, stats, late, failed>>

\* The indices are read and a buffer is allocated.
BeginFill(a) ==
    /\ job[a].pc \in FillStates
    /\ CanWrite
    /\ ~cache_valid
    /\ cache_writer' = a
    /\ cache_sized' = TRUE
    /\ cached' = NoData
    /\ late' = (late \/ \E s \in Setters : job[s].pc = "index")
    /\ GotoWith(a, Filling(a), z_index)
    /\ UNCHANGED <<loader, z_index, cache_valid, tile_z, stats, failed>>

\* The image was read into the buffer, or reading it failed.
EndFill(a, ok) ==
    /\ cache_writer = a
    /\ cached' = IF ok THEN job[a].data ELSE NoData
    /\ cache_valid' = ok
    /\ failed' = (failed \/ ~ok)
    /\ cache_writer' = "free"
    /\ Goto(a, Filled(a, ok))
    /\ UNCHANGED <<loader, z_index, cache_sized, tile_z, stats, late>>

FillImageCache(a) == FillFound(a) \/ BeginFill(a) \/ \E ok \in BOOLEAN : EndFill(a, ok)

-----------------------------------------------------------------------------
\* A worker begins to prepare data for channel c.
Begin(w, c, state) ==
    /\ job[w].pc \in Resting
    /\ job' = [job EXCEPT ![w] =
                  [pc |-> state, z |-> c, data |-> NoData,
                   left |-> IF c = z_index THEN "no" ELSE "left",
                   overlap |-> \E s \in Setters : job[s].pc # "idle"]]
    /\ UNCHANGED <<loader, z_index, cached, cache_valid, cache_sized, cache_writer,
                   tile_z, stats, late, failed>>

(***************************************************************************)
(* FillRasterTileData for one tile of a list that was begun for a channel: *)
(* a stale request is discarded.                                           *)
(***************************************************************************)
BeginTile(w) == Begin(w, z_index, "tile")

\* The tile is taken from what worker w goes on with.
TileGoto(w, state) ==
    /\ Goto(w, state)
    /\ UNCHANGED <<loader, z_index, cached, cache_valid, cache_sized, cache_writer,
                   tile_z, stats, late, failed>>

\* GetRasterTileData: a downsampled tile (mip > 1) of a mipmapped loader is
\* read from the file, for the indices of the moment.
LoadMipmapTile(w) ==
    /\ job[w].pc = "tile"
    /\ OnDemand(z_index)
    /\ GotoWith(w, "tile check", z_index)
    /\ UNCHANGED <<loader, z_index, cached, cache_valid, cache_sized, cache_writer,
                   tile_z, stats, late, failed>>

\* Without this mipmap a downsampled tile is made from the image cache.  For a
\* tile of full resolution, and every tile of a computed polarization, the flag
\* of the image cache is looked at here already.
ChooseImageCache(w) ==
    /\ job[w].pc = "tile"
    /\ IsComputed(z_index) => cache_valid \/ ~UsesTileCache
    /\ TileGoto(w, "raster")

ChooseTileCache(w) ==
    /\ job[w].pc = "tile"
    /\ ~cache_valid /\ UsesTileCache
    /\ TileGoto(w, "tile cache")

GetTileFromTileCache(w) ==
    /\ job[w].pc = "tile cache"
    /\ GotoWith(w, "tile check", tile_z)
    /\ UNCHANGED <<loader, z_index, cached, cache_valid, cache_sized, cache_writer,
                   tile_z, stats, late, failed>>

\* The chunk with the tile could not be read: the image cache is tried.
TileCacheFails(w) ==
    /\ job[w].pc = "tile cache"
    /\ TileGoto(w, "raster")

\* GetRasterData looks at the flag before it takes the read lock.
CheckRaster(w) ==
    /\ job[w].pc = "raster"
    /\ TileGoto(w, IF cache_valid THEN "copy" ELSE "idle")

CopyRaster(w) ==
    /\ job[w].pc = "copy"
    /\ CanRead
    /\ GotoWith(w, "tile check", cached)
    /\ UNCHANGED <<loader, z_index, cached, cache_valid, cache_sized, cache_writer,
                   tile_z, stats, late, failed>>

\* Mutant of SendTile: the second look at the indices is missing.
SendTileUnchecked(w) ==
    /\ job[w].pc = "tile check"
    /\ TileGoto(w, "tile sent")

\* The tile is sent if the indices are still, or again, those it is for.
SendTile(w) ==
    /\ job[w].pc = "tile check"
    /\ TileGoto(w, IF z_index = job[w].z THEN "tile sent" ELSE "idle")

Tile(w) ==
    \/ BeginTile(w)
    \/ LoadMipmapTile(w) \/ ChooseImageCache(w) \/ ChooseTileCache(w)
    \/ GetTileFromTileCache(w) \/ TileCacheFails(w) \/ CheckRaster(w) \/ CopyRaster(w)
    \/ SendTile(w)

-----------------------------------------------------------------------------
(***************************************************************************)
(* SendContourData and ContourImage: the result of FillImageCache is not   *)
(* looked at, and each message is marked with the indices of the moment.   *)
(***************************************************************************)

\* Mutant of BeginContour: a cache that was once filled is good enough.
BeginContourIfSized(w) ==
    Begin(w, z_index, IF cache_sized THEN "contour" ELSE "contour fill")

BeginContour(w) == Begin(w, z_index, "contour fill")

\* The cache is read under the read lock, which is released early when the
\* image is smoothed and held while contours are sent otherwise.
TraceContours(w) ==
    /\ job[w].pc = "contour"
    /\ CanRead
    /\ \E state \in {"tracing", "smoothed"} : GotoWith(w, state, cached)
    /\ UNCHANGED <<loader, z_index, cached, cache_valid, cache_sized, cache_writer,
                   tile_z, stats, late, failed>>

SendContours(w) ==
    /\ job[w].pc \in {"tracing", "smoothed"}
    /\ job' = [job EXCEPT ![w].pc = "contours sent", ![w].z = z_index]
    /\ UNCHANGED <<loader, z_index, cached, cache_valid, cache_sized, cache_writer,
                   tile_z, stats, late, failed>>

Contour(w) == BeginContour(w) \/ TraceContours(w) \/ SendContours(w)

-----------------------------------------------------------------------------
(***************************************************************************)
(* GetBasicStats for a channel whose statistics are not cached.            *)
(***************************************************************************)

\* Mutant of BeginStats: the cache is used for every channel.
BeginStatsFromCache(w, c) ==
    /\ stats[c] = "none"
    /\ Begin(w, c, IF cache_sized THEN "stats" ELSE "stats fill")

\* The statistics of the current channel are made from the image cache,
\* which is filled if it never was.
BeginStats(w, c) ==
    /\ stats[c] = "none" /\ c = z_index
    /\ Begin(w, c, IF cache_sized THEN "stats" ELSE "stats fill")

\* Those of another channel are made from data read for them.
StatsOfOtherChannel(w, c) ==
    /\ job[w].pc \in Resting
    /\ stats[c] = "none" /\ c # z_index
    /\ stats' = [stats EXCEPT ![c] = c]
    /\ Goto(w, "idle")
    /\ UNCHANGED <<loader, z_index, cached, cache_valid, cache_sized, cache_writer,
                   tile_z, late, failed>>

\* CalcBasicStats reads the cache without a lock: of what is being filled in
\* it may see nothing or all.  (Without a buffer its effect is undefined.)
CalcBasicStats(w) ==
    /\ job[w].pc = "stats"
    /\ \E seen \in {cached} \cup {job[a].data : a \in Actors \cap {cache_writer}} :
           stats' = [stats EXCEPT ![job[w].z] = seen]
    /\ Goto(w, "idle")
    /\ UNCHANGED <<loader, z_index, cached, cache_valid, cache_sized, cache_writer,
                   tile_z, late, failed>>

GetBasicStats(w) ==
    \/ \E c \in Channels : BeginStats(w, c) \/ StatsOfOtherChannel(w, c)
    \/ CalcBasicStats(w)

-----------------------------------------------------------------------------
SetImageChannels(s) ==
    \/ \E c \in Channels : BeginSet(s, c)
    \/ InvalidateImageCache(s) \/ SetIndex(s) \/ ReadIndex(s) \/ ResetTileCache(s)

Next ==
    \/ \E s \in Setters : SetImageChannels(s)
    \/ \E a \in Actors : FillImageCache(a)
    \/ \E w \in Workers : Tile(w) \/ Contour(w) \/ GetBasicStats(w)

Spec == Init /\ [][Next]_vars

-----------------------------------------------------------------------------
(***************************************************************************)
(* Properties.                                                             *)
(***************************************************************************)

\* "cached image data is valid for current z and stokes" (Frame.h), once no
\* SetImageChannels is under way.  The code breaks it: whoever fills the cache
\* between InvalidateImageCache and the assignment of the new indices reads
\* the old channel, and the fill of SetImageChannels then finds a valid cache.
ValidCacheIsCurrent ==
    cache_valid /\ (\A s \in Setters : job[s].pc = "idle") => cached = z_index

\* That is the only way: otherwise valid data belongs to the current channel
\* at every moment, whoever invalidates and fills.
CacheCurrentUnlessLate == cache_valid /\ ~late => cached = z_index

\* After a change of channel the image can be shown: unless its cache is left
\* to be filled on demand it is valid, or the image could not be read.
ImageAvailable ==
    ~OnDemand(z_index) /\ ~failed /\ (\A s \in Setters : job[s].pc = "idle")
        => cache_valid

\* A tile that is sent shows the channel it is marked with, although nothing
\* keeps the channel from changing while it is prepared.  Exceptions: a late
\* fill; a channel that is left and returned to before the second look at the
\* indices; a read of the image that failed, which SetImageChannels ignores;
\* and the tile cache, which is behind while SetImageChannels runs.
TilesOfTheirChannel ==
    \A w \in Workers : job[w].pc = "tile sent" /\ ~late /\ job[w].left # "back" /\ ~failed =>
        job[w].data = job[w].z \/ (UsesTileCache /\ job[w].overlap)

\* Contours belong to the channel they are marked with unless it was changed
\* while they were made: FillImageCache and the marking read it separately.
ContoursOfTheirChannel ==
    \A w \in Workers : job[w].pc = "contours sent" /\ ~late /\ ~failed =>
        job[w].data = job[w].z \/ job[w].overlap

\* What is sent is of the channel it is marked with.
DataOfTheirChannel == TilesOfTheirChannel /\ ContoursOfTheirChannel

\* Statistics are cached for good under the channel they were made for.  They
\* are that channel's unless it was changed meanwhile, which nothing checks,
\* or the cache is filled on demand: then an invalid one is used as if valid.
StatsOfTheirChannel ==
    [][\A c \in Channels : stats'[c] # stats[c] /\ stats'[c] # c =>
           \/ late \/ failed
           \/ OnDemand(z_index)
           \/ \E w \in Workers : job[w].pc = "stats" /\ job[w].overlap]_stats
=============================================================================
