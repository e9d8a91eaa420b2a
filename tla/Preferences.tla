---------------------------- MODULE Preferences ----------------------------
(***************************************************************************)
(* The database of HttpServer: the preferences, one JSON object that is    *)
(* read, changed and written, and the objects (layouts, snippets,          *)
(* workspaces), each a file of its own.  A server handles its requests one *)
(* at a time; several servers of one user share the folder.                *)
(***************************************************************************)
EXTENDS Naturals, FiniteSets

CONSTANTS Backends,      \* server processes of one user
          ReadOnly,      \* those in read-only mode
          PrefKeys,      \* preferences
          PrefValues,
          Objects,       \* the names of objects
          MaxDatabaseRequests

\* The preferences and the objects are in different folders.
ASSUME DatabaseAssumption == "preferences" \notin Objects

VARIABLES disk,              \* the files: [state, data]
          backend,           \* the request each server handles
          database_requests  \* requests so far

VARIABLES meant,             \* history: the files as the requests answered with
                             \* success would have them
          spoiled            \* history: files with a write that overlapped with
                             \* another server's, failed, or was cut short

databaseVars == <<disk, backend, database_requests, meant, spoiled>>

DatabaseFiles == {"preferences"} \cup Objects
Maps == UNION {[K -> PrefValues] : K \in SUBSET PrefKeys}
NoData == <<>>
FileOf(state, data) == [state |-> state, data |-> data]
NotHandling == [at |-> "idle", file |-> "preferences", op |-> "get", arg |-> NoData,
                data |-> NoData, overlap |-> FALSE]

DatabaseTypeOK ==
    /\ disk["preferences"].data \in Maps
    /\ \A f \in DatabaseFiles : disk[f].state \in {"missing", "broken", "list", "good"}
    /\ \A f \in Objects : disk[f].data \in PrefValues \cup {NoData}
    /\ \A b \in Backends : backend[b].at \in {"idle", "read", "write", "flush"}
    /\ spoiled \subseteq DatabaseFiles

\* The file may be missing, damaged, or JSON that is no object.
DatabaseInit ==
    /\ \E p \in {FileOf(s, NoData) : s \in {"missing", "broken", "list"}}
                \cup {FileOf("good", m) : m \in Maps} :
          disk = [f \in DatabaseFiles |-> IF f = "preferences" THEN p
                                          ELSE FileOf("missing", NoData)]
    /\ backend = [b \in Backends |-> NotHandling]
    /\ database_requests = 0
    /\ meant = disk /\ spoiled = {}

-----------------------------------------------------------------------------
\* Other servers between their look at the file and the end of their write.
WriteOthers(b, f) ==
    {o \in Backends \ {b} : backend[o].file = f /\ backend[o].at \in {"write", "flush"}}
Overlapping(b, f) ==
    [o \in Backends |-> IF o \in WriteOthers(b, f) THEN [backend[o] EXCEPT !.overlap = TRUE]
                                               ELSE backend[o]]
Answer(b) == [backend EXCEPT ![b] = NotHandling]

\* What a request that succeeds makes of a file.
Patched(data, patch) ==
    [k \in DOMAIN data \cup DOMAIN patch |-> IF k \in DOMAIN patch THEN patch[k] ELSE data[k]]
Erased(data, keys) == [k \in DOMAIN data \ keys |-> data[k]]
Outcome(data, op, arg) ==
    CASE op = "update" -> FileOf("good", Patched(data, arg))
      [] op = "clear" -> FileOf("good", Erased(data, arg))
      [] op = "save" -> FileOf("good", arg)
Accept(f, op, arg) == meant' = [meant EXCEPT ![f] = Outcome(meant[f].data, op, arg)]

\* The body of a request is complete and parsed; one that is not JSON, or names
\* nothing, is answered 400 and changes nothing.
HandleRequest(b, f, op, arg) ==
    /\ database_requests < MaxDatabaseRequests
    /\ database_requests' = database_requests + 1
    /\ backend[b] = NotHandling
    /\ backend' = [backend EXCEPT ![b] = [NotHandling EXCEPT
          !.file = f, !.op = op, !.arg = arg, !.at = IF op = "save" THEN "write" ELSE "read"]]
    /\ UNCHANGED <<disk, meant, spoiled>>

\* The mutant: the other preferences are forgotten.
ForgetExisting(f) == NoData
\* What GetExistingPreferences returns: nothing of a file that cannot be parsed,
\* nor of a missing one but its version.
GetExistingPreferences(f) == IF f.state = "good" THEN f.data ELSE NoData

\* UpdatePreferencesFromString, ClearPreferencesFromString.  A list takes no
\* keys (400); nothing is written when nothing changes (200), and a file that
\* cannot be parsed can be updated but not cleared (500).
ReadPreferences(b) ==
    LET r == backend[b]
        f == disk[r.file]
        existing == GetExistingPreferences(f)
        changes == IF r.op = "update" THEN r.arg # NoData
                                      ELSE r.arg \cap DOMAIN existing # {}
    IN /\ r.at = "read"
       /\ backend' = IF f.state = "list" \/ ~changes THEN Answer(b)
                     ELSE [Overlapping(b, r.file) EXCEPT ![b] = [r EXCEPT
                              !.at = "write", !.data = Outcome(existing, r.op, r.arg).data,
                              !.overlap = WriteOthers(b, r.file) # {}]]
       /\ UNCHANGED <<disk, database_requests, meant, spoiled>>

\* WritePreferencesFile, WriteObjectFile: a read-only server writes nothing, the
\* stream empties the file, and one that cannot be opened is not noticed.
OpenFile(b) ==
    LET r == backend[b] IN
    /\ r.at = "write"
    /\ \/ b \in ReadOnly /\ backend' = Answer(b) /\ UNCHANGED <<disk, meant, spoiled>>
       \/ /\ b \notin ReadOnly
          /\ backend' = Answer(b) /\ spoiled' = spoiled \cup {r.file}
          /\ Accept(r.file, r.op, r.arg) /\ UNCHANGED disk
       \/ /\ b \notin ReadOnly
          /\ backend' = [Overlapping(b, r.file) EXCEPT ![b] = [r EXCEPT
                !.at = "flush", !.overlap = @ \/ WriteOthers(b, r.file) # {}]]
          /\ disk' = [disk EXCEPT ![r.file] = FileOf("broken", NoData)]
          /\ UNCHANGED <<meant, spoiled>>
    /\ UNCHANGED database_requests

\* The text goes to the start of the file, over what another server has put
\* there since: what is longer shows behind it.
WriteFile(b) ==
    LET r == backend[b]
        written == FileOf("good", IF r.op = "save" THEN r.arg ELSE r.data)
    IN /\ r.at = "flush"
       /\ \E result \in {written} \cup IF disk[r.file].state = "good"
                                       THEN {FileOf("broken", NoData)} ELSE {} :
             disk' = [disk EXCEPT ![r.file] = result]
       /\ spoiled' = IF r.overlap THEN spoiled \cup {r.file}
                     ELSE IF r.op = "save" THEN spoiled \ {r.file} ELSE spoiled
       /\ Accept(r.file, r.op, r.arg)
       /\ backend' = Answer(b)
       /\ UNCHANGED database_requests

\* ClearObjectFromString.
RemoveObject(b, f) ==
    /\ database_requests < MaxDatabaseRequests
    /\ database_requests' = database_requests + 1
    /\ backend[b] = NotHandling
    /\ IF b \in ReadOnly \/ disk[f].state = "missing"
       THEN UNCHANGED <<disk, meant, spoiled, backend>>
       ELSE /\ disk' = [disk EXCEPT ![f] = FileOf("missing", NoData)]
            /\ meant' = [meant EXCEPT ![f] = FileOf("missing", NoData)]
            /\ spoiled' = IF WriteOthers(b, f) = {} THEN spoiled \ {f} ELSE spoiled \cup {f}
            /\ backend' = Overlapping(b, f)

\* A server ends and another is started.
Crash(b) ==
    /\ backend[b].at = "flush"
    /\ backend' = Answer(b)
    /\ spoiled' = spoiled \cup {backend[b].file}
    /\ UNCHANGED <<disk, database_requests, meant>>

DatabaseNext ==
    \E b \in Backends :
        \/ \E m \in Maps : HandleRequest(b, "preferences", "update", m)
        \/ \E K \in SUBSET PrefKeys \ {{}} : HandleRequest(b, "preferences", "clear", K)
        \/ \E f \in Objects, v \in PrefValues : HandleRequest(b, f, "save", v)
        \/ ReadPreferences(b) \/ OpenFile(b) \/ WriteFile(b)
        \/ \E f \in Objects : RemoveObject(b, f)
        \/ Crash(b)

DatabaseSpec == DatabaseInit /\ [][DatabaseNext]_databaseVars

-----------------------------------------------------------------------------
\* What GetExistingObjectList lists, and what GetExistingObject and
\* GetExistingObjects return of it.
GetExistingObjectList == {f \in Objects : disk[f].state # "missing"}
GetExistingObjects == {f \in Objects : disk[f].state = "good"}

Writing(f) == \E b \in Backends : backend[b].file = f /\ backend[b].at = "flush"

\* A preference or object that was saved with success is on disk until it is
\* changed or cleared, and nothing else is, whatever other requests failed in
\* between; two servers that write at the same time, a stream that cannot be
\* opened and a process that ends while it writes are what can spoil a file.
SavedIsKept ==
    \A f \in DatabaseFiles \ spoiled : Writing(f) \/ disk[f] = meant[f]

\* Every object that is listed can be read, unless it is spoiled or about to be
\* written.
ListedIsReadable ==
    \A f \in GetExistingObjectList : f \in GetExistingObjects \cup spoiled \/ Writing(f)

DatabaseCorrect == SavedIsKept /\ ListedIsReadable
=============================================================================
