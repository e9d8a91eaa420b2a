------------------------------ MODULE FileLists ------------------------------
(***************************************************************************)
(* The one FileListHandler that all sessions share: lists of images and of *)
(* regions are made in tasks, one of each kind at a time, with one stop    *)
(* flag and one progress callback for all of them.                         *)
(***************************************************************************)
EXTENDS Naturals, FiniteSets

CONSTANTS Listings,        \* tasks, each of a session of its own
          Entries,         \* entries of a directory
          MaxListMessages  \* bound on the requests and stops

ASSUME EntriesAssumption == Entries \in Nat

VARIABLES listing,         \* the tasks: [at, kind, entry, ...]
          list_lock,       \* kind -> holder of _file_list_mutex, _region_list_mutex
          stop_list,       \* _stop_getting_file_list
          list_callback,   \* whose request _progress_callback reports to
          list_messages

VARIABLES list_reports,    \* history: [to, from, alone] of the progress reports
          list_ends        \* history: the ends of the lists

listVars == <<listing, list_lock, stop_list, list_callback, list_messages,
              list_reports, list_ends>>

Free == 0
Kinds == {"image", "region"}
NoListing == [at |-> "idle", kind |-> "image", entry |-> 0, alone |-> TRUE,
              stopped |-> FALSE, others |-> FALSE]
Listed(t) == listing[t].at # "idle"
Alone(t) == \A u \in Listings \ {t} : ~Listed(u)

FileListsTypeOK ==
    /\ \A t \in Listings : /\ listing[t].at \in {"idle", "set", "wait", "start", "entries", "reply"}
                           /\ listing[t].entry \in 0..Entries
    /\ list_lock \in [Kinds -> {Free} \cup Listings]
    /\ stop_list \in BOOLEAN /\ list_callback \in {Free} \cup Listings

FileListsInit ==
    /\ listing = [t \in Listings |-> NoListing]
    /\ list_lock = [k \in Kinds |-> Free]
    /\ stop_list \in BOOLEAN \* not initialized by the constructor
    /\ list_callback = Free /\ list_messages = 0
    /\ list_reports = {} /\ list_ends = {}

-----------------------------------------------------------------------------

ListMessage == list_messages < MaxListMessages /\ list_messages' = list_messages + 1
Step(t, where) == listing' = [listing EXCEPT ![t].at = where]

\* A request of a session that has none: from here on it and the others under
\* way are not alone.
RequestList(t, kind) ==
    /\ ListMessage /\ ~Listed(t)
    /\ listing' = [u \in Listings |->
           IF u = t THEN [NoListing EXCEPT !.at = "set", !.kind = kind, !.alone = Alone(t)]
           ELSE [listing[u] EXCEPT !.alone = @ /\ ~Listed(u)]]
    /\ UNCHANGED <<list_lock, stop_list, list_callback, list_reports, list_ends>>

\* StopImageFileList of the session: one flag for all.
StopGettingFileList(t) ==
    /\ ListMessage
    /\ stop_list' = TRUE
    /\ listing' = [u \in Listings |->
           [listing[u] EXCEPT
               !.stopped = @ \/ (u = t /\ listing[u].at = "entries" /\ listing[u].entry < Entries),
               !.others = @ \/ (u # t /\ listing[u].at = "entries")]]
    /\ UNCHANGED <<list_lock, list_callback, list_reports, list_ends>>

\* Mutant of SetProgressCallback: the callback is set for the first list only.
SetFirstCallback(t) ==
    /\ listing[t].at = "set"
    /\ list_callback' = IF list_callback = Free THEN t ELSE list_callback
    /\ Step(t, "wait")
    /\ UNCHANGED <<list_lock, stop_list, list_messages, list_reports, list_ends>>

SetProgressCallback(t) ==
    /\ listing[t].at = "set"
    /\ list_callback' = t
    /\ Step(t, "wait")
    /\ UNCHANGED <<list_lock, stop_list, list_messages, list_reports, list_ends>>

\* OnFileListRequest, OnRegionListRequest: the lock of the kind.  The folder may
\* be no directory, forbidden or unknown.
LockList(t) ==
    /\ listing[t].at = "wait" /\ list_lock[listing[t].kind] = Free
    /\ list_lock' = [list_lock EXCEPT ![listing[t].kind] = t]
    /\ \E valid \in BOOLEAN : Step(t, IF valid THEN "start" ELSE "reply")
    /\ UNCHANGED <<stop_list, list_callback, list_messages, list_reports, list_ends>>

\* Mutant of GetFileList: the flag is not cleared.
StopStays(t) ==
    /\ listing[t].at = "start"
    /\ Step(t, "entries")
    /\ UNCHANGED <<list_lock, stop_list, list_callback, list_messages, list_reports, list_ends>>

\* GetFileList clears the flag, also for a list of the other kind.
GetFileList(t) ==
    /\ listing[t].at = "start"
    /\ stop_list' = FALSE
    /\ listing' = [u \in Listings |->
           IF u = t THEN [listing[u] EXCEPT !.at = "entries"]
                    ELSE [listing[u] EXCEPT !.stopped = FALSE]]
    /\ UNCHANGED <<list_lock, list_callback, list_messages, list_reports, list_ends>>

EndList(t, cancel) ==
    /\ list_lock' = [list_lock EXCEPT ![listing[t].kind] = Free]
    /\ list_ends' = list_ends \cup
          {[cancel |-> cancel, stopped |-> listing[t].stopped, others |-> listing[t].others]}
    /\ listing' = [listing EXCEPT ![t] = NoListing]

\* Mutant of ListEntry: the flag is not read.
ListAll(t) ==
    /\ listing[t].at = "entries"
    /\ IF listing[t].entry = Entries THEN EndList(t, FALSE)
       ELSE /\ listing' = [listing EXCEPT ![t].entry = @ + 1]
            /\ UNCHANGED <<list_lock, list_ends>>
    /\ UNCHANGED <<stop_list, list_callback, list_messages, list_reports>>

\* The flag is read before each entry; progress is reported when it takes long.
\* A list that was cancelled is not sent.
ListEntry(t) ==
    /\ listing[t].at = "entries"
    /\ IF listing[t].entry = Entries THEN EndList(t, FALSE) /\ UNCHANGED list_reports
       ELSE IF stop_list THEN EndList(t, TRUE) /\ UNCHANGED list_reports
       ELSE /\ listing' = [listing EXCEPT ![t].entry = @ + 1]
            /\ \/ list_reports' = list_reports \cup
                      {[to |-> list_callback, from |-> t, alone |-> listing[t].alone]}
               \/ UNCHANGED list_reports
            /\ UNCHANGED <<list_lock, list_ends>>
    /\ UNCHANGED <<stop_list, list_callback, list_messages>>

ReplyFailure(t) ==
    /\ listing[t].at = "reply"
    /\ list_lock' = [list_lock EXCEPT ![listing[t].kind] = Free]
    /\ listing' = [listing EXCEPT ![t] = NoListing]
    /\ UNCHANGED <<stop_list, list_callback, list_messages, list_reports, list_ends>>

ListStep(t) == \/ SetProgressCallback(t) \/ LockList(t) \/ GetFileList(t) \/ ListEntry(t)
               \/ ReplyFailure(t)

FileListsNext == \E t \in Listings :
    \/ ListStep(t) \/ StopGettingFileList(t)
    \/ \E kind \in Kinds : RequestList(t, kind)

FileListsSpec == FileListsInit /\ [][FileListsNext]_listVars

-----------------------------------------------------------------------------
(***************************************************************************)
(* Properties.                                                             *)
(***************************************************************************)

\* Progress is reported to the request it is of, unless another list was asked
\* for meanwhile: then the callback is of the request that came last, which may
\* have ended.
ProgressToItsOwner == \A r \in list_reports : r.to = r.from \/ ~r.alone

\* A list that its session stops before the last entry is not sent, unless a
\* list that starts afterwards clears the flag; and a list is cancelled only by
\* a stop that comes while it is made.  The stop may be another session's.
StopEndsItsList ==
    \A e \in list_ends : /\ e.stopped => e.cancel
                         /\ e.cancel => e.stopped \/ e.others

\* Progress and stops of file lists meet the list they are for.
FileListsCorrect == ProgressToItsOwner /\ StopEndsItsList
=============================================================================
