---------------------------- MODULE LineProfiles ----------------------------
(***************************************************************************)
(* Profiles along a line region: one box region after the other, in the    *)
(* task of a PV image (all channels) or of spatial profiles (one channel,  *)
(* a profile for each required coordinate).  Meanwhile the main thread     *)
(* moves or removes the line, changes the requirements and stops PV        *)
(* images, and other tasks change the channel.                             *)
(***************************************************************************)
EXTENDS Naturals, FiniteSets

CONSTANTS ProfileTasks,    \* task threads
          Coordinates,     \* coordinates of spatial requirements
          Boxes,           \* number of boxes along the line
          MaxStates,       \* bound on the states of the line and the channels
          MaxLineMessages  \* bound on PV requests, stops and requirements

ASSUME LineAssumption == Boxes \in Nat \ {0} /\ MaxStates \in Nat \ {0}

VARIABLES line_state,      \* the line's RegionState, 0 once it is removed
          spatial_req,     \* _spatial_req of the line
          current_z,       \* CurrentZ of the Frame
          stop_pv,         \* _stop_pv of the file
          profile_task,    \* the tasks
          box_owner,       \* holder of _line_profile_mutex: the temporary region
          line_messages

VARIABLES line_sent        \* history: the images and profiles that were sent

lineVars == <<line_state, spatial_req, current_z, stop_pv, profile_task, box_owner,
              line_messages, line_sent>>

Removed == 0
Nobody == 0
NoProfile == [at |-> "idle", kind |-> "none", state |-> Removed, box |-> 0, todo |-> {},
              coordinate |-> Nobody, label |-> 0, z |-> 0, missing |-> FALSE,
              moved |-> FALSE, stopped |-> FALSE, changed |-> FALSE]
LineTask(t) == profile_task[t]
LAt(t) == profile_task[t].at
PvRunning(t) == LineTask(t).kind = "pv" /\ LAt(t) # "idle"

LineProfilesTypeOK ==
    /\ line_state \in 0..MaxStates /\ current_z \in 1..MaxStates
    /\ spatial_req \subseteq Coordinates /\ stop_pv \in BOOLEAN
    /\ box_owner \in {Nobody} \cup ProfileTasks
    /\ \A t \in ProfileTasks : LineTask(t).box \in 0..Boxes /\ LineTask(t).todo \subseteq Coordinates

LineProfilesInit ==
    /\ line_state = 1 /\ spatial_req = {} /\ current_z = 1 /\ stop_pv = FALSE
    /\ profile_task = [t \in ProfileTasks |-> NoProfile]
    /\ box_owner = Nobody /\ line_messages = 0 /\ line_sent = {}

-----------------------------------------------------------------------------
(***************************************************************************)
(* Messages.  The history flags of a task: the line moved when its last    *)
(* box was checked already; the stop came when a check was still to come;  *)
(* the channel changed after the last look at it.                          *)
(***************************************************************************)

LineMessage == line_messages < MaxLineMessages /\ line_messages' = line_messages + 1
PastLastCheck(t) == LineTask(t).box = Boxes /\ LAt(t) \in {"box", "profile", "send"}
Start(t, task) == profile_task' = [profile_task EXCEPT ![t] = task]

\* OnSetRegion or OnRemoveRegion of the line; a task for its data streams is
\* queued when it moves.
MoveLine(t, remove) ==
    LET moved == [u \in ProfileTasks |->
                     [LineTask(u) EXCEPT !.moved = @ \/ PastLastCheck(u)]]
    IN  /\ line_state # Removed /\ LAt(t) = "idle"
        /\ line_state < MaxStates
        /\ line_state' = IF remove THEN Removed ELSE line_state + 1
        /\ spatial_req' = IF remove THEN {} ELSE spatial_req
        /\ profile_task' = IF remove THEN moved
                           ELSE [moved EXCEPT ![t] = [NoProfile EXCEPT !.at = "fill", !.kind = "spatial"]]
        /\ UNCHANGED <<current_z, stop_pv, box_owner, line_messages, line_sent>>

SetSpatialRequirements(t, required) ==
    /\ LineMessage /\ line_state # Removed /\ LAt(t) = "idle"
    /\ spatial_req' = required
    /\ Start(t, [NoProfile EXCEPT !.at = "fill", !.kind = "spatial"])
    /\ UNCHANGED <<line_state, current_z, stop_pv, box_owner, line_sent>>

ChangeChannel ==
    /\ current_z < MaxStates /\ current_z' = current_z + 1
    /\ profile_task' = [u \in ProfileTasks |->
           [LineTask(u) EXCEPT !.changed = @ \/ LAt(u) = "data"]]
    /\ UNCHANGED <<line_state, spatial_req, stop_pv, box_owner, line_messages, line_sent>>

StopPvCalc ==
    /\ LineMessage
    /\ stop_pv' = TRUE
    /\ profile_task' = [u \in ProfileTasks |->
           [LineTask(u) EXCEPT !.stopped = @ \/ (PvRunning(u) /\ LAt(u) # "queued" /\ ~PastLastCheck(u))]]
    /\ UNCHANGED <<line_state, spatial_req, current_z, box_owner, line_sent>>

PvRequest(t) ==
    /\ LineMessage /\ LAt(t) = "idle"
    /\ Start(t, [NoProfile EXCEPT !.at = "queued", !.kind = "pv"])
    /\ UNCHANGED <<line_state, spatial_req, current_z, stop_pv, box_owner, line_sent>>

-----------------------------------------------------------------------------
(***************************************************************************)
(* GetLineProfiles.                                                        *)
(***************************************************************************)

KeepInputs == UNCHANGED <<line_state, spatial_req, current_z, line_messages>>

\* CalculatePvImage: the stop flag is reset, which takes a stop away from the
\* other PV images of the file.
CalculatePvImage(t) ==
    /\ LAt(t) = "queued"
    /\ IF line_state = Removed
       THEN Start(t, NoProfile) /\ UNCHANGED stop_pv
       ELSE /\ stop_pv' = FALSE
            /\ profile_task' = [u \in ProfileTasks |->
                   IF u = t THEN [LineTask(t) EXCEPT !.at = "lines"]
                            ELSE [LineTask(u) EXCEPT !.stopped = FALSE]]
    /\ KeepInputs /\ UNCHANGED <<box_owner, line_sent>>

\* FillLineSpatialProfileData: the requirements and the channel are read once.
FillLineSpatialProfileData(t) ==
    /\ LAt(t) = "fill"
    /\ Start(t, IF line_state = Removed \/ spatial_req = {} THEN NoProfile
                ELSE [LineTask(t) EXCEPT !.at = "next", !.todo = spatial_req, !.label = current_z])
    /\ KeepInputs /\ UNCHANGED <<stop_pv, box_owner, line_sent>>

\* Mutant of NextCoordinate: the channel is not looked at again.
AnyChannel(t) ==
    /\ LAt(t) = "next"
    /\ \/ LineTask(t).todo = {} /\ Start(t, NoProfile)
       \/ \E c \in LineTask(t).todo :
             Start(t, [LineTask(t) EXCEPT !.todo = @ \ {c}, !.coordinate = c, !.changed = FALSE,
                           !.at = IF c \in spatial_req THEN "data" ELSE "next"])
    /\ KeepInputs /\ UNCHANGED <<stop_pv, box_owner, line_sent>>

\* "Cancel if channel changed or requirement removed", for every coordinate.
NextCoordinate(t) ==
    /\ LAt(t) = "next"
    /\ \/ (LineTask(t).todo = {} \/ LineTask(t).label # current_z) /\ Start(t, NoProfile)
       \/ /\ LineTask(t).label = current_z
          /\ \E c \in LineTask(t).todo :
                Start(t, [LineTask(t) EXCEPT !.todo = @ \ {c}, !.coordinate = c, !.changed = FALSE,
                              !.at = IF c \in spatial_req THEN "data" ELSE "next"])
    /\ KeepInputs /\ UNCHANGED <<stop_pv, box_owner, line_sent>>

\* GetLineSpatialData reads the channel of the data.
GetLineSpatialData(t) ==
    /\ LAt(t) = "data"
    /\ Start(t, [LineTask(t) EXCEPT !.at = "lines", !.z = current_z])
    /\ KeepInputs /\ UNCHANGED <<stop_pv, box_owner, line_sent>>

After(t) == IF LineTask(t).kind = "spatial" THEN [LineTask(t) EXCEPT !.at = "next", !.box = 0]
                                         ELSE NoProfile

ApproximateLine(t) ==
    /\ LAt(t) = "lines"
    /\ Start(t, IF line_state = Removed THEN After(t)
                ELSE [LineTask(t) EXCEPT !.at = "check", !.state = line_state, !.box = 1,
                                      !.missing = FALSE, !.moved = FALSE])
    /\ KeepInputs /\ UNCHANGED <<stop_pv, box_owner, line_sent>>

Unrequired(t) == LineTask(t).kind = "spatial" /\ LineTask(t).coordinate \notin spatial_req

\* Mutants of CheckBox: the line may move; a stop is not looked at.
IgnoreMoves(t) ==
    /\ LAt(t) = "check"
    /\ Start(t, IF \/ LineTask(t).kind = "pv" /\ stop_pv
                   \/ Unrequired(t)
                THEN After(t) ELSE [LineTask(t) EXCEPT !.at = "box"])
    /\ KeepInputs /\ UNCHANGED <<stop_pv, box_owner, line_sent>>

IgnoreStop(t) ==
    /\ LAt(t) = "check"
    /\ Start(t, IF line_state # LineTask(t).state \/ Unrequired(t)
                THEN After(t) ELSE [LineTask(t) EXCEPT !.at = "box"])
    /\ KeepInputs /\ UNCHANGED <<stop_pv, box_owner, line_sent>>

\* Before every box: the line moved or is gone, the PV image was stopped, or
\* the requirement was removed.
CheckBox(t) ==
    /\ LAt(t) = "check"
    /\ Start(t, IF \/ line_state # LineTask(t).state
                   \/ LineTask(t).kind = "pv" /\ stop_pv
                   \/ Unrequired(t)
                THEN After(t) ELSE [LineTask(t) EXCEPT !.at = "box"])
    /\ KeepInputs /\ UNCHANGED <<stop_pv, box_owner, line_sent>>

\* GetTemporaryRegionProfile: the temporary region is made under the mutex.  A
\* stop leaves the box without data.
SetTemporaryRegion(t) ==
    /\ LAt(t) = "box" /\ box_owner = Nobody
    /\ LET stopped == LineTask(t).kind = "pv" /\ stop_pv
       IN  /\ box_owner' = IF stopped THEN Nobody ELSE t
           /\ Start(t, [LineTask(t) EXCEPT
                  !.missing = @ \/ stopped,
                  !.at = IF ~stopped THEN "profile"
                         ELSE IF LineTask(t).box < Boxes THEN "check" ELSE "send",
                  !.box = IF stopped /\ @ < Boxes THEN @ + 1 ELSE @])
    /\ KeepInputs /\ UNCHANGED <<stop_pv, line_sent>>

GetRegionProfile(t) ==
    /\ LAt(t) = "profile"
    /\ box_owner' = Nobody
    /\ Start(t, IF LineTask(t).box < Boxes
                THEN [LineTask(t) EXCEPT !.at = "check", !.box = @ + 1]
                ELSE [LineTask(t) EXCEPT !.at = "send"])
    /\ KeepInputs /\ UNCHANGED <<stop_pv, line_sent>>

\* The PV image is made and the stop flag erased; the spatial profile is sent
\* if it is still required.
SendLineProfile(t) ==
    LET r == LineTask(t)
    IN  /\ LAt(t) = "send"
        /\ line_sent' = IF Unrequired(t) THEN line_sent ELSE line_sent \cup
               {[kind |-> r.kind, old |-> r.state # line_state, moved |-> r.moved,
                 mislabelled |-> r.kind = "spatial" /\ r.z # r.label, changed |-> r.changed,
                 stopped |-> r.stopped]}
        /\ stop_pv' = IF r.kind = "pv" THEN FALSE ELSE stop_pv
        /\ profile_task' = [u \in ProfileTasks |->
               IF u = t THEN After(t)
               ELSE IF r.kind = "pv" THEN [LineTask(u) EXCEPT !.stopped = FALSE] ELSE LineTask(u)]
        /\ KeepInputs /\ UNCHANGED box_owner

-----------------------------------------------------------------------------

ProfileStep(t) ==
    \/ CalculatePvImage(t) \/ FillLineSpatialProfileData(t) \/ NextCoordinate(t)
    \/ GetLineSpatialData(t) \/ ApproximateLine(t) \/ CheckBox(t)
    \/ SetTemporaryRegion(t) \/ GetRegionProfile(t) \/ SendLineProfile(t)

LineProfilesNext ==
    \/ ChangeChannel \/ StopPvCalc
    \/ \E t \in ProfileTasks :
          \/ PvRequest(t) \/ ProfileStep(t)
          \/ \E remove \in BOOLEAN : MoveLine(t, remove)
          \/ \E required \in SUBSET Coordinates : SetSpatialRequirements(t, required)

LineProfilesSpec == LineProfilesInit /\ [][LineProfilesNext]_lineVars

-----------------------------------------------------------------------------
(***************************************************************************)
(* Properties.                                                             *)
(***************************************************************************)

\* "Cancel if region or frame is closing or line moved" (RegionHandler.cc): a
\* profile or PV image of an old state of the line is sent only if the line
\* moved while its last box was made.
SentLineCurrent == \A s \in line_sent : s.old => s.moved

\* A PV image is not sent when it was stopped before its last box was checked,
\* unless another PV image of the file reset or erased the stop.
StoppedPvNotSent == \A s \in line_sent : s.kind = "pv" => ~s.stopped

\* A spatial profile bears the number of the channel its data is of, unless the
\* channel changed between the check and the read.
ProfileOfItsChannel == \A s \in line_sent : s.mislabelled => s.changed

\* Line profiles and PV images are of the line and channel they say, and
\* not sent when stopped.
LineProfilesCorrect == SentLineCurrent /\ StoppedPvNotSent /\ ProfileOfItsChannel
=============================================================================
