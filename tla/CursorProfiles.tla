---------------------------- MODULE CursorProfiles ----------------------------
(***************************************************************************)
(* The spectral profiles of one image's cursor.  A task fills them channel *)
(* by channel and sends partial and final ones while the cursor, the       *)
(* requirements and the polarization change and the image may be closed;   *)
(* each change has a task of its own that fills all it concerns.           *)
(*                                                                         *)
(* A profile is the cursor it was read at; Final or not.  Polarizations,   *)
(* of which "z" is the current one, are not told apart.                    *)
(***************************************************************************)
EXTENDS Naturals

CONSTANTS CursorTasks,      \* tasks: one for each change, which bounds them
          Cursors,          \* cursor positions
          OutsideImage,     \* those outside the image
          SpectralConfigs,  \* "z" and coordinates of fixed polarization
          Slices            \* slices of a profile

ASSUME CursorAssumption == Cursors # {} /\ Slices \in Nat \ {0}

VARIABLES cursor_at,        \* _cursor
          cursor_configs,   \* _cursor_spectral_configs
          clearing,         \* the main thread is in clear(), without the mutex
          connected,        \* _connected
          fill              \* the tasks

VARIABLES client_profile,   \* the last message of each coordinate
          late,             \* history: coordinates whose last message was sent
                            \* when the cursor had moved since the last check
          unreadable        \* history: the image could not be read

cursorVars == <<cursor_at, cursor_configs, clearing, connected, fill, client_profile, late,
                unreadable>>
settings == <<cursor_at, cursor_configs, clearing, connected>>
received == <<client_profile, late>>

NoCursor == "none"
NoConfig == "none"
NewFill == [at |-> "idle", start |-> NoCursor, only_z |-> FALSE, configs |-> {},
            config |-> NoConfig, slices |-> 0, final |-> FALSE, moved |-> FALSE]
EndOfFill == [NewFill EXCEPT !.at = "done"]
NoMessage == [cursor |-> NoCursor, final |-> FALSE]

CursorProfilesTypeOK ==
    /\ cursor_at \in Cursors /\ cursor_configs \subseteq SpectralConfigs
    /\ {clearing, connected, unreadable} \subseteq BOOLEAN
    /\ \A t \in CursorTasks :
          /\ fill[t].at \in {"idle", "begin", "copy", "next", "read", "check", "send", "done"}
          /\ fill[t].start \in Cursors \cup {NoCursor}
          /\ fill[t].configs \subseteq SpectralConfigs
          /\ fill[t].config \in SpectralConfigs \cup {NoConfig}
          /\ fill[t].slices \in 0..Slices
    /\ late \subseteq SpectralConfigs

\* All coordinates have been required, and sent, before, or none.
CursorProfilesInit ==
    /\ cursor_at = (CHOOSE c \in Cursors : TRUE) /\ cursor_configs \in {{}, SpectralConfigs}
    /\ clearing = FALSE /\ connected = TRUE
    /\ fill = [t \in CursorTasks |-> NewFill]
    /\ client_profile = [c \in SpectralConfigs |->
           IF c \in cursor_configs THEN [cursor |-> cursor_at, final |-> TRUE] ELSE NoMessage]
    /\ late = {} /\ unreadable = FALSE

-----------------------------------------------------------------------------
(***************************************************************************)
(* The changes, and the task that each starts.                             *)
(***************************************************************************)
StartFill(t, only_z) ==
    /\ fill[t].at = "idle"
    /\ fill' = [fill EXCEPT ![t].at = "begin", ![t].only_z = only_z]
    /\ UNCHANGED <<received, unreadable>>

\* OnSetCursor, in the task that goes on to fill; an unmoved cursor fills nothing.
SetCursor(t, position) ==
    /\ connected /\ position # cursor_at
    /\ cursor_at' = position
    /\ StartFill(t, FALSE)
    /\ UNCHANGED <<cursor_configs, clearing, connected>>

SetCursorRequirements(t, configs) ==
    /\ connected /\ ~clearing /\ configs # {}
    /\ cursor_configs' = configs
    /\ StartFill(t, FALSE)
    /\ UNCHANGED <<cursor_at, clearing, connected>>

\* An empty list: the vector is cleared, in two steps as the mutex is not taken.
ClearRequirements ==
    /\ connected /\ ~clearing /\ cursor_configs # {}
    /\ clearing' = TRUE
    /\ UNCHANGED <<cursor_at, cursor_configs, connected, fill, received, unreadable>>

RequirementsCleared(t) ==
    /\ clearing
    /\ clearing' = FALSE /\ cursor_configs' = {}
    /\ StartFill(t, FALSE)
    /\ UNCHANGED <<cursor_at, connected>>

\* SET_IMAGE_CHANNELS with another polarization.
ChangeStokes(t) ==
    /\ connected
    /\ StartFill(t, TRUE)
    /\ UNCHANGED settings

\* WaitForTaskCancellation, on the main thread.
DisconnectImage ==
    /\ connected /\ ~clearing
    /\ connected' = FALSE
    /\ UNCHANGED <<cursor_at, cursor_configs, clearing, fill, received, unreadable>>

-----------------------------------------------------------------------------
(***************************************************************************)
(* FillSpectralProfileData.                                                *)
(***************************************************************************)
FillGoesOn(t, f) ==
    /\ fill' = [fill EXCEPT ![t] = f]
    /\ UNCHANGED <<settings, received>>

\* A read of the requirements: undefined while they are being cleared.
ReadConfigs == IF clearing THEN SUBSET cursor_configs ELSE {cursor_configs}

\* The task has done with a coordinate.
WithoutConfig(t) == [fill[t] EXCEPT !.at = "next", !.config = NoConfig, !.slices = 0,
                                    !.final = FALSE, !.moved = FALSE]

CursorMoved(t) == cursor_at # fill[t].start

BeginFill(t) ==
    /\ fill[t].at = "begin"
    /\ \E configs \in ReadConfigs :
          FillGoesOn(t, IF configs = {} THEN EndOfFill
                        ELSE [fill[t] EXCEPT !.at = "copy", !.start = cursor_at])
    /\ UNCHANGED unreadable

CopyConfigs(t) ==
    /\ fill[t].at = "copy"
    /\ \E configs \in ReadConfigs :
          FillGoesOn(t, [fill[t] EXCEPT !.at = "next", !.configs = configs])
    /\ UNCHANGED unreadable

\* The next coordinate; all are given up when the cursor moved, the image was
\* closed or this one is no longer required.  The data of a coordinate that is
\* to be sent comes from the loader in one piece, or slice by slice.
NextConfig(t) ==
    LET f == fill[t]
        Skipped(c) == (c # "z" /\ f.only_z) \/ f.start \in OutsideImage
    IN  /\ f.at = "next"
        /\ \/ /\ f.configs = {} \/ CursorMoved(t) \/ ~connected
              /\ FillGoesOn(t, EndOfFill)
           \/ /\ ~CursorMoved(t) /\ connected
              /\ \E c \in f.configs, configs \in ReadConfigs, at \in {"read", "send"} :
                    FillGoesOn(t, IF c \notin configs THEN EndOfFill
                                  ELSE IF Skipped(c) THEN [f EXCEPT !.configs = @ \ {c}]
                                  ELSE [f EXCEPT !.at = at, !.config = c, !.slices = 0,
                                                 !.configs = @ \ {c}, !.final = at = "send", !.moved = FALSE])
        /\ UNCHANGED unreadable

ReadSlice(t) ==
    /\ fill[t].at = "read"
    /\ \/ /\ FillGoesOn(t, [fill[t] EXCEPT !.at = "check", !.slices = @ + 1])
          /\ UNCHANGED unreadable
       \/ /\ FillGoesOn(t, EndOfFill)
          /\ unreadable' = TRUE

\* What follows the check: a final profile is sent, a partial one when the
\* time has come.
AfterCheck(t, send) ==
    LET final == fill[t].slices = Slices
    IN  FillGoesOn(t, [fill[t] EXCEPT !.at = IF final \/ send THEN "send" ELSE "read",
                                      !.final = final, !.moved = CursorMoved(t)])

\* Mutant of CheckProfile: only the requirements are looked at.
CheckConfigOnly(t) ==
    /\ fill[t].at = "check"
    /\ \E configs \in ReadConfigs, send \in BOOLEAN :
          IF fill[t].config \notin configs THEN FillGoesOn(t, WithoutConfig(t))
          ELSE AfterCheck(t, send)
    /\ UNCHANGED unreadable

\* The cursor moved or the image closed: all is given up; the requirement is
\* gone: this profile is.
CheckProfile(t) ==
    /\ fill[t].at = "check"
    /\ \/ /\ CursorMoved(t) \/ ~connected
          /\ FillGoesOn(t, EndOfFill)
       \/ /\ ~CursorMoved(t) /\ connected
          /\ \E configs \in ReadConfigs, send \in BOOLEAN :
                IF fill[t].config \notin configs
                THEN FillGoesOn(t, WithoutConfig(t))
                ELSE AfterCheck(t, send)
    /\ UNCHANGED unreadable

SendCursorProfile(t) ==
    LET c == fill[t].config
    IN  /\ fill[t].at = "send"
        /\ client_profile' = [client_profile EXCEPT
                                 ![c] = [cursor |-> fill[t].start, final |-> fill[t].final]]
        /\ late' = IF CursorMoved(t) /\ ~fill[t].moved THEN late \cup {c} ELSE late \ {c}
        /\ fill' = [fill EXCEPT ![t] =
                       IF fill[t].final THEN WithoutConfig(t) ELSE [@ EXCEPT !.at = "read"]]
        /\ UNCHANGED <<settings, unreadable>>

CursorProfilesNext ==
    \/ \E t \in CursorTasks :
          \/ \E position \in Cursors : SetCursor(t, position)
          \/ \E configs \in SUBSET SpectralConfigs : SetCursorRequirements(t, configs)
          \/ RequirementsCleared(t) \/ ChangeStokes(t)
          \/ BeginFill(t) \/ CopyConfigs(t) \/ NextConfig(t) \/ ReadSlice(t)
          \/ CheckProfile(t) \/ SendCursorProfile(t)
    \/ ClearRequirements \/ DisconnectImage

CursorProfilesSpec == CursorProfilesInit /\ [][CursorProfilesNext]_cursorVars

-----------------------------------------------------------------------------
(***************************************************************************)
(* Properties.                                                             *)
(***************************************************************************)

\* When nothing is left to run, the last message of every required coordinate
\* is a final profile at the present cursor, however the tasks cancelled each
\* other.  The exceptions are a message sent when the cursor had moved
\* since the check before it, an unreadable image and a closed one.
RequiredProfilesComplete ==
    connected /\ ~clearing /\ ~unreadable /\ cursor_at \notin OutsideImage
      /\ (\A t \in CursorTasks : fill[t].at \in {"idle", "done"})
    => \A c \in cursor_configs \ late :
          client_profile[c] = [cursor |-> cursor_at, final |-> TRUE]
=============================================================================
