------------------------------ MODULE Settings ------------------------------
(***************************************************************************)
(* The start of the program: ProgramSettings takes each setting from the   *)
(* command line, the user's file, the system's file or its default, and    *)
(* the server listens on a port of the range that results.                 *)
(*                                                                         *)
(* Settings do not depend on each other, so a behaviour follows one of     *)
(* them; its value is the place it came from.                              *)
(***************************************************************************)
EXTENDS Integers, Sequences

CONSTANTS ArgumentLists,  \* positional arguments, each by what it names
          PortLists,      \* values of the setting port
          DefaultPort,    \* DEFAULT_SOCKET_PORT
          PortTrials,     \* MAX_SOCKET_PORT_TRIALS
          PortModulus     \* 2^16, an unsigned short

\* What an argument names: see ApplyCommandLineSettings.
ArgumentKinds == {"file", "image folder", "folder", "special", "missing"}
AllPorts == 0..PortModulus - 1
ASSUME ArgumentsAssumption == ArgumentLists \subseteq Seq(ArgumentKinds)
\* The first port is one that a server can listen on.
ASSUME PortsAssumption ==
    /\ PortModulus \in Nat \ {0} /\ PortTrials \in Nat /\ DefaultPort \in AllPorts
    /\ \A ports \in PortLists :
          ports \in Seq(Int) /\ (ports # <<>> => ports[1] \in AllPorts)

VARIABLES setting_key,  \* the setting that is followed
          system_file,  \* /etc/carta/backend.json
          user_file,    \* backend.json in the user's folder
          options,      \* the options of this setting on the command line
          arguments     \* the positional arguments

VARIABLES stage,        \* the step of the start that comes next
          setting,      \* where the value of the setting is from
          settings_json,\* the merged JSON: "null", "none" without the key, a place
          file_paths,   \* the images to open, as positions in arguments
          listener      \* [ports, busy, port, end, ok]

settingsVars == <<setting_key, system_file, user_file, options, arguments,
                  stage, setting, settings_json, file_paths, listener>>

Keys == {"host", "top_level_folder", "starting_folder", "threads"}
Contents == {"missing", "unparsable", "without", "wrong type", "value"}
\* The options that set a key: "threads" and a starting folder have none that
\* is not deprecated, and threads is no longer a setting of the files.
OptionsOf(k) == CASE k = "host" -> {"host"}
                  [] k = "top_level_folder" -> {"root", "top_level_folder"}
                  [] k = "starting_folder" -> {"base"}
                  [] k = "threads" -> {"threads"}
Deprecated == {"root", "base", "threads"}
NoListener == [ports |-> <<>>, busy |-> {}, port |-> -1, end |-> -1, ok |-> FALSE]

SettingsTypeOK ==
    /\ stage \in {"command line", "system", "user", "json", "listen", "try", "run"}
    /\ setting \in {"default", "system", "user", "positional"} \cup UNION {OptionsOf(k) : k \in Keys}
    /\ settings_json \in {"null", "none", "system", "user", "option"}
    /\ \A i \in DOMAIN file_paths : file_paths[i] \in DOMAIN arguments
    /\ listener.ok => listener.port \in AllPorts

SettingsInit ==
    /\ setting_key \in Keys
    /\ system_file \in Contents /\ user_file \in Contents
    /\ options \in SUBSET OptionsOf(setting_key)
    /\ arguments \in IF setting_key = "starting_folder" THEN ArgumentLists ELSE {<<>>}
    /\ stage = "command line" /\ setting = "default" /\ settings_json = "null"
    /\ file_paths = <<>> /\ listener = NoListener

Inputs == <<setting_key, system_file, user_file, options, arguments>>

-----------------------------------------------------------------------------
(***************************************************************************)
(* ProgramSettings.                                                        *)
(***************************************************************************)

\* The positional arguments in turn: images are collected, a folder ends the
\* list and empties it, so does what is neither; a name that does not exist
\* empties it too, and the list goes on.
Positional ==
    LET step(s, i) ==
            IF s.ended THEN s
            ELSE CASE arguments[i] \in {"file", "image folder"} -> [s EXCEPT !.paths = Append(@, i)]
                   [] arguments[i] = "folder" -> [paths |-> <<>>, ended |-> TRUE, folder |-> TRUE]
                   [] arguments[i] = "special" -> [paths |-> <<>>, ended |-> TRUE, folder |-> FALSE]
                   [] arguments[i] = "missing" -> [s EXCEPT !.paths = <<>>]
        after[i \in 0..Len(arguments)] ==
            IF i = 0 THEN [paths |-> <<>>, ended |-> FALSE, folder |-> FALSE]
                     ELSE step(after[i - 1], i)
    IN after[Len(arguments)]

\* The mutant: the deprecated root is applied after top_level_folder.
RootLast ==
    IF "root" \in options THEN "root"
    ELSE IF "top_level_folder" \in options THEN "top_level_folder" ELSE "default"
FromOptions ==
    IF options \ Deprecated # {} THEN CHOOSE o \in options \ Deprecated : TRUE
    ELSE IF options \ {"threads"} # {} THEN CHOOSE o \in options \ {"threads"} : TRUE
    ELSE "default"

ApplyCommandLineSettings ==
    /\ stage = "command line" /\ stage' = "system"
    /\ setting' = IF Positional.folder THEN "positional" ELSE FromOptions
    /\ file_paths' = Positional.paths
    /\ UNCHANGED <<Inputs, settings_json, listener>>

\* JSONSettingsFromFile: null when the file cannot be parsed; a value of the
\* wrong type is erased.
JSONSettingsFromFile(file, place) ==
    CASE file = "unparsable" -> "null"
      [] file \in {"without", "wrong type"} -> "none"
      [] file = "value" -> IF setting_key = "threads" THEN "none" ELSE place

\* json::merge_patch: a patch that is no object replaces the target.
MergePatch(target, patch) ==
    CASE patch = "null" -> "null"
      [] patch = "none" -> IF target = "null" THEN "none" ELSE target
      [] OTHER -> patch

ReadSystemSettings ==
    /\ stage = "system" /\ stage' = "user"
    /\ settings_json' = IF system_file = "missing" THEN "null"
                        ELSE JSONSettingsFromFile(system_file, "system")
    /\ UNCHANGED <<Inputs, setting, file_paths, listener>>

ReadUserSettings ==
    /\ stage = "user" /\ stage' = "json"
    /\ settings_json' = IF user_file = "missing" THEN settings_json
                        ELSE MergePatch(settings_json, JSONSettingsFromFile(user_file, "user"))
    /\ UNCHANGED <<Inputs, setting, file_paths, listener>>

\* With a file of either kind, the options that are keys of the files are
\* merged on top, and SetSettingsFromJSON takes the result.
SetSettingsFromJSON ==
    LET command_line == IF setting_key \in options \ Deprecated THEN "option" ELSE "none"
        json == MergePatch(settings_json, command_line)
    IN /\ stage = "json" /\ stage' = "listen"
       /\ IF system_file = "missing" /\ user_file = "missing"
          THEN UNCHANGED <<setting, settings_json>>
          ELSE /\ settings_json' = json
               /\ setting' = CASE json = "none" -> setting
                               [] json = "option" -> setting_key
                               [] OTHER -> json
       /\ UNCHANGED <<Inputs, file_paths, listener>>

-----------------------------------------------------------------------------
(***************************************************************************)
(* SessionManager::Listen.                                                 *)
(***************************************************************************)

\* One port is tried alone; else a range, whose end is an unsigned short.
PortEnd(ports) ==
    LET wide == CASE Len(ports) = 1 -> ports[1]
                  [] Len(ports) = 0 -> DefaultPort + PortTrials
                  [] OTHER -> IF ports[2] = -1 THEN PortModulus - 1 ELSE ports[2]
    IN wide % PortModulus

Listen(ports, busy) ==
    /\ stage = "listen" /\ stage' = "try"
    /\ listener' = [ports |-> ports, busy |-> busy, ok |-> FALSE, end |-> PortEnd(ports),
                    port |-> IF Len(ports) = 0 THEN DefaultPort ELSE ports[1]]
    /\ UNCHANGED <<Inputs, setting, settings_json, file_paths>>

\* Mutant of InRange: ports are tried until one is free.
InRangeAlways(l) == Len(l.ports) = 1 \/ l.port <= PortModulus

\* Whether the port is tried: one port always, else up to the end of the range.
InRange(l) == Len(l.ports) = 1 \/ l.port <= l.end

TryPort ==
    LET l == listener IN
    /\ stage = "try"
    /\ IF ~InRange(l) THEN stage' = "run" /\ UNCHANGED listener
       ELSE IF l.port \notin l.busy
       THEN stage' = "run" /\ listener' = [l EXCEPT !.ok = TRUE]
       ELSE IF Len(l.ports) = 1 THEN stage' = "run" /\ UNCHANGED listener
       ELSE listener' = [l EXCEPT !.port = @ + 1] /\ UNCHANGED stage
    /\ UNCHANGED <<Inputs, setting, settings_json, file_paths>>

SettingsNext ==
    \/ ApplyCommandLineSettings \/ ReadSystemSettings \/ ReadUserSettings
    \/ SetSettingsFromJSON \/ TryPort
    \/ \E ports \in PortLists, busy \in SUBSET AllPorts :
          setting_key = "host" /\ user_file = "missing" /\ options = {} /\ Listen(ports, busy)

SettingsSpec == SettingsInit /\ [][SettingsNext]_settingsVars

-----------------------------------------------------------------------------
(***************************************************************************)
(* Properties.                                                             *)
(***************************************************************************)

Applied == stage \in {"listen", "try", "run"}

\* "force command-line on top of user and system": an option wins over the
\* user's file and that over the system's, whatever else a file holds that
\* cannot be used.  Deprecated options and a positional folder are no keys of
\* the files, which win over them; and a user's file that cannot be parsed takes
\* the system's settings with it.
SettingsPrecedence ==
    Applied =>
        LET given == options \ Deprecated
            in_file(f) == f = "value" /\ setting_key # "threads"
            folder == \E i \in DOMAIN arguments :
                         /\ arguments[i] = "folder"
                         /\ \A j \in 1..i - 1 : arguments[j] # "special"
        IN setting = IF given # {} THEN setting_key
                     ELSE IF in_file(user_file) THEN "user"
                     ELSE IF in_file(system_file) /\ user_file # "unparsable" THEN "system"
                     ELSE IF folder THEN "positional"
                     ELSE IF options \ {"threads"} # {} THEN CHOOSE o \in options : TRUE
                     ELSE "default"

\* The images opened are those after the last name that does not exist, and none
\* if a folder or a special file comes up.
OpenedFiles ==
    Applied =>
        LET ends == {i \in DOMAIN arguments : arguments[i] \in {"folder", "special"}}
            missing == {i \in DOMAIN arguments : arguments[i] = "missing"}
            opened == IF ends # {} THEN {}
                      ELSE {i \in DOMAIN arguments : \A j \in missing : j < i}
        IN /\ {file_paths[i] : i \in DOMAIN file_paths} = opened
           /\ \A i, j \in DOMAIN file_paths : i < j => file_paths[i] < file_paths[j]

\* The server ends up on the lowest free port of the range it was given, and on
\* none only if all of them are in use.
LowestFreePort ==
    (stage = "run" /\ listener # NoListener) =>
        LET l == listener
            first == IF Len(l.ports) = 0 THEN DefaultPort ELSE l.ports[1]
            range == first..l.end
        IN IF l.ok THEN /\ l.port \in range \ l.busy
                        /\ \A p \in range : p < l.port => p \in l.busy
                   ELSE range \subseteq l.busy

SettingsCorrect == SettingsPrecedence /\ OpenedFiles /\ LowestFreePort
=============================================================================
