---------------------------- MODULE QueryPowerState ----------------------------
(***************************************************************************)
(* QueryPowerState (iarm_query_powerstate/IARM_Bus_CheckPowerStatus.c),    *)
(* one run of it.  With -c it asks PowerManager for the state of the box;  *)
(* without a command it reads the state PowerManager last saved under      *)
(* /opt.  PowerManager, the box and the file are external: they change     *)
(* between any two steps of the tool.                                      *)
(***************************************************************************)
EXTENDS Integers

CONSTANTS
    PowerStates       \* the power states PowerManager reports and saves

VARIABLES
    plugin,           \* PowerManager is active or inactive (external)
    powerState,       \* the state of the box (external)
    previous,         \* the state it was in before (external)
    settingsFile,     \* uimgr_settings.bin: the state in it, or why there is none (external)
    command,          \* what follows the dash, or none
    at,               \* where main is
    curState,         \* the answer of PowerController_GetPowerState
    fd,               \* the descriptor open returned
    ret,              \* what read returned: negative, 0 or positive
    pwrSettings,      \* the powerState field of the buffer read fills
    out               \* what is printed

shared == <<plugin, powerState, previous, settingsFile>>
vars == <<shared, command, at, curState, fd, ret, pwrSettings, out>>

\* There may be no file, or one that is cut short before its powerState field.
NoState == {"missing", "cut"}

\* open fails, or gives the lowest free descriptor: 0 where stdin was closed.
Descriptors == {-1, 0, 3}

TypeOK ==
    /\ settingsFile \in PowerStates \cup NoState
    /\ command \in {"c", "h", "other", "none"}
    /\ at \in {"start", "term", "read", "answer", "done"}
    /\ curState \in PowerStates \cup {"UNKNOWN", "error"}
    /\ fd \in Descriptors
    /\ ret \in {-1, 0, 1}
    /\ pwrSettings \in PowerStates \cup {"OFF", "garbage"}
    /\ out \in PowerStates \cup {"nothing", "usage", "error", "OFF", "UNKNOWN"}

\* The locals; the buffer of the settings is not initialised.
Init ==
    /\ command \in {"c", "h", "other", "none"}
    /\ at = "start"
    /\ curState = "UNKNOWN"
    /\ fd = -1
    /\ ret = 0
    /\ pwrSettings = "garbage"
    /\ out = "nothing"

\* main returns, and its locals are gone.
Return ==
    /\ at' = "done"
    /\ curState' = "UNKNOWN"
    /\ fd' = -1
    /\ ret' = 0
    /\ pwrSettings' = "garbage"
    /\ UNCHANGED <<shared, command>>

Goto(from, to) ==
    /\ at = from
    /\ at' = to

-----------------------------------------------------------------------------
\* Mutant: the two out parameters are swapped.
GetPowerState_Swapped ==
    /\ command = "c"
    /\ Goto("start", "term")
    /\ \/ /\ plugin = "active"
          /\ curState' = previous
       \/ curState' = "error"
    /\ UNCHANGED <<shared, command, fd, ret, pwrSettings, out>>

(* -c does not wait for the connection PowerController_Init starts: the plugin
   may be active and the answer still an error. *)
GetPowerState ==
    /\ command = "c"
    /\ Goto("start", "term")
    /\ \/ /\ plugin = "active"
          /\ curState' = powerState
       \/ curState' = "error"
    /\ UNCHANGED <<shared, command, fd, ret, pwrSettings, out>>

PrintState ==
    /\ at = "term"
    /\ out' = curState
    /\ Return

\* -h prints the usage, any other command nothing.
OtherCommand ==
    /\ command \in {"h", "other"}
    /\ at = "start"
    /\ out' = IF command = "h" THEN "usage" ELSE "nothing"
    /\ Return

-----------------------------------------------------------------------------
\* Mutant: the buffer is not cleared.
Open_NoMemset ==
    /\ command = "none"
    /\ \E d \in Descriptors :
        /\ fd' = d
        /\ settingsFile = "missing" => d = -1
        /\ Goto("start", IF d > 0 THEN "read" ELSE "answer")
    /\ UNCHANGED <<shared, command, curState, ret, pwrSettings, out>>

\* The buffer is cleared, and OFF is 0; descriptor 0 counts as a failure.
Open ==
    /\ command = "none"
    /\ \E d \in Descriptors :
        /\ fd' = d
        /\ settingsFile = "missing" => d = -1
        /\ Goto("start", IF d > 0 THEN "read" ELSE "answer")
    /\ pwrSettings' = "OFF"
    /\ UNCHANGED <<shared, command, curState, ret, out>>

\* lseek may fail, then ret is still 0; so may read; a file cut short ends early.
Read ==
    /\ Goto("read", "answer")
    /\ fd' = -1
    /\ \/ /\ ret' \in {0, -1}
          /\ UNCHANGED pwrSettings
       \/ /\ settingsFile = "cut"
          /\ ret' = 1
          /\ UNCHANGED pwrSettings
       \/ /\ settingsFile \in PowerStates
          /\ ret' = 1
          /\ pwrSettings' = settingsFile
    /\ UNCHANGED <<shared, command, curState, out>>

\* Mutant: a failed read is taken for a short one.
PrintSettings_AnyRead ==
    /\ at = "answer"
    /\ out' = IF ret # 0 THEN pwrSettings ELSE "error"
    /\ Return

\* Any number of bytes is taken for the whole.
PrintSettings ==
    /\ at = "answer"
    /\ out' = IF ret > 0 THEN pwrSettings ELSE "error"
    /\ Return

Next ==
    \/ GetPowerState
    \/ PrintState
    \/ OtherCommand
    \/ Open
    \/ Read
    \/ PrintSettings
=============================================================================
