---------------------------- MODULE KeySimulator ----------------------------
(***************************************************************************)
(* keySimulator (key_simulator/IARM_BUS_UIEventSimulator.c and uinput.c):  *)
(* the options are read, and the command's key is pressed, held and        *)
(* released on a uinput device as often as asked.  The kernel's side of    *)
(* the device is external: it drops keys the device was not given, and     *)
(* destroying the device releases them all.                                *)
(*                                                                         *)
(* Any system call on the device may fail, up to MaxFaults of them.        *)
(***************************************************************************)
EXTENDS Integers, Sequences, FiniteSets

CONSTANTS
    table,            \* the commands and their key codes (UIEventSimulator.h)
    kcodesMap,        \* key codes and their Linux keys (IrInputRemoteKeyCodes.h)
    LastCode,         \* the key whose UI_SET_KEYBIT comes last in UINPUT_init
    Numbers,          \* the numbers given to -r and -p
    MaxArgs,          \* bound on the arguments
    TicksPerSecond,   \* key repeats in a second of -p; 20 in the code
    MaxFaults         \* bound on the system calls that fail

None == "none"                    \* keyCode -1, _KEY_INVALID and KEY_RESERVED

LinuxKeys ==
    (UNION {{m.uCode, m.uModi} : m \in {kcodesMap[k] : k \in DOMAIN kcodesMap}}) \ {None}

ASSUME TablesAssumption ==
    /\ None \notin DOMAIN kcodesMap \cup {table[c] : c \in DOMAIN table}
    /\ \A k \in DOMAIN kcodesMap : kcodesMap[k].uCode # None
    /\ IsFiniteSet(LinuxKeys)
    /\ LastCode \in LinuxKeys

ASSUME NumbersAssumption ==
    /\ Numbers \subseteq Int
    /\ MaxArgs \in Nat
    /\ TicksPerSecond \in Nat \ {0}
    /\ MaxFaults \in Nat

VARIABLES
    main,             \* where main and sendCommand are
    args,             \* arguments read
    keyCode, repeat, duration, pressAndHold,     \* the statics the options set
    i, j,             \* the loops of sendCommand
    todo,             \* the keys udispatcher still writes for the event
    value,            \* and the value it writes: 0 up, 1 down, 2 repeat
    device,           \* devFd is open
    keybits,          \* the keys the device was given
    pressed,          \* the keys the kernel holds down on it
    seen,             \* the keys the readers of the device know to be down
    downs,            \* how often the command's key went down
    faults

options == <<args, keyCode, repeat, duration, pressAndHold>>
uinput == <<device, keybits, pressed, seen>>
vars == <<main, options, i, j, todo, value, uinput, downs, faults>>

KeyCodes == {table[c] : c \in DOMAIN table}

TypeOK ==
    /\ main \in {"start", "parse", "next", "down", "repeat", "up", "stop", "done"}
    /\ args \in 0 .. MaxArgs
    /\ keyCode \in KeyCodes \cup {None}
    /\ repeat \in Numbers \cup {1}
    /\ duration \in Numbers \cup {5}
    /\ pressAndHold \in BOOLEAN
    /\ i \in Nat
    /\ j = 0 \/ j \in 1 .. duration * TicksPerSecond
    /\ todo \in Seq(LinuxKeys \cup {None})
    /\ value \in 0 .. 2
    /\ device \in BOOLEAN
    /\ pressed \subseteq keybits /\ keybits \subseteq LinuxKeys
    /\ seen \subseteq LinuxKeys
    /\ downs \in Nat
    /\ faults \in 0 .. MaxFaults

Init ==
    /\ main = "start"
    /\ args = 0
    /\ keyCode = None
    /\ repeat = 1
    /\ duration = 5
    /\ pressAndHold = FALSE
    /\ i = 0
    /\ j = 0
    /\ todo = <<>>
    /\ value = 0
    /\ device = FALSE
    /\ keybits = {}
    /\ pressed = {}
    /\ seen = {}
    /\ downs = 0
    /\ faults = 0

-----------------------------------------------------------------------------
(* UINPUT_init, called from UIEventSimulator_Start, which ignores its result. *)

\* The calls of UINPUT_init that fail, by name; a key stands for its UI_SET_KEYBIT.
InitCalls == {"open", "EV_KEY", "EV_SYN", "UI_DEV_SETUP", "UI_DEV_CREATE"} \cup LinuxKeys

(* ret holds the result of the last call only: what failed before a call that
   succeeds is forgotten. *)
InitSucceeds(failed) ==
    failed \cap {"open", "EV_SYN", LastCode, "UI_DEV_SETUP", "UI_DEV_CREATE"} = {}

Start ==
    /\ main = "start"
    /\ main' = "parse"
    /\ \E failed \in SUBSET InitCalls :
        /\ Cardinality(failed) <= MaxFaults
        /\ faults' = Cardinality(failed)
        /\ device' = InitSucceeds(failed)
        /\ keybits' = IF device' /\ "EV_KEY" \notin failed
                      THEN LinuxKeys \ failed ELSE {}
    /\ UNCHANGED <<options, i, j, todo, value, pressed, seen, downs>>

-----------------------------------------------------------------------------
(* The options. *)

Option ==
    /\ main = "parse"
    /\ args < MaxArgs
    /\ args' = args + 1

OptionRepeat ==
    /\ Option
    /\ repeat' \in Numbers
    /\ UNCHANGED <<main, keyCode, duration, pressAndHold, i, j, todo, value, uinput,
                   downs, faults>>

OptionPress ==
    /\ Option
    /\ duration' \in Numbers
    /\ pressAndHold' = TRUE
    /\ UNCHANGED <<main, keyCode, repeat, i, j, todo, value, uinput, downs, faults>>

OptionKey ==
    /\ Option
    /\ keyCode' \in KeyCodes
    /\ UNCHANGED <<main, repeat, duration, pressAndHold, i, j, todo, value, uinput,
                   downs, faults>>

\* A command that is not in the table ends the program; the device goes with it.
OptionUnknownKey ==
    /\ Option
    /\ main' = "done"
    /\ device' = FALSE
    /\ pressed' = {}
    /\ seen' = {}
    /\ UNCHANGED <<keyCode, repeat, duration, pressAndHold, i, j, todo, value, keybits,
                   downs, faults>>

OptionsEnd ==
    /\ main = "parse"
    /\ main' = IF keyCode # None THEN "next" ELSE "stop"
    /\ UNCHANGED <<options, i, j, todo, value, uinput, downs, faults>>

-----------------------------------------------------------------------------
(* sendCommand: each event is dispatched whole before the next. *)

\* getKeyCode: a key that is not in the map leaves the invalid code in place.
LinuxKey(k) ==
    IF k \in DOMAIN kcodesMap THEN kcodesMap[k] ELSE [uCode |-> None, uModi |-> None]

\* getKeyValue
Value(type) == CASE type = "down" -> 1 [] type = "up" -> 0 [] type = "repeat" -> 2

\* Mutant: the modifier is always written first, on the way up too.
KeySequence_ModifierFirst(type) ==
    LET key == LinuxKey(keyCode)
        modifier == IF key.uModi = None THEN <<>> ELSE <<key.uModi>>
    IN  IF type = "repeat" THEN <<key.uCode>> ELSE modifier \o <<key.uCode>>

\* Mutant: the modifier is never written on the way up.
KeySequence_ModifierStays(type) ==
    LET key == LinuxKey(keyCode)
        modifier == IF key.uModi = None THEN <<>> ELSE <<key.uModi>>
    IN  IF type = "down" THEN modifier \o <<key.uCode>> ELSE <<key.uCode>>

\* udispatcher: the modifier goes down before the key and up after it.
KeySequence(type) ==
    LET key == LinuxKey(keyCode)
        modifier == IF key.uModi = None THEN <<>> ELSE <<key.uModi>>
    IN  CASE type = "down" -> modifier \o <<key.uCode>>
          [] type = "up" -> <<key.uCode>> \o modifier
          [] type = "repeat" -> <<key.uCode>>

\* sendKeyEventToIARM: without a device there is no dispatcher and nothing is sent.
Send(type) ==
    /\ todo = <<>>
    /\ todo' = IF device THEN KeySequence(type) ELSE <<>>
    /\ value' = IF device THEN Value(type) ELSE value

\* Mutant: one round too many.
NextRound_OneMore ==
    /\ main = "next"
    /\ todo = <<>>
    /\ main' = IF i <= repeat THEN "down" ELSE "stop"
    /\ UNCHANGED <<options, i, j, todo, value, uinput, downs, faults>>

NextRound ==
    /\ main = "next"
    /\ todo = <<>>
    /\ main' = IF i < repeat THEN "down" ELSE "stop"
    /\ UNCHANGED <<options, i, j, todo, value, uinput, downs, faults>>

KeyDown ==
    /\ main = "down"
    /\ Send("down")
    /\ main' = IF pressAndHold THEN "repeat" ELSE "up"
    /\ j' = 0
    /\ UNCHANGED <<options, i, uinput, downs, faults>>

\* Mutant: one repeat too many.
KeyRepeat_OneMore ==
    /\ main = "repeat"
    /\ j <= duration * TicksPerSecond
    /\ Send("repeat")
    /\ j' = j + 1
    /\ UNCHANGED <<main, options, i, uinput, downs, faults>>

KeyRepeat ==
    /\ main = "repeat"
    /\ j < duration * TicksPerSecond
    /\ Send("repeat")
    /\ j' = j + 1
    /\ UNCHANGED <<main, options, i, uinput, downs, faults>>

\* Mutant: the round is not counted.
KeyUp_NotCounted ==
    /\ main = "up" \/ (main = "repeat" /\ j >= duration * TicksPerSecond)
    /\ Send("up")
    /\ main' = "next"
    /\ UNCHANGED <<options, i, j, uinput, downs, faults>>

KeyUp ==
    /\ main = "up" \/ (main = "repeat" /\ j >= duration * TicksPerSecond)
    /\ Send("up")
    /\ main' = "next"
    /\ i' = i + 1
    /\ UNCHANGED <<options, j, uinput, downs, faults>>

-----------------------------------------------------------------------------
(* udispatcher_internal, once for each key of the event. *)

\* The kernel's input core (external): keys the device lacks are dropped.
Kernel(k) ==
    CASE k \notin keybits -> pressed
      [] k \in keybits /\ value = 1 -> pressed \cup {k}
      [] k \in keybits /\ value = 0 -> pressed \ {k}
      [] k \in keybits /\ value = 2 -> pressed

\* One more system call fails.
Fault ==
    /\ faults < MaxFaults
    /\ faults' = faults + 1

Writing ==
    /\ todo # <<>>
    /\ todo' = Tail(todo)
    /\ UNCHANGED <<main, options, i, j, value, keybits>>

\* The key is written; the SYN after it makes readers see it, unless it fails unnoticed.
WriteKey ==
    /\ Writing
    /\ device
    /\ pressed' = Kernel(Head(todo))
    /\ \/ /\ seen' = pressed'
          /\ UNCHANGED faults
       \/ /\ Fault
          /\ UNCHANGED seen
    /\ downs' = IF LinuxKey(keyCode).uCode \in pressed' \ pressed THEN downs + 1 ELSE downs
    /\ UNCHANGED device

\* UINPUT_term: the kernel releases every key of the device it destroys.
UINPUT_term ==
    /\ device' = FALSE
    /\ pressed' = {}
    /\ seen' = {}

\* Mutant: a write that fails is only reported.
WriteFails_KeepsDevice ==
    /\ Writing
    /\ IF device THEN Fault ELSE UNCHANGED faults
    /\ UNCHANGED <<device, pressed, seen, downs>>

\* A write that fails takes the device down; the rest of the event then fails too.
WriteFails ==
    /\ Writing
    /\ IF device THEN Fault ELSE UNCHANGED faults
    /\ UINPUT_term
    /\ UNCHANGED downs

-----------------------------------------------------------------------------
Stop ==
    /\ main = "stop"
    /\ main' = "done"
    /\ UINPUT_term
    /\ UNCHANGED <<options, i, j, todo, value, keybits, downs, faults>>

Next ==
    \/ Start
    \/ OptionRepeat \/ OptionPress \/ OptionKey \/ OptionUnknownKey \/ OptionsEnd
    \/ NextRound \/ KeyDown \/ KeyRepeat \/ KeyUp
    \/ WriteKey \/ WriteFails
    \/ Stop

\* A single thread that never waits for another.
Spec == Init /\ [][Next]_vars /\ WF_vars(Next)

-----------------------------------------------------------------------------
Key == LinuxKey(keyCode)

(* "Send Modifier KEY_DOWN and KEY_UP event along with keycode's DOWN and UP
   event" (uinput.c 125-126): on a device that has both, the key is never down
   without its modifier, for the kernel or for a reader, not even between two
   writes or after one that failed. *)
ModifierCovers ==
    Key.uModi \in keybits =>
        \A down \in {pressed, seen} : Key.uCode \in down => Key.uModi \in down

(* A repeat is written only for a key that is down: a failed press never turns
   into a stream of repeats (sendCommand, 196-202). *)
RepeatsWhileHeld ==
    todo # <<>> /\ value = 2 /\ device /\ Key.uCode \in keybits => Key.uCode \in pressed

(* Between two rounds, during sleep(interval), nothing is down, whatever failed
   in the round before (192-214). *)
ReleasedBetweenRounds ==
    main \in {"next", "stop"} /\ todo = <<>> => pressed = {}

(* "-r repeat number of times command is sent" (261): without failures the key
   has gone down exactly so often when sendCommand returns, held or not, in every
   order of the options. *)
SentAsOften ==
    main = "stop" /\ faults = 0 /\ Key.uCode \in keybits
        => downs = IF repeat > 0 THEN repeat ELSE 0

(* The program ends, even when the device fails under it. *)
Terminates == <>(main = "done")

=============================================================================
