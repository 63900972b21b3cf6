------------------------------ MODULE ModeFlags ------------------------------
(***************************************************************************)
(* What power-state-monitor promises to the scripts that read /tmp: of the *)
(* two flag files .power_on and .standby one always names the mode last    *)
(* requested, and in passing from one mode to the other the new flag is    *)
(* published before the old one is retired, so that a reader never finds   *)
(* neither.  The promise holds until a system call fails.                  *)
(***************************************************************************)
EXTENDS Integers

CONSTANT NoMode       \* the target of a monitor that has requested nothing yet; not a mode

VARIABLES
    flags,            \* the flag files present
    target,           \* the mode last requested, or NoMode
    broken            \* a system call has failed: nothing is promised any more

vars == <<flags, target, broken>>

Modes == {0, 1}       \* the argument of setModeSettings: 0 standby, 1 on

FlagOf(m) == IF m = 1 THEN "power_on" ELSE "standby"

Quiet == target \in Modes => flags = {FlagOf(target)}

Init ==
    /\ flags = {}
    /\ target = NoMode
    /\ broken = FALSE

\* A mode is requested only when the last request has been carried out.
Request(m) ==
    /\ ~broken
    /\ Quiet
    /\ target' = m
    /\ UNCHANGED <<flags, broken>>

Publish ==
    /\ ~broken
    /\ target \in Modes
    /\ FlagOf(target) \notin flags
    /\ flags' = flags \cup {FlagOf(target)}
    /\ UNCHANGED <<target, broken>>

Retire ==
    /\ ~broken
    /\ target \in Modes
    /\ FlagOf(target) \in flags
    /\ flags # {FlagOf(target)}
    /\ flags' = {FlagOf(target)}
    /\ UNCHANGED <<target, broken>>

\* The monitor dies; what it had published stays.
Abandon ==
    /\ ~broken
    /\ target' = NoMode
    /\ UNCHANGED <<flags, broken>>

Break == broken'

Next ==
    \/ \E m \in Modes : Request(m)
    \/ Publish
    \/ Retire
    \/ Abandon
    \/ Break

SafeSpec == Init /\ [][Next]_vars

Spec == SafeSpec /\ WF_vars(Publish) /\ WF_vars(Retire)
=============================================================================
