--------------------------------- MODULE Box ---------------------------------
(***************************************************************************)
(* The power tools on one box: clients such as SetPowerState ask           *)
(* PowerManager for a change, the change waits for those engaged in it,    *)
(* the box changes its state, pwr-state-monitor republishes it as flag     *)
(* files, and QueryPowerState reads it back.                               *)
(*                                                                         *)
(* The clients are represented by PreChangeContract, which SetPowerState   *)
(* is shown to implement.  PowerManager, which joins the tools, is         *)
(* external and stays up: Ask, Apply and Save say what it does for them.   *)
(***************************************************************************)
EXTENDS Integers, Sequences

CONSTANTS
    Clients,          \* of PreChangeContract
    PowerStates, Threads, MaxChanges, MaxCrashes, MaxFaults,
                      \* of PowerStateMonitor
    MaxRequests       \* bound on the power changes asked for

ASSUME StatesAssumption ==
    PowerStates \subseteq
        {"UNKNOWN", "OFF", "STANDBY", "ON", "LIGHT_SLEEP", "DEEP_SLEEP"}

ASSUME RequestsAssumption == MaxRequests \in Nat /\ MaxRequests <= MaxChanges

ASSUME MonitorAssumption ==
    /\ MaxChanges \in Nat
    /\ MaxCrashes \in Nat
    /\ MaxFaults \in Nat

VARIABLES
    callbacks, engaged, waiting,                          \* of PreChangeContract
    powerState, queue, registered, main, step, mode, gpowerState, files, thread,
    changes, crashes, faults,                             \* of PowerStateMonitor
    previous, settingsFile, command, at, curState, fd, ret, pwrSettings, out,
                                                          \* of QueryPowerState
    request,          \* the last request; 0 before the first
    asked,            \* the state it asks for
    applied,          \* the last request carried out
    was,              \* the states the box has been in while the query ran
    saved             \* what the settings file has held meanwhile

clientVars == <<callbacks, engaged, waiting>>
monitorVars == <<powerState, queue, registered, main, step, mode, gpowerState, files,
                 thread, changes, crashes, faults>>
queryVars == <<command, at, curState, fd, ret, pwrSettings, out>>
managerVars == <<previous, settingsFile, request, asked, applied>>
history == <<was, saved>>
vars == <<clientVars, monitorVars, queryVars, managerVars, history>>

Client == INSTANCE PreChangeContract
Monitor == INSTANCE PowerStateMonitor
Query == INSTANCE QueryPowerState WITH plugin <- "active"

TypeOK ==
    /\ callbacks \subseteq Clients
    /\ engaged \subseteq callbacks
    /\ waiting \subseteq engaged
    /\ Monitor!TypeOK
    /\ Query!TypeOK
    /\ previous \in PowerStates \cup {"UNKNOWN"}
    /\ request \in 0 .. MaxRequests
    /\ asked \in PowerStates
    /\ applied \in 0 .. request
    /\ was \subseteq PowerStates
    /\ saved \subseteq PowerStates \cup Query!NoState

Init ==
    /\ Client!Init
    /\ Monitor!Init
    /\ Query!Init
    /\ previous = "UNKNOWN"
    /\ settingsFile \in {powerState} \cup Query!NoState
    /\ request = 0
    /\ asked = powerState
    /\ applied = 0
    /\ was = {}
    /\ saved = {}

\* The history of the query, kept while it runs.
Watch ==
    LET running == at' \notin {"start", "done"}
    IN  /\ was' = IF running THEN was \cup {powerState'} ELSE {}
        /\ saved' = IF running THEN saved \cup {settingsFile'} ELSE {}

-----------------------------------------------------------------------------
\* PowerController_SetPowerState, by any client: the last request counts.
Ask(s) ==
    /\ request < MaxRequests
    /\ Client!Announce
    /\ request' = request + 1
    /\ asked' = s
    /\ UNCHANGED <<monitorVars, queryVars, previous, settingsFile, applied, history>>

\* What a client does between its requests, and the deadline.
ClientStep ==
    /\ \/ \E p \in Clients :
            \/ Client!Register(p)
            \/ Client!Engage(p)
            \/ Client!Complete(p)
            \/ Client!Disengage(p)
            \/ Client!UnRegister(p)
       \/ Client!Deadline
    /\ UNCHANGED <<monitorVars, queryVars, managerVars, history>>

(* PowerManager carries out the last request, once nobody holds it up; where the
   box is in that state already, it changes nothing and tells nobody. *)
Apply ==
    /\ applied < request
    /\ waiting = {}
    /\ applied' = request
    /\ \/ /\ Monitor!PowerChange(asked)
          /\ previous' = powerState
       \/ /\ asked = powerState
          /\ UNCHANGED <<monitorVars, previous>>
    /\ UNCHANGED <<clientVars, queryVars, settingsFile, request, asked>>
    /\ Watch

\* PowerManager saves the state of the box.
Save ==
    /\ settingsFile # powerState
    /\ settingsFile' = powerState
    /\ UNCHANGED <<clientVars, monitorVars, queryVars, previous, request, asked,
                   applied>>
    /\ Watch

\* Everything the monitor does; PowerChange is left to Apply.
MonitorStep ==
    /\ Monitor!Next
    /\ powerState' = powerState
    /\ UNCHANGED <<clientVars, queryVars, managerVars, history>>

QueryStep ==
    /\ Query!Next
    /\ UNCHANGED <<clientVars, monitorVars, managerVars>>
    /\ Watch

Next ==
    \/ \E s \in PowerStates : Ask(s)
    \/ ClientStep
    \/ Apply
    \/ Save
    \/ MonitorStep
    \/ QueryStep

SafeSpec == Init /\ [][Next]_vars

(* Clients keep their contract, the monitor's threads run, and PowerManager
   carries out a request that nothing holds up. *)
Fairness == Client!Fairness /\ Monitor!Fairness /\ WF_vars(Apply)

Spec == SafeSpec /\ Fairness

-----------------------------------------------------------------------------
(* A request that changes the state of the box reaches the flag files unless
   another takes its place, whatever engaged clients do about their acks and
   wherever the monitor is; the monitor must have registered by the time the
   change is carried out (main 254, _lightsleepEventHandler 182-198). *)
RequestReachesFlags ==
    \A r \in 1 .. MaxRequests, s \in PowerStates :
        (request = r /\ asked = s /\ applied < r /\ s # powerState /\ registered)
            ~> (request > r \/ Monitor!Pair = {Monitor!SetFlag(Monitor!ModeOf(s))})

(* From end to end: a request carried out is what the flag files show as soon as
   the monitor has nothing left to handle, and neither requests overtaken while
   clients held them up nor notifications that piled up in the meantime show in
   them (182-198, SetPowerStatus.c 254). *)
RequestShown ==
    /\ applied = request
    /\ registered /\ mode["callback"] # Monitor!NoMode
    /\ queue = <<>> /\ Monitor!Settled /\ faults = 0
    => Monitor!Pair = {Monitor!SetFlag(Monitor!ModeOf(asked))}

(* What QueryPowerState -c prints and what the flag files show at that moment are
   the state of the box by two ways, asked for and notified.  They agree unless the
   box changed between the steps of the query, or the monitor has a notification
   or a setModeSettings left to finish (CheckPowerStatus.c 92-108, 182-198). *)
ObserversAgree ==
    [][ /\ Query!PrintState /\ out' # "error"
        /\ was \subseteq {powerState}
        /\ registered /\ mode["callback"] # Monitor!NoMode
        /\ queue = <<>> /\ Monitor!Settled /\ faults = 0
        => Monitor!Pair = {Monitor!SetFlag(Monitor!ModeOf(out'))} ]_vars

(* Without a command it prints a state the file held meanwhile; only for a file
   that is cut short does it print one that the file never held, and then OFF,
   since the buffer was cleared and any number of bytes will do (127-142). *)
StoredAnswer ==
    [][Query!PrintSettings /\ out' # "error"
        => \/ out' \in saved
           \/ "cut" \in saved /\ out' = "OFF"]_vars
=============================================================================
