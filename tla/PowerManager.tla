---------------------------- MODULE PowerManager ----------------------------
(***************************************************************************)
(* The PowerManager plugin behind PowerController, as power_controller.h   *)
(* documents it and as SetPowerState uses it: a power change is announced  *)
(* to every registered callback and held until every engaged client has    *)
(* acknowledged it, has disengaged, or the maximum delay has passed.  The   *)
(* plugin may be restarted: it then knows none of its clients any more,    *)
(* while the client library keeps the callbacks.                           *)
(*                                                                         *)
(* Each operator is one call as it takes effect; a module that uses it     *)
(* says what happens to the variables the operator does not name.          *)
(***************************************************************************)
EXTENDS Integers, Sequences, FiniteSets

CONSTANTS
    Clients,          \* the processes that use PowerController
    MaxRestarts       \* bound on the restarts of the plugin

ASSUME RestartsAssumption == MaxRestarts \in Nat

VARIABLES
    plugin,           \* the plugin is active or inactive
    restarts,         \* how often it has gone down
    tid,              \* the last transaction announced; 0 before the first
    engaged,          \* clients added by AddPowerModePreChangeClient
    waiting,          \* engaged clients the current power change waits for
    callbacks,        \* clients with a registered pre-change callback
    events            \* announcements on their way to each client

pmVars == <<plugin, restarts, tid, engaged, waiting, callbacks, events>>

PMTypeOK ==
    /\ plugin \in {"active", "inactive"}
    /\ restarts \in 0 .. MaxRestarts
    /\ tid \in Nat
    /\ engaged \subseteq Clients
    /\ waiting \subseteq engaged
    /\ callbacks \subseteq Clients
    /\ events \in [Clients -> Seq(1 .. tid)]

PMInit ==
    /\ plugin \in {"active", "inactive"}
    /\ restarts = 0
    /\ tid = 0
    /\ engaged = {}
    /\ waiting = {}
    /\ callbacks = {}
    /\ events = [p \in Clients |-> <<>>]

\* SetPowerState: a new transaction takes the place of the one under way.
PMRequest ==
    /\ plugin = "active"
    /\ tid' = tid + 1
    /\ waiting' = engaged
    /\ events' = [p \in Clients |->
                    IF p \in callbacks THEN Append(events[p], tid') ELSE events[p]]
    /\ UNCHANGED <<plugin, restarts, engaged, callbacks>>

\* RegisterPowerModePreChangeCallback
PMRegister(p) ==
    /\ callbacks' = callbacks \cup {p}
    /\ UNCHANGED <<plugin, restarts, tid, engaged, waiting, events>>

\* UnRegisterPowerModePreChangeCallback: what was not yet delivered never is.
PMUnRegister(p) ==
    /\ callbacks' = callbacks \ {p}
    /\ events' = [events EXCEPT ![p] = <<>>]
    /\ UNCHANGED <<plugin, restarts, tid, engaged, waiting>>

\* AddPowerModePreChangeClient: engaged from the next transaction on.
PMAddClient(p) ==
    /\ plugin = "active"
    /\ engaged' = engaged \cup {p}
    /\ UNCHANGED <<plugin, restarts, tid, waiting, callbacks, events>>

\* RemovePowerModePreChangeClient
PMRemoveClient(id) ==
    /\ engaged' = engaged \ {id}
    /\ waiting' = waiting \ {id}
    /\ UNCHANGED <<plugin, restarts, tid, callbacks, events>>

\* PowerModePreChangeComplete counts for the current transaction only.
PMComplete(id, t) ==
    /\ waiting' = IF t = tid THEN waiting \ {id} ELSE waiting
    /\ UNCHANGED <<plugin, restarts, tid, engaged, callbacks>>

\* The maximum delay passes: the power change completes without the rest.
PMTimeout ==
    /\ waiting # {}
    /\ waiting' = {}
    /\ UNCHANGED <<plugin, restarts, tid, engaged, callbacks, events>>

\* The plugin goes down with all it knew; an announcement on its way may be lost.
PMDown ==
    /\ plugin = "active"
    /\ restarts < MaxRestarts
    /\ plugin' = "inactive"
    /\ restarts' = restarts + 1
    /\ engaged' = {}
    /\ waiting' = {}
    /\ \E lost \in SUBSET Clients :
        events' = [p \in Clients |-> IF p \in lost THEN <<>> ELSE events[p]]
    /\ UNCHANGED <<tid, callbacks>>

PMUp ==
    /\ plugin = "inactive"
    /\ plugin' = "active"
    /\ UNCHANGED <<restarts, tid, engaged, waiting, callbacks, events>>
=============================================================================
