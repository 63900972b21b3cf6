-------------------------- MODULE PreChangeContract --------------------------
(***************************************************************************)
(* What power_controller.h asks of the clients that take part in power     *)
(* changes (294-328), whatever they do in between: a client engages itself *)
(* only while its callback is registered, takes the callback back only     *)
(* after it has disengaged, and does both in the end, so that no power     *)
(* change waits for it longer than that.                                   *)
(***************************************************************************)
CONSTANT Clients

VARIABLES
    callbacks,        \* clients whose pre-change callback is registered
    engaged,          \* clients a power change will have to wait for
    waiting           \* clients the current one waits for

vars == <<callbacks, engaged, waiting>>

Init ==
    /\ callbacks = {}
    /\ engaged = {}
    /\ waiting = {}

Register(p) ==
    /\ p \notin callbacks
    /\ callbacks' = callbacks \cup {p}
    /\ UNCHANGED <<engaged, waiting>>

Engage(p) ==
    /\ p \in callbacks
    /\ engaged' = engaged \cup {p}
    /\ UNCHANGED <<callbacks, waiting>>

Disengage(p) ==
    /\ p \in engaged
    /\ engaged' = engaged \ {p}
    /\ waiting' = waiting \ {p}
    /\ UNCHANGED callbacks

UnRegister(p) ==
    /\ p \in callbacks \ engaged
    /\ callbacks' = callbacks \ {p}
    /\ UNCHANGED <<engaged, waiting>>

Announce ==
    /\ waiting' = engaged
    /\ UNCHANGED <<callbacks, engaged>>

Complete(p) ==
    /\ p \in waiting
    /\ waiting' = waiting \ {p}
    /\ UNCHANGED <<callbacks, engaged>>

Deadline ==
    /\ waiting' = {}
    /\ UNCHANGED <<callbacks, engaged>>

\* The plugin goes down: it forgets its clients, the library keeps the callbacks.
Forget ==
    /\ engaged' = {}
    /\ waiting' = {}
    /\ UNCHANGED callbacks

Next ==
    \/ \E p \in Clients :
        Register(p) \/ Engage(p) \/ Disengage(p) \/ UnRegister(p) \/ Complete(p)
    \/ Announce
    \/ Deadline
    \/ Forget

SafeSpec == Init /\ [][Next]_vars

Fairness == \A p \in Clients : WF_vars(Disengage(p)) /\ WF_vars(UnRegister(p))

Spec == SafeSpec /\ Fairness
=============================================================================
