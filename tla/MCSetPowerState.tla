--------------------------- MODULE MCSetPowerState ---------------------------
(* Bounds for SetPowerState: two processes, one that asks for a power change and
   one that asks for another or only looks on (NOP), which between them show
   every kind of ack, with and without a name and delays. *)
EXTENDS SetPowerState

CONSTANTS p1, p2

MCClients == {p1, p2}

CommandLine(c, a, d, n) ==
    [named |-> c, ack |-> a, delays |-> d, nop |-> n]

MCOptions ==
    [p \in MCClients |->
        IF p = p1
        THEN { CommandLine(TRUE, -1, 0, FALSE),   \* --client C OFF
               CommandLine(TRUE, 1, 1, FALSE) }   \* --client C --ack 1 --delay 1 OFF
        ELSE { CommandLine(FALSE, 1, 0, FALSE),   \* --ack 1 OFF
               CommandLine(TRUE, 0, 0, TRUE) }]   \* --client C --ack 0 NOP
=============================================================================
