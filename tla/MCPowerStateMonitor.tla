------------------------- MODULE MCPowerStateMonitor -------------------------
(* Bounds for PowerStateMonitor: one state that maps to ON, one that maps to
   standby, one that power_monitor_init does not publish. *)
EXTENDS PowerStateMonitor

MCPowerStates == {"ON", "STANDBY", "UNKNOWN"}
=============================================================================
