------------------------------ MODULE Box_proofs ------------------------------
(***************************************************************************)
(* Theorems about Box: what has been proved of its parts holds in it, and  *)
(* what QueryPowerState prints, for every set of power states and clients. *)
(***************************************************************************)
EXTENDS Box, TLAPS

(* What the query has read and not yet printed is covered by its history. *)
QueryInv ==
    /\ asked \in PowerStates
    /\ powerState \in PowerStates
    /\ at = "term" => curState \in was \cup {"error"}
    /\ at = "start" => ret = 0
    /\ at = "read" => ret = 0 /\ pwrSettings = "OFF"
    /\ at = "answer" /\ ret > 0 =>
        \/ pwrSettings \in saved
        \/ "cut" \in saved /\ pwrSettings = "OFF"

(* While the query stands still, its history only grows. *)
LEMMA WatchGrows ==
    ASSUME Watch, at' = at, at \notin {"start", "done"}
    PROVE  was \subseteq was' /\ saved \subseteq saved'
BY DEF Watch

(* A step of anything but the query. *)
LEMMA OthersKeepQueryInv ==
    ASSUME QueryInv, UNCHANGED queryVars, Watch \/ UNCHANGED history,
           asked' \in PowerStates, powerState' \in PowerStates
    PROVE  QueryInv'
<1>1. /\ at' = at /\ curState' = curState /\ ret' = ret /\ pwrSettings' = pwrSettings
  BY DEF queryVars
<1>2. at \notin {"start", "done"} => was \subseteq was' /\ saved \subseteq saved'
  BY <1>1, WatchGrows DEF history
<1>3. at = "term" => curState \in was' \cup {"error"}
  BY <1>2 DEF QueryInv
<1>4. at = "answer" /\ ret > 0 =>
        \/ pwrSettings \in saved'
        \/ "cut" \in saved' /\ pwrSettings = "OFF"
  BY <1>2 DEF QueryInv
<1>. QED
  BY <1>1, <1>3, <1>4 DEF QueryInv

(* A step of the query itself. *)
LEMMA QueryKeepsQueryInv ==
    ASSUME QueryInv, QueryStep
    PROVE  QueryInv'
<1> USE DEF QueryInv
<1>1. asked' = asked /\ powerState' = powerState /\ settingsFile' = settingsFile
  BY DEF QueryStep, managerVars, monitorVars
<1>2. CASE Query!GetPowerState
  <2>1. at' = "term" /\ curState' \in {powerState, "error"}
    BY <1>2 DEF Query!GetPowerState, Query!Goto
  <2>2. powerState' \in was'
    BY <2>1 DEF QueryStep, Watch
  <2>. QED
    BY <1>1, <2>1, <2>2
<1>3. CASE Query!PrintState \/ Query!OtherCommand \/ Query!PrintSettings
  <2>1. at' = "done"
    BY <1>3 DEF Query!PrintState, Query!OtherCommand, Query!PrintSettings, Query!Return
  <2>. QED
    BY <1>1, <2>1
<1>4. CASE Query!Open
  <2>1. at' \in {"read", "answer"} /\ ret' = 0 /\ pwrSettings' = "OFF"
    BY <1>4 DEF Query!Open, Query!Goto
  <2>. QED
    BY <1>1, <2>1
<1>5. CASE Query!Read
  <2>1. at = "read" /\ at' = "answer"
    BY <1>5 DEF Query!Read, Query!Goto
  <2>2. settingsFile \in saved'
    BY <1>1, <2>1 DEF QueryStep, Watch
  <2>3. ret' > 0 =>
          \/ settingsFile = "cut" /\ pwrSettings' = "OFF"
          \/ pwrSettings' = settingsFile
    BY <1>5, <2>1 DEF Query!Read
  <2>. QED
    BY <1>1, <2>1, <2>2, <2>3
<1>. QED
  BY <1>2, <1>3, <1>4, <1>5 DEF QueryStep, Query!Next

LEMMA QueryInvariant == SafeSpec => []QueryInv
<1>1. Init => QueryInv
  BY DEF Init, Monitor!Init, Query!Init, QueryInv
<1>2. QueryInv /\ [Next]_vars => QueryInv'
  <2> SUFFICES ASSUME QueryInv, [Next]_vars PROVE QueryInv'
    OBVIOUS
  <2>1. ASSUME NEW s \in PowerStates, Ask(s) PROVE QueryInv'
    BY <2>1, OthersKeepQueryInv DEF Ask, QueryInv, monitorVars
  <2>2. CASE ClientStep
    BY <2>2, OthersKeepQueryInv DEF ClientStep, QueryInv, monitorVars, managerVars
  <2>3. CASE Apply
    <3>1. asked' = asked /\ powerState' \in {asked, powerState}
      BY <2>3 DEF Apply, Monitor!PowerChange, monitorVars
    <3>. QED
      BY <2>3, <3>1, OthersKeepQueryInv DEF Apply, QueryInv
  <2>4. CASE Save
    BY <2>4, OthersKeepQueryInv DEF Save, QueryInv, monitorVars
  <2>5. CASE MonitorStep
    BY <2>5, OthersKeepQueryInv DEF MonitorStep, QueryInv, managerVars
  <2>6. CASE QueryStep
    BY <2>6, QueryKeepsQueryInv
  <2>7. CASE UNCHANGED vars
    BY <2>7, OthersKeepQueryInv DEF vars, QueryInv, monitorVars, managerVars
  <2>. QED
    BY <2>1, <2>2, <2>3, <2>4, <2>5, <2>6, <2>7 DEF Next
<1>. QED
  BY <1>1, <1>2, PTL DEF SafeSpec

(* Without a command it prints a state the file held while it ran, or an error,
   or the OFF of a file that is cut short (CheckPowerStatus.c:122-160). *)
THEOREM AnswersWereStored == SafeSpec => StoredAnswer
<1>1. QueryInv /\ [Next]_vars =>
        [Query!PrintSettings /\ out' # "error"
            => \/ out' \in saved
               \/ "cut" \in saved /\ out' = "OFF"]_vars
  BY DEF QueryInv, Query!PrintSettings
<1>. QED
  BY <1>1, QueryInvariant, PTL DEF SafeSpec, StoredAnswer

-----------------------------------------------------------------------------
(* The clients in the box are those of PreChangeContract: what joins them to the
   rest never makes them break it (SetPowerStatus.c:111-151). *)
THEOREM ClientsKeepContract == SafeSpec => Client!SafeSpec
<1>1. Init => Client!Init
  BY DEF Init
<1>2. [Next]_vars => [Client!Next]_(Client!vars)
  <2> SUFFICES ASSUME [Next]_vars PROVE [Client!Next]_(Client!vars)
    OBVIOUS
  <2>1. ASSUME NEW s \in PowerStates, Ask(s) PROVE Client!Next
    BY <2>1 DEF Ask, Client!Next
  <2>2. CASE ClientStep
    BY <2>2 DEF ClientStep, Client!Next
  <2>3. CASE Apply \/ Save \/ MonitorStep \/ QueryStep \/ UNCHANGED vars
    <3>1. UNCHANGED clientVars
      BY <2>3 DEF Apply, Save, MonitorStep, QueryStep, vars
    <3>. QED
      BY <3>1 DEF clientVars, Client!vars
  <2>. QED
    BY <2>1, <2>2, <2>3 DEF Next
<1>. QED
  BY <1>1, <1>2, PTL DEF SafeSpec, Client!SafeSpec

\* A step of the box is a step of the monitor, or none of its business.
LEMMA MonitorSteps ==
    ASSUME QueryInv, [Next]_vars
    PROVE  [Monitor!Next]_(Monitor!vars)
<1>1. CASE MonitorStep
  BY <1>1 DEF MonitorStep
<1>2. CASE Apply
  <2>1. Monitor!PowerChange(asked) \/ UNCHANGED monitorVars
    BY <1>2 DEF Apply
  <2>2. asked \in PowerStates
    BY DEF QueryInv
  <2>. QED
    BY <2>1, <2>2 DEF monitorVars, Monitor!vars, Monitor!Next
<1>3. CASE \/ \E s \in PowerStates : Ask(s)
           \/ ClientStep \/ Save \/ QueryStep \/ UNCHANGED vars
  <2>1. UNCHANGED monitorVars
    BY <1>3 DEF Ask, ClientStep, Save, QueryStep, vars
  <2>. QED
    BY <2>1 DEF monitorVars, Monitor!vars
<1>. QED
  BY <1>1, <1>2, <1>3 DEF Next

(* The monitor in the box is that of PowerStateMonitor: what is proved of that
   for every sequence of power changes holds for those that requests bring about
   (powerStateMonitorMain.c:264-287). *)
THEOREM MonitorIsMonitor == SafeSpec => Monitor!SafeSpec
<1>1. Init => Monitor!Init
  BY DEF Init
<1>2. QueryInv /\ [Next]_vars => [Monitor!Next]_(Monitor!vars)
  BY MonitorSteps
<1>. QED
  BY <1>1, <1>2, QueryInvariant, PTL DEF SafeSpec, Monitor!SafeSpec

-----------------------------------------------------------------------------
(* What is proved of PowerStateMonitor, for the monitor in the box. *)
Proved == INSTANCE PowerStateMonitor_proofs

LEMMA MonitorProved == SafeSpec => Proved!SafeSpec
<1>1. Monitor!Init => Proved!Init
  BY DEF Monitor!Init, Proved!Init, Monitor!Callers, Proved!Callers, Monitor!NoMode,
         Proved!NoMode
<1>2. Monitor!vars = Proved!vars /\ (Monitor!vars = Proved!vars)'
  BY DEF Monitor!vars, Proved!vars
<1>3. Monitor!Next => Proved!Next
  <2> USE DEF Monitor!Callers, Proved!Callers, Monitor!NoMode, Proved!NoMode,
              Monitor!Fault, Proved!Fault, Monitor!BeginSettings, Proved!BeginSettings,
              Monitor!ModeOf, Proved!ModeOf, Monitor!FirstStep, Proved!FirstStep,
              Monitor!SetFlag, Proved!SetFlag, Monitor!DeleteFlag, Proved!DeleteFlag
  <2>1. /\ Monitor!Connect => Proved!Connect
        /\ Monitor!Query => Proved!Query
        /\ Monitor!Register => Proved!Register
        /\ Monitor!CreateQueue => Proved!CreateQueue
        /\ Monitor!Deliver => Proved!Deliver
        /\ Monitor!Crash => Proved!Crash
    BY DEF Monitor!Connect, Proved!Connect, Monitor!Query, Proved!Query,
           Monitor!Register, Proved!Register, Monitor!CreateQueue, Proved!CreateQueue,
           Monitor!Deliver, Proved!Deliver, Monitor!Crash, Proved!Crash,
           Monitor!ProcessEnds, Proved!ProcessEnds
  <2>2. \A c \in Monitor!Callers : Monitor!Settings(c) => Proved!Settings(c)
    BY DEF Monitor!Settings, Proved!Settings, Monitor!Spawn, Proved!Spawn,
           Monitor!Create, Proved!Create, Monitor!Delete, Proved!Delete
  <2>3. \A t \in Threads : Monitor!Monitor(t) => Proved!Monitor(t)
    BY DEF Monitor!Monitor, Proved!Monitor, Monitor!MonitorEnter, Proved!MonitorEnter,
           Monitor!MonitorTouch, Proved!MonitorTouch, Monitor!MonitorFirstCheck,
           Proved!MonitorFirstCheck, Monitor!MonitorPoll, Proved!MonitorPoll,
           Monitor!MonitorClear, Proved!MonitorClear
  <2>4. \A s \in PowerStates : Monitor!PowerChange(s) => Proved!PowerChange(s)
    BY DEF Monitor!PowerChange, Proved!PowerChange
  <2>. QED
    BY <2>1, <2>2, <2>3, <2>4 DEF Monitor!Next, Proved!Next
<1>4. [Monitor!Next]_(Monitor!vars) => [Proved!Next]_(Proved!vars)
  BY <1>2, <1>3
<1>. QED
  BY <1>1, <1>4, MonitorIsMonitor, PTL DEF Monitor!SafeSpec, Proved!SafeSpec

LEMMA MonitorType == SafeSpec => []Monitor!TypeOK
<1>1. Proved!SafeSpec => []Proved!TypeOK
  BY Proved!TypeCorrect, StatesAssumption, MonitorAssumption
<1>2. Proved!TypeOK => Monitor!TypeOK
  BY DEF Proved!TypeOK, Monitor!TypeOK, Proved!CountersOK, Monitor!CountersOK,
         Proved!Callers, Monitor!Callers, Proved!Modes, Monitor!Modes, Proved!NoMode,
         Monitor!NoMode, Proved!Flags, Monitor!Flags, Proved!FlagPair, Monitor!FlagPair
<1>. QED
  BY <1>1, <1>2, MonitorProved, PTL

-----------------------------------------------------------------------------
(* Types. *)

(* What is left of Box's types, and the buffer of the query: it is printed only
   after it was cleared. *)
RestType ==
    /\ callbacks \subseteq Clients
    /\ engaged \subseteq callbacks
    /\ waiting \subseteq engaged
    /\ Query!TypeOK
    /\ at \in {"read", "answer"} => pwrSettings \in PowerStates \cup {"OFF"}
    /\ previous \in PowerStates \cup {"UNKNOWN"}
    /\ request \in 0 .. MaxRequests
    /\ asked \in PowerStates
    /\ applied \in 0 .. request
    /\ was \subseteq PowerStates
    /\ saved \subseteq PowerStates \cup Query!NoState

\* The state of the box and the file are well typed whenever the history takes them in.
LEMMA WatchType ==
    ASSUME RestType, Watch, powerState' \in PowerStates,
           settingsFile' \in PowerStates \cup Query!NoState
    PROVE  was' \subseteq PowerStates /\ saved' \subseteq PowerStates \cup Query!NoState
BY DEF RestType, Watch

LEMMA ClientType ==
    ASSUME callbacks \subseteq Clients, engaged \subseteq callbacks, waiting \subseteq engaged,
           ClientStep \/ Client!Announce
    PROVE  /\ callbacks' \subseteq Clients
           /\ engaged' \subseteq callbacks' /\ waiting' \subseteq engaged'
<1>1. ASSUME NEW p \in Clients,
             \/ Client!Register(p) \/ Client!Engage(p) \/ Client!Complete(p)
             \/ Client!Disengage(p) \/ Client!UnRegister(p)
      PROVE  /\ callbacks' \subseteq Clients
             /\ engaged' \subseteq callbacks' /\ waiting' \subseteq engaged'
  BY <1>1 DEF Client!Register, Client!Engage, Client!Complete, Client!Disengage,
              Client!UnRegister
<1>2. CASE Client!Deadline \/ Client!Announce
  BY <1>2 DEF Client!Deadline, Client!Announce
<1>. QED
  BY <1>1, <1>2 DEF ClientStep

LEMMA QueryType ==
    ASSUME RestType, powerState \in PowerStates, QueryStep
    PROVE  RestType'
<1> USE DEF RestType, Query!TypeOK, Query!NoState, Query!Descriptors
<1>1. /\ UNCHANGED <<callbacks, engaged, waiting, powerState, previous, settingsFile,
                     request, asked, applied>>
      /\ was' \subseteq PowerStates /\ saved' \subseteq PowerStates \cup Query!NoState
  BY WatchType DEF QueryStep, clientVars, monitorVars, managerVars
<1>2. CASE Query!GetPowerState
  BY <1>1, <1>2 DEF Query!GetPowerState, Query!Goto
<1>3. CASE Query!PrintState
  BY <1>1, <1>3 DEF Query!PrintState, Query!Return
<1>4. CASE Query!OtherCommand
  BY <1>1, <1>4 DEF Query!OtherCommand, Query!Return
<1>5. CASE Query!Open
  BY <1>1, <1>5 DEF Query!Open, Query!Goto
<1>6. CASE Query!Read
  BY <1>1, <1>6 DEF Query!Read, Query!Goto
<1>7. CASE Query!PrintSettings
  BY <1>1, <1>7 DEF Query!PrintSettings, Query!Return
<1>. QED
  BY <1>2, <1>3, <1>4, <1>5, <1>6, <1>7 DEF QueryStep, Query!Next

LEMMA RestStep ==
    ASSUME RestType, Monitor!TypeOK, Monitor!TypeOK', [Next]_vars
    PROVE  RestType'
<1> USE DEF RestType
<1>0. powerState \in PowerStates /\ powerState' \in PowerStates
  BY DEF Monitor!TypeOK
<1>1. ASSUME NEW s \in PowerStates, Ask(s) PROVE RestType'
  <2>1. /\ request' \in 0 .. MaxRequests /\ asked' \in PowerStates /\ applied' \in 0 .. request'
        /\ UNCHANGED <<queryVars, settingsFile, previous, was, saved>>
    BY <1>1, RequestsAssumption DEF Ask, history
  <2>2. /\ callbacks' \subseteq Clients
        /\ engaged' \subseteq callbacks' /\ waiting' \subseteq engaged'
    BY <1>1, ClientType DEF Ask
  <2>. QED
    BY <2>1, <2>2 DEF queryVars, Query!TypeOK
<1>2. CASE ClientStep
  <2>1. /\ callbacks' \subseteq Clients
        /\ engaged' \subseteq callbacks' /\ waiting' \subseteq engaged'
    BY <1>2, ClientType
  <2>. QED
    BY <1>2, <2>1 DEF ClientStep, queryVars, managerVars, history, Query!TypeOK
<1>3. CASE Apply
  <2>1. /\ applied' = request
        /\ UNCHANGED <<clientVars, queryVars, settingsFile, request, asked>>
        /\ previous' \in {powerState, previous} /\ Watch
    BY <1>3 DEF Apply
  <2>2. was' \subseteq PowerStates /\ saved' \subseteq PowerStates \cup Query!NoState
    BY <1>0, <2>1, WatchType DEF Query!TypeOK
  <2>. QED
    BY <1>0, <2>1, <2>2 DEF clientVars, queryVars, Query!TypeOK
<1>4. CASE Save
  <2>1. /\ settingsFile' = powerState /\ Watch
        /\ UNCHANGED <<clientVars, queryVars, previous, request, asked, applied>>
    BY <1>4 DEF Save
  <2>2. was' \subseteq PowerStates /\ saved' \subseteq PowerStates \cup Query!NoState
    BY <1>0, <2>1, WatchType
  <2>. QED
    BY <1>0, <2>1, <2>2 DEF clientVars, queryVars, Query!TypeOK
<1>5. CASE MonitorStep
  BY <1>5 DEF MonitorStep, clientVars, queryVars, managerVars, history, Query!TypeOK
<1>6. CASE QueryStep
  BY <1>0, <1>6, QueryType
<1>7. CASE UNCHANGED vars
  BY <1>7 DEF vars, clientVars, queryVars, managerVars, history, Query!TypeOK
<1>. QED
  BY <1>1, <1>2, <1>3, <1>4, <1>5, <1>6, <1>7 DEF Next

LEMMA TypeInvariant == SafeSpec => [](Monitor!TypeOK /\ RestType)
<1>1. Init => RestType
  <2> SUFFICES ASSUME Init PROVE RestType
    OBVIOUS
  <2>1. powerState \in PowerStates
    BY DEF Init, Monitor!Init
  <2>2. Query!TypeOK
    BY DEF Init, Monitor!Init, Query!Init, Query!TypeOK, Query!Descriptors
  <2>3. request \in 0 .. MaxRequests /\ applied \in 0 .. request
    BY RequestsAssumption DEF Init
  <2>. QED
    BY <2>1, <2>2, <2>3 DEF Init, Client!Init, Query!Init, RestType
<1>2. Monitor!TypeOK /\ Monitor!TypeOK' /\ RestType /\ [Next]_vars => RestType'
  BY RestStep
<1>. QED
  BY <1>1, <1>2, MonitorType, PTL DEF SafeSpec

(* Types, in the box as in its parts: no request is carried out before it is made,
   and no client is waited for that has let go (294-328). *)
THEOREM TypeCorrect == SafeSpec => []TypeOK
<1>1. Monitor!TypeOK /\ RestType => TypeOK
  BY DEF RestType, TypeOK
<1>. QED
  BY <1>1, TypeInvariant, PTL

-----------------------------------------------------------------------------
(* Requests, from end to end. *)

\* The last request carried out is the state the box is in.
CarriedOut == applied = request => powerState = asked

LEMMA RequestsCarriedOut == SafeSpec => []CarriedOut
<1>1. Init => CarriedOut
  BY DEF Init, CarriedOut
<1>2. RestType /\ CarriedOut /\ [Next]_vars => CarriedOut'
  <2> SUFFICES ASSUME RestType, CarriedOut, [Next]_vars PROVE CarriedOut'
    OBVIOUS
  <2>1. ASSUME NEW s \in PowerStates, Ask(s) PROVE CarriedOut'
    BY <2>1, RequestsAssumption DEF Ask, RestType, CarriedOut
  <2>2. CASE Apply
    BY <2>2 DEF Apply, Monitor!PowerChange, monitorVars, CarriedOut
  <2>3. CASE ClientStep \/ Save \/ MonitorStep \/ QueryStep \/ UNCHANGED vars
    BY <2>3 DEF ClientStep, Save, MonitorStep, QueryStep, vars, monitorVars, managerVars,
                CarriedOut
  <2>. QED
    BY <2>1, <2>2, <2>3 DEF Next
<1>. QED
  BY <1>1, <1>2, TypeInvariant, PTL DEF SafeSpec

\* Once the monitor has handled every notification, the flags show the box.
LEMMA FlagsShowBox ==
    SafeSpec => []( /\ registered /\ mode["callback"] # Monitor!NoMode
                    /\ queue = <<>> /\ Monitor!Settled /\ faults = 0
                    => Monitor!Pair = {Monitor!SetFlag(Monitor!ModeOf(powerState))} )
<1>1. Proved!SafeSpec => []Proved!CaughtUp
  BY Proved!NothingLost, StatesAssumption, MonitorAssumption
<1>2. Proved!CaughtUp =>
        ( /\ registered /\ mode["callback"] # Monitor!NoMode
          /\ queue = <<>> /\ Monitor!Settled /\ faults = 0
          => Monitor!Pair = {Monitor!SetFlag(Monitor!ModeOf(powerState))} )
  BY DEF Proved!CaughtUp, Proved!NoMode, Monitor!NoMode,
         Proved!Settled, Monitor!Settled, Proved!Idle, Monitor!Idle, Proved!Target,
         Monitor!Target, Proved!Callers, Monitor!Callers, Proved!Modes, Monitor!Modes,
         Proved!Pair, Monitor!Pair, Proved!FlagPair, Monitor!FlagPair, Proved!SetFlag,
         Monitor!SetFlag, Proved!ModeOf, Monitor!ModeOf
<1>. QED
  BY <1>1, <1>2, MonitorProved, PTL

(* What was asked for and carried out is what the flag files show, however many
   requests there were and whoever held them up, for any number of clients and
   monitor threads (powerStateMonitorMain.c:182-198). *)
THEOREM RequestsAreShown == SafeSpec => []RequestShown
<1>1. ( /\ registered /\ mode["callback"] # Monitor!NoMode
        /\ queue = <<>> /\ Monitor!Settled /\ faults = 0
        => Monitor!Pair = {Monitor!SetFlag(Monitor!ModeOf(powerState))} ) /\ CarriedOut
      => RequestShown
  BY DEF CarriedOut, RequestShown
<1>. QED
  BY <1>1, FlagsShowBox, RequestsCarriedOut, PTL

(* The state that -c prints is the one the flag files show, unless the box changed
   while the query ran or the monitor still has it to handle
   (CheckPowerStatus.c:92-108, powerStateMonitorMain.c:182-198). *)
THEOREM ObserversSeeOneBox == SafeSpec => ObserversAgree
<1>1. ( /\ registered /\ mode["callback"] # Monitor!NoMode
        /\ queue = <<>> /\ Monitor!Settled /\ faults = 0
        => Monitor!Pair = {Monitor!SetFlag(Monitor!ModeOf(powerState))} )
      /\ QueryInv /\ [Next]_vars
      => [ /\ Query!PrintState /\ out' # "error"
           /\ was \subseteq {powerState}
           /\ registered /\ mode["callback"] # Monitor!NoMode
           /\ queue = <<>> /\ Monitor!Settled /\ faults = 0
           => Monitor!Pair = {Monitor!SetFlag(Monitor!ModeOf(out'))} ]_vars
  <2> SUFFICES ASSUME QueryInv, Query!PrintState, out' # "error", was \subseteq {powerState}
               PROVE  out' = powerState
    OBVIOUS
  <2>1. at = "term" /\ out' = curState
    BY DEF Query!PrintState
  <2>2. curState \in was
    BY <2>1 DEF QueryInv
  <2>. QED
    BY <2>1, <2>2
<1>. QED
  BY <1>1, FlagsShowBox, QueryInvariant, PTL DEF SafeSpec, ObserversAgree
=============================================================================
