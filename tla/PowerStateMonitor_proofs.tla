----------------------- MODULE PowerStateMonitor_proofs -----------------------
(***************************************************************************)
(* Proofs about PowerStateMonitor, for any set of power states, any number *)
(* of monitor threads and any number of changes, crashes and faults.       *)
(***************************************************************************)
EXTENDS PowerStateMonitor, SequenceTheorems, TLAPS

(* The counters stay within their bounds. *)
LEMMA CountersBounded == SafeSpec => []CountersOK
<1> USE BoundsAssumption DEF BoundsAssumption, CountersOK
<1>1. Init => CountersOK
  BY DEF Init
<1>2. CountersOK /\ [Next]_vars => CountersOK'
  <2> SUFFICES ASSUME CountersOK, [Next]_vars PROVE CountersOK'
    OBVIOUS
  <2>1. CASE Connect \/ Query \/ CreateQueue \/ Deliver
    BY <2>1 DEF Connect, Query, CreateQueue, Deliver
  <2>2. CASE Register \/ Crash
    BY <2>2 DEF Register, Fault, Crash, ProcessEnds
  <2>3. ASSUME NEW c \in Callers, Settings(c) PROVE CountersOK'
    BY <2>3 DEF Settings, Spawn, Create, Delete, Fault
  <2>4. ASSUME NEW t \in Threads, Monitor(t) PROVE CountersOK'
    BY <2>4 DEF Monitor, MonitorEnter, MonitorTouch, MonitorFirstCheck,
                MonitorPoll, MonitorClear, Fault
  <2>5. ASSUME NEW s \in PowerStates, PowerChange(s) PROVE CountersOK'
    BY <2>5 DEF PowerChange
  <2>6. CASE UNCHANGED vars
    BY <2>6 DEF vars
  <2> QED  BY <2>1, <2>2, <2>3, <2>4, <2>5, <2>6 DEF Next
<1> QED  BY <1>1, <1>2, PTL DEF SafeSpec

(* Every variable keeps its type. *)
THEOREM TypeCorrect == SafeSpec => []TypeOK
<1>1. Init /\ CountersOK => TypeOK
  <2> SUFFICES ASSUME Init, CountersOK PROVE TypeOK
    OBVIOUS
  <2>1. registered \in BOOLEAN
    BY DEF Init
  <2> QED
    BY <2>1 DEF Init, TypeOK, Callers, Modes, NoMode, Flags, FlagPair
<1>2. TypeOK /\ CountersOK' /\ [Next]_vars => TypeOK'
  <2> SUFFICES ASSUME TypeOK, CountersOK', [Next]_vars PROVE TypeOK'
    OBVIOUS
  <2> USE DEF TypeOK, Callers, Modes, NoMode, Flags, FlagPair
  <2>1. CASE Connect
    BY <2>1 DEF Connect
  <2>2. CASE Query
    BY <2>2 DEF Query, BeginSettings, ModeOf, FirstStep
  <2>3. CASE Register
    BY <2>3 DEF Register
  <2>4. CASE CreateQueue
    BY <2>4 DEF CreateQueue
  <2>5. CASE Deliver
    BY <2>5 DEF Deliver, BeginSettings, ModeOf, FirstStep
  <2>6. CASE Crash
    <3>1. registered' \in BOOLEAN
      BY <2>6 DEF Crash, ProcessEnds
    <3> QED  BY <2>6, <3>1 DEF Crash, ProcessEnds
  <2>7. ASSUME NEW c \in Callers, Settings(c) PROVE TypeOK'
    <3>1. CASE Spawn(c)
      BY <3>1 DEF Spawn
    <3>2. CASE Create(c)
      BY <3>2 DEF Create, SetFlag
    <3>3. CASE Delete(c)
      BY <3>3 DEF Delete
    <3> QED  BY <2>7, <3>1, <3>2, <3>3 DEF Settings
  <2>8. ASSUME NEW t \in Threads, Monitor(t) PROVE TypeOK'
    <3>1. CASE MonitorEnter(t)
      BY <3>1 DEF MonitorEnter
    <3>2. CASE MonitorTouch(t)
      BY <3>2 DEF MonitorTouch
    <3>3. CASE MonitorFirstCheck(t)
      BY <3>3 DEF MonitorFirstCheck
    <3>4. CASE MonitorPoll(t)
      BY <3>4 DEF MonitorPoll
    <3>5. CASE MonitorClear(t)
      BY <3>5 DEF MonitorClear
    <3> QED  BY <2>8, <3>1, <3>2, <3>3, <3>4, <3>5 DEF Monitor
  <2>9. ASSUME NEW s \in PowerStates, PowerChange(s) PROVE TypeOK'
    BY <2>9 DEF PowerChange
  <2>10. CASE UNCHANGED vars
    BY <2>10 DEF vars
  <2> QED
    BY <2>1, <2>2, <2>3, <2>4, <2>5, <2>6, <2>7, <2>8, <2>9, <2>10 DEF Next
<1> QED  BY <1>1, <1>2, CountersBounded, PTL DEF SafeSpec

-----------------------------------------------------------------------------
(* /tmp/.lightsleep_on always has a live owner.  The invariant is inductive
   once faults and crashes are known to be numbers: the one step that ends an
   owner also removes the file. *)
THEOREM OwnerAlive == SafeSpec => []LightsleepOwned
<1>1. Init => LightsleepOwned
  BY DEF Init, LightsleepOwned
<1>2. TypeOK /\ LightsleepOwned /\ [Next]_vars => LightsleepOwned'
  <2> SUFFICES ASSUME TypeOK, LightsleepOwned, [Next]_vars
               PROVE  LightsleepOwned'
    OBVIOUS
  <2> USE DEF TypeOK, LightsleepOwned
  <2>1. CASE Connect \/ Query \/ Register \/ CreateQueue
    BY <2>1 DEF Connect, Query, Register, CreateQueue
  <2>2. CASE Deliver
    BY <2>2 DEF Deliver
  <2>3. CASE Crash
    BY <2>3 DEF Crash, CountersOK
  <2>4. ASSUME NEW c \in Callers, Settings(c) PROVE LightsleepOwned'
    <3>1. CASE Spawn(c)
      BY <3>1 DEF Spawn
    <3>2. CASE Create(c) \/ Delete(c)
      BY <3>2 DEF Create, Delete, SetFlag
    <3> QED  BY <2>4, <3>1, <3>2 DEF Settings
  <2>5. ASSUME NEW t \in Threads, Monitor(t) PROVE LightsleepOwned'
    <3>1. CASE MonitorEnter(t)
      BY <3>1 DEF MonitorEnter
    <3>2. CASE MonitorTouch(t)
      BY <3>2 DEF MonitorTouch
    <3>3. CASE MonitorFirstCheck(t) \/ MonitorPoll(t)
      BY <3>3 DEF MonitorFirstCheck, MonitorPoll
    <3>4. CASE MonitorClear(t)
      BY <3>4 DEF MonitorClear
    <3> QED  BY <2>5, <3>1, <3>2, <3>3, <3>4 DEF Monitor
  <2>6. ASSUME NEW s \in PowerStates, PowerChange(s) PROVE LightsleepOwned'
    BY <2>6 DEF PowerChange
  <2>7. CASE UNCHANGED vars
    BY <2>7 DEF vars
  <2> QED  BY <2>1, <2>2, <2>4, <2>5, <2>6, <2>7, <2>3 DEF Next
<1> QED  BY <1>1, <1>2, TypeCorrect, PTL DEF SafeSpec
-----------------------------------------------------------------------------
(* The invariant behind the flags.  SettledFlags alone is not inductive: one
   must know that the two callers of setModeSettings never overlap, and that a
   caller about to remove one flag has put up the other. *)
Control ==
    /\ step["main"] # "idle" => main = "settings"
    /\ registered => main \in {"createQueue", "wait"}
    /\ step["callback"] # "idle" => registered
    /\ mode["callback"] # NoMode => registered
    /\ \A c \in Callers : step[c] # "idle" => mode[c] \in Modes

NewFlagUp(c) == faults = 0 /\ step[c] = "delete" => SetFlag(mode[c]) \in files

SettledFlagUp == faults = 0 /\ Settled => SetFlag(Target) \in files

FlagInv ==
    /\ \A c \in Callers : NewFlagUp(c)
    /\ SettledFlagUp
    /\ StaleFlagGone

(* The callers of setModeSettings take turns: main is done before the handler
   is registered. *)
LEMMA ControlInvariant == SafeSpec => []Control
<1> USE DEF Callers
<1>1. Init => Control
  BY DEF Init, Control
<1>2. TypeOK /\ Control /\ [Next]_vars => Control'
  <2> SUFFICES ASSUME TypeOK, Control, [Next]_vars PROVE Control'
    OBVIOUS
  <2> USE DEF TypeOK, Control
  <2>1. CASE Connect \/ CreateQueue
    BY <2>1 DEF Connect, CreateQueue
  <2>2. CASE Query
    BY <2>2 DEF Query, BeginSettings, ModeOf, Modes
  <2>3. CASE Register
    BY <2>3 DEF Register
  <2>4. CASE Deliver
    BY <2>4 DEF Deliver, BeginSettings, ModeOf, Modes
  <2>5. CASE Crash
    BY <2>5 DEF Crash, ProcessEnds
  <2>6. ASSUME NEW c \in Callers, Settings(c) PROVE Control'
    <3>1. CASE Spawn(c) \/ Create(c)
      BY <3>1 DEF Spawn, Create
    <3>2. CASE Delete(c)
      BY <3>2 DEF Delete
    <3> QED  BY <2>6, <3>1, <3>2 DEF Settings
  <2>7. ASSUME NEW t \in Threads, Monitor(t) PROVE Control'
    BY <2>7 DEF Monitor, MonitorEnter, MonitorTouch, MonitorFirstCheck,
                MonitorPoll, MonitorClear
  <2>8. ASSUME NEW s \in PowerStates, PowerChange(s) PROVE Control'
    BY <2>8 DEF PowerChange
  <2>9. CASE UNCHANGED vars
    BY <2>9 DEF vars
  <2> QED  BY <2>1, <2>2, <2>3, <2>4, <2>5, <2>6, <2>7, <2>8, <2>9 DEF Next
<1> QED  BY <1>1, <1>2, TypeCorrect, PTL DEF SafeSpec

(* At no time are both callers inside setModeSettings. *)
THEOREM Exclusion == SafeSpec => []OneWriter
<1>1. Control => OneWriter
  BY DEF Control, OneWriter, Callers
<1> QED  BY <1>1, ControlInvariant, PTL

(* The two flags of a mode are different files. *)
LEMMA FlagsDiffer ==
    ASSUME NEW m
    PROVE  /\ SetFlag(m) # DeleteFlag(m)
           /\ SetFlag(m) \in FlagPair
           /\ DeleteFlag(m) \in FlagPair
           /\ FlagPair = {SetFlag(m), DeleteFlag(m)}
           /\ "lightsleep_on" \notin FlagPair
BY DEF SetFlag, DeleteFlag, FlagPair

(* A step that leaves faults, the settings in progress, their modes and the
   flag pair alone disturbs nothing of FlagInv. *)
LEMMA FlagInvFrame ==
    ASSUME FlagInv, UNCHANGED <<faults, step, mode, Pair>>
    PROVE  FlagInv'
<1>1. \A f \in FlagPair : f \in files' <=> f \in files
  BY DEF Pair
<1>2. (\A c \in Callers : NewFlagUp(c))'
  BY <1>1 DEF FlagInv, NewFlagUp, SetFlag, FlagPair
<1>3. (Settled' <=> Settled) /\ Target' = Target
  BY DEF Settled, Idle, Target
<1>4. SettledFlagUp'
  BY <1>1, <1>3 DEF FlagInv, SettledFlagUp, SetFlag, FlagPair
<1>5. StaleFlagGone'
  BY <1>1, <1>3 DEF FlagInv, StaleFlagGone, DeleteFlag, FlagPair
<1> QED  BY <1>2, <1>4, <1>5 DEF FlagInv

LEMMA FlagInvariant == SafeSpec => []FlagInv
<1>1. Init => FlagInv
  BY DEF Init, FlagInv, NewFlagUp, SettledFlagUp, StaleFlagGone, Settled, Target,
         Modes, NoMode, Callers
<1>2. TypeOK /\ Control /\ FlagInv /\ [Next]_vars => FlagInv'
  <2> SUFFICES ASSUME TypeOK, Control, FlagInv, [Next]_vars PROVE FlagInv'
    OBVIOUS
  <2>1. CASE Connect \/ CreateQueue
    BY <2>1, FlagInvFrame DEF Connect, CreateQueue, Pair
  <2>2. CASE Query
    <3>1. CASE UNCHANGED <<step, mode>>
      BY <2>2, <3>1, FlagInvFrame DEF Query, Pair
    <3>2. CASE BeginSettings("main", ModeOf(powerState))
      <4>1. step'["main"] # "idle" /\ step'["main"] # "delete"
        BY <3>2 DEF BeginSettings, FirstStep, TypeOK, Callers
      <4>2. step'["callback"] = step["callback"] /\ mode'["callback"] = mode["callback"]
        BY <3>2 DEF BeginSettings, TypeOK, Callers
      <4>3. ~Settled'
        BY <4>1 DEF Settled, Idle, Callers
      <4>4. \A c \in Callers : NewFlagUp(c)'
        BY <2>2, <4>1, <4>2 DEF Query, FlagInv, NewFlagUp, Callers
      <4> QED  BY <4>3, <4>4 DEF FlagInv, SettledFlagUp, StaleFlagGone
    <3> QED  BY <2>2, <3>1, <3>2 DEF Query
  <2>3. CASE Register
    <3>1. CASE UNCHANGED faults
      BY <2>3, <3>1, FlagInvFrame DEF Register, Pair
    <3>2. CASE Fault
      <4>1. faults' # 0
        BY <3>2 DEF Fault, TypeOK, CountersOK
      <4>2. StaleFlagGone'
        BY <2>3 DEF Register, FlagInv, StaleFlagGone, Settled, Idle, Target
      <4> QED  BY <4>1, <4>2 DEF FlagInv, NewFlagUp, SettledFlagUp
    <3> QED  BY <2>3, <3>1, <3>2 DEF Register
  <2>4. CASE Deliver
    <3>1. BeginSettings("callback", ModeOf(gpowerState'))
      BY <2>4 DEF Deliver
    <3>2. step'["callback"] # "idle" /\ step'["callback"] # "delete"
      BY <3>1 DEF BeginSettings, FirstStep, TypeOK, Callers
    <3>3. step'["main"] = step["main"] /\ mode'["main"] = mode["main"]
      BY <3>1 DEF BeginSettings, TypeOK, Callers
    <3>4. ~Settled'
      BY <3>2 DEF Settled, Idle, Callers
    <3>5. \A c \in Callers : NewFlagUp(c)'
      BY <2>4, <3>2, <3>3 DEF Deliver, FlagInv, NewFlagUp, Callers
    <3> QED  BY <3>4, <3>5 DEF FlagInv, SettledFlagUp, StaleFlagGone
  <2>5. CASE Crash
    <3>1. Target' = NoMode
      BY <2>5 DEF Crash, ProcessEnds, Target, Callers
    <3>2. ~Settled'
      BY <3>1 DEF Settled, Modes, NoMode
    <3>3. \A c \in Callers : NewFlagUp(c)'
      BY <2>5 DEF Crash, ProcessEnds, NewFlagUp
    <3> QED  BY <3>2, <3>3 DEF FlagInv, SettledFlagUp, StaleFlagGone
  <2>6. ASSUME NEW c \in Callers, Settings(c) PROVE FlagInv'
    <3>1. CASE Spawn(c) \/ Create(c)
      <4>1. step'[c] # "idle"
        BY <3>1 DEF Spawn, Create, TypeOK
      <4>2. ~Settled'
        BY <4>1 DEF Settled, Idle
      <4>3. CASE Spawn(c)
        BY <4>2, <4>3 DEF Spawn, FlagInv, NewFlagUp, SettledFlagUp, StaleFlagGone, TypeOK
      <4>4. CASE Create(c) /\ Fault
        <5>1. faults' # 0
          BY <4>4 DEF Fault, TypeOK, CountersOK
        <5> QED  BY <4>2, <5>1 DEF FlagInv, NewFlagUp, SettledFlagUp, StaleFlagGone
      <4>5. CASE Create(c) /\ ~Fault
        BY <4>2, <4>5 DEF Create, FlagInv, NewFlagUp, SettledFlagUp, StaleFlagGone, TypeOK
      <4> QED  BY <3>1, <4>3, <4>4, <4>5
    <3>2. CASE Delete(c)
      <4>1. /\ step[c] = "delete"
            /\ step' = [step EXCEPT ![c] = "idle"]
            /\ mode[c] \in Modes
            /\ UNCHANGED <<mode, faults, registered>>
            /\ files' = files \ {DeleteFlag(mode[c])}
        BY <3>2 DEF Delete, Control
      <4>2. \A d \in Callers : d # c => step[d] = "idle"
        BY <4>1 DEF Control, Callers
      <4>3. Target' = mode[c]
        BY <4>1 DEF Control, Target, Callers, Modes, NoMode
      <4>4. faults = 0 => SetFlag(mode[c]) \in files
        BY <4>1 DEF FlagInv, NewFlagUp
      <4>5. \A d \in Callers : NewFlagUp(d)'
        BY <4>1, <4>2 DEF NewFlagUp, TypeOK
      <4>6. SettledFlagUp'
        BY <4>1, <4>3, <4>4 DEF SettledFlagUp, SetFlag, DeleteFlag
      <4>7. StaleFlagGone'
        BY <4>1, <4>3 DEF StaleFlagGone, DeleteFlag
      <4> QED  BY <4>5, <4>6, <4>7 DEF FlagInv
    <3> QED  BY <2>6, <3>1, <3>2 DEF Settings
  <2>7. ASSUME NEW t \in Threads, Monitor(t) PROVE FlagInv'
    <3>1. CASE MonitorEnter(t) \/ MonitorFirstCheck(t) \/ MonitorPoll(t)
      BY <3>1, FlagInvFrame DEF MonitorEnter, MonitorFirstCheck, MonitorPoll, Pair
    <3>2. CASE MonitorClear(t)
      BY <3>2, FlagInvFrame DEF MonitorClear, Pair, FlagPair
    <3>3. CASE MonitorTouch(t) /\ ~Fault
      BY <3>3, FlagInvFrame DEF MonitorTouch, Pair, FlagPair
    <3>4. CASE MonitorTouch(t) /\ Fault
      <4>1. faults' # 0
        BY <3>4 DEF Fault, TypeOK, CountersOK
      <4>2. StaleFlagGone'
        BY <3>4 DEF MonitorTouch, FlagInv, StaleFlagGone, Settled, Idle, Target,
                    DeleteFlag
      <4> QED  BY <4>1, <4>2 DEF FlagInv, NewFlagUp, SettledFlagUp
    <3> QED  BY <2>7, <3>1, <3>2, <3>3, <3>4 DEF Monitor
  <2>8. ASSUME NEW s \in PowerStates, PowerChange(s) PROVE FlagInv'
    BY <2>8, FlagInvFrame DEF PowerChange, Pair
  <2>9. CASE UNCHANGED vars
    BY <2>9, FlagInvFrame DEF vars, Pair
  <2> QED  BY <2>1, <2>2, <2>3, <2>4, <2>5, <2>6, <2>7, <2>8, <2>9 DEF Next
<1> QED  BY <1>1, <1>2, TypeCorrect, ControlInvariant, PTL DEF SafeSpec

(* A settled pair of flags shows exactly the mode last requested. *)
THEOREM FlagsAgree == SafeSpec => []SettledFlags
<1>1. FlagInv => SettledFlags
  BY FlagsDiffer DEF FlagInv, SettledFlagUp, StaleFlagGone, SettledFlags, Pair
<1> QED  BY <1>1, FlagInvariant, PTL

-----------------------------------------------------------------------------
(* Notifications.  CaughtUp is about the moments when none is on its way; what
   carries it there is that the last one on its way, or else the last one handled,
   is the state of the box. *)
QueueInv ==
    /\ ~registered => queue = <<>>
    /\ queue # <<>> => queue[Len(queue)] = powerState
    /\ mode["callback"] # NoMode =>
          /\ mode["callback"] = ModeOf(gpowerState)
          /\ queue = <<>> => gpowerState = powerState

\* Taking the first of a sequence away leaves the last, unless they are the same.
LEMMA LastOfTail ==
    ASSUME NEW S, NEW q \in Seq(S), q # <<>>
    PROVE  /\ Tail(q) # <<>> => Tail(q)[Len(Tail(q))] = q[Len(q)]
           /\ Tail(q) = <<>> => Head(q) = q[Len(q)]
<1>1. /\ Tail(q) \in Seq(S) /\ Len(Tail(q)) = Len(q) - 1
      /\ \A i \in 1 .. Len(Tail(q)) : Tail(q)[i] = q[i + 1]
      /\ Head(q) = q[1]
  BY HeadTailProperties
<1>2. Len(q) \in Nat /\ Len(Tail(q)) \in Nat
  BY <1>1, LenProperties
<1>3. CASE Tail(q) # <<>>
  BY <1>1, <1>2, <1>3, EmptySeq
<1>4. CASE Tail(q) = <<>>
  <2>1. Len(q) = 1
    <3>1. Len(Tail(q)) = 0
      BY <1>4, EmptySeq
    <3>2. Len(Tail(q)) = Len(q) - 1
      BY <1>1
    <3>. QED
      BY <1>2, <3>1, <3>2
  <2>. QED
    BY <1>1, <1>4, <2>1
<1> QED  BY <1>3, <1>4

LEMMA QueueInvariant == SafeSpec => []QueueInv
<1>1. Init => QueueInv
  BY DEF Init, QueueInv, Callers
<1>2. TypeOK /\ Control /\ QueueInv /\ [Next]_vars => QueueInv'
  <2> SUFFICES ASSUME TypeOK, Control, QueueInv, [Next]_vars PROVE QueueInv'
    OBVIOUS
  <2>1. CASE Connect \/ CreateQueue
    BY <2>1 DEF Connect, CreateQueue, QueueInv
  <2>2. CASE Query
    <3>1. mode'["callback"] = mode["callback"]
      BY <2>2 DEF Query, BeginSettings, TypeOK, Callers
    <3> QED  BY <2>2, <3>1 DEF Query, QueueInv
  <2>3. CASE Register
    BY <2>3 DEF Register, QueueInv
  <2>4. CASE Deliver
    <3>1. /\ registered /\ queue # <<>> /\ UNCHANGED <<powerState, registered>>
          /\ queue' = Tail(queue) /\ gpowerState' = Head(queue)
      BY <2>4 DEF Deliver
    <3>2. mode'["callback"] = ModeOf(gpowerState')
      BY <2>4 DEF Deliver, BeginSettings, TypeOK, Callers
    <3>3. queue \in Seq(PowerStates)
      BY DEF TypeOK
    <3>4. queue' # <<>> => queue'[Len(queue')] = powerState'
      BY <3>1, <3>3, LastOfTail DEF QueueInv
    <3>5. queue' = <<>> => gpowerState' = powerState'
      BY <3>1, <3>3, LastOfTail DEF QueueInv
    <3> QED  BY <3>1, <3>2, <3>4, <3>5 DEF QueueInv
  <2>5. CASE Crash
    BY <2>5 DEF Crash, ProcessEnds, QueueInv, Callers
  <2>6. ASSUME NEW c \in Callers, Settings(c) PROVE QueueInv'
    BY <2>6 DEF Settings, Spawn, Create, Delete, QueueInv
  <2>7. ASSUME NEW t \in Threads, Monitor(t) PROVE QueueInv'
    BY <2>7 DEF Monitor, MonitorEnter, MonitorTouch, MonitorFirstCheck, MonitorPoll,
                MonitorClear, QueueInv
  <2>8. ASSUME NEW s \in PowerStates, PowerChange(s) PROVE QueueInv'
    <3>1. powerState' = s /\ UNCHANGED <<registered, mode, gpowerState>>
      BY <2>8 DEF PowerChange
    <3>2. CASE registered
      <4>1. queue' = Append(queue, s) /\ queue \in Seq(PowerStates)
        BY <2>8, <3>2 DEF PowerChange, TypeOK
      <4>2. queue' # <<>> /\ queue'[Len(queue')] = s
        BY <4>1, AppendProperties
      <4> QED  BY <3>1, <3>2, <4>2 DEF QueueInv
    <3>3. CASE ~registered
      BY <2>8, <3>1, <3>3 DEF PowerChange, QueueInv, Control
    <3> QED  BY <3>2, <3>3
  <2>9. CASE UNCHANGED vars
    BY <2>9 DEF vars, QueueInv
  <2> QED  BY <2>1, <2>2, <2>3, <2>4, <2>5, <2>6, <2>7, <2>8, <2>9 DEF Next
<1> QED  BY <1>1, <1>2, TypeCorrect, ControlInvariant, PTL DEF SafeSpec

(* With every notification handled the flags show the state of the box: after its
   first notification the handler loses none (powerStateMonitorMain.c:182-198). *)
THEOREM NothingLost == SafeSpec => []CaughtUp
<1>1. QueueInv /\ SettledFlags => CaughtUp
  BY DEF QueueInv, SettledFlags, CaughtUp, Target
<1> QED  BY <1>1, QueueInvariant, FlagsAgree, PTL

-----------------------------------------------------------------------------
(* A finished setModeSettings leaves no flag of the other mode, faults or not. *)
THEOREM NoStaleFlag == SafeSpec => []StaleFlagGone
BY FlagInvariant, PTL DEF FlagInv

(* No step leaves the readers of the flags without one. *)
THEOREM AlwaysAFlag == SafeSpec => FlagPairNeverEmpties
<1>1. TypeOK /\ FlagInv /\ [Next]_vars => [Pair # {} /\ faults' = 0 => Pair' # {}]_vars
  <2> SUFFICES ASSUME TypeOK, FlagInv, Next, Pair # {}, faults' = 0
               PROVE  Pair' # {}
    BY DEF vars
  <2>1. CASE \E c \in Callers : Delete(c)
    <3>1. PICK c \in Callers : Delete(c)
      BY <2>1
    <3>2. SetFlag(mode[c]) \in files
      BY <3>1 DEF Delete, FlagInv, NewFlagUp
    <3>3. SetFlag(mode[c]) \in Pair'
      BY <3>1, <3>2 DEF Delete, Pair, SetFlag, DeleteFlag, FlagPair
    <3> QED  BY <3>3
  <2>2. CASE \A c \in Callers : ~Delete(c)
    <3>1. \A f \in FlagPair : f \in files => f \in files'
      BY <2>2 DEF Next, Connect, Query, Register, CreateQueue, Deliver, Crash, ProcessEnds,
                  Settings, Spawn, Create, Monitor, MonitorEnter, MonitorTouch,
                  MonitorFirstCheck, MonitorPoll, MonitorClear, PowerChange, FlagPair
    <3> QED  BY <3>1 DEF Pair
  <2> QED  BY <2>1, <2>2
<1> QED  BY <1>1, TypeCorrect, FlagInvariant, PTL DEF SafeSpec, FlagPairNeverEmpties


-----------------------------------------------------------------------------
(* Implementation of ModeFlags. *)

\* Failures are counted and never forgotten.
LEMMA FaultsCounted ==
    ASSUME TypeOK, [Next]_vars, faults' = 0
    PROVE  UNCHANGED faults
<1> USE DEF TypeOK, CountersOK
<1>1. faults \in Nat
  BY BoundsAssumption DEF BoundsAssumption
<1>2. ASSUME Fault PROVE FALSE
  BY <1>1, <1>2 DEF Fault
<1>3. CASE Connect \/ Query \/ Register \/ CreateQueue \/ Deliver \/ Crash
  BY <1>2, <1>3 DEF Connect, Query, Register, CreateQueue, Deliver, Crash, ProcessEnds
<1>4. ASSUME NEW c \in Callers, Settings(c) PROVE UNCHANGED faults
  BY <1>2, <1>4 DEF Settings, Spawn, Create, Delete
<1>5. ASSUME NEW t \in Threads, Monitor(t) PROVE UNCHANGED faults
  BY <1>2, <1>5 DEF Monitor, MonitorEnter, MonitorTouch, MonitorFirstCheck, MonitorPoll,
                    MonitorClear
<1>6. ASSUME NEW s \in PowerStates, PowerChange(s) PROVE UNCHANGED faults
  BY <1>6 DEF PowerChange
<1>7. CASE UNCHANGED vars
  BY <1>7 DEF vars
<1> QED  BY <1>3, <1>4, <1>5, <1>6, <1>7 DEF Next

-----------------------------------------------------------------------------
(* The file of a live monitor.  As long as no two threads are between the test
   and the creation together, there is one owner at a time and nobody creates a
   file that is there. *)
Past == {"firstCheck", "watch", "clear"}

FileInv ==
    faults = 0 =>
        /\ HasFile
        /\ \A t \in Threads : thread[t] = "touch" => "lightsleep_on" \notin files
        /\ \A t, u \in Threads : thread[t] \in Past /\ thread[u] \in Past => t = u

LEMMA FileStep == TypeOK /\ FileInv /\ ~Racing /\ [Next]_vars => FileInv'
<1> SUFFICES ASSUME TypeOK, FileInv, ~Racing, [Next]_vars, faults' = 0
             PROVE  FileInv'
  BY DEF FileInv
<1>0. faults = 0
  BY FaultsCounted
<1> USE <1>0 DEF FileInv, HasFile, Racing, Past, TypeOK
<1>1. CASE UNCHANGED <<files, thread>>
  BY <1>1
<1>2. CASE Crash
  BY <1>2 DEF Crash, ProcessEnds
<1>3. ASSUME NEW c \in Callers, Settings(c) PROVE FileInv'
  <2>1. /\ "lightsleep_on" \in files' <=> "lightsleep_on" \in files
        /\ \A t \in Threads : thread'[t] = thread[t] \/ thread'[t] = "enter"
    BY <1>3 DEF Settings, Spawn, Create, Delete, SetFlag, DeleteFlag
  <2> QED  BY <2>1
<1>4. ASSUME NEW t \in Threads, MonitorTouch(t) PROVE FileInv'
  <2>1. "lightsleep_on" \in files'
    BY <1>4 DEF MonitorTouch, Fault
  <2>2. /\ thread[t] = "touch" /\ thread'[t] = "firstCheck"
        /\ \A u \in Threads \ {t} : thread'[u] = thread[u]
    BY <1>4 DEF MonitorTouch
  <2>3. \A u \in Threads \ {t} : thread[u] \notin Past /\ thread[u] # "touch"
    BY <2>2
  <2> QED  BY <2>1, <2>2, <2>3
<1>5. ASSUME NEW t \in Threads,
             MonitorEnter(t) \/ MonitorFirstCheck(t) \/ MonitorPoll(t) \/ MonitorClear(t)
      PROVE  FileInv'
  BY <1>5 DEF MonitorEnter, MonitorFirstCheck, MonitorPoll, MonitorClear
<1> QED
  BY <1>1, <1>2, <1>3, <1>4, <1>5
  DEF Next, Connect, Query, Register, CreateQueue, Deliver, PowerChange, Monitor, vars

(* Only two threads past the test together cost a live monitor its file. *)
THEOREM FileKept == SafeSpec => FileLostOnlyInRace
<1>1. Init => FileInv
  BY DEF Init, FileInv, HasFile, Past
<1>2. TypeOK /\ FileInv /\ ~Racing /\ [Next]_vars => FileInv'
  BY FileStep
<1>3. FileInv => (faults = 0 => HasFile)
  BY DEF FileInv
<1> QED  BY <1>1, <1>2, <1>3, TypeCorrect, PTL DEF SafeSpec, FileLostOnlyInRace

-----------------------------------------------------------------------------
(* A mode is requested only when the previous one has been published. *)
LEMMA RequestStep ==
    ASSUME TypeOK, FlagInv, faults = 0, Idle, UNCHANGED <<files, faults>>,
           NEW m \in Modes, Target' = m
    PROVE  Abstract!Request(m)
<1>1. Target \in Modes => Pair = {Abstract!FlagOf(Target)}
  BY FlagsDiffer DEF FlagInv, SettledFlagUp, StaleFlagGone, Settled, Pair, SetFlag,
                     Abstract!FlagOf
<1>2. UNCHANGED Pair
  BY DEF Pair
<1> QED  BY <1>1, <1>2 DEF Abstract!Request, Abstract!Quiet, Abstract!Modes, Modes

\* While one caller is in setModeSettings, its mode is the one last requested.
LEMMA TargetOf ==
    ASSUME Control, NEW c \in Callers, step[c] # "idle"
    PROVE  Target = mode[c] /\ mode[c] \in Modes
BY DEF Control, Target, Callers, Modes, NoMode

LEMMA CreateStep ==
    ASSUME TypeOK, Control, NEW c \in Callers, Create(c), faults = 0, UNCHANGED faults
    PROVE  Abstract!Publish \/ UNCHANGED Abstract!vars
<1>1. /\ files' = files \cup {SetFlag(mode[c])}
      /\ UNCHANGED mode
  BY DEF Create, Fault
<1>2. Target = mode[c] /\ mode[c] \in Modes /\ UNCHANGED Target
  BY <1>1, TargetOf DEF Create, Target
<1>3. Pair' = Pair \cup {SetFlag(Target)}
  BY <1>1, <1>2, FlagsDiffer DEF Pair
<1> QED
  BY <1>2, <1>3 DEF Abstract!Publish, Abstract!vars, Abstract!FlagOf, Abstract!Modes,
                    Modes, SetFlag

LEMMA DeleteStep ==
    ASSUME TypeOK, Control, FlagInv, NEW c \in Callers, Delete(c), faults = 0,
           UNCHANGED faults
    PROVE  Abstract!Retire \/ UNCHANGED Abstract!vars
<1>1. /\ files' = files \ {DeleteFlag(mode[c])}
      /\ UNCHANGED mode
      /\ SetFlag(mode[c]) \in files
  BY DEF Delete, FlagInv, NewFlagUp
<1>2. Target = mode[c] /\ mode[c] \in Modes /\ UNCHANGED Target
  BY <1>1, TargetOf DEF Delete, Target
<1>3. Pair' = {SetFlag(Target)} /\ SetFlag(Target) \in Pair
  BY <1>1, <1>2, FlagsDiffer DEF Pair
<1> QED
  BY <1>2, <1>3 DEF Abstract!Retire, Abstract!vars, Abstract!FlagOf, Abstract!Modes,
                    Modes, SetFlag

(* Every interleaving of main, the callback and the monitor threads publishes
   the modes as ModeFlags does, until a system call fails. *)
THEOREM Implementation == SafeSpec => Abstract!SafeSpec
<1>1. Init => Abstract!Init
  BY DEF Init, Abstract!Init, Pair, Target, Callers
<1>2. /\ TypeOK /\ Control /\ FlagInv /\ [Next]_vars
      => [Abstract!Next]_(Abstract!vars)
  <2> SUFFICES ASSUME TypeOK, Control, FlagInv, [Next]_vars
               PROVE  [Abstract!Next]_(Abstract!vars)
    OBVIOUS
  <2> SUFFICES ASSUME faults' = 0 PROVE [Abstract!Next]_(Abstract!vars)
    BY DEF Abstract!Next, Abstract!Break
  <2> faults = 0 /\ UNCHANGED faults
    BY FaultsCounted
  <2>1. CASE UNCHANGED <<Pair, Target>>
    BY <2>1 DEF Abstract!vars
  <2>2. CASE Connect \/ Register \/ CreateQueue
    BY <2>1, <2>2 DEF Connect, Register, CreateQueue, Pair, Target
  <2>3. CASE Query
    <3>1. CASE UNCHANGED <<step, mode>>
      BY <2>1, <2>3, <3>1 DEF Query, Pair, Target
    <3>2. CASE BeginSettings("main", ModeOf(powerState))
      <4>1. Idle /\ mode["callback"] = NoMode
        BY <2>3 DEF Query, Control, Idle, Callers
      <4>2. Target' = ModeOf(powerState)
        BY <3>2, <4>1 DEF BeginSettings, Target, TypeOK, Callers
      <4>3. Abstract!Request(ModeOf(powerState))
        BY <2>3, <4>1, <4>2, RequestStep DEF Query, ModeOf, Modes
      <4> QED  BY <4>3 DEF Abstract!Next, Abstract!Modes, ModeOf
    <3> QED  BY <2>3, <3>1, <3>2 DEF Query
  <2>4. CASE Deliver
    <3>1. Idle
      BY <2>4 DEF Deliver, Control, Idle, Callers
    <3>2. Target' = ModeOf(gpowerState')
      BY <2>4 DEF Deliver, BeginSettings, Target, TypeOK, Callers, NoMode, ModeOf
    <3>3. Abstract!Request(ModeOf(gpowerState'))
      BY <2>4, <3>1, <3>2, RequestStep DEF Deliver, ModeOf, Modes
    <3> QED  BY <3>3 DEF Abstract!Next, Abstract!Modes, ModeOf
  <2>5. CASE Crash
    BY <2>5 DEF Crash, ProcessEnds, Target, Pair, Callers, Abstract!Next, Abstract!Abandon
  <2>6. ASSUME NEW c \in Callers, Settings(c)
        PROVE  [Abstract!Next]_(Abstract!vars)
    <3>1. CASE Spawn(c)
      BY <2>1, <3>1 DEF Spawn, Pair, Target
    <3>2. CASE Create(c)
      BY <3>2, CreateStep DEF Abstract!Next
    <3>3. CASE Delete(c)
      BY <3>3, DeleteStep DEF Abstract!Next
    <3> QED  BY <2>6, <3>1, <3>2, <3>3 DEF Settings
  <2>7. ASSUME NEW t \in Threads, Monitor(t)
        PROVE  [Abstract!Next]_(Abstract!vars)
    BY <2>1, <2>7 DEF Monitor, MonitorEnter, MonitorTouch, MonitorFirstCheck,
                      MonitorPoll, MonitorClear, Pair, FlagPair, Target
  <2>8. ASSUME NEW s \in PowerStates, PowerChange(s)
        PROVE  [Abstract!Next]_(Abstract!vars)
    BY <2>1, <2>8 DEF PowerChange, Pair, Target
  <2>9. CASE UNCHANGED vars
    BY <2>1, <2>9 DEF vars, Pair, Target
  <2> QED
    BY <2>2, <2>3, <2>4, <2>5, <2>6, <2>7, <2>8, <2>9 DEF Next
<1> QED
  BY <1>1, <1>2, TypeCorrect, ControlInvariant, FlagInvariant, PTL
  DEF SafeSpec, Abstract!SafeSpec
=============================================================================
