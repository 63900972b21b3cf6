------------------------- MODULE SetPowerState_proofs -------------------------
(***************************************************************************)
(* Proofs about SetPowerState, for any set of processes, any command lines *)
(* and any number of polls.                                                *)
(***************************************************************************)
EXTENDS SetPowerState, SequenceTheorems, TLAPS

(* Every variable keeps its type: in particular no controller ever holds a
   transaction that was not announced. *)
THEOREM TypeCorrect == SafeSpec => []TypeOK
<1> USE RetriesAssumption, OptionsAssumption, NoClientAssumption
<1>1. Init => TypeOK
  <2> SUFFICES ASSUME Init PROVE TypeOK
    OBVIOUS
  <2>1. opt \in [Clients -> CommandLines]
    BY DEF Init
  <2>2. PMTypeOK
    BY RestartsAssumption DEF Init, PMInit, PMTypeOK
  <2>3. delays \in [Clients -> Nat]
    BY <2>1 DEF Init, CommandLines
  <2> QED  BY <2>1, <2>2, <2>3 DEF Init, PMInit, TypeOK, Steps
<1>2. TypeOK /\ [Next]_vars => TypeOK'
  <2> SUFFICES ASSUME TypeOK, [Next]_vars PROVE TypeOK'
    OBVIOUS
  <2> USE DEF TypeOK, PMTypeOK
  <2>1. ASSUME NEW p \in Clients, Main(p) \/ Connect(p) PROVE TypeOK'
    <3> USE DEF Goto, Steps, pmVars
    <3>1. CASE Connect(p)
      BY <3>1 DEF Connect
    <3>2. CASE RegisterCallback(p)
      BY <3>2 DEF RegisterCallback, PMRegister
    <3>3. CASE AddClient(p)
      BY <3>3 DEF AddClient, PMAddClient
    <3>4. CASE AddReturns(p)
      BY <3>4 DEF AddReturns
    <3>16. CASE AddFails(p)
      BY <3>16 DEF AddFails
    <3>5. CASE Request(p)
      <4>1. CASE UNCHANGED pmVars
        BY <3>5, <4>1 DEF Request
      <4>2. CASE PMRequest
        <5>1. tid' \in Nat /\ 1 .. tid \subseteq 1 .. tid' /\ 0 .. tid \subseteq 0 .. tid'
              /\ tid' \in 1 .. tid'
          BY <4>2 DEF PMRequest
        <5>2. \A q \in Clients : events[q] \in Seq(1 .. tid')
          BY <5>1, SeqMonotonic
        <5>3. \A q \in Clients : Append(events[q], tid') \in Seq(1 .. tid')
          BY <5>1, <5>2, AppendProperties
        <5>4. events' \in [Clients -> Seq(1 .. tid')]
          BY <4>2, <5>2, <5>3 DEF PMRequest
        <5>5. PMTypeOK'
          BY <4>2, <5>1, <5>4 DEF PMRequest
        <5> QED  BY <3>5, <5>1, <5>5 DEF Request
      <4> QED  BY <3>5, <4>1, <4>2 DEF Request
    <3>6. CASE Poll(p)
      <4>1. retry' \in [Clients -> 0 .. Retries]
        BY <3>6 DEF Poll
      <4> QED  BY <3>6, <4>1 DEF Poll
    <3>7. CASE PollEnds(p)
      <4>1. pc' \in [Clients -> Steps] /\ retry' \in [Clients -> 0 .. Retries]
        BY <3>7 DEF PollEnds
      <4> QED  BY <3>7, <4>1 DEF PollEnds
    <3>8. CASE DelayPowerModeChange(p)
      <4>1. delays' \in [Clients -> Nat]
        BY <3>8 DEF DelayPowerModeChange
      <4> QED  BY <3>8, <4>1 DEF DelayPowerModeChange
    <3>9. CASE DelaysDone(p)
      BY <3>9 DEF DelaysDone
    <3>10. CASE Join(p)
      BY <3>10 DEF Join, AfterJoin
    <3>11. CASE Joined(p)
      <4>1. pc' \in [Clients -> Steps]
        BY <3>11 DEF Joined, AfterJoin
      <4>2. joining' \in [Clients -> 0 .. tid]
        BY <3>11 DEF Joined
      <4> QED  BY <3>11, <4>1, <4>2 DEF Joined
    <3>12. CASE RemoveClient(p)
      BY <3>12 DEF RemoveClient, PMRemoveClient
    <3>13. CASE UnRegisterCallback(p)
      <4>1. pc' \in [Clients -> Steps] /\ callbacks' \subseteq Clients
        BY <3>13 DEF UnRegisterCallback, PMUnRegister
      <4>2. events' \in [Clients -> Seq(1 .. tid)]
        BY <3>13, EmptySeq DEF UnRegisterCallback, PMUnRegister
      <4> QED  BY <3>13, <4>1, <4>2 DEF UnRegisterCallback, PMUnRegister
    <3>14. CASE Term(p)
      BY <3>14 DEF Term
    <3>15. CASE Exit(p)
      <4>1. /\ pc' \in [Clients -> Steps]
            /\ clientId' \in [Clients -> Clients \cup {NoClient}]
        BY <3>15 DEF Exit
      <4>2. /\ transactionId' \in [Clients -> 0 .. tid]
            /\ asyncThread' \in [Clients -> 0 .. tid]
            /\ running' \in [Clients -> SUBSET (1 .. tid)]
        BY <3>15 DEF Exit
      <4> QED  BY <3>15, <4>1, <4>2 DEF Exit
    <3> QED
      BY <2>1, <3>1, <3>2, <3>3, <3>4, <3>5, <3>6, <3>7, <3>8, <3>9, <3>10, <3>11,
         <3>12, <3>13, <3>14, <3>15, <3>16 DEF Main
  <2>2. ASSUME NEW p \in Clients, EventBegins(p) PROVE TypeOK'
    <3>1. Head(events[p]) \in 1 .. tid /\ Tail(events[p]) \in Seq(1 .. tid)
      BY <2>2, HeadTailProperties DEF EventBegins
    <3>2. events' \in [Clients -> Seq(1 .. tid)]
      BY <2>2, <3>1 DEF EventBegins
    <3>3. handling' \in [Clients -> 0 .. tid] /\ transactionId' \in [Clients -> 0 .. tid]
      BY <2>2, <3>1 DEF EventBegins
    <3> QED  BY <2>2, <3>2, <3>3 DEF EventBegins
  <2>3. ASSUME NEW p \in Clients, EventEnds(p) PROVE TypeOK'
    <3>1. /\ handling[p] \in 1 .. tid
          /\ handling' \in [Clients -> 0 .. tid]
          /\ UNCHANGED <<plugin, restarts, tid, engaged, callbacks, events, opt, pc,
                         clientId, transactionId, joining, retry, delays>>
      BY <2>3 DEF EventEnds, PMComplete
    <3>2. waiting' \subseteq engaged
      BY <2>3 DEF EventEnds, PMComplete
    <3>3. asyncThread' \in [Clients -> 0 .. tid]
      BY <2>3, <3>1 DEF EventEnds
    <3>4. running' \in [Clients -> SUBSET (1 .. tid)]
      <4>1. CASE running' = [running EXCEPT ![p] = @ \cup {handling[p]}]
        <5>1. running[p] \cup {handling[p]} \subseteq 1 .. tid
          BY <3>1
        <5> QED  BY <4>1, <5>1
      <4>2. CASE UNCHANGED running
        BY <4>2
      <4> QED  BY <2>3, <4>1, <4>2 DEF EventEnds
    <3> QED  BY <3>1, <3>2, <3>3, <3>4
  <2>4. ASSUME NEW p \in Clients, Async(p) PROVE TypeOK'
    <3>1. PICK t \in running[p] : AsyncAck(p, t)
      BY <2>4 DEF Async
    <3>2. waiting' \subseteq engaged
      BY <3>1 DEF AsyncAck, PMComplete
    <3>3. running' \in [Clients -> SUBSET (1 .. tid)]
      BY <3>1 DEF AsyncAck
    <3> QED  BY <3>1, <3>2, <3>3 DEF AsyncAck, PMComplete
  <2>5. CASE DeadlinePasses
    BY <2>5 DEF DeadlinePasses, PMTimeout, procVars
  <2>6. CASE PluginGoesDown
    <3>1. restarts' \in 0 .. MaxRestarts
      BY <2>6, RestartsAssumption DEF PluginGoesDown, PMDown
    <3>2. events' \in [Clients -> Seq(1 .. tid)]
      <4>1. <<>> \in Seq(1 .. tid)
        BY EmptySeq
      <4> QED  BY <2>6, <4>1 DEF PluginGoesDown, PMDown
    <3> QED  BY <2>6, <3>1, <3>2 DEF PluginGoesDown, PMDown, procVars
  <2>7. CASE PluginComesUp
    BY <2>7 DEF PluginComesUp, PMUp, procVars
  <2>8. CASE UNCHANGED vars
    BY <2>8 DEF vars, pmVars, procVars
  <2> QED  BY <2>1, <2>2, <2>3, <2>4, <2>5, <2>6, <2>7, <2>8 DEF Next
<1> QED  BY <1>1, <1>2, PTL DEF SafeSpec
-----------------------------------------------------------------------------
(* Where a process's main is decides what PowerManager can know of it; and once
   AddPowerModePreChangeClient has returned, the controller of a client that is
   still engaged holds the id it will be removed with. *)
Listening == {"add", "added", "request", "poll", "delay", "join", "joining",
              "remove", "unregister"}
Engaging == {"added", "request", "poll", "delay", "join", "joining", "remove"}

Engagement(p) ==
    /\ p \in callbacks <=> pc[p] \in Listening
    /\ p \in engaged => opt[p].named /\ pc[p] \in Engaging
    /\ pc[p] = "add" => opt[p].named
    /\ p \in engaged /\ pc[p] # "added" => clientId[p] = p
    /\ clientId[p] \in {p, NoClient}

EngagementInv == \A p \in Clients : Engagement(p)

LEMMA EngagementInvariant == SafeSpec => []EngagementInv
<1> USE DEF EngagementInv, Engagement, Listening, Engaging
<1>1. Init => EngagementInv
  BY DEF Init, PMInit
<1>2. TypeOK /\ EngagementInv /\ [Next]_vars => EngagementInv'
  <2> SUFFICES ASSUME TypeOK, EngagementInv, [Next]_vars PROVE EngagementInv'
    OBVIOUS
  <2> USE DEF TypeOK, PMTypeOK
  <2>1. ASSUME NEW p \in Clients, Main(p) \/ Connect(p) PROVE EngagementInv'
    <3> USE DEF Goto, pmVars
    <3>1. CASE Connect(p)
      BY <3>1 DEF Connect
    <3>2. CASE RegisterCallback(p)
      BY <3>2 DEF RegisterCallback, PMRegister
    <3>3. CASE AddClient(p)
      BY <3>3 DEF AddClient, PMAddClient
    <3>4. CASE AddReturns(p)
      BY <3>4 DEF AddReturns
    <3>16. CASE AddFails(p)
      BY <3>16 DEF AddFails
    <3>5. CASE Request(p)
      <4>1. UNCHANGED <<engaged, callbacks, opt, clientId>>
        BY <3>5 DEF Request, PMRequest
      <4> QED  BY <3>5, <4>1 DEF Request
    <3>6. CASE Poll(p)
      BY <3>6 DEF Poll
    <3>7. CASE PollEnds(p)
      BY <3>7 DEF PollEnds
    <3>8. CASE DelayPowerModeChange(p)
      BY <3>8 DEF DelayPowerModeChange
    <3>9. CASE DelaysDone(p)
      BY <3>9 DEF DelaysDone
    <3>10. CASE Join(p)
      BY <3>10 DEF Join, AfterJoin
    <3>11. CASE Joined(p)
      BY <3>11 DEF Joined, AfterJoin
    <3>12. CASE RemoveClient(p)
      BY <3>12 DEF RemoveClient, PMRemoveClient
    <3>13. CASE UnRegisterCallback(p)
      BY <3>13 DEF UnRegisterCallback, PMUnRegister
    <3>14. CASE Term(p)
      BY <3>14 DEF Term
    <3>15. CASE Exit(p)
      BY <3>15 DEF Exit
    <3> QED
      BY <2>1, <3>1, <3>2, <3>3, <3>4, <3>5, <3>6, <3>7, <3>8, <3>9, <3>10, <3>11,
         <3>12, <3>13, <3>14, <3>15, <3>16 DEF Main
  <2>2. ASSUME NEW p \in Clients, EventBegins(p) \/ EventEnds(p) \/ Async(p)
        PROVE  EngagementInv'
    BY <2>2 DEF EventBegins, EventEnds, Async, AsyncAck, PMComplete
  <2>3. CASE DeadlinePasses \/ PluginGoesDown \/ PluginComesUp
    BY <2>3 DEF DeadlinePasses, PMTimeout, PluginGoesDown, PMDown, PluginComesUp, PMUp,
                procVars
  <2>4. CASE UNCHANGED vars
    BY <2>4 DEF vars, pmVars, procVars
  <2> QED  BY <2>1, <2>2, <2>3, <2>4 DEF Next
<1> QED  BY <1>1, <1>2, TypeCorrect, PTL DEF SafeSpec

(* A client is engaged only while its callback is registered. *)
THEOREM EngagedAreRegistered == SafeSpec => []EngagedHasCallback
<1>1. TypeOK /\ EngagementInv => EngagedHasCallback
  BY DEF TypeOK, PMTypeOK, EngagementInv, Engagement, EngagedHasCallback, Listening,
         Engaging
<1> QED  BY <1>1, TypeCorrect, EngagementInvariant, PTL

(* A process that has exited holds nothing up. *)
THEOREM ExitReleases == SafeSpec => []NothingLeftBehind
<1>1. TypeOK /\ EngagementInv => NothingLeftBehind
  BY DEF TypeOK, PMTypeOK, EngagementInv, Engagement, NothingLeftBehind, Listening,
         Engaging
<1> QED  BY <1>1, TypeCorrect, EngagementInvariant, PTL

-----------------------------------------------------------------------------
(* The rules of power_controller.h, step by step. *)

\* What a callback or its thread acknowledges is at most its own client.
LEMMA CompleteStep ==
    ASSUME TypeOK, EngagementInv, NEW p \in Clients, NEW t, PMComplete(clientId[p], t)
    PROVE  [Contract!Next]_(Contract!vars)
<1>1. CASE UNCHANGED waiting
  BY <1>1 DEF PMComplete, Contract!vars
<1>2. CASE waiting' = waiting \ {clientId[p]}
  <2>1. CASE p \notin waiting /\ clientId[p] = p
    BY <1>2, <2>1 DEF PMComplete, Contract!vars
  <2>2. CASE p \in waiting /\ clientId[p] = p
    BY <1>2, <2>2 DEF PMComplete, Contract!Next, Contract!Complete
  <2>3. CASE clientId[p] = NoClient
    BY <1>2, <2>3, NoClientAssumption DEF PMComplete, Contract!vars, TypeOK, PMTypeOK
  <2> QED  BY <2>1, <2>2, <2>3 DEF EngagementInv, Engagement
<1> QED  BY <1>1, <1>2 DEF PMComplete

\* The removal of a client PowerManager has forgotten, or never knew, is no step.
LEMMA RemoveStep ==
    ASSUME TypeOK, EngagementInv, NEW p \in Clients, RemoveClient(p)
    PROVE  [Contract!Next]_(Contract!vars)
<1>1. CASE p \in engaged
  <2>1. clientId[p] = p
    BY <1>1 DEF EngagementInv, Engagement, RemoveClient, Goto
  <2> QED  BY <1>1, <2>1 DEF RemoveClient, PMRemoveClient, Contract!Next, Contract!Disengage
<1>2. CASE p \notin engaged
  <2>1. clientId[p] \notin engaged
    BY <1>2, NoClientAssumption DEF EngagementInv, Engagement, TypeOK, PMTypeOK
  <2> QED
    BY <2>1 DEF RemoveClient, PMRemoveClient, Contract!vars, TypeOK, PMTypeOK
<1> QED  BY <1>1, <1>2

(* Any number of processes, under any acks, delays and restarts, keep the
   contract of PreChangeContract. *)
THEOREM ContractKept == SafeSpec => Contract!SafeSpec
<1>1. Init => Contract!Init
  BY DEF Init, PMInit, Contract!Init
<1>2. TypeOK /\ EngagementInv /\ [Next]_vars => [Contract!Next]_(Contract!vars)
  <2> SUFFICES ASSUME TypeOK, EngagementInv, [Next]_vars
               PROVE  [Contract!Next]_(Contract!vars)
    OBVIOUS
  <2>1. ASSUME NEW p \in Clients, Main(p) \/ Connect(p)
        PROVE  [Contract!Next]_(Contract!vars)
    <3>1. CASE RegisterCallback(p)
      <4>1. p \notin callbacks
        BY <3>1 DEF RegisterCallback, Goto, EngagementInv, Engagement, Listening
      <4> QED
        BY <3>1, <4>1 DEF RegisterCallback, PMRegister, Contract!Next, Contract!Register
    <3>2. CASE AddClient(p)
      <4>1. p \in callbacks
        BY <3>2 DEF AddClient, Goto, EngagementInv, Engagement, Listening
      <4> QED
        BY <3>2, <4>1 DEF AddClient, PMAddClient, Contract!Next, Contract!Engage
    <3>3. CASE Request(p)
      BY <3>3 DEF Request, PMRequest, pmVars, Contract!vars, Contract!Next, Contract!Announce
    <3>4. CASE RemoveClient(p)
      BY <3>4, RemoveStep
    <3>5. CASE UnRegisterCallback(p)
      <4>1. p \in callbacks \ engaged
        BY <3>5 DEF UnRegisterCallback, Goto, EngagementInv, Engagement, Listening, Engaging
      <4> QED
        BY <3>5, <4>1 DEF UnRegisterCallback, PMUnRegister, Contract!Next, Contract!UnRegister
    <3>6. CASE UNCHANGED pmVars
      BY <3>6 DEF pmVars, Contract!vars
    <3> QED
      BY <2>1, <3>1, <3>2, <3>3, <3>4, <3>5, <3>6
      DEF Main, Connect, AddReturns, AddFails, Poll, PollEnds, DelayPowerModeChange,
          DelaysDone, Join, Joined, Term, Exit
  <2>2. ASSUME NEW p \in Clients, EventBegins(p)
        PROVE  [Contract!Next]_(Contract!vars)
    BY <2>2 DEF EventBegins, Contract!vars
  <2>3. ASSUME NEW p \in Clients, EventEnds(p)
        PROVE  [Contract!Next]_(Contract!vars)
    BY <2>3, CompleteStep DEF EventEnds, Contract!vars
  <2>4. ASSUME NEW p \in Clients, Async(p)
        PROVE  [Contract!Next]_(Contract!vars)
    BY <2>4, CompleteStep DEF Async, AsyncAck
  <2>5. CASE DeadlinePasses
    BY <2>5 DEF DeadlinePasses, PMTimeout, Contract!Next, Contract!Deadline
  <2>6. CASE PluginGoesDown
    BY <2>6 DEF PluginGoesDown, PMDown, Contract!Next, Contract!Forget
  <2>7. CASE PluginComesUp \/ UNCHANGED vars
    BY <2>7 DEF PluginComesUp, PMUp, vars, pmVars, Contract!vars
  <2> QED  BY <2>1, <2>2, <2>3, <2>4, <2>5, <2>6, <2>7 DEF Next
<1> QED
  BY <1>1, <1>2, TypeCorrect, EngagementInvariant, PTL DEF SafeSpec, Contract!SafeSpec

-----------------------------------------------------------------------------
(* runDelay reaches its loop only with a transaction in hand, and the event
   thread only ever replaces it with another. *)
DelayArmed == \A p \in Clients : pc[p] = "delay" => transactionId[p] > 0

LEMMA DelayArmedInvariant == SafeSpec => []DelayArmed
<1> USE DEF DelayArmed
<1>1. Init => DelayArmed
  BY DEF Init
<1>2. TypeOK /\ DelayArmed /\ [Next]_vars => DelayArmed'
  <2> SUFFICES ASSUME TypeOK, DelayArmed, [Next]_vars PROVE DelayArmed'
    OBVIOUS
  <2> USE DEF TypeOK
  <2>1. ASSUME NEW p \in Clients, Main(p) \/ Connect(p) PROVE DelayArmed'
    <3>1. CASE PollEnds(p)
      BY <3>1 DEF PollEnds, Goto
    <3>2. CASE Exit(p)
      BY <3>2 DEF Exit, Goto
    <3>3. CASE \/ Connect(p) \/ RegisterCallback(p) \/ AddClient(p) \/ AddReturns(p)
               \/ AddFails(p) \/ Request(p) \/ Poll(p) \/ DelayPowerModeChange(p)
               \/ DelaysDone(p)
      BY <3>3 DEF Connect, RegisterCallback, AddClient, AddReturns, AddFails, Request, Poll,
                  DelayPowerModeChange, DelaysDone, Goto
    <3>4. CASE \/ Join(p) \/ Joined(p) \/ RemoveClient(p)
               \/ UnRegisterCallback(p) \/ Term(p)
      BY <3>4 DEF Join, Joined, AfterJoin, RemoveClient, UnRegisterCallback, Term, Goto
    <3> QED  BY <2>1, <3>1, <3>2, <3>3, <3>4 DEF Main
  <2>2. ASSUME NEW p \in Clients, EventBegins(p) PROVE DelayArmed'
    <3>1. Head(events[p]) \in 1 .. tid
      BY <2>2, HeadTailProperties DEF EventBegins, PMTypeOK
    <3> QED  BY <2>2, <3>1 DEF EventBegins, PMTypeOK
  <2>3. ASSUME NEW p \in Clients, EventEnds(p) \/ Async(p) PROVE DelayArmed'
    BY <2>3 DEF EventEnds, Async, AsyncAck
  <2>4. CASE DeadlinePasses \/ PluginGoesDown \/ PluginComesUp \/ UNCHANGED vars
    BY <2>4 DEF DeadlinePasses, PluginGoesDown, PluginComesUp, vars, procVars
  <2> QED  BY <2>1, <2>2, <2>3, <2>4 DEF Next
<1> QED  BY <1>1, <1>2, TypeCorrect, PTL DEF SafeSpec

(* Every DelayPowerModeChangeBy names a transaction that was announced. *)
THEOREM DelaysAreNamed == SafeSpec => DelayNamesTransaction
<1>1. TypeOK /\ DelayArmed /\ [Next]_vars
      => [\A p \in Clients : delays'[p] < delays[p] => transactionId[p] \in 1 .. tid]_vars
  <2> SUFFICES ASSUME TypeOK, DelayArmed, Next, NEW q \in Clients, delays'[q] < delays[q]
               PROVE  transactionId[q] \in 1 .. tid
    OBVIOUS
  <2>1. delays' # delays
    BY DEF TypeOK
  <2>2. PICK p \in Clients : DelayPowerModeChange(p)
    <3>1. ASSUME NEW p \in Clients, Connect(p) \/ Main(p)
          PROVE  DelayPowerModeChange(p)
      BY <2>1, <3>1
      DEF Connect, Main, RegisterCallback, AddClient, AddReturns, AddFails, Request, Poll,
          PollEnds, DelaysDone, Join, Joined, RemoveClient, UnRegisterCallback, Term, Exit
    <3>2. ASSUME NEW p \in Clients, EventBegins(p) \/ EventEnds(p) \/ Async(p)
          PROVE  FALSE
      BY <2>1, <3>2 DEF EventBegins, EventEnds, Async, AsyncAck
    <3>3. ~(DeadlinePasses \/ PluginGoesDown \/ PluginComesUp)
      BY <2>1 DEF DeadlinePasses, PluginGoesDown, PluginComesUp, procVars
    <3> QED  BY <3>1, <3>2, <3>3 DEF Next
  <2>3. p = q
    BY <2>2 DEF DelayPowerModeChange, TypeOK
  <2> QED  BY <2>2, <2>3 DEF DelayPowerModeChange, DelayArmed, TypeOK, PMTypeOK
<1> QED  BY <1>1, TypeCorrect, DelayArmedInvariant, PTL DEF SafeSpec, DelayNamesTransaction

-----------------------------------------------------------------------------
(* Which transaction an ack may name. *)

(* Announcements wait in the order they were made, and none is older than the one
   in hand; threads and the callback answer events that have come. *)
Ordered(p) ==
    /\ \A i, j \in 1 .. Len(events[p]) : i < j => events[p][i] < events[p][j]
    /\ \A i \in 1 .. Len(events[p]) : transactionId[p] < events[p][i]
    /\ running[p] \subseteq 1 .. transactionId[p]
    /\ handling[p] \in 0 .. transactionId[p]
    /\ p \notin callbacks => events[p] = <<>> /\ handling[p] = 0

OrderInv == \A p \in Clients : Ordered(p)

(* The ack of an event may be for a later transaction (SetPowerAck), but never for
   an earlier one, of which PowerManager no longer waits for anybody: what the thread
   reads after its sleep only grows until the process ends (83-91). *)
AckNotEarlier ==
    [][\A p \in Clients, t \in 1 .. tid : AsyncAck(p, t) => t <= transactionId[p]]_vars

\* What leaves a process's events and transaction alone, or drops threads and events.
LEMMA OrderedFrame ==
    ASSUME NEW p \in Clients, Ordered(p), events'[p] \in {events[p], <<>>},
           transactionId'[p] = transactionId[p], handling'[p] = handling[p],
           running'[p] \subseteq running[p], p \notin callbacks' => p \notin callbacks
    PROVE  Ordered(p)'
<1>1. CASE events'[p] = events[p]
  BY <1>1 DEF Ordered
<1>2. CASE events'[p] = <<>>
  <2>1. Len(events'[p]) = 0
    BY <1>2, EmptySeq
  <2> QED  BY <1>2, <2>1 DEF Ordered
<1> QED  BY <1>1, <1>2

\* A new announcement is later than all there were.
LEMMA OrderedAnnounce ==
    ASSUME TypeOK, NEW p \in Clients, Ordered(p), PMRequest,
           UNCHANGED <<transactionId, running, handling>>
    PROVE  Ordered(p)'
<1>1. /\ events[p] \in Seq(1 .. tid) /\ transactionId[p] \in 0 .. tid /\ tid \in Nat
      /\ tid' = tid + 1 /\ callbacks' = callbacks
  BY DEF TypeOK, PMTypeOK, PMRequest
<1>2. CASE p \notin callbacks
  <2>1. events'[p] = events[p]
    BY <1>2 DEF PMRequest
  <2> QED  BY <1>1, <2>1, OrderedFrame
<1>3. CASE p \in callbacks
  <2>1. events'[p] = Append(events[p], tid + 1)
    BY <1>1, <1>3 DEF PMRequest
  <2>2. /\ Len(events[p]) \in Nat
        /\ \A i \in 1 .. Len(events[p]) : events[p][i] \in 1 .. tid
    BY <1>1
  <2>3. /\ Len(events'[p]) = Len(events[p]) + 1
        /\ events'[p][Len(events[p]) + 1] = tid + 1
        /\ \A i \in 1 .. Len(events[p]) : events'[p][i] = events[p][i]
    BY <1>1, <2>1, AppendProperties
  <2>4. \A i \in 1 .. Len(events'[p]) :
            i \in 1 .. Len(events[p]) \/ i = Len(events[p]) + 1
    BY <2>2, <2>3
  <2>5. ASSUME NEW i \in 1 .. Len(events'[p]), NEW j \in 1 .. Len(events'[p]), i < j
        PROVE  events'[p][i] < events'[p][j]
    <3>1. i \in 1 .. Len(events[p])
      BY <2>2, <2>3, <2>5
    <3>2. CASE j \in 1 .. Len(events[p])
      BY <2>3, <2>5, <3>1, <3>2 DEF Ordered
    <3>3. CASE j = Len(events[p]) + 1
      <4>1. events[p][i] \in 1 .. tid
        BY <2>2, <3>1
      <4> QED  BY <1>1, <2>3, <3>1, <3>3, <4>1
    <3> QED  BY <2>4, <3>2, <3>3
  <2>6. ASSUME NEW i \in 1 .. Len(events'[p]) PROVE transactionId[p] < events'[p][i]
    <3>1. CASE i \in 1 .. Len(events[p])
      BY <2>3, <3>1 DEF Ordered
    <3>2. CASE i = Len(events[p]) + 1
      BY <1>1, <2>3, <3>2
    <3> QED  BY <2>4, <3>1, <3>2
  <2> QED  BY <1>1, <1>3, <2>5, <2>6 DEF Ordered
<1> QED  BY <1>2, <1>3

\* The first announcement comes into hand; the others are later.
LEMMA OrderedBegin ==
    ASSUME TypeOK, NEW p \in Clients, Ordered(p), EventBegins(p)
    PROVE  Ordered(p)'
<1>1. /\ events[p] \in Seq(1 .. tid) /\ events[p] # <<>> /\ tid \in Nat
      /\ transactionId[p] \in 0 .. tid
      /\ events'[p] = Tail(events[p])
      /\ transactionId'[p] = Head(events[p]) /\ handling'[p] = Head(events[p])
      /\ UNCHANGED <<running, callbacks>>
  BY DEF TypeOK, PMTypeOK, EventBegins
<1>2. /\ Len(events[p]) \in Nat /\ 1 <= Len(events[p])
      /\ Len(events'[p]) = Len(events[p]) - 1
      /\ Head(events[p]) = events[p][1] /\ events[p][1] \in 1 .. tid
      /\ \A i \in 1 .. Len(events'[p]) : events'[p][i] = events[p][i + 1]
  BY <1>1, HeadTailProperties, EmptySeq
<1>3. transactionId[p] < events[p][1]
  BY <1>2 DEF Ordered
<1>4. \A i \in 1 .. Len(events'[p]) : events[p][1] < events'[p][i]
  BY <1>2 DEF Ordered
<1>5. \A i, j \in 1 .. Len(events'[p]) : i < j => events'[p][i] < events'[p][j]
  BY <1>2 DEF Ordered
<1>6. running'[p] \subseteq 1 .. transactionId'[p]
  BY <1>1, <1>2, <1>3 DEF Ordered
<1>7. p \in callbacks
  BY <1>1 DEF Ordered
<1> QED  BY <1>1, <1>2, <1>4, <1>5, <1>6, <1>7 DEF Ordered

LEMMA OrderInvariant == SafeSpec => []OrderInv
<1>1. Init => OrderInv
  <2> SUFFICES ASSUME Init, NEW p \in Clients PROVE Ordered(p)
    BY DEF OrderInv
  <2>1. events[p] = <<>> /\ Len(events[p]) = 0
    BY EmptySeq DEF Init, PMInit
  <2> QED  BY <2>1 DEF Init, PMInit, Ordered
<1>2. TypeOK /\ EngagementInv /\ OrderInv /\ [Next]_vars => OrderInv'
  <2> SUFFICES ASSUME TypeOK, EngagementInv, [Next]_vars, OrderInv, NEW q \in Clients
               PROVE  Ordered(q)'
    BY DEF OrderInv
  <2>0. Ordered(q)
    BY DEF OrderInv
  <2> USE <2>0, OrderedFrame
  <2>1. ASSUME NEW p \in Clients, Main(p) \/ Connect(p) PROVE Ordered(q)'
    <3>1. CASE \/ Connect(p) \/ AddFails(p) \/ AddReturns(p) \/ Poll(p) \/ PollEnds(p)
               \/ DelayPowerModeChange(p) \/ DelaysDone(p) \/ Join(p) \/ Joined(p)
               \/ Term(p)
      BY <3>1 DEF Connect, AddFails, AddReturns, Poll, PollEnds, DelayPowerModeChange,
                  DelaysDone, Join, Joined, Term, pmVars
    <3>2. CASE RegisterCallback(p) \/ AddClient(p) \/ RemoveClient(p)
      BY <3>2 DEF RegisterCallback, PMRegister, AddClient, PMAddClient, RemoveClient,
                  PMRemoveClient
    <3>3. CASE Request(p)
      <4>1. UNCHANGED <<transactionId, running, handling>> /\ (PMRequest \/ UNCHANGED pmVars)
        BY <3>3 DEF Request
      <4>2. CASE PMRequest
        BY <4>1, <4>2, OrderedAnnounce
      <4>3. CASE UNCHANGED pmVars
        BY <4>1, <4>3 DEF pmVars
      <4> QED  BY <4>1, <4>2, <4>3
    <3>4. CASE UnRegisterCallback(p)
      <4>1. CASE q = p
        <5>1. /\ events'[q] = <<>> /\ handling'[q] = 0 /\ Len(events'[q]) = 0
              /\ UNCHANGED <<transactionId, running>>
          BY <3>4, <4>1, EmptySeq DEF UnRegisterCallback, PMUnRegister, TypeOK, PMTypeOK
        <5> QED  BY <5>1 DEF Ordered, TypeOK
      <4>2. CASE q # p
        BY <3>4, <4>2 DEF UnRegisterCallback, PMUnRegister, TypeOK, PMTypeOK
      <4> QED  BY <4>1, <4>2
    <3>5. CASE Exit(p)
      <4>1. CASE q = p
        <5>1. p \notin callbacks
          BY <3>5 DEF Exit, Goto, EngagementInv, Engagement, Listening
        <5>2. /\ events'[q] = <<>> /\ Len(events'[q]) = 0 /\ handling'[q] = 0
              /\ transactionId'[q] = 0 /\ running'[q] = {}
          BY <3>5, <4>1, <5>1, EmptySeq DEF Exit, pmVars, Ordered, TypeOK
        <5> QED  BY <5>2 DEF Ordered
      <4>2. CASE q # p
        BY <3>5, <4>2 DEF Exit, pmVars, TypeOK
      <4> QED  BY <4>1, <4>2
    <3> QED  BY <2>1, <3>1, <3>2, <3>3, <3>4, <3>5 DEF Main
  <2>2. ASSUME NEW p \in Clients, EventBegins(p) PROVE Ordered(q)'
    <3>1. CASE q = p
      BY <2>2, <3>1, OrderedBegin
    <3>2. CASE q # p
      BY <2>2, <3>2 DEF EventBegins, TypeOK, PMTypeOK
    <3> QED  BY <3>1, <3>2
  <2>3. ASSUME NEW p \in Clients, EventEnds(p) PROVE Ordered(q)'
    <3>1. UNCHANGED <<events, transactionId, callbacks>>
      BY <2>3 DEF EventEnds, PMComplete
    <3>2. CASE q = p
      <4>1. /\ handling'[q] = 0
            /\ running'[q] \subseteq running[q] \cup {handling[q]}
            /\ handling[q] # 0
        BY <2>3, <3>2 DEF EventEnds, TypeOK
      <4>2. handling[q] \in 1 .. transactionId[q]
        BY <4>1 DEF Ordered, TypeOK
      <4>3. running'[q] \subseteq 1 .. transactionId[q] /\ 0 \in 0 .. transactionId[q]
        BY <4>1, <4>2 DEF Ordered, TypeOK
      <4> QED  BY <3>1, <4>1, <4>3 DEF Ordered
    <3>3. CASE q # p
      BY <2>3, <3>1, <3>3 DEF EventEnds, TypeOK
    <3> QED  BY <3>2, <3>3
  <2>4. ASSUME NEW p \in Clients, Async(p) PROVE Ordered(q)'
    BY <2>4 DEF Async, AsyncAck, PMComplete, TypeOK
  <2>5. CASE DeadlinePasses \/ PluginGoesDown \/ PluginComesUp
    BY <2>5 DEF DeadlinePasses, PMTimeout, PluginGoesDown, PMDown, PluginComesUp, PMUp,
                procVars
  <2>6. CASE UNCHANGED vars
    BY <2>6 DEF vars, pmVars, procVars
  <2> QED  BY <2>1, <2>2, <2>3, <2>4, <2>5, <2>6 DEF Next
<1> QED  BY <1>1, <1>2, TypeCorrect, EngagementInvariant, PTL DEF SafeSpec

(* No ack is for an earlier transaction than the event it answers, for any number of
   processes, threads and restarts (asyncThreadMain, 83-91). *)
THEOREM AcksLookForward == SafeSpec => AckNotEarlier
<1>1. TypeOK /\ OrderInv /\ [Next]_vars
      => [\A p \in Clients, t \in 1 .. tid : AsyncAck(p, t) => t <= transactionId[p]]_vars
  BY DEF TypeOK, PMTypeOK, OrderInv, Ordered, AsyncAck
<1> QED  BY <1>1, TypeCorrect, OrderInvariant, PTL DEF SafeSpec, AckNotEarlier
=============================================================================
