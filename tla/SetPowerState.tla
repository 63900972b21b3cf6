---------------------------- MODULE SetPowerState ----------------------------
(***************************************************************************)
(* SetPowerState (iarm_set_powerstate/IARM_BUS_SetPowerStatus.c), several  *)
(* of them run side by side as the NOP argument is meant for, against one  *)
(* PowerManager.                                                           *)
(*                                                                         *)
(* A process has three kinds of thread: main, the library's event thread   *)
(* that runs onPowerModePreChangeEvent, and one asyncThreadMain per event  *)
(* of a client with a delayed ack.  They share the Controller structure    *)
(* without a lock.  Time is abstracted: a sleep ends at any moment.  Of    *)
(* the library we assume that UnRegister waits for a callback that is      *)
(* running, and of pthread_create that it succeeds.                        *)
(***************************************************************************)
EXTENDS PowerManager

CONSTANTS
    Options,          \* the command lines each process may be given, parsed
    Retries,          \* the polls runDelay makes for a transaction
    NoClient          \* clientId before AddPowerModePreChangeClient returns

CommandLines ==
    [named : BOOLEAN,                 \* --client was given
     ack : {-1, 0, 1},                \* none, quick, delayed
     delays : Nat,                    \* how many positive numbers --delay lists
     nop : BOOLEAN]                   \* the state asked for is NOP

ASSUME OptionsAssumption == Options \in [Clients -> SUBSET CommandLines]

ASSUME RetriesAssumption == Retries \in Nat

ASSUME NoClientAssumption == NoClient \notin Clients

VARIABLES
    opt,              \* each process's options
    pc,               \* where its main is
    clientId,         \* controller.clientId
    transactionId,    \* controller.transactionId, 0 until the first event
    asyncThread,      \* controller.asyncThread: the event whose thread it names, or 0
    running,          \* the events whose asyncThreadMain is still running
    joining,          \* the thread main waits for in pthread_join, or 0
    retry,            \* polls left in runDelay; 0 when it has returned
    delays,           \* delays left in runDelay
    handling          \* the event being handled by the callback, or 0

procVars == <<opt, pc, clientId, transactionId, asyncThread, running, joining,
              retry, delays, handling>>
vars == <<pmVars, procVars>>

Steps == {"connect", "register", "add", "added", "request", "poll", "delay",
          "join", "joining", "remove", "unregister", "term", "exit", "done"}

TypeOK ==
    /\ PMTypeOK
    /\ opt \in [Clients -> CommandLines]
    /\ pc \in [Clients -> Steps]
    /\ clientId \in [Clients -> Clients \cup {NoClient}]
    /\ transactionId \in [Clients -> 0 .. tid]
    /\ asyncThread \in [Clients -> 0 .. tid]
    /\ running \in [Clients -> SUBSET (1 .. tid)]
    /\ joining \in [Clients -> 0 .. tid]
    /\ retry \in [Clients -> 0 .. Retries]
    /\ delays \in [Clients -> Nat]
    /\ handling \in [Clients -> 0 .. tid]

Init ==
    /\ PMInit
    /\ opt \in {o \in [Clients -> UNION {Options[p] : p \in Clients}] :
                  \A p \in Clients : o[p] \in Options[p]}
    /\ pc = [p \in Clients |-> "connect"]
    /\ clientId = [p \in Clients |-> NoClient]
    /\ transactionId = [p \in Clients |-> 0]
    /\ asyncThread = [p \in Clients |-> 0]
    /\ running = [p \in Clients |-> {}]
    /\ joining = [p \in Clients |-> 0]
    /\ retry = [p \in Clients |-> Retries]
    /\ delays = [p \in Clients |-> opt[p].delays]
    /\ handling = [p \in Clients |-> 0]

\* main moves from one place to another.
Goto(p, from, to) ==
    /\ pc[p] = from
    /\ pc' = [pc EXCEPT ![p] = to]

-----------------------------------------------------------------------------
(* initController *)

\* A failed attempt sleeps 100 ms and tries again: it leaves the state alone.
Connect(p) ==
    /\ plugin = "active"
    /\ Goto(p, "connect", "register")
    /\ UNCHANGED <<pmVars, opt, clientId, transactionId, asyncThread, running,
                   joining, retry, delays, handling>>

RegisterCallback(p) ==
    /\ Goto(p, "register", IF opt[p].named THEN "add" ELSE "request")
    /\ PMRegister(p)
    /\ UNCHANGED <<opt, clientId, transactionId, asyncThread, running, joining,
                   retry, delays, handling>>

\* PowerManager engages the client ...
AddClient(p) ==
    /\ Goto(p, "add", "added")
    /\ PMAddClient(p)
    /\ UNCHANGED <<opt, clientId, transactionId, asyncThread, running, joining,
                   retry, delays, handling>>

\* ... or is down; the result is ignored, and clientId stays what it was, ...
AddFails(p) ==
    /\ plugin = "inactive"
    /\ Goto(p, "add", "request")
    /\ UNCHANGED <<pmVars, opt, clientId, transactionId, asyncThread, running,
                   joining, retry, delays, handling>>

\* ... and the id reaches the controller when the call returns.
AddReturns(p) ==
    /\ Goto(p, "added", "request")
    /\ clientId' = [clientId EXCEPT ![p] = p]
    /\ UNCHANGED <<pmVars, opt, transactionId, asyncThread, running, joining,
                   retry, delays, handling>>

-----------------------------------------------------------------------------
(* main and runDelay *)

\* A request that fails is printed and forgotten; NOP makes none.
Request(p) ==
    /\ Goto(p, "request", "poll")
    /\ \/ /\ ~opt[p].nop
          /\ PMRequest
       \/ UNCHANGED pmVars
    /\ UNCHANGED <<opt, clientId, transactionId, asyncThread, running, joining,
                   retry, delays, handling>>

\* Mutant: one poll too many.
Poll_OneMore(p) ==
    /\ pc[p] = "poll"
    /\ transactionId[p] = 0
    /\ retry[p] >= 0
    /\ retry' = [retry EXCEPT ![p] = @ - 1]
    /\ UNCHANGED <<pmVars, opt, pc, clientId, transactionId, asyncThread, running,
                   joining, delays, handling>>

\* Mutant: the polls are not counted.
Poll_Forever(p) ==
    /\ pc[p] = "poll"
    /\ transactionId[p] = 0
    /\ retry[p] > 0
    /\ UNCHANGED vars

Poll(p) ==
    /\ pc[p] = "poll"
    /\ transactionId[p] = 0
    /\ retry[p] > 0
    /\ retry' = [retry EXCEPT ![p] = @ - 1]
    /\ UNCHANGED <<pmVars, opt, pc, clientId, transactionId, asyncThread, running,
                   joining, delays, handling>>

\* Mutant: the delays are asked for whether or not an event has come.
PollEnds_Unchecked(p) ==
    /\ transactionId[p] > 0 \/ retry[p] = 0
    /\ Goto(p, "poll", "delay")
    /\ retry' = [retry EXCEPT ![p] = 0]
    /\ UNCHANGED <<pmVars, opt, clientId, transactionId, asyncThread, running,
                   joining, delays, handling>>

\* An event has come, or the last poll found none: no event, no delays.
PollEnds(p) ==
    /\ transactionId[p] > 0 \/ retry[p] = 0
    /\ Goto(p, "poll", IF transactionId[p] > 0 THEN "delay" ELSE "join")
    /\ retry' = [retry EXCEPT ![p] = 0]
    /\ UNCHANGED <<pmVars, opt, clientId, transactionId, asyncThread, running,
                   joining, delays, handling>>

\* PowerManager puts off a deadline: nothing the model keeps changes but the count.
DelayPowerModeChange(p) ==
    /\ pc[p] = "delay"
    /\ delays[p] > 0
    /\ delays' = [delays EXCEPT ![p] = @ - 1]
    /\ UNCHANGED <<pmVars, opt, pc, clientId, transactionId, asyncThread, running,
                   joining, retry, handling>>

\* The delays are through, and so is the sleep of --await.
DelaysDone(p) ==
    /\ delays[p] = 0
    /\ Goto(p, "delay", "join")
    /\ UNCHANGED <<pmVars, opt, clientId, transactionId, asyncThread, running,
                   joining, retry, delays, handling>>

-----------------------------------------------------------------------------
(* terminateController *)

\* Mutant: the callback is unregistered by a client that is still engaged.
AfterJoin_SkipsRemove(p) == "unregister"

AfterJoin(p) == IF opt[p].named THEN "remove" ELSE "unregister"

\* Mutant: the client is removed only where a thread was joined.
Join_OnlyThreads(p) ==
    /\ Goto(p, "join", IF asyncThread[p] = 0 THEN "unregister" ELSE "joining")
    /\ joining' = [joining EXCEPT ![p] = asyncThread[p]]
    /\ UNCHANGED <<pmVars, opt, clientId, transactionId, asyncThread, running,
                   retry, delays, handling>>

Join(p) ==
    /\ Goto(p, "join", IF asyncThread[p] = 0 THEN AfterJoin(p) ELSE "joining")
    /\ joining' = [joining EXCEPT ![p] = asyncThread[p]]
    /\ UNCHANGED <<pmVars, opt, clientId, transactionId, asyncThread, running,
                   retry, delays, handling>>

Joined(p) ==
    /\ joining[p] \notin running[p]
    /\ Goto(p, "joining", AfterJoin(p))
    /\ joining' = [joining EXCEPT ![p] = 0]
    /\ UNCHANGED <<pmVars, opt, clientId, transactionId, asyncThread, running,
                   retry, delays, handling>>

\* Mutant: the id AddPowerModePreChangeClient returned is not used.
RemoveClient_NoId(p) ==
    /\ Goto(p, "remove", "unregister")
    /\ PMRemoveClient(NoClient)
    /\ UNCHANGED <<opt, clientId, transactionId, asyncThread, running, joining,
                   retry, delays, handling>>

RemoveClient(p) ==
    /\ Goto(p, "remove", "unregister")
    /\ PMRemoveClient(clientId[p])
    /\ UNCHANGED <<opt, clientId, transactionId, asyncThread, running, joining,
                   retry, delays, handling>>

UnRegisterCallback(p) ==
    /\ handling[p] = 0
    /\ Goto(p, "unregister", "term")
    /\ PMUnRegister(p)
    /\ UNCHANGED <<opt, clientId, transactionId, asyncThread, running, joining,
                   retry, delays, handling>>

\* PowerController_Term
Term(p) ==
    /\ Goto(p, "term", "exit")
    /\ UNCHANGED <<pmVars, opt, clientId, transactionId, asyncThread, running,
                   joining, retry, delays, handling>>

\* main returns: the process ends, with whatever thread is left and its memory.
Exit(p) ==
    /\ Goto(p, "exit", "done")
    /\ running' = [running EXCEPT ![p] = {}]
    /\ asyncThread' = [asyncThread EXCEPT ![p] = 0]
    /\ transactionId' = [transactionId EXCEPT ![p] = 0]
    /\ clientId' = [clientId EXCEPT ![p] = NoClient]
    /\ UNCHANGED <<pmVars, opt, joining, retry, delays, handling>>

-----------------------------------------------------------------------------
(* onPowerModePreChangeEvent, on the library's event thread *)

EventBegins(p) ==
    /\ handling[p] = 0
    /\ events[p] # <<>>
    /\ handling' = [handling EXCEPT ![p] = Head(events[p])]
    /\ transactionId' = [transactionId EXCEPT ![p] = Head(events[p])]
    /\ events' = [events EXCEPT ![p] = Tail(@)]
    /\ UNCHANGED <<plugin, restarts, tid, engaged, waiting, callbacks, opt, pc, clientId,
                   asyncThread, running, joining, retry, delays>>

\* A quick ack is sent from the callback, a delayed one by a thread of its own.
EventEnds(p) ==
    /\ handling[p] # 0
    /\ handling' = [handling EXCEPT ![p] = 0]
    /\ \/ /\ opt[p].ack = 0
          /\ PMComplete(clientId[p], handling[p])
          /\ UNCHANGED <<asyncThread, running>>
       \/ /\ opt[p].ack > 0
          /\ asyncThread' = [asyncThread EXCEPT ![p] = handling[p]]
          /\ running' = [running EXCEPT ![p] = @ \cup {handling[p]}]
          /\ UNCHANGED <<plugin, restarts, tid, engaged, waiting, callbacks>>
       \/ /\ opt[p].ack < 0
          /\ UNCHANGED <<plugin, restarts, tid, engaged, waiting, callbacks, asyncThread,
                         running>>
    /\ UNCHANGED <<events, opt, pc, clientId, transactionId, joining, retry, delays>>

\* Mutant: the thread goes round again instead of returning.
AsyncAck_NeverReturns(p, t) ==
    /\ t \in running[p]
    /\ PMComplete(clientId[p], transactionId[p])
    /\ UNCHANGED <<procVars, events>>

(* asyncThreadMain: the transaction acknowledged is read when the sleep is over. *)
AsyncAck(p, t) ==
    /\ t \in running[p]
    /\ PMComplete(clientId[p], transactionId[p])
    /\ running' = [running EXCEPT ![p] = @ \ {t}]
    /\ UNCHANGED <<events, opt, pc, clientId, transactionId, asyncThread, joining,
                   retry, delays, handling>>

-----------------------------------------------------------------------------
Main(p) ==
    \/ RegisterCallback(p)
    \/ AddClient(p)
    \/ AddFails(p)
    \/ AddReturns(p)
    \/ Request(p)
    \/ Poll(p)
    \/ PollEnds(p)
    \/ DelayPowerModeChange(p)
    \/ DelaysDone(p)
    \/ Join(p)
    \/ Joined(p)
    \/ RemoveClient(p)
    \/ UnRegisterCallback(p)
    \/ Term(p)
    \/ Exit(p)

Async(p) == \E t \in running[p] : AsyncAck(p, t)

DeadlinePasses == PMTimeout /\ UNCHANGED procVars

PluginGoesDown == PMDown /\ UNCHANGED procVars

PluginComesUp == PMUp /\ UNCHANGED procVars

Next ==
    \/ \E p \in Clients :
        \/ Connect(p)
        \/ Main(p)
        \/ EventBegins(p)
        \/ EventEnds(p)
        \/ Async(p)
    \/ DeadlinePasses
    \/ PluginGoesDown
    \/ PluginComesUp

SafeSpec == Init /\ [][Next]_vars

(***************************************************************************)
(* Threads that can run do.  Connecting depends on PowerManager, and the   *)
(* deadline is left out so that no property leans on it.                   *)
(***************************************************************************)
Fairness ==
    \A p \in Clients :
        /\ WF_vars(Main(p))
        /\ WF_vars(EventBegins(p))
        /\ WF_vars(EventEnds(p))
        /\ WF_vars(Async(p))

Spec == SafeSpec /\ Fairness

-----------------------------------------------------------------------------
(* The rule of power_controller.h (305-306): a client is engaged only while its
   callback is registered, so that it always hears what it must acknowledge. *)
EngagedHasCallback == engaged \subseteq callbacks

(* A process that has exited holds nothing up: whatever it was engaged in, it
   was disengaged from on the way out (terminateController, 138-151). *)
NothingLeftBehind ==
    \A p \in Clients :
        pc[p] = "done" => p \notin engaged \cup waiting \cup callbacks

(* DelayPowerModeChangeBy names a transaction that was announced, never the 0 a
   controller starts with, although the id is read anew for every delay and
   events may never come (157-166). *)
DelayNamesTransaction ==
    [][\A p \in Clients : delays'[p] < delays[p] => transactionId[p] \in 1 .. tid]_vars

(* Once connected, every process comes to its end, however its acks, delays and
   events fall (177-272). *)
AllFinish == \A p \in Clients : pc[p] = "register" ~> pc[p] = "done"

(* No client, whatever it does about acks, holds a power change up for good,
   even if PowerManager's own deadline never came. *)
ChangeCompletes == waiting # {} ~> waiting = {}

-----------------------------------------------------------------------------
\* What PowerManager is told of this process and the others.
Contract == INSTANCE PreChangeContract

(* Whatever their acks, delays and events do, and whether or not the plugin
   restarts under them, the processes keep the rules of power_controller.h:
   engaged after registering, disengaged before unregistering, and both in the
   end (initController and terminateController, 111-151). *)
HonoursContract == Contract!Spec

-----------------------------------------------------------------------------
(* "Dispose closes RPC conn, do not make any power manager calls after this":
   no asyncThreadMain acknowledges after PowerController_Term. *)
NoCallAfterTerm ==
    [][\A p \in Clients, t \in 1 .. tid :
          AsyncAck(p, t) => pc[p] # "exit"]_vars

(* PowerModePreChangeComplete carries the "transaction id as received in
   OnPowerModePreChange": the thread started for an event acknowledges it. *)
AckMatchesEvent ==
    [][\A p \in Clients, t \in 1 .. tid :
          AsyncAck(p, t) => transactionId[p] = t]_vars

(* "0: quick ack": once an engaged client with a quick ack has handled the
   current announcement, the power change does not wait for it. *)
QuickAckHeard ==
    \A p \in Clients :
        /\ opt[p].ack = 0
        /\ transactionId[p] = tid
        /\ handling[p] = 0
        => p \notin waiting
=============================================================================
