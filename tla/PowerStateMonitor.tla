-------------------------- MODULE PowerStateMonitor --------------------------
(***************************************************************************)
(* pwr-state-monitor (power-state-monitor/powerStateMonitorMain.c).        *)
(*                                                                         *)
(* Three kinds of thread touch the flag files under /tmp: main, which asks *)
(* PowerManager for the power state once and publishes it; the library's   *)
(* callback thread, which republishes on every power change; and one       *)
(* detached lightsleep_monitor thread per standby request.  The statements *)
(* of setModeSettings and lightsleep_monitor that other threads can see    *)
(* are steps of their own, so that the three interleave as they do in the  *)
(* process.  PowerManager and the delivery of its events are external: one *)
(* callback at a time, in the order of the changes.                        *)
(***************************************************************************)
EXTENDS Integers, Sequences

CONSTANTS
    PowerStates,      \* the power states PowerManager reports
    Threads,          \* the lightsleep_monitor threads that can be alive at once
    MaxChanges,       \* bound on the power changes
    MaxCrashes,       \* bound on the deaths of the process
    MaxFaults         \* bound on the system calls that fail

ASSUME PowerStatesAssumption ==
    PowerStates \subseteq
        {"UNKNOWN", "OFF", "STANDBY", "ON", "LIGHT_SLEEP", "DEEP_SLEEP"}

ASSUME BoundsAssumption ==
    /\ MaxChanges \in Nat
    /\ MaxCrashes \in Nat
    /\ MaxFaults \in Nat

VARIABLES
    powerState,       \* the state of the box, kept by PowerManager
    queue,            \* power changes notified and not yet delivered
    registered,       \* PowerManager knows _lightsleepEventHandler
    main,             \* where main and power_monitor_init are
    step,             \* where each caller of setModeSettings is in it
    mode,             \* the argument of each caller's last setModeSettings
    gpowerState,      \* the static the handler keeps the new state in
    files,            \* the flag files present in /tmp
    thread,           \* where each lightsleep_monitor thread is
    changes, crashes, faults

vars == <<powerState, queue, registered, main, step, mode, gpowerState, files,
          thread, changes, crashes, faults>>

Callers == {"main", "callback"}
NoMode == -1
Modes == {0, 1}
FlagPair == {"power_on", "standby"}
Flags == FlagPair \cup {"lightsleep_on"}

SetFlag(m) == IF m = 1 THEN "power_on" ELSE "standby"
DeleteFlag(m) == IF m = 1 THEN "standby" ELSE "power_on"

\* Mutant: a mode of its own, which setModeSettings does not know, for UNKNOWN.
ModeOf_OwnMode(s) == IF s = "ON" THEN 1 ELSE IF s = "UNKNOWN" THEN 2 ELSE 0

\* power_monitor_init and the handler agree: any known state but ON is standby.
ModeOf(s) == IF s = "ON" THEN 1 ELSE 0

\* Only a standby request starts a lightsleep_monitor.
FirstStep(m) == IF m = 0 THEN "spawn" ELSE "create"

CountersOK ==
    /\ changes \in 0 .. MaxChanges
    /\ crashes \in 0 .. MaxCrashes
    /\ faults \in 0 .. MaxFaults

TypeOK ==
    /\ powerState \in PowerStates
    /\ queue \in Seq(PowerStates)
    /\ registered \in BOOLEAN
    /\ main \in {"connect", "query", "settings", "register", "createQueue", "wait"}
    /\ step \in [Callers -> {"idle", "spawn", "create", "delete"}]
    /\ mode \in [Callers -> Modes \cup {NoMode}]
    /\ gpowerState \in PowerStates \cup {"ON"}
    /\ files \subseteq Flags
    /\ thread \in [Threads -> {"none", "enter", "touch", "firstCheck", "watch", "clear"}]
    /\ CountersOK

Init ==
    /\ powerState \in PowerStates
    /\ queue = <<>>
    /\ registered = FALSE
    /\ main = "connect"
    /\ step = [c \in Callers |-> "idle"]
    /\ mode = [c \in Callers |-> NoMode]
    /\ gpowerState = "ON"
    /\ files = {}
    /\ thread = [t \in Threads |-> "none"]
    /\ changes = 0
    /\ crashes = 0
    /\ faults = 0

\* One more system call fails.
Fault ==
    /\ faults < MaxFaults
    /\ faults' = faults + 1

-----------------------------------------------------------------------------
(* setModeSettings, run by main during start-up and by the callback thread. *)

BeginSettings(c, m) ==
    /\ mode' = [mode EXCEPT ![c] = m]
    /\ step' = [step EXCEPT ![c] = FirstStep(m)]

\* Mutant: .power_on is removed before the monitor starts, so that it cannot see it.
Spawn_RemovesFirst(c) ==
    /\ step[c] = "spawn"
    /\ step' = [step EXCEPT ![c] = "create"]
    /\ files' = files \ {"power_on"}
    /\ \/ \E t \in Threads :
            /\ thread[t] = "none"
            /\ thread' = [thread EXCEPT ![t] = "enter"]
       \/ UNCHANGED thread
    /\ UNCHANGED <<powerState, queue, registered, main, mode, gpowerState,
                   changes, crashes, faults>>

\* pthread_create starts a monitor, or fails and standby is published without one.
Spawn(c) ==
    /\ step[c] = "spawn"
    /\ step' = [step EXCEPT ![c] = "create"]
    /\ \/ \E t \in Threads :
            /\ thread[t] = "none"
            /\ thread' = [thread EXCEPT ![t] = "enter"]
       \/ UNCHANGED thread
    /\ UNCHANGED <<powerState, queue, registered, main, mode, gpowerState, files,
                   changes, crashes, faults>>

\* Mutant: a failed fopen returns, and the flag of the other mode stays.
Create_ReturnsOnFailure(c) ==
    /\ step[c] = "create"
    /\ \/ /\ files' = files \cup {SetFlag(mode[c])}
          /\ step' = [step EXCEPT ![c] = "delete"]
          /\ UNCHANGED <<main, faults>>
       \/ /\ Fault
          /\ step' = [step EXCEPT ![c] = "idle"]
          /\ main' = IF c = "main" THEN "register" ELSE main
          /\ UNCHANGED files
    /\ UNCHANGED <<powerState, queue, registered, mode, gpowerState, thread,
                   changes, crashes>>

\* fopen(setFlag, "w+"); a failure is printed and the deletion follows all the same.
Create(c) ==
    /\ step[c] = "create"
    /\ step' = [step EXCEPT ![c] = "delete"]
    /\ \/ /\ files' = files \cup {SetFlag(mode[c])}
          /\ UNCHANGED faults
       \/ /\ Fault
          /\ UNCHANGED files
    /\ UNCHANGED <<powerState, queue, registered, main, mode, gpowerState, thread,
                   changes, crashes>>

\* Mutant: .power_on is never removed.
Delete_OnlyStandby(c) ==
    /\ step[c] = "delete"
    /\ step' = [step EXCEPT ![c] = "idle"]
    /\ files' = IF mode[c] = 1 THEN files \ {"standby"} ELSE files
    /\ main' = IF c = "main" THEN "register" ELSE main
    /\ UNCHANGED <<powerState, queue, registered, mode, gpowerState, thread,
                   changes, crashes, faults>>

\* remove(deleteFlag), and setModeSettings returns to its caller.
Delete(c) ==
    /\ step[c] = "delete"
    /\ step' = [step EXCEPT ![c] = "idle"]
    /\ files' = files \ {DeleteFlag(mode[c])}
    /\ main' = IF c = "main" THEN "register" ELSE main
    /\ UNCHANGED <<powerState, queue, registered, mode, gpowerState, thread,
                   changes, crashes, faults>>

-----------------------------------------------------------------------------
(* main and power_monitor_init. *)

\* Mutant: the handler is registered before power_monitor_init publishes the state.
Connect_RegistersFirst ==
    /\ main = "connect"
    /\ main' = "query"
    /\ registered' = TRUE
    /\ UNCHANGED <<powerState, queue, step, mode, gpowerState, files, thread,
                   changes, crashes, faults>>

\* A failed attempt sleeps 100 ms and tries again: it leaves the state alone.
Connect ==
    /\ main = "connect"
    /\ main' = "query"
    /\ UNCHANGED <<powerState, queue, registered, step, mode, gpowerState, files,
                   thread, changes, crashes, faults>>

\* PowerController_GetPowerState: publish a known state, give up on any other answer.
Query ==
    /\ main = "query"
    /\ \/ /\ powerState # "UNKNOWN"
          /\ main' = "settings"
          /\ BeginSettings("main", ModeOf(powerState))
       \/ /\ main' = "register"
          /\ UNCHANGED <<step, mode>>
    /\ UNCHANGED <<powerState, queue, registered, gpowerState, files, thread,
                   changes, crashes, faults>>

\* The result of the registration is ignored.
Register ==
    /\ main = "register"
    /\ main' = "createQueue"
    /\ \/ /\ registered' = TRUE
          /\ UNCHANGED faults
       \/ /\ Fault
          /\ UNCHANGED registered
    /\ UNCHANGED <<powerState, queue, step, mode, gpowerState, files, thread,
                   changes, crashes>>

\* The process is gone, its threads with it, and is started afresh; /tmp stays.
ProcessEnds ==
    /\ queue' = <<>>
    /\ registered' = FALSE
    /\ main' = "connect"
    /\ step' = [c \in Callers |-> "idle"]
    /\ mode' = [c \in Callers |-> NoMode]
    /\ gpowerState' = "ON"
    /\ thread' = [t \in Threads |-> "none"]
    /\ UNCHANGED <<powerState, files, changes>>

\* Nothing is ever pushed on the queue main pops from: it waits there for good.
CreateQueue ==
    /\ main = "createQueue"
    /\ main' = "wait"
    /\ UNCHANGED <<powerState, queue, registered, step, mode, gpowerState, files,
                   thread, changes, crashes, faults>>

Crash ==
    /\ main # "connect"
    /\ crashes < MaxCrashes
    /\ crashes' = crashes + 1
    /\ ProcessEnds
    /\ UNCHANGED faults

-----------------------------------------------------------------------------
(* _lightsleepEventHandler, on the library's callback thread. *)

\* Mutant: the state is tested before the static is assigned.
Deliver_TestsOldState ==
    /\ registered
    /\ step["callback"] = "idle"
    /\ queue # <<>>
    /\ queue' = Tail(queue)
    /\ gpowerState' = Head(queue)
    /\ BeginSettings("callback", ModeOf(gpowerState))
    /\ UNCHANGED <<powerState, registered, main, files, thread, changes, crashes, faults>>

Deliver ==
    /\ registered
    /\ step["callback"] = "idle"
    /\ queue # <<>>
    /\ queue' = Tail(queue)
    /\ gpowerState' = Head(queue)
    /\ BeginSettings("callback", ModeOf(gpowerState'))
    /\ UNCHANGED <<powerState, registered, main, files, thread, changes, crashes, faults>>

-----------------------------------------------------------------------------
(* lightsleep_monitor, one detached thread per standby request. *)

\* Mutant: a thread that finds the file leaves by the common end, which removes it.
MonitorEnter_CleansUp(t) ==
    /\ thread[t] = "enter"
    /\ thread' = [thread EXCEPT
                    ![t] = IF "lightsleep_on" \in files THEN "clear" ELSE "touch"]
    /\ UNCHANGED <<powerState, queue, registered, main, step, mode, gpowerState,
                   files, changes, crashes, faults>>

\* /tmp/.lightsleep_on is there: another monitor is running, this one returns.
MonitorEnter(t) ==
    /\ thread[t] = "enter"
    /\ thread' = [thread EXCEPT
                    ![t] = IF "lightsleep_on" \in files THEN "none" ELSE "touch"]
    /\ UNCHANGED <<powerState, queue, registered, main, step, mode, gpowerState,
                   files, changes, crashes, faults>>

\* fopen(TMP_LIGHTSLEEP_ON, "w"), whose failure is ignored.
MonitorTouch(t) ==
    /\ thread[t] = "touch"
    /\ thread' = [thread EXCEPT ![t] = "firstCheck"]
    /\ \/ /\ files' = files \cup {"lightsleep_on"}
          /\ UNCHANGED faults
       \/ /\ Fault
          /\ UNCHANGED files
    /\ UNCHANGED <<powerState, queue, registered, main, step, mode, gpowerState,
                   changes, crashes>>

\* Mutant: the early return forgets to remove /tmp/.lightsleep_on.
MonitorFirstCheck_LeavesFlag(t) ==
    /\ thread[t] = "firstCheck"
    /\ thread' = [thread EXCEPT
                    ![t] = IF "power_on" \in files THEN "none" ELSE "watch"]
    /\ UNCHANGED <<powerState, queue, registered, main, step, mode, gpowerState,
                   files, changes, crashes, faults>>

MonitorFirstCheck(t) ==
    /\ thread[t] = "firstCheck"
    /\ thread' = [thread EXCEPT
                    ![t] = IF "power_on" \in files THEN "clear" ELSE "watch"]
    /\ UNCHANGED <<powerState, queue, registered, main, step, mode, gpowerState,
                   files, changes, crashes, faults>>

\* Mutant: the loop returns without removing /tmp/.lightsleep_on.
MonitorPoll_LeavesFlag(t) ==
    /\ thread[t] = "watch"
    /\ "power_on" \in files
    /\ thread' = [thread EXCEPT ![t] = "none"]
    /\ UNCHANGED <<powerState, queue, registered, main, step, mode, gpowerState,
                   files, changes, crashes, faults>>

\* After each sleep(60); a look that finds no .power_on leaves the state alone.
MonitorPoll(t) ==
    /\ thread[t] = "watch"
    /\ "power_on" \in files
    /\ thread' = [thread EXCEPT ![t] = "clear"]
    /\ UNCHANGED <<powerState, queue, registered, main, step, mode, gpowerState,
                   files, changes, crashes, faults>>

MonitorClear(t) ==
    /\ thread[t] = "clear"
    /\ thread' = [thread EXCEPT ![t] = "none"]
    /\ files' = files \ {"lightsleep_on"}
    /\ UNCHANGED <<powerState, queue, registered, main, step, mode, gpowerState,
                   changes, crashes, faults>>

-----------------------------------------------------------------------------
\* PowerManager (external) changes the power state and notifies a registered client.
PowerChange(s) ==
    /\ changes < MaxChanges
    /\ s # powerState
    /\ powerState' = s
    /\ queue' = IF registered THEN Append(queue, s) ELSE queue
    /\ changes' = changes + 1
    /\ UNCHANGED <<registered, main, step, mode, gpowerState, files, thread,
                   crashes, faults>>

Settings(c) == Spawn(c) \/ Create(c) \/ Delete(c)

Monitor(t) ==
    \/ MonitorEnter(t)
    \/ MonitorTouch(t)
    \/ MonitorFirstCheck(t)
    \/ MonitorPoll(t)
    \/ MonitorClear(t)

Next ==
    \/ Connect
    \/ Query
    \/ Register
    \/ CreateQueue
    \/ Deliver
    \/ Crash
    \/ \E c \in Callers : Settings(c)
    \/ \E t \in Threads : Monitor(t)
    \/ \E s \in PowerStates : PowerChange(s)

SafeSpec == Init /\ [][Next]_vars

(***************************************************************************)
(* The scheduler runs every thread that can run.  Connecting, crashes and  *)
(* power changes depend on others and are never forced.                    *)
(***************************************************************************)
Fairness ==
    /\ WF_vars(Query)
    /\ WF_vars(Register)
    /\ WF_vars(CreateQueue)
    /\ WF_vars(Deliver)
    /\ \A c \in Callers : WF_vars(Settings(c))
    /\ \A t \in Threads : WF_vars(Monitor(t))

Spec == SafeSpec /\ Fairness

-----------------------------------------------------------------------------
Idle == \A c \in Callers : step[c] = "idle"

\* The mode last requested: the callback's, once it has run, else main's.
Target == IF mode["callback"] # NoMode THEN mode["callback"] ELSE mode["main"]

Pair == files \cap FlagPair

Settled == Idle /\ Target \in Modes

(* setModeSettings takes no lock, and needs none: main calls it before the
   handler is registered, the handler only afterwards (268-272). *)
OneWriter == \E c \in Callers : step[c] = "idle"

(* When no setModeSettings is in progress and no system call has failed, the
   pair of files shows exactly the mode last requested, whichever thread
   requested it and whatever a crash left behind (setModeSettings, 125-167). *)
SettledFlags == Settled /\ faults = 0 => Pair = {SetFlag(Target)}

(* Even when fopen failed, a finished setModeSettings leaves no flag of the
   other mode: the pair never contradicts the mode (154-163). *)
StaleFlagGone == Settled => DeleteFlag(Target) \notin files

(* Once the callback has run, nothing is lost between PowerManager and the files:
   whenever every notification has been handled and no call has failed, the pair
   shows the state the box is in now, however many changes there were and wherever
   the handler was when they came (182-198). *)
CaughtUp ==
    registered /\ mode["callback"] # NoMode /\ queue = <<>> /\ Settled /\ faults = 0
        => Pair = {SetFlag(ModeOf(powerState))}

(* While the process has not crashed, /tmp/.lightsleep_on stands for a live
   monitor that will remove it, although threads check, touch and remove it
   without a lock (67-75, 86, 110). *)
LightsleepOwned ==
    crashes = 0 /\ "lightsleep_on" \in files
        => \E t \in Threads : thread[t] \in {"firstCheck", "watch", "clear"}

\* A monitor that has made its /tmp/.lightsleep_on and not removed it still has it.
HasFile ==
    \A t \in Threads :
        thread[t] \in {"firstCheck", "watch", "clear"} => "lightsleep_on" \in files

\* Two threads have found no file and neither has made one yet (67, 75).
Racing ==
    \E t, u \in Threads : t # u /\ thread[t] = "touch" /\ thread[u] = "touch"

(* A live monitor loses its file in one way only: two threads pass the unlocked
   test (67) together before either has made the file (75), so that both run and
   the first to end removes it under the other (86, 110).  No sequence of power
   changes, restarts and orphaned files does it otherwise. *)
FileLostOnlyInRace == [](~Racing) => [](faults = 0 => HasFile)

(* Passing from one mode to the other, the new flag is created before the old
   one is removed: no step leaves readers without a flag (154, 163). *)
FlagPairNeverEmpties ==
    [][Pair # {} /\ faults' = 0 => Pair' # {}]_vars

(* Once the callback has spoken, the flags end up showing the state of the box
   and keep showing it: no burst of power changes is lost or reordered on its
   way to the files (182-198). *)
FlagsFollowEvents ==
    <>[](registered /\ mode["callback"] # NoMode /\ faults = 0
            => Pair = {SetFlag(ModeOf(powerState))})

(* When the box stays on, every monitor thread ends and /tmp/.lightsleep_on is
   gone, unless a crash orphaned it (78-89, 100-115). *)
MonitorsEnd ==
    <>[]("power_on" \in files /\ crashes = 0)
        => <>[]( /\ "lightsleep_on" \notin files
                 /\ \A t \in Threads : thread[t] = "none")

-----------------------------------------------------------------------------
(* The handler's promise, "invoked whenever the power state changes, and
   updates system flags" (178-179), read as what a client sees: a monitor that
   is up and has nothing left to do shows the state of the box. *)
NoMissedTransition ==
    /\ main = "wait"
    /\ registered
    /\ Settled
    /\ queue = <<>>
    /\ crashes = 0
    /\ faults = 0
    => Pair = {SetFlag(ModeOf(powerState))}

(* A monitor that reports "Box is in Power ON mode" (83) and stands down does
   so when the mode requested is ON. *)
PowerOnReportTruthful ==
    [][\A t \in Threads :
          thread[t] = "firstCheck" /\ thread'[t] = "clear" => Target = 1]_vars

-----------------------------------------------------------------------------
\* The flag pair as the scripts that read it know it.
Abstract ==
    INSTANCE ModeFlags WITH flags <- Pair, target <- Target, broken <- faults # 0

(* As long as no system call fails, the interleaved threads implement the
   publisher of ModeFlags: a flag is always there once one was, and every
   request is carried out. *)
ImplementsModeFlags == Abstract!Spec
=============================================================================
