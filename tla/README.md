# Formal models of sys_mon_tools

This directory holds TLA+ models of the small programs of sys_mon_tools, the
TLC configurations that check them, and TLAPS proofs about them. Paths below
are relative to the repository root; numbers in parentheses are lines of the
file under discussion.

Run `tlc -config X.cfg M` for the pairs in the table under "Runs", and
`tlapm M.tla` for the modules that end in `_proofs`.

## The system

sys_mon_tools is a set of programs that run on a set-top box beside two
services: the IARM bus (a message bus) and the PowerManager plugin, reached
through the PowerController client library. The programs do not talk to each
other. They meet in three places: PowerManager, with the state it keeps and saves,
the flag files under `/tmp`, and the kernel's input layer. `Box` puts the power
tools together there.

### pwr-state-monitor (`power-state-monitor/powerStateMonitorMain.c`)

* *State.* The flag files `/tmp/.power_on`, `/tmp/.standby` and
  `/tmp/.lightsleep_on`; the static `gpowerState`; detached
  `lightsleep_monitor` threads.
* *Operations.* `power_monitor_init` connects, reads the power state once and
  publishes it with `setModeSettings`; `main` then registers
  `_lightsleepEventHandler`, which publishes every change, and waits for ever
  on a GLib queue nobody pushes to. `setModeSettings(0)` starts a
  `lightsleep_monitor`, which marks `/tmp/.lightsleep_on`, looks for
  `/tmp/.power_on` once a minute and ends when it finds it.
* *Hard.* Three kinds of thread share the files with no lock; the check and the
  creation of `.lightsleep_on` are not atomic; `fopen` and `pthread_create` may
  fail; the files outlive the process.
* *Correct when* exactly the flag of the last requested mode is there, readers
  never find neither flag in passing, every monitor ends once the box is on, and
  `.lightsleep_on` has an owner and is there for every monitor that made it.

### SetPowerState (`iarm_set_powerstate/IARM_BUS_SetPowerStatus.c`)

* *State.* One `Controller` structure (client id, transaction id, ack thread),
  shared by `main`, the library's event thread and the `asyncThreadMain`
  threads, again with no lock.
* *Operations.* `initController` connects, registers the pre-change callback and
  engages the client; `main` asks for the power state; `runDelay` waits for the
  event by polling and asks for the delays; the callback acknowledges at once or
  starts a thread that does so later; `terminateController` joins that thread,
  disengages, unregisters and closes.
* *Hard.* Events may come at any point of the other threads' work, several times
  or never; several SetPowerState processes hold up each other's power change; the
  plugin may be restarted, and then knows none of its clients.
* *Correct when* a client is engaged only while it can hear events, leaves
  nothing engaged behind, delays and acknowledges the transaction it was told
  of, makes no call after `Term`, and always ends.

### keySimulator (`key_simulator/IARM_BUS_UIEventSimulator.c`, `uinput.c`, tables in the headers)

* *State.* The statics the options set; the uinput descriptor and dispatcher.
* *Operations.* Options are parsed in any order; `sendCommand` sends a key down,
  repeats while it is held, and a key up, `repeat` times; `udispatcher`
  translates the key and writes it, with a modifier, to `/dev/uinput`.
* *Hard.* Any write may fail, after which the device is destroyed in the middle
  of an event; modifier order; numbers straight from `atoi`.
* *Correct when* a key is never down without its modifier, nothing is left
  pressed between rounds, the key goes down as often as asked, and a failing
  device never leaves the program hanging or a key stuck.

### IARM_event_sender (`iarm-event-sender/IARM_event_sender.c`)

* *State.* None beyond its arguments and its connection to the bus.
* *Operations.* Dispatch on the number of arguments and the event's name; a table of
  `DSMgr_` events with typed arguments; copies of payloads into fixed buffers;
  one broadcast.
* *Hard.* A payload that is too long is cut, repaired and cut again; what one
  function joins with colons another divides; chains of `if`/`else` depend on four
  build flags; a table of argument types stands far from the handlers.
* *Correct when* each handler gets the arguments its table entry promises, an
  abbreviated text reaches subscribers with a valid end, a command line that
  sends nothing, because it is wrong or because the bus refuses, says why, and the connection to the bus is closed on every path.

### QueryPowerState (`iarm_query_powerstate/IARM_Bus_CheckPowerStatus.c`)

* *State.* Its locals: the answer of PowerController, or a descriptor, the number of
  bytes read and a buffer.
* *Operations.* `-c` asks PowerManager; without a command the state is read from
  the settings file under `/opt`; `-h` prints the usage.
* *Hard.* The box and the file change while it runs; any number of bytes is taken
  for the whole of the settings; descriptor 0 counts as a failure.
* *Correct when* it prints nothing that was not the case while it ran, or says that
  it failed.

### mfr_util (`mfr-utils/sys_mfr_utils.c`)

* *State.* Descriptor 1 and the copy saved of it, the buffer of stdout, the
  connection to the bus, the memory for the call, the answer.
* *Operations.* One option is looked up; stdout goes to `/dev/null` while the bus is
  in use; one call is made; stdout comes back and the answer is printed.
* *Hard.* stdout is buffered, and the buffer is written out when the C library sees
  fit; every call may fail, and most results are ignored; three arrays are kept
  in step by hand.
* *Correct when* the caller reads exactly the outcome of the option it gave, none of
  what the bus library prints, and nothing is held at the end.

### The rest

* **Legacy key simulator** (`key_simulator/IARM_UIEventSimulator.c`): an earlier
  keySimulator without a device, for the platforms before the IARM bus.
* **Stubs** (`stubs/`): headers of the external libraries and empty functions.
  `power_controller.h` is the only documentation of PowerController, and the
  models of PowerManager follow it.
* **Build scripts.** Nothing of them runs on the box.

## Modules

| module | what it is | composed from |
| --- | --- | --- |
| `ModeFlags` | abstract publisher of the two mode flags: new flag before old, always one | |
| `PowerStateMonitor` | pwr-state-monitor, all threads, crashes and failing calls | instantiates `ModeFlags` |
| `PowerStateMonitor_proofs` | its theorems | extends `PowerStateMonitor` |
| `PowerManager` | the calls of PowerController that concern pre-change clients, and restarts of the plugin, as operators | |
| `PreChangeContract` | abstract client of power changes: engaged only while registered, and not for ever | |
| `SetPowerState` | any number of SetPowerState processes with one PowerManager | extends `PowerManager`, instantiates `PreChangeContract` |
| `SetPowerState_proofs` | its theorems | extends `SetPowerState` |
| `QueryPowerState` | one run of QueryPowerState beside a box and a file that change | |
| `Box` | requests, held up by clients, carried out, shown by the flag files, read back | instantiates `PreChangeContract`, `PowerStateMonitor`, `QueryPowerState` |
| `Box_proofs` | its theorems | extends `Box`, instantiates `PowerStateMonitor_proofs` |
| `MfrUtil` | mfr_util with its redirected stdout | |
| `MfrUtil_proofs` | its theorems | extends `MfrUtil` |
| `KeySimulator` | keySimulator with its uinput device | |
| `KeySimulator_proofs` | its theorems | extends `KeySimulator` |
| `EventSender` | IARM_event_sender: every form of command line, every build | |
| `EventSender_proofs` | its theorems | extends `EventSender` |
| `MC...` | the constants TLC needs | |

Operators named `X_Something` after an operator `X` and commented "Mutant" are
`X` with a plausible mistake in it. They are used by no specification: they are
there so that one can put them in `X`'s place and see which property notices.

### How PowerStateMonitor corresponds to the code

`main` is the program counter of `main` and `power_monitor_init`; `step[c]` is the
position of caller `c` (main or callback) in `setModeSettings`, and `mode[c]`
its argument; `thread[t]` is the position of a `lightsleep_monitor`;
`files` is what `/tmp` holds. `setModeSettings` is three actions, as other
threads can see what lies between them: `Spawn` (`pthread_create`), `Create`
(`fopen`) and `Delete` (`remove`). `lightsleep_monitor` is five: the test of
`.lightsleep_on`, its creation, the first look for `.power_on`, the look after
each `sleep(60)`, and the removal. A look that finds nothing leaves the state
alone and is no action. `Crash` ends the process with its threads and starts it
afresh, as the service's supervisor does, with `/tmp` as it was.

External, modelled from the library's interface: PowerManager changes state
at any time (`PowerChange`) and queues a notification for a registered handler;
notifications are delivered one at a time in order (`Deliver`).

### How SetPowerState corresponds to the code

`pc[p]` is the position of `main` of process `p`; `handling[p]` is the event its
callback is in; `running[p]` is the set of ack threads that have not ended,
each named by the event it was started for; `clientId`, `transactionId` and
`asyncThread` are the fields of `Controller`. `AddClient` and `AddReturns` are two
steps of one call: PowerManager engages the client before the caller
has its id. `PowerManager` keeps the last transaction (`tid`), the engaged
clients, those the current change waits for, and the events on their way.
A new request takes the place of the one under way. `PMDown` and `PMUp` are a
restart of the plugin: it loses its clients and the change under way, perhaps also
announcements on their way, while the client library keeps the callbacks. Calls
on a plugin that is down fail, and SetPowerState goes on as its code does
(`AddFails` is the way out of a failed `AddPowerModePreChangeClient`).

`PreChangeContract` is what `power_controller.h` asks of a client, without any of its
reasons: it registers before it engages, disengages before it unregisters, and
does both in the end. `HonoursContract` says that SetPowerState's processes,
whatever their options and threads, are such clients, fairness included.

Time is abstracted: a sleep, the ack delay included, ends at any moment after it
began. `--delay` and `--await` only cost time, so a command line keeps
how many delays it has and not how long they are.

### How QueryPowerState, Box and PowerManager fit together

`QueryPowerState` is one run: `at` is where `main` is, the rest are its locals. What it
asks and reads (`powerState`, `settingsFile`) is external and changes between
any two of its steps. The step that prints also returns, so that the locals do not
outlive `main`.

`Box` owns the state of the box. `Ask` is `PowerController_SetPowerState` by anybody:
it starts a pre-change transaction (`Announce`) and takes the place of a request
not yet carried out. `Apply` is PowerManager carrying out the last request once nobody
is waited for: it changes the state, which is the `PowerChange` of
`PowerStateMonitor` and queues the notification its handler gets. `Save` writes the
settings file some time later. `was` and `saved` are histories: the states the
box and the file have had since the query began.

The clients in `Box` are those of `PreChangeContract`. The product with
`SetPowerState` itself was tried and has many millions of states for the
smallest bounds; since SetPowerState implements the contract, what holds for the
contract's clients holds for it, as far as PowerManager can tell them apart.

### How MfrUtil corresponds to the code

`main` is where `main` is; `stdout` the file behind descriptor 1, `fp_old` the saved
descriptor, `buffer` what was printed and not yet written, `seen` what reached the
caller. `LibraryWrites` writes the buffer out at any moment, as the C library may.
The bus calls may print (`BusCall`). `BusOpen` is `IARM_Bus_Init`,
`IARM_Bus_Connect` and `IARM_Malloc`, all of whose results are ignored;
`BusClose` is `IARM_Free`, `IARM_Bus_Disconnect` and `IARM_Bus_Term`. A pointer no one
has set may end the process (`Crash`). The three arrays are sequences, indexed
from 1 and not from 0.

### How KeySimulator corresponds to the code

`main` is the position in `main` and `sendCommand`; `i` and `j` are its loop
counters; `todo` is what `udispatcher` has still to write for the event being
dispatched, and `value` the value it writes. `pressed` is what the kernel holds
down on the device and `seen` what readers know of it, which differ when the
`SYN` write fails. `Start` takes any set of failing calls in `UINPUT_init` and
follows its `ret`, which each call overwrites: only the last result before a
test counts.

### How EventSender corresponds to the code

One command line is one behaviour. `build` and `argv` are chosen at the start: the
features compiled in, and the event's name with its arguments. The `Start`
actions are the branches of `main` and `handleIARMEvents`, up to the function that
sends; `OpenBus` is the `IARM_Bus_Init` and `IARM_Bus_Connect` all of them begin
with; the `Send` actions are the functions; `CloseBus` is their common end.
`MaintenanceMGR` ends `sendIARMEvent` early and has its own action.

`iarmEventTable` and `Handler` are the table and the 31 handlers: what the
arguments are parsed as, and what the handler reads them as and which field of the
event each goes to. Names are exact or differ in case, because `main` uses
`strcmp` and the functions it calls `g_ascii_strcasecmp`.

A text is known by its length, by the number of non-empty pieces its colons
make of it, and by whether it ends in the JSON termination. A copy that is too
long may be cut anywhere, so its pieces and its end are a choice (`Copies`).
`ShortSize` is the range of `unsigned short full_len`. A missing piece is a null
pointer and kills the program. A broadcast may fail (`Broadcast`); that makes no
difference to what the program does next, but most callers print it (`Reported`),
and `said` is the last complaint printed. The column `looks` of `PayloadIf` says which
of the events with a payload look at the result. With four arguments, other than for
`usbdetected`, the buffer holds bytes nobody ends or, but for `EISSAppIdEvent`, nobody
wrote: its text is any of `Strays`.

`LastIf` is the `if` to which the `else` of the event list belongs in a given build.

## Runs

| configuration | module | expected | what it shows |
| --- | --- | --- | --- |
| `Monitor` | `MCPowerStateMonitor` | holds | type, one writer at a time, settled flags show the mode and, once all notifications are handled, the state of the box, no stale flag, `.lightsleep_on` has an owner and a live monitor loses it only when two threads passed the unlocked test together, readers never find neither flag; flags follow the events, monitors end, the threads implement `ModeFlags` with its fairness |
| `MonitorMissed` | `MCPowerStateMonitor` | violated | a change between query and registration is lost |
| `MonitorStaleOn` | `MCPowerStateMonitor` | violated | a monitor stands down on a stale `.power_on` |
| `SetPower` | `MCSetPowerState` | holds | engaged clients hear, nothing left behind, delays name a transaction, all processes finish, no change is held for good, the contract of `PreChangeContract` is implemented; with a restart of the plugin |
| `SetPowerTerm` | `MCSetPowerState` | violated | an acknowledgement after `PowerController_Term` |
| `SetPowerAck` | `MCSetPowerState` | violated | the wrong transaction acknowledged |
| `SetPowerQuick` | `MCSetPowerState` | violated | a quick ack with client id 0 |
| `KeySim` | `MCKeySimulator` | holds | modifier order, repeats, releases, counts, termination, with failing calls |
| `EventSender` | `MCEventSender` | holds | the bus is released, nothing is passed over in silence but where a result is not looked at, handlers read what was parsed, an abbreviated text arrives whole, the USB forms are complete, arguments go where the usage says |
| `EventOverflow` | `MCEventSender` | violated | a text whose length wraps is sent without termination |
| `MfrUtil` | `MCMfrUtil` | holds | the caller reads the outcome and nothing else, nothing is held at the end |
| `Box` | `MCBox` | holds | requests reach the flag files past clients that hold them up, what is carried out is what the files show, what `-c` prints and what the files show differ only while a change is on its way, the settings printed are ones the file held |

All configurations say `CHECK_DEADLOCK FALSE`: programs end, and the bounded
environment of pwr-state-monitor runs out of changes.

### Bounds, and why they are enough

* *pwr-state-monitor.* Three power states: one for ON, one for the five others
  that mean standby, and UNKNOWN, which start-up ignores but the handler takes for
  standby. Two monitor threads are the fewest that can pass the unlocked test
  together. Three changes (`MaxChanges`) give on-standby-on and
  standby-on-standby bursts; one crash shows every left-over file set; one
  failing call reaches every error branch. The missing-pthread branch needs no
  bound. Threads are model values and are bounded by `Threads`: a standby request
  beyond them goes on without a monitor, like one whose `pthread_create` fails.
* *SetPowerState.* Two processes suffice for one to engage in the other's
  transaction and for a second transaction to overtake the first. Command lines
  cover named and unnamed, no ack, quick and delayed ack, a delay, NOP. The
  code polls five times (`Retries`); one poll already allows an event before,
  between and after them, and the proofs hold for any number. The plugin restarts
  once (`MaxRestarts`), at every point of both processes. The run has 185,685
  states.
* *Box.* One client of the contract holds up two requests (`MaxRequests`), the
  second before or after the first is carried out; two power states, one of them
  the OFF that a cleared buffer reads as. The monitor has no threads to start
  (`Threads` is empty), so each standby request goes on without one, as when
  `pthread_create` fails: `.lightsleep_on` is not what these properties are about,
  and `Monitor` checks it. For the same reason there are no crashes
  and failing calls here. The plugin stays up. 253,866 states.
* *mfr_util.* No bounds: all options, all failures, all moments for the buffer; the
  build with `--PDRIVersion`. The proofs are for both builds.
* *keySimulator.* A plain key, one with a modifier, one without a Linux key; `-1`,
  0 and 2 as numbers; three options in any order; two repeats a "second"
  instead of 20 (`TicksPerSecond`); two failing calls.
* *IARM_event_sender.* All 16 builds and every event name of the table and of the
  payload chain, with each number of arguments `main` tells apart and one more.
  Words are empty, a bool, a text with colons, a text that just fits, one that is
  one too long, and one whose length wraps. The buffer is 8 characters
  (`MaxLen`), which leaves 3 before the abbreviation; the USB buffer 24
  (`LongLen`), so that three or four of the texts fill it; the short has 5 bits
  (`ShortSize`). A text nothing ends is read at most one character past its buffer
  (`MaxStray`): what it says is not what the properties are about. `intrusionData` is as small as is assumed possible (`DataSize` =
  `MaxLen`), the hardest case. The proofs are for all sizes.

### Fairness

* *pwr-state-monitor.* Each thread that can run does (weak fairness of each
  thread's steps, of delivery, and of the looks of a monitor, as `sleep(60)`
  ends). Connecting, crashing and power changes are not forced: they depend on
  others.
* *SetPowerState.* Weak fairness of main, of the callback and of the ack threads
  of each process. Neither connecting nor the plugin's coming up is forced, so
  `AllFinish` starts from a connected process. PowerManager's own deadline is not forced, so
  `ChangeCompletes` does not lean on it.
* *Box.* The fairness of its parts: clients disengage and unregister in the end
  (`PreChangeContract`, which SetPowerState implements with its fairness), the
  monitor's threads run (`PowerStateMonitor`); and PowerManager carries out a
  request that nobody holds up. Without the clients' fairness
  `RequestReachesFlags` fails: PowerManager's own deadline is not forced. The query
  has none, as only its safety is at issue.
* *mfr_util.* None: what it does, not that the bus answers.
* *keySimulator.* One thread that waits for nobody: weak fairness of `Next`.
* *IARM_event_sender.* None: its properties are about what it does, not that it
  ends, which depends on the bus.

## Proofs

The proofs are for every value of the constants: any set of threads and
power states, any number of changes, crashes and failures; any set of
processes, any command lines, any number of polls; any finite key tables and any
numbers; any words and any sizes of the buffers. Every invariant a passing run checks is
proved, and so is every action property.

Assumed: `PowerStatesAssumption` and `BoundsAssumption` (states are those of
`power_controller.h`, bounds are naturals), `StatesAssumption`,
`MonitorAssumption` and `RequestsAssumption` (the same in `Box`);
`RestartsAssumption`; `BuildAssumption` (`--PDRIVersion` is compiled in or not);
`OptionsAssumption`, `RetriesAssumption` and `NoClientAssumption` (command lines are
well formed, the placeholder id is no client); `TablesAssumption` and
`NumbersAssumption` (the key tables name keys and are finite, numbers are
integers); `WordsAssumption`, `CommandLinesAssumption` and `SizesAssumption` (command
lines are sequences of words, the buffers have room for an abbreviation,
`intrusionData` has at least `MaxLen` characters). TLC evaluates them in every run of
their module.

*PowerStateMonitor.* `TypeCorrect` comes first. `SettledFlags` is not inductive:
nothing in it says who may be writing. `Control` relates `main`'s position,
`registered` and both callers' steps: the callback is in
`setModeSettings` only after main has left it, so there is one
writer (`Exclusion`). `FlagInv` then says for each step of that
writer what the pair may hold: anything before `Create`, the new flag from
`Create` on, and not the old one after `Delete`. From the two follow
`FlagsAgree` (`SettledFlags`), `NoStaleFlag` (`StaleFlagGone`) and `AlwaysAFlag`
(`FlagPairNeverEmpties`). `NothingLost` (`CaughtUp`) needs to know what is under way:
`QueueInv` says that the last notification in the queue, or if there is none
the last one handled, is the state of the box. That is the safety half of
`FlagsFollowEvents`, and the only thing that separates it from the violated
`NoMissedTransition` is that the handler must have run once. `OwnerAlive`
(`LightsleepOwned`) is about the other file: the last monitor to touch
`.lightsleep_on` is still alive while it is there, for any number of monitors.
`FileKept` (`FileLostOnlyInRace`) is the other way round, and true only as long as no two
threads are between the test and the creation together (`Racing`, the code's lack of a
lock): `FileInv` says that then one thread at a time is past the creation, with its
file, and one about to create finds none. `Implementation` shows that each step is a step of
`ModeFlags` or a stutter: requests are quiet, creation is `Publish`, removal is
`Retire`, a crash is `Abandon`, a failing call is `Break`, after which `ModeFlags`
promises nothing.

*SetPowerState.* `TypeCorrect` includes that no controller holds a transaction
that was never announced. `EngagedHasCallback` needs to know where in its
main an engaged process can be: `EngagementInv` says that a client is engaged only
between `AddClient` and `RemoveClient`, that it then has a name and its id,
and that the callback stays registered until after that. It gives
`EngagedAreRegistered` and `ExitReleases` (`NothingLeftBehind`). `DelayArmed`
says that main is at the delays only with a transaction in hand, which gives
`DelaysAreNamed` (`DelayNamesTransaction`). `ContractKept` is the safety half of
`HonoursContract`: each call is a step of `PreChangeContract` or a stutter, because
an id handed to PowerManager is that of an engaged client or of none. It holds with
restarts, which are `Forget`. `AcksLookForward` marks the limit of finding 4: an
ack may name a later transaction than the event it answers, but never an earlier one.
It needs `OrderInv`: announcements wait in the order they were made, all later than
the transaction in hand, and every thread answers one that has come. No run of
this directory checks it.

*Box.* `QueryInv` says that what the query has read and not yet printed is in its
history; the others' steps only let the history grow (`WatchGrows`). From it follows
`AnswersWereStored`. `ClientsKeepContract` and
`MonitorIsMonitor` show that the composition restricts its parts and never makes them
do what they could not do alone: with `ContractKept` a SetPowerState process may take
the place of a client, and the theorems about `PowerStateMonitor` hold in `Box`.
`MonitorProved` puts the latter to use: it lets `Box_proofs` cite
`PowerStateMonitor_proofs` instead of proving it again. The monitor's part of
`TypeCorrect` comes that way, and so does `RequestsAreShown` (`RequestShown`): the
flags show the state of the box by `NothingLost` (`FlagsShowBox`), and the state of the
box is the one asked for by `RequestsCarriedOut`. `ObserversSeeOneBox`
(`ObserversAgree`) joins `FlagsShowBox` with `QueryInv`: two observers that learn of the
box by different ways see the same.

*MfrUtil.* `OutcomeTold` is about the end of `main`. `StdoutInv` says for each
position what stdout is and what is still buffered: while the bus is in use nothing
printed can reach the caller, the flush before `dup2` leaves nothing behind, and once
the outcome is decided exactly one line tells it, written out or not (`Told`).
`AnswerInv` adds that an answer kept comes from a call that succeeded, and
`ArraysAgree` that the arrays belong together. They give `CallerSeesNoDebug` and
`CallerToldOutcome`; `EverythingReleased` has an invariant of its own
(`HoldInv`). `TypeCorrect` rests on `IndexInArrays`, the option's index being one of all
three arrays, and on what may be printed (`LinesPrinted`).

*KeySimulator.* `PhaseInv` ties three things together: where `sendCommand` is, what the
event being dispatched still has to write, and what the device holds down. Each
determines the last of them, as long as there is a device: nothing, the key with its
modifier, or the modifier alone on its way in or out. A write that fails destroys the
device, and with it all that is down, so the cases need no failures in them. It
gives `RepeatsOnlyHeld` (`RepeatsWhileHeld`) and `NothingHeldBetween`
(`ReleasedBetweenRounds`). Readers know an earlier state of the device, so
`ModifierAlwaysCovers` (`ModifierCovers`) needs `SeenInv`: what they know was
covered when it was reported. `CountInv` counts the rounds begun against the keys
gone down, per position of `sendCommand`, and gives `SentAsAsked` (`SentAsOften`).
Until the options are read nothing has been sent (`EarlyInv`).

*EventSender.* The tables are proved row by row. `TableFits` says of each of the 31
entries that its types are those its handler reads; `UsageOrdered` says of each of the 16
events with several arguments that the handler's fields are those of the usage in
its order. `DSMgrInv` says what has been parsed and what the handler made of it,
which with the tables gives `HandlersReadWhatIsParsed` (`ArgumentsTyped`) and
`FieldsFollowUsage` (`SentAsInUsage`). `BusInv` says for each position whether the
bus is open (`BusAlwaysReleased`). `NoSilence` (`NothingUnsaid`) goes through the
functions that send (`StatusSaid`, `OthersSaid`, `PayloadSaid`): a send that fails is
reported, unless it is one of the three `PayloadLooks` leaves; what falls through every
`if` is complained about.
`FormInv` says how many pieces the joined payloads have (`Whole`), which
`FormsWhole` adds up from the format strings; a program is killed only for want
of a piece, so `PiecesFound` (`FormsComplete`) follows.
`AbbreviationReachesSubscribers` (`AbbreviationSurvives`) is about what is sent,
but is decided when the payload is made. `PayloadInv` adds that nothing is sent before the
sending step and that, from the end of `main` on, the payload of an overlong
intrusion text is terminated and one shorter than `MaxLen`. The step that matters is
`OverlongAbbreviated`: a length below `ShortSize` survives the
conversion, so the copy is found shorter and is abbreviated; the second copy has
room for it (`CopyOfShort`) because `DataSize` is at least `MaxLen`. Without the
bound `ShortSize` the statement is false (`EventOverflow`).

Only model-checked: everything temporal under fairness (`FlagsFollowEvents`,
`MonitorsEnd`, `AllFinish`, `ChangeCompletes`, `RequestReachesFlags`,
`Terminates`) and the liveness halves of `ImplementsModeFlags` and
`HonoursContract`. They need the semantics of fairness (`ENABLED`), which the prover
does not have.

## Disagreements found

The first six have a run that ends in the counterexample.

1. `powerStateMonitorMain.c` 229/272: the power state is read before the handler
   is registered. A change in between reaches nobody, and the flags stay wrong
   until the next change (`MonitorMissed`).
2. `powerStateMonitorMain.c` 143: the monitor starts before `.power_on` is removed
   and may stand down, reporting power on, while the box goes to standby
   (`MonitorStaleOn`).
3. `IARM_BUS_SetPowerStatus.c` 140-150: an ack thread started after the check of
   `asyncThread` is not joined and may call PowerController after `Term`
   (`SetPowerTerm`).
4. `IARM_BUS_SetPowerStatus.c` 89: the ack thread reads `transactionId` after its
   delay and may acknowledge a later transaction (`SetPowerAck`).
5. `IARM_BUS_SetPowerStatus.c` 131-134: an event handled before the client id is
   stored is acknowledged for client 0 (`SetPowerQuick`).
6. `IARM_event_sender.c` 270: the length of a text is kept in an `unsigned short`; if
   it wraps, the text is cut without the termination it should get
   (`EventOverflow`).
7. `IARM_event_sender.c` 1143: `DSMgr_AudioMode` takes the mode first, while the
   usage (209, 1471) puts the port type first. `Usage` leaves this event out, and
   `SentAsInUsage` holds for the others.
8. `IARM_Bus_CheckPowerStatus.c` 142: a settings file that is cut short reads as OFF.
   `StoredAnswer` says that this is the only case in which QueryPowerState prints a
   state that never was.

9. `IARM_event_sender.c` 532, 547, 582: the results of sending `EISSAppIdEvent`,
   `PeripheralUpgradeEvent` and the maintenance start time are not looked at, where all
   other sends print a failure. `NothingUnsaid` names the three and holds for the others.

Without a run: `UINPUT_init` (`uinput.c` 215) returns 0 on every path, against
`uInputInternal.h` 99-101; and in `sendIARMEvent` (483) "There are no matching IARM sys
events" is also printed after some events that were sent, depending on the build.

## Assumptions about what is not in the repository

* PowerController calls a client's callbacks one at a time, in order, and its
  UnRegister returns only when no callback is running. If it did not wait,
  finding 3 would be easier to reach.
* `pthread_create` succeeds in SetPowerState (its result is not tested);
  in pwr-state-monitor it may fail.
* `remove` fails only when the file is not there.
* A dead pwr-state-monitor is started again.
* When the plugin goes down, it forgets its engaged clients and its transaction, but
  does not give out an id again, and the client library keeps the registered callbacks (`power_controller.h`
  302-303 asks clients to engage again).
* PowerManager carries out the last request only, when no client is waited for, and
  notifies only if the state changes. It saves the state some time afterwards; the
  file may be missing or cut short from the start.
* The bus library prints nothing after `IARM_Bus_Term`, and the C library may write
  out the buffer of stdout at any moment.

## Not modelled

What IARM_event_sender's events
carry beyond the intrusion text and the fields of the `DSMgr_` events; command-line
parsing of SetPowerState; durations, log lines, time stamps; keySimulator's
connection to the bus, which nothing else in it depends on, and its pauses;
PowerManager's behaviour beyond pre-change clients, notifications and the saved
state; a SetPowerState process that is killed (how the plugin notices is not in
the repository); the overflow of `ack * 1000000` in SetPowerState (time is
abstracted); the legacy key simulator, which `Makefile.am` no longer
builds (`Makefile` 30 still names it, for `USE_IARM`) and whose whole effect is in
the CMAF library, which is not in the repository; the stubs, which are empty; the build scripts.

Seen in the code, in the models where they have a place, and not the subject of a
property: a failed SYN write (`uinput.c` 103) may keep a release from readers until the
next event; a `.lightsleep_on` left by a crash keeps every later monitor out, as one
returns when it finds the file (`powerStateMonitorMain.c` 67) and nothing else removes
it; with four arguments `eventPayload` is written only for `EISSAppIdEvent`, and not
ended (`IARM_event_sender.c` 339); a status of 256 is sent as 0 (252); a text of
exactly `IARM_BUS_SYSMGR_Intrusion_MaxLen` characters needs room in `intrusionData`
for its end (505); QueryPowerState takes descriptor 0 for a failure
(`IARM_Bus_CheckPowerStatus.c` 129) and asks without waiting for the connection (92).

## Plan

1. done: pwr-state-monitor, its abstract specification, proofs.
2. done: SetPowerState with PowerManager and its restarts, the contract it
   implements, proofs.
3. done: keySimulator, model-checked.
4. done: `EventSender`, model-checked, its abbreviation proved.
5. done: `QueryPowerState` and `MfrUtil`, proofs.
6. done: `Box`, the power tools together, proofs of its safety.
7. done: proofs of all safety properties of `KeySimulator` and `EventSender`, the types
   of `MfrUtil` and `Box`, and `NothingLost`, carried over to `Box`.
8. done: `AcksLookForward`, the safe side of finding 4.
9. SetPowerState's processes in `Box`, by the theorems alone: what is proved of the
   contract's clients, stated of them.
