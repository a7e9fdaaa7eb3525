# UPS orchestrator: specification and proofs

The UPS orchestrator is a Python service beside NUT. It watches several UPSes and,
when one goes off mains, brings the desktop that hangs on it down in time, shuts the
server itself down (a *primary* UPS) or switches the UPS off (an *observer* UPS).
This directory holds TLA+ modules of it, the TLC runs that check them on small
instances, and proofs that TLAPS checks for every instance.

    tlc -workers 2 -config MC_primary.cfg MCUPSContext
    tlapm UPSContext_safety.tla

| file | what it is |
| --- | --- |
| `UPSContext.tla` | the orchestrator process: all its UPS contexts, their files, and the threads at work on them |
| `Orchestration.tla` | what the contexts promise of each UPS: who may decide what, and how each decision ends |
| `UPSContext_proofs.tla` | proved of it: types, locks, no stale shutdown |
| `UPSContext_safety.tla` | proved of it: workers, roles, no shutdown without an outage, single starts, and that it implements `Orchestration` |
| `CommandChannel.tla` | a command between `command.json`, the server's threads and the desktop agent |
| `CommandChannel_proofs.tla` | proved of it: types, and that no command comes back or is mistaken for another |
| `OutageHistory.tla` | what the outage log promises |
| `OutageLog.tla` | the outage log, file operation by file operation, with crashes |
| `OutageLog_proofs.tla` | proved of it: types, and that it implements `OutageHistory` |
| `PhaseTiming.tla` | deadlines, timers and waits of a primary and an observer, against a clock |
| `PhaseTiming_proofs.tla` | proved of it: types, and how long things can take |
| `PhaseTiming_order.tla` | proved of it: one worker of a UPS at a time, the observer's cut comes after the primary's flow |
| `PowerAgent.tla` | the desktop's power agent: delay lock, reports, SIGTERM |
| `PowerAgent_proofs.tla` | proved of it: types, no lock is lost, a sleep comes after its report, an agent that is back is known to be |
| `Configuration.tla` | what the configuration file means: roles, inheritance, peers |
| `WakeOnLan.tla` | start-up with a configuration, and the wake window |
| `WakeOnLan_proofs.tla` | proved of both: types, shared desktops, packets and the window |
| `MCUPSContext.tla`, `MCCommandChannel.tla`, `MCOutageLog.tla`, `MCWakeOnLan.tla`, `MC_*.cfg` | small instances for TLC |

## 1. Inventory

| part | state | operations | interacts with |
| --- | --- | --- | --- |
| `UPSContext` (`server/app/ups_context.py`), one per UPS | files `orchestrator_state.json`, `desktop_state.json`, `command.json`; fields `_ups_on_battery`, `_deadline_timer`, `_start_lock`, `_action_lock` | `handle_ups_status_transition`, `handle_ups_status_unavailable`, `handle_event`, `notify_desktop_state_change`, `reset_state_on_startup`; timer callback; four workers | the contexts of other UPSes with the same desktop (their files are read), the outage log, the agent over HTTP, `upsc`, `upscmd`, `upsmon` |
| poll loop, routes (`server/app/server.py`) | none | one thread per UPS per round; one thread per request | calls the contexts |
| outage log (`outage_log.py`) | `outage_state.json`, `outage_history.jsonl` | `record_start`, `record_end`, `resolve_on_startup` | called by contexts, mostly without a lock |
| event log (`event_log.py`) | `event_log.json` | `record` | called by contexts |
| state files (`state_store.py`) | none | `read_json`, `write_json` (atomic replace) | all of the above |
| configuration (`config.py`) | `UPS_DEVICES`: roles, shared desktops, timing | `_load_ups_devices`, once; then `register_peers` | all |
| NUT hook (`upssched-cmd`, `upssched.conf`) | the timer of upssched | posts ONBATT, ONLINE, LOWBATT, desktop_suspend_due; on LOWBATT may halt the server itself | `/event` route |
| manual report (`send_state.py`) | none | one report, without retries | `/update-state` |
| desktop agent (`desktop/app/agent.py`) | none on file; a thread per command | `/state`, `/command`: prompt, preflight, suspend, shutdown, ack | pushes of the server, preflight and ack routes |
| power agent (`desktop/app/power_agent.py`) | `inhibit_fd`, logind's delay lock | signals of logind, the SIGTERM handler; reports suspended, online, shutting_down, offline, with retries | logind, systemd, `/update-state` |
| Wake-on-LAN (`wol.py`, the wake window in `ups_context.py`) | the deadline and the next retry of the window | `send`: relay, or one of three local ways; the window's loop | network, the mode on file, the agent's `/state` |
| dialogs, packaging, CI | - | - | not part of the running system's control |

What is hard here. Everything in the server runs in threads of its own: two polls never
overlap for one UPS, but polls, events, reports, acknowledgements, the deadline timer
and workers do, and most of them read a state file, do something slow (ask a desktop,
run `upsc`, sleep) and then write what they had read. Two locks cover parts of this.
Events can be lost, late or reordered. The process can be killed at any time; its files
stay. `shutting_down` is left alone by everything except its own worker and a
stand-down. On the desktop a dialog stays open for a minute or more while the server goes
on. `PROJECT.json` lists each of these hazards at the line where it bites, with
the property that is about it.

What makes each part correct:

* context: an outage of its own UPS that lasts ends in the final command, exactly the
  UPS that was out is acted on, a stand-down is not undone by a thread that read its
  state before, nothing is left in `shutting_down` without a worker;
* two contexts with one desktop: the primary coordinates, the observer never does; the
  observer waits for the primary, but not forever; the server stays up when only the
  desktop's UPS was out;
* outage log: an entry is open only while the UPS is handled as off mains; an outage that
  was opened ends up in the history, and calls that get in each other's way spoil nothing but
  the outages they are about;
* command channel: a command that was cancelled, answered or replaced is not allowed
  again; an acknowledgement concerns the command it names;
* time: a server on battery is down within the sum of its waits; the user has the time the
  prompt promises; the observer cuts the power after the primary's flow and not long after
  the mains are back; a worker of one outage does not meet one of the next;
* power agent: no delay lock is leaked, whatever a SIGTERM interrupts; an agent that waits
  has its lock; a report precedes the sleep it announces and does not hold it up for ever; a
  machine that is back is not taken for one that sleeps;
* configuration: the primary and the observers of a desktop find each other;
* Wake-on-LAN: a dropped packet is followed by another in time, the window ends, and the
  desktop is not woken once the mains are back.

## 2. Plan

In this order, the most important behaviour first. 1 to 9 are done.

1. `UPSContext`: all handlers and workers of all contexts, at the granularity of file
   accesses, locks and calls, with restarts and an unreliable hook. Safety and
   liveness properties.
2. `UPSContext_proofs`, `UPSContext_safety`: every safety invariant that is checked of it.
3. `CommandChannel`: commands with identities between `command.json`, push, prompt,
   preflight, ack and cancel; the agent's fail-safe shutdown. All its properties proved.
4. `OutageLog`: file operations and history, crash between any two, resolution at
   start-up; `OutageHistory`, the abstract log that it implements.
5. `OutageLog_proofs`: the refinement, step by step.
6. `PhaseTiming`: discrete time; deadline against timer against NUT's timer, waits that
   sleep through one episode and wake up in the next. All its properties proved.
7. `PowerAgent`: one thread, a signal handler on top of it, logind and the server around it.
   Its safety properties proved.
8. `Configuration`, `WakeOnLan`: what start-up makes of the file, and the wake window. All
   their properties proved.
9. `Orchestration`: what the contexts promise of each UPS, as an abstract machine, and `UPSContext` shown to
   implement it: a property of two runs, and a proof of the step simulation.
10. The hook's own halt of the server after a LOWBATT, as an end that may come at any step
   of `UPSContext`; runs with two primaries, or two observers, on one desktop; the event log, if
   something comes to read it.

Modules that are proved about declare no RECURSIVE operator; their parameters are
CONSTANTS with named assumptions.

## 3. The modules

### 3.1 UPSContext

**State.** The five files of a context are functions from UPSes to small values; what
survives a restart is `files`, what does not is `fields` and `thread`. `outage` keeps the
entry of the outage log as `closed` (no file), `open`, or `initiated` (marked
shutdown_initiated). `reported` keeps the one distinction the server ever makes in
`desktop_state.json` outside of a fresh answer: going down (`offline`, `shutting_down`)
or not. `command` is the pending command; a cancelled or acknowledged one is `none`.

**Threads.** `Thread` bounds how many threads may be at work at once. Each has a place
(`at`), a UPS, and what it carries from one step to the next (`arg`). A step ends where
another thread can make a difference: at an access to a shared file or field, at a lock,
at a network or subprocess call. So what the code has read and not yet written is a
value in `arg`, and stale reads, lost updates and check-then-act gaps are behaviours of
the model. A worker that a handler starts takes over the handler's thread, since the
handler does nothing after it. A lock is taken in the step of the first read it protects
and released in the step of the last write; waiting for it is a disabled step.

| code | actions |
| --- | --- |
| `_poll_device` | `BeginPoll`, `ReadStatus`, `ReadNothing`, then as an event |
| `ups_event`, `handle_event`, `handle_ups_status_*` | `BeginEvent`, `Note`, `NoteLog`, `NoteOpen`, `Dispatch`, `Follow`, `FollowBlind` |
| `_start_monitoring_if_mode`, `_start_battery_monitoring` | `Lock`, `Start`, `StartLog`, `Choose`, `Save`, `Arm`, `Prompt`, `Prompted` |
| `_check_phase_deadline`, the timer, `_execute_phase_action` | `DeadlineReached`, `DeadlineAhead`, `TimerFires`, `ExecRead`, `ExecSave` |
| `_reset_to_idle` | `Reset`, `Leave`, `CancelRead`, `CancelSave` |
| `update_state`, `notify_desktop_state_change` | `BeginReport`, `NotifyRead`, `NotifyDown`, `NotifySuspend` |
| `ack`, `desktop_state` | `BeginAck`, `AckSave`, `AskDesktop` |
| `_action_force_shutdown_desktop`, `_action_wake_then_shutdown`, `_wait_for_desktop_then_terminal_action` | `PushShutdown`, `Wake`, `WakeExpires`, `WakePush`, `Wait`, `WaitExpires` |
| `_observer_power_off_when_desktop_safe` | `Hold`, `Look`, `HoldExpires` |
| `_terminal_action`, `_self_shutdown`, `_power_off_ups` | `Terminal`, `Settle`, `Issue` |
| `reset_state_on_startup` | `Restart` |
| mains, upsmon, upssched, a lost post | `PowerChange`, `LoseNotice` |

**Abstractions.** Time: a deadline, a wait or a retry may end at any step, which allows
everything a clock allows and more. The rounds of `poll_loop`, which join all polls before
the next, are only one poll per UPS at a time. A call of the outage log is one step, apart
from the look at `_ups_on_battery` or at the mode that it was decided on; the file
operations in it are `OutageLog`'s business. The mark that a save of `shutting_down` leaves on
the log entry is part of that save: it neither opens nor closes an outage. Pushing a command has no effect on the server and
is part of the step after it. The outcome of `upscmd` and of `upsmon -c fsd` does not
matter to the server and is left open; after the command the model lets the process go
on, as it does until the machine is down. `create_command`, to which nothing in the
repository posts, and acknowledgements of a command that is not pending are left out.
`acted` and `wasOut` are history: they record and never decide.

**Assumed of the world.** The hook posts at most one event of a kind at a time per UPS, and
only those `Notices` lists for the run. Reports of the desktop may come at any time, in any
order, any number of times.

**Orchestration** is what a reader of `UPSContext` should be able to rely on without knowing its threads. A UPS
has its mode, its noted power (`own`), and *hands*: a decision (`Decide`) puts `shutting_down` on file and hires one. A hand leaves
when it finds that the decision was called off (`Dismiss`), or commits itself (`Commit`, from which there is no way back) and
issues the final command (`Issue`), or spares the server because only the desktop's UPS was out (`Spare`, `Settle`). The mapping
is short: the mode and the flag are those of the context, and a thread is a hand while it is at a worker's place
(`HandOf`). What makes it a promise: a primary commits only with `shutting_down` on file and its own power out; between
`Spare` and `Settle` nobody stands down or decides; a command is issued once per hand, and a hand is hired only by
a decision that changed the mode. What it does not promise is as telling: `Watch` is
allowed from every mode, since a start saves `monitoring_battery` over whatever the file holds by then; `Decide`
of a primary also from `idle`, since a report that found it monitoring looks only for `shutting_down` the second time; and
`Issue` does not look at the mode any more.

### 3.2 CommandChannel

One primary and its desktop, from the moment the server wants a command issued. `file` is
`command.json`: the number of a command and its status. Commands are numbered in the order
they are issued; in the code an identifier holds the second it was made in, and two commands
of one kind in one second would share it, which the model leaves out. `thread` is what each
server thread is doing (a worker on its way to a command, a cancelling or an acknowledgement
that has read the file and not yet written it), `handler` what the agent's thread for each
command is doing, `desktop` the machine. `carried` is history.

| code | actions |
| --- | --- |
| `_start_battery_monitoring`, `_execute_phase_action` | `Start`, `EndPhase`: one step each, as a cause of commands |
| `_make_*_command`, `save_command`, `push_command_to_desktop` | `Prompt`, `PushShutdown`, `Push`, `PushFails` |
| `_action_wake_then_shutdown`, `_wait_for_desktop_then_terminal_action` | `Wake`, `WaitEnds` |
| `_reset_to_idle` | `StandDown`, `CancelRead`, `Save` |
| `ack` route | `Acknowledge` (reads), `Save` (writes) |
| `preflight` route and the agent's `preflight` | `PreflightAllowed`, `PreflightRejected`, `PreflightError` |
| `prompt_soft_suspend`, the handler threads | `ChooseSleep`, `ChooseShutdown`, `Dismiss`, `Stumble` |
| `do_suspend`, `do_shutdown`, `_execute_shutdown` | `Suspend`, `SuspendFails`, `ShutDown`, `ShutDownFails` |
| the agent's `ack` | `Acknowledge`, `LoseAck` |
| `reset_state_on_startup` | `Restart` |
| the machine | `FallAsleep`, `PowerDown`, `ComeUp` |

An acknowledgement that the server handles although the agent gave up waiting for the answer
is `Acknowledge`; one that never arrives is `LoseAck`. A preflight that was answered and whose
answer is lost is `PreflightError`, for the server does not record it.

### 3.3 OutageLog and OutageHistory

`OutageHistory` says what the log is for: an outage is opened, and then closed (it is in the
history) or lost; none is forgotten, none comes back. `OutageLog` has every file operation of
every method as a step: `_read_state` (`ReadState`), `_append_completed` (`AppendCompleted`),
`_write_state` (`Truncate`, then `Fill`: `write_text` is not atomic), `_clear_state`
(`ClearState`), and `Restart`, which kills the process between any two of them and runs
`resolve_on_startup`.

Polls, events, starts and phase actions call the log without a lock, so any number of threads are at
work on it, each at a step of its own. They read an entry that another is about to append, write over
one that was opened after they looked, and remove a file another has open. Two effects of the
file system matter then. A caller that has the file open when another unlinks it fills in a file
that is no longer there (`FillRemoved`). And a new entry, being shorter than one that is marked
shutdown_initiated, does not cover one that was filled in after both had truncated: what is left on file
cannot be read (`Filled`).

The mapping: the open outage is the one on file, or the one being written, unless its line is in the
history already; `closed` is what the history has a line of; `lost` is what a crash has left
truncated (the history variable `torn`) and has no line, and what is in `mixed`. When a call begins while
another is under way, `mixed` takes in the outages *at stake*: on file, read by a caller, or to be opened
by one, and without a line so far. Such an outage may be recorded, recorded twice, or forgotten (one
caller opens it between another's append and unlink), so nothing is promised of it. The promise
is about all others: those recorded before, those opened when the calls are over, and all that a
crash hits anywhere but between the truncation and the filling of their own entry. A duplicate line of an outage
(after a crash between the append and the unlink) is allowed by the mapping: `closed` is a set.

### 3.4 PhaseTiming

`UPSContext` lets a wait end at any step, which is right for safety but says nothing about
how long anything takes. Here a handler is one step and time counts. The unit is
`time.sleep(5)`, the pause in the loops of the workers; deadlines, timers and pauses are numbers
of turns still to go. `Tick` lets a turn pass and is enabled only when nothing is due: a thread
whose time has come runs before the turn is over, which is what a deadline and a timer mean. The
timer `desktop_suspend_due` of `upssched.conf` is started and cancelled for each UPS with its
power, as that file says for both.

| code | actions |
| --- | --- |
| `poll_loop`, `_poll_device` | `BeginPoll`, `Poll`: a round ends when both UPSs were handled |
| `handle_ups_status_transition`, `handle_event` | `Handle`, in `Poll` and `Notice`; `SuspendDueEvent` |
| `_start_battery_monitoring`, `_arm_deadline_timer` and its callback | `Start`, `Enter`; `TimerFires` |
| `_check_phase_deadline`, `_execute_phase_action`, `_terminal_action` | `CheckDeadline`, `Execute`, `Terminal` |
| `notify_desktop_state_change` | `NotifyDown`, `NotifySuspended` in `DesktopLeaves`, `DesktopSleeps` |
| `_observer_power_off_when_desktop_safe` | `Hold` |
| `_action_wake_then_shutdown`, `_action_force_shutdown_desktop` | `FirstSent`, `WakeWindow`, `Pushed` |
| `_wait_for_desktop_then_terminal_action` | `Confirm` |
| mains, the outlets, the desktop | `PrimaryFails`, ..., `OutletsOff`, `OutletsOn`, `DesktopComesUp` |

`out`, `calm`, `flows` and `stood` are history: how long the primary's UPS has been out, how long
the observer's mains have been back, how many flows the primary has begun in this outage, how long
ago the observer stood down. `calm` decides one thing: with `Steady` above 0, the observer's UPS does
not fail again before its mains have been back that long. A worker begins with a request where the code does:
the first magic packet, which leaves before the deadline of the wake window is set (`Send`), or the push
(`Push`); `Request` says how long it may take, and the mode is not looked at meanwhile. What other requests
take is part of the pause they come with, `upsc` answers, and the primary's battery holds out. `MaxWorkers` bounds the
workers of one UPS; `OneWorker` shows that with the lengths of section 4 one is enough: the place
for a second is there for the case that shows otherwise, and stays empty.
A server that has been told to halt ends a behaviour, so the runs of this module do not check for
deadlock. Every other state must have a step, so time can always go on.

### 3.5 PowerAgent

The agent is one thread in a GLib main loop. The handler of SIGTERM is a Python signal handler:
it runs between any two bytecodes of that thread, reads and writes the same `inhibit_fd`, and
the thread goes on below it afterwards. So the module has two frames; `main` makes no step
while `term` is there. A frame has a job (the signal it handles, the start, the end) and a place in
`release_delay_lock`, `take_delay_lock` or `_send_state`, cut wherever the other frame can get in
between: test, close, clear, call, assign. `First`, `AfterTake`, `AfterDrop` and `AfterSend` say for
each job in which order the handler makes these calls.

| code | actions |
| --- | --- |
| `_send_state` | `SendOk`, `SendFails` (with a late or a lost report), up to the caller's tries |
| `release_delay_lock`, `take_delay_lock` | `Drop`, `Close`, `CloseRaises`, `Clear`, `InhibitGranted`, `InhibitRefused`, `Assign` |
| `on_prepare_for_sleep`, `on_prepare_for_shutdown` | `Dispatch`, then as its job; `NetworkWait` |
| `run`, `handle_signal` | `Launch`, `Subscribe`, `Terminate`, `Quit`, `LoopEnds`, `Exit`, `Kill` |
| logind and the machine | `AnnounceSleep`, `FallAsleep`, `WakeUp`, `AnnounceShutdown`, `CallOff`, `PowerOff`, `Boot` |
| `update_state` and the polls of the server | `HandleLate`, `Poll` |

logind's limit on a delay may pass at any step, so a sleep may always be forced; what the
lock promises is about the sleeps that are not (`locks = {}` when it begins).

A poll of the server asks the desktop's *other* agent, `agent.py`, which runs per login session: where nobody is logged
in, or it does not answer, `fetch_state_from_desktop` saves nothing. So `Poll` may change nothing,
for ever, and what the server knows is up to the reports. `BackIsKnown` is about these alone: an agent that waits on a
machine that stays up is not known as suspended or offline, whatever came before. `through` is history: the last try of a
report got through, and no late one came after it.

### 3.6 Configuration and WakeOnLan

`Configuration` has operators only: `Rejected` and `Loaded` for `_load_ups_devices` (fallback to the
environment, defaults, validation, the primary's inheritance of the observer's desktop and the
ambiguity it refuses), `Contexts` for the dictionary of contexts, `Peers` for `register_peers` and
`_desktop_peers`. `WakeOnLan` loads a file with them and then runs the worker that wakes the desktop:
`SendFirst`, then the loop `Turn`, `Answer`, `SendAgain`, `Sent` until the window is over or the desktop
is up, then `Push`. `Tick` passes time while a call or a pause lasts. `LocalSends` and `RelaySends` are
the outcomes of `wol.send`: which way worked, and whether the packet left although it is not known to
have. `tries`, `packets`, `logged`, `since`, `ran` and `late` are history.

## 4. Runs

Bounds: one or two UPSes, two threads. One UPS with two threads shows every race
of two handlers on one context. A primary and an observer with one desktop is what the
example configuration has. Every run reaches the end: nothing is cut by a state constraint;
retries and waits of the server are abstracted into "may end now" (except in `PhaseTiming` and
`WakeOnLan`, where they are counted), and the bounds that remain are constants with a guard
(`MaxCommands` in `MayIssue` and `Issue`, `MaxTries`, `MaxOutages` in `RecordStart`, `MaxSignals` in
`Announced`, `MaxLate` in `SendFails`, `MaxWorkers` in `Spawn`). Three commands are enough for an old one,
the one that replaced it, and a third to be confused with; three outages for two that overlapping calls
mix up and one that comes after them; three signals for a sleep, its end and one more; two locks for the one that is held and the
one that is being taken. Threads are interchangeable and symmetric where no liveness is checked.

| run | instance | shows |
| --- | --- | --- |
| `primary` | primary, ONBATT, ONLINE and suspend events, reports of going down, blind reads, restarts | `NoStaleShutdown`, `SingleStart`, `LocksAreReleased`, `ShutdownHasWorker` |
| `primary_liveness` | primary, low battery, reports, fairness | `TypeOK`, `OutageIsAnswered`, `StandsDown`, `Decides`, `KeepsPromise` |
| `desktop_outage` | primary on mains and observer, fairness | `NoShutdownWithoutOutage`, `ObserverSparesDesktop`, `OutageIsAnswered`, `StandsDown`, `KeepsPromise` |
| `channel` | 3 commands, 2 server threads, 2 tries, faults, restarts | `TypeOK`, `OnlyLatestPending`, `DoneIsDone`, `NothingComesBack` |
| `outage_log` | 3 outages, 2 callers, crashes | `TypeOK`, `KeepsHistory` |
| `timing` | primary and observer, waits of 1 to 7 turns | `TypeOK`, `AnsweredInTime`, `PromptIsKept`, `OneWorker`, `LateCutIsBounded`, `CutFollowsFlow` |
| `power_agent` | 2 locks, 3 signals, 1 late report, all faults, fairness | `TypeOK`, `NoLockIsLost`, `WaitsWithLock`, `BackIsKnown`, `SleepIsReported`, `SleepGoesAhead`, `TermEndsAgent` |
| `wake` | all files of up to 3 entries, a window of 5 turns | `TypeOK`, `DesktopIsShared`, `SentHasLeft`, `RetriedInTime`, `WindowIsBounded`, `OneLatePacket` |

Four runs show a sentence of the repository that the code does not keep (`findings` in
`PROJECT.json` quotes each):

| run | sentence | what happens |
| --- | --- | --- |
| `late_push` | pending operations are cancelled when power returns | a worker past its last look at the mode saves its command after the cancelling |
| `unlogged_outage` | the outage log follows the UPS's own power | an ONBATT between a desktop-only start's look and its save is opened by neither (the second half of the property fails as well: a late `record_start` leaves an entry open on mains) |
| `short_wait` | a suspended desktop is left alone for `desktop_suspend_wait` | the timer of the prompt, which was left armed, ends the new phase, and NUT's timer of 300 s ends one of 360 s |
| `stale_handled` | the observer holds until the desktop is confirmed down, or the primary has finished its flow | mains back for less than a poll leaves the primary in `desktop_handled`; in the next outage it does not start, and the observer takes the old mode for a finished flow |

**Lengths of the waits in `timing`.** What matters is their order, and the run has the orders of the
default configuration: `OfflineWait` = `SuspendDue` (300 s), `PromptWait` shorter (180 s), `SuspendWait` at
least as long (360 s), `MaxWait` longer than the flow. The properties need, and the defaults have:

* `PromptWait`, `SuspendWait` and `SuspendDue` longer than `Pass` (one turn of a worker's loop), than `Push`
  (the requests before a wait) and than `Send` (the first magic packet: 10 s at most with a relay), and `Steady` > `PollEvery` + `Pass`; otherwise a worker sleeps through a stand-down
  into the next worker's time (`WaitsAreLong`, for `OneWorker`). By default these waits are 180, 360 and 300 s;
  a turn is 5 s and a request. `OfflineWait` may be anything: the end of an offline phase hires no worker;
* `SuspendDue` >= `PromptWait` + `PollEvery`, or NUT's timer cuts the prompt short (`PromptIsKept`);
* `MaxWait` + `OfflineWait` > `AnswerBound` and `MaxWait` + `SuspendDue` > `AnswerBound` + `PollEvery`, and `Steady` >
  2 `PollEvery` and > `PollEvery` + `Pass` (`WaitsAreApart`, for `CutFollowsFlow`). The comment on
  `observer_poweroff_max_wait` asks for more than `SuspendWait` + `WakeTimeout` + `ShutdownWait`; the first two relations
  are what it takes: the observer's grace counts too, and so do the poll that is late to see the outage, and the first
  packet, the last turn and the push of a wake-up, which are in `AnswerBound`. In the run `MaxWait` is 7; with 6,
  what the comment asks for, the first packet is enough to bring the cut before the end of the flow. With the default 1800 s they hold by far.

`Steady` is no setting of the code: it is how long mains that come back stay, and both theorems say what they need of
the mains: that they stay for more than two polls (and, for `OneWorker`, a poll and a turn). `stale_handled` is the
same instance with `Steady` = 0, and shows what happens otherwise.

`PromptIsKept` is about the primary only. The observer's grace is 300 s by default and so is NUT's timer,
which starts up to a poll earlier: it can end the grace by that much.

**Why one run has not everything.** The full product (events, reports, restarts, blindness, two
UPSes) is beyond TLC; each run turns on what its question depends on. What is proved
(section 5) holds for the product.

**Fairness.** A thread of a running process keeps running (`WF_vars(Step(t))`): Python's
threads are preemptive, every call in a step has a timeout, and both locks are released
(`LocksAreReleased`). Polls begin again and again (the poll loop never ends) and an armed
timer fires; both need a free thread, which the code always has and the bounded model
sometimes has not, hence strong fairness. A deadline that is looked at again and again is
reached, and a wait that turns and turns expires, since time passes: strong fairness of
`DeadlineReached` and `HoldExpires`, whose steps share a place with others (the other
waits are left by a step that stays enabled, so weak fairness does). Nothing is assumed of events,
reports or the hook: the polls alone must bring an outage to its end. There is no fairness on
restarts or on mains.

In `PowerAgent` the agent's thread runs while its machine does and every request in it has a timeout
(`WF_vars(AgentStep)`). There is none on polls, which may find nobody, on late reports, on logind, on SIGTERM, on kills or on systemd's restart: a
property that needs the machine to stay up or the agent to be left alone says so. `OutageLog`,
`CommandChannel`, `PhaseTiming` and `WakeOnLan` state safety only; in the last two the bounds are on time itself.

## 5. Proofs

Every invariant and every action property a passing run checks is also proved: for any number
of UPSes, desktops, threads, commands, outages, locks and files, for waits of any length within the
relations that a theorem names, and with every source of trouble switched on that the theorem does not exclude. The constants' assumptions are used throughout: roles do not overlap and the
null values are not members (`RolesAssumption`, `ThreadAssumption`, `DesktopAssumption`,
`MainAssumption`, `InhibitorAssumption`, `NamesAssumption`), inputs are of the kinds the code distinguishes
(`InputAssumption`, `FilesAssumption`), bounds and times are numbers (`BoundsAssumption`, `CountAssumption`,
`WaitsAssumption`, `TimesAssumption`, `RetryAssumption`), faults are on or off (`FaultsAssumption`).

| theorem | states | further hypotheses |
| --- | --- | --- |
| `UPSContext_proofs!TypeCorrect` | `TypeOK` | |
| `UPSContext_proofs!LocksReleased` | `LocksAreReleased` | |
| `UPSContext_proofs!StaleShutdownImpossible` | `NoStaleShutdown` | |
| `UPSContext_safety!ShutdownIsWorkedOn` | `ShutdownHasWorker` | |
| `UPSContext_safety!ObserversSpareDesktop` | `ObserverSparesDesktop` | |
| `UPSContext_safety!NoOutageNoShutdown` | `NoShutdownWithoutOutage` | no two observers share a desktop; low battery means off mains |
| `UPSContext_safety!MonitoringStartsOnce` | `SingleStart` | no low battery is reported |
| `UPSContext_safety!PromiseIsKept` | `KeepsPromise` | |
| `CommandChannel_proofs!TypeCorrect` | `TypeOK` | |
| `CommandChannel_proofs!LatestIsPending` | `OnlyLatestPending` | |
| `CommandChannel_proofs!DoneMeansDone` | `DoneIsDone` | |
| `CommandChannel_proofs!CommandsStayClosed` | `NothingComesBack` | |
| `OutageLog_proofs!TypeCorrect` | `TypeOK` | |
| `OutageLog_proofs!LogKeepsHistory` | `KeepsHistory` | |
| `PhaseTiming_proofs!TypeCorrect` | `TypeOK` | |
| `PhaseTiming_proofs!AnswerInTime` | `AnsweredInTime` | |
| `PhaseTiming_proofs!LateCutBounded` | `LateCutIsBounded` | |
| `PhaseTiming_proofs!PromptKept` | `PromptIsKept` | `SuspendDue` >= `PromptWait` + `PollEvery` |
| `PhaseTiming_order!OneAtATime` | `OneWorker` | `WaitsAreLong`, `Steady` > `PollEvery` + `Pass` (section 4) |
| `PhaseTiming_order!CutComesLast` | `CutFollowsFlow` | `WaitsAreApart` (section 4) |
| `PowerAgent_proofs!TypeCorrect` | `TypeOK` | |
| `PowerAgent_proofs!LocksAreKnown` | `NoLockIsLost` | |
| `PowerAgent_proofs!AgentWaitsWithLock` | `WaitsWithLock` | |
| `PowerAgent_proofs!BackKnown` | `BackIsKnown` | |
| `PowerAgent_proofs!SleepComesAfterReport` | `SleepIsReported` | |
| `WakeOnLan_proofs!TypeCorrect` | `TypeOK` | |
| `WakeOnLan_proofs!DesktopShared` | `DesktopIsShared` | |
| `WakeOnLan_proofs!SentMeansLeft` | `SentHasLeft` | |
| `WakeOnLan_proofs!PacketsComeInTime` | `RetriedInTime` | |
| `WakeOnLan_proofs!WindowBounded` | `WindowIsBounded` | |
| `WakeOnLan_proofs!LatePacketIsLast` | `OneLatePacket` | |

The hypotheses are not conveniences. The code counts `OL LB`
as on battery and as low, so a primary that is on mains can be told to shut down; two observers of one desktop
make each other's outage; a low battery starts monitoring without the lock; a shorter `SuspendDue` ends a
prompt before its time. Those of the last two theorems about `PhaseTiming` are the relations of section 4; the runs
`timing` (which satisfies all of them) and `stale_handled` (`Steady` = 0) show both sides of the one that is about the mains.

**The invariants**, and why they are needed:

* Types: `TypeOK` is inductive because it includes `ThreadsOK`, what a thread carries at each
  place: a step uses what an earlier step of the same thread has left.
* Locks: `LockInv` says that a held lock's holder is at a place under that lock, that whoever is
  at a place under the action lock holds it (`HoldsActionLock`), and `NoStaleShutdown`. The last is kept because every way out of
  `monitoring_battery` needs the lock that the thread at `execSave` holds.
* Workers: `ShutdownHasWorker` is inductive with types: every step that saves
  `shutting_down` turns its own thread into a worker in the same step, and a worker only ends
  after it has found another mode, saved one, or issued the command.
* Roles: `ObserverInv` adds the places of the workers that lead to the desktop, and the phase
  of an observer that is being started.
* No shutdown without an outage: `OutInv` follows a shutdown backwards: from the final command to
  the terminal action, to the phase action, to the mode that started it; each carries that this
  UPS was off mains, or, for a primary, that the flag `_ups_on_battery` decides at the end. It
  uses `LockInv`, since a phase action acts on the mode it read.
* Single starts: `StartInv`, that a thread that is starting holds `_start_lock`.
* The promise: `DutyInv` says whom a thread works for at the places where no step looks again: a holding worker
  belongs to an observer (so it may commit without a look at the flag), a thread that reports the desktop or settles belongs to a primary, and the
  mode under a thread that settles is still `shutting_down`, or `monitoring_battery` by a save that does not look. With `LockInv`
  each step is a step of `Orchestration` or changes nothing of it (`Unseen`): a thread that settles holds the lock
  that every stand-down and every decision needs (`NobodySpares`).
* Command channel: `ChannelInv` adds `SavesAreFinal`: a thread that is about to write back what
  it read writes a final status, and "done" only of a command that was carried out. This is why
  stale writes can lose a newer command (an acknowledgement that had read the prompt writes it over a
  `critical_shutdown`, which the agent's preflight then refuses) but never revive an older one.
* The log's refinement: `LogInv` has two cases. `Apart`: one call is at work at most, and what that caller
  relies on from its last step to its next one is still so (`Relies`): that the file holds what it
  read, that the history has the line before the file goes, that the outage it opens is new.
  Each file operation is then shown to be a step of `OutageHistory` or to change nothing of it:
  the append closes, the truncation for a new entry opens, a crash during a write loses, all
  others stutter. `Astray`: calls have overlapped, and every outage on file or in their hands is `Known`, that is recorded or in
  `mixed`; then whatever they do to each other changes nothing of `OutageHistory`. The call that overlaps is the
  step from the first to the second, and loses what is at stake. When the last of them is done, or a restart has
  ended them all, the next call alone finds `Apart` again.
* Time: `Inv` of `PhaseTiming_proofs` gives, for every place an outage can be at, how much of the bound is
  used up at most: resting until the next poll (`UnknownOK`, `RestingOK`; `Gap` is the time to it),
  monitoring until the timer (`TimersOK`, `MonitoringOK`: the timer counts, because it is armed with every phase
  and nothing disarms it while the mode is `monitoring_battery`), shutting down until the worker's window
  is over (`ShuttingOK`, `WorkersOK`; `ToGo` is what the worker has left, its first packet included). `LateOK` ties a holding worker to what has passed since the stand-down.
  For the prompt, `PromptInv` adds that during it the timer and the deadline are the same number
  (`TimerIsDeadline`) and that NUT's timer is behind both (`DueOK`).
* One worker at a time: a worker sleeps on for a while after its flow was called off, and another could begin
  meanwhile. `OrderInv` says, of the primary, that one worker is left over at most (`AloneOK`) and that nothing that
  can hire the next one comes before it wakes: neither the deadline nor the timer of a phase that has begun since, nor
  NUT's timer (`SpareOK`; `DueOff`, that this timer is off on mains). Of the observer it says that whenever
  the next phase can begin or has begun, the stand-down is more than a turn of the worker ago (`StandingOK`, from `calm`, `Steady` and
  the gap to the next poll), and by `LateOK` of `Inv` no worker of it is left then.
* Cut after flow: a hold that comes to its limit must have begun so long ago that the primary's flow is over. `Enough` is the
  set of the numbers of turns that suffice for the flow that has begun (the timer of its phase and all `Windows`
  behind it, or what its worker has to go), `Ahead` of those that suffice also for a flow that has yet to begin. `FollowInv`
  says that what the observer has ahead is such a number: its wait, its timer or NUT's with `MaxWait` behind it
  (`LeadOK`), the rest of its hold (`HoldOK`, which also follows a worker that was stood down in its sleep). `FlowOK` bounds every flow; `FlowsOK` and
  `SettledOK` say that no flow of the outage before is taken for the one of this, and here `Steady` is used; `DueOOK` keeps
  NUT's timer of the observer from being older than a poll when the observer begins.
* Power agent: `FramesOK` (which job is at which place with what in hand), `LoopOK`, `LocksOK` (a lock is in
  `inhibit_fd` or in the main frame's hand, which takes one only when the field is empty), `GoingOK` (the last
  signal in the queue, or in hand, is what the machine is doing) and `WaitOK` (a frame on its way to the main
  loop has the lock, or the call of Inhibit still ahead),
  `SleepOK` (an agent that was on watch and has not reported holds the lock), `ResumeOK` (behind the sleep that is
  handled, or in the queue, is its resume, or the machine still sleeps) and `KnownOK` (a server that takes the
  desktop for gone has a start or a resume that has yet to report on its way).
* Wake-on-LAN: per place of the worker, how much time has passed since the last packet and since the window
  began (`PlacesOK` with its table `Slack`), and how many packets fit (`TriesOK`, which says the number of
  tries times the interval is within the time that has run); `CountsOK` and `LateOK` for packets that left.
  `DesktopShared` needs no invariant: it is a lemma about `Loaded`, that the desktop is inherited from the one
  observer there is.

## 6. Only model-checked, and not modelled

Liveness under fairness (`OutageIsAnswered`, `StandsDown`, `Decides`, `SleepGoesAhead`, `TermEndsAgent`)
stays with TLC: the prover has no support for ENABLED. The four sentences above are
refuted by a trace. Everything else that is checked is proved.

Seen while modelling, and worth knowing, though nothing in the repository says otherwise:

* An agent's SIGTERM before `loop.run()` is lost (`TakesNotice`), and so is a sleep announced between taking the
  lock and subscribing. A second sleep while the handler of the first still sends goes without a report.
* `os.close(None)` raises when SIGTERM comes between the test of `inhibit_fd` and its use (`CloseRaises`); the main loop
  goes on, and ends.
* A shutdown that is called off sends no "online"; the server goes on with "shutting_down" until a poll is
  answered by the agent of the login session (`BackIsKnown` leaves this status out).
* Of two entries with one id the later wins, silently; it may hide the observer a desktop was inherited
  from. The relay is not inherited. A primary with a desktop section of its own but no MAC does not
  wake. Two observers of one desktop are not refused.
* A relay that times out is logged as failed although the packet may have left.

Not modelled: the event log, the hook's own halt after a LOWBATT, the bytes of a packet and the
lookups of interface and address, the dialog programs, packaging. Exceptions that end a server
thread, and state files that cannot be read, are not modelled either. `PROJECT.json` gives the reason for
each part; the plan above says which follow.
