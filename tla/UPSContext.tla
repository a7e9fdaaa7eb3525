----------------------------- MODULE UPSContext -----------------------------
(***************************************************************************)
(* The orchestrator process of server/app: one UPSContext per configured   *)
(* UPS, driven by concurrent threads.  A thread is a poll of one UPS       *)
(* (server.py _poll_device), an HTTP request (a NUT event posted by        *)
(* upssched-cmd, a state report or an acknowledgement of the desktop), the *)
(* deadline timer, or a worker started by a phase action.  Each step of a  *)
(* thread is the code between two points where another thread can make a   *)
(* difference: an access to a shared file or field, a lock, or a network   *)
(* or subprocess call.                                                     *)
(*                                                                         *)
(* A lock is taken in the same step as the first read it protects and      *)
(* given back in the same step as the last write.  A handler that ends by  *)
(* starting a worker thread becomes that worker.  Time is abstracted: a    *)
(* deadline, a wait or a retry may end at any step.  A save of             *)
(* shutting_down and the mark it puts on the log entry are one step: the   *)
(* mark neither opens nor closes an outage.  The event log, the            *)
(* wording of messages and the delivery of a pushed command are left out:  *)
(* no later step of the server depends on them.                            *)
(***************************************************************************)
EXTENDS FiniteSets, Integers

CONSTANTS
  Primary,      \* UPSes of role "primary": they shut the server down
  Observer,     \* UPSes of role "observer": each is powered off by upscmd
  DesktopOf,    \* the desktop (agent_url) a UPS is configured with
  NoDesktop,
  Thread,       \* the threads that may be at work at the same time
  NoThread,
  NoUPS,
  Reports,      \* the ups.status values each UPS can show
  Notices,      \* the NUT events upssched.conf has posted for each UPS
  Statuses,     \* what desktops report about themselves, to each ups_id
  MayBeBlind,   \* upsc may fail to read a UPS
  MayRestart    \* the orchestrator may be restarted

UPS == Primary \cup Observer

\* "offline" and "shutting_down" are alike everywhere in the server: "down".
ASSUME RolesAssumption == Primary \cap Observer = {} /\ NoUPS \notin UPS
ASSUME DesktopAssumption == DOMAIN DesktopOf = UPS
ASSUME ThreadAssumption == NoThread \notin Thread
ASSUME InputAssumption ==
  /\ Reports \in [UPS -> SUBSET {"OL", "OB", "OB LB", "OL LB"}]
  /\ Notices \in [UPS -> SUBSET {"ONLINE", "ONBATT", "LOWBATT", "desktop_suspend_due"}]
  /\ Statuses \in [UPS -> SUBSET {"online", "suspended", "down"}]
  /\ MayBeBlind \in BOOLEAN
  /\ MayRestart \in BOOLEAN

VARIABLES
  \* Files of each UPS: they survive a restart.
  mode,       \* orchestrator_state.json "mode"
  phase,      \* orchestrator_state.json "phase"
  reported,   \* desktop_state.json: has the desktop reported it is going down
  command,    \* command.json: the command that is pending, if any
  outage,     \* outage_state.json: no entry, an open one, or one marked
              \* shutdown_initiated
  \* Fields of each UPSContext: lost by a restart.
  onBattery,  \* _ups_on_battery
  timer,      \* is _deadline_timer armed
  startLock,  \* the thread that holds _start_lock
  actionLock, \* the thread that holds _action_lock
  thread,     \* what each thread is doing
  \* The world outside.
  power,      \* the ups.status each UPS shows
  notices,    \* NUT events on their way to /api/ups/<id>/event
  \* History.
  acted,      \* the final command was issued in this shutting_down episode
  wasOut      \* the UPS has been off mains since the process started

files   == <<mode, phase, reported, command, outage>>
fields  == <<onBattery, timer, startLock, actionLock>>
world   == <<power, notices>>
history == <<acted, wasOut>>
vars    == <<files, fields, thread, world, history>>

-----------------------------------------------------------------------------

Idle == "idle"
Monitoring == "monitoring_battery"
ShuttingDown == "shutting_down"
DesktopHandled == "desktop_handled"
Modes == {Idle, Monitoring, ShuttingDown, DesktopHandled}

UserPrompt == "user_prompt"
OfflineWait == "offline_wait"
SuspendWait == "suspend_wait"
Phases == {UserPrompt, OfflineWait, SuspendWait}

OffMains(status) == status \in {"OB", "OB LB"}
LowBattery(status) == status \in {"OB LB", "OL LB"}

\* The peers of one role that are configured with the desktop of u.
DesktopPeers(u, role) ==
  {c \in role \ {u} : DesktopOf[u] # NoDesktop /\ DesktopOf[c] = DesktopOf[u]}

\* Is the UPS that feeds the desktop of u being handled as on battery?
DesktopUpsOnBattery(u) == \E o \in DesktopPeers(u, Observer) : mode[o] # Idle

-----------------------------------------------------------------------------
(* Threads.                                                                *)

Free == [at |-> "free", ups |-> NoUPS, poll |-> FALSE, arg |-> "none"]

At(t, place) == thread[t].at = place
Works(t, place, u, isPoll, arg) ==
  thread' = [thread EXCEPT ![t] = [at |-> place, ups |-> u, poll |-> isPoll, arg |-> arg]]

Enter(t, u, place, arg, isPoll) == At(t, "free") /\ Works(t, place, u, isPoll, arg)
Goto(t, place, arg) == Works(t, place, thread[t].ups, thread[t].poll, arg)
Become(t, worker) == Works(t, worker, thread[t].ups, FALSE, "none")
Finish(t) == thread' = [thread EXCEPT ![t] = Free]

Polling(u) == \E t \in Thread : thread[t].poll /\ thread[t].ups = u

StartPlaces == {"start", "startLog", "choose", "save", "arm", "prompt", "prompted"}
WorkerPlaces ==
  {"force", "wake", "wakePush", "wait", "terminal", "settle", "hold", "look", "fsd", "cut"}

-----------------------------------------------------------------------------
(* Writes that several handlers share.                                     *)

SetMode(u, m) ==
  /\ mode' = [mode EXCEPT ![u] = m]
  /\ acted' = [acted EXCEPT ![u] = acted[u] /\ m = ShuttingDown]

\* record_end("shutdown_initiated"): an open entry is kept, marked.
OutageInitiated(u) ==
  outage' = [outage EXCEPT ![u] = IF @ = "closed" THEN @ ELSE "initiated"]
OutageClosed(u) == outage' = [outage EXCEPT ![u] = "closed"]
OutageOpened(u) == outage' = [outage EXCEPT ![u] = "open"]      \* record_start

\* _leave_monitoring: the timer is cancelled, a resting mode is saved.
LeaveMonitoring(u, m) ==
  /\ SetMode(u, m)
  /\ phase' = [phase EXCEPT ![u] = "none"]
  /\ timer' = [timer EXCEPT ![u] = FALSE]

\* fetch_state_from_desktop saves what the agent answers; it only ever answers
\* that the desktop is up.
DesktopAnswers(u) ==
  /\ DesktopOf[u] # NoDesktop
  /\ reported' = [reported EXCEPT ![u] = "up"]
DesktopSilent(u) == UNCHANGED reported

-----------------------------------------------------------------------------
(* Faults.  Variants of definitions below, each with a mistake this code   *)
(* could have had: with one of them in place, a property below must fail.  *)

NoLock(u) == TRUE                                  \* a lock is forgotten
RawSignal(status) == status                        \* low battery is not looked for
OnlyFromMonitoring(seen) == seen = Monitoring      \* a shutdown is not called off
WhateverRole(u) == DesktopOf[u] # NoDesktop        \* observers coordinate too
KeepStartLock(t) ==                                \* the lock is not given back
  /\ \/ startLock[thread[t].ups] = t /\ Finish(t)
     \/ startLock[thread[t].ups] # t /\ Goto(t, "exec", "low")
  /\ UNCHANGED startLock
PowersOffAlways(u) == TRUE                         \* own mains is not looked at
Kept(u) == mode[u]                                 \* startup does not reset the mode
Never(t) == FALSE                                  \* a wait without a limit

-----------------------------------------------------------------------------
(* The two locks.                                                          *)

StartLockFree(u) == startLock[u] = NoThread
ActionLockFree(u) == actionLock[u] = NoThread

-----------------------------------------------------------------------------
(* A poll of one UPS: server.py _poll_device.  The desktop is asked first, *)
(* then upsc is run; what it prints is handled in later steps.             *)

BeginPoll(t, u) ==
  /\ ~Polling(u)
  /\ Enter(t, u, "upsc", "none", TRUE)
  /\ DesktopAnswers(u) \/ DesktopSilent(u)
  /\ UNCHANGED <<mode, phase, command, outage, fields, world, history>>

\* A low battery is looked for first, whatever else the status says.
SignalOf(status) == IF LowBattery(status) THEN "LB" ELSE status

ReadStatus(t) ==
  /\ At(t, "upsc")
  /\ Goto(t, "note", SignalOf(power[thread[t].ups]))
  /\ UNCHANGED <<files, fields, world, history>>

ReadNothing(t) ==
  /\ At(t, "upsc")
  /\ MayBeBlind
  /\ Goto(t, "dispatch", "blind")
  /\ UNCHANGED <<files, fields, world, history>>

(* A NUT event: upssched-cmd posts it once, handle_event gets it, unless   *)
(* the request fails.                                                      *)

BeginEvent(t, u, e) ==
  /\ e \in notices[u]
  /\ notices' = [notices EXCEPT ![u] = @ \ {e}]
  /\ Enter(t, u, IF e = "desktop_suspend_due" THEN "dispatch" ELSE "note", e, FALSE)
  /\ UNCHANGED <<files, fields, power, history>>

LoseNotice(u, e) ==
  /\ e \in notices[u]
  /\ notices' = [notices EXCEPT ![u] = @ \ {e}]
  /\ UNCHANGED <<files, fields, thread, power, history>>

\* _note_own_power: low battery counts as on battery, whatever else is shown.
IsOut(signal) == signal \in {"OB", "LB", "ONBATT", "LOWBATT"}

Note(t) ==
  LET u == thread[t].ups
      signal == thread[t].arg
  IN  /\ At(t, "note")
      /\ onBattery' = [onBattery EXCEPT ![u] = IsOut(signal)]
      /\ Goto(t, IF IsOut(signal) = onBattery[u] THEN "dispatch" ELSE "noteLog", signal)
      /\ UNCHANGED <<files, timer, startLock, actionLock, world, history>>

\* The outage log follows the flip: record_end, or record_start when a flow is
\* under way; otherwise the start that is to come opens the outage.
NoteLog(t) ==
  LET u == thread[t].ups
      signal == thread[t].arg
  IN  /\ At(t, "noteLog")
      /\ \/ /\ ~IsOut(signal)
            /\ OutageClosed(u)
            /\ Goto(t, "dispatch", signal)
         \/ /\ IsOut(signal)
            /\ UNCHANGED outage
            /\ Goto(t, IF mode[u] \in {Monitoring, ShuttingDown} THEN "noteOpen" ELSE "dispatch", signal)
      /\ UNCHANGED <<mode, phase, reported, command, fields, world, history>>

NoteOpen(t) ==
  /\ At(t, "noteOpen")
  /\ OutageOpened(thread[t].ups)
  /\ Goto(t, "dispatch", thread[t].arg)
  /\ UNCHANGED <<mode, phase, reported, command, fields, world, history>>

\* handle_ups_status_transition, handle_ups_status_unavailable and handle_event
\* read the mode once and act on what they read.
LowSignals == {"LB", "LOWBATT"}
Resting == {Idle, DesktopHandled}

LeftAlone(signal, m) ==
  \/ signal \in LowSignals \cup {"OB"} /\ m = ShuttingDown
  \/ signal = "ONBATT" /\ m \notin Resting
  \/ signal = "blind" /\ m \in {ShuttingDown, DesktopHandled}
  \/ signal = "desktop_suspend_due" /\ m # Monitoring

Dispatch(t) ==
  LET m == mode[thread[t].ups]
      signal == thread[t].arg
  IN  /\ At(t, "dispatch")
      /\ \/ signal \in LowSignals /\ m = Monitoring /\ Goto(t, "exec", "low")
         \/ signal \in LowSignals /\ m \in Resting /\ Goto(t, "start", "low")
         \/ signal \in {"OB", "ONBATT"} /\ m \in Resting /\ Goto(t, "lock", "own")
         \/ signal \in {"OB", "blind"} /\ m = Monitoring /\ Goto(t, "check", "none")
         \/ signal \in {"OL", "ONLINE"} /\ Goto(t, "follow", m)
         \/ signal = "blind" /\ m = Idle /\ Goto(t, "followBlind", "none")
         \/ signal = "desktop_suspend_due" /\ m = Monitoring /\ Goto(t, "exec", "due")
         \/ LeftAlone(signal, m) /\ Finish(t)
      /\ UNCHANGED <<files, fields, world, history>>

StandsDownFrom(seen) == seen # Idle

\* _follow_desktop_ups, with the mode that was read before.
Follow(t) ==
  LET u == thread[t].ups
      seen == thread[t].arg
  IN  /\ At(t, "follow")
      /\ \/ DesktopUpsOnBattery(u) /\ seen = Idle /\ Goto(t, "lock", "desktop")
         \/ DesktopUpsOnBattery(u) /\ seen = Monitoring /\ Goto(t, "check", "none")
         \/ DesktopUpsOnBattery(u) /\ seen \in {ShuttingDown, DesktopHandled} /\ Finish(t)
         \/ ~DesktopUpsOnBattery(u) /\ StandsDownFrom(seen) /\ Goto(t, "reset", "none")
         \/ ~DesktopUpsOnBattery(u) /\ ~StandsDownFrom(seen) /\ Finish(t)
      /\ UNCHANGED <<files, fields, world, history>>

FollowBlind(t) ==
  LET u == thread[t].ups
  IN  /\ At(t, "followBlind")
      /\ \/ DesktopUpsOnBattery(u) /\ Goto(t, "lock", "desktop")
         \/ ~DesktopUpsOnBattery(u) /\ Finish(t)
      /\ UNCHANGED <<files, fields, world, history>>

-----------------------------------------------------------------------------
(* Starting to monitor the battery.                                        *)

\* _start_monitoring_if_mode: only the desktop-only start insists on idle.
StartAllowed(u, why) == mode[u] = Idle \/ (why = "own" /\ mode[u] = DesktopHandled)

Lock(t) ==
  LET u == thread[t].ups
  IN  /\ At(t, "lock")
      /\ StartLockFree(u)
      /\ \/ /\ StartAllowed(u, thread[t].arg)
            /\ startLock' = [startLock EXCEPT ![u] = t]
            /\ Goto(t, "start", "locked")
         \/ /\ ~StartAllowed(u, thread[t].arg)
            /\ Finish(t)
            /\ UNCHANGED startLock
      /\ UNCHANGED <<files, onBattery, timer, actionLock, world, history>>

\* Only a primary with a desktop coordinates one.
Coordinates(u) == u \in Primary /\ DesktopOf[u] # NoDesktop

\* _start_battery_monitoring: an outage is opened if the flag says so.  The
\* mode that is read first is not looked at again.
Start(t) ==
  /\ At(t, "start")
  /\ Goto(t, IF onBattery[thread[t].ups] THEN "startLog" ELSE "choose", "none")
  /\ UNCHANGED <<files, fields, world, history>>

StartLog(t) ==
  /\ At(t, "startLog")
  /\ OutageOpened(thread[t].ups)
  /\ Goto(t, "choose", "none")
  /\ UNCHANGED <<mode, phase, reported, command, fields, world, history>>

\* The answer of the desktop decides the phase.
Choose(t) ==
  LET u == thread[t].ups
  IN  /\ At(t, "choose")
      /\ \/ /\ ~Coordinates(u)
            /\ Goto(t, "save", OfflineWait)
            /\ UNCHANGED reported
         \/ /\ Coordinates(u) /\ DesktopAnswers(u)
            /\ Goto(t, "save", UserPrompt)
         \/ /\ Coordinates(u) /\ DesktopSilent(u)
            /\ Goto(t, "save", IF reported[u] = "down" THEN OfflineWait ELSE SuspendWait)
      /\ UNCHANGED <<mode, phase, command, outage, fields, world, history>>

\* save_orchestrator_state, over whatever the file holds by now.
Save(t) ==
  LET u == thread[t].ups
  IN  /\ At(t, "save")
      /\ SetMode(u, Monitoring)
      /\ phase' = [phase EXCEPT ![u] = thread[t].arg]
      /\ Goto(t, "arm", thread[t].arg)
      /\ UNCHANGED <<reported, command, outage, fields, world, wasOut>>

\* What a start does last: the locked one lets the next one in, the one of a
\* low battery goes on to execute the phase action at once.
EndStart(t) ==
  LET u == thread[t].ups
  IN  \/ /\ startLock[u] = t
         /\ startLock' = [startLock EXCEPT ![u] = NoThread]
         /\ Finish(t)
      \/ /\ startLock[u] # t
         /\ Goto(t, "exec", "low")
         /\ UNCHANGED startLock

Arm(t) ==
  LET u == thread[t].ups
  IN  /\ At(t, "arm")
      /\ timer' = [timer EXCEPT ![u] = TRUE]
      /\ \/ /\ thread[t].arg = UserPrompt
            /\ Goto(t, "prompt", UserPrompt)
            /\ UNCHANGED startLock
         \/ thread[t].arg # UserPrompt /\ EndStart(t)
      /\ UNCHANGED <<files, onBattery, actionLock, world, history>>

\* The user is asked: the command is saved, then pushed.
Prompt(t) ==
  /\ At(t, "prompt")
  /\ command' = [command EXCEPT ![thread[t].ups] = "ups_state"]
  /\ Goto(t, "prompted", "none")
  /\ UNCHANGED <<mode, phase, reported, outage, fields, world, history>>

Prompted(t) ==
  /\ At(t, "prompted")
  /\ EndStart(t)
  /\ UNCHANGED <<files, onBattery, timer, actionLock, world, history>>

-----------------------------------------------------------------------------
(* The end of a phase.                                                     *)

\* _check_phase_deadline
DeadlineReached(t) ==
  /\ At(t, "check")
  /\ Goto(t, "exec", "due")
  /\ UNCHANGED <<files, fields, world, history>>

DeadlineAhead(t) ==
  /\ At(t, "check")
  /\ Finish(t)
  /\ UNCHANGED <<files, fields, world, history>>

TimerFires(t, u) ==
  /\ timer[u]
  /\ timer' = [timer EXCEPT ![u] = FALSE]
  /\ Enter(t, u, "exec", "due", FALSE)
  /\ UNCHANGED <<files, onBattery, startLock, actionLock, world, history>>

\* _execute_phase_action: the test of the mode and the save are one under
\* _action_lock.  A primary remembers its phase, an observer the reason.
ExecRead(t) ==
  LET u == thread[t].ups
  IN  /\ At(t, "exec")
      /\ ActionLockFree(u)
      /\ \/ /\ mode[u] = Monitoring
            /\ actionLock' = [actionLock EXCEPT ![u] = t]
            /\ Goto(t, "execSave", IF u \in Observer THEN thread[t].arg ELSE phase[u])
         \/ /\ mode[u] # Monitoring
            /\ Finish(t)
            /\ UNCHANGED actionLock
      /\ UNCHANGED <<files, onBattery, timer, startLock, world, history>>

WorkerFor(u, why) ==
  CASE u \in Observer /\ why = "low" -> "terminal"
    [] u \in Observer /\ why # "low" -> "hold"
    [] u \in Primary /\ why = UserPrompt -> "force"
    [] u \in Primary /\ why = SuspendWait -> "wake"
    [] OTHER -> "terminal"

ExecSave(t) ==
  LET u == thread[t].ups
  IN  /\ At(t, "execSave")
      /\ SetMode(u, ShuttingDown)
      /\ OutageInitiated(u)
      /\ actionLock' = [actionLock EXCEPT ![u] = NoThread]
      /\ Become(t, WorkerFor(u, thread[t].arg))
      /\ UNCHANGED <<phase, reported, command, onBattery, timer, startLock, world, wasOut>>

-----------------------------------------------------------------------------
(* Mains is back: _reset_to_idle.                                          *)

Reset(t) ==
  /\ At(t, "reset")
  /\ OutageClosed(thread[t].ups)
  /\ Goto(t, "leave", "none")
  /\ UNCHANGED <<mode, phase, reported, command, fields, world, history>>

Leave(t) ==
  LET u == thread[t].ups
  IN  /\ At(t, "leave")
      /\ ActionLockFree(u)
      /\ LeaveMonitoring(u, Idle)
      /\ Goto(t, "cancel", "none")
      /\ UNCHANGED <<reported, command, outage, onBattery, startLock, actionLock, world, wasOut>>

\* The pending command is read, then written back as cancelled; no lock.
CancelRead(t) ==
  LET u == thread[t].ups
  IN  /\ At(t, "cancel")
      /\ \/ command[u] # "none" /\ Goto(t, "cancelSave", "none")
         \/ command[u] = "none" /\ Finish(t)
      /\ UNCHANGED <<files, fields, world, history>>

CancelSave(t) ==
  /\ At(t, "cancelSave")
  /\ command' = [command EXCEPT ![thread[t].ups] = "none"]
  /\ Finish(t)
  /\ UNCHANGED <<mode, phase, reported, outage, fields, world, history>>

-----------------------------------------------------------------------------
(* What the desktop says: server.py update_state, ack and desktop_state.   *)

BeginReport(t, u, s) ==
  /\ Enter(t, u, "notify", s, FALSE)
  /\ reported' = [reported EXCEPT ![u] = IF s = "down" THEN "down" ELSE "up"]
  /\ UNCHANGED <<mode, phase, command, outage, fields, world, history>>

\* notify_desktop_state_change: the state is read without a lock.
NotifyRead(t) ==
  LET u == thread[t].ups
      s == thread[t].arg
      minds == u \in Primary /\ mode[u] = Monitoring
  IN  /\ At(t, "notify")
      /\ \/ minds /\ s = "down" /\ Goto(t, "notifyDown", "none")
         \/ minds /\ s = "suspended" /\ phase[u] = UserPrompt /\ Goto(t, "notifySuspend", "none")
         \/ ~(minds /\ (s = "down" \/ (s = "suspended" /\ phase[u] = UserPrompt))) /\ Finish(t)
      /\ UNCHANGED <<files, fields, world, history>>

NotifyDown(t) ==
  LET u == thread[t].ups
  IN  /\ At(t, "notifyDown")
      /\ ActionLockFree(u)
      /\ \/ /\ mode[u] = ShuttingDown
            /\ Finish(t)
            /\ UNCHANGED <<mode, outage, acted>>
         \/ /\ mode[u] # ShuttingDown
            /\ SetMode(u, ShuttingDown)
            /\ OutageInitiated(u)
            /\ Become(t, "terminal")
      /\ UNCHANGED <<phase, reported, command, fields, world, wasOut>>

\* The state read in NotifyRead is written back with a new phase; the timer
\* that is armed for the old one is left as it is.
NotifySuspend(t) ==
  LET u == thread[t].ups
  IN  /\ At(t, "notifySuspend")
      /\ SetMode(u, Monitoring)
      /\ phase' = [phase EXCEPT ![u] = SuspendWait]
      /\ Finish(t)
      /\ UNCHANGED <<reported, command, outage, fields, world, wasOut>>

BeginAck(t, u) ==
  /\ command[u] # "none"
  /\ Enter(t, u, "ackSave", "none", FALSE)
  /\ UNCHANGED <<files, fields, world, history>>

AckSave(t) ==
  /\ At(t, "ackSave")
  /\ command' = [command EXCEPT ![thread[t].ups] = "none"]
  /\ Finish(t)
  /\ UNCHANGED <<mode, phase, reported, outage, fields, world, history>>

AskDesktop(u) ==
  /\ DesktopAnswers(u)
  /\ UNCHANGED <<mode, phase, command, outage, fields, thread, world, history>>

-----------------------------------------------------------------------------
(* Workers.                                                                *)

\* _action_force_shutdown_desktop, and the end of _action_wake_then_shutdown.
PushShutdown(t) ==
  /\ At(t, "force")
  /\ command' = [command EXCEPT ![thread[t].ups] = "critical_shutdown"]
  /\ Goto(t, "wait", "none")
  /\ UNCHANGED <<mode, phase, reported, outage, fields, world, history>>

\* _action_wake_then_shutdown: one turn of the wake loop, its expiry, and the
\* last look at the mode before the push.
Wake(t) ==
  LET u == thread[t].ups
  IN  /\ At(t, "wake")
      /\ \/ mode[u] # ShuttingDown /\ Finish(t) /\ UNCHANGED reported
         \/ mode[u] = ShuttingDown /\ DesktopAnswers(u) /\ Goto(t, "wakePush", "none")
      /\ UNCHANGED <<mode, phase, command, outage, fields, world, history>>

WakeExpires(t) ==
  /\ At(t, "wake")
  /\ Goto(t, "wakePush", "none")
  /\ UNCHANGED <<files, fields, world, history>>

WakePush(t) ==
  LET u == thread[t].ups
  IN  /\ At(t, "wakePush")
      /\ \/ mode[u] # ShuttingDown /\ Finish(t)
         \/ mode[u] = ShuttingDown /\ Goto(t, "force", "none")
      /\ UNCHANGED <<files, fields, world, history>>

\* _wait_for_desktop_then_terminal_action
Wait(t) ==
  LET u == thread[t].ups
  IN  /\ At(t, "wait")
      /\ \/ mode[u] # ShuttingDown /\ Finish(t)
         \/ mode[u] = ShuttingDown /\ reported[u] = "down" /\ Goto(t, "terminal", "none")
      /\ UNCHANGED <<files, fields, world, history>>

WaitExpires(t) ==
  /\ At(t, "wait")
  /\ Goto(t, "terminal", "none")
  /\ UNCHANGED <<files, fields, world, history>>

\* A primary on mains has only coordinated the desktop.
PowersOff(u) == u \in Observer \/ onBattery[u]

\* _terminal_action, up to the call that cannot be taken back.
Terminal(t) ==
  LET u == thread[t].ups
  IN  /\ At(t, "terminal")
      /\ ActionLockFree(u)
      /\ \/ /\ mode[u] # ShuttingDown
            /\ Finish(t)
            /\ UNCHANGED actionLock
         \/ /\ mode[u] = ShuttingDown /\ ~PowersOff(u)
            /\ actionLock' = [actionLock EXCEPT ![u] = t]
            /\ Goto(t, "settle", "none")
         \/ /\ mode[u] = ShuttingDown /\ PowersOff(u)
            /\ Goto(t, IF u \in Observer THEN "cut" ELSE "fsd", "none")
            /\ UNCHANGED actionLock
      /\ UNCHANGED <<files, onBattery, timer, startLock, world, history>>

\* The desktop is handled, the server stays up; still under the lock.
Settle(t) ==
  LET u == thread[t].ups
  IN  /\ At(t, "settle")
      /\ LeaveMonitoring(u, DesktopHandled)
      /\ actionLock' = [actionLock EXCEPT ![u] = NoThread]
      /\ Finish(t)
      /\ UNCHANGED <<reported, command, outage, onBattery, startLock, world, wasOut>>

\* _observer_power_off_when_desktop_safe: one turn is a look at the mode, then
\* one at the owners of the desktop and at the battery.
Hold(t) ==
  LET u == thread[t].ups
  IN  /\ At(t, "hold")
      /\ \/ DesktopPeers(u, Primary) = {} /\ Goto(t, "cut", "none")
         \/ DesktopPeers(u, Primary) # {} /\ mode[u] # ShuttingDown /\ Finish(t)
         \/ DesktopPeers(u, Primary) # {} /\ mode[u] = ShuttingDown /\ Goto(t, "look", "none")
      /\ UNCHANGED <<files, fields, world, history>>

OwnersAreDone(u) ==
  \E o \in DesktopPeers(u, Primary) : reported[o] = "down" \/ mode[o] = DesktopHandled

Look(t) ==
  LET u == thread[t].ups
  IN  /\ At(t, "look")
      /\ \/ /\ OwnersAreDone(u) \/ LowBattery(power[u])
            /\ Goto(t, "cut", "none")
         \/ /\ ~OwnersAreDone(u) /\ (MayBeBlind \/ ~LowBattery(power[u]))
            /\ Goto(t, "hold", "none")
      /\ UNCHANGED <<files, fields, world, history>>

HoldExpires(t) ==
  /\ At(t, "hold")
  /\ Goto(t, "cut", "none")
  /\ UNCHANGED <<files, fields, world, history>>

\* _self_shutdown runs upsmon -c fsd, _power_off_ups runs upscmd: each once.
Issue(t) ==
  LET u == thread[t].ups
  IN  /\ At(t, "fsd") \/ At(t, "cut")
      /\ acted' = [acted EXCEPT ![u] = acted[u] \/ mode[u] = ShuttingDown]
      /\ Finish(t)
      /\ UNCHANGED <<files, fields, world, wasOut>>

-----------------------------------------------------------------------------
(* The world outside.                                                      *)

\* What upsmon and upssched make of a change, as upssched.conf configures it.
NoticesOf(from, to) ==
   (IF ~OffMains(from) /\ OffMains(to) THEN {"ONBATT", "desktop_suspend_due"} ELSE {})
   \cup (IF OffMains(from) /\ ~OffMains(to) THEN {"ONLINE"} ELSE {})
   \cup (IF ~LowBattery(from) /\ LowBattery(to) THEN {"LOWBATT"} ELSE {})

PowerChange(u, to) ==
  /\ to # power[u]
  /\ power' = [power EXCEPT ![u] = to]
  /\ notices' = [notices EXCEPT ![u] = @ \cup (NoticesOf(power[u], to) \cap Notices[u])]
  /\ wasOut' = [wasOut EXCEPT ![u] = @ \/ OffMains(to)]
  /\ UNCHANGED <<files, fields, thread, acted>>

ModeAfterRestart(u) == Idle

\* The process is killed and started again: reset_state_on_startup runs for
\* every UPS before any thread.  Posts under way fail; the suspend timer of
\* upssched lives on.
Restart ==
  /\ MayRestart
  /\ mode' = [u \in UPS |-> ModeAfterRestart(u)]
  /\ phase' = [u \in UPS |-> "none"]
  /\ command' = [u \in UPS |-> IF command[u] = "critical_shutdown" THEN "none" ELSE command[u]]
  /\ outage' = [u \in UPS |-> IF outage[u] = "initiated" THEN "closed" ELSE outage[u]]
  /\ onBattery' = [u \in UPS |-> FALSE]
  /\ timer' = [u \in UPS |-> FALSE]
  /\ startLock' = [u \in UPS |-> NoThread]
  /\ actionLock' = [u \in UPS |-> NoThread]
  /\ thread' = [t \in Thread |-> Free]
  /\ notices' = [u \in UPS |-> notices[u] \cap {"desktop_suspend_due"}]
  /\ acted' = [u \in UPS |-> FALSE]
  /\ wasOut' = [u \in UPS |-> OffMains(power[u])]
  /\ UNCHANGED <<reported, power>>

-----------------------------------------------------------------------------

Init ==
  /\ mode = [u \in UPS |-> Idle]
  /\ phase = [u \in UPS |-> "none"]
  /\ reported = [u \in UPS |-> "up"]
  /\ command = [u \in UPS |-> "none"]
  /\ outage = [u \in UPS |-> "closed"]
  /\ onBattery = [u \in UPS |-> FALSE]
  /\ timer = [u \in UPS |-> FALSE]
  /\ startLock = [u \in UPS |-> NoThread]
  /\ actionLock = [u \in UPS |-> NoThread]
  /\ thread = [t \in Thread |-> Free]
  /\ power \in {shown \in [UPS -> UNION {Reports[u] : u \in UPS}] :
                 \A u \in UPS : shown[u] \in Reports[u]}
  /\ notices = [u \in UPS |-> {}]
  /\ acted = [u \in UPS |-> FALSE]
  /\ wasOut = [u \in UPS |-> OffMains(power[u])]

\* What makes a free thread busy.
Begin(t, u) ==
  \/ BeginPoll(t, u)
  \/ \E e \in Notices[u] : BeginEvent(t, u, e)
  \/ TimerFires(t, u)
  \/ \E s \in Statuses[u] : BeginReport(t, u, s)
  \/ BeginAck(t, u)

\* What a busy thread does next.
Step(t) ==
  \/ ReadStatus(t) \/ ReadNothing(t) \/ Note(t) \/ NoteLog(t) \/ NoteOpen(t)
  \/ Dispatch(t) \/ Follow(t) \/ FollowBlind(t)
  \/ Lock(t) \/ Start(t) \/ StartLog(t) \/ Choose(t)
  \/ Save(t) \/ Arm(t) \/ Prompt(t) \/ Prompted(t)
  \/ DeadlineReached(t) \/ DeadlineAhead(t) \/ ExecRead(t) \/ ExecSave(t)
  \/ Reset(t) \/ Leave(t) \/ CancelRead(t) \/ CancelSave(t)
  \/ NotifyRead(t) \/ NotifyDown(t) \/ NotifySuspend(t) \/ AckSave(t)
  \/ PushShutdown(t) \/ Wake(t) \/ WakeExpires(t) \/ WakePush(t)
  \/ Wait(t) \/ WaitExpires(t) \/ Terminal(t) \/ Settle(t)
  \/ Hold(t) \/ Look(t) \/ HoldExpires(t) \/ Issue(t)

World ==
  \/ \E u \in UPS :
       \/ \E e \in Notices[u] : LoseNotice(u, e)
       \/ \E s \in Reports[u] : PowerChange(u, s)
       \/ AskDesktop(u)
  \/ Restart

Next ==
  \/ \E t \in Thread, u \in UPS : Begin(t, u)
  \/ \E t \in Thread : Step(t)
  \/ World

Spec == Init /\ [][Next]_vars


(* Fairness.  Every thread of the process keeps running; the poll loop and *)
(* the timer never stop; time passes, so a deadline that is checked again  *)
(* and again is reached in the end.  It is strong fairness where a step    *)
(* needs a free thread or a lock that others use in between: the code has  *)
(* no such limit on its threads.                                           *)
Fairness ==
  /\ \A t \in Thread : WF_vars(Step(t))
  /\ \A t \in Thread : SF_vars(DeadlineReached(t) \/ HoldExpires(t))
  /\ \A u \in UPS : SF_vars(\E t \in Thread : BeginPoll(t, u))
  /\ \A u \in UPS : SF_vars(\E t \in Thread : TimerFires(t, u))

FairSpec == Spec /\ Fairness

-----------------------------------------------------------------------------
(* Properties.                                                             *)

Signals ==
  {"OL", "OB", "LB", "blind", "ONLINE", "ONBATT", "LOWBATT", "desktop_suspend_due"}

Places ==
  {"free", "upsc", "note", "noteLog", "noteOpen", "dispatch", "follow", "followBlind",
   "lock", "start", "startLog", "choose", "save", "arm", "prompt", "prompted", "check", "exec", "execSave", "reset", "leave", "cancel",
   "cancelSave", "notify", "notifyDown", "notifySuspend", "ackSave"} \cup WorkerPlaces

Args ==
  Modes \cup Phases \cup Signals \cup
  {"none", "own", "desktop", "locked", "low", "due", "online", "suspended", "down"}

\* A busy thread serves a UPS, and a step that uses what an earlier one left for
\* it finds a value of the kind it expects.
ThreadsOK ==
  /\ thread \in [Thread -> [at : Places, ups : UPS \cup {NoUPS}, poll : BOOLEAN, arg : Args]]
  /\ \A t \in Thread :
       /\ thread[t].ups \in UPS \/ thread[t].at = "free"
       /\ thread[t].at \in {"note", "noteLog", "noteOpen", "dispatch"} => thread[t].arg \in Signals
       /\ thread[t].at = "follow" => thread[t].arg \in Modes
       /\ thread[t].at \in {"save", "arm"} => thread[t].arg \in Phases

\* The type invariant: what the files, the fields and the threads can hold.
TypeOK ==
  /\ mode \in [UPS -> Modes]
  /\ phase \in [UPS -> Phases \cup {"none"}]
  /\ reported \in [UPS -> {"up", "down"}]
  /\ command \in [UPS -> {"none", "ups_state", "critical_shutdown"}]
  /\ outage \in [UPS -> {"closed", "open", "initiated"}]
  /\ onBattery \in [UPS -> BOOLEAN]
  /\ timer \in [UPS -> BOOLEAN]
  /\ startLock \in [UPS -> Thread \cup {NoThread}]
  /\ actionLock \in [UPS -> Thread \cup {NoThread}]
  /\ ThreadsOK
  /\ power \in [UPS -> {"OL", "OB", "OB LB", "OL LB"}]
  /\ notices \in [UPS -> SUBSET {"ONLINE", "ONBATT", "LOWBATT", "desktop_suspend_due"}]
  /\ acted \in [UPS -> BOOLEAN]
  /\ wasOut \in [UPS -> BOOLEAN]

\* Every shutting_down that is on file is somebody's business: a worker is
\* under way for it, or the final command has been issued.  Nothing else would
\* ever finish it, for the polls and the events leave shutting_down alone.
ShutdownHasWorker ==
  \A u \in UPS : mode[u] = ShuttingDown =>
    acted[u] \/ \E t \in Thread : thread[t].ups = u /\ thread[t].at \in WorkerPlaces

\* A phase action never saves shutting_down over a stand-down: the mode it read
\* is still the mode when it writes (_execute_phase_action against
\* _reset_to_idle, notify_desktop_state_change and _terminal_action).
NoStaleShutdown ==
  \A t \in Thread : At(t, "execSave") => mode[thread[t].ups] = Monitoring

\* "this primary's own ONBATT and the desktop-only trigger can't both start
\* monitoring" (_start_lock).  A low battery starts without the lock.
SingleStart ==
  (\A u \in UPS : "LOWBATT" \notin Notices[u] /\ \A s \in Reports[u] : ~LowBattery(s)) =>
    \A t1, t2 \in Thread :
      /\ thread[t1].at \in StartPlaces
      /\ thread[t2].at \in StartPlaces
      /\ thread[t1].ups = thread[t2].ups
      => t1 = t2

\* A lock is held by a thread that is at work on that UPS and waits for no lock
\* itself, so no lock is lost by an early return and no threads wait on each
\* other.
LocksAreReleased ==
  \A u \in UPS, t \in Thread :
    /\ startLock[u] = t => thread[t].ups = u /\ thread[t].at \in StartPlaces
    /\ actionLock[u] = t => thread[t].ups = u /\ thread[t].at \in {"execSave", "settle"}

\* The server is shut down, or a UPS switched off, only if that very UPS has
\* been off mains since the process started: an outage of the desktop's UPS
\* alone does not end the server, and nothing that was on file before does.
NoShutdownWithoutOutage ==
  \A t \in Thread : At(t, "fsd") \/ At(t, "cut") => wasOut[thread[t].ups]

\* An observer never coordinates a desktop: no command of it, no prompt, no wake.
ObserverSparesDesktop ==
  \A u \in Observer :
    /\ command[u] = "none"
    /\ \A t \in Thread : thread[t].ups = u =>
         thread[t].at \notin {"prompt", "prompted", "force", "wake", "wakePush", "wait"}

Quiet(u) == \A t \in Thread : thread[t].ups # u

\* "the outage log follows it" (_note_own_power): when no thread is at work for a
\* UPS, its outage is on the log if it is handled as on battery, and is not if it
\* is idle on mains.
OutageLogFollowsPower ==
  \A u \in UPS : Quiet(u) =>
    /\ onBattery[u] /\ mode[u] \in {Monitoring, ShuttingDown} => outage[u] # "closed"
    /\ ~onBattery[u] /\ mode[u] = Idle => outage[u] = "closed"

\* "If power returns (ONLINE), any pending operations are automatically
\* cancelled" (README): at rest, no command is left pending.
CancelledWithTheOutage ==
  \A u \in UPS : Quiet(u) /\ mode[u] = Idle => command[u] = "none"

\* An outage that does not end is answered: the server is shut down, the UPS of
\* the desktop switched off.
OutageIsAnswered ==
  \A u \in UPS : (<>[]OffMains(power[u])) => <>[]acted[u]

\* When mains is back for good, everything comes to rest.
StandsDown ==
  (<>[](\A u \in UPS : power[u] = "OL")) => <>[](\A u \in UPS : mode[u] = Idle)

\* Monitoring the battery always ends: by the deadline, or by standing down.
Decides ==
  \A u \in UPS : mode[u] = Monitoring ~> mode[u] # Monitoring

-----------------------------------------------------------------------------
(* The promise.                                                            *)

Doing(place) ==
  CASE place = "settle" -> "spares"
    [] place \in {"fsd", "cut"} -> "issues"
    [] OTHER -> "works"

\* A thread is a hand from the step that saves shutting_down to its last one.
HandOf(t) ==
  IF thread[t].at \in WorkerPlaces
  THEN [of |-> thread[t].ups, does |-> Doing(thread[t].at)]
  ELSE [of |-> NoUPS, does |-> "nothing"]

Promise == INSTANCE Orchestration WITH
  Hand <- Thread, hand <- [t \in Thread |-> HandOf(t)], own <- onBattery

\* The threads of the contexts keep the promise of Orchestration: each final command
\* comes of a decision of its own, a primary commits to it only while its own power is
\* noted as out, work is left undone only when the decision was called off, and nobody
\* stands down or decides between the look and the save with which a server is spared.
KeepsPromise == Promise!Spec

=============================================================================
