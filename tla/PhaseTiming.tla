---------------------------- MODULE PhaseTiming -----------------------------
(***************************************************************************)
(* The waits of server/app/ups_context.py, against the clock: a primary    *)
(* and an observer that share a desktop, from the power failure to the     *)
(* terminal action.  UPSContext interleaves the handlers step by step and  *)
(* abstracts time; here a handler is one step, and time counts.            *)
(*                                                                         *)
(* One unit of time is a turn of the loops of the workers, time.sleep(5).  *)
(* Deadlines, timers and pauses are numbers of turns still to go.  Tick    *)
(* lets a turn pass, and only when nothing is due: a thread that is due    *)
(* runs before the turn is over.  What a request takes is part of the      *)
(* pause it comes with.  upsc answers, upscmd and upsmon do as told.       *)
(***************************************************************************)
EXTENDS Integers, FiniteSets

CONSTANTS
  OfflineWait,   \* desktop_offline_wait
  PromptWait,    \* desktop_online_prompt_wait
  SuspendWait,   \* desktop_suspend_wait
  WakeTimeout,   \* wake_online_timeout
  ShutdownWait,  \* desktop_shutdown_wait
  MaxWait,       \* observer_poweroff_max_wait
  SuspendDue,    \* the timer desktop_suspend_due of upssched.conf
  PollEvery,     \* at most this long from one poll of a UPS to the next
  Pass,          \* at most this long from one check of a worker to the next
  Push,          \* at most this long for the request that pushes a command
  Send,          \* at most this long for the magic packet a wake-up begins with
  Steady,        \* mains that has come back stays for at least this long
  MaxWorkers     \* bound on the workers of one UPS at one time

ASSUME WaitsAssumption ==
  /\ {OfflineWait, PromptWait, SuspendWait, WakeTimeout, ShutdownWait, MaxWait,
      SuspendDue, PollEvery, Pass, MaxWorkers} \subseteq Nat \ {0}
  /\ {Push, Send, Steady} \subseteq Nat

VARIABLES
  power,     \* of each UPS: "OL", "OB" or "LB"
  up,        \* the desktop is up, and not asleep or off
  due,       \* of each UPS: NUT's timer desktop_suspend_due, or Off
  pollIn,    \* turns to the next poll
  polling,   \* UPSs this poll has still to handle
  ctx,       \* of each UPS: mode, phase, phase_deadline, timer, _ups_on_battery
  worker,    \* the worker threads
  gone,      \* desktop_state.json: the last status was "offline" or "shutting_down"
  halted,    \* the server is shutting down
  cut,       \* why the observer's UPS was told to cut the power, or "none"
  \* History.
  out,       \* turns since the primary's UPS left mains
  calm,      \* turns since the observer's UPS came back on mains, up to Steady
  flows,     \* flows of the primary in this outage of the observer, up to 2
  stood      \* turns since the observer stood down, up to Pass + 1

outside == <<power, up, due>>
polls   == <<pollIn, polling>>
ends    == <<halted, cut>>
server  == <<ctx, worker, gone, ends>>
history == <<out, calm, flows, stood>>
vars    == <<outside, polls, server, history>>

-----------------------------------------------------------------------------
(* Faults.  Variants of definitions below, each with a mistake this code   *)
(* could have had: with one of them in place, a property below must fail.  *)

LessForEver(n) == n - 1
WaitsForReport(w) ==
  /\ worker[w].at = "confirm" /\ worker[w].nap = 0
  /\ \/ ctx[w[1]].mode # "shutting_down" /\ worker' = [worker EXCEPT ![w].at = "none", ![w].left = 0]
        /\ UNCHANGED <<ctx, ends>>
     \/ /\ ctx[w[1]].mode = "shutting_down" /\ gone
        /\ worker' = [worker EXCEPT ![w].at = "none", ![w].left = 0]
        /\ ctx' = [ctx EXCEPT !["primary"].mode = IF @ # "shutting_down" \/ ctx["primary"].known
                                                  THEN @ ELSE "desktop_handled"]
        /\ halted' = ctx["primary"].known /\ UNCHANGED cut
     \/ /\ ctx[w[1]].mode = "shutting_down" /\ ~gone
        /\ worker' = [worker EXCEPT ![w].nap = 1] /\ UNCHANGED <<ctx, ends>>
  /\ UNCHANGED <<outside, polls, gone, history>>
LeavesNutTimer ==
  /\ power["primary"] # "OL"
  /\ power' = [power EXCEPT !["primary"] = "OL"]
  /\ out' = 0
  /\ UNCHANGED <<up, due, polls, server, calm, flows, stood>>
StaysMonitoring(c) == [c EXCEPT !.left = 0, !.timer = -1]
LooksOnlyAtTheEnd(w) ==
  /\ worker[w].at = "hold" /\ worker[w].nap = 0
  /\ \/ /\ worker[w].left = 0 \/ gone
        /\ worker' = [worker EXCEPT ![w].at = "none", ![w].left = 0]
        /\ cut' = IF gone THEN "down" ELSE IF ctx[w[1]].mode = "shutting_down" THEN "limit" ELSE cut
        /\ UNCHANGED halted
     \/ /\ worker[w].left > 0 /\ ~gone
        /\ \E n \in 1 .. Pass : worker' = [worker EXCEPT ![w].nap = n]
        /\ UNCHANGED ends
  /\ UNCHANGED <<outside, polls, ctx, gone, history>>
HoldsForShutdownWait ==
  [none |-> 0, hold |-> ShutdownWait, send |-> 0, wake |-> WakeTimeout, push |-> 0,
   confirm |-> ShutdownWait]

-----------------------------------------------------------------------------

UPS == {"primary", "observer"}
Off == -1
Wait == [user_prompt |-> PromptWait, suspend_wait |-> SuspendWait, offline_wait |-> OfflineWait]
Workers == UPS \X (1 .. MaxWorkers)
\* How long a worker waits at a place, and how long the request it begins there with
\* may take before it looks at anything.
Window ==
  [none |-> 0, hold |-> MaxWait, send |-> 0, wake |-> WakeTimeout, push |-> 0,
   confirm |-> ShutdownWait]
Request == [none |-> 0, hold |-> 0, send |-> Send, wake |-> 0, push |-> Push, confirm |-> 0]
Begun(at, nap) == [at |-> at, left |-> Window[at], nap |-> nap]
NoWorker == Begun("none", 0)

AtMost(a, b) == IF a < b THEN a ELSE b
Larger(a, b) == IF a < b THEN b ELSE a

-----------------------------------------------------------------------------
(* The context of a UPS.                                                   *)

\* _leave_monitoring
Rest(c, mode) ==
  [mode |-> mode, phase |-> "none", left |-> 0, timer |-> Off, known |-> c.known]
\* _start_battery_monitoring and its _arm_deadline_timer
Enter(c, phase) ==
  [mode |-> "monitoring", phase |-> phase, left |-> Wait[phase], timer |-> Wait[phase],
   known |-> c.known]

\* What the desktop's state means to a start.
PhaseOf(u) ==
  IF u = "observer" THEN "offline_wait"
  ELSE IF up THEN "user_prompt"
  ELSE IF gone THEN "offline_wait" ELSE "suspend_wait"

DesktopUpsOut(u) == u = "primary" /\ ctx["observer"].mode # "idle"

Become(u, c) == ctx' = [ctx EXCEPT ![u] = c]
Quiet(u, c) == Become(u, c) /\ UNCHANGED <<worker, ends>>

PowerOff(why) == cut' = why /\ UNCHANGED halted

\* _terminal_action, of a context that is shutting down.
Terminal(u, c) ==
  \/ u = "observer" /\ Become(u, c) /\ PowerOff("hurried")
  \/ u = "primary" /\ ~c.known /\ Become(u, Rest(c, "desktop_handled")) /\ UNCHANGED ends
  \/ u = "primary" /\ c.known /\ Become(u, c) /\ halted' = TRUE /\ UNCHANGED cut

Spawn(u, c, at) ==
  /\ Become(u, c)
  /\ \E k \in 1 .. MaxWorkers, nap \in 0 .. Request[at] :
       /\ worker[<<u, k>>] = NoWorker /\ \A i \in 1 .. k - 1 : worker[<<u, i>>] # NoWorker
       /\ worker' = [worker EXCEPT ![<<u, k>>] = Begun(at, nap)]
  /\ UNCHANGED ends

\* The phase is over: who looks at it later, or at its timer, looks at the mode first.
Over(c) == Rest(c, "shutting_down")

\* _execute_phase_action, of a context that is monitoring.
Execute(u, c, hurried) ==
  LET s == Over(c)
  IN  \/ u = "observer" /\ ~hurried /\ Spawn(u, s, "hold")
      \/ u = "observer" /\ hurried /\ Terminal(u, s) /\ UNCHANGED worker
      \/ u = "primary" /\ c.phase = "user_prompt" /\ Spawn(u, s, "push")
      \/ u = "primary" /\ c.phase = "suspend_wait" /\ Spawn(u, s, "send")
      \/ u = "primary" /\ c.phase = "offline_wait" /\ Terminal(u, s) /\ UNCHANGED worker

-----------------------------------------------------------------------------
(* The handlers.                                                           *)

\* A start of the primary counts as a flow; one of the observer finds the flow
\* that is already under way.
Starts(u) ==
  /\ flows' = IF u = "primary" THEN AtMost(flows + 1, 2)
              ELSE IF ctx["primary"].mode \in {"monitoring", "shutting_down"} THEN 1 ELSE 0
  /\ UNCHANGED stood
StartsNone == UNCHANGED <<flows, stood>>

Start(u, c) == Quiet(u, Enter(c, PhaseOf(u))) /\ Starts(u)

\* _check_phase_deadline
CheckDeadline(u, c) ==
  /\ \/ c.left = 0 /\ Execute(u, c, FALSE)
     \/ c.left > 0 /\ Quiet(u, c)
  /\ StartsNone

HandleLow(u, c) ==
  /\ power[u] = "LB"
  /\ \/ c.mode = "shutting_down" /\ Quiet(u, c) /\ StartsNone
     \/ c.mode = "monitoring" /\ Execute(u, c, TRUE) /\ StartsNone
     \/ /\ c.mode \in {"idle", "desktop_handled"}
        /\ Execute(u, Enter(c, PhaseOf(u)), TRUE) /\ Starts(u)

\* An event, other than a poll, does not look at the deadline here.
HandleOut(u, c, polled) ==
  /\ power[u] = "OB"
  /\ \/ c.mode \in {"idle", "desktop_handled"} /\ Start(u, c)
     \/ c.mode = "monitoring" /\ polled /\ CheckDeadline(u, c)
     \/ c.mode = "monitoring" /\ ~polled /\ Quiet(u, c) /\ StartsNone
     \/ c.mode = "shutting_down" /\ Quiet(u, c) /\ StartsNone

\* _follow_desktop_ups
HandleBack(u, c) ==
  /\ power[u] = "OL"
  /\ IF DesktopUpsOut(u)
     THEN \/ c.mode = "idle" /\ Start(u, c)
          \/ c.mode = "monitoring" /\ CheckDeadline(u, c)
          \/ c.mode \in {"shutting_down", "desktop_handled"} /\ Quiet(u, c) /\ StartsNone
     ELSE \/ c.mode = "idle" /\ Quiet(u, c) /\ StartsNone
          \/ /\ c.mode # "idle" /\ Quiet(u, Rest(c, "idle"))
             /\ stood' = IF u = "observer" THEN 0 ELSE stood
             /\ UNCHANGED flows

Handle(u, polled) ==
  LET c == [ctx[u] EXCEPT !.known = power[u] # "OL"]
  IN  HandleLow(u, c) \/ HandleOut(u, c, polled) \/ HandleBack(u, c)

\* fetch_state_from_desktop finds the desktop up, in a poll and in a start.
Seen(u) == u = "primary" /\ up
Resting(c) == c.mode \in {"idle", "desktop_handled"}

BeginPoll ==
  /\ pollIn = 0 /\ polling = {}
  /\ polling' = UPS
  /\ UNCHANGED <<outside, pollIn, server, history>>

\* _poll_device; the next poll comes when both UPSs have been handled.
Poll(u) ==
  /\ u \in polling
  /\ polling' = polling \ {u}
  /\ IF polling = {u} THEN pollIn' \in 1 .. PollEvery ELSE UNCHANGED pollIn
  /\ Handle(u, TRUE)
  /\ gone' = (gone /\ ~Seen(u))
  /\ UNCHANGED <<outside, out, calm>>

\* upssched-cmd, for an event that arrives while it is true; the hook that posts
\* LOWBATT of the primary then halts the server itself.
Notice(u) ==
  /\ Handle(u, FALSE)
  /\ gone' = (gone /\ ~(Seen(u) /\ Resting(ctx[u]) /\ ~Resting(ctx'[u])))
  /\ UNCHANGED <<outside, polls, out, calm>>

SuspendDueEvent(u) ==
  LET c == ctx[u]
  IN  /\ due[u] = 0
      /\ due' = [due EXCEPT ![u] = Off]
      /\ IF c.mode = "monitoring" THEN Execute(u, c, FALSE) ELSE Quiet(u, c)
      /\ UNCHANGED <<power, up, polls, gone, history>>

\* The callback of _arm_deadline_timer looks at the mode, not at the deadline.
TimerFires(u) ==
  LET c == [ctx[u] EXCEPT !.timer = Off]
  IN  /\ ctx[u].timer = 0
      /\ IF c.mode = "monitoring" THEN Execute(u, c, FALSE) ELSE Quiet(u, c)
      /\ UNCHANGED <<outside, polls, gone, history>>

-----------------------------------------------------------------------------
(* The workers.                                                            *)

Awake(w, at) == worker[w].at = at /\ worker[w].nap = 0
Set(w, r) == worker' = [worker EXCEPT ![w] = r]
Ends(w) == Set(w, NoWorker)
Nap(w, longest) == \E n \in 1 .. longest : Set(w, [worker[w] EXCEPT !.nap = n])
StoodDown(w) == ctx[w[1]].mode # "shutting_down"

\* Why the observer need not wait any longer.
Reason ==
  IF gone THEN "down"
  ELSE IF ctx["primary"].mode = "desktop_handled" THEN "finished"
  ELSE IF power["observer"] = "LB" THEN "low" ELSE "none"

\* _observer_power_off_when_desktop_safe: at the limit, the mode is not looked at again.
Hold(w) ==
  /\ Awake(w, "hold")
  /\ IF worker[w].left = 0 THEN Ends(w) /\ PowerOff("limit")
     ELSE \/ StoodDown(w) /\ Ends(w) /\ UNCHANGED ends
          \/ ~StoodDown(w) /\ Reason # "none" /\ Ends(w) /\ PowerOff(Reason)
          \/ ~StoodDown(w) /\ Reason = "none" /\ Nap(w, Pass) /\ UNCHANGED ends
  /\ UNCHANGED <<outside, polls, ctx, gone, history>>

\* _action_wake_then_shutdown: its first packet leaves before its deadline is set, and
\* the mode is not looked at in between.
FirstSent(w) ==
  /\ Awake(w, "send")
  /\ Set(w, Begun("wake", 0))
  /\ UNCHANGED <<outside, polls, ctx, gone, ends, history>>

\* Its loop, and what follows it.
WakeWindow(w) ==
  LET woken == worker[w].left > 0 /\ up
  IN  /\ Awake(w, "wake")
      /\ \/ StoodDown(w) /\ Ends(w) /\ UNCHANGED gone
         \/ ~StoodDown(w) /\ worker[w].left > 0 /\ ~woken /\ Nap(w, Pass) /\ UNCHANGED gone
         \/ /\ ~StoodDown(w) /\ (worker[w].left = 0 \/ woken)
            /\ \E nap \in 0 .. Push : Set(w, Begun("push", nap))
            /\ gone' = (gone /\ ~woken)
      /\ UNCHANGED <<outside, polls, ctx, ends, history>>

Pushed(w) ==
  /\ Awake(w, "push")
  /\ Set(w, Begun("confirm", 0))
  /\ UNCHANGED <<outside, polls, ctx, gone, ends, history>>

\* _wait_for_desktop_then_terminal_action
Confirm(w) ==
  /\ Awake(w, "confirm")
  /\ \/ StoodDown(w) /\ Ends(w) /\ UNCHANGED <<ctx, ends>>
     \/ /\ ~StoodDown(w) /\ (worker[w].left = 0 \/ gone)
        /\ Ends(w) /\ Terminal(w[1], ctx[w[1]])
     \/ ~StoodDown(w) /\ worker[w].left > 0 /\ ~gone /\ Nap(w, 1) /\ UNCHANGED <<ctx, ends>>
  /\ UNCHANGED <<outside, polls, gone, history>>

-----------------------------------------------------------------------------
(* The desktop and its reports to the primary.                             *)

\* notify_desktop_state_change
NotifyDown ==
  LET c == ctx["primary"]
  IN  IF c.mode = "monitoring" THEN Terminal("primary", Over(c))
      ELSE UNCHANGED <<ctx, ends>>
\* The deadline is a new one; the timer is the one of the prompt.
Falls(c) ==
  [mode |-> "monitoring", phase |-> "suspend_wait", left |-> SuspendWait, timer |-> c.timer,
   known |-> c.known]
NotifySuspended ==
  LET c == ctx["primary"]
  IN  /\ IF c.mode = "monitoring" /\ c.phase = "user_prompt"
         THEN Become("primary", Falls(c))
         ELSE UNCHANGED ctx
      /\ UNCHANGED ends

\* It falls asleep, or goes in any way that nobody hears of.
DesktopSleeps ==
  /\ up /\ up' = FALSE
  /\ \/ gone' = FALSE /\ NotifySuspended
     \/ UNCHANGED <<gone, ctx, ends>>
  /\ UNCHANGED <<power, due, polls, worker, history>>

DesktopLeaves ==
  /\ up /\ up' = FALSE
  /\ gone' = TRUE /\ NotifyDown
  /\ UNCHANGED <<power, due, polls, worker, history>>

DesktopComesUp ==
  /\ ~up /\ cut = "none" /\ up' = TRUE
  /\ gone' \in {gone, FALSE}
  /\ UNCHANGED <<power, due, polls, ctx, worker, ends, history>>

-----------------------------------------------------------------------------
(* Power.  The primary's battery holds out.                                *)

PrimaryFails ==
  /\ power["primary"] = "OL"
  /\ power' = [power EXCEPT !["primary"] = "OB"]
  /\ due' = [due EXCEPT !["primary"] = SuspendDue]
  /\ UNCHANGED <<up, polls, server, history>>

PrimaryReturns ==
  /\ power["primary"] # "OL"
  /\ power' = [power EXCEPT !["primary"] = "OL"]
  /\ due' = [due EXCEPT !["primary"] = Off] /\ out' = 0
  /\ UNCHANGED <<up, polls, server, calm, flows, stood>>

ObserverFails ==
  /\ power["observer"] = "OL" /\ calm = Steady
  /\ power' = [power EXCEPT !["observer"] = "OB"]
  /\ due' = [due EXCEPT !["observer"] = SuspendDue]
  /\ UNCHANGED <<up, polls, server, history>>

ObserverRunsLow ==
  /\ power["observer"] = "OB"
  /\ power' = [power EXCEPT !["observer"] = "LB"]
  /\ UNCHANGED <<up, due, polls, server, history>>

ObserverReturns ==
  /\ power["observer"] # "OL"
  /\ power' = [power EXCEPT !["observer"] = "OL"]
  /\ due' = [due EXCEPT !["observer"] = Off] /\ calm' = 0
  /\ UNCHANGED <<up, polls, server, out, flows, stood>>

\* The observer's UPS does as it was told, and comes back with the mains.
OutletsOff ==
  /\ cut # "none" /\ up
  /\ up' = FALSE
  /\ UNCHANGED <<power, due, polls, server, history>>

OutletsOn ==
  /\ cut # "none" /\ ~up /\ power["observer"] = "OL"
  /\ cut' = "none"
  /\ UNCHANGED <<outside, polls, ctx, worker, gone, halted, history>>

-----------------------------------------------------------------------------
(* Time.                                                                   *)

Less(n) == IF n > 0 THEN n - 1 ELSE n

Later(c) ==
  [mode |-> c.mode, phase |-> c.phase, left |-> Less(c.left), timer |-> Less(c.timer),
   known |-> c.known]
LaterWorker(w) == [at |-> w.at, left |-> Less(w.left), nap |-> Less(w.nap)]

\* From the failure to the shutdown: the next poll, the longest phase, the first packet
\* of a wake-up, and the windows of the workers with what their last pauses can add.
Longest == Larger(OfflineWait, Larger(PromptWait, SuspendWait))
AnswerBound == PollEvery + Longest + Send + WakeTimeout + Pass - 1 + Push + ShutdownWait

NothingDue ==
  /\ pollIn > 0
  /\ \A u \in UPS : due[u] # 0 /\ ctx[u].timer # 0
  /\ \A w \in Workers : worker[w].at # "none" => worker[w].nap > 0
  /\ cut # "none" => ~up

Tick ==
  /\ NothingDue
  /\ pollIn' = pollIn - 1 /\ due' = [u \in UPS |-> Less(due[u])]
  /\ ctx' = [u \in UPS |-> Later(ctx[u])]
  /\ worker' = [w \in Workers |-> LaterWorker(worker[w])]
  /\ out' = IF power["primary"] = "OL" THEN 0 ELSE AtMost(out + 1, AnswerBound + 1)
  /\ calm' = IF power["observer"] = "OL" THEN AtMost(calm + 1, Steady) ELSE 0
  /\ stood' = AtMost(stood + 1, Pass + 1)
  /\ UNCHANGED <<power, up, polling, gone, ends, flows>>

-----------------------------------------------------------------------------

Init ==
  /\ power = [u \in UPS |-> "OL"]
  /\ up \in BOOLEAN
  /\ due = [u \in UPS |-> Off]
  /\ pollIn = 0 /\ polling = {}
  /\ ctx = [u \in UPS |-> [mode |-> "idle", phase |-> "none", left |-> 0, timer |-> Off,
                           known |-> FALSE]]
  /\ worker = [w \in Workers |-> NoWorker]
  /\ gone \in BOOLEAN
  /\ halted = FALSE /\ cut = "none"
  /\ out = 0 /\ calm = Steady
  /\ flows = 0 /\ stood = Pass + 1

WorkerStep(w) == Hold(w) \/ FirstSent(w) \/ WakeWindow(w) \/ Pushed(w) \/ Confirm(w)
ServerStep ==
  \/ BeginPoll
  \/ \E u \in UPS : Poll(u) \/ Notice(u) \/ SuspendDueEvent(u) \/ TimerFires(u)
  \/ \E w \in Workers : WorkerStep(w)
OutsideStep ==
  \/ DesktopSleeps \/ DesktopLeaves \/ DesktopComesUp \/ OutletsOff \/ OutletsOn
  \/ PrimaryFails \/ PrimaryReturns
  \/ ObserverFails \/ ObserverRunsLow \/ ObserverReturns

\* A server that is shutting down does nothing any more that matters here.
Next == ~halted /\ (ServerStep \/ OutsideStep \/ Tick)

Spec == Init /\ [][Next]_vars

-----------------------------------------------------------------------------
(* Properties.                                                             *)

Context ==
  [mode : {"idle", "monitoring", "shutting_down", "desktop_handled"},
   phase : {"none", "user_prompt", "suspend_wait", "offline_wait"},
   left : Nat, timer : {Off} \cup Nat, known : BOOLEAN]
Worker == [at : {"none", "hold", "send", "wake", "push", "confirm"}, left : Nat, nap : Nat]

\* The type invariant.  The clocks stay within the bounds that Tick gives them.
TypeOK ==
  /\ power \in [UPS -> {"OL", "OB", "LB"}] /\ power["primary"] # "LB"
  /\ due \in [UPS -> {Off} \cup 0 .. SuspendDue]
  /\ pollIn \in 0 .. PollEvery /\ polling \subseteq UPS
  /\ ctx \in [UPS -> Context] /\ worker \in [Workers -> Worker]
  /\ {up, gone, halted} \subseteq BOOLEAN
  /\ cut \in {"none", "hurried", "limit", "down", "finished", "low"}
  /\ out \in 0 .. AnswerBound + 1 /\ calm \in 0 .. Steady
  /\ flows \in 0 .. 2 /\ stood \in 0 .. Pass + 1

\* A server on battery is shut down within a known time: whatever the desktop
\* does or does not answer, however it changes its state during a wait, whether
\* its own UPS was out before and whatever the flow was doing when the primary's
\* power failed too.
AnsweredInTime == power["primary"] # "OL" /\ ~halted => out <= AnswerBound

\* The phase of a UPS ends with its action, other than because its battery runs low
\* or the desktop has left.
Acts(u) ==
  /\ ctx[u].mode = "monitoring" /\ ctx'[u].mode \in {"shutting_down", "desktop_handled"}
  /\ power[u] # "LB" /\ up' = up

\* The user has all of the time of the prompt: no timer of an earlier outage and no
\* event of NUT cuts in.
PromptIsKept ==
  [][Acts("primary") /\ ctx["primary"].phase = "user_prompt" => ctx["primary"].left = 0]_vars

\* config.py: "Desktop suspended -> wait, then wake & shut down"; so, for every
\* phase, the action comes when its deadline has passed.
WaitsAreKept == [][\A u \in UPS : Acts(u) => ctx[u].left = 0]_vars

\* A worker of an outage that is over has noticed before the next one gets a
\* worker: the waits are longer than what a worker can sleep through.
Busy(u) == Cardinality({k \in 1 .. MaxWorkers : worker[<<u, k>>] # NoWorker})
OneWorker == [][\A u \in UPS : Busy(u)' > Busy(u) => Busy(u) = 0]_vars

\* A worker of the observer that comes to its limit cuts the power without another
\* look at the mode: not later than one pass after the observer stood down.
LateCutIsBounded ==
  [][cut' # cut /\ cut' \notin {"none", "hurried"} /\ ctx["observer"].mode # "shutting_down"
     => stood <= Pass]_vars

\* The observer gives up on the desktop, or takes it to be taken care of, only
\* when the primary has run its flow in this outage and has come to the end of
\* it; a primary that has had to begin again (its own power failed in between)
\* may be caught in its second flow.
CutFollowsFlow ==
  [][cut' # cut /\ cut' \in {"limit", "finished"}
     => \/ flows > 1
        \/ flows = 1 /\ ctx["primary"].mode \notin {"monitoring", "shutting_down"}]_vars
=============================================================================
