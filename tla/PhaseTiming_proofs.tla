------------------------- MODULE PhaseTiming_proofs -------------------------
(* For every length of the waits: the types, the time within which a server *)
(* on battery is shut down, how late an observer can still cut the power,   *)
(* and, where NUT's timer is long enough, the time the user is given.       *)
EXTENDS PhaseTiming, TLAPS

P == "primary"
O == "observer"

-----------------------------------------------------------------------------
(* The constants.                                                          *)

\* Every phase is waited for, and for at most Longest.
LEMMA WaitsTyped ==
  /\ {OfflineWait, PromptWait, SuspendWait, WakeTimeout, ShutdownWait, MaxWait,
      SuspendDue, PollEvery, Pass, MaxWorkers, Longest, AnswerBound} \subseteq Nat
  /\ PollEvery >= 1 /\ Pass >= 1
  /\ Push \in Nat /\ Send \in Nat /\ Steady \in Nat
  /\ \A phase \in {"user_prompt", "suspend_wait", "offline_wait"} :
       Wait[phase] \in Nat /\ Wait[phase] <= Longest
  /\ AnswerBound = PollEvery + Longest + Send + WakeTimeout + Pass - 1 + Push + ShutdownWait
<1>1. /\ OfflineWait \in Nat /\ PromptWait \in Nat /\ SuspendWait \in Nat /\ WakeTimeout \in Nat
      /\ ShutdownWait \in Nat /\ MaxWait \in Nat /\ SuspendDue \in Nat /\ PollEvery \in Nat
      /\ Pass \in Nat /\ MaxWorkers \in Nat /\ Push \in Nat /\ Send \in Nat
      /\ Steady \in Nat /\ PollEvery >= 1 /\ Pass >= 1
  BY WaitsAssumption, SMT
<1>2. /\ Longest \in Nat
      /\ OfflineWait <= Longest /\ PromptWait <= Longest /\ SuspendWait <= Longest
  BY <1>1, SMT DEF Longest, Larger
<1>3. AnswerBound \in Nat
  BY <1>1, <1>2, SMT DEF AnswerBound
<1>4. \A phase \in {"user_prompt", "suspend_wait", "offline_wait"} :
        Wait[phase] \in Nat /\ Wait[phase] <= Longest
  BY <1>1, <1>2, SMT DEF Wait
<1> QED
  BY <1>1, <1>2, <1>3, <1>4 DEF AnswerBound

LEMMA WindowsTyped ==
  /\ Window["none"] = 0 /\ Window["hold"] = MaxWait /\ Window["send"] = 0
  /\ Window["wake"] = WakeTimeout /\ Window["push"] = 0 /\ Window["confirm"] = ShutdownWait
  BY SMT DEF Window

LEMMA RequestTyped ==
  Request["hold"] = 0 /\ Request["send"] = Send /\ Request["push"] = Push
  BY SMT DEF Request

LEMMA BegunTyped ==
  ASSUME NEW at \in {"none", "hold", "send", "wake", "push", "confirm"}, NEW nap \in Nat
  PROVE  /\ Begun(at, nap) \in Worker
         /\ Begun(at, nap).at = at /\ Begun(at, nap).nap = nap /\ Begun(at, nap).left = Window[at]
<1>1. Window[at] \in Nat
  BY WaitsTyped, WindowsTyped, SMT
<1> QED
  BY <1>1, SMT DEF Begun, Worker

\* Both names of a worker.
LEMMA WorkerOf ==
  ASSUME TypeOK
  PROVE  \A u \in UPS, k \in 1 .. MaxWorkers : <<u, k>> \in Workers /\ worker[<<u, k>>] \in Worker
  BY SMT DEF TypeOK, Workers

-----------------------------------------------------------------------------
(* What the handlers do to the context of a UPS, in brief.                 *)

Typed == ctx' \in [UPS -> Context] /\ worker' \in [Workers -> Worker]
Ends2 == halted' \in BOOLEAN /\ cut' \in {cut, "hurried"}

OthersKeep(u) ==
  /\ \A v \in UPS : v # u => ctx'[v] = ctx[v]
  /\ \A v \in UPS, k \in 1 .. MaxWorkers : v # u => worker'[<<v, k>>] = worker[<<v, k>>]

\* What the final command leaves, of a context that is shutting down.
Finished(u) ==
  \/ u = O /\ ctx'[u].mode = "shutting_down" /\ halted' = halted
  \/ u = P /\ ctx'[u].mode = "shutting_down" /\ halted' = TRUE
  \/ u = P /\ ctx'[u].mode = "desktop_handled" /\ ~ctx'[u].known /\ halted' = halted

Hired(u) ==
  /\ ctx'[u].mode = "shutting_down" /\ halted' = halted
  /\ \E k \in 1 .. MaxWorkers :
       /\ worker[<<u, k>>] = NoWorker
       /\ \A i \in 1 .. MaxWorkers : i # k => worker'[<<u, i>>] = worker[<<u, i>>]
       /\ \/ u = O /\ worker'[<<u, k>>] = Begun("hold", 0)
          \/ u = P /\ \E nap \in 0 .. Send : worker'[<<u, k>>] = Begun("send", nap)
          \/ u = P /\ \E nap \in 0 .. Push : worker'[<<u, k>>] = Begun("push", nap)

Closed(u) == Finished(u) /\ worker' = worker
Executed(u) == Hired(u) \/ Closed(u)

\* Left as it is; or the desktop's report has changed the phase.
Left(u) ==
  /\ ctx'[u].mode = ctx[u].mode
  /\ \/ ctx'[u].phase = ctx[u].phase /\ ctx'[u].left = ctx[u].left
     \/ /\ u = P /\ ctx[u].phase = "user_prompt"
        /\ ctx'[u].phase = "suspend_wait" /\ ctx'[u].left = SuspendWait
  /\ ctx'[u].timer = ctx[u].timer \/ ctx[u].mode # "monitoring"
  /\ worker' = worker /\ halted' = halted /\ stood' = stood /\ flows' = flows

Began(u) ==
  /\ Resting(ctx[u]) /\ ctx'[u].mode = "monitoring"
  /\ ctx'[u].phase \in {"user_prompt", "suspend_wait", "offline_wait"}
  /\ u = O => ctx'[u].phase = "offline_wait"
  /\ ctx'[u].left = Wait[ctx'[u].phase] /\ ctx'[u].timer = Wait[ctx'[u].phase]
  /\ worker' = worker /\ halted' = halted /\ stood' = stood /\ Starts(u)

Rested(u) ==
  /\ power[u] = "OL" /\ ctx[u].mode # "idle" /\ ctx'[u].mode = "idle"
  /\ worker' = worker /\ halted' = halted /\ flows' = flows
  /\ stood' = IF u = O THEN 0 ELSE stood

\* A worker is hired at the end of a phase that asks for one, when a wait is over.
Ripe(u) ==
  /\ u = O \/ ctx[u].phase # "offline_wait"
  /\ ctx[u].left = 0 \/ ctx[u].timer = 0 \/ due[u] = 0

\* A UPS that runs low before it is monitored is handled at once.
Acted(u) ==
  /\ Executed(u) /\ stood' = stood
  /\ \/ ctx[u].mode = "monitoring" /\ (Closed(u) \/ Ripe(u)) /\ flows' = flows
     \/ u = O /\ power[u] = "LB" /\ Resting(ctx[u]) /\ Closed(u) /\ Starts(u)

Effect(u) == Typed /\ Ends2 /\ OthersKeep(u) /\ (Left(u) \/ Began(u) \/ Rested(u) \/ Acted(u))

\* A timer, or a report of the desktop, tells nothing to who is not monitoring.
Expires(u) == Effect(u) /\ (Left(u) \/ (ctx[u].mode = "monitoring" /\ Acted(u)))

LEMMA TerminalEffect ==
  ASSUME TypeOK, NEW u \in UPS, NEW c \in Context, c.mode = "shutting_down", Terminal(u, c)
  PROVE  /\ ctx' \in [UPS -> Context] /\ Ends2
         /\ \A v \in UPS : v # u => ctx'[v] = ctx[v]
         /\ ctx'[u].known = c.known /\ Finished(u)
<1>1. Rest(c, "desktop_handled") \in Context /\ Rest(c, "desktop_handled").known = c.known
      /\ Rest(c, "desktop_handled").mode = "desktop_handled"
  BY SMT DEF Rest, Context, Off
<1>2. ctx \in [UPS -> Context] /\ halted \in BOOLEAN
  BY DEF TypeOK
<1>3. CASE u = O /\ Become(u, c) /\ PowerOff("hurried")
  BY <1>2, <1>3, SMT DEF Become, PowerOff, Ends2, Finished, UPS, O, P
<1>4. CASE u = P /\ ~c.known /\ Become(u, Rest(c, "desktop_handled")) /\ UNCHANGED ends
  BY <1>1, <1>2, <1>4, SMT DEF Become, Ends2, ends, Finished, UPS, O, P
<1>5. CASE u = P /\ c.known /\ Become(u, c) /\ halted' = TRUE /\ UNCHANGED cut
  <2>1. ctx' \in [UPS -> Context] /\ ctx'[u] = c /\ \A v \in UPS : v # u => ctx'[v] = ctx[v]
    BY <1>2, <1>5, SMT DEF Become
  <2>2. Ends2
    BY <1>5 DEF Ends2
  <2> QED
    BY <1>5, <2>1, <2>2 DEF Finished
<1> QED
  BY <1>3, <1>4, <1>5 DEF Terminal, O, P

LEMMA SpawnEffect ==
  ASSUME TypeOK, NEW u \in UPS, NEW c \in Context, c.mode = "shutting_down",
         NEW at \in {"hold", "send", "push"}, Spawn(u, c, at),
         IF u = O THEN at = "hold" ELSE at # "hold"
  PROVE  Typed /\ Ends2 /\ OthersKeep(u) /\ Hired(u) /\ ctx'[u].known = c.known
<1>0. PICK k \in 1 .. MaxWorkers : \E nap \in 0 .. Request[at] :
        /\ worker[<<u, k>>] = NoWorker
        /\ worker' = [worker EXCEPT ![<<u, k>>] = Begun(at, nap)]
  BY DEF Spawn
<1>1. PICK nap \in 0 .. Request[at] :
        /\ worker[<<u, k>>] = NoWorker
        /\ worker' = [worker EXCEPT ![<<u, k>>] = Begun(at, nap)]
  BY <1>0
<1>2. Begun(at, nap) \in Worker /\ (at = "hold" => nap = 0)
  <2>1. Request[at] \in Nat
    BY RequestTyped, WaitsTyped
  <2>2. nap \in Nat
    BY <2>1, SMT
  <2>3. at = "hold" => nap = 0
    BY RequestTyped, SMT
  <2> QED
    BY <2>2, <2>3, BegunTyped
<1>3. ctx' \in [UPS -> Context] /\ ctx'[u] = c /\ \A v \in UPS : v # u => ctx'[v] = ctx[v]
  BY SMT DEF Spawn, Become, TypeOK
<1>4. worker' \in [Workers -> Worker] /\ worker'[<<u, k>>] = Begun(at, nap)
      /\ \A v \in UPS, i \in 1 .. MaxWorkers : <<v, i>> # <<u, k>> => worker'[<<v, i>>] = worker[<<v, i>>]
  BY <1>1, <1>2, SMT DEF Workers, TypeOK
<1>5. UNCHANGED ends /\ halted \in BOOLEAN
  BY DEF Spawn, TypeOK
<1>6. Hired(u)
  <2>1. /\ ctx'[u].mode = "shutting_down" /\ halted' = halted
        /\ worker[<<u, k>>] = NoWorker
        /\ \A i \in 1 .. MaxWorkers : i # k => worker'[<<u, i>>] = worker[<<u, i>>]
    BY <1>1, <1>3, <1>4, <1>5, SMT DEF ends
  <2>2. \/ u = O /\ worker'[<<u, k>>] = Begun("hold", 0)
        \/ u = P /\ \E n \in 0 .. Send : worker'[<<u, k>>] = Begun("send", n)
        \/ u = P /\ \E n \in 0 .. Push : worker'[<<u, k>>] = Begun("push", n)
    BY <1>1, <1>2, <1>4, RequestTyped DEF UPS, O, P
  <2> QED
    BY <2>1, <2>2 DEF Hired
<1> QED
  BY <1>3, <1>4, <1>5, <1>6, SMT DEF Typed, Ends2, ends, OthersKeep

LEMMA ExecuteEffect ==
  ASSUME TypeOK, NEW u \in UPS, NEW c \in Context, NEW hurried \in BOOLEAN, Execute(u, c, hurried)
  PROVE  /\ Typed /\ Ends2 /\ OthersKeep(u) /\ Executed(u) /\ ctx'[u].known = c.known
         /\ Closed(u) \/ (u = O /\ ~hurried) \/ (u = P /\ c.phase # "offline_wait")
<1> DEFINE s == Over(c)
<1>1. s \in Context /\ s.mode = "shutting_down" /\ s.known = c.known
  BY SMT DEF Over, Rest, Context, Off
<1>2. CASE Terminal(u, s) /\ UNCHANGED worker
  BY <1>1, <1>2, TerminalEffect DEF Executed, Closed, Typed, OthersKeep, TypeOK
<1>3. CASE u = O /\ ~hurried /\ Spawn(u, s, "hold")
  BY <1>1, <1>3, SpawnEffect DEF Executed
<1>4. CASE u = P /\ c.phase # "offline_wait" /\ Spawn(u, s, "push")
  BY <1>1, <1>4, SpawnEffect DEF Executed, O, P
<1>5. CASE u = P /\ c.phase # "offline_wait" /\ Spawn(u, s, "send")
  BY <1>1, <1>5, SpawnEffect DEF Executed, O, P
<1> QED
  BY <1>2, <1>3, <1>4, <1>5 DEF Execute, O, P

LEMMA QuietEffect ==
  ASSUME TypeOK, NEW u \in UPS, NEW c \in Context, Quiet(u, c), stood' = stood, flows' = flows,
         c.mode = ctx[u].mode, c.phase = ctx[u].phase, c.left = ctx[u].left,
         c.timer = ctx[u].timer \/ c.mode # "monitoring"
  PROVE  Effect(u) /\ Left(u) /\ ctx'[u].known = c.known /\ ctx'[u].mode = c.mode
<1>1. ctx' \in [UPS -> Context] /\ ctx'[u] = c /\ \A v \in UPS : v # u => ctx'[v] = ctx[v]
  BY SMT DEF Quiet, Become, TypeOK
<1>2. worker' = worker /\ halted' = halted /\ cut' = cut /\ Typed /\ Ends2 /\ OthersKeep(u)
  BY <1>1 DEF Quiet, ends, Typed, Ends2, OthersKeep, TypeOK
<1> QED
  BY <1>1, <1>2 DEF Left, Effect

LEMMA StartEffect ==
  ASSUME TypeOK, NEW u \in UPS, NEW c \in Context, Start(u, c), Resting(ctx[u])
  PROVE  Effect(u) /\ ctx'[u].known = c.known /\ ctx'[u].mode = "monitoring"
<1> DEFINE e == Enter(c, PhaseOf(u))
<1>1. PhaseOf(u) \in {"user_prompt", "suspend_wait", "offline_wait"}
      /\ (u = O => PhaseOf(u) = "offline_wait")
  BY DEF PhaseOf, O
<1>2. Wait[PhaseOf(u)] \in Nat
  BY <1>1, WaitsTyped
<1>3. e \in Context /\ e.mode = "monitoring" /\ e.phase = PhaseOf(u) /\ e.known = c.known
      /\ e.left = Wait[e.phase] /\ e.timer = Wait[e.phase]
  BY <1>1, <1>2, SMT DEF Enter, Context
<1>4. ctx' \in [UPS -> Context] /\ ctx'[u] = e /\ \A v \in UPS : v # u => ctx'[v] = ctx[v]
  BY <1>3, SMT DEF Start, Quiet, Become, TypeOK
<1>5. worker' = worker /\ halted' = halted /\ cut' = cut /\ stood' = stood
      /\ Typed /\ Ends2 /\ OthersKeep(u)
  BY <1>4 DEF Start, Quiet, Starts, ends, Typed, Ends2, OthersKeep, TypeOK
<1>6. Starts(u)
  BY DEF Start
<1> QED
  BY <1>1, <1>3, <1>4, <1>5, <1>6 DEF Began, Effect

\* A handler knows the power from then on: the UPS rests when it is on mains, other
\* than to follow the desktop's own UPS, and does not when it is on battery.
LEMMA HandleEffect ==
  ASSUME TypeOK, NEW u \in UPS, NEW polled \in BOOLEAN, Handle(u, polled)
  PROVE  /\ Effect(u) /\ ctx'[u].known = (power[u] # "OL")
         /\ power[u] = "OB" => ~Resting(ctx'[u])
         /\ (ctx'[u].mode = "idle") = (power[u] = "OL" /\ ~DesktopUpsOut(u))
         /\ flows' \in 0 .. 2 /\ stood' \in 0 .. Pass + 1
<1> DEFINE c == [ctx[u] EXCEPT !.known = power[u] # "OL"]
           Told == /\ Effect(u) /\ ctx'[u].known = (power[u] # "OL")
                   /\ power[u] = "OB" => ~Resting(ctx'[u])
                   /\ flows' \in 0 .. 2 /\ stood' \in 0 .. Pass + 1
<1>1. ctx[u] \in Context
  BY DEF TypeOK
<1>2. c \in Context
  BY <1>1, Zenon DEF Context
<1>3. c.known = (power[u] # "OL")
  BY <1>1, Zenon DEF Context
<1>4. c.mode = ctx[u].mode /\ c.phase = ctx[u].phase /\ c.left = ctx[u].left
      /\ c.timer = ctx[u].timer
  BY <1>1, SMT DEF Context
<1>5. ASSUME StartsNone
      PROVE  stood' = stood /\ flows' = flows /\ flows' \in 0 .. 2 /\ stood' \in 0 .. Pass + 1
  BY <1>5, SMT DEF StartsNone, TypeOK
<1>6. ASSUME NEW v \in UPS, Starts(v)
      PROVE  stood' = stood /\ flows' \in 0 .. 2 /\ stood' \in 0 .. Pass + 1
  BY <1>6, SMT DEF Starts, AtMost, TypeOK
<1> HIDE DEF c
<1>q. ASSUME Quiet(u, c), StartsNone, power[u] = "OB" => ~Resting(c)
      PROVE  Told /\ ctx'[u].mode = ctx[u].mode
  BY <1>q, <1>2, <1>3, <1>4, <1>5, QuietEffect DEF Resting
<1>s. ASSUME Start(u, c), Resting(c) PROVE Told /\ ctx'[u].mode = "monitoring"
  <2>1. Resting(ctx[u])
    BY <1>s, <1>4 DEF Resting
  <2>2. Starts(u)
    BY <1>s DEF Start
  <2> QED
    BY <1>s, <2>1, <2>2, <1>2, <1>3, <1>6, StartEffect DEF Resting
<1>e. ASSUME NEW d \in Context, NEW h \in BOOLEAN, Execute(u, d, h), d.known = c.known,
             \/ /\ ctx[u].mode = "monitoring" /\ d.phase = ctx[u].phase /\ StartsNone
                /\ (h /\ u = O) \/ ctx[u].left = 0
             \/ u = O /\ h /\ power[u] = "LB" /\ Resting(ctx[u]) /\ Starts(u)
      PROVE  Told /\ ctx'[u].mode # "idle"
  <2>1. Typed /\ Ends2 /\ OthersKeep(u) /\ Executed(u) /\ ctx'[u].known = d.known
        /\ (Closed(u) \/ (u = O /\ ~h) \/ (u = P /\ d.phase # "offline_wait"))
    BY <1>e, ExecuteEffect
  <2>2. stood' = stood /\ flows' \in 0 .. 2 /\ stood' \in 0 .. Pass + 1
    BY <1>e, <1>5, <1>6
  <2>3. Effect(u)
    BY <1>e, <1>5, <2>1, <2>2 DEF Effect, Acted, Ripe, O, P
  <2>4. ctx'[u].mode # "idle" /\ (power[u] = "OB" => ~Resting(ctx'[u]))
    BY <1>e, <1>3, <2>1 DEF Executed, Closed, Hired, Finished, Resting
  <2> QED
    BY <1>e, <1>3, <2>1, <2>2, <2>3, <2>4
<1>k. ASSUME CheckDeadline(u, c), c.mode = "monitoring" PROVE Told /\ ctx'[u].mode # "idle"
  <2>1. CASE c.left = 0 /\ Execute(u, c, FALSE) /\ StartsNone
    BY <2>1, <1>k, <1>2, <1>4, <1>e
  <2>2. CASE Quiet(u, c) /\ StartsNone
    BY <2>2, <1>k, <1>4, <1>q DEF Resting
  <2> QED
    BY <1>k, <2>1, <2>2 DEF CheckDeadline
<1>7. CASE HandleLow(u, c)
  <2>0. power[u] = "LB" /\ u = O
    BY <1>7 DEF HandleLow, TypeOK, UPS, O
  <2>1. CASE c.mode = "shutting_down" /\ Quiet(u, c) /\ StartsNone
    BY <2>0, <2>1, <1>4, <1>q
  <2>2. CASE c.mode = "monitoring" /\ Execute(u, c, TRUE) /\ StartsNone
    BY <2>0, <2>2, <1>2, <1>4, <1>e
  <2>3. CASE /\ c.mode \in {"idle", "desktop_handled"}
             /\ Execute(u, Enter(c, PhaseOf(u)), TRUE) /\ Starts(u)
    <3>1. PhaseOf(u) = "offline_wait" /\ Wait[PhaseOf(u)] \in Nat
      BY <2>0, WaitsTyped DEF PhaseOf, O
    <3>2. c.known \in BOOLEAN
      BY <1>3
    <3>3. Enter(c, PhaseOf(u)) \in Context /\ Enter(c, PhaseOf(u)).known = c.known
      BY <3>1, <3>2, SMT DEF Enter, Context
    <3>4. Resting(ctx[u])
      BY <2>3, <1>4 DEF Resting
    <3> QED
      BY <2>0, <2>3, <3>3, <3>4, <1>e
  <2> QED
    BY <1>7, <2>0, <2>1, <2>2, <2>3 DEF HandleLow
<1>8. CASE HandleOut(u, c, polled)
  <2>0. power[u] = "OB"
    BY <1>8 DEF HandleOut
  <2>1. CASE c.mode \in {"idle", "desktop_handled"} /\ Start(u, c)
    BY <2>0, <2>1, <1>s DEF Resting
  <2>2. CASE c.mode = "monitoring" /\ CheckDeadline(u, c)
    BY <2>0, <2>2, <1>k
  <2>3. CASE c.mode \in {"monitoring", "shutting_down"} /\ Quiet(u, c) /\ StartsNone
    BY <2>0, <2>3, <1>4, <1>q DEF Resting
  <2> QED
    BY <1>8, <2>1, <2>2, <2>3 DEF HandleOut
<1>9. CASE HandleBack(u, c)
  <2>0. power[u] = "OL"
    BY <1>9 DEF HandleBack
  <2>1. CASE DesktopUpsOut(u) /\ c.mode = "idle" /\ Start(u, c)
    BY <2>0, <2>1, <1>s DEF Resting
  <2>2. CASE DesktopUpsOut(u) /\ c.mode = "monitoring" /\ CheckDeadline(u, c)
    BY <2>0, <2>2, <1>k
  <2>3. CASE DesktopUpsOut(u) /\ c.mode # "idle" /\ Quiet(u, c) /\ StartsNone
    BY <2>0, <2>3, <1>4, <1>q
  <2>4. CASE ~DesktopUpsOut(u) /\ c.mode = "idle" /\ Quiet(u, c) /\ StartsNone
    BY <2>0, <2>4, <1>4, <1>q
  <2>5. CASE ~DesktopUpsOut(u) /\ c.mode # "idle" /\ Quiet(u, Rest(c, "idle"))
             /\ stood' = (IF u = "observer" THEN 0 ELSE stood) /\ UNCHANGED flows
    <3>1. Rest(c, "idle") \in Context /\ Rest(c, "idle").known = c.known
          /\ Rest(c, "idle").mode = "idle"
      BY <1>2, <1>3, SMT DEF Rest, Context, Off
    <3>2. ctx' \in [UPS -> Context] /\ ctx'[u] = Rest(c, "idle")
          /\ \A v \in UPS : v # u => ctx'[v] = ctx[v]
      BY <2>5, <3>1, SMT DEF Quiet, Become, TypeOK
    <3>3. worker' = worker /\ halted' = halted /\ cut' = cut /\ Typed /\ Ends2 /\ OthersKeep(u)
      BY <2>5, <3>2 DEF Quiet, ends, Typed, Ends2, OthersKeep, TypeOK
    <3>4. stood' \in 0 .. Pass + 1 /\ flows' \in 0 .. 2 /\ stood' = IF u = O THEN 0 ELSE stood
      BY <2>5, WaitsTyped, SMT DEF TypeOK, O
    <3> QED
      BY <1>3, <1>4, <2>0, <2>5, <3>1, <3>2, <3>3, <3>4 DEF Rested, Effect
  <2> QED
    BY <1>9, <2>1, <2>2, <2>3, <2>4, <2>5 DEF HandleBack
<1> QED
  BY <1>7, <1>8, <1>9 DEF Handle, c

LEMMA FallsEffect ==
  ASSUME TypeOK, NotifySuspended, UNCHANGED <<worker, stood, flows>>
  PROVE  Expires(P) /\ ctx'[P].known = ctx[P].known
<1> DEFINE c == ctx[P]
<1>0. c \in Context /\ P \in UPS
  BY DEF TypeOK, UPS, P
<1>1. CASE c.mode = "monitoring" /\ c.phase = "user_prompt" /\ Become(P, Falls(c))
  <2>1. Falls(c) \in Context /\ Falls(c).known = c.known /\ Falls(c).timer = c.timer
        /\ Falls(c).mode = "monitoring" /\ Falls(c).phase = "suspend_wait"
        /\ Falls(c).left = SuspendWait
    BY <1>0, WaitsTyped, SMT DEF Falls, Context
  <2>2. ctx' \in [UPS -> Context] /\ ctx'[P] = Falls(c) /\ \A v \in UPS : v # P => ctx'[v] = ctx[v]
    BY <1>0, <1>1, <2>1, SMT DEF Become, TypeOK
  <2>3. Left(P)
    BY <1>1, <2>1, <2>2 DEF Left, NotifySuspended, ends
  <2>4. Typed /\ OthersKeep(P) /\ Ends2
    BY <2>2 DEF Typed, OthersKeep, Ends2, NotifySuspended, ends, TypeOK
  <2> QED
    BY <2>1, <2>2, <2>3, <2>4 DEF Expires, Effect
<1>2. CASE UNCHANGED ctx
  BY <1>0, <1>2 DEF Expires, Effect, Left, Typed, OthersKeep, Ends2, NotifySuspended, ends, TypeOK
<1> QED
  BY <1>1, <1>2 DEF NotifySuspended, P

LEMMA DownEffect ==
  ASSUME TypeOK, NotifyDown, UNCHANGED <<worker, stood, flows>>
  PROVE  Expires(P) /\ ctx'[P].known = ctx[P].known
<1> DEFINE c == ctx[P]
<1>0. c \in Context /\ P \in UPS
  BY DEF TypeOK, UPS, P
<1>1. CASE c.mode = "monitoring" /\ Terminal(P, Over(c))
  <2>1. Over(c) \in Context /\ Over(c).mode = "shutting_down" /\ Over(c).known = c.known
    BY <1>0, SMT DEF Over, Rest, Context, Off
  <2> QED
    BY <1>0, <1>1, <2>1, TerminalEffect
       DEF Expires, Effect, Acted, Executed, Closed, Typed, OthersKeep, TypeOK
<1>2. CASE UNCHANGED <<ctx, ends>>
  BY <1>0, <1>2 DEF Expires, Effect, Left, Typed, OthersKeep, Ends2, ends, TypeOK
<1> QED
  BY <1>1, <1>2 DEF NotifyDown, P

-----------------------------------------------------------------------------
(* The steps, each as an effect on one context, a step of a worker, a       *)
(* change of the power or of the desktop, or a turn.                        *)

Gap == IF polling = {} \/ P \in polling THEN pollIn ELSE PollEvery

LEMMA PollStep ==
  ASSUME TypeOK, polling # {} => pollIn = 0, NEW u \in UPS, Poll(u)
  PROVE  /\ Effect(u) /\ ctx'[u].known = (power[u] # "OL")
         /\ power[u] = "OB" => ~Resting(ctx'[u])
         /\ (ctx'[u].mode = "idle") = (power[u] = "OL" /\ ~DesktopUpsOut(u))
         /\ flows' \in 0 .. 2 /\ stood' \in 0 .. Pass + 1
         /\ u = O => Gap' <= Gap
         /\ polling' # {} => pollIn' = 0
         /\ pollIn' \in 0 .. PollEvery /\ polling' \subseteq UPS /\ gone' \in BOOLEAN
<1>1. pollIn \in 0 .. PollEvery /\ polling \subseteq UPS /\ gone \in BOOLEAN
      /\ PollEvery \in Nat /\ u \in polling /\ polling' = polling \ {u} /\ pollIn = 0
  BY WaitsTyped DEF TypeOK, Poll
<1>2. IF polling = {u} THEN pollIn' \in 1 .. PollEvery ELSE pollIn' = pollIn
  BY DEF Poll
<1>3. pollIn' \in 0 .. PollEvery /\ polling' \subseteq UPS /\ (polling' # {} => pollIn' = 0)
  BY <1>1, <1>2, SMT
<1>4. ASSUME u = O PROVE Gap' <= Gap
  <2>1. CASE polling = {u}
    <3>1. Gap = PollEvery /\ Gap' = pollIn'
      BY <1>1, <2>1, <1>4 DEF Gap, O, P
    <3> QED
      BY <1>1, <1>2, <2>1, <3>1, SMT
  <2>2. CASE polling # {u}
    <3>1. P \in polling /\ P \in polling'
      <4>1. ASSUME P \notin polling PROVE polling = {u}
        BY <1>1, <1>4, <4>1 DEF UPS, O, P
      <4> QED
        BY <1>1, <1>4, <2>2, <4>1 DEF O, P
    <3> QED
      BY <1>1, <1>2, <2>2, <3>1, SMT DEF Gap
  <2> QED
    BY <2>1, <2>2
<1>5. gone' \in BOOLEAN
  BY <1>1 DEF Poll
<1> QED
  BY <1>3, <1>4, <1>5, HandleEffect DEF Poll

LEMMA TimerStep ==
  ASSUME TypeOK, NEW u \in UPS, TimerFires(u)
  PROVE  Expires(u) /\ ctx'[u].known = ctx[u].known /\ UNCHANGED <<outside, polls, gone, history>>
<1> DEFINE c == [ctx[u] EXCEPT !.timer = Off]
<1>1. ctx[u] \in Context
  BY DEF TypeOK
<1>2. c \in Context
  BY <1>1, SMT DEF Context, Off
<1>3. c.known = ctx[u].known
  BY <1>1, Zenon DEF Context
<1>4. c.mode = ctx[u].mode /\ c.phase = ctx[u].phase /\ c.left = ctx[u].left
  BY <1>1, SMT DEF Context
<1>5. stood' = stood /\ flows' = flows /\ ctx[u].timer = 0
  BY DEF TimerFires, history
<1>6. CASE c.mode = "monitoring" /\ Execute(u, c, FALSE)
  BY <1>2, <1>3, <1>4, <1>5, <1>6, ExecuteEffect DEF Expires, Effect, Acted, Ripe, TimerFires, O, P
<1>7. CASE c.mode # "monitoring" /\ Quiet(u, c)
  BY <1>2, <1>3, <1>4, <1>5, <1>7, QuietEffect DEF Expires, TimerFires
<1> QED
  BY <1>6, <1>7 DEF TimerFires

LEMMA DueStep ==
  ASSUME TypeOK, NEW u \in UPS, SuspendDueEvent(u)
  PROVE  /\ Expires(u) /\ ctx'[u].known = ctx[u].known
         /\ due[u] = 0 /\ due' = [due EXCEPT ![u] = Off]
         /\ UNCHANGED <<power, up, polls, gone, history>>
<1>1. ctx[u] \in Context
  BY DEF TypeOK
<1>2. due[u] = 0 /\ due' = [due EXCEPT ![u] = Off] /\ UNCHANGED <<power, up, polls, gone, history>>
  BY DEF SuspendDueEvent
<1>3. CASE ctx[u].mode = "monitoring" /\ Execute(u, ctx[u], FALSE)
  BY <1>1, <1>2, <1>3, ExecuteEffect DEF Expires, Effect, Acted, Ripe, history, O, P
<1>4. CASE Quiet(u, ctx[u])
  BY <1>1, <1>2, <1>4, QuietEffect DEF Expires, history
<1> QED
  BY <1>2, <1>3, <1>4 DEF SuspendDueEvent

LEMMA SleepStep ==
  ASSUME TypeOK, DesktopSleeps \/ DesktopLeaves
  PROVE  /\ Expires(P) /\ ctx'[P].known = ctx[P].known
         /\ up /\ up' = FALSE /\ gone' \in BOOLEAN /\ UNCHANGED <<power, due, polls, history>>
<1>1. P \in UPS /\ ctx[P] \in Context /\ gone \in BOOLEAN
  BY DEF TypeOK, UPS, P
<1>2. up /\ up' = FALSE /\ UNCHANGED <<power, due, polls, worker, history>> /\ stood' = stood /\ flows' = flows
  BY DEF DesktopSleeps, DesktopLeaves, history
<1>3. CASE gone' = FALSE /\ NotifySuspended
  BY <1>2, <1>3, FallsEffect
<1>4. CASE gone' = TRUE /\ NotifyDown
  BY <1>2, <1>4, DownEffect
<1>5. CASE UNCHANGED <<gone, ctx, ends>>
  BY <1>1, <1>2, <1>5 DEF Expires, Effect, Left, Typed, OthersKeep, Ends2, ends, TypeOK
<1> QED
  BY <1>2, <1>3, <1>4, <1>5 DEF DesktopSleeps, DesktopLeaves

-----------------------------------------------------------------------------
(* The steps of the workers.                                               *)

\* One worker goes from what it does to r.
WorkerIs(w, r) ==
  /\ worker' \in [Workers -> Worker] /\ worker'[w] = r
  /\ \A v \in Workers : v # w => worker'[v] = worker[v]

LEMMA SetStep ==
  ASSUME TypeOK, NEW w \in Workers, NEW r \in Worker, Set(w, r)
  PROVE  WorkerIs(w, r)
  BY SMT DEF Set, WorkerIs, TypeOK

LEMMA EndsStep ==
  ASSUME TypeOK, NEW w \in Workers, Ends(w)
  PROVE  WorkerIs(w, NoWorker)
  BY BegunTyped, SetStep DEF Ends, NoWorker

LEMMA NapStep ==
  ASSUME TypeOK, NEW w \in Workers, NEW longest \in Nat, Nap(w, longest)
  PROVE  \E n \in 1 .. longest :
           WorkerIs(w, [at |-> worker[w].at, left |-> worker[w].left, nap |-> n])
<1>1. PICK n \in 1 .. longest : Set(w, [worker[w] EXCEPT !.nap = n])
  BY DEF Nap
<1>2. worker[w] \in Worker /\ n \in Nat
  BY SMT DEF TypeOK
<1>3. [worker[w] EXCEPT !.nap = n] = [at |-> worker[w].at, left |-> worker[w].left, nap |-> n]
  BY <1>2, SMT DEF Worker
<1>4. [at |-> worker[w].at, left |-> worker[w].left, nap |-> n] \in Worker
  BY <1>2, SMT DEF Worker
<1> QED
  BY <1>1, <1>3, <1>4, SetStep

LEMMA HoldStep ==
  ASSUME TypeOK, NEW w \in Workers, Hold(w)
  PROVE  /\ worker[w].at = "hold" /\ worker[w].nap = 0
         /\ UNCHANGED <<outside, polls, ctx, gone, history, halted>>
         /\ \/ WorkerIs(w, NoWorker) /\ cut' \in {cut, "limit", "down", "finished", "low"}
            \/ /\ ~StoodDown(w) /\ cut' = cut
               /\ \E n \in 1 .. Pass :
                    WorkerIs(w, [at |-> worker[w].at, left |-> worker[w].left, nap |-> n])
<1>1. worker[w].at = "hold" /\ worker[w].nap = 0 /\ Pass \in Nat
      /\ UNCHANGED <<outside, polls, ctx, gone, history>>
  BY WaitsTyped DEF Hold, Awake
<1>2. Reason \in {"none", "down", "finished", "low"}
  BY DEF Reason
<1>3. CASE Ends(w) /\ PowerOff("limit")
  BY <1>1, <1>3, EndsStep DEF PowerOff
<1>4. CASE Ends(w) /\ UNCHANGED ends
  BY <1>1, <1>4, EndsStep DEF ends
<1>5. CASE Reason # "none" /\ Ends(w) /\ PowerOff(Reason)
  BY <1>1, <1>2, <1>5, EndsStep DEF PowerOff
<1>6. CASE ~StoodDown(w) /\ Nap(w, Pass) /\ UNCHANGED ends
  BY <1>1, <1>6, NapStep DEF ends
<1> QED
  BY <1>3, <1>4, <1>5, <1>6 DEF Hold

LEMMA WakeStep ==
  ASSUME TypeOK, NEW w \in Workers, WakeWindow(w)
  PROVE  /\ worker[w].at = "wake" /\ worker[w].nap = 0 /\ gone' \in BOOLEAN
         /\ UNCHANGED <<outside, polls, ctx, ends, history>>
         /\ \/ StoodDown(w) /\ WorkerIs(w, NoWorker)
            \/ ~StoodDown(w) /\ \E nap \in 0 .. Push : WorkerIs(w, Begun("push", nap))
            \/ /\ ~StoodDown(w) /\ worker[w].left > 0
               /\ \E n \in 1 .. Pass :
                    WorkerIs(w, [at |-> worker[w].at, left |-> worker[w].left, nap |-> n])
<1>1. worker[w].at = "wake" /\ worker[w].nap = 0 /\ Pass \in Nat
      /\ UNCHANGED <<outside, polls, ctx, ends, history>>
  BY WaitsTyped DEF WakeWindow, Awake
<1>2. gone \in BOOLEAN
  BY DEF TypeOK
<1>3. CASE StoodDown(w) /\ Ends(w) /\ UNCHANGED gone
  BY <1>1, <1>2, <1>3, EndsStep
<1>4. CASE ~StoodDown(w) /\ worker[w].left > 0 /\ Nap(w, Pass) /\ UNCHANGED gone
  BY <1>1, <1>2, <1>4, NapStep
<1>5. CASE ~StoodDown(w) /\ (\E nap \in 0 .. Push : Set(w, Begun("push", nap))) /\ gone' \in BOOLEAN
  <2>1. PICK nap \in 0 .. Push : Set(w, Begun("push", nap))
    BY <1>5
  <2>2. Begun("push", nap) \in Worker
    BY BegunTyped, WaitsTyped, SMT
  <2> QED
    BY <1>1, <1>5, <2>1, <2>2, SetStep
<1> QED
  BY <1>2, <1>3, <1>4, <1>5 DEF WakeWindow

LEMMA FirstStep ==
  ASSUME TypeOK, NEW w \in Workers, FirstSent(w)
  PROVE  /\ worker[w].at = "send" /\ worker[w].nap = 0
         /\ UNCHANGED <<outside, polls, ctx, gone, ends, history>>
         /\ WorkerIs(w, Begun("wake", 0))
  BY BegunTyped, SetStep DEF FirstSent, Awake

LEMMA PushStep ==
  ASSUME TypeOK, NEW w \in Workers, Pushed(w)
  PROVE  /\ worker[w].at = "push" /\ worker[w].nap = 0
         /\ UNCHANGED <<outside, polls, ctx, gone, ends, history>>
         /\ WorkerIs(w, Begun("confirm", 0))
  BY BegunTyped, SetStep DEF Pushed, Awake

LEMMA ConfirmStep ==
  ASSUME TypeOK, NEW w \in Workers, Confirm(w)
  PROVE  /\ worker[w].at = "confirm" /\ worker[w].nap = 0
         /\ UNCHANGED <<outside, polls, gone, history>>
         /\ \/ StoodDown(w) /\ WorkerIs(w, NoWorker) /\ UNCHANGED <<ctx, ends>>
            \/ /\ WorkerIs(w, NoWorker)
               /\ ctx' \in [UPS -> Context] /\ Ends2
               /\ \A v \in UPS : v # w[1] => ctx'[v] = ctx[v]
               /\ ctx'[w[1]].known = ctx[w[1]].known /\ Finished(w[1])
               /\ ctx[w[1]].mode = "shutting_down"
            \/ /\ ~StoodDown(w) /\ worker[w].left > 0 /\ UNCHANGED <<ctx, ends>>
               /\ WorkerIs(w, [at |-> worker[w].at, left |-> worker[w].left, nap |-> 1])
<1>1. worker[w].at = "confirm" /\ worker[w].nap = 0
      /\ UNCHANGED <<outside, polls, gone, history>>
  BY DEF Confirm, Awake
<1>2. w[1] \in UPS
  BY SMT DEF Workers
<1>3. CASE StoodDown(w) /\ Ends(w) /\ UNCHANGED <<ctx, ends>>
  BY <1>1, <1>3, EndsStep
<1>4. CASE ~StoodDown(w) /\ Ends(w) /\ Terminal(w[1], ctx[w[1]])
  BY <1>1, <1>2, <1>4, EndsStep, TerminalEffect DEF StoodDown, TypeOK
<1>5. CASE ~StoodDown(w) /\ worker[w].left > 0 /\ Nap(w, 1) /\ UNCHANGED <<ctx, ends>>
  <2>1. PICK n \in 1 .. 1 : WorkerIs(w, [at |-> worker[w].at, left |-> worker[w].left, nap |-> n])
    BY <1>5, NapStep, 1 \in Nat
  <2>2. n = 1
    BY SMT
  <2> QED
    BY <1>1, <1>5, <2>1, <2>2
<1> QED
  BY <1>3, <1>4, <1>5 DEF Confirm

-----------------------------------------------------------------------------
(* The types.                                                              *)

LEMMA InitTyped == Init => TypeOK
<1> SUFFICES ASSUME Init PROVE TypeOK
  OBVIOUS
<1>1. NoWorker \in Worker
  BY BegunTyped DEF NoWorker
<1>2. [mode |-> "idle", phase |-> "none", left |-> 0, timer |-> Off, known |-> FALSE] \in Context
  BY SMT DEF Context, Off
<1>3. ctx \in [UPS -> Context] /\ worker \in [Workers -> Worker]
      /\ power \in [UPS -> {"OL", "OB", "LB"}] /\ power["primary"] # "LB"
  BY <1>1, <1>2 DEF Init, UPS
<1>4. pollIn \in 0 .. PollEvery /\ due \in [UPS -> {Off} \cup 0 .. SuspendDue]
      /\ out \in 0 .. AnswerBound + 1 /\ calm \in 0 .. Steady
      /\ flows \in 0 .. 2 /\ stood \in 0 .. Pass + 1
  BY WaitsTyped, SMT DEF Init
<1> QED
  BY <1>3, <1>4 DEF Init, TypeOK

LEMMA ClockTyped ==
  ASSUME NEW n \in Nat \cup {Off}
  PROVE  /\ Less(n) \in Nat \cup {Off} /\ (n \in Nat => Less(n) \in Nat)
         /\ n > 0 => Less(n) = n - 1
         /\ n = 0 => Less(n) = 0
         /\ n = Off => Less(n) = Off
  BY SMT DEF Less, Off

\* What a turn does to the contexts and the workers.
LEMMA TurnTyped ==
  ASSUME TypeOK, Tick
  PROVE  /\ Typed
         /\ \A u \in UPS : ctx'[u] = Later(ctx[u])
         /\ \A w \in Workers : worker'[w] = LaterWorker(worker[w])
<1>1. ASSUME NEW u \in UPS PROVE Later(ctx[u]) \in Context
  <2>1. ctx[u] \in Context
    BY DEF TypeOK
  <2>2. ctx[u].left \in Nat /\ ctx[u].timer \in Nat \cup {Off}
    BY <2>1, SMT DEF Context
  <2>3. Less(ctx[u].left) \in Nat /\ Less(ctx[u].timer) \in Nat \cup {Off}
    BY <2>2, ClockTyped
  <2>4. ctx[u].known \in BOOLEAN
    BY <2>1, Zenon DEF Context
  <2> QED
    BY <2>1, <2>3, <2>4, SMT DEF Later, Context
<1>2. ASSUME NEW w \in Workers PROVE LaterWorker(worker[w]) \in Worker
  <2>1. worker[w] \in Worker
    BY DEF TypeOK
  <2>2. worker[w].left \in Nat /\ worker[w].nap \in Nat
    BY <2>1, SMT DEF Worker
  <2>3. Less(worker[w].left) \in Nat /\ Less(worker[w].nap) \in Nat
    BY <2>2, ClockTyped
  <2> QED
    BY <2>1, <2>3, SMT DEF LaterWorker, Worker
<1>3. ctx' = [u \in UPS |-> Later(ctx[u])]
      /\ worker' = [w \in Workers |-> LaterWorker(worker[w])]
  BY DEF Tick
<1> QED
  BY <1>1, <1>2, <1>3 DEF Typed

LEMMA StepTyped == TypeOK /\ [Next]_vars => TypeOK'
<1> SUFFICES ASSUME TypeOK, [Next]_vars PROVE TypeOK'
  OBVIOUS
<1>a. ASSUME Typed, halted' \in BOOLEAN, cut' \in {"none", "hurried", "limit", "down", "finished", "low"},
             UNCHANGED <<power, out, calm>>,
             flows' \in 0 .. 2, stood' \in 0 .. Pass + 1, due' \in [UPS -> {Off} \cup 0 .. SuspendDue],
             pollIn' \in 0 .. PollEvery, polling' \subseteq UPS,
             up' \in BOOLEAN, gone' \in BOOLEAN
      PROVE  TypeOK'
  BY <1>a DEF TypeOK, Typed
<1>b. ASSUME Typed, Ends2
      PROVE  halted' \in BOOLEAN /\ cut' \in {"none", "hurried", "limit", "down", "finished", "low"}
  BY <1>b DEF Ends2, TypeOK
<1>c. ASSUME NEW w \in Workers, NEW r, WorkerIs(w, r), ctx' \in [UPS -> Context]
      PROVE  Typed
  BY <1>c DEF Typed, WorkerIs
<1>d. ASSUME UNCHANGED <<ctx, worker>> PROVE Typed
  BY <1>d DEF Typed, TypeOK
<1> USE WaitsTyped
<1>1. ASSUME BeginPoll PROVE TypeOK'
  BY <1>1, <1>a, <1>d DEF BeginPoll, outside, server, ends, history, TypeOK
<1>2. ASSUME NEW u \in UPS, SuspendDueEvent(u) PROVE TypeOK'
  <2>1. due' \in [UPS -> {Off} \cup 0 .. SuspendDue]
    BY <1>2, DueStep DEF Expires, TypeOK
  <2> QED
    BY <1>2, <2>1, <1>a, <1>b, DueStep DEF Expires, Effect, polls, history, TypeOK
<1>3. ASSUME NEW u \in UPS, Poll(u) PROVE TypeOK'
  <2>1. pollIn' \in 0 .. PollEvery /\ polling' \subseteq UPS
    BY <1>3, SMT DEF Poll, TypeOK
  <2> QED
    BY <1>3, <2>1, <1>a, <1>b, HandleEffect DEF Effect, Poll, outside, TypeOK
<1>4. ASSUME NEW u \in UPS, Notice(u) PROVE TypeOK'
  BY <1>4, <1>a, <1>b, HandleEffect DEF Effect, Notice, outside, polls, TypeOK
<1>5. ASSUME NEW u \in UPS, TimerFires(u) PROVE TypeOK'
  BY <1>5, <1>a, <1>b, TimerStep DEF Expires, Effect, outside, polls, history, TypeOK
<1>6. ASSUME NEW w \in Workers, Hold(w) PROVE TypeOK'
  BY <1>6, <1>a, <1>c, HoldStep DEF outside, polls, history, TypeOK
<1>7. ASSUME NEW w \in Workers, WakeWindow(w) PROVE TypeOK'
  BY <1>7, <1>a, <1>c, WakeStep DEF outside, polls, ends, history, TypeOK
<1>8. ASSUME NEW w \in Workers, FirstSent(w) \/ Pushed(w) PROVE TypeOK'
  BY <1>8, <1>a, <1>c, FirstStep, PushStep DEF outside, polls, ends, history, TypeOK
<1>9. ASSUME NEW w \in Workers, Confirm(w) PROVE TypeOK'
  BY <1>9, <1>a, <1>b, <1>c, ConfirmStep DEF outside, polls, ends, history, TypeOK
<1>10. ASSUME DesktopSleeps \/ DesktopLeaves PROVE TypeOK'
  BY <1>10, <1>a, <1>b, SleepStep DEF Expires, Effect, polls, history, TypeOK
<1>11. ASSUME DesktopComesUp PROVE TypeOK'
  BY <1>11, <1>a, <1>d DEF DesktopComesUp, polls, ends, history, TypeOK
<1>12. ASSUME OutletsOff \/ OutletsOn PROVE TypeOK'
  BY <1>12, <1>a, <1>d DEF OutletsOff, OutletsOn, outside, polls, server, ends, history, TypeOK
<1>13. ASSUME NEW u \in UPS, NEW p \in {"OL", "OB", "LB"}, u = P => p # "LB",
              power' = [power EXCEPT ![u] = p], UNCHANGED <<polls, server, up, flows, stood>>,
              out' \in {out, 0}, calm' \in {calm, 0},
              due' = due \/ \E d \in {Off, SuspendDue} : due' = [due EXCEPT ![u] = d]
       PROVE  TypeOK'
  <2>1. power' \in [UPS -> {"OL", "OB", "LB"}] /\ power'["primary"] # "LB"
    BY <1>13 DEF TypeOK, P, UPS
  <2>2. out' \in 0 .. AnswerBound + 1 /\ calm' \in 0 .. Steady
    BY <1>13, SMT DEF TypeOK
  <2>3. SuspendDue \in 0 .. SuspendDue
    BY SMT
  <2>4. due' \in [UPS -> {Off} \cup 0 .. SuspendDue]
    BY <1>13, <2>3 DEF TypeOK
  <2> QED
    BY <1>13, <2>1, <2>2, <2>4 DEF polls, server, ends, TypeOK
<1>14. ASSUME \/ PrimaryFails \/ PrimaryReturns
              \/ ObserverFails \/ ObserverRunsLow \/ ObserverReturns
       PROVE  TypeOK'
  <2>1. P \in UPS /\ O \in UPS /\ O # P
    BY DEF UPS, O, P
  <2>2. CASE PrimaryFails
    BY <2>1, <2>2, <1>13 DEF PrimaryFails, history, P
  <2>3. CASE PrimaryReturns
    BY <2>1, <2>3, <1>13 DEF PrimaryReturns, P
  <2>4. CASE ObserverFails
    BY <2>1, <2>4, <1>13 DEF ObserverFails, history, O
  <2>5. CASE ObserverRunsLow
    BY <2>1, <2>5, <1>13 DEF ObserverRunsLow, history, O
  <2>6. CASE ObserverReturns
    BY <2>1, <2>6, <1>13 DEF ObserverReturns, O
  <2> QED
    BY <1>14, <2>2, <2>3, <2>4, <2>5, <2>6
<1>15. ASSUME Tick PROVE TypeOK'
  <2>1. Typed
    BY <1>15, TurnTyped
  <2>2. pollIn' \in 0 .. PollEvery
    BY <1>15, SMT DEF Tick, NothingDue, TypeOK
  <2>3. due' \in [UPS -> {Off} \cup 0 .. SuspendDue]
    <3>1. ASSUME NEW u \in UPS PROVE Less(due[u]) \in {Off} \cup 0 .. SuspendDue
      <4>1. due[u] \in {Off} \cup 0 .. SuspendDue
        BY DEF TypeOK
      <4> QED
        BY <4>1, SMT DEF Less, Off
    <3> QED
      BY <1>15, <3>1 DEF Tick
  <2>4. out' \in 0 .. AnswerBound + 1
    BY <1>15, SMT DEF Tick, AtMost, TypeOK
  <2>5. calm' \in 0 .. Steady
    BY <1>15, SMT DEF Tick, AtMost, TypeOK
  <2>6. stood' \in 0 .. Pass + 1
    BY <1>15, SMT DEF Tick, AtMost, TypeOK
  <2> QED
    BY <1>15, <2>1, <2>2, <2>3, <2>4, <2>5, <2>6 DEF Tick, Typed, ends, TypeOK
<1>16. ASSUME UNCHANGED vars PROVE TypeOK'
  BY <1>16 DEF vars, outside, polls, server, ends, history, TypeOK
<1> QED
  BY <1>1, <1>2, <1>3, <1>4, <1>5, <1>6, <1>7, <1>8, <1>9, <1>10, <1>11, <1>12, <1>14, <1>15, <1>16
     DEF Next, ServerStep, OutsideStep, WorkerStep

\* For waits of any length, the clocks, the contexts and the workers hold values of
\* their types: no timer runs below zero and no clock past its bound.
THEOREM TypeCorrect == Spec => []TypeOK
<1> QED
  BY InitTyped, StepTyped, PTL DEF Spec
-----------------------------------------------------------------------------
(* The time to the answer, and the late cut.                               *)

\* The clocks: a poll is not put off, and out counts while the UPS is off mains.
ClockOK == (polling # {} => pollIn = 0) /\ (power[P] = "OL" => out = 0)

\* A power failure that is not known yet, or not handled yet, is as old as the
\* time since the last poll at most.
UnknownOK == power[P] = "OB" /\ ~ctx[P].known => out + Gap <= PollEvery
RestingOK == power[P] = "OB" /\ Resting(ctx[P]) => out + Gap <= PollEvery

\* Who is monitoring has a timer that runs, and that was started in time.
TimersOK == \A u \in UPS : ctx[u].mode = "monitoring" => ctx[u].timer \in 0 .. Longest
MonitoringOK == ctx[P].mode = "monitoring" => out + ctx[P].timer <= PollEvery + Longest

\* How long a worker of the primary will take at most.
ToGo(w) ==
  IF worker[w].at = "send"
  THEN worker[w].nap + WakeTimeout + Pass - 1 + Push + ShutdownWait
  ELSE IF worker[w].at = "wake"
  THEN (IF worker[w].left = 0 THEN worker[w].nap ELSE worker[w].left + Pass - 1)
       + Push + ShutdownWait
  ELSE IF worker[w].at = "push" THEN worker[w].nap + ShutdownWait
  ELSE worker[w].left

WorkersOK ==
  \A k \in 1 .. MaxWorkers :
    /\ worker[<<P, k>>].at # "hold"
    /\ worker[<<O, k>>].at \in {"none", "hold"}
    /\ worker[<<P, k>>].at = "wake" => worker[<<P, k>>].nap <= Pass
    /\ worker[<<P, k>>].at = "confirm" => worker[<<P, k>>].nap <= worker[<<P, k>>].left
    /\ worker[<<O, k>>].at = "hold" => worker[<<O, k>>].nap <= Pass

\* A primary that is shutting down has a worker that will be in time.
ShuttingOK ==
  ctx[P].mode = "shutting_down" /\ ~halted =>
    \E k \in 1 .. MaxWorkers :
      worker[<<P, k>>].at # "none" /\ out + ToGo(<<P, k>>) <= AnswerBound

\* A worker that holds for an observer that has stood down looks up in time.
LateOK ==
  \A k \in 1 .. MaxWorkers :
    worker[<<O, k>>].at = "hold" /\ ctx[O].mode # "shutting_down" =>
      stood + worker[<<O, k>>].nap <= Pass

Parts == UnknownOK /\ RestingOK /\ TimersOK /\ MonitoringOK /\ WorkersOK /\ ShuttingOK /\ LateOK
Inv == TypeOK /\ ClockOK /\ Parts

LEMMA Names == P \in UPS /\ O \in UPS /\ P # O /\ \A u \in UPS : u = P \/ u = O
  BY DEF UPS, P, O

LEMMA GapTyped == ASSUME TypeOK PROVE Gap \in Nat /\ out \in Nat /\ pollIn \in Nat /\ stood \in Nat
  BY WaitsTyped, SMT DEF TypeOK, Gap

\* The parts that tell of both UPSs.
LEMMA EffectKeepsHands ==
  ASSUME Inv, NEW u \in UPS, Effect(u)
  PROVE  TimersOK' /\ WorkersOK' /\ LateOK'
<1> USE DEF Inv, Parts
<1>t. Typed /\ OthersKeep(u)
  BY DEF Effect
<1>1. TimersOK'
  <2> SUFFICES ASSUME NEW v \in UPS, ctx'[v].mode = "monitoring" PROVE ctx'[v].timer \in 0 .. Longest
    BY DEF TimersOK
  <2>1. CASE v # u
    BY <2>1, <1>t DEF OthersKeep, TimersOK
  <2>2. CASE v = u /\ Left(u)
    BY <2>2 DEF Left, TimersOK
  <2>3. CASE v = u /\ Began(u)
    BY <2>3, WaitsTyped, SMT DEF Began
  <2>4. CASE v = u /\ (Rested(u) \/ Acted(u))
    BY <2>4 DEF Rested, Acted, Executed, Closed, Hired, Finished
  <2> QED
    BY <2>1, <2>2, <2>3, <2>4 DEF Effect
<1>2. ASSUME worker' = worker PROVE WorkersOK'
  BY <1>2 DEF WorkersOK
<1>3. ASSUME Hired(u) PROVE WorkersOK'
  <2> SUFFICES ASSUME NEW k \in 1 .. MaxWorkers
      PROVE  /\ worker'[<<P, k>>].at # "hold"
             /\ worker'[<<O, k>>].at \in {"none", "hold"}
             /\ worker'[<<P, k>>].at = "wake" => worker'[<<P, k>>].nap <= Pass
             /\ worker'[<<P, k>>].at = "confirm" => worker'[<<P, k>>].nap <= worker'[<<P, k>>].left
             /\ worker'[<<O, k>>].at = "hold" => worker'[<<O, k>>].nap <= Pass
    BY DEF WorkersOK
  <2>1. PICK j \in 1 .. MaxWorkers :
          /\ worker[<<u, j>>] = NoWorker
          /\ \A i \in 1 .. MaxWorkers : i # j => worker'[<<u, i>>] = worker[<<u, i>>]
          /\ \/ u = O /\ worker'[<<u, j>>] = Begun("hold", 0)
             \/ u = P /\ \E nap \in 0 .. Send : worker'[<<u, j>>] = Begun("send", nap)
             \/ u = P /\ \E nap \in 0 .. Push : worker'[<<u, j>>] = Begun("push", nap)
    BY <1>3 DEF Hired
  <2>2. CASE u = O /\ k = j
    BY <2>1, <2>2, <1>t, Names, WaitsTyped, SMT DEF Begun, OthersKeep, WorkersOK
  <2>3. CASE u = P /\ k = j
    <3>1. worker'[<<O, k>>] = worker[<<O, k>>]
      BY <2>3, <1>t, Names DEF OthersKeep
    <3>2. CASE \E nap \in 0 .. Send : worker'[<<P, k>>] = Begun("send", nap)
      <4>1. worker'[<<P, k>>].at = "send"
        BY <3>2, SMT DEF Begun
      <4> QED
        BY <3>1, <4>1 DEF WorkersOK
    <3>3. CASE \E nap \in 0 .. Push : worker'[<<P, k>>] = Begun("push", nap)
      <4>1. worker'[<<P, k>>].at = "push"
        BY <3>3, SMT DEF Begun
      <4> QED
        BY <3>1, <4>1 DEF WorkersOK
    <3> QED
      BY <2>1, <2>3, <3>2, <3>3, Names
  <2>4. CASE k # j
    BY <2>1, <2>4, <1>t, Names DEF OthersKeep, WorkersOK
  <2> QED
    BY <2>2, <2>3, <2>4, Names
<1>4. WorkersOK'
  BY <1>2, <1>3 DEF Effect, Left, Began, Rested, Acted, Executed, Closed
<1>5. LateOK'
  <2> SUFFICES ASSUME NEW k \in 1 .. MaxWorkers, worker'[<<O, k>>].at = "hold",
                      ctx'[O].mode # "shutting_down"
      PROVE  stood' + worker'[<<O, k>>].nap <= Pass
    BY DEF LateOK
  <2>1. CASE u = P
    <3>1. worker'[<<O, k>>] = worker[<<O, k>>] /\ ctx'[O] = ctx[O] /\ stood' = stood
      BY <2>1, <1>t, Names DEF OthersKeep, Effect, Left, Began, Rested, Acted
    <3> QED
      BY <3>1 DEF LateOK
  <2>2. CASE u = O
    <3>1. worker' = worker
      BY <2>2, Names DEF Effect, Left, Began, Rested, Acted, Executed, Closed, Hired, Finished
    <3>2. CASE Left(u)
      BY <2>2, <3>1, <3>2 DEF Left, LateOK
    <3>3. CASE Began(u)
      BY <2>2, <3>1, <3>3 DEF Began, Resting, LateOK
    <3>4. CASE Rested(u)
      <4>1. stood' = 0 /\ worker[<<O, k>>].nap <= Pass /\ worker[<<O, k>>].nap \in Nat
        <5>1. stood' = 0 /\ worker[<<O, k>>].nap <= Pass
          BY <2>2, <3>1, <3>4 DEF Rested, WorkersOK
        <5>2. worker[<<O, k>>] \in Worker
          BY Names, WorkerOf
        <5> QED
          BY <5>1, <5>2, SMT DEF Worker
      <4> QED
        BY <3>1, <4>1, WaitsTyped, SMT
    <3>5. CASE Acted(u)
      BY <2>2, <3>5, Names DEF Acted, Executed, Closed, Hired, Finished
    <3> QED
      BY <3>2, <3>3, <3>4, <3>5 DEF Effect
  <2> QED
    BY <2>1, <2>2, Names
<1> QED
  BY <1>1, <1>4, <1>5

\* The parts that tell of the primary's time.  Either the handler knows the power, or
\* it leaves what is known as it is.
LEMMA EffectKeepsTime ==
  ASSUME Inv, NEW u \in UPS, Effect(u), UNCHANGED <<power, out>>,
         \/ ctx'[P].known = ctx[P].known /\ Gap' <= Gap /\ Gap' \in Nat
         \/ u = P /\ (power[P] = "OB" => ctx'[P].known /\ ~Resting(ctx'[P]))
  PROVE  UnknownOK' /\ RestingOK' /\ MonitoringOK' /\ ShuttingOK'
<1> USE DEF Inv, Parts
<1>t. Typed /\ OthersKeep(u)
  BY DEF Effect
<1>n. Gap \in Nat /\ out \in Nat
  BY GapTyped
<1>p. power[P] \in {"OL", "OB"} /\ (power[P] = "OL" => out = 0)
  BY Names DEF ClockOK, TypeOK, P
<1>1. UnknownOK'
  <2> SUFFICES ASSUME power[P] = "OB", ~ctx'[P].known PROVE out + Gap' <= PollEvery
    BY DEF UnknownOK
  <2>1. out + Gap <= PollEvery /\ Gap' <= Gap /\ Gap' \in Nat
    BY DEF UnknownOK
  <2> QED
    BY <1>n, <2>1, WaitsTyped, SMT
<1>2. CASE u # P
  <2>1. ctx'[P] = ctx[P] /\ \A k \in 1 .. MaxWorkers : worker'[<<P, k>>] = worker[<<P, k>>]
    BY <1>2, <1>t, Names DEF OthersKeep
  <2>2. halted' = halted
    BY <1>2, Names DEF Effect, Left, Began, Rested, Acted, Executed, Closed, Hired, Finished
  <2>3. RestingOK'
    <3> SUFFICES ASSUME power[P] = "OB", Resting(ctx'[P]) PROVE out + Gap' <= PollEvery
      BY DEF RestingOK
    <3>1. out + Gap <= PollEvery /\ Gap' <= Gap /\ Gap' \in Nat
      BY <1>2, <2>1 DEF RestingOK
    <3> QED
      BY <1>n, <3>1, WaitsTyped, SMT
  <2>4. MonitoringOK'
    BY <2>1 DEF MonitoringOK
  <2>5. ShuttingOK'
    BY <2>1, <2>2 DEF ShuttingOK, ToGo
  <2> QED
    BY <1>1, <2>3, <2>4, <2>5
<1>3. CASE u = P
  <2>1. RestingOK'
    <3> SUFFICES ASSUME power[P] = "OB", Resting(ctx'[P]),
                        ctx'[P].known = ctx[P].known, Gap' <= Gap, Gap' \in Nat
        PROVE  out + Gap' <= PollEvery
      BY DEF RestingOK
    <3>1. out + Gap <= PollEvery
      <4>1. CASE Left(u)
        BY <1>3, <4>1 DEF Left, Resting, RestingOK
      <4>2. CASE Began(u)
        BY <1>3, <4>2 DEF Began, RestingOK
      <4>3. CASE Rested(u)
        BY <1>3, <4>3 DEF Rested
      <4>4. CASE Acted(u)
        BY <1>3, <4>4, Names DEF Acted, Executed, Closed, Hired, Finished, Resting, UnknownOK
      <4> QED
        BY <4>1, <4>2, <4>3, <4>4 DEF Effect
    <3> QED
      BY <3>1, <1>n, WaitsTyped, SMT
  <2>2. MonitoringOK'
    <3>1. CASE Left(u)
      BY <1>3, <3>1 DEF Left, MonitoringOK
    <3>2. CASE Began(u)
      <4>1. out <= PollEvery
        BY <1>3, <1>n, <1>p, <3>2, WaitsTyped, SMT DEF Began, RestingOK
      <4>2. ctx'[P].timer \in Nat /\ ctx'[P].timer <= Longest
        BY <1>3, <3>2, WaitsTyped DEF Began
      <4> QED
        BY <1>n, <4>1, <4>2, WaitsTyped, SMT DEF MonitoringOK
    <3>3. CASE Rested(u) \/ Acted(u)
      BY <1>3, <3>3, Names DEF Rested, Acted, Executed, Closed, Hired, Finished, MonitoringOK
    <3> QED
      BY <3>1, <3>2, <3>3 DEF Effect
  <2>3. ShuttingOK'
    <3>1. CASE Left(u)
      BY <1>3, <3>1 DEF Left, ShuttingOK, ToGo
    <3>2. CASE Began(u) \/ Rested(u)
      BY <1>3, <3>2 DEF Began, Rested, ShuttingOK
    <3>3. CASE Finished(u)
      BY <1>3, <3>3, Names DEF Finished, ShuttingOK
    <3>4. CASE Acted(u) /\ Hired(u)
      <4>1. out <= PollEvery + Longest
        <5>1. ctx[P].timer \in 0 .. Longest /\ out + ctx[P].timer <= PollEvery + Longest
          BY <1>3, <3>4, Names DEF Acted, MonitoringOK, TimersOK
        <5> QED
          BY <5>1, <1>n, WaitsTyped, SMT
      <4>2. PICK j \in 1 .. MaxWorkers :
              \/ \E nap \in 0 .. Send : worker'[<<u, j>>] = Begun("send", nap)
              \/ \E nap \in 0 .. Push : worker'[<<u, j>>] = Begun("push", nap)
        BY <1>3, <3>4, Names DEF Hired
      <4>3. CASE \E nap \in 0 .. Send : worker'[<<u, j>>] = Begun("send", nap)
        <5>0. PICK nap \in 0 .. Send : worker'[<<u, j>>] = Begun("send", nap)
          BY <4>3
        <5>1. worker'[<<u, j>>].at = "send" /\ worker'[<<u, j>>].nap = nap
          BY <5>0, SMT DEF Begun
        <5>2. out + ToGo(<<u, j>>)' <= AnswerBound
          BY <4>1, <5>1, <1>n, WaitsTyped, SMT DEF ToGo
        <5> QED
          BY <1>3, <5>1, <5>2 DEF ShuttingOK
      <4>4. CASE \E nap \in 0 .. Push : worker'[<<u, j>>] = Begun("push", nap)
        <5>0. PICK nap \in 0 .. Push : worker'[<<u, j>>] = Begun("push", nap)
          BY <4>4
        <5>1. worker'[<<u, j>>].at = "push" /\ worker'[<<u, j>>].nap = nap
          BY <5>0, SMT DEF Begun
        <5>2. out + ToGo(<<u, j>>)' <= AnswerBound
          BY <4>1, <5>1, <1>n, WaitsTyped, SMT DEF ToGo
        <5> QED
          BY <1>3, <5>1, <5>2 DEF ShuttingOK
      <4> QED
        BY <4>2, <4>3, <4>4
    <3> QED
      BY <3>1, <3>2, <3>3, <3>4 DEF Effect, Acted, Executed, Closed
  <2> QED
    BY <1>1, <2>1, <2>2, <2>3
<1> QED
  BY <1>2, <1>3

\* One worker goes on, by itself, and the contexts stay.
LEMMA WorkerKeeps ==
  ASSUME Inv, NEW w \in Workers, NEW r \in Worker, WorkerIs(w, r),
         UNCHANGED <<outside, polls, ctx, history, halted>>,
         w[1] = P => /\ r.at # "hold"
                     /\ r.at = "wake" => r.nap <= Pass
                     /\ r.at = "confirm" => r.nap <= r.left
                     /\ ctx[P].mode = "shutting_down" => r.at # "none" /\ ToGo(w)' <= ToGo(w),
         w[1] = O => /\ r.at \in {"none", "hold"} /\ (r.at = "hold" => r.nap <= Pass)
                     /\ r.at = "hold" => ctx[O].mode = "shutting_down"
  PROVE  Parts'
<1> USE DEF Inv, Parts
<1>0. UNCHANGED <<power, out, stood, halted, ctx>> /\ Gap' = Gap
  BY DEF outside, polls, history, Gap
<1>w. w \in UPS \X (1 .. MaxWorkers) /\ w = <<w[1], w[2]>> /\ w[2] \in 1 .. MaxWorkers
      /\ w[1] \in UPS
  BY SMT DEF Workers
<1>v. ASSUME NEW u \in UPS, NEW k \in 1 .. MaxWorkers
      PROVE  IF <<u, k>> = w THEN worker'[<<u, k>>] = r ELSE worker'[<<u, k>>] = worker[<<u, k>>]
  BY SMT DEF WorkerIs, Workers
<1>1. UnknownOK' /\ RestingOK' /\ TimersOK' /\ MonitoringOK'
  BY <1>0 DEF UnknownOK, RestingOK, TimersOK, MonitoringOK
<1>2. WorkersOK'
  <2> SUFFICES ASSUME NEW k \in 1 .. MaxWorkers
      PROVE  /\ worker'[<<P, k>>].at # "hold"
             /\ worker'[<<O, k>>].at \in {"none", "hold"}
             /\ worker'[<<P, k>>].at = "wake" => worker'[<<P, k>>].nap <= Pass
             /\ worker'[<<P, k>>].at = "confirm" => worker'[<<P, k>>].nap <= worker'[<<P, k>>].left
             /\ worker'[<<O, k>>].at = "hold" => worker'[<<O, k>>].nap <= Pass
    BY DEF WorkersOK
  <2>1. ASSUME <<P, k>> = w PROVE w[1] = P
    BY <2>1, SMT
  <2>2. ASSUME <<O, k>> = w PROVE w[1] = O
    BY <2>2, SMT
  <2> QED
    BY <1>v, <2>1, <2>2, Names DEF WorkersOK
<1>3. ShuttingOK'
  <2> SUFFICES ASSUME ctx[P].mode = "shutting_down", ~halted
      PROVE  \E k \in 1 .. MaxWorkers :
               worker'[<<P, k>>].at # "none" /\ out + ToGo(<<P, k>>)' <= AnswerBound
    BY <1>0 DEF ShuttingOK
  <2>1. PICK k \in 1 .. MaxWorkers :
          worker[<<P, k>>].at # "none" /\ out + ToGo(<<P, k>>) <= AnswerBound
    BY DEF ShuttingOK
  <2>2. CASE <<P, k>> = w
    <3>1. w[1] = P
      BY <2>2, SMT
    <3>2. worker'[<<P, k>>].at # "none" /\ ToGo(<<P, k>>)' <= ToGo(<<P, k>>)
      BY <2>2, <3>1, <1>v, Names
    <3>3. worker[<<P, k>>] \in Worker /\ worker'[<<P, k>>] \in Worker
      BY <2>2, <1>v, WorkerOf, Names
    <3>4. ToGo(<<P, k>>) \in Int /\ ToGo(<<P, k>>)' \in Int
      BY <3>3, WaitsTyped, SMT DEF ToGo, Worker
    <3>5. out + ToGo(<<P, k>>)' <= AnswerBound
      BY <2>1, <3>2, <3>4, GapTyped, WaitsTyped, SMT
    <3> QED
      BY <3>2, <3>5
  <2>3. CASE <<P, k>> # w
    BY <2>1, <2>3, <1>v, Names DEF ToGo
  <2> QED
    BY <2>2, <2>3
<1>4. LateOK'
  <2> SUFFICES ASSUME NEW k \in 1 .. MaxWorkers, worker'[<<O, k>>].at = "hold",
                      ctx[O].mode # "shutting_down"
      PROVE  stood + worker'[<<O, k>>].nap <= Pass
    BY <1>0 DEF LateOK
  <2>1. ASSUME <<O, k>> = w PROVE w[1] = O
    BY <2>1, SMT
  <2> QED
    BY <1>v, <2>1, Names DEF LateOK
<1> QED
  BY <1>1, <1>2, <1>3, <1>4

\* It looks at its work again: what is still to go does not grow.
LEMMA LookShortens ==
  ASSUME Inv, NEW w \in Workers, FirstSent(w) \/ WakeWindow(w) \/ Pushed(w) \/ Confirm(w),
         worker'[w].at # "none"
  PROVE  ToGo(w)' <= ToGo(w)
<1>0. TypeOK /\ worker[w] \in Worker
  BY DEF Inv, TypeOK
<1>1. WorkerIs(w, NoWorker) => worker'[w].at = "none"
  BY BegunTyped DEF WorkerIs, NoWorker
<1>2. CASE WakeWindow(w)
  <2>0. worker[w].at = "wake" /\ worker[w].nap = 0
    BY <1>0, <1>2, WakeStep
  <2>1. ASSUME NEW nap \in 0 .. Push, WorkerIs(w, Begun("push", nap)) PROVE ToGo(w)' <= ToGo(w)
    <3>1. Begun("push", nap).at = "push" /\ Begun("push", nap).nap = nap
      BY BegunTyped, WaitsTyped, SMT
    <3>2. ToGo(w)' = nap + ShutdownWait
      BY <2>1, <3>1, SMT DEF ToGo, WorkerIs
    <3> QED
      BY <1>0, <2>0, <3>2, WaitsTyped, SMT DEF ToGo, Worker
  <2>2. ASSUME worker[w].left > 0, NEW n \in 1 .. Pass,
               WorkerIs(w, [at |-> worker[w].at, left |-> worker[w].left, nap |-> n])
        PROVE  ToGo(w)' <= ToGo(w)
    BY <1>0, <2>0, <2>2, WaitsTyped, SMT DEF ToGo, Worker, WorkerIs
  <2> QED
    BY <1>0, <1>1, <1>2, <2>1, <2>2, WakeStep
<1>3. CASE Pushed(w)
  <2>1. Begun("confirm", 0).at = "confirm" /\ Begun("confirm", 0).nap = 0
        /\ Begun("confirm", 0).left = ShutdownWait
    BY BegunTyped, WindowsTyped
  <2>2. worker[w].at = "push" /\ worker[w].nap = 0 /\ WorkerIs(w, Begun("confirm", 0))
    BY <1>0, <1>3, PushStep
  <2> QED
    BY <2>1, <2>2, WaitsTyped, SMT DEF ToGo, WorkerIs
<1>4. CASE Confirm(w)
  <2>1. worker[w].at = "confirm"
        /\ WorkerIs(w, [at |-> worker[w].at, left |-> worker[w].left, nap |-> 1])
    BY <1>0, <1>1, <1>4, ConfirmStep
  <2> QED
    BY <1>0, <2>1, SMT DEF ToGo, Worker, WorkerIs
<1>5. CASE FirstSent(w)
  <2>1. Begun("wake", 0).at = "wake" /\ Begun("wake", 0).left = WakeTimeout
    BY BegunTyped, WindowsTyped
  <2>2. worker[w].at = "send" /\ worker[w].nap = 0 /\ WorkerIs(w, Begun("wake", 0))
    BY <1>0, <1>5, FirstStep
  <2>3. WakeTimeout > 0
    BY WaitsAssumption, SMT
  <2> QED
    BY <2>1, <2>2, <2>3, WaitsTyped, SMT DEF ToGo, WorkerIs
<1> QED
  BY <1>2, <1>3, <1>4, <1>5

LEMMA HoldKeeps == ASSUME Inv, NEW w \in Workers, Hold(w) PROVE Parts'
<1> USE DEF Inv
<1>1. w[1] \in UPS /\ w = <<w[1], w[2]>> /\ w[2] \in 1 .. MaxWorkers
  BY SMT DEF Workers
<1>2. w[1] = O
  BY <1>1, HoldStep, Names DEF Parts, WorkersOK
<1>3. UNCHANGED <<outside, polls, ctx, history, halted>>
  BY HoldStep
<1>4. CASE WorkerIs(w, NoWorker)
  <2>1. NoWorker \in Worker /\ NoWorker.at = "none"
    BY BegunTyped DEF NoWorker
  <2> QED
    BY <1>2, <1>3, <1>4, <2>1, WorkerKeeps, Names
<1>5. ASSUME ~StoodDown(w), NEW n \in 1 .. Pass,
             WorkerIs(w, [at |-> worker[w].at, left |-> worker[w].left, nap |-> n])
      PROVE  Parts'
  <2>1. worker[w] \in Worker
    BY DEF TypeOK
  <2>2. [at |-> worker[w].at, left |-> worker[w].left, nap |-> n] \in Worker
    BY <2>1, SMT DEF Worker
  <2>3. worker[w].at = "hold" /\ n <= Pass
    BY HoldStep, WaitsTyped, SMT
  <2>4. ctx[O].mode = "shutting_down"
    BY <1>2, <1>5 DEF StoodDown
  <2> QED
    BY <1>2, <1>3, <1>5, <2>2, <2>3, <2>4, WorkerKeeps, Names
<1> QED
  BY <1>4, <1>5, HoldStep

LEMMA WakeKeeps == ASSUME Inv, NEW w \in Workers, WakeWindow(w) PROVE Parts'
<1> USE DEF Inv
<1>0. worker[w].at = "wake" /\ worker[w].nap = 0 /\ worker[w] \in Worker
  BY WakeStep DEF TypeOK
<1>1. w[1] \in UPS /\ w = <<w[1], w[2]>> /\ w[2] \in 1 .. MaxWorkers
  BY SMT DEF Workers
<1>2. w[1] = P
  BY <1>0, <1>1, Names DEF Parts, WorkersOK
<1>3. UNCHANGED <<outside, polls, ctx, history, halted>>
  BY WakeStep DEF ends
<1>4. CASE StoodDown(w) /\ WorkerIs(w, NoWorker)
  <2>1. NoWorker \in Worker /\ NoWorker.at = "none"
    BY BegunTyped DEF NoWorker
  <2> QED
    BY <1>2, <1>3, <1>4, <2>1, WorkerKeeps, Names DEF StoodDown
<1>5. ASSUME NEW nap \in 0 .. Push, WorkerIs(w, Begun("push", nap)) PROVE Parts'
  <2>1. Begun("push", nap) \in Worker /\ Begun("push", nap).at = "push"
        /\ Begun("push", nap).nap = nap
    BY BegunTyped, WaitsTyped, SMT
  <2>2. ToGo(w)' <= ToGo(w)
    BY <1>5, <2>1, LookShortens DEF WorkerIs
  <2> QED
    BY <1>2, <1>3, <1>5, <2>1, <2>2, WorkerKeeps, Names
<1>6. ASSUME worker[w].left > 0, NEW n \in 1 .. Pass,
             WorkerIs(w, [at |-> worker[w].at, left |-> worker[w].left, nap |-> n])
      PROVE  Parts'
  <2>1. [at |-> worker[w].at, left |-> worker[w].left, nap |-> n] \in Worker
    BY <1>0, SMT DEF Worker
  <2>2. n <= Pass
    BY WaitsTyped, SMT
  <2>3. ToGo(w)' <= ToGo(w)
    BY <1>0, <1>6, LookShortens DEF WorkerIs
  <2> QED
    BY <1>0, <1>2, <1>3, <1>6, <2>1, <2>2, <2>3, WorkerKeeps, Names
<1> QED
  BY <1>4, <1>5, <1>6, WakeStep

LEMMA FirstKeeps == ASSUME Inv, NEW w \in Workers, FirstSent(w) PROVE Parts'
<1> USE DEF Inv
<1>0. worker[w].at = "send" /\ worker[w].nap = 0 /\ WorkerIs(w, Begun("wake", 0))
  BY FirstStep
<1>1. w[1] \in UPS /\ w = <<w[1], w[2]>> /\ w[2] \in 1 .. MaxWorkers
  BY SMT DEF Workers
<1>2. w[1] = P
  BY <1>0, <1>1, Names DEF Parts, WorkersOK
<1>3. UNCHANGED <<outside, polls, ctx, history, halted>>
  BY FirstStep DEF ends
<1>4. Begun("wake", 0) \in Worker /\ Begun("wake", 0).at = "wake" /\ Begun("wake", 0).nap = 0
  BY BegunTyped
<1>5. ToGo(w)' <= ToGo(w)
  BY <1>0, <1>4, LookShortens DEF WorkerIs
<1>6. Begun("wake", 0).nap <= Pass
  BY <1>4, WaitsTyped, SMT
<1> QED
  BY <1>0, <1>2, <1>3, <1>4, <1>5, <1>6, WorkerKeeps, Names

LEMMA PushKeeps == ASSUME Inv, NEW w \in Workers, Pushed(w) PROVE Parts'
<1> USE DEF Inv
<1>0. worker[w].at = "push" /\ worker[w].nap = 0 /\ WorkerIs(w, Begun("confirm", 0))
  BY PushStep
<1>1. w[1] \in UPS /\ w = <<w[1], w[2]>> /\ w[2] \in 1 .. MaxWorkers
  BY SMT DEF Workers
<1>2. w[1] = P
  BY <1>0, <1>1, Names DEF Parts, WorkersOK
<1>3. UNCHANGED <<outside, polls, ctx, history, halted>>
  BY PushStep DEF ends
<1>4. Begun("confirm", 0) \in Worker /\ Begun("confirm", 0).at = "confirm"
      /\ Begun("confirm", 0).nap = 0 /\ Begun("confirm", 0).left = ShutdownWait
  BY BegunTyped, WindowsTyped
<1>5. ToGo(w)' <= ToGo(w)
  BY <1>0, <1>4, LookShortens DEF WorkerIs
<1>6. Begun("confirm", 0).nap <= Begun("confirm", 0).left
  BY <1>4, WaitsTyped, SMT
<1> QED
  BY <1>0, <1>2, <1>3, <1>4, <1>5, <1>6, WorkerKeeps, Names

LEMMA ConfirmKeeps == ASSUME Inv, NEW w \in Workers, Confirm(w) PROVE Parts'
<1> USE DEF Inv
<1>0. worker[w].at = "confirm" /\ worker[w].nap = 0 /\ worker[w] \in Worker
  BY ConfirmStep DEF TypeOK
<1>1. w[1] \in UPS /\ w = <<w[1], w[2]>> /\ w[2] \in 1 .. MaxWorkers
  BY SMT DEF Workers
<1>2. w[1] = P
  BY <1>0, <1>1, Names DEF Parts, WorkersOK
<1>3. UNCHANGED <<outside, polls, history>>
  BY ConfirmStep
<1>4. NoWorker \in Worker /\ NoWorker.at = "none"
  BY BegunTyped DEF NoWorker
<1>5. CASE StoodDown(w) /\ WorkerIs(w, NoWorker) /\ UNCHANGED <<ctx, ends>>
  BY <1>2, <1>3, <1>4, <1>5, WorkerKeeps, Names DEF StoodDown, ends
<1>6. CASE worker[w].left > 0 /\ UNCHANGED <<ctx, ends>>
           /\ WorkerIs(w, [at |-> worker[w].at, left |-> worker[w].left, nap |-> 1])
  <2>1. [at |-> worker[w].at, left |-> worker[w].left, nap |-> 1] \in Worker
    BY <1>0, SMT DEF Worker
  <2>2. ToGo(w)' <= ToGo(w) /\ 1 <= worker[w].left
    BY <1>0, <1>6, LookShortens, SMT DEF Worker, WorkerIs
  <2> QED
    BY <1>0, <1>2, <1>3, <1>6, <2>1, <2>2, WorkerKeeps, Names DEF ends
<1>7. CASE /\ WorkerIs(w, NoWorker) /\ ctx' \in [UPS -> Context] /\ Ends2
           /\ \A v \in UPS : v # w[1] => ctx'[v] = ctx[v]
           /\ ctx'[w[1]].known = ctx[w[1]].known /\ Finished(w[1])
           /\ ctx[w[1]].mode = "shutting_down"
  <2>0. UNCHANGED <<power, out, stood>> /\ Gap' = Gap
    BY <1>3 DEF outside, polls, history, Gap
  <2>1. ctx'[O] = ctx[O] /\ ctx'[P].known = ctx[P].known /\ ctx'[P].mode # "monitoring"
        /\ (ctx'[P].mode = "shutting_down" => halted')
        /\ (Resting(ctx'[P]) => ~ctx[P].known)
    BY <1>2, <1>7, Names DEF Finished, Resting
  <2>2. \A k \in 1 .. MaxWorkers : worker'[<<O, k>>] = worker[<<O, k>>]
    <3> SUFFICES ASSUME NEW k \in 1 .. MaxWorkers PROVE worker'[<<O, k>>] = worker[<<O, k>>]
      OBVIOUS
    <3>1. <<O, k>> \in Workers
      BY Names, WorkerOf
    <3>2. <<O, k>> # w
      BY <1>1, <1>2, Names, SMT
    <3> QED
      BY <1>7, <3>1, <3>2 DEF WorkerIs
  <2>3. \A k \in 1 .. MaxWorkers : worker'[<<P, k>>] = worker[<<P, k>>] \/ worker'[<<P, k>>] = NoWorker
    BY <1>7, Names, WorkerOf DEF WorkerIs
  <2>4. UnknownOK' /\ RestingOK'
    BY <2>0, <2>1 DEF Parts, UnknownOK, RestingOK
  <2>5. TimersOK' /\ MonitoringOK'
    BY <2>1, Names DEF Parts, TimersOK, MonitoringOK
  <2>6. WorkersOK'
    BY <2>2, <2>3, <1>4 DEF Parts, WorkersOK
  <2>7. ShuttingOK'
    BY <2>1 DEF ShuttingOK
  <2>8. LateOK'
    BY <2>0, <2>1, <2>2 DEF Parts, LateOK
  <2> QED
    BY <2>4, <2>5, <2>6, <2>7, <2>8 DEF Parts
<1> QED
  BY <1>5, <1>6, <1>7, ConfirmStep

\* A turn: who is due has run before it.
LEMMA LaterFields ==
  /\ \A c : Later(c).mode = c.mode /\ Later(c).phase = c.phase /\ Later(c).known = c.known
           /\ Later(c).left = Less(c.left) /\ Later(c).timer = Less(c.timer)
  /\ \A w : LaterWorker(w).at = w.at /\ LaterWorker(w).nap = Less(w.nap)
           /\ LaterWorker(w).left = Less(w.left)
  BY SMT DEF Later, LaterWorker

LEMMA TurnOfWorker ==
  ASSUME TypeOK, Tick, NEW w \in Workers, worker[w].at # "none"
  PROVE  /\ worker[w] \in Worker /\ worker'[w] \in Worker
         /\ worker'[w].at = worker[w].at /\ worker[w].nap > 0
         /\ worker'[w].nap = worker[w].nap - 1
         /\ worker'[w].left = IF worker[w].left > 0 THEN worker[w].left - 1 ELSE 0
<1>1. worker[w] \in Worker /\ worker'[w] \in Worker /\ worker[w].nap > 0
  BY TurnTyped DEF TypeOK, Typed, Tick, NothingDue
<1>2. worker'[w].at = worker[w].at /\ worker'[w].nap = Less(worker[w].nap)
      /\ worker'[w].left = Less(worker[w].left)
  BY TurnTyped, LaterFields
<1>3. worker[w].left \in Nat /\ worker[w].nap \in Nat
  BY <1>1, SMT DEF Worker
<1> QED
  BY <1>1, <1>2, <1>3, SMT DEF Less

\* A turn brings a worker of the primary a turn closer to its end.
LEMMA TurnShortens ==
  ASSUME TypeOK, WorkersOK, Tick, NEW k \in 1 .. MaxWorkers, worker[<<P, k>>].at # "none"
  PROVE  /\ worker'[<<P, k>>].at # "none" /\ ToGo(<<P, k>>) \in Nat /\ ToGo(<<P, k>>)' \in Nat
         /\ ToGo(<<P, k>>)' <= ToGo(<<P, k>>) - 1
<1> DEFINE a == worker[<<P, k>>]
           b == worker'[<<P, k>>]
<1>1. <<P, k>> \in Workers
  BY Names, WorkerOf
<1>2. a \in Worker /\ b \in Worker /\ b.at = a.at /\ a.nap > 0 /\ b.nap = a.nap - 1
      /\ b.left = (IF a.left > 0 THEN a.left - 1 ELSE 0)
  BY <1>1, TurnOfWorker
<1>3. a.at \in {"send", "wake", "push", "confirm"}
  <2>1. a.at # "hold" /\ a.at # "none"
    BY DEF WorkersOK
  <2> QED
    BY <1>2, <2>1, SMT DEF Worker
<1>4. (a.at = "wake" => a.nap <= Pass) /\ (a.at = "confirm" => a.nap <= a.left)
  BY DEF WorkersOK
<1>5. a.left \in Nat /\ a.nap \in Nat /\ b.left \in Nat /\ b.nap \in Nat
  BY <1>2, SMT DEF Worker
<1>6. ToGo(<<P, k>>) = IF a.at = "send" THEN a.nap + WakeTimeout + Pass - 1 + Push + ShutdownWait
                       ELSE IF a.at = "wake" THEN (IF a.left = 0 THEN a.nap ELSE a.left + Pass - 1) + Push + ShutdownWait
                       ELSE IF a.at = "push" THEN a.nap + ShutdownWait ELSE a.left
  BY DEF ToGo
<1>7. ToGo(<<P, k>>)' = IF b.at = "send" THEN b.nap + WakeTimeout + Pass - 1 + Push + ShutdownWait
                        ELSE IF b.at = "wake" THEN (IF b.left = 0 THEN b.nap ELSE b.left + Pass - 1) + Push + ShutdownWait
                        ELSE IF b.at = "push" THEN b.nap + ShutdownWait ELSE b.left
  BY DEF ToGo
<1>8. b.at # "none"
  BY <1>2
<1> HIDE DEF a, b
<1>9. ToGo(<<P, k>>)' <= ToGo(<<P, k>>) - 1 /\ ToGo(<<P, k>>) \in Nat /\ ToGo(<<P, k>>)' \in Nat
  <2>1. CASE a.at = "wake"
    BY <2>1, <1>2, <1>4, <1>5, <1>6, <1>7, WaitsTyped, SMT
  <2>2. CASE a.at = "push"
    BY <2>2, <1>2, <1>5, <1>6, <1>7, WaitsTyped, SMT
  <2>3. CASE a.at = "confirm"
    BY <2>3, <1>2, <1>4, <1>5, <1>6, <1>7, WaitsTyped, SMT
  <2>4. CASE a.at = "send"
    BY <2>4, <1>2, <1>5, <1>6, <1>7, WaitsTyped, SMT
  <2> QED
    BY <1>3, <2>1, <2>2, <2>3, <2>4
<1> QED
  BY <1>8, <1>9 DEF b

LEMMA TurnKeeps == ASSUME Inv, ~halted, Tick PROVE ClockOK' /\ Parts'
<1> USE DEF Inv
<1>1. /\ Typed
      /\ \A u \in UPS : ctx'[u] = Later(ctx[u])
      /\ \A w \in Workers : worker'[w] = LaterWorker(worker[w])
  BY TurnTyped
<1>2. pollIn > 0 /\ pollIn' = pollIn - 1 /\ polling = {} /\ polling' = {}
      /\ UNCHANGED <<power, halted>>
  <2>1. pollIn > 0 /\ pollIn' = pollIn - 1 /\ UNCHANGED <<power, polling, halted>>
    BY DEF Tick, NothingDue, ends
  <2>2. polling # {} => pollIn = 0
    BY DEF ClockOK
  <2> QED
    BY <2>1, <2>2
<1>3. Gap = pollIn /\ Gap' = pollIn - 1 /\ pollIn \in Nat /\ out \in Nat /\ stood \in Nat
  BY <1>2, GapTyped DEF Gap
<1>4. out' \in Nat /\ out' <= out + 1 /\ (power[P] = "OL" => out' = 0)
  BY <1>3, WaitsTyped, SMT DEF Tick, AtMost, P
<1>5. stood' \in Nat /\ stood' <= stood + 1
  BY <1>3, WaitsTyped, SMT DEF Tick, AtMost
<1>6. \A u \in UPS : ctx'[u].mode = ctx[u].mode /\ ctx'[u].known = ctx[u].known
  BY <1>1, LaterFields
<1>7. ASSUME NEW u \in UPS, ctx[u].mode = "monitoring"
      PROVE  /\ ctx[u].timer \in 0 .. Longest /\ ctx'[u].timer = ctx[u].timer - 1
             /\ ctx'[u].timer \in 0 .. Longest
  <2>1. ctx[u].timer \in 0 .. Longest /\ ctx[u].timer # 0
    BY <1>7 DEF Parts, TimersOK, Tick, NothingDue
  <2>2. ctx'[u].timer = Less(ctx[u].timer)
    BY <1>1, LaterFields
  <2> QED
    BY <2>1, <2>2, WaitsTyped, SMT DEF Less
<1>8. ASSUME NEW w \in Workers, worker[w].at # "none"
      PROVE  /\ worker[w] \in Worker /\ worker'[w] \in Worker
             /\ worker'[w].at = worker[w].at /\ worker[w].nap > 0
             /\ worker'[w].nap = worker[w].nap - 1
             /\ worker'[w].left = IF worker[w].left > 0 THEN worker[w].left - 1 ELSE 0
  BY <1>8, TurnOfWorker
<1>9. \A w \in Workers : worker'[w].at = worker[w].at
  BY <1>1, LaterFields
<1>c. ClockOK'
  BY <1>2, <1>4 DEF ClockOK
<1>u. UnknownOK' /\ RestingOK'
  <2>1. ASSUME out + Gap <= PollEvery PROVE out' + Gap' <= PollEvery
    BY <2>1, <1>3, <1>4, WaitsTyped, SMT
  <2> QED
    BY <1>2, <1>6, <2>1, Names DEF Parts, UnknownOK, RestingOK, Resting
<1>t. TimersOK'
  BY <1>6, <1>7 DEF TimersOK
<1>m. MonitoringOK'
  <2> SUFFICES ASSUME ctx[P].mode = "monitoring" PROVE out' + ctx'[P].timer <= PollEvery + Longest
    BY <1>6, Names DEF MonitoringOK
  <2>1. out + ctx[P].timer <= PollEvery + Longest
    BY DEF Parts, MonitoringOK
  <2>2. ctx[P].timer \in 0 .. Longest /\ ctx'[P].timer = ctx[P].timer - 1
    BY <1>7, Names
  <2> QED
    BY <2>1, <2>2, <1>3, <1>4, WaitsTyped, SMT
<1>w. WorkersOK'
  <2> SUFFICES ASSUME NEW k \in 1 .. MaxWorkers
      PROVE  /\ worker'[<<P, k>>].at # "hold"
             /\ worker'[<<O, k>>].at \in {"none", "hold"}
             /\ worker'[<<P, k>>].at = "wake" => worker'[<<P, k>>].nap <= Pass
             /\ worker'[<<P, k>>].at = "confirm" => worker'[<<P, k>>].nap <= worker'[<<P, k>>].left
             /\ worker'[<<O, k>>].at = "hold" => worker'[<<O, k>>].nap <= Pass
    BY DEF WorkersOK
  <2>0. <<P, k>> \in Workers /\ <<O, k>> \in Workers
    BY Names, WorkerOf
  <2>1. worker'[<<P, k>>].at # "hold" /\ worker'[<<O, k>>].at \in {"none", "hold"}
    BY <1>9, <2>0 DEF Parts, WorkersOK
  <2>2. ASSUME worker'[<<P, k>>].at = "wake" PROVE worker'[<<P, k>>].nap <= Pass
    <3>1. worker[<<P, k>>].at = "wake" /\ worker[<<P, k>>].nap <= Pass
      BY <2>2, <1>9, <2>0 DEF Parts, WorkersOK
    <3> QED
      BY <3>1, <2>0, <1>8, WaitsTyped, SMT DEF Worker
  <2>3. ASSUME worker'[<<P, k>>].at = "confirm"
        PROVE  worker'[<<P, k>>].nap <= worker'[<<P, k>>].left
    <3>1. worker[<<P, k>>].at = "confirm" /\ worker[<<P, k>>].nap <= worker[<<P, k>>].left
      BY <2>3, <1>9, <2>0 DEF Parts, WorkersOK
    <3> QED
      BY <3>1, <2>0, <1>8, WaitsTyped, SMT DEF Worker
  <2>4. ASSUME worker'[<<O, k>>].at = "hold" PROVE worker'[<<O, k>>].nap <= Pass
    <3>1. worker[<<O, k>>].at = "hold" /\ worker[<<O, k>>].nap <= Pass
      BY <2>4, <1>9, <2>0 DEF Parts, WorkersOK
    <3> QED
      BY <3>1, <2>0, <1>8, WaitsTyped, SMT DEF Worker
  <2> QED
    BY <2>1, <2>2, <2>3, <2>4
<1>s. ShuttingOK'
  <2> SUFFICES ASSUME ctx[P].mode = "shutting_down"
      PROVE  \E k \in 1 .. MaxWorkers :
               worker'[<<P, k>>].at # "none" /\ out' + ToGo(<<P, k>>)' <= AnswerBound
    BY <1>6, Names DEF ShuttingOK
  <2>1. PICK k \in 1 .. MaxWorkers :
          worker[<<P, k>>].at # "none" /\ out + ToGo(<<P, k>>) <= AnswerBound
    BY DEF Parts, ShuttingOK
  <2>2. /\ worker'[<<P, k>>].at # "none" /\ ToGo(<<P, k>>) \in Nat /\ ToGo(<<P, k>>)' \in Nat
        /\ ToGo(<<P, k>>)' <= ToGo(<<P, k>>) - 1
    BY <2>1, TurnShortens DEF Parts
  <2>3. out' + ToGo(<<P, k>>)' <= AnswerBound
    BY <2>1, <2>2, <1>3, <1>4, WaitsTyped, SMT
  <2> QED
    BY <2>2, <2>3
<1>l. LateOK'
  <2> SUFFICES ASSUME NEW k \in 1 .. MaxWorkers, worker'[<<O, k>>].at = "hold",
                      ctx[O].mode # "shutting_down"
      PROVE  stood' + worker'[<<O, k>>].nap <= Pass
    BY <1>6, Names DEF LateOK
  <2>1. <<O, k>> \in Workers
    BY Names, WorkerOf
  <2>2. worker[<<O, k>>].at = "hold" /\ stood + worker[<<O, k>>].nap <= Pass
    BY <1>9, <2>1 DEF Parts, LateOK
  <2>3. worker'[<<O, k>>].nap = worker[<<O, k>>].nap - 1 /\ worker[<<O, k>>].nap \in Nat
    BY <1>8, <2>1, <2>2, SMT DEF Worker
  <2> QED
    BY <2>2, <2>3, <1>3, <1>5, WaitsTyped, SMT
<1> QED
  BY <1>c, <1>u, <1>t, <1>m, <1>w, <1>s, <1>l DEF Parts

LEMMA InitKeeps == Init => Inv
<1> SUFFICES ASSUME Init PROVE Inv
  OBVIOUS
<1>1. TypeOK
  BY InitTyped
<1>2. /\ \A u \in UPS : ctx[u].mode = "idle" /\ ctx[u].known = FALSE /\ power[u] = "OL"
      /\ \A w \in Workers : worker[w] = NoWorker
      /\ polling = {} /\ out = 0
  BY DEF Init
<1>3. NoWorker.at = "none"
  BY BegunTyped DEF NoWorker
<1>4. ClockOK /\ UnknownOK /\ RestingOK
  BY <1>2, Names DEF ClockOK, UnknownOK, RestingOK
<1>5. TimersOK /\ MonitoringOK /\ ShuttingOK
  BY <1>2, Names DEF TimersOK, MonitoringOK, ShuttingOK
<1>6. WorkersOK /\ LateOK
  BY <1>1, <1>2, <1>3, Names, WorkerOf DEF WorkersOK, LateOK
<1> QED
  BY <1>1, <1>4, <1>5, <1>6 DEF Inv, Parts

LEMMA StepKeeps == Inv /\ [Next]_vars => Inv'
<1> SUFFICES ASSUME Inv, [Next]_vars PROVE Inv'
  OBVIOUS
<1>0. TypeOK /\ TypeOK' /\ ClockOK /\ Parts
  BY StepTyped DEF Inv
<1>g. Gap \in Nat /\ Gap' \in Nat
  <2>1. Gap \in Nat
    BY <1>0, GapTyped
  <2>2. Gap' \in Nat
    BY <1>0, WaitsTyped, SMT DEF TypeOK, Gap
  <2> QED
    BY <2>1, <2>2
<1>e. ASSUME NEW u \in UPS, Effect(u), UNCHANGED <<power, out, polls>>, ctx'[u].known = ctx[u].known
      PROVE  ClockOK' /\ Parts'
  <2>1. Gap' = Gap /\ Gap' <= Gap
    <3>1. Gap' = Gap
      BY <1>e DEF polls, Gap
    <3> QED
      BY <3>1, <1>g, SMT
  <2>2. ctx'[P].known = ctx[P].known
    BY <1>e, Names DEF Effect, OthersKeep
  <2> QED
    BY <1>0, <1>e, <1>g, <2>1, <2>2, EffectKeepsHands, EffectKeepsTime DEF ClockOK, Parts, polls
<1>k. ASSUME UNCHANGED <<power, out, stood, ctx, worker, halted, polls>> PROVE ClockOK' /\ Parts'
  BY <1>0, <1>k
     DEF ClockOK, Parts, UnknownOK, RestingOK, TimersOK, MonitoringOK, WorkersOK, ShuttingOK,
         LateOK, ToGo, Gap, polls
<1>w. ASSUME UNCHANGED <<outside, polls, history>> PROVE ClockOK'
  BY <1>0, <1>w DEF ClockOK, outside, polls, history
<1>p. ASSUME UNCHANGED <<polls, ctx, worker, halted, stood>>, out' = out \/ out' = 0,
             power'[P] = "OL" => out' = 0,
             power'[P] = "OB" => power[P] = "OB" \/ power[P] = "OL"
      PROVE  ClockOK' /\ Parts'
  <2>1. out' \in Nat /\ out' <= out /\ out \in Nat
    BY <1>0, <1>p, GapTyped, SMT
  <2>2. Gap' = Gap
    BY <1>p DEF polls, Gap
  <2>3. ClockOK'
    BY <1>0, <1>p DEF ClockOK, polls
  <2>4. ASSUME power'[P] = "OB", power[P] = "OL" PROVE out' + Gap <= PollEvery
    <3>1. out' = 0
      BY <1>0, <1>p, <2>4 DEF ClockOK
    <3>2. Gap <= PollEvery
      BY <1>0, WaitsTyped, SMT DEF Gap, TypeOK
    <3> QED
      BY <3>1, <3>2, <1>g, WaitsTyped, SMT
  <2>5. ASSUME out + Gap <= PollEvery PROVE out' + Gap <= PollEvery
    BY <2>1, <2>5, <1>g, WaitsTyped, SMT
  <2>6. UnknownOK' /\ RestingOK'
    BY <1>0, <1>p, <2>2, <2>4, <2>5 DEF Parts, UnknownOK, RestingOK
  <2>7. TimersOK' /\ WorkersOK' /\ LateOK'
    BY <1>0, <1>p DEF Parts, TimersOK, WorkersOK, LateOK
  <2>8. MonitoringOK'
    <3> SUFFICES ASSUME ctx[P].mode = "monitoring" PROVE out' + ctx[P].timer <= PollEvery + Longest
      BY <1>p DEF MonitoringOK
    <3>1. out + ctx[P].timer <= PollEvery + Longest /\ ctx[P].timer \in 0 .. Longest
      BY <1>0, Names DEF Parts, MonitoringOK, TimersOK
    <3> QED
      BY <2>1, <3>1, WaitsTyped, SMT
  <2>9. ShuttingOK'
    <3> SUFFICES ASSUME ctx[P].mode = "shutting_down", ~halted
        PROVE  \E k \in 1 .. MaxWorkers :
                 worker[<<P, k>>].at # "none" /\ out' + ToGo(<<P, k>>) <= AnswerBound
      BY <1>p DEF ShuttingOK, ToGo
    <3>1. PICK k \in 1 .. MaxWorkers :
            worker[<<P, k>>].at # "none" /\ out + ToGo(<<P, k>>) <= AnswerBound
      BY <1>0 DEF Parts, ShuttingOK
    <3>2. worker[<<P, k>>] \in Worker
      BY <1>0, WorkerOf, Names
    <3>3. ToGo(<<P, k>>) \in Int
      BY <3>2, WaitsTyped, SMT DEF ToGo, Worker
    <3> DEFINE g == ToGo(<<P, k>>)
    <3>4. g \in Int /\ out + g <= AnswerBound
      BY <3>1, <3>3
    <3> HIDE DEF g
    <3>5. out' + g <= AnswerBound
      BY <2>1, <3>4, WaitsTyped, SMT
    <3> QED
      BY <3>1, <3>5 DEF g
  <2> QED
    BY <2>3, <2>6, <2>7, <2>8, <2>9 DEF Parts
<1>1. ASSUME BeginPoll PROVE ClockOK' /\ Parts'
  <2>1. pollIn = 0 /\ polling = {} /\ polling' = UPS /\ pollIn' = 0
        /\ UNCHANGED <<power, out, stood, ctx, worker, halted>>
    BY <1>1 DEF BeginPoll, outside, server, ends, history
  <2>2. Gap' = Gap
    BY <2>1, Names DEF Gap
  <2> QED
    BY <1>0, <2>1, <2>2
       DEF ClockOK, Parts, UnknownOK, RestingOK, TimersOK, MonitoringOK, WorkersOK, ShuttingOK,
           LateOK, ToGo
<1>2. ASSUME NEW u \in UPS, SuspendDueEvent(u) PROVE ClockOK' /\ Parts'
  BY <1>0, <1>2, <1>e, DueStep, Names DEF Expires, history
<1>3. ASSUME NEW u \in UPS, Poll(u) PROVE ClockOK' /\ Parts'
  <2>1. polling # {} => pollIn = 0
    BY <1>0 DEF ClockOK
  <2>2. /\ Effect(u) /\ ctx'[u].known = (power[u] # "OL")
        /\ power[u] = "OB" => ~Resting(ctx'[u])
        /\ u = O => Gap' <= Gap
        /\ polling' # {} => pollIn' = 0
    BY <1>0, <1>3, <2>1, PollStep
  <2>3. UNCHANGED <<power, out>>
    BY <1>3 DEF Poll, outside
  <2>4. ClockOK'
    BY <1>0, <2>2, <2>3 DEF ClockOK
  <2>5. CASE u = P
    BY <1>0, <2>2, <2>3, <2>4, <2>5, EffectKeepsHands, EffectKeepsTime DEF Inv, Parts
  <2>6. CASE u = O
    <3>1. ctx'[P] = ctx[P]
      BY <2>2, <2>6, Names DEF Effect, OthersKeep
    <3> QED
      BY <1>0, <1>g, <2>2, <2>3, <2>4, <2>6, <3>1, EffectKeepsHands, EffectKeepsTime DEF Inv, Parts
  <2> QED
    BY <2>5, <2>6, Names
<1>4. ASSUME NEW u \in UPS, Notice(u) PROVE ClockOK' /\ Parts'
  <2>1. /\ Effect(u) /\ ctx'[u].known = (power[u] # "OL")
        /\ power[u] = "OB" => ~Resting(ctx'[u])
    BY <1>0, <1>4, HandleEffect DEF Notice
  <2>2. UNCHANGED <<power, out, polls>>
    BY <1>4 DEF Notice, outside
  <2>3. Gap' <= Gap
    <3>1. Gap' = Gap
      BY <2>2 DEF polls, Gap
    <3> QED
      BY <3>1, <1>g, SMT
  <2>4. ClockOK'
    BY <1>0, <2>2 DEF ClockOK, polls
  <2>5. CASE u = P
    BY <1>0, <2>1, <2>2, <2>4, <2>5, EffectKeepsHands, EffectKeepsTime DEF Inv, Parts
  <2>6. CASE u = O
    <3>1. ctx'[P] = ctx[P]
      BY <2>1, <2>6, Names DEF Effect, OthersKeep
    <3> QED
      BY <1>0, <1>g, <2>1, <2>2, <2>3, <2>4, <2>6, <3>1, EffectKeepsHands, EffectKeepsTime DEF Inv, Parts
  <2> QED
    BY <2>5, <2>6, Names
<1>5. ASSUME NEW u \in UPS, TimerFires(u) PROVE ClockOK' /\ Parts'
  BY <1>0, <1>5, <1>e, TimerStep DEF Expires, outside, history
<1>6. ASSUME NEW w \in Workers, Hold(w) PROVE ClockOK' /\ Parts'
  BY <1>0, <1>6, <1>w, HoldStep, HoldKeeps
<1>7. ASSUME NEW w \in Workers, WakeWindow(w) PROVE ClockOK' /\ Parts'
  BY <1>0, <1>7, <1>w, WakeStep, WakeKeeps
<1>8. ASSUME NEW w \in Workers, FirstSent(w) \/ Pushed(w) PROVE ClockOK' /\ Parts'
  BY <1>0, <1>8, <1>w, FirstStep, FirstKeeps, PushStep, PushKeeps
<1>9. ASSUME NEW w \in Workers, Confirm(w) PROVE ClockOK' /\ Parts'
  BY <1>0, <1>9, <1>w, ConfirmStep, ConfirmKeeps
<1>10. ASSUME DesktopSleeps \/ DesktopLeaves PROVE ClockOK' /\ Parts'
  BY <1>0, <1>10, <1>e, SleepStep, Names DEF Expires, history
<1>11. ASSUME DesktopComesUp \/ OutletsOff \/ OutletsOn PROVE ClockOK' /\ Parts'
  BY <1>11, <1>k
     DEF DesktopComesUp, OutletsOff, OutletsOn, outside, server, ends, history
<1>12. ASSUME \/ PrimaryFails \/ PrimaryReturns
              \/ ObserverFails \/ ObserverRunsLow \/ ObserverReturns
       PROVE  ClockOK' /\ Parts'
  <2>0. power[P] \in {"OL", "OB"} /\ power \in [UPS -> {"OL", "OB", "LB"}]
        /\ (power[P] = "OL" => out = 0)
    BY <1>0, Names DEF TypeOK, ClockOK, P
  <2>1. CASE PrimaryFails
    BY <2>0, <2>1, <1>p, Names DEF PrimaryFails, server, ends, history, P
  <2>2. CASE PrimaryReturns
    BY <2>0, <2>2, <1>p, Names DEF PrimaryReturns, server, ends, P
  <2>3. CASE ObserverFails \/ ObserverRunsLow \/ ObserverReturns
    <3>1. power'[P] = power[P]
      BY <2>0, <2>3, Names DEF ObserverFails, ObserverRunsLow, ObserverReturns, O
    <3> QED
      BY <2>0, <2>3, <3>1, <1>p
         DEF ObserverFails, ObserverRunsLow, ObserverReturns, server, ends, history
  <2> QED
    BY <1>12, <2>1, <2>2, <2>3
<1>13. ASSUME Tick, ~halted PROVE ClockOK' /\ Parts'
  BY <1>0, <1>13, TurnKeeps
<1>14. ASSUME UNCHANGED vars PROVE ClockOK' /\ Parts'
  BY <1>14, <1>k DEF vars, outside, server, ends, history
<1> QED
  BY <1>0, <1>1, <1>2, <1>3, <1>4, <1>5, <1>6, <1>7, <1>8, <1>9, <1>10, <1>11, <1>12, <1>13, <1>14
     DEF Next, ServerStep, OutsideStep, WorkerStep, Inv

THEOREM Invariance == Spec => []Inv
<1> QED
  BY InitKeeps, StepKeeps, PTL DEF Spec

\* A server on battery is shut down within AnswerBound turns, for waits of any
\* length and whatever the desktop does: _start_battery_monitoring, the timers and the
\* workers leave no moment at which nobody has the outage in hand in time.
THEOREM AnswerInTime == Spec => []AnsweredInTime
<1>1. Inv => AnsweredInTime
  <2> SUFFICES ASSUME Inv, power["primary"] # "OL", ~halted PROVE out <= AnswerBound
    BY DEF AnsweredInTime
  <2>0. TypeOK /\ power[P] = "OB" /\ ctx[P] \in Context /\ Gap \in Nat /\ out \in Nat
    BY GapTyped, Names DEF Inv, TypeOK, P
  <2>1. CASE Resting(ctx[P])
    <3>1. out + Gap <= PollEvery
      BY <2>0, <2>1 DEF Inv, Parts, RestingOK
    <3> QED
      BY <2>0, <3>1, WaitsTyped, SMT
  <2>2. CASE ctx[P].mode = "monitoring"
    <3>1. ctx[P].timer \in 0 .. Longest /\ out + ctx[P].timer <= PollEvery + Longest
      BY <2>2, Names DEF Inv, Parts, TimersOK, MonitoringOK
    <3> QED
      BY <2>0, <3>1, WaitsTyped, SMT
  <2>3. CASE ctx[P].mode = "shutting_down"
    <3>1. PICK k \in 1 .. MaxWorkers : out + ToGo(<<P, k>>) <= AnswerBound
      BY <2>3 DEF Inv, Parts, ShuttingOK
    <3>2. worker[<<P, k>>] \in Worker
      BY <2>0, WorkerOf, Names
    <3>3. ToGo(<<P, k>>) \in Nat
      BY <3>2, WaitsTyped, SMT DEF ToGo, Worker
    <3> QED
      BY <2>0, <3>1, <3>3, WaitsTyped, SMT
  <2>4. ctx[P].mode \in {"idle", "monitoring", "shutting_down", "desktop_handled"}
    BY <2>0, SMT DEF Context
  <2> QED
    BY <2>1, <2>2, <2>3, <2>4 DEF Resting
<1> QED
  BY <1>1, Invariance, PTL

\* Only a worker of the observer cuts the power other than at once.
LEMMA HolderCuts ==
  ASSUME Inv, [Next]_vars, cut' # cut, cut' \notin {"none", "hurried"}
  PROVE  \E k \in 1 .. MaxWorkers : <<O, k>> \in Workers /\ Hold(<<O, k>>)
<1>0. TypeOK
  BY DEF Inv
<1>1. ASSUME Ends2 PROVE FALSE
  BY <1>1 DEF Ends2
<1>2. CASE \E w \in Workers : Hold(w)
  <2>1. PICK w \in Workers : Hold(w)
    BY <1>2
  <2>2. worker[w].at = "hold"
    BY <1>0, <2>1, HoldStep
  <2>3. w[1] \in UPS /\ w = <<w[1], w[2]>> /\ w[2] \in 1 .. MaxWorkers
    BY SMT DEF Workers
  <2>4. w[1] = O
    BY <2>2, <2>3, Names DEF Inv, Parts, WorkersOK
  <2> QED
    BY <2>1, <2>3, <2>4
<1>3. ASSUME NEW u \in UPS, Poll(u) \/ Notice(u) \/ TimerFires(u) PROVE FALSE
  BY <1>0, <1>1, <1>3, HandleEffect, TimerStep DEF Expires, Poll, Notice, Effect
<1>4. ASSUME (\E u \in UPS : SuspendDueEvent(u)) \/ DesktopSleeps \/ DesktopLeaves PROVE FALSE
  BY <1>0, <1>1, <1>4, DueStep, SleepStep DEF Expires, Effect
<1>5. CASE \E w \in Workers : FirstSent(w) \/ WakeWindow(w) \/ Pushed(w)
  BY <1>0, <1>5, FirstStep, WakeStep, PushStep DEF ends
<1>6. ASSUME NEW w \in Workers, Confirm(w) PROVE FALSE
  BY <1>0, <1>1, <1>6, ConfirmStep DEF ends
<1>7. CASE \/ BeginPoll \/ DesktopComesUp \/ OutletsOff \/ OutletsOn
           \/ PrimaryFails \/ PrimaryReturns
           \/ ObserverFails \/ ObserverRunsLow \/ ObserverReturns \/ Tick \/ UNCHANGED vars
  BY <1>7
     DEF BeginPoll, DesktopComesUp, OutletsOff, OutletsOn, PrimaryFails, PrimaryReturns,
         ObserverFails, ObserverRunsLow, ObserverReturns, Tick, vars, server, ends
<1> QED
  BY <1>2, <1>3, <1>4, <1>5, <1>6, <1>7 DEF Next, ServerStep, OutsideStep, WorkerStep

\* An observer that has stood down cuts the power within one pass of its worker, or
\* not at all: _observer_power_off_when_desktop_safe, at its limit.
THEOREM LateCutBounded == Spec => LateCutIsBounded
<1>1. Inv /\ [Next]_vars =>
        (cut' # cut /\ cut' \notin {"none", "hurried"} /\ ctx["observer"].mode # "shutting_down"
         => stood <= Pass)
  <2> SUFFICES ASSUME Inv, [Next]_vars, cut' # cut, cut' \notin {"none", "hurried"},
                      ctx["observer"].mode # "shutting_down"
               PROVE  stood <= Pass
    OBVIOUS
  <2>1. TypeOK /\ LateOK
    BY DEF Inv, Parts
  <2>2. PICK k \in 1 .. MaxWorkers : <<O, k>> \in Workers /\ Hold(<<O, k>>)
    BY HolderCuts
  <2>3. worker[<<O, k>>].at = "hold" /\ worker[<<O, k>>].nap = 0
    BY <2>1, <2>2, HoldStep
  <2>4. stood + worker[<<O, k>>].nap <= Pass
    BY <2>1, <2>3 DEF LateOK, O
  <2> QED
    BY <2>1, <2>3, <2>4, GapTyped, WaitsTyped, SMT
<1> QED
  BY <1>1, Invariance, PTL DEF Spec, LateCutIsBounded

-----------------------------------------------------------------------------
(* The time the user is given, where NUT's timer is as long as the prompt   *)
(* and a poll together.                                                     *)

\* The timer of a prompt runs out with its deadline.
TimerIsDeadline ==
  \A u \in UPS :
    ctx[u].mode = "monitoring" /\ ctx[u].phase = "user_prompt" => ctx[u].timer = ctx[u].left

Prompting == ctx[P].mode = "monitoring" /\ ctx[P].phase = "user_prompt"
Due == due[P]

\* NUT's timer runs since the failure, and not out before the prompt.
DueOK ==
  /\ Due # Off => power[P] = "OB" /\ Due + out = SuspendDue
  /\ Due # Off /\ Prompting => ctx[P].left <= Due
  /\ Prompting => ctx[P].left <= PromptWait

PromptInv == Inv /\ TimerIsDeadline /\ DueOK

LEMMA ContextTyped ==
  ASSUME TypeOK, NEW u \in UPS
  PROVE  ctx[u].left \in Nat /\ ctx[u].timer \in Nat \cup {Off}
<1>1. ctx[u] \in Context
  BY DEF TypeOK
<1> QED
  BY <1>1, SMT DEF Context

LEMMA EffectKeepsPrompt ==
  ASSUME PromptInv, SuspendDue >= PromptWait + PollEvery, NEW u \in UPS, Effect(u),
         UNCHANGED <<power, out>>, Due' = Due \/ Due' = Off
  PROVE  TimerIsDeadline' /\ DueOK'
<1> USE DEF PromptInv
<1>t. OthersKeep(u) /\ TypeOK
  BY DEF Effect, Inv
<1>1. TimerIsDeadline'
  <2> SUFFICES ASSUME NEW v \in UPS, ctx'[v].mode = "monitoring",
                      ctx'[v].phase = "user_prompt"
               PROVE  ctx'[v].timer = ctx'[v].left
    BY DEF TimerIsDeadline
  <2>1. CASE v # u
    BY <1>t, <2>1 DEF OthersKeep, TimerIsDeadline
  <2>2. CASE v = u /\ Left(u)
    BY <2>2, Names DEF Left, TimerIsDeadline
  <2>3. CASE v = u /\ Began(u)
    BY <2>3 DEF Began
  <2>4. CASE v = u /\ (Rested(u) \/ Acted(u))
    BY <2>4 DEF Rested, Acted, Executed, Closed, Hired, Finished
  <2> QED
    BY <2>1, <2>2, <2>3, <2>4 DEF Effect
<1>2. Due' # Off => power[P] = "OB" /\ Due + out = SuspendDue /\ Due # Off /\ Due' = Due
  BY DEF DueOK
<1>3. ASSUME Prompting' PROVE ctx'[P].left <= PromptWait /\ (Due # Off => ctx'[P].left <= Due)
  <2>1. CASE ctx'[P] = ctx[P]
    BY <1>3, <2>1 DEF DueOK, Prompting
  <2>2. CASE u = P /\ Left(u)
    BY <1>3, <2>2 DEF DueOK, Prompting, Left
  <2>3. CASE u = P /\ Began(u)
    <3>1. ctx'[P].left = PromptWait
      BY <1>3, <2>3, SMT DEF Prompting, Began, Wait
    <3>2. Due # Off => Due + out = SuspendDue /\ out + Gap <= PollEvery
      BY <2>3 DEF DueOK, Began, Inv, Parts, RestingOK
    <3>3. Due \in {Off} \cup 0 .. SuspendDue
      BY <1>t, Names DEF TypeOK, Due
    <3>4. Due # Off => PromptWait <= Due
      BY <1>t, <3>2, <3>3, GapTyped, WaitsTyped, SMT DEF Off
    <3> QED
      BY <3>1, <3>4, WaitsTyped, SMT
  <2>4. CASE u = P /\ (Rested(u) \/ Acted(u))
    BY <1>3, <2>4 DEF Prompting, Rested, Acted, Executed, Closed, Hired, Finished
  <2> QED
    BY <1>t, <2>1, <2>2, <2>3, <2>4, Names DEF OthersKeep, Effect
<1> QED
  BY <1>1, <1>2, <1>3 DEF DueOK

LEMMA TurnKeepsPrompt ==
  ASSUME PromptInv, SuspendDue >= PromptWait + PollEvery, ~halted, Tick
  PROVE  TimerIsDeadline' /\ DueOK'
<1> USE DEF PromptInv
<1>t. TypeOK
  BY DEF Inv
<1>1. \A u \in UPS : /\ ctx'[u].mode = ctx[u].mode /\ ctx'[u].phase = ctx[u].phase
                     /\ ctx'[u].left = Less(ctx[u].left) /\ ctx'[u].timer = Less(ctx[u].timer)
  BY <1>t, TurnTyped, LaterFields
<1>2. TimerIsDeadline'
  BY <1>1 DEF TimerIsDeadline
<1>3. power' = power /\ Due # 0 /\ Due' = Less(Due) /\ Due \in {Off} \cup 0 .. SuspendDue
  BY <1>t, Names DEF Tick, NothingDue, TypeOK, Due
<1>4. ASSUME Due' # Off PROVE Due # Off /\ Due \in Nat /\ Due > 0 /\ Due' = Due - 1
  BY <1>3, <1>4, WaitsTyped, SMT DEF Less, Off
<1>5. ASSUME Due # Off PROVE out' = out + 1
  <2>1. power["primary"] = "OB"
    BY <1>5 DEF DueOK, P
  <2>2. out \in Nat /\ out' = AtMost(out + 1, AnswerBound + 1)
    BY <1>t, <2>1, GapTyped DEF Tick
  <2>3. out <= PollEvery \/ out <= AnswerBound
    <3>1. CASE Resting(ctx[P])
      <4>1. out + Gap <= PollEvery /\ Gap \in Nat
        BY <1>t, <2>1, <3>1, GapTyped DEF Inv, Parts, RestingOK, P
      <4> QED
        BY <2>2, <4>1, WaitsTyped, SMT
    <3>2. CASE ctx[P].mode = "monitoring"
      <4>1. ctx[P].timer \in 0 .. Longest /\ out + ctx[P].timer <= PollEvery + Longest
        BY <3>2, Names DEF Inv, Parts, TimersOK, MonitoringOK
      <4> QED
        BY <2>2, <4>1, WaitsTyped, SMT
    <3>3. CASE ctx[P].mode = "shutting_down"
      <4>1. PICK k \in 1 .. MaxWorkers : out + ToGo(<<P, k>>) <= AnswerBound
        BY <3>3 DEF Inv, Parts, ShuttingOK
      <4>2. worker[<<P, k>>] \in Worker
        BY <1>t, WorkerOf, Names
      <4>3. ToGo(<<P, k>>) \in Nat
        BY <4>2, WaitsTyped, SMT DEF ToGo, Worker
      <4> QED
        BY <2>2, <4>1, <4>3, WaitsTyped, SMT
    <3>4. ctx[P].mode \in {"idle", "monitoring", "shutting_down", "desktop_handled"}
      <4>1. ctx[P] \in Context
        BY <1>t, Names DEF TypeOK
      <4> QED
        BY <4>1, SMT DEF Context
    <3> QED
      BY <3>1, <3>2, <3>3, <3>4 DEF Resting
  <2> QED
    BY <2>2, <2>3, WaitsTyped, SMT DEF AtMost
<1>6. ASSUME Due' # Off PROVE power'[P] = "OB" /\ Due' + out' = SuspendDue
  <2>1. power[P] = "OB" /\ Due + out = SuspendDue
    BY <1>4, <1>6 DEF DueOK
  <2> QED
    BY <1>3, <1>4, <1>5, <1>6, <2>1, <1>t, GapTyped, WaitsTyped, SMT
<1>7. ASSUME Prompting' PROVE /\ ctx'[P].left <= PromptWait
                              /\ Due' # Off => ctx'[P].left <= Due'
  <2>1. Prompting /\ ctx'[P].left = Less(ctx[P].left) /\ ctx[P].left \in Nat
    BY <1>1, <1>7, <1>t, Names, ContextTyped DEF Prompting
  <2>2. ctx[P].left <= PromptWait /\ (Due # Off => ctx[P].left <= Due)
    BY <2>1 DEF DueOK
  <2> QED
    BY <1>4, <2>1, <2>2, WaitsTyped, SMT DEF Less
<1> QED
  BY <1>2, <1>6, <1>7 DEF DueOK

LEMMA StepKeepsPrompt ==
  ASSUME SuspendDue >= PromptWait + PollEvery
  PROVE  PromptInv /\ [Next]_vars => PromptInv'
<1> SUFFICES ASSUME PromptInv, [Next]_vars PROVE PromptInv'
  OBVIOUS
<1>0. Inv /\ Inv' /\ TypeOK
  BY StepKeeps DEF PromptInv, Inv
<1>e. ASSUME NEW u \in UPS, Effect(u), UNCHANGED <<power, out>>, Due' = Due \/ Due' = Off
      PROVE  TimerIsDeadline' /\ DueOK'
  BY <1>e, EffectKeepsPrompt
<1>k. ASSUME UNCHANGED <<power, out, Due, ctx>> PROVE TimerIsDeadline' /\ DueOK'
  BY <1>k DEF PromptInv, TimerIsDeadline, DueOK, Prompting
<1>1. ASSUME NEW u \in UPS, Poll(u) \/ Notice(u) PROVE TimerIsDeadline' /\ DueOK'
  BY <1>0, <1>1, <1>e, HandleEffect DEF Poll, Notice, outside, Due
<1>2. ASSUME NEW u \in UPS, TimerFires(u) PROVE TimerIsDeadline' /\ DueOK'
  BY <1>0, <1>2, <1>e, TimerStep DEF Expires, outside, history, Due
<1>3. ASSUME NEW u \in UPS, SuspendDueEvent(u) PROVE TimerIsDeadline' /\ DueOK'
  <2>1. Due' = Due \/ Due' = Off
    BY <1>0, <1>3, DueStep, Names DEF Expires, Due, TypeOK
  <2> QED
    BY <1>0, <1>3, <1>e, <2>1, DueStep DEF Expires, history
<1>4. ASSUME DesktopSleeps \/ DesktopLeaves PROVE TimerIsDeadline' /\ DueOK'
  BY <1>0, <1>4, <1>e, SleepStep, Names DEF Expires, history, Due
<1>5. ASSUME NEW w \in Workers, Hold(w) \/ FirstSent(w) \/ WakeWindow(w) \/ Pushed(w)
      PROVE  TimerIsDeadline' /\ DueOK'
  BY <1>0, <1>5, <1>k, HoldStep, FirstStep, WakeStep, PushStep DEF outside, history, Due
<1>6. ASSUME NEW w \in Workers, Confirm(w) PROVE TimerIsDeadline' /\ DueOK'
  <2>1. UNCHANGED <<power, out, Due>>
    BY <1>0, <1>6, ConfirmStep DEF outside, history, Due
  <2>2. CASE UNCHANGED ctx
    BY <1>k, <2>1, <2>2
  <2>3. CASE /\ \A v \in UPS : v # w[1] => ctx'[v] = ctx[v]
             /\ Finished(w[1])
    <3>1. \A u \in UPS : ctx'[u] = ctx[u] \/ ctx'[u].mode # "monitoring"
      BY <2>3 DEF Finished
    <3> QED
      BY <2>1, <3>1, Names DEF PromptInv, TimerIsDeadline, DueOK, Prompting
  <2> QED
    BY <1>0, <1>6, <2>2, <2>3, ConfirmStep
<1>7. ASSUME BeginPoll \/ DesktopComesUp \/ OutletsOff \/ OutletsOn PROVE TimerIsDeadline' /\ DueOK'
  BY <1>7, <1>k DEF BeginPoll, DesktopComesUp, OutletsOff, OutletsOn, outside, server, history, Due
<1>8. ASSUME PrimaryFails PROVE TimerIsDeadline' /\ DueOK'
  <2>0. power \in [UPS -> {"OL", "OB", "LB"}] /\ power[P] = "OL"
    BY <1>0, <1>8 DEF PrimaryFails, TypeOK, P
  <2>1. Due' = SuspendDue /\ power'[P] = "OB" /\ out' = out /\ ctx' = ctx /\ out = 0
    BY <1>0, <1>8, <2>0, Names DEF PrimaryFails, server, history, Inv, ClockOK, TypeOK, Due, P
  <2>2. Due' + out' = SuspendDue
    BY <2>1, WaitsTyped, SMT
  <2>3. ASSUME Prompting PROVE ctx[P].left <= PromptWait /\ ctx[P].left <= SuspendDue
    <3>1. ctx[P].left <= PromptWait /\ ctx[P].left \in Nat
      BY <1>0, <2>3, ContextTyped, Names DEF PromptInv, DueOK
    <3> QED
      BY <3>1, WaitsTyped, SMT
  <2> QED
    BY <2>1, <2>2, <2>3 DEF PromptInv, TimerIsDeadline, DueOK, Prompting
<1>9. ASSUME PrimaryReturns PROVE TimerIsDeadline' /\ DueOK'
  <2>1. Due' = Off /\ ctx' = ctx
    BY <1>0, <1>9, Names DEF PrimaryReturns, server, TypeOK, Due, P
  <2> QED
    BY <2>1 DEF PromptInv, TimerIsDeadline, DueOK, Prompting
<1>10. ASSUME ObserverFails \/ ObserverRunsLow \/ ObserverReturns PROVE TimerIsDeadline' /\ DueOK'
  <2>0. power \in [UPS -> {"OL", "OB", "LB"}] /\ due \in [UPS -> {Off} \cup 0 .. SuspendDue]
    BY <1>0 DEF TypeOK
  <2>1. power'[P] = power[P] /\ UNCHANGED <<out, Due, ctx>>
    BY <1>10, <2>0, Names
       DEF ObserverFails, ObserverRunsLow, ObserverReturns, server, history, Due, O
  <2> QED
    BY <2>1 DEF PromptInv, TimerIsDeadline, DueOK, Prompting
<1>11. ASSUME Tick, ~halted PROVE TimerIsDeadline' /\ DueOK'
  BY <1>11, TurnKeepsPrompt
<1>12. ASSUME UNCHANGED vars PROVE TimerIsDeadline' /\ DueOK'
  BY <1>12, <1>k DEF vars, outside, server, history, Due
<1> QED
  BY <1>0, <1>1, <1>2, <1>3, <1>4, <1>5, <1>6, <1>7, <1>8, <1>9, <1>10, <1>11, <1>12
     DEF Next, ServerStep, OutsideStep, WorkerStep, PromptInv

\* A handler that ends the phase of a UPS whose battery is not low has found the
\* deadline passed.
LEMMA HandleActs ==
  ASSUME TypeOK, NEW u \in UPS, NEW polled \in BOOLEAN, Handle(u, polled),
         ctx[u].mode = "monitoring", ctx'[u].mode \in {"shutting_down", "desktop_handled"},
         power[u] # "LB"
  PROVE  ctx[u].left = 0
<1> DEFINE c == [ctx[u] EXCEPT !.known = power[u] # "OL"]
<1>1. ctx[u] \in Context /\ ctx \in [UPS -> Context]
  BY DEF TypeOK
<1>2. c.mode = "monitoring" /\ c.left = ctx[u].left /\ ctx[u].left \in Nat
  BY <1>1, SMT DEF Context
<1>3. ASSUME NEW d, Quiet(u, d) PROVE ctx'[u].mode = d.mode
  BY <1>1, <1>3 DEF Quiet, Become
<1>4. Rest(c, "idle").mode = "idle" /\ Enter(c, PhaseOf(u)).mode = "monitoring"
  BY SMT DEF Rest, Enter
<1>5. ASSUME CheckDeadline(u, c) PROVE ctx[u].left = 0
  BY <1>2, <1>3, <1>5 DEF CheckDeadline
<1>6. CASE HandleOut(u, c, polled)
  BY <1>2, <1>3, <1>5, <1>6 DEF HandleOut
<1>7. CASE HandleBack(u, c)
  BY <1>2, <1>3, <1>4, <1>5, <1>7 DEF HandleBack
<1> QED
  BY <1>6, <1>7 DEF Handle, HandleLow

\* Where desktop_suspend_due is as long as the prompt and a poll together, the user has
\* all of the time of the prompt.
THEOREM PromptKept ==
  ASSUME SuspendDue >= PromptWait + PollEvery
  PROVE  Spec => PromptIsKept
<1>1. Init => PromptInv
  <2> SUFFICES ASSUME Init PROVE PromptInv
    OBVIOUS
  <2>1. Inv
    BY InitKeeps
  <2>2. Due = Off /\ \A u \in UPS : ctx[u].mode = "idle"
    BY Names DEF Init, Due
  <2> QED
    BY <2>1, <2>2, Names DEF PromptInv, TimerIsDeadline, DueOK, Prompting
<1>2. PromptInv /\ [Next]_vars =>
        (Acts("primary") /\ ctx["primary"].phase = "user_prompt" => ctx["primary"].left = 0)
  <2> SUFFICES ASSUME PromptInv, [Next]_vars, NEW u \in UPS, u = P, Acts(u),
                      ctx[u].phase = "user_prompt"
               PROVE  ctx[u].left = 0
    BY Names DEF P
  <2>0. TypeOK /\ ctx[u].mode = "monitoring" /\ ctx'[u] # ctx[u] /\ up' = up
        /\ ctx'[u].mode \in {"shutting_down", "desktop_handled"} /\ power[u] # "LB"
    BY DEF PromptInv, Inv, Acts
  <2>1. ASSUME NEW v \in UPS, OthersKeep(v) PROVE v = u
    BY <2>0, <2>1 DEF OthersKeep
  <2>2. ASSUME NEW v \in UPS, Poll(v) \/ Notice(v) PROVE ctx[u].left = 0
    <3>1. PICK polled \in BOOLEAN : Handle(v, polled)
      BY <2>2 DEF Poll, Notice
    <3>2. v = u
      BY <2>0, <2>1, <3>1, HandleEffect DEF Effect
    <3> QED
      BY <2>0, <3>1, <3>2, HandleActs
  <2>3. ASSUME NEW v \in UPS, TimerFires(v) PROVE ctx[u].left = 0
    <3>1. v = u
      BY <2>0, <2>1, <2>3, TimerStep DEF Expires, Effect
    <3>2. ctx[u].timer = 0 /\ ctx[u].timer = ctx[u].left
      BY <2>0, <2>3, <3>1 DEF TimerFires, PromptInv, TimerIsDeadline
    <3> QED
      BY <3>2
  <2>4. ASSUME NEW v \in UPS, SuspendDueEvent(v) PROVE ctx[u].left = 0
    <3>1. v = u /\ Due = 0 /\ ctx[u].left \in Nat
      BY <2>0, <2>1, <2>4, DueStep, ContextTyped DEF Expires, Effect, Due
    <3>2. Due # Off /\ Prompting
      <4>1. Due # Off
        BY <3>1, SMT DEF Off
      <4> QED
        BY <2>0, <3>1, <4>1 DEF Prompting
    <3>3. ctx[u].left <= Due
      BY <3>1, <3>2 DEF PromptInv, DueOK
    <3> QED
      BY <3>1, <3>3, SMT
  <2>5. ASSUME DesktopSleeps \/ DesktopLeaves PROVE FALSE
    BY <2>0, <2>5, SleepStep DEF Expires
  <2>6. ASSUME NEW w \in Workers, Hold(w) \/ FirstSent(w) \/ WakeWindow(w) \/ Pushed(w) PROVE FALSE
    BY <2>0, <2>6, HoldStep, FirstStep, WakeStep, PushStep
  <2>7. ASSUME NEW w \in Workers, Confirm(w) PROVE FALSE
    BY <2>0, <2>7, ConfirmStep
  <2>8. ASSUME \/ BeginPoll \/ DesktopComesUp \/ OutletsOff \/ OutletsOn
               \/ PrimaryFails \/ PrimaryReturns
               \/ ObserverFails \/ ObserverRunsLow \/ ObserverReturns \/ UNCHANGED vars
        PROVE  FALSE
    BY <2>0, <2>8
       DEF BeginPoll, DesktopComesUp, OutletsOff, OutletsOn, PrimaryFails, PrimaryReturns,
           ObserverFails, ObserverRunsLow, ObserverReturns, vars, server
  <2>9. ASSUME Tick PROVE FALSE
    BY <2>0, <2>9, TurnTyped, LaterFields
  <2> QED
    BY <2>2, <2>3, <2>4, <2>5, <2>6, <2>7, <2>8, <2>9
       DEF Next, ServerStep, OutsideStep, WorkerStep
<1> QED
  BY <1>1, <1>2, StepKeepsPrompt, PTL DEF Spec, PromptIsKept
=============================================================================
