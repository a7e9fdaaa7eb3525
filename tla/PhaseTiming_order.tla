-------------------------- MODULE PhaseTiming_order --------------------------
(* For every length of the waits that respects the relations named below:   *)
(* a UPS has one worker at a time, and the observer does not give up on the *)
(* desktop before the primary's flow is over.                               *)
EXTENDS PhaseTiming_proofs, FiniteSetTheorems

-----------------------------------------------------------------------------
(* The kinds of steps.                                                     *)

\* Turns to the observer's next poll; Gap is the primary's.
GapO == IF polling = {} \/ O \in polling THEN pollIn ELSE PollEvery

\* A poll, or an event that NUT reports.
Handles(u) ==
  /\ Effect(u) /\ ctx'[u].known = (power[u] # "OL")
  /\ power[u] = "OB" => ~Resting(ctx'[u])
  /\ (ctx'[u].mode = "idle") = (power[u] = "OL" /\ ~DesktopUpsOut(u))
  /\ UNCHANGED <<power, due, calm>>
  /\ u = O => Gap' <= Gap
  /\ u = P => GapO' <= GapO

\* A timer, or a report of the desktop.
Elapses(u) ==
  /\ Expires(u) /\ ctx'[u].known = ctx[u].known
  /\ UNCHANGED <<power, polls, calm, flows, stood>>
  /\ due' = due \/ due' = [due EXCEPT ![u] = Off]

\* A worker that ends, or goes on, without a change of a context.
GoesOn(w) ==
  /\ worker[w].at # "none" /\ UNCHANGED <<ctx, halted>>
  /\ \/ WorkerIs(w, NoWorker) /\ (w[1] = P => StoodDown(w))
     \/ /\ WorkerIs(w, Begun("confirm", 0)) \/ WorkerIs(w, Begun("wake", 0))
        /\ worker[w].nap = 0 /\ w[1] = P
     \/ ~StoodDown(w) /\ w[1] = P /\ \E nap \in 0 .. Push : WorkerIs(w, Begun("push", nap))
     \/ /\ ~StoodDown(w)
        /\ \E n \in 1 .. Pass :
             WorkerIs(w, [at |-> worker[w].at, left |-> worker[w].left, nap |-> n])

\* A worker of the primary that ends its flow.
EndsFlow(w) ==
  /\ worker[w].at # "none" /\ w[1] = P /\ WorkerIs(w, NoWorker)
  /\ ctx' \in [UPS -> Context] /\ ctx'[O] = ctx[O]
  /\ ctx[P].mode = "shutting_down" /\ ctx'[P].known = ctx[P].known /\ Finished(P)

Works(w) == WorkerStep(w) /\ UNCHANGED <<outside, polls, history>> /\ (GoesOn(w) \/ EndsFlow(w))

Switches ==
  /\ PrimaryFails \/ PrimaryReturns \/ ObserverFails \/ ObserverRunsLow \/ ObserverReturns
  /\ UNCHANGED <<polls, ctx, worker, halted, flows, stood>>

\* The desktop comes up, the outlets switch, a poll begins.
Passes ==
  /\ UNCHANGED <<power, due, ctx, worker, halted, calm, flows, stood>>
  /\ Gap' = Gap /\ GapO' = GapO

LEMMA GapsTyped ==
  ASSUME TypeOK
  PROVE  /\ Gap \in Nat /\ Gap <= PollEvery /\ GapO \in Nat /\ GapO <= PollEvery
         /\ calm \in Nat /\ calm <= Steady /\ stood \in Nat /\ stood <= Pass + 1
         /\ flows \in {0, 1, 2}
  BY WaitsTyped, SMT DEF TypeOK, Gap, GapO

LEMMA GapsTypedNext ==
  ASSUME TypeOK'
  PROVE  /\ Gap' \in Nat /\ Gap' <= PollEvery /\ GapO' \in Nat /\ GapO' <= PollEvery
         /\ calm' \in Nat /\ calm' <= Steady /\ stood' \in Nat /\ stood' <= Pass + 1
         /\ flows' \in {0, 1, 2}
  BY WaitsTyped, SMT DEF TypeOK, Gap, GapO

LEMMA PollHandles == ASSUME Inv, TypeOK', NEW u \in UPS, Poll(u) PROVE Handles(u)
<1>1. TypeOK /\ (polling # {} => pollIn = 0)
  BY DEF Inv, ClockOK
<1>2. ASSUME u = P PROVE GapO' <= GapO
  <2>0. pollIn = 0 /\ u \in polling /\ polling' = polling \ {u} /\ polling \subseteq UPS
    BY <1>1 DEF Poll, TypeOK
  <2>1. CASE O \in polling
    <3>1. pollIn' = pollIn /\ O \in polling'
      BY <1>2, <2>0, <2>1, Names DEF Poll
    <3> QED
      BY <2>1, <3>1, <2>0, SMT DEF GapO
  <2>2. CASE O \notin polling
    <3>1. GapO = PollEvery
      BY <2>0, <2>2 DEF GapO
    <3> QED
      BY <3>1, GapsTypedNext
  <2> QED
    BY <2>1, <2>2
<1>3. UNCHANGED <<power, due, calm>>
  BY DEF Poll, outside
<1> QED
  BY <1>1, <1>2, <1>3, PollStep DEF Handles

LEMMA NoticeHandles == ASSUME Inv, TypeOK', NEW u \in UPS, Notice(u) PROVE Handles(u)
<1>1. TypeOK
  BY DEF Inv
<1>2. UNCHANGED <<power, due, calm, polls>>
  BY DEF Notice, outside
<1>3. Gap' = Gap /\ GapO' = GapO
  BY <1>2 DEF polls, Gap, GapO
<1>4. Gap' <= Gap /\ GapO' <= GapO
  BY <1>1, <1>3, GapsTyped, SMT
<1> QED
  BY <1>1, <1>2, <1>4, HandleEffect DEF Notice, Handles

LEMMA WorkerWorks == ASSUME Inv, NEW w \in Workers, WorkerStep(w) PROVE Works(w)
<1>0. TypeOK /\ WorkersOK
  BY DEF Inv, Parts
<1>1. w[1] \in UPS /\ w = <<w[1], w[2]>> /\ w[2] \in 1 .. MaxWorkers
  BY SMT DEF Workers
<1>2. w[1] = O => worker[w].at \in {"none", "hold"}
  BY <1>0, <1>1 DEF WorkersOK
<1>3. w[1] = P => worker[w].at # "hold"
  BY <1>0, <1>1 DEF WorkersOK
<1>4. CASE Hold(w)
  <2>1. w[1] = O
    BY <1>0, <1>1, <1>3, <1>4, HoldStep, Names
  <2> QED
    BY <1>0, <1>4, <2>1, HoldStep, Names DEF Works, GoesOn
<1>5. CASE WakeWindow(w)
  <2>1. w[1] = P
    BY <1>0, <1>1, <1>2, <1>5, WakeStep, Names
  <2> QED
    BY <1>0, <1>5, <2>1, WakeStep DEF Works, GoesOn, ends
<1>6. CASE Pushed(w)
  <2>1. w[1] = P
    BY <1>0, <1>1, <1>2, <1>6, PushStep, Names
  <2> QED
    BY <1>0, <1>6, <2>1, PushStep DEF Works, GoesOn, ends
<1>8. CASE FirstSent(w)
  <2>1. w[1] = P
    BY <1>0, <1>1, <1>2, <1>8, FirstStep, Names
  <2> QED
    BY <1>0, <1>8, <2>1, FirstStep DEF Works, GoesOn, ends
<1>7. CASE Confirm(w)
  <2>1. w[1] = P
    BY <1>0, <1>1, <1>2, <1>7, ConfirmStep, Names
  <2>2. 1 \in 1 .. Pass
    BY WaitsTyped, SMT
  <2> QED
    BY <1>0, <1>7, <2>1, <2>2, ConfirmStep, Names DEF Works, GoesOn, EndsFlow, ends
<1> QED
  BY <1>4, <1>5, <1>6, <1>7, <1>8 DEF WorkerStep

LEMMA StepKinds ==
  ASSUME Inv, [Next]_vars
  PROVE  /\ Inv' /\ TypeOK /\ TypeOK'
         /\ \/ \E u \in UPS : Handles(u) \/ Elapses(u)
            \/ ~halted /\ \E w \in Workers : Works(w)
            \/ Switches \/ Passes
            \/ ~halted /\ Tick
<1>0. Inv' /\ TypeOK /\ TypeOK'
  BY StepKeeps DEF Inv
<1> DEFINE Kinds == \/ \E u \in UPS : Handles(u) \/ Elapses(u)
                    \/ ~halted /\ \E w \in Workers : Works(w)
                    \/ Switches \/ Passes
                    \/ ~halted /\ Tick
<1> SUFFICES Kinds
  BY <1>0
<1>1. CASE \E u \in UPS : Poll(u) \/ Notice(u)
  BY <1>0, <1>1, PollHandles, NoticeHandles
<1>2. CASE \E u \in UPS : SuspendDueEvent(u)
  BY <1>0, <1>2, DueStep DEF Elapses, history
<1>3. CASE \E u \in UPS : TimerFires(u)
  BY <1>0, <1>3, TimerStep DEF Elapses, outside, history
<1>4. CASE DesktopSleeps \/ DesktopLeaves
  BY <1>0, <1>4, SleepStep, Names DEF Elapses, history
<1>5. CASE ~halted /\ \E w \in Workers : WorkerStep(w)
  BY <1>5, WorkerWorks
<1>6. CASE PrimaryFails \/ PrimaryReturns \/ ObserverFails \/ ObserverRunsLow \/ ObserverReturns
  BY <1>6 DEF Switches, PrimaryFails, PrimaryReturns, ObserverFails, ObserverRunsLow,
              ObserverReturns, server, ends, history
<1>7. CASE BeginPoll
  <2>1. pollIn = 0 /\ polling = {} /\ polling' = UPS /\ pollIn' = 0
        /\ UNCHANGED <<power, due, ctx, worker, halted, calm, flows, stood>>
    BY <1>7 DEF BeginPoll, outside, server, ends, history
  <2> QED
    BY <2>1, Names DEF Passes, Gap, GapO
<1>8. CASE DesktopComesUp \/ OutletsOff \/ OutletsOn \/ UNCHANGED vars
  <2>1. UNCHANGED <<power, due, polls, ctx, worker, halted, calm, flows, stood>>
    BY <1>8 DEF DesktopComesUp, OutletsOff, OutletsOn, vars, outside, server, ends, history
  <2> QED
    BY <2>1 DEF Passes, Gap, GapO, polls
<1>9. CASE ~halted /\ Tick
  BY <1>9
<1> QED
  BY <1>1, <1>2, <1>3, <1>4, <1>5, <1>6, <1>7, <1>8, <1>9
     DEF Next, ServerStep, OutsideStep
-----------------------------------------------------------------------------
(* One worker at a time.                                                   *)

\* A worker that is none has nothing left over.
TidyOK == \A w \in Workers : worker[w].at = "none" => worker[w] = NoWorker

\* The observer stands down with the first poll on mains; while it does not monitor
\* yet, and while it monitors, more time has passed than a worker naps.
StandingOK ==
  /\ ctx[O].mode # "desktop_handled"
  /\ power[O] = "OL" /\ ctx[O].mode # "idle" => calm + GapO <= PollEvery
  /\ power[O] = "OL" /\ ctx[O].mode = "idle" => stood > Pass \/ calm <= PollEvery + stood
  /\ ctx[O].mode = "monitoring" \/ (ctx[O].mode = "idle" /\ power[O] # "OL") => stood > Pass

\* What is left of a flow of the primary that is over: one worker that naps, and wakes
\* before a timer or a deadline can bring the next.
AloneOK ==
  \A i, j \in 1 .. MaxWorkers :
    worker[<<P, i>>].at # "none" /\ worker[<<P, j>>].at # "none" => i = j
DueOff == power[P] = "OL" => due[P] = Off
SpareOK ==
  \A k \in 1 .. MaxWorkers :
    worker[<<P, k>>].at # "none" =>
      /\ worker[<<P, k>>].nap <= Pass \/ worker[<<P, k>>].nap <= Push
         \/ worker[<<P, k>>].nap <= Send
      /\ ctx[P].mode # "shutting_down" /\ due[P] # Off => worker[<<P, k>>].nap < due[P]
      /\ ctx[P].mode = "monitoring" /\ ctx[P].phase # "offline_wait" =>
           worker[<<P, k>>].nap < ctx[P].timer /\ worker[<<P, k>>].nap < ctx[P].left

LEMMA NoWorkerIsNone ==
  /\ NoWorker \in Worker /\ NoWorker.at = "none" /\ NoWorker.left = 0 /\ NoWorker.nap = 0
  /\ LaterWorker(NoWorker) = NoWorker
<1>1. NoWorker \in Worker /\ NoWorker.at = "none" /\ NoWorker.left = 0 /\ NoWorker.nap = 0
  BY BegunTyped, WindowsTyped DEF NoWorker
<1>2. Less(0) = 0
  BY SMT DEF Less
<1>3. NoWorker = [at |-> "none", left |-> 0, nap |-> 0]
  BY WindowsTyped DEF NoWorker, Begun
<1> QED
  BY <1>1, <1>2, <1>3 DEF LaterWorker

\* Which worker a step can bring to life.
LEMMA HiredOne ==
  ASSUME TypeOK, NEW u \in UPS, Effect(u)
  PROVE  \/ worker' = worker
         \/ /\ Acted(u) /\ Hired(u) /\ ctx[u].mode = "monitoring" /\ Ripe(u)
            /\ \E k \in 1 .. MaxWorkers :
                 /\ worker[<<u, k>>] = NoWorker
                 /\ \A w \in Workers : w # <<u, k>> => worker'[w] = worker[w]
                 /\ \/ u = O /\ worker'[<<u, k>>] = Begun("hold", 0)
                    \/ u = P /\ \E nap \in 0 .. Send : worker'[<<u, k>>] = Begun("send", nap)
                    \/ u = P /\ \E nap \in 0 .. Push : worker'[<<u, k>>] = Begun("push", nap)
<1>1. CASE Acted(u) /\ ~Closed(u)
  <2>1. Hired(u) /\ ctx[u].mode = "monitoring" /\ Ripe(u) /\ OthersKeep(u)
    BY <1>1 DEF Acted, Executed, Effect
  <2>2. PICK k \in 1 .. MaxWorkers :
          /\ worker[<<u, k>>] = NoWorker
          /\ \A i \in 1 .. MaxWorkers : i # k => worker'[<<u, i>>] = worker[<<u, i>>]
          /\ \/ u = O /\ worker'[<<u, k>>] = Begun("hold", 0)
             \/ u = P /\ \E nap \in 0 .. Send : worker'[<<u, k>>] = Begun("send", nap)
             \/ u = P /\ \E nap \in 0 .. Push : worker'[<<u, k>>] = Begun("push", nap)
    BY <2>1 DEF Hired
  <2>3. ASSUME NEW w \in Workers, w # <<u, k>> PROVE worker'[w] = worker[w]
    <3>1. PICK v \in UPS, i \in 1 .. MaxWorkers : w = <<v, i>>
      BY SMT DEF Workers
    <3> QED
      BY <2>1, <2>2, <2>3, <3>1 DEF OthersKeep
  <2> QED
    BY <1>1, <2>1, <2>2, <2>3
<1> QED
  BY <1>1 DEF Effect, Left, Began, Rested, Acted, Closed

LEMMA StepKeepsTidy == ASSUME Inv, TidyOK, [Next]_vars PROVE TidyOK'
<1> SUFFICES ASSUME NEW w \in Workers, worker'[w].at = "none" PROVE worker'[w] = NoWorker
  BY DEF TidyOK
<1>0. TypeOK
  BY StepKinds
<1>1. CASE worker'[w] = worker[w]
  BY <1>1 DEF TidyOK
<1>2. ASSUME NEW u \in UPS, Effect(u) PROVE worker'[w] = NoWorker
  <2>1. CASE worker' = worker
    BY <1>1, <2>1
  <2>2. ASSUME NEW at \in {"hold", "send", "push"}, NEW nap \in Nat,
               worker'[w] = Begun(at, nap)
        PROVE  FALSE
    BY <2>2, WaitsTyped, BegunTyped, SMT
  <2>3. 0 \in Nat /\ 0 .. Push \subseteq Nat /\ 0 .. Send \subseteq Nat
    BY WaitsTyped, SMT
  <2> QED
    BY <1>0, <1>1, <1>2, <2>1, <2>2, <2>3, HiredOne
<1>3. ASSUME NEW v \in Workers, Works(v) PROVE worker'[w] = NoWorker
  <2>1. CASE v # w
    BY <1>1, <1>3, <2>1 DEF Works, GoesOn, EndsFlow, WorkerIs
  <2>2. CASE v = w
    <3>1. \A nap \in 0 .. Push : Begun("push", nap).at = "push"
      BY WaitsTyped, BegunTyped, SMT
    <3>2. Begun("confirm", 0).at = "confirm" /\ Begun("wake", 0).at = "wake"
      BY BegunTyped
    <3>3. \A n : [at |-> worker[w].at, left |-> worker[w].left, nap |-> n].at = worker[w].at
      OBVIOUS
    <3>4. /\ ~WorkerIs(w, Begun("confirm", 0)) /\ ~WorkerIs(w, Begun("wake", 0))
          /\ \A nap \in 0 .. Push : ~WorkerIs(w, Begun("push", nap))
      BY <3>1, <3>2 DEF WorkerIs
    <3>5. ASSUME worker[w].at # "none", NEW n,
                 WorkerIs(w, [at |-> worker[w].at, left |-> worker[w].left, nap |-> n])
          PROVE  FALSE
      BY <3>3, <3>5 DEF WorkerIs
    <3>6. WorkerIs(w, NoWorker) => worker'[w] = NoWorker
      BY DEF WorkerIs
    <3> QED
      BY <1>3, <2>2, <3>4, <3>5, <3>6 DEF Works, GoesOn, EndsFlow
  <2> QED
    BY <2>1, <2>2
<1>4. CASE Tick
  <2>1. worker'[w] = LaterWorker(worker[w])
    BY <1>0, <1>4, TurnTyped
  <2> QED
    BY <2>1, LaterFields, NoWorkerIsNone DEF TidyOK
<1> QED
  BY <1>1, <1>2, <1>3, <1>4, StepKinds DEF Handles, Elapses, Expires, Switches, Passes

\* Where an effect takes a context.
LEMMA EffectModes ==
  ASSUME NEW u \in UPS, Effect(u)
  PROVE  /\ \A v \in UPS : v # u => ctx'[v] = ctx[v]
         /\ Left(u) => ctx'[u].mode = ctx[u].mode
         /\ Began(u) => ctx'[u].mode = "monitoring" /\ Resting(ctx[u])
         /\ Rested(u) => ctx'[u].mode = "idle" /\ power[u] = "OL" /\ ctx[u].mode # "idle"
         /\ Acted(u) => /\ ctx'[u].mode \in {"shutting_down", "desktop_handled"}
                        /\ u = O => ctx'[u].mode = "shutting_down"
                        /\ ctx[u].mode = "monitoring" \/ (u = O /\ Resting(ctx[u]))
         /\ Left(u) \/ Began(u) \/ Rested(u) \/ Acted(u)
  BY Names DEF Effect, OthersKeep, Left, Began, Rested, Acted, Executed, Closed, Hired, Finished

LEMMA EffectStood ==
  ASSUME NEW u \in UPS, Effect(u)
  PROVE  stood' = IF u = O /\ Rested(u) THEN 0 ELSE stood
<1>1. CASE Rested(u)
  BY <1>1 DEF Rested
<1>2. CASE Left(u) \/ Began(u) \/ Acted(u)
  <2>1. ~Rested(u)
    BY <1>2, EffectModes DEF Left, Resting
  <2> QED
    BY <1>2, <2>1 DEF Left, Began, Acted
<1> QED
  BY <1>1, <1>2 DEF Effect

LEMMA StepKeepsStanding ==
  ASSUME Steady > PollEvery + Pass, Inv, StandingOK, [Next]_vars
  PROVE  StandingOK'
<1>0. TypeOK /\ TypeOK' /\ Inv /\ Inv'
  BY StepKinds
<1>n. /\ GapO \in Nat /\ GapO <= PollEvery /\ calm \in Nat /\ stood \in Nat
      /\ GapO' \in Nat /\ GapO' <= PollEvery /\ calm' \in Nat /\ stood' \in Nat
  BY <1>0, GapsTyped, GapsTypedNext
<1>s. ASSUME ctx'[O].mode = ctx[O].mode, UNCHANGED <<power, calm, stood>>, GapO' <= GapO
      PROVE  StandingOK'
  <2>1. calm + GapO <= PollEvery => calm + GapO' <= PollEvery
    BY <1>n, <1>s, WaitsTyped, SMT
  <2> QED
    BY <1>s, <2>1 DEF StandingOK
<1>g. ASSUME UNCHANGED polls PROVE GapO' <= GapO
  <2>1. GapO' = GapO
    BY <1>g DEF polls, GapO
  <2> QED
    BY <2>1, <1>n, SMT
<1>1. ASSUME Handles(P) PROVE StandingOK'
  <2>1. ctx'[O] = ctx[O] /\ stood' = stood
    BY <1>1, Names, EffectModes, EffectStood DEF Handles
  <2> QED
    BY <1>1, <1>s, <2>1 DEF Handles
<1>2. ASSUME Handles(O) PROVE StandingOK'
  <2>0. Effect(O) /\ UNCHANGED <<power, calm>> /\ (ctx'[O].mode = "idle") = (power[O] = "OL")
    BY <1>2, Names DEF Handles, DesktopUpsOut, P
  <2>1. CASE Left(O)
    <3>1. ctx'[O].mode = ctx[O].mode /\ stood' = stood
      BY <2>1 DEF Left
    <3> QED
      BY <2>0, <3>1 DEF StandingOK
  <2>2. CASE Began(O)
    <3>1. ctx[O].mode = "idle" /\ power[O] # "OL" /\ stood' = stood /\ ctx'[O].mode = "monitoring"
      BY <2>0, <2>2 DEF StandingOK, Began, Resting
    <3> QED
      BY <2>0, <3>1 DEF StandingOK
  <2>3. CASE Rested(O)
    <3>1. power[O] = "OL" /\ stood' = 0 /\ ctx'[O].mode = "idle" /\ calm + GapO <= PollEvery
      BY <2>3 DEF StandingOK, Rested
    <3>2. calm' <= PollEvery + stood'
      BY <1>n, <2>0, <3>1, WaitsTyped, SMT
    <3> QED
      BY <2>0, <3>1, <3>2 DEF StandingOK
  <2>4. CASE Acted(O)
    BY <2>0, <2>4, Names, EffectModes DEF StandingOK
  <2> QED
    BY <2>0, <2>1, <2>2, <2>3, <2>4 DEF Effect
<1>3. ASSUME NEW u \in UPS, Elapses(u) PROVE StandingOK'
  <2>0. /\ Effect(u) /\ (Left(u) \/ (ctx[u].mode = "monitoring" /\ Acted(u))) /\ GapO' <= GapO
        /\ UNCHANGED <<power, calm, stood>>
    BY <1>3, <1>g DEF Elapses, Expires
  <2>1. CASE ctx'[O].mode = ctx[O].mode
    BY <1>s, <2>0, <2>1
  <2>2. CASE u = O /\ ctx[O].mode = "monitoring" /\ ctx'[O].mode = "shutting_down"
    <3>1. calm + GapO <= PollEvery => calm + GapO' <= PollEvery
      BY <1>n, <2>0, WaitsTyped, SMT
    <3> QED
      BY <2>0, <2>2, <3>1 DEF StandingOK
  <2> QED
    BY <2>0, <2>1, <2>2, Names, EffectModes
<1>4. ASSUME NEW w \in Workers, Works(w) PROVE StandingOK'
  <2>1. ctx'[O] = ctx[O] /\ UNCHANGED <<power, calm, stood, polls>>
    BY <1>4 DEF Works, GoesOn, EndsFlow, outside, history
  <2> QED
    BY <1>g, <1>s, <2>1
<1>5. ASSUME Switches PROVE StandingOK'
  <2>0. ctx' = ctx /\ stood' = stood /\ GapO' <= GapO
    BY <1>5, <1>g DEF Switches
  <2>t. power \in [UPS -> {"OL", "OB", "LB"}]
    BY <1>0 DEF TypeOK
  <2>1. CASE PrimaryFails \/ PrimaryReturns
    <3>1. power'[O] = power[O] /\ calm' = calm
      BY <2>1, <2>t, Names DEF PrimaryFails, PrimaryReturns, history, P
    <3>2. calm + GapO <= PollEvery => calm' + GapO' <= PollEvery
      BY <1>n, <2>0, <3>1, WaitsTyped, SMT
    <3> QED
      BY <2>0, <3>1, <3>2 DEF StandingOK
  <2>2. CASE ObserverFails
    <3>1. power[O] = "OL" /\ calm = Steady /\ power'[O] = "OB"
      BY <2>2, <2>t, Names DEF ObserverFails, O
    <3>2. ctx[O].mode = "idle" /\ stood > Pass
      BY <1>n, <3>1, WaitsTyped, SMT DEF StandingOK
    <3> QED
      BY <2>0, <3>1, <3>2 DEF StandingOK
  <2>3. CASE ObserverRunsLow
    <3>1. power[O] = "OB" /\ power'[O] = "LB"
      BY <2>3, <2>t, Names DEF ObserverRunsLow, O
    <3> QED
      BY <2>0, <3>1 DEF StandingOK
  <2>4. CASE ObserverReturns
    <3>1. power'[O] = "OL" /\ calm' = 0
      BY <2>4, <2>t, Names DEF ObserverReturns, O
    <3>2. calm' + GapO' <= PollEvery /\ calm' <= PollEvery + stood'
      BY <1>n, <3>1, WaitsTyped, SMT
    <3> QED
      BY <2>0, <3>1, <3>2 DEF StandingOK
  <2> QED
    BY <1>5, <2>1, <2>2, <2>3, <2>4 DEF Switches
<1>6. ASSUME Passes PROVE StandingOK'
  <2>1. GapO' <= GapO
    BY <1>6, <1>n, SMT DEF Passes
  <2> QED
    BY <1>6, <1>s, <2>1 DEF Passes
<1>7. ASSUME Tick PROVE StandingOK'
  <2>1. ctx'[O].mode = ctx[O].mode /\ power' = power
    BY <1>0, <1>7, Names, TurnTyped, LaterFields DEF Tick
  <2>2. GapO = pollIn /\ GapO' = pollIn - 1
    <3>1. pollIn > 0 /\ pollIn' = pollIn - 1 /\ polling' = polling /\ (polling # {} => pollIn = 0)
      BY <1>7 DEF Tick, NothingDue, Inv, ClockOK
    <3>2. pollIn \in Nat
      BY <1>0, GapTyped
    <3>3. polling = {}
      BY <3>1, <3>2, SMT
    <3> QED
      BY <3>1, <3>3 DEF GapO
  <2>3. calm' <= calm + 1
    BY <1>7, <1>n, WaitsTyped, SMT DEF Tick, AtMost
  <2>4. stood' = IF stood + 1 < Pass + 1 THEN stood + 1 ELSE Pass + 1
    BY <1>7 DEF Tick, AtMost
  <2>5. (calm + GapO <= PollEvery => calm' + GapO' <= PollEvery)
        /\ (stood > Pass => stood' > Pass)
        /\ (stood > Pass \/ calm <= PollEvery + stood => stood' > Pass \/ calm' <= PollEvery + stood')
    BY <1>n, <2>2, <2>3, <2>4, WaitsTyped, SMT
  <2> QED
    BY <2>1, <2>5 DEF StandingOK
<1> QED
  BY <1>1, <1>2, <1>3, <1>4, <1>5, <1>6, <1>7, Names, StepKinds

\* An observer that monitors, or has not begun to, has no worker.
LEMMA NoHolder ==
  ASSUME Inv, StandingOK,
         ctx[O].mode = "monitoring" \/ (ctx[O].mode = "idle" /\ power[O] # "OL"),
         NEW k \in 1 .. MaxWorkers
  PROVE  worker[<<O, k>>].at = "none"
<1>1. TypeOK /\ WorkersOK /\ LateOK /\ stood > Pass
  BY DEF Inv, Parts, StandingOK
<1>2. worker[<<O, k>>] \in Worker
  BY <1>1, WorkerOf, Names
<1>3. ASSUME worker[<<O, k>>].at = "hold" PROVE FALSE
  <2>1. stood + worker[<<O, k>>].nap <= Pass /\ worker[<<O, k>>].nap \in Nat
    BY <1>1, <1>2, <1>3, SMT DEF LateOK, Worker
  <2> QED
    BY <1>1, <2>1, GapTyped, WaitsTyped, SMT
<1> QED
  BY <1>1, <1>3 DEF WorkersOK

\* What NUT's timers run for.
LEMMA StepKeepsDue == ASSUME Inv, DueOff, [Next]_vars PROVE DueOff'
<1>0. TypeOK /\ due \in [UPS -> {Off} \cup 0 .. SuspendDue] /\ power \in [UPS -> {"OL", "OB", "LB"}]
  BY StepKinds DEF TypeOK
<1>1. ASSUME NEW u \in UPS, Handles(u) \/ Elapses(u) PROVE DueOff'
  BY <1>0, <1>1, Names DEF Handles, Elapses, DueOff
<1>2. CASE Switches
  <2>1. CASE PrimaryFails \/ PrimaryReturns
    BY <1>0, <2>1, Names DEF PrimaryFails, PrimaryReturns, DueOff, P
  <2>2. CASE ObserverFails \/ ObserverRunsLow \/ ObserverReturns
    BY <1>0, <2>2, Names DEF ObserverFails, ObserverRunsLow, ObserverReturns, DueOff, O
  <2> QED
    BY <1>2, <2>1, <2>2 DEF Switches
<1>3. CASE Tick
  <2>1. Less(Off) = Off
    BY SMT DEF Less, Off
  <2> QED
    BY <1>3, <2>1, Names DEF Tick, DueOff
<1> QED
  BY <1>1, <1>2, <1>3, StepKinds DEF DueOff, Works, Passes, outside

WaitsAreLong ==
  /\ PromptWait > Pass /\ SuspendWait > Pass /\ SuspendDue > Pass
  /\ PromptWait > Push /\ SuspendWait > Push /\ SuspendDue > Push
  /\ PromptWait > Send /\ SuspendWait > Send /\ SuspendDue > Send

\* When the primary gets a worker, it has none.
LEMMA NoSpare ==
  ASSUME TypeOK, SpareOK, ctx[P].mode = "monitoring", Ripe(P), NEW k \in 1 .. MaxWorkers
  PROVE  worker[<<P, k>>].at = "none"
<1> SUFFICES ASSUME worker[<<P, k>>].at # "none" PROVE FALSE
  OBVIOUS
<1> DEFINE n == worker[<<P, k>>].nap
<1>1. worker[<<P, k>>] \in Worker
  BY WorkerOf, Names
<1>2. n \in Nat
  BY <1>1, SMT DEF Worker
<1>3. /\ n < ctx[P].timer /\ n < ctx[P].left
      /\ due[P] # Off => n < due[P]
  BY Names DEF SpareOK, Ripe
<1>4. ctx[P].left = 0 \/ ctx[P].timer = 0 \/ due[P] = 0
  BY DEF Ripe
<1> HIDE DEF n
<1> QED
  BY <1>2, <1>3, <1>4, SMT DEF Off

LEMMA EffectKeepsSpare ==
  ASSUME WaitsAreLong, Inv, AloneOK, DueOff, SpareOK, Effect(P), power' = power,
         due' = due \/ due' = [due EXCEPT ![P] = Off]
  PROVE  AloneOK' /\ SpareOK'
<1>0. TypeOK /\ due \in [UPS -> {Off} \cup 0 .. SuspendDue] /\ Pass \in Nat /\ Push \in Nat /\ Send \in Nat
      /\ ctx[P] \in Context
  BY WaitsTyped, Names DEF Inv, TypeOK
<1>d. due'[P] = due[P] \/ due'[P] = Off
  BY <1>0, Names
<1>n. \A k \in 1 .. MaxWorkers : worker[<<P, k>>].nap \in Nat
  <2>1. \A k \in 1 .. MaxWorkers : worker[<<P, k>>] \in Worker
    BY <1>0, WorkerOf, Names
  <2> QED
    BY <2>1, SMT DEF Worker
<1>1. CASE worker' = worker
  <2>1. AloneOK'
    BY <1>1 DEF AloneOK
  <2> SUFFICES ASSUME NEW k \in 1 .. MaxWorkers, worker[<<P, k>>].at # "none"
      PROVE  /\ worker[<<P, k>>].nap <= Pass \/ worker[<<P, k>>].nap <= Push
                \/ worker[<<P, k>>].nap <= Send
             /\ ctx'[P].mode # "shutting_down" /\ due'[P] # Off => worker[<<P, k>>].nap < due'[P]
             /\ ctx'[P].mode = "monitoring" /\ ctx'[P].phase # "offline_wait" =>
                  worker[<<P, k>>].nap < ctx'[P].timer /\ worker[<<P, k>>].nap < ctx'[P].left
    BY <1>1, <2>1 DEF SpareOK
  <2> DEFINE n == worker[<<P, k>>].nap
  <2>2. /\ n <= Pass \/ n <= Push \/ n <= Send
        /\ ctx[P].mode # "shutting_down" /\ due[P] # Off => n < due[P]
        /\ ctx[P].mode = "monitoring" /\ ctx[P].phase # "offline_wait" =>
             n < ctx[P].timer /\ n < ctx[P].left
        /\ n \in Nat
    BY <1>n DEF SpareOK
  <2>3. n < PromptWait /\ n < SuspendWait
    <3> HIDE DEF n
    <3> QED
      BY <1>0, <2>2, WaitsTyped, SMT DEF WaitsAreLong
  <2> HIDE DEF n
  <2>4. CASE Left(P)
    BY <1>d, <2>2, <2>3, <2>4 DEF Left, n
  <2>5. CASE Began(P)
    <3>1. ctx'[P].mode = "monitoring" /\ ctx[P].mode # "shutting_down"
          /\ ctx'[P].timer = Wait[ctx'[P].phase] /\ ctx'[P].left = Wait[ctx'[P].phase]
          /\ ctx'[P].phase \in {"user_prompt", "suspend_wait", "offline_wait"}
      BY <2>5 DEF Began, Resting
    <3>2. Wait["user_prompt"] = PromptWait /\ Wait["suspend_wait"] = SuspendWait
      BY SMT DEF Wait
    <3> QED
      BY <1>d, <2>2, <2>3, <3>1, <3>2 DEF n
  <2>6. CASE Rested(P)
    BY <1>d, <2>2, <2>6 DEF Rested, DueOff, n
  <2>7. CASE Acted(P)
    <3>1. ctx[P].mode = "monitoring" /\ ctx'[P].mode # "monitoring"
      BY <2>7, Names, EffectModes
    <3> QED
      BY <1>d, <2>2, <3>1 DEF n
  <2> QED
    BY <2>4, <2>5, <2>6, <2>7 DEF Effect
<1>2. ASSUME Acted(P), Hired(P), ctx[P].mode = "monitoring", Ripe(P),
             NEW k \in 1 .. MaxWorkers,
             \A w \in Workers : w # <<P, k>> => worker'[w] = worker[w],
             \/ \E nap \in 0 .. Send : worker'[<<P, k>>] = Begun("send", nap)
             \/ \E nap \in 0 .. Push : worker'[<<P, k>>] = Begun("push", nap)
      PROVE  AloneOK' /\ SpareOK'
  <2>1. ASSUME NEW i \in 1 .. MaxWorkers, i # k PROVE worker'[<<P, i>>].at = "none"
    <3>1. worker[<<P, i>>].at = "none" /\ <<P, i>> \in Workers /\ <<P, i>> # <<P, k>>
      BY <1>0, <1>2, <2>1, NoSpare, WorkerOf, Names
    <3> QED
      BY <1>2, <3>1
  <2>2. worker'[<<P, k>>].nap <= Push \/ worker'[<<P, k>>].nap <= Send
    <3>1. ASSUME NEW at \in {"send", "push"}, NEW nap \in Nat PROVE Begun(at, nap).nap = nap
      BY BegunTyped
    <3>2. \A n \in 0 .. Send : n \in Nat /\ n <= Send
      BY <1>0, SMT
    <3>3. \A n \in 0 .. Push : n \in Nat /\ n <= Push
      BY <1>0, SMT
    <3> QED
      BY <1>2, <3>1, <3>2, <3>3
  <2>3. ctx'[P].mode = "shutting_down"
    BY <1>2 DEF Hired
  <2> QED
    BY <2>1, <2>2, <2>3 DEF AloneOK, SpareOK
<1> QED
  BY <1>0, <1>1, <1>2, HiredOne, Names

LEMMA WorkKeepsSpare ==
  ASSUME Inv, AloneOK, SpareOK, NEW w \in Workers, Works(w)
  PROVE  AloneOK' /\ SpareOK'
<1>0. TypeOK /\ Pass \in Nat /\ Push \in Nat /\ Send \in Nat /\ UNCHANGED due
  BY WaitsTyped DEF Inv, Works, outside
<1>w. w[1] \in UPS /\ w = <<w[1], w[2]>> /\ w[2] \in 1 .. MaxWorkers /\ worker[w].at # "none"
  BY SMT DEF Workers, Works, GoesOn, EndsFlow
<1>v. \A v \in Workers : v # w => worker'[v] = worker[v]
  BY DEF Works, GoesOn, EndsFlow, WorkerIs
<1>1. CASE w[1] = O
  <2>1. ctx' = ctx
    BY <1>1, Names DEF Works, GoesOn, EndsFlow
  <2>2. \A k \in 1 .. MaxWorkers : worker'[<<P, k>>] = worker[<<P, k>>]
    <3> SUFFICES ASSUME NEW k \in 1 .. MaxWorkers PROVE worker'[<<P, k>>] = worker[<<P, k>>]
      OBVIOUS
    <3>1. <<P, k>> \in Workers /\ <<P, k>> # w
      BY <1>0, <1>1, <1>w, WorkerOf, Names, SMT
    <3> QED
      BY <1>v, <3>1
  <2> QED
    BY <1>0, <2>1, <2>2 DEF AloneOK, SpareOK
<1>2. CASE w[1] = P
  <2> DEFINE j == w[2]
  <2>1. w = <<P, j>> /\ j \in 1 .. MaxWorkers
    BY <1>2, <1>w
  <2>2. ASSUME NEW i \in 1 .. MaxWorkers, i # j PROVE worker'[<<P, i>>].at = "none"
    <3>1. worker[<<P, i>>].at = "none"
      BY <1>w, <2>1, <2>2 DEF AloneOK
    <3>2. <<P, i>> \in Workers /\ <<P, i>> # w
      BY <1>0, <2>1, <2>2, WorkerOf, Names, SMT
    <3> QED
      BY <1>v, <3>1, <3>2
  <2>3. AloneOK'
    BY <2>2 DEF AloneOK
  <2> SUFFICES ASSUME worker'[w].at # "none"
      PROVE  /\ worker'[w].nap <= Pass \/ worker'[w].nap <= Push \/ worker'[w].nap <= Send
             /\ ctx'[P].mode # "shutting_down" /\ due'[P] # Off => worker'[w].nap < due'[P]
             /\ ctx'[P].mode = "monitoring" /\ ctx'[P].phase # "offline_wait" =>
                  worker'[w].nap < ctx'[P].timer /\ worker'[w].nap < ctx'[P].left
    BY <2>1, <2>2, <2>3 DEF SpareOK
  <2>4. CASE WorkerIs(w, NoWorker)
    BY <2>4, NoWorkerIsNone DEF WorkerIs
  <2>5. CASE /\ WorkerIs(w, Begun("confirm", 0)) \/ WorkerIs(w, Begun("wake", 0))
             /\ worker[w].nap = 0 /\ ctx' = ctx
    <3>1. worker'[w].nap = 0
      BY <2>5, BegunTyped DEF WorkerIs
    <3>2. /\ ctx[P].mode # "shutting_down" /\ due[P] # Off => 0 < due[P]
          /\ ctx[P].mode = "monitoring" /\ ctx[P].phase # "offline_wait" =>
               0 < ctx[P].timer /\ 0 < ctx[P].left
      BY <1>w, <2>1, <2>5 DEF SpareOK
    <3>3. 0 <= Pass
      BY <1>0, SMT
    <3> QED
      BY <1>0, <2>5, <3>1, <3>2, <3>3
  <2>6. ASSUME ~StoodDown(w), ctx' = ctx, NEW nap \in 0 .. Push, WorkerIs(w, Begun("push", nap))
        PROVE  worker'[w].nap <= Push /\ ctx'[P].mode = "shutting_down"
    <3>1. nap \in Nat /\ nap <= Push
      BY <1>0, SMT
    <3> QED
      BY <1>2, <2>6, <3>1, BegunTyped DEF WorkerIs, StoodDown
  <2>7. ASSUME ~StoodDown(w), ctx' = ctx, NEW n \in 1 .. Pass,
               WorkerIs(w, [at |-> worker[w].at, left |-> worker[w].left, nap |-> n])
        PROVE  worker'[w].nap <= Pass /\ ctx'[P].mode = "shutting_down"
    <3>1. n <= Pass
      BY <1>0, SMT
    <3> QED
      BY <1>2, <2>7, <3>1 DEF WorkerIs, StoodDown
  <2> QED
    BY <2>4, <2>5, <2>6, <2>7 DEF Works, GoesOn, EndsFlow
<1> QED
  BY <1>1, <1>2, <1>w, Names

LEMMA SameSpare ==
  ASSUME AloneOK, SpareOK, ctx'[P] = ctx[P], due'[P] = due[P] \/ due'[P] = Off,
         \A k \in 1 .. MaxWorkers : worker'[<<P, k>>] = worker[<<P, k>>]
  PROVE  AloneOK' /\ SpareOK'
<1>1. AloneOK'
  BY DEF AloneOK
<1>2. SpareOK'
  BY DEF SpareOK
<1> QED
  BY <1>1, <1>2

LEMMA TurnKeepsSpare ==
  ASSUME Inv, AloneOK, SpareOK, Tick
  PROVE  AloneOK' /\ SpareOK'
<1>0. TypeOK /\ Pass \in Nat /\ Push \in Nat /\ Send \in Nat
  BY WaitsTyped DEF Inv
<1>1. \A k \in 1 .. MaxWorkers : worker'[<<P, k>>].at = worker[<<P, k>>].at
  <2> SUFFICES ASSUME NEW k \in 1 .. MaxWorkers PROVE worker'[<<P, k>>].at = worker[<<P, k>>].at
    OBVIOUS
  <2>1. <<P, k>> \in Workers
    BY <1>0, WorkerOf, Names
  <2> QED
    BY <1>0, <2>1, TurnTyped, LaterFields
<1>2. AloneOK'
  BY <1>1 DEF AloneOK
<1> SUFFICES ASSUME NEW k \in 1 .. MaxWorkers, worker'[<<P, k>>].at # "none"
    PROVE  /\ worker'[<<P, k>>].nap <= Pass \/ worker'[<<P, k>>].nap <= Push
              \/ worker'[<<P, k>>].nap <= Send
           /\ ctx'[P].mode # "shutting_down" /\ due'[P] # Off => worker'[<<P, k>>].nap < due'[P]
           /\ ctx'[P].mode = "monitoring" /\ ctx'[P].phase # "offline_wait" =>
                worker'[<<P, k>>].nap < ctx'[P].timer /\ worker'[<<P, k>>].nap < ctx'[P].left
  BY <1>2 DEF SpareOK
<1> DEFINE n == worker[<<P, k>>].nap
<1>3. /\ worker[<<P, k>>].at # "none" /\ <<P, k>> \in Workers
      /\ worker'[<<P, k>>].nap = n - 1 /\ n > 0 /\ n \in Nat
  <2>1. worker[<<P, k>>].at # "none" /\ <<P, k>> \in Workers
    BY <1>0, <1>1, WorkerOf, Names
  <2>2. worker'[<<P, k>>].nap = n - 1 /\ n > 0 /\ worker[<<P, k>>] \in Worker
    BY <1>0, <2>1, TurnOfWorker
  <2>3. n \in Nat
    BY <2>2, SMT DEF Worker
  <2> QED
    BY <2>1, <2>2, <2>3
<1>4. /\ ctx'[P].mode = ctx[P].mode /\ ctx'[P].phase = ctx[P].phase
      /\ ctx'[P].timer = Less(ctx[P].timer) /\ ctx'[P].left = Less(ctx[P].left)
      /\ due'[P] = Less(due[P])
  BY <1>0, TurnTyped, LaterFields, Names DEF Tick
<1>5. due[P] \in Nat \cup {Off} /\ ctx[P].timer \in Nat \cup {Off} /\ ctx[P].left \in Nat
  BY <1>0, ContextTyped, Names, SMT DEF TypeOK
<1>6. /\ n <= Pass \/ n <= Push \/ n <= Send
      /\ ctx[P].mode # "shutting_down" /\ due[P] # Off => n < due[P]
      /\ ctx[P].mode = "monitoring" /\ ctx[P].phase # "offline_wait" =>
           n < ctx[P].timer /\ n < ctx[P].left
  BY <1>3 DEF SpareOK
<1> HIDE DEF n
<1>7. n - 1 <= Pass \/ n - 1 <= Push \/ n - 1 <= Send
  BY <1>0, <1>3, <1>6, SMT
<1>8. ASSUME NEW m \in Nat \cup {Off}, n < m PROVE n - 1 < Less(m)
  BY <1>3, <1>8, SMT DEF Less, Off
<1>9. Less(due[P]) # Off => due[P] # Off
  BY SMT DEF Less, Off
<1> QED
  BY <1>3, <1>4, <1>5, <1>6, <1>7, <1>8, <1>9

LEMMA StepKeepsSpare ==
  ASSUME WaitsAreLong, Inv, AloneOK, DueOff, SpareOK, [Next]_vars
  PROVE  AloneOK' /\ SpareOK'
<1>0. TypeOK /\ due \in [UPS -> {Off} \cup 0 .. SuspendDue] /\ power \in [UPS -> {"OL", "OB", "LB"}]
  BY StepKinds DEF TypeOK
<1>1. ASSUME Handles(P) \/ Elapses(P) PROVE AloneOK' /\ SpareOK'
  BY <1>1, EffectKeepsSpare DEF Handles, Elapses, Expires
<1>2. ASSUME Handles(O) \/ Elapses(O) PROVE AloneOK' /\ SpareOK'
  <2>1. Effect(O) /\ due'[P] = due[P]
    BY <1>0, <1>2, Names DEF Handles, Elapses, Expires
  <2> QED
    BY <2>1, SameSpare, Names DEF Effect, OthersKeep
<1>3. ASSUME NEW w \in Workers, Works(w) PROVE AloneOK' /\ SpareOK'
  BY <1>3, WorkKeepsSpare
<1>4. CASE Switches
  <2>0. ctx' = ctx /\ worker' = worker
    BY <1>4 DEF Switches
  <2>1. CASE PrimaryFails
    <3>1. due'[P] = SuspendDue
      BY <1>0, <2>1, Names DEF PrimaryFails, P
    <3>2. \A k \in 1 .. MaxWorkers : worker[<<P, k>>].at # "none" => worker[<<P, k>>].nap < SuspendDue
      <4> SUFFICES ASSUME NEW k \in 1 .. MaxWorkers, worker[<<P, k>>].at # "none"
          PROVE  worker[<<P, k>>].nap < SuspendDue
        OBVIOUS
      <4>1. worker[<<P, k>>] \in Worker /\ (worker[<<P, k>>].nap <= Pass \/ worker[<<P, k>>].nap <= Push
            \/ worker[<<P, k>>].nap <= Send)
        BY <1>0, WorkerOf, Names DEF SpareOK
      <4>2. worker[<<P, k>>].nap \in Nat
        BY <4>1, SMT DEF Worker
      <4> QED
        BY <4>1, <4>2, WaitsTyped, SMT DEF WaitsAreLong
    <3> QED
      BY <2>0, <3>1, <3>2 DEF AloneOK, SpareOK
  <2>2. CASE PrimaryReturns
    <3>1. due'[P] = Off
      BY <1>0, <2>2, Names DEF PrimaryReturns, P
    <3> QED
      BY <2>0, <3>1, SameSpare
  <2>3. CASE ObserverFails \/ ObserverRunsLow \/ ObserverReturns
    <3>1. due'[P] = due[P]
      BY <1>0, <2>3, Names DEF ObserverFails, ObserverRunsLow, ObserverReturns, P
    <3> QED
      BY <2>0, <3>1, SameSpare
  <2> QED
    BY <1>4, <2>1, <2>2, <2>3 DEF Switches
<1>5. CASE Passes
  BY <1>5, SameSpare DEF Passes
<1>6. CASE Tick
  BY <1>6, TurnKeepsSpare
<1> QED
  BY <1>1, <1>2, <1>3, <1>4, <1>5, <1>6, StepKinds, Names

OrderInv == Inv /\ TidyOK /\ StandingOK /\ AloneOK /\ DueOff /\ SpareOK

LEMMA InitKeepsOrder == ASSUME Init PROVE OrderInv
<1>1. Inv
  BY InitKeeps
<1>2. \A u \in UPS, k \in 1 .. MaxWorkers : worker[<<u, k>>] = NoWorker
  <2>1. \A u \in UPS, k \in 1 .. MaxWorkers : <<u, k>> \in Workers
    BY <1>1, WorkerOf DEF Inv
  <2> QED
    BY <2>1 DEF Init
<1>3. TidyOK
  BY DEF Init, TidyOK
<1>4. ctx[O].mode = "idle" /\ power[O] = "OL" /\ stood = Pass + 1
  BY Names DEF Init
<1>5. stood > Pass
  BY <1>4, WaitsTyped, SMT
<1>6. StandingOK
  BY <1>4, <1>5 DEF StandingOK
<1>7. AloneOK /\ SpareOK
  BY <1>2, NoWorkerIsNone, Names DEF AloneOK, SpareOK
<1>8. DueOff
  BY Names DEF Init, DueOff
<1> QED
  BY <1>1, <1>3, <1>6, <1>7, <1>8 DEF OrderInv

LEMMA StepKeepsOrder ==
  ASSUME WaitsAreLong, Steady > PollEvery + Pass, OrderInv, [Next]_vars
  PROVE  OrderInv'
<1>1. Inv'
  BY StepKinds DEF OrderInv
<1>2. TidyOK'
  BY StepKeepsTidy DEF OrderInv
<1>3. StandingOK'
  BY StepKeepsStanding DEF OrderInv
<1>4. DueOff'
  BY StepKeepsDue DEF OrderInv
<1>5. AloneOK' /\ SpareOK'
  BY StepKeepsSpare DEF OrderInv
<1> QED
  BY <1>1, <1>2, <1>3, <1>4, <1>5 DEF OrderInv

\* Nobody is hired while a worker of the same UPS is there.
LEMMA HiredAlone ==
  ASSUME OrderInv, [Next]_vars, NEW u \in UPS, NEW k \in 1 .. MaxWorkers,
         worker[<<u, k>>] = NoWorker, worker'[<<u, k>>] # NoWorker
  PROVE  \A i \in 1 .. MaxWorkers : worker[<<u, i>>] = NoWorker
<1>0. Inv /\ TypeOK /\ StandingOK /\ SpareOK /\ TidyOK
  BY DEF OrderInv, Inv
<1>w. \A v \in UPS, i \in 1 .. MaxWorkers : <<v, i>> \in Workers
  BY <1>0, WorkerOf
<1>1. ASSUME NEW v \in UPS, Effect(v)
      PROVE  \A i \in 1 .. MaxWorkers : worker[<<u, i>>] = NoWorker
  <2>1. v = u
    <3> SUFFICES ASSUME v # u PROVE FALSE
      OBVIOUS
    <3>1. worker'[<<u, k>>] = worker[<<u, k>>]
      BY <1>1 DEF Effect, OthersKeep
    <3> QED
      BY <3>1
  <2>2. ctx[u].mode = "monitoring" /\ Ripe(u)
    BY <1>0, <1>1, <2>1, HiredOne
  <2>3. \A i \in 1 .. MaxWorkers : worker[<<u, i>>].at = "none"
    BY <1>0, <2>2, NoHolder, NoSpare, Names
  <2> QED
    BY <1>0, <1>w, <2>3 DEF TidyOK
<1>2. ASSUME NEW w \in Workers, Works(w) PROVE FALSE
  <2>1. worker[w].at # "none"
    BY <1>2 DEF Works, GoesOn, EndsFlow
  <2>2. w # <<u, k>>
    BY <2>1, NoWorkerIsNone
  <2> QED
    BY <1>2, <1>w, <2>2 DEF Works, GoesOn, EndsFlow, WorkerIs
<1>3. CASE Tick
  BY <1>0, <1>3, <1>w, TurnTyped, NoWorkerIsNone
<1> QED
  BY <1>0, <1>1, <1>2, <1>3, StepKinds DEF Handles, Elapses, Expires, Switches, Passes

\* A worker of an outage that is over has gone before the next one gets a worker: a UPS
\* has one worker at a time (the Timer threads of ups_context.py are never two).
THEOREM OneAtATime ==
  ASSUME WaitsAreLong, Steady > PollEvery + Pass
  PROVE  Spec => OneWorker
<1>1. OrderInv /\ [Next]_vars => OrderInv'
  BY StepKeepsOrder
<1>2. OrderInv /\ [Next]_vars => \A u \in UPS : Busy(u)' > Busy(u) => Busy(u) = 0
  <2> SUFFICES ASSUME OrderInv, [Next]_vars, NEW u \in UPS, Busy(u)' > Busy(u)
               PROVE  Busy(u) = 0
    OBVIOUS
  <2> DEFINE S == {k \in 1 .. MaxWorkers : worker[<<u, k>>] # NoWorker}
             T == {k \in 1 .. MaxWorkers : worker'[<<u, k>>] # NoWorker}
  <2>1. Busy(u) = Cardinality(S) /\ Busy(u)' = Cardinality(T)
    BY DEF Busy
  <2>2. IsFiniteSet(S)
    <3>1. IsFiniteSet(1 .. MaxWorkers)
      BY FS_Interval, WaitsTyped, SMT
    <3> QED
      BY <3>1, FS_Subset
  <2>3. PICK k \in T : k \notin S
    <3> SUFFICES ASSUME T \subseteq S PROVE FALSE
      OBVIOUS
    <3>1. Cardinality(T) <= Cardinality(S) /\ IsFiniteSet(T)
      BY <2>2, FS_Subset
    <3>2. Cardinality(S) \in Nat /\ Cardinality(T) \in Nat
      BY <2>2, <3>1, FS_CardinalityType
    <3> HIDE DEF S, T
    <3> QED
      BY <2>1, <3>1, <3>2, SMT
  <2>4. \A i \in 1 .. MaxWorkers : worker[<<u, i>>] = NoWorker
    BY <2>3, HiredAlone
  <2>5. S = {}
    BY <2>4
  <2> QED
    BY <2>1, <2>5, FS_EmptySet
<1>3. Init => OrderInv
  BY InitKeepsOrder
<1>4. OrderInv /\ [Next]_vars
      => [\A u \in UPS : Busy(u)' > Busy(u) => Busy(u) = 0]_vars
  BY <1>2
<1> QED
  BY <1>1, <1>3, <1>4, PTL DEF Spec, OneWorker
-----------------------------------------------------------------------------
(* The observer's wait and the primary's flow.                             *)

\* A turn of a poll and the windows of the workers are shorter than the calm between
\* two outages, and the longest answer of the primary than the observer's wait.
WaitsAreApart ==
  /\ Steady > 2 * PollEvery /\ Steady > PollEvery + Pass
  /\ MaxWait + OfflineWait > AnswerBound /\ MaxWait + SuspendDue > AnswerBound + PollEvery

\* A primary that has not been polled since the observer stood down may be in a flow
\* that nobody will end; it is polled before the observer's UPS can fail again.
PSettled ==
  ctx[P].mode = "idle" \/ (ctx[P].known /\ ctx[P].mode \in {"monitoring", "shutting_down"})
SettledOK ==
  /\ power[O] = "OL" /\ ctx[O].mode = "idle" /\ ~PSettled => calm + Gap <= 2 * PollEvery
  /\ power[O] # "OL" /\ ctx[O].mode = "idle" => PSettled

\* A primary that has not begun since the observer did has nothing behind it.
FlowsOK == ctx[O].mode # "idle" /\ flows = 0 => ctx[P].mode = "idle"

\* NUT's timer of the observer, until the poll that finds the outage.
DueOOK ==
  power[O] # "OL" /\ ctx[O].mode = "idle" /\ due[O] # Off
    => due[O] >= SuspendDue - PollEvery + GapO

Windows == Send + WakeTimeout + Pass - 1 + Push + ShutdownWait

\* The turns within which the flow of the primary that has begun is over, and those
\* within which one that may still have to begin is.
Enough ==
  {n \in Int :
     /\ ctx[P].mode = "monitoring" => ctx[P].timer + Windows < n
     /\ ctx[P].mode = "shutting_down" /\ ~halted =>
          \E k \in 1 .. MaxWorkers : worker[<<P, k>>].at # "none" /\ ToGo(<<P, k>>) < n}
Ahead ==
  {n \in Int :
     (flows = 0 => Gap + Longest + Windows < n) /\ (flows = 1 => n \in Enough)}

\* No flow is longer; an observer that monitors will hold for longer than the flow has
\* to go; one that holds, too, unless it has stood down: then its worker wakes before
\* its limit, or the flow is over by then.
FlowOK == Longest + Windows + 1 \in Enough
LeadOK ==
  ctx[O].mode = "monitoring" =>
    /\ MaxWait + ctx[O].left \in Ahead /\ MaxWait + ctx[O].timer \in Ahead
    /\ due[O] # Off => MaxWait + due[O] \in Ahead
HoldOK ==
  \A k \in 1 .. MaxWorkers :
    worker[<<O, k>>].at = "hold" =>
      IF ctx[O].mode = "shutting_down" THEN worker[<<O, k>>].left \in Ahead
      ELSE \/ worker[<<O, k>>].left > worker[<<O, k>>].nap
           \/ flows = 2 \/ (flows = 1 /\ worker[<<O, k>>].left \in Enough)

LEMMA FinishedUnknown ==
  ASSUME Finished(P), ctx'[P].known = ctx[P].known, ctx[P].mode \in {"monitoring", "shutting_down"},
         PSettled
  PROVE  PSettled'
  BY Names DEF Finished, PSettled

LEMMA SettledStays ==
  ASSUME NEW u \in UPS, Elapses(u), PSettled
  PROVE  PSettled'
<1>1. CASE u = O
  BY <1>1, Names, EffectModes DEF Elapses, Expires, PSettled
<1>2. CASE u = P
  <2>1. CASE Left(P)
    BY <1>2, <2>1 DEF Elapses, Left, PSettled
  <2>2. CASE ctx[P].mode = "monitoring" /\ Acted(P)
    <3>1. Hired(P) \/ Finished(P)
      BY <2>2 DEF Acted, Executed, Closed
    <3>2. ctx'[P].known = ctx[P].known
      BY <1>2 DEF Elapses
    <3> QED
      BY <2>2, <3>1, <3>2, FinishedUnknown DEF Hired, PSettled
  <2> QED
    BY <1>2, <2>1, <2>2 DEF Elapses, Expires
<1> QED
  BY <1>1, <1>2, Names

LEMMA GapOfTurn ==
  ASSUME Inv, Tick
  PROVE  Gap = pollIn /\ GapO = pollIn /\ Gap' = Gap - 1 /\ GapO' = GapO - 1
<1>1. pollIn > 0 /\ pollIn' = pollIn - 1 /\ polling' = polling /\ (polling # {} => pollIn = 0)
      /\ pollIn \in Nat
  BY GapTyped DEF Tick, NothingDue, Inv, ClockOK
<1>2. polling = {}
  BY <1>1, SMT
<1> QED
  BY <1>1, <1>2 DEF Gap, GapO

\* A turn leaves every context but for its clocks.
LEMMA TurnOfContext ==
  ASSUME TypeOK, Tick, NEW u \in UPS
  PROVE  /\ ctx'[u].mode = ctx[u].mode /\ ctx'[u].phase = ctx[u].phase
         /\ ctx'[u].known = ctx[u].known
         /\ ctx'[u].left = Less(ctx[u].left) /\ ctx'[u].timer = Less(ctx[u].timer)
  BY TurnTyped, LaterFields

LEMMA StepKeepsSettled ==
  ASSUME WaitsAreApart, Inv, StandingOK, SettledOK, [Next]_vars
  PROVE  SettledOK'
<1>0. TypeOK /\ TypeOK' /\ power \in [UPS -> {"OL", "OB", "LB"}] /\ power[P] # "LB"
  BY StepKinds DEF TypeOK, P
<1>n. /\ Gap \in Nat /\ Gap <= PollEvery /\ calm \in Nat /\ GapO \in Nat
      /\ Gap' \in Nat /\ Gap' <= PollEvery /\ calm' \in Nat
  BY <1>0, GapsTyped, GapsTypedNext
<1>s. ASSUME ctx'[O].mode = ctx[O].mode \/ ctx'[O].mode # "idle", PSettled => PSettled',
             power'[O] = power[O], calm' = calm, Gap' <= Gap
      PROVE  SettledOK'
  <2>1. calm + Gap <= 2 * PollEvery => calm + Gap' <= 2 * PollEvery
    BY <1>n, <1>s, WaitsTyped, SMT
  <2> QED
    BY <1>s, <2>1 DEF SettledOK
<1>1. ASSUME Handles(P) PROVE SettledOK'
  <2>1. CASE ctx[O].mode = "idle"
    <3>1. ctx'[P].known = (power[P] # "OL") /\ (ctx'[P].mode = "idle") = (power[P] = "OL")
          /\ (power[P] = "OB" => ~Resting(ctx'[P])) /\ ctx' \in [UPS -> Context]
      BY <1>1, <2>1 DEF Handles, DesktopUpsOut, O, Effect, Typed
    <3>2. ctx'[P].mode \in {"idle", "monitoring", "shutting_down", "desktop_handled"}
      BY <3>1, Names, SMT DEF Context
    <3>3. PSettled'
      BY <1>0, <3>1, <3>2, Names DEF PSettled, Resting
    <3> QED
      BY <1>1, <3>3 DEF SettledOK, Handles
  <2>2. CASE ctx[O].mode # "idle"
    BY <1>1, <2>2, Names, EffectModes DEF Handles, SettledOK
  <2> QED
    BY <2>1, <2>2
<1>2. ASSUME Handles(O) PROVE SettledOK'
  <2>0. ctx'[P] = ctx[P] /\ UNCHANGED <<power, calm>>
        /\ (ctx'[O].mode = "idle") = (power[O] = "OL")
    BY <1>2, Names, EffectModes DEF Handles, DesktopUpsOut, P
  <2>1. CASE ctx[O].mode = "idle" /\ power[O] = "OL"
    <3>1. CASE PSettled
      BY <2>0, <2>1, <3>1 DEF SettledOK, PSettled
    <3>2. CASE calm + Gap <= 2 * PollEvery
      <4>1. Gap' <= Gap
        BY <1>2 DEF Handles
      <4>2. calm' + Gap' <= 2 * PollEvery
        BY <1>n, <2>0, <3>2, <4>1, WaitsTyped, SMT
      <4> QED
        BY <2>0, <2>1, <4>2 DEF SettledOK
    <3> QED
      BY <2>1, <3>1, <3>2 DEF SettledOK
  <2>2. CASE ctx[O].mode # "idle" /\ power[O] = "OL"
    <3>1. calm + GapO <= PollEvery
      BY <2>2 DEF StandingOK
    <3>2. calm' + Gap' <= 2 * PollEvery
      BY <1>n, <2>0, <3>1, WaitsTyped, SMT
    <3> QED
      BY <2>0, <2>2, <3>2 DEF SettledOK
  <2>3. CASE power[O] # "OL"
    BY <2>0, <2>3 DEF SettledOK
  <2> QED
    BY <2>1, <2>2, <2>3
<1>3. ASSUME NEW u \in UPS, Elapses(u) PROVE SettledOK'
  <2>1. Effect(u) /\ (Left(u) \/ Acted(u)) /\ UNCHANGED <<power, calm, polls>>
    BY <1>3 DEF Elapses, Expires
  <2>2. ctx'[O].mode = ctx[O].mode \/ ctx'[O].mode # "idle"
    BY <2>1, Names, EffectModes
  <2>3. Gap' = Gap
    BY <2>1 DEF polls, Gap
  <2>4. Gap' <= Gap
    BY <1>n, <2>3, SMT
  <2> QED
    BY <1>3, <1>s, <2>1, <2>2, <2>4, SettledStays
<1>4. ASSUME NEW w \in Workers, Works(w) PROVE SettledOK'
  <2>1. ctx'[O] = ctx[O] /\ UNCHANGED <<power, calm, polls>>
    BY <1>4 DEF Works, GoesOn, EndsFlow, outside, history
  <2>2. PSettled => PSettled'
    <3>1. CASE ctx' = ctx
      BY <3>1 DEF PSettled
    <3> QED
      BY <1>4, <3>1, FinishedUnknown DEF Works, GoesOn, EndsFlow
  <2>3. Gap' = Gap
    BY <2>1 DEF polls, Gap
  <2>4. Gap' <= Gap
    BY <1>n, <2>3, SMT
  <2> QED
    BY <1>s, <2>1, <2>2, <2>4
<1>5. CASE Switches
  <2>0. ctx' = ctx /\ UNCHANGED polls /\ (PSettled => PSettled')
    BY <1>5 DEF Switches, PSettled
  <2>g. Gap' = Gap
    BY <2>0 DEF Gap, polls
  <2>1. CASE PrimaryFails \/ PrimaryReturns
    <3>1. power'[O] = power[O] /\ calm' = calm
      BY <1>0, <2>1, Names DEF PrimaryFails, PrimaryReturns, history, P
    <3>2. Gap' <= Gap
      BY <1>n, <2>g, SMT
    <3> QED
      BY <1>s, <2>0, <3>1, <3>2
  <2>2. CASE ObserverFails
    <3>1. power[O] = "OL" /\ calm = Steady /\ power'[O] = "OB"
      BY <1>0, <2>2, Names DEF ObserverFails, O
    <3>2. ~(calm + Gap <= 2 * PollEvery)
      BY <1>n, <3>1, WaitsTyped, SMT DEF WaitsAreApart
    <3> QED
      BY <2>0, <3>1, <3>2 DEF SettledOK
  <2>3. CASE ObserverRunsLow
    <3>1. power[O] = "OB" /\ power'[O] = "LB"
      BY <1>0, <2>3, Names DEF ObserverRunsLow, O
    <3> QED
      BY <2>0, <3>1 DEF SettledOK
  <2>4. CASE ObserverReturns
    <3>1. power'[O] = "OL" /\ calm' = 0
      BY <1>0, <2>4, Names DEF ObserverReturns, O
    <3>2. calm' + Gap' <= 2 * PollEvery
      BY <1>n, <3>1, WaitsTyped, SMT
    <3> QED
      BY <3>1, <3>2 DEF SettledOK
  <2> QED
    BY <1>5, <2>1, <2>2, <2>3, <2>4 DEF Switches
<1>6. CASE Passes
  <2>1. Gap' <= Gap
    BY <1>6, <1>n, SMT DEF Passes
  <2>2. PSettled => PSettled'
    BY <1>6 DEF Passes, PSettled
  <2> QED
    BY <1>6, <1>s, <2>1, <2>2 DEF Passes
<1>7. CASE Tick
  <2>1. power' = power /\ ctx'[O].mode = ctx[O].mode /\ (PSettled => PSettled')
    BY <1>0, <1>7, Names, TurnOfContext DEF Tick, PSettled
  <2>2. calm' <= calm + 1
    BY <1>7, <1>n, WaitsTyped, SMT DEF Tick, AtMost
  <2>3. calm + Gap <= 2 * PollEvery => calm' + Gap' <= 2 * PollEvery
    BY <1>7, <1>n, <2>2, GapOfTurn, WaitsTyped, SMT
  <2> QED
    BY <2>1, <2>3 DEF SettledOK
<1> QED
  BY <1>1, <1>2, <1>3, <1>4, <1>5, <1>6, <1>7, Names, StepKinds

LEMMA StepKeepsFlows ==
  ASSUME Inv, StandingOK, SettledOK, FlowsOK, [Next]_vars
  PROVE  FlowsOK'
<1>0. TypeOK /\ flows \in {0, 1, 2}
  BY StepKinds, GapsTyped
<1>1. ASSUME Handles(P) PROVE FlowsOK'
  <2>0. Effect(P) /\ ctx'[O] = ctx[O]
    BY <1>1, Names, EffectModes DEF Handles
  <2>1. CASE Began(P)
    <3>1. flows' = AtMost(flows + 1, 2)
      BY <2>1 DEF Began, Starts, P
    <3>2. flows' # 0
      BY <1>0, <3>1, SMT DEF AtMost
    <3> QED
      BY <3>2 DEF FlowsOK
  <2>2. CASE Left(P) \/ Rested(P) \/ Acted(P)
    <3>1. flows' = flows /\ (ctx'[P].mode = "idle" \/ ctx'[P].mode = ctx[P].mode
                             \/ ctx[P].mode = "monitoring")
      BY <2>2, Names DEF Left, Rested, Acted
    <3> QED
      BY <2>0, <3>1 DEF FlowsOK
  <2> QED
    BY <2>0, <2>1, <2>2 DEF Effect
<1>2. ASSUME Handles(O) PROVE FlowsOK'
  <2>0. Effect(O) /\ ctx'[P] = ctx[P] /\ (ctx'[O].mode = "idle") = (power[O] = "OL")
    BY <1>2, Names, EffectModes DEF Handles, DesktopUpsOut, P
  <2>1. CASE flows' = flows /\ ctx[O].mode # "idle"
    BY <2>0, <2>1 DEF FlowsOK
  <2>2. CASE ctx'[O].mode = "idle"
    BY <2>2 DEF FlowsOK
  <2>3. CASE Starts(O) /\ Resting(ctx[O]) /\ ctx'[O].mode # "idle"
    <3>1. PSettled
      BY <2>0, <2>3 DEF SettledOK, StandingOK, Resting
    <3>2. flows' = 0 => ctx[P].mode = "idle"
      BY <2>3, <3>1, Names DEF Starts, PSettled, O, P
    <3> QED
      BY <2>0, <3>2 DEF FlowsOK
  <2> QED
    BY <2>0, <2>1, <2>2, <2>3, Names DEF Effect, Left, Began, Rested, Acted
<1>3. ASSUME NEW u \in UPS, Elapses(u) PROVE FlowsOK'
  <2>1. /\ Effect(u) /\ (Left(u) \/ (ctx[u].mode = "monitoring" /\ Acted(u))) /\ flows' = flows
        /\ \A v \in UPS : v # u => ctx'[v] = ctx[v]
    BY <1>3, EffectModes DEF Elapses, Expires
  <2>2. ctx'[O].mode # "idle" => ctx[O].mode # "idle"
    BY <2>1, Names DEF Left
  <2>3. ctx[P].mode = "idle" => ctx'[P].mode = "idle"
    BY <2>1, Names DEF Left
  <2> QED
    BY <2>1, <2>2, <2>3 DEF FlowsOK
<1>4. ASSUME NEW w \in Workers, Works(w) PROVE FlowsOK'
  BY <1>4, Names DEF Works, GoesOn, EndsFlow, history, FlowsOK
<1>5. CASE Tick
  BY <1>0, <1>5, Names, TurnOfContext DEF Tick, FlowsOK
<1> QED
  BY <1>1, <1>2, <1>3, <1>4, <1>5, Names, StepKinds DEF Switches, Passes, FlowsOK

LEMMA StepKeepsDueO ==
  ASSUME Inv, DueOOK, [Next]_vars
  PROVE  DueOOK'
<1>0. TypeOK /\ TypeOK' /\ due \in [UPS -> {Off} \cup 0 .. SuspendDue]
      /\ power \in [UPS -> {"OL", "OB", "LB"}]
  BY StepKinds DEF TypeOK
<1>n. GapO \in Nat /\ GapO <= PollEvery /\ GapO' \in Nat /\ GapO' <= PollEvery
      /\ due[O] \in Int /\ SuspendDue \in Nat /\ PollEvery \in Nat
  BY <1>0, GapsTyped, GapsTypedNext, WaitsTyped, Names, SMT DEF Off
<1>s. ASSUME power'[O] # "OL" /\ ctx'[O].mode = "idle" => power[O] # "OL" /\ ctx[O].mode = "idle",
             due'[O] = due[O] \/ due'[O] = Off, GapO' <= GapO
      PROVE  DueOOK'
  <2>1. due[O] >= SuspendDue - PollEvery + GapO => due[O] >= SuspendDue - PollEvery + GapO'
    BY <1>n, <1>s, SMT
  <2> QED
    BY <1>s, <2>1 DEF DueOOK
<1>g. UNCHANGED polls => GapO' <= GapO
  <2>1. UNCHANGED polls => GapO' = GapO
    BY DEF polls, GapO
  <2> QED
    BY <1>n, <2>1, SMT
<1>1. ASSUME Handles(P) PROVE DueOOK'
  BY <1>1, <1>s, Names, EffectModes DEF Handles
<1>2. ASSUME Handles(O) PROVE DueOOK'
  <2>1. power'[O] = power[O] /\ (ctx'[O].mode = "idle") = (power[O] = "OL")
    BY <1>2, Names DEF Handles, DesktopUpsOut, P
  <2> QED
    BY <2>1 DEF DueOOK
<1>3. ASSUME NEW u \in UPS, Elapses(u) PROVE DueOOK'
  <2>1. Effect(u) /\ (Left(u) \/ Acted(u)) /\ UNCHANGED <<power, polls>>
        /\ (due' = due \/ due' = [due EXCEPT ![u] = Off])
    BY <1>3 DEF Elapses, Expires
  <2>2. ctx'[O].mode = ctx[O].mode \/ ctx'[O].mode # "idle"
    BY <2>1, Names, EffectModes
  <2>3. due'[O] = due[O] \/ due'[O] = Off
    BY <1>0, <2>1, Names
  <2> QED
    BY <1>g, <1>s, <2>1, <2>2, <2>3
<1>4. ASSUME NEW w \in Workers, Works(w) PROVE DueOOK'
  <2>1. ctx'[O] = ctx[O] /\ UNCHANGED <<power, due, polls>>
    BY <1>4 DEF Works, GoesOn, EndsFlow, outside
  <2> QED
    BY <1>g, <1>s, <2>1
<1>5. CASE Switches
  <2>0. ctx' = ctx /\ GapO' <= GapO
    BY <1>5, <1>g DEF Switches
  <2>1. CASE PrimaryFails \/ PrimaryReturns
    <3>1. power'[O] = power[O] /\ due'[O] = due[O]
      BY <1>0, <2>1, Names DEF PrimaryFails, PrimaryReturns, P
    <3> QED
      BY <1>s, <2>0, <3>1
  <2>2. CASE ObserverFails
    <3>1. due'[O] = SuspendDue
      BY <1>0, <2>2, Names DEF ObserverFails, O
    <3>2. PICK g \in Nat : g = GapO' /\ g <= PollEvery
      BY <1>n
    <3>3. SuspendDue >= SuspendDue - PollEvery + g
      BY <3>2, WaitsTyped, SMT
    <3> QED
      BY <3>1, <3>2, <3>3 DEF DueOOK
  <2>3. CASE ObserverRunsLow
    <3>1. power[O] # "OL" /\ due' = due
      BY <2>3 DEF ObserverRunsLow, O
    <3> QED
      BY <1>s, <2>0, <3>1
  <2>4. CASE ObserverReturns
    <3>1. power'[O] = "OL"
      BY <1>0, <2>4, Names DEF ObserverReturns, O
    <3> QED
      BY <3>1 DEF DueOOK
  <2> QED
    BY <1>5, <2>1, <2>2, <2>3, <2>4 DEF Switches
<1>6. CASE Passes
  <2>1. GapO' <= GapO
    BY <1>6, <1>n, SMT DEF Passes
  <2> QED
    BY <1>6, <1>s, <2>1 DEF Passes
<1>7. CASE Tick
  <2>1. power' = power /\ ctx'[O].mode = ctx[O].mode /\ due'[O] = Less(due[O]) /\ GapO' = GapO - 1
    BY <1>0, <1>7, Names, TurnOfContext, GapOfTurn DEF Tick
  <2>2. due[O] # 0 /\ due[O] \in {Off} \cup Nat
    BY <1>0, <1>7, Names, SMT DEF Tick, NothingDue
  <2>3. due'[O] # Off /\ due[O] >= SuspendDue - PollEvery + GapO
          => due'[O] >= SuspendDue - PollEvery + GapO'
    BY <1>n, <2>1, <2>2, SMT DEF Less, Off
  <2>4. due'[O] # Off => due[O] # Off
    BY <2>1, <2>2, SMT DEF Less, Off
  <2> QED
    BY <2>1, <2>3, <2>4 DEF DueOOK
<1> QED
  BY <1>1, <1>2, <1>3, <1>4, <1>5, <1>6, <1>7, Names, StepKinds

LEMMA WindowsLong ==
  /\ Windows \in Nat /\ Windows >= Pass /\ Windows >= Push + ShutdownWait
  /\ Windows >= Send + WakeTimeout + Pass - 1 + Push + ShutdownWait
  /\ AnswerBound = PollEvery + Longest + Windows
<1>1. WakeTimeout \in Nat /\ WakeTimeout >= 1
  BY WaitsAssumption, SMT
<1> QED
  BY <1>1, WaitsTyped, SMT DEF Windows

LEMMA ToGoTyped ==
  ASSUME TypeOK, NEW k \in 1 .. MaxWorkers
  PROVE  ToGo(<<P, k>>) \in Int
<1>1. worker[<<P, k>>] \in Worker
  BY WorkerOf, Names
<1>2. worker[<<P, k>>].left \in Nat /\ worker[<<P, k>>].nap \in Nat
  BY <1>1, SMT DEF Worker
<1> QED
  BY <1>2, WaitsTyped, SMT DEF ToGo

LEMMA EnoughGrows ==
  ASSUME TypeOK, NEW n \in Enough, NEW m \in Int, n <= m
  PROVE  m \in Enough
<1>1. n \in Int /\ ctx[P].timer \in Int
  BY ContextTyped, Names, SMT DEF Enough, Off
<1>2. ctx[P].mode = "monitoring" => ctx[P].timer + Windows < m
  BY <1>1, WindowsLong, SMT DEF Enough
<1>3. ASSUME NEW k \in 1 .. MaxWorkers, ToGo(<<P, k>>) < n PROVE ToGo(<<P, k>>) < m
  BY <1>1, <1>3, ToGoTyped, SMT
<1> QED
  BY <1>2, <1>3 DEF Enough

\* A worker that begins has the windows before it at most.
LEMMA BeginsWithin ==
  ASSUME TypeOK', NEW k \in 1 .. MaxWorkers,
         \/ \E nap \in 0 .. Send : worker'[<<P, k>>] = Begun("send", nap)
         \/ \E nap \in 0 .. Push : worker'[<<P, k>>] = Begun("push", nap)
  PROVE  worker'[<<P, k>>].at # "none" /\ ToGo(<<P, k>>)' \in Int /\ ToGo(<<P, k>>)' <= Windows
<1>1. ASSUME NEW nap \in 0 .. Send, worker'[<<P, k>>] = Begun("send", nap)
      PROVE  worker'[<<P, k>>].at # "none" /\ ToGo(<<P, k>>)' \in Int /\ ToGo(<<P, k>>)' <= Windows
  <2>1. nap \in Nat /\ nap <= Send
    BY WaitsTyped, SMT
  <2>2. worker'[<<P, k>>].at = "send" /\ worker'[<<P, k>>].nap = nap
    BY <1>1, <2>1, BegunTyped
  <2>3. ToGo(<<P, k>>)' = nap + WakeTimeout + Pass - 1 + Push + ShutdownWait
    BY <2>2, SMT DEF ToGo
  <2> QED
    BY <2>1, <2>2, <2>3, WindowsLong, WaitsTyped, SMT
<1>2. ASSUME NEW nap \in 0 .. Push, worker'[<<P, k>>] = Begun("push", nap)
      PROVE  worker'[<<P, k>>].at # "none" /\ ToGo(<<P, k>>)' \in Int /\ ToGo(<<P, k>>)' <= Windows
  <2>1. nap \in Nat /\ nap <= Push
    BY WaitsTyped, SMT
  <2>2. worker'[<<P, k>>].at = "push" /\ worker'[<<P, k>>].nap = nap
    BY <1>2, <2>1, BegunTyped
  <2>3. ToGo(<<P, k>>)' = nap + ShutdownWait
    BY <2>2, SMT DEF ToGo
  <2> QED
    BY <2>1, <2>2, <2>3, WindowsLong, WaitsTyped, SMT
<1> QED
  BY <1>1, <1>2

\* What an effect, other than a start of the primary, leaves of the flow.
LEMMA EffectKeepsEnough ==
  ASSUME Inv, TypeOK', NEW u \in UPS, Effect(u),
         u = O \/ Left(u) \/ Rested(u) \/ (Acted(u) /\ ctx[u].mode = "monitoring")
  PROVE  \A n \in Enough : n \in Enough'
<1> SUFFICES ASSUME NEW n \in Enough PROVE n \in Enough'
  OBVIOUS
<1>0. TypeOK /\ n \in Int
  BY DEF Inv, Enough
<1>1. CASE u = O
  <2>1. ctx'[P] = ctx[P] /\ \A k \in 1 .. MaxWorkers : worker'[<<P, k>>] = worker[<<P, k>>]
    BY <1>1, Names DEF Effect, OthersKeep
  <2>2. halted' = halted
    BY <1>1, Names DEF Effect, Left, Began, Rested, Acted, Executed, Hired, Closed, Finished
  <2>3. \A k \in 1 .. MaxWorkers : ToGo(<<P, k>>)' = ToGo(<<P, k>>)
    BY <2>1 DEF ToGo
  <2> QED
    BY <1>0, <2>1, <2>2, <2>3 DEF Enough
<1>2. CASE u = P /\ Left(P)
  <2>1. \A k \in 1 .. MaxWorkers : ToGo(<<P, k>>)' = ToGo(<<P, k>>)
    BY <1>2 DEF ToGo, Left
  <2> QED
    BY <1>0, <1>2, <2>1 DEF Enough, Left
<1>3. CASE u = P /\ Rested(P)
  BY <1>0, <1>3 DEF Enough, Rested
<1>4. CASE u = P /\ Acted(P) /\ ctx[P].mode = "monitoring"
  <2>1. CASE Closed(P)
    BY <1>0, <2>1, Names DEF Enough, Closed, Finished
  <2>2. CASE Hired(P)
    <3>1. PICK k \in 1 .. MaxWorkers :
            \/ \E nap \in 0 .. Send : worker'[<<P, k>>] = Begun("send", nap)
            \/ \E nap \in 0 .. Push : worker'[<<P, k>>] = Begun("push", nap)
      BY <2>2, Names DEF Hired
    <3>2. worker'[<<P, k>>].at # "none" /\ ToGo(<<P, k>>)' \in Int /\ ToGo(<<P, k>>)' <= Windows
      BY <3>1, BeginsWithin
    <3>3. ctx[P].timer + Windows < n /\ ctx[P].timer \in 0 .. Longest
      BY <1>4, Names DEF Enough, Inv, Parts, TimersOK
    <3>4. ToGo(<<P, k>>)' < n
      BY <1>0, <3>2, <3>3, WindowsLong, WaitsTyped, SMT
    <3> QED
      BY <1>0, <2>2, <3>2, <3>4 DEF Enough, Hired
  <2> QED
    BY <1>4, <2>1, <2>2 DEF Acted, Executed
<1> QED
  BY <1>1, <1>2, <1>3, <1>4, Names

LEMMA BeginningIsEnough ==
  ASSUME Began(P), NEW n \in Int, Longest + Windows < n
  PROVE  n \in Enough'
<1>1. ctx'[P].mode = "monitoring" /\ ctx'[P].timer \in Nat /\ ctx'[P].timer <= Longest
  BY WaitsTyped DEF Began
<1>2. ctx'[P].timer + Windows < n
  BY <1>1, WindowsLong, WaitsTyped, SMT
<1> QED
  BY <1>1, <1>2 DEF Enough

LEMMA WorkKeepsEnough ==
  ASSUME Inv, ~halted, NEW w \in Workers, Works(w)
  PROVE  \A n \in Enough : n \in Enough'
<1> SUFFICES ASSUME NEW n \in Enough PROVE n \in Enough'
  OBVIOUS
<1>0. TypeOK /\ WorkersOK /\ n \in Int /\ TypeOK'
  <2>1. [Next]_vars
    BY DEF Works, Next, ServerStep
  <2> QED
    BY <2>1, StepKinds DEF Inv, Parts, Enough
<1>w. w[1] \in UPS /\ w = <<w[1], w[2]>> /\ w[2] \in 1 .. MaxWorkers /\ worker[w].at # "none"
  BY SMT DEF Workers, Works, GoesOn, EndsFlow
<1>v. \A k \in 1 .. MaxWorkers : <<P, k>> # w => worker'[<<P, k>>] = worker[<<P, k>>]
  BY <1>0, WorkerOf, Names DEF Works, GoesOn, EndsFlow, WorkerIs
<1>t. \A k \in 1 .. MaxWorkers : <<P, k>> # w => ToGo(<<P, k>>)' = ToGo(<<P, k>>)
  BY <1>v DEF ToGo
<1>1. CASE EndsFlow(w)
  BY <1>0, <1>1, Names DEF EndsFlow, Finished, Enough
<1>2. CASE GoesOn(w)
  <2>1. ctx' = ctx /\ halted' = halted
    BY <1>2 DEF GoesOn
  <2> SUFFICES ASSUME ctx[P].mode = "shutting_down"
      PROVE  \E k \in 1 .. MaxWorkers : worker'[<<P, k>>].at # "none" /\ ToGo(<<P, k>>)' < n
    BY <1>0, <2>1 DEF Enough
  <2>2. PICK k \in 1 .. MaxWorkers : worker[<<P, k>>].at # "none" /\ ToGo(<<P, k>>) < n
    BY DEF Enough
  <2>3. CASE <<P, k>> # w
    BY <1>v, <1>t, <2>2, <2>3
  <2>4. CASE <<P, k>> = w
    <3>1. w[1] = P /\ ~StoodDown(w) /\ worker[w].at # "hold"
      BY <1>0, <2>4, Names DEF StoodDown, WorkersOK
    <3>2. worker'[w].at # "none"
      <4>1. WorkerIs(w, Begun("confirm", 0)) \/ WorkerIs(w, Begun("wake", 0))
            => worker'[w].at # "none"
        BY BegunTyped DEF WorkerIs
      <4>2. ASSUME NEW nap \in 0 .. Push, WorkerIs(w, Begun("push", nap))
            PROVE  worker'[w].at # "none"
        <5>1. Begun("push", nap).at = "push"
          BY BegunTyped, WaitsTyped, SMT
        <5> QED
          BY <4>2, <5>1 DEF WorkerIs
      <4>3. ASSUME NEW i \in 1 .. Pass,
                   WorkerIs(w, [at |-> worker[w].at, left |-> worker[w].left, nap |-> i])
            PROVE  worker'[w].at # "none"
        BY <1>w, <4>3 DEF WorkerIs
      <4> QED
        BY <1>2, <3>1, <4>1, <4>2, <4>3 DEF GoesOn
    <3>3. ~Hold(w)
      BY <3>1 DEF Hold, Awake
    <3>4. ToGo(w)' <= ToGo(w)
      BY <3>2, <3>3, LookShortens DEF Works, WorkerStep
    <3>5. ToGo(w) \in Int /\ ToGo(w) < n
      BY <1>0, <2>2, <2>4, ToGoTyped
    <3>6. ToGo(w)' \in Int
      <4>1. worker'[w] \in Worker
        BY <1>0 DEF TypeOK
      <4>2. worker'[w].left \in Nat /\ worker'[w].nap \in Nat
        BY <4>1, SMT DEF Worker
      <4> QED
        BY <4>2, WaitsTyped, SMT DEF ToGo
    <3>7. ToGo(w)' < n
      BY <1>0, <3>4, <3>5, <3>6, SMT
    <3> QED
      BY <2>4, <3>2, <3>7
  <2> QED
    BY <2>3, <2>4
<1> QED
  BY <1>1, <1>2 DEF Works

LEMMA SameEnough ==
  ASSUME UNCHANGED <<ctx, worker, halted>>
  PROVE  Enough' = Enough
<1>1. \A k \in 1 .. MaxWorkers : ToGo(<<P, k>>)' = ToGo(<<P, k>>)
  BY DEF ToGo
<1> QED
  BY <1>1 DEF Enough

LEMMA TurnKeepsEnough ==
  ASSUME Inv, Tick, NEW n \in Enough, NEW m \in Int, m >= n - 1
  PROVE  m \in Enough'
<1>0. TypeOK /\ WorkersOK /\ n \in Int /\ halted' = halted
  BY DEF Inv, Parts, Enough, Tick, ends
<1>1. ctx'[P].mode = ctx[P].mode /\ ctx'[P].timer = Less(ctx[P].timer)
  BY <1>0, Names, TurnOfContext
<1>2. ASSUME ctx[P].mode = "monitoring" PROVE ctx'[P].timer + Windows < m
  <2>1. ctx[P].timer \in 0 .. Longest /\ ctx[P].timer # 0 /\ ctx[P].timer + Windows < n
    BY <1>2, Names DEF Inv, Parts, TimersOK, Tick, NothingDue, Enough
  <2>2. ctx'[P].timer = ctx[P].timer - 1
    BY <1>1, <2>1, WaitsTyped, SMT DEF Less
  <2> QED
    BY <1>0, <2>1, <2>2, WindowsLong, WaitsTyped, SMT
<1>3. ASSUME NEW k \in 1 .. MaxWorkers, worker[<<P, k>>].at # "none", ToGo(<<P, k>>) < n
      PROVE  worker'[<<P, k>>].at # "none" /\ ToGo(<<P, k>>)' < m
  BY <1>0, <1>3, TurnShortens, SMT
<1> QED
  BY <1>0, <1>1, <1>2, <1>3 DEF Enough

LEMMA EnoughIsAhead ==
  ASSUME flows # 0, NEW n \in Enough
  PROVE  n \in Ahead
  BY DEF Enough, Ahead

LEMMA SameAhead ==
  ASSUME UNCHANGED <<ctx, worker, halted, flows>>, Gap' = Gap
  PROVE  Ahead' = Ahead
<1>1. Enough' = Enough
  BY SameEnough
<1> QED
  BY <1>1 DEF Ahead

LEMMA LessGapAhead ==
  ASSUME TypeOK, TypeOK', flows' = flows, Gap' <= Gap, \A n \in Enough : n \in Enough'
  PROVE  \A n \in Ahead : n \in Ahead'
<1> SUFFICES ASSUME NEW n \in Ahead PROVE n \in Ahead'
  OBVIOUS
<1>1. n \in Int /\ Gap \in Nat /\ Gap' \in Nat
  BY GapsTyped, GapsTypedNext DEF Ahead
<1>2. flows = 0 => Gap' + Longest + Windows < n
  <2>1. Gap + Longest + Windows < n => Gap' + Longest + Windows < n
    BY <1>1, WindowsLong, WaitsTyped, SMT
  <2> QED
    BY <2>1 DEF Ahead
<1> QED
  BY <1>1, <1>2 DEF Ahead

\* The poll after the observer's start brings the flow on its way.
LEMMA HandlingKeepsAhead ==
  ASSUME Inv, TypeOK', FlowsOK, ctx[O].mode # "idle", Handles(P)
  PROVE  \A n \in Ahead : n \in Ahead'
<1> SUFFICES ASSUME NEW n \in Ahead PROVE n \in Ahead'
  OBVIOUS
<1>0. TypeOK /\ Effect(P) /\ ctx'[P].mode # "idle" /\ n \in Int /\ flows \in {0, 1, 2}
  BY GapsTyped DEF Inv, Handles, DesktopUpsOut, P, O, Ahead
<1>1. CASE Began(P)
  <2>1. flows' = AtMost(flows + 1, 2)
    BY <1>1 DEF Began, Starts, P
  <2>2. CASE flows = 0
    <3>1. Gap + Longest + Windows < n /\ Gap \in Nat
      BY <1>0, <2>2, GapTyped DEF Ahead
    <3>2. Longest + Windows < n
      BY <1>0, <3>1, WindowsLong, WaitsTyped, SMT
    <3>3. n \in Enough' /\ flows' = 1
      BY <1>0, <1>1, <2>1, <2>2, <3>2, BeginningIsEnough, SMT DEF AtMost
    <3> QED
      BY <1>0, <3>3 DEF Ahead
  <2>3. CASE flows # 0
    <3>1. flows' = 2
      BY <1>0, <2>1, <2>3, SMT DEF AtMost
    <3> QED
      BY <1>0, <3>1 DEF Ahead
  <2> QED
    BY <2>2, <2>3
<1>2. CASE Left(P) \/ Acted(P)
  <2>1. flows' = flows /\ flows # 0
        /\ (Left(P) \/ (Acted(P) /\ ctx[P].mode = "monitoring"))
    BY <1>0, <1>2, Names DEF Left, Acted, FlowsOK
  <2>2. n \in Enough => n \in Enough'
    BY <1>0, <2>1, EffectKeepsEnough, Names
  <2> QED
    BY <1>0, <2>1, <2>2 DEF Ahead
<1>3. ~Rested(P)
  BY <1>0 DEF Rested
<1> QED
  BY <1>0, <1>1, <1>2, <1>3 DEF Effect

LEMMA ElapsingKeepsAhead ==
  ASSUME Inv, TypeOK', NEW u \in UPS, Elapses(u)
  PROVE  (\A n \in Enough : n \in Enough') /\ (\A n \in Ahead : n \in Ahead')
<1>0. TypeOK
  BY DEF Inv
<1>1. \A n \in Enough : n \in Enough'
  BY EffectKeepsEnough DEF Elapses, Expires
<1>2. flows' = flows /\ Gap' = Gap
  BY DEF Elapses, polls, Gap
<1>3. Gap' <= Gap
  BY <1>0, <1>2, GapsTyped, SMT
<1> QED
  BY <1>0, <1>1, <1>2, <1>3, LessGapAhead

LEMMA WorkKeepsAhead ==
  ASSUME Inv, TypeOK', ~halted, NEW w \in Workers, Works(w)
  PROVE  (\A n \in Enough : n \in Enough') /\ (\A n \in Ahead : n \in Ahead')
<1>0. TypeOK
  BY DEF Inv
<1>1. \A n \in Enough : n \in Enough'
  BY WorkKeepsEnough
<1>2. flows' = flows /\ Gap' = Gap
  BY DEF Works, polls, history, Gap
<1>3. Gap' <= Gap
  BY <1>0, <1>2, GapsTyped, SMT
<1> QED
  BY <1>0, <1>1, <1>2, <1>3, LessGapAhead

LEMMA TurnKeepsAhead ==
  ASSUME Inv, Tick, NEW n \in Ahead, NEW m \in Int, m >= n - 1
  PROVE  m \in Ahead'
<1>0. TypeOK /\ n \in Int /\ flows' = flows /\ Gap' = Gap - 1 /\ Gap \in Nat
  BY GapOfTurn, GapTyped DEF Inv, Ahead, Tick
<1>1. flows = 0 => Gap' + Longest + Windows < m
  <2>1. Gap + Longest + Windows < n => Gap' + Longest + Windows < m
    BY <1>0, WindowsLong, WaitsTyped, SMT
  <2> QED
    BY <2>1 DEF Ahead
<1>2. flows = 1 => m \in Enough'
  BY TurnKeepsEnough DEF Ahead
<1> QED
  BY <1>0, <1>1, <1>2 DEF Ahead

\* When the observer starts, a flow ends before the longest answer.
LEMMA StartingIsAhead ==
  ASSUME Inv, TypeOK', FlowOK, Effect(O), NEW n \in Int, AnswerBound < n
  PROVE  n \in Ahead'
<1>0. TypeOK /\ Gap' \in Nat /\ Gap' <= PollEvery
  BY GapsTypedNext DEF Inv
<1>1. Gap' + Longest + Windows < n
  BY <1>0, WindowsLong, WaitsTyped, SMT
<1>2. Longest + Windows + 1 <= n /\ Longest + Windows + 1 \in Enough
  BY WindowsLong, WaitsTyped, SMT DEF FlowOK
<1>3. n \in Enough
  BY <1>0, <1>2, EnoughGrows
<1>4. n \in Enough'
  BY <1>3, EffectKeepsEnough, Names
<1> QED
  BY <1>1, <1>4 DEF Ahead

LEMMA StepKeepsFlow == ASSUME Inv, FlowOK, [Next]_vars PROVE FlowOK'
<1> DEFINE n == Longest + Windows + 1
<1>0. TypeOK /\ TypeOK' /\ n \in Enough /\ n \in Int /\ n >= n - 1
  BY StepKinds, WindowsLong, WaitsTyped, SMT DEF FlowOK
<1> SUFFICES n \in Enough'
  BY DEF FlowOK
<1>1. ASSUME NEW u \in UPS, Effect(u) PROVE n \in Enough'
  <2>1. CASE u = P /\ Began(P)
    <3>1. Longest + Windows < n
      BY WindowsLong, WaitsTyped, SMT
    <3> HIDE DEF n
    <3> QED
      BY <1>0, <2>1, <3>1, BeginningIsEnough
  <2>2. CASE u = O \/ Left(u) \/ Rested(u) \/ (Acted(u) /\ ctx[u].mode = "monitoring")
    <3> HIDE DEF n
    <3> QED
      BY <1>0, <1>1, <2>2, EffectKeepsEnough
  <2> QED
    BY <1>1, <2>1, <2>2, Names DEF Effect, Acted
<1> HIDE DEF n
<1>2. ASSUME ~halted, NEW w \in Workers, Works(w) PROVE n \in Enough'
  BY <1>0, <1>2, WorkKeepsEnough
<1>3. CASE Switches \/ Passes
  BY <1>0, <1>3, SameEnough DEF Switches, Passes
<1>4. CASE Tick
  BY <1>0, <1>4, TurnKeepsEnough
<1> QED
  BY <1>1, <1>2, <1>3, <1>4, StepKinds DEF Handles, Elapses, Expires

LEMMA StepKeepsLead ==
  ASSUME WaitsAreApart, Inv, StandingOK, FlowsOK, DueOOK, FlowOK, LeadOK, [Next]_vars
  PROVE  LeadOK'
<1>0. /\ TypeOK /\ TypeOK' /\ due \in [UPS -> {Off} \cup 0 .. SuspendDue]
      /\ power \in [UPS -> {"OL", "OB", "LB"}]
  BY StepKinds DEF TypeOK
<1>n. due[O] \in Nat \cup {Off} /\ ctx[O].left \in Nat /\ ctx[O].timer \in Nat \cup {Off}
      /\ MaxWait \in Nat /\ SuspendDue \in Nat /\ PollEvery \in Nat
  BY <1>0, ContextTyped, WaitsTyped, Names, SMT
<1>s. ASSUME ctx'[O].mode = "monitoring" => /\ ctx[O].mode = "monitoring"
                                            /\ ctx'[O].left = ctx[O].left
                                            /\ ctx'[O].timer = ctx[O].timer
                                            /\ \A n \in Ahead : n \in Ahead',
             due'[O] = due[O] \/ due'[O] = Off
      PROVE  LeadOK'
  BY <1>s DEF LeadOK
<1>1. ASSUME Handles(P) PROVE LeadOK'
  <2>1. ctx'[O] = ctx[O] /\ due' = due
    BY <1>1, Names, EffectModes DEF Handles
  <2>2. ctx[O].mode = "monitoring" => \A n \in Ahead : n \in Ahead'
    BY <1>0, <1>1, HandlingKeepsAhead
  <2> QED
    BY <1>s, <2>1, <2>2
<1>2. ASSUME Handles(O) PROVE LeadOK'
  <2>0. Effect(O) /\ due' = due /\ Gap' <= Gap /\ (ctx'[O].mode = "idle") = (power[O] = "OL")
    BY <1>2, Names DEF Handles, DesktopUpsOut, P
  <2>1. CASE Left(O)
    <3>1. \A n \in Enough : n \in Enough'
      BY <1>0, <2>0, EffectKeepsEnough, Names
    <3>2. flows' = flows
      BY <2>1 DEF Left
    <3>3. \A n \in Ahead : n \in Ahead'
      BY <1>0, <2>0, <3>1, <3>2, LessGapAhead
    <3> QED
      BY <1>s, <2>0, <2>1, <3>3, Names DEF Left
  <2>2. CASE Began(O)
    <3>1. power[O] # "OL" /\ ctx[O].mode = "idle"
      BY <2>0, <2>2 DEF Began, Resting, StandingOK
    <3>2. ctx'[O].left = OfflineWait /\ ctx'[O].timer = OfflineWait
      BY <2>2, SMT DEF Began, Wait
    <3>3. MaxWait + OfflineWait \in Int /\ AnswerBound < MaxWait + OfflineWait
      BY WaitsTyped, SMT DEF WaitsAreApart
    <3>4. MaxWait + OfflineWait \in Ahead'
      BY <1>0, <2>0, <3>3, StartingIsAhead
    <3>5. ASSUME due[O] # Off PROVE MaxWait + due[O] \in Ahead'
      <4>1. due[O] >= SuspendDue - PollEvery + GapO /\ GapO \in Nat /\ due[O] \in Nat
        BY <1>0, <1>n, <3>1, <3>5, GapsTyped DEF DueOOK
      <4>2. MaxWait + due[O] \in Int /\ AnswerBound < MaxWait + due[O]
        BY <4>1, WaitsTyped, SMT DEF WaitsAreApart
      <4> QED
        BY <1>0, <2>0, <4>2, StartingIsAhead
    <3> QED
      BY <2>0, <3>2, <3>4, <3>5 DEF LeadOK
  <2>3. CASE Rested(O) \/ Acted(O)
    BY <2>0, <2>3, EffectModes, Names DEF LeadOK
  <2> QED
    BY <2>0, <2>1, <2>2, <2>3 DEF Effect
<1>3. ASSUME NEW u \in UPS, Elapses(u) PROVE LeadOK'
  <2>1. Effect(u) /\ (Left(u) \/ Acted(u)) /\ (due' = due \/ due' = [due EXCEPT ![u] = Off])
    BY <1>3 DEF Elapses, Expires
  <2>2. due'[O] = due[O] \/ due'[O] = Off
    BY <1>0, <2>1, Names
  <2>3. \A n \in Ahead : n \in Ahead'
    BY <1>0, <1>3, ElapsingKeepsAhead
  <2>4. ctx'[O].mode = "monitoring" => /\ ctx[O].mode = "monitoring"
                                       /\ ctx'[O].left = ctx[O].left
                                       /\ ctx'[O].timer = ctx[O].timer
    BY <2>1, EffectModes, Names DEF Left
  <2> QED
    BY <1>s, <2>2, <2>3, <2>4
<1>4. ASSUME ~halted, NEW w \in Workers, Works(w) PROVE LeadOK'
  <2>1. ctx'[O] = ctx[O] /\ due' = due
    BY <1>4 DEF Works, GoesOn, EndsFlow, outside
  <2> QED
    BY <1>0, <1>4, <1>s, <2>1, WorkKeepsAhead
<1>5. CASE Switches
  <2>0. ctx' = ctx /\ Ahead' = Ahead
    <3>1. Gap' = Gap
      BY <1>5 DEF Switches, polls, Gap
    <3> QED
      BY <1>5, <3>1, SameAhead DEF Switches
  <2>1. CASE PrimaryFails \/ PrimaryReturns \/ ObserverRunsLow \/ ObserverReturns
    <3>1. due'[O] = due[O] \/ due'[O] = Off
      BY <1>0, <2>1, Names DEF PrimaryFails, PrimaryReturns, ObserverRunsLow, ObserverReturns, P, O
    <3> QED
      BY <1>s, <2>0, <3>1
  <2>2. CASE ObserverFails
    <3>1. power[O] = "OL" /\ calm = Steady
      BY <2>2 DEF ObserverFails, O
    <3>2. ctx[O].mode = "idle"
      BY <1>0, <3>1, GapsTyped, WaitsTyped, SMT DEF StandingOK, WaitsAreApart
    <3> QED
      BY <2>0, <3>2 DEF LeadOK
  <2> QED
    BY <1>5, <2>1, <2>2 DEF Switches
<1>6. CASE Passes
  BY <1>6, <1>s, SameAhead DEF Passes
<1>7. CASE Tick
  <2>1. /\ ctx'[O].mode = ctx[O].mode /\ due'[O] = Less(due[O])
        /\ ctx'[O].left = Less(ctx[O].left) /\ ctx'[O].timer = Less(ctx[O].timer)
    BY <1>0, <1>7, Names, TurnOfContext DEF Tick
  <2>2. ASSUME NEW n \in Nat \cup {Off}, MaxWait + n \in Ahead PROVE MaxWait + Less(n) \in Ahead'
    <3> DEFINE a == MaxWait + n
               b == MaxWait + Less(n)
    <3>1. a \in Ahead /\ b \in Int /\ b >= a - 1
      BY <1>n, <2>2, SMT DEF Less, Off
    <3> HIDE DEF a, b
    <3>2. b \in Ahead'
      BY <1>7, <3>1, TurnKeepsAhead
    <3> QED
      BY <3>2 DEF b
  <2>3. Less(due[O]) # Off => due[O] # Off
    BY <1>n, SMT DEF Less, Off
  <2> QED
    BY <1>n, <2>1, <2>2, <2>3 DEF LeadOK
<1> QED
  BY <1>1, <1>2, <1>3, <1>4, <1>5, <1>6, <1>7, Names, StepKinds

\* The worker of an observer whose UPS a handler or a timer is about.
LEMMA OwnStepKeepsHold ==
  ASSUME WaitsAreApart, Inv, TypeOK', StandingOK, LeadOK, HoldOK, Effect(O),
         \/ Elapses(O)
         \/ Handles(O)
  PROVE  HoldOK'
<1>0. TypeOK /\ WorkersOK /\ flows \in {0, 1, 2}
  BY GapsTyped DEF Inv, Parts
<1>1. \A n \in Enough : n \in Enough'
  BY EffectKeepsEnough, Names
<1>2. ASSUME flows' = flows PROVE \A n \in Ahead : n \in Ahead'
  <2>1. CASE Elapses(O)
    BY <2>1, Names, ElapsingKeepsAhead
  <2>2. CASE Handles(O)
    BY <1>0, <1>1, <1>2, <2>2, LessGapAhead DEF Handles
  <2> QED
    BY <2>1, <2>2
<1>3. CASE Left(O)
  <2>1. flows' = flows /\ worker' = worker /\ ctx'[O].mode = ctx[O].mode
    BY <1>3 DEF Left
  <2> QED
    BY <1>1, <1>2, <2>1 DEF HoldOK
<1>4. ASSUME worker' = worker,
             ctx[O].mode = "monitoring" \/ (ctx[O].mode = "idle" /\ power[O] # "OL")
      PROVE  HoldOK'
  BY <1>4, NoHolder DEF HoldOK
<1>5. CASE Began(O)
  <2>1. power[O] # "OL"
    <3>1. ~Left(O) /\ ~Acted(O)
      BY <1>5, EffectModes, Names DEF Left, Resting
    <3>2. Handles(O) /\ ctx'[O].mode # "idle"
      BY <1>5, <3>1 DEF Elapses, Expires, Began
    <3> QED
      BY <3>2, Names DEF Handles, DesktopUpsOut, P
  <2> QED
    BY <1>4, <1>5, <2>1 DEF Began, Resting, StandingOK
<1>6. CASE Rested(O)
  <2>1. worker' = worker /\ flows' = flows /\ power[O] = "OL" /\ ctx'[O].mode = "idle"
    BY <1>6 DEF Rested
  <2>2. CASE ctx[O].mode = "monitoring"
    BY <1>4, <2>1, <2>2
  <2>3. CASE ctx[O].mode = "shutting_down"
    <3> SUFFICES ASSUME NEW k \in 1 .. MaxWorkers, worker[<<O, k>>].at = "hold"
        PROVE  \/ worker[<<O, k>>].left > worker[<<O, k>>].nap
               \/ flows = 2 \/ (flows = 1 /\ worker[<<O, k>>].left \in Enough')
      BY <2>1 DEF HoldOK
    <3>1. worker[<<O, k>>].left \in Ahead /\ worker[<<O, k>>].nap <= Pass
          /\ worker[<<O, k>>] \in Worker
      BY <1>0, <2>3, Names, WorkerOf DEF HoldOK, WorkersOK
    <3>2. CASE flows = 0
      <4>1. Gap + Longest + Windows < worker[<<O, k>>].left
        BY <3>1, <3>2 DEF Ahead
      <4>2. worker[<<O, k>>].left \in Nat /\ worker[<<O, k>>].nap \in Nat
        BY <3>1, SMT DEF Worker
      <4> QED
        BY <1>0, <3>1, <4>1, <4>2, GapTyped, WindowsLong, WaitsTyped, SMT
    <3>3. CASE flows = 1
      BY <1>1, <3>1, <3>3 DEF Ahead
    <3> QED
      BY <1>0, <3>2, <3>3
  <2>4. ctx[O].mode \in {"monitoring", "shutting_down"}
    <3>1. ctx[O] \in Context
      BY <1>0, Names DEF TypeOK
    <3>2. ctx[O].mode \in {"idle", "monitoring", "shutting_down", "desktop_handled"}
      BY <3>1, SMT DEF Context
    <3> QED
      BY <1>6, <3>2 DEF Rested, StandingOK
  <2> QED
    BY <2>2, <2>3, <2>4
<1>7. CASE Acted(O) /\ Resting(ctx[O])
  <2>1. worker' = worker /\ power[O] = "LB"
    BY <1>7 DEF Acted, Closed, Resting
  <2> QED
    BY <1>4, <1>7, <2>1 DEF Resting, StandingOK
<1>8. CASE Acted(O) /\ ctx[O].mode = "monitoring"
  <2>0. flows' = flows /\ ctx'[O].mode = "shutting_down"
    BY <1>8, EffectModes, Names DEF Acted, Resting
  <2>1. CASE worker' = worker
    BY <1>4, <1>8, <2>1
  <2>2. CASE worker' # worker
    <3>1. Ripe(O) /\ \E k \in 1 .. MaxWorkers :
            /\ \A w \in Workers : w # <<O, k>> => worker'[w] = worker[w]
            /\ worker'[<<O, k>>] = Begun("hold", 0)
      BY <1>0, <2>2, HiredOne, Names
    <3>2. PICK k \in 1 .. MaxWorkers :
            /\ \A w \in Workers : w # <<O, k>> => worker'[w] = worker[w]
            /\ worker'[<<O, k>>] = Begun("hold", 0)
      BY <3>1
    <3>3. \A i \in 1 .. MaxWorkers : i # k => worker'[<<O, i>>].at = "none"
      <4> SUFFICES ASSUME NEW i \in 1 .. MaxWorkers, i # k PROVE worker'[<<O, i>>].at = "none"
        OBVIOUS
      <4>1. worker[<<O, i>>].at = "none" /\ <<O, i>> \in Workers /\ <<O, i>> # <<O, k>>
        BY <1>0, <1>8, NoHolder, WorkerOf, Names
      <4> QED
        BY <3>2, <4>1
    <3>4. worker'[<<O, k>>].left = MaxWait
      BY <3>2, BegunTyped, WindowsTyped
    <3>5. MaxWait \in Ahead
      <4>1. ctx[O].left = 0 \/ ctx[O].timer = 0 \/ (due[O] = 0 /\ due[O] # Off)
        BY <3>1, SMT DEF Ripe, Off
      <4>2. MaxWait + 0 = MaxWait
        BY WaitsTyped, SMT
      <4> QED
        BY <1>8, <4>1, <4>2 DEF LeadOK
    <3>6. MaxWait \in Ahead'
      BY <1>2, <2>0, <3>5
    <3> QED
      BY <2>0, <3>3, <3>4, <3>6 DEF HoldOK
  <2> QED
    BY <2>1, <2>2
<1> QED
  BY <1>3, <1>5, <1>6, <1>7, <1>8, EffectModes, Names DEF Effect

LEMMA StepKeepsHold ==
  ASSUME WaitsAreApart, Inv, StandingOK, FlowsOK, LeadOK, HoldOK, [Next]_vars
  PROVE  HoldOK'
<1>0. TypeOK /\ TypeOK' /\ WorkersOK /\ flows \in {0, 1, 2}
  BY StepKinds, GapsTyped DEF Inv, Parts
<1>s. ASSUME ctx'[O].mode = ctx[O].mode,
             \A k \in 1 .. MaxWorkers : worker'[<<O, k>>] = worker[<<O, k>>],
             ctx[O].mode = "shutting_down" => \A n \in Ahead : n \in Ahead',
             flows = 2 => flows' = 2,
             flows = 1 => flows' = 2 \/ (flows' = 1 /\ \A n \in Enough : n \in Enough')
      PROVE  HoldOK'
  BY <1>s DEF HoldOK
<1>1. ASSUME Handles(P) PROVE HoldOK'
  <2>1. Effect(P) /\ ctx'[O] = ctx[O]
        /\ \A k \in 1 .. MaxWorkers : worker'[<<O, k>>] = worker[<<O, k>>]
    BY <1>1, Names DEF Handles, Effect, OthersKeep
  <2>2. ctx[O].mode = "shutting_down" => \A n \in Ahead : n \in Ahead'
    BY <1>0, <1>1, HandlingKeepsAhead
  <2>3. CASE Began(P)
    <3>1. flows' = AtMost(flows + 1, 2)
      BY <2>3 DEF Began, Starts, P
    <3>2. flows # 0 => flows' = 2
      BY <1>0, <3>1, SMT DEF AtMost
    <3> QED
      BY <1>s, <2>1, <2>2, <3>2
  <2>4. CASE Left(P) \/ Rested(P) \/ Acted(P)
    <3>1. flows' = flows /\ \A n \in Enough : n \in Enough'
      BY <1>0, <2>1, <2>4, EffectKeepsEnough, Names DEF Left, Rested, Acted
    <3> QED
      BY <1>s, <2>1, <2>2, <3>1
  <2> QED
    BY <2>1, <2>3, <2>4 DEF Effect
<1>2. ASSUME Handles(O) PROVE HoldOK'
  BY <1>0, <1>2, OwnStepKeepsHold DEF Handles
<1>3. ASSUME Elapses(O) PROVE HoldOK'
  BY <1>0, <1>3, OwnStepKeepsHold DEF Elapses, Expires
<1>4. ASSUME Elapses(P) PROVE HoldOK'
  <2>1. ctx'[O] = ctx[O] /\ flows' = flows
        /\ \A k \in 1 .. MaxWorkers : worker'[<<O, k>>] = worker[<<O, k>>]
    BY <1>4, Names DEF Elapses, Expires, Effect, OthersKeep
  <2>2. (\A n \in Enough : n \in Enough') /\ (\A n \in Ahead : n \in Ahead')
    BY <1>0, <1>4, ElapsingKeepsAhead, Names
  <2> QED
    BY <1>s, <2>1, <2>2
<1>5. ASSUME ~halted, NEW w \in Workers, Works(w) PROVE HoldOK'
  <2>1. ctx'[O] = ctx[O] /\ flows' = flows /\ \A v \in Workers : v # w => worker'[v] = worker[v]
    BY <1>5 DEF Works, GoesOn, EndsFlow, WorkerIs, history
  <2>2. (\A n \in Enough : n \in Enough') /\ (\A n \in Ahead : n \in Ahead')
    BY <1>0, <1>5, WorkKeepsAhead
  <2>w. w[1] \in UPS /\ w = <<w[1], w[2]>> /\ w[2] \in 1 .. MaxWorkers
    BY SMT DEF Workers
  <2>3. CASE w[1] = P
    <3>1. \A k \in 1 .. MaxWorkers : <<O, k>> \in Workers /\ <<O, k>> # w
      BY <1>0, <2>3, <2>w, WorkerOf, Names, SMT
    <3> QED
      BY <1>s, <2>1, <2>2, <3>1
  <2>4. CASE w[1] = O /\ WorkerIs(w, NoWorker)
    <3>1. worker'[w].at = "none"
      BY <2>4, NoWorkerIsNone DEF WorkerIs
    <3>2. \A k \in 1 .. MaxWorkers :
            worker'[<<O, k>>].at = "hold" => worker'[<<O, k>>] = worker[<<O, k>>]
      BY <1>0, <2>1, <3>1, WorkerOf, Names
    <3> QED
      BY <2>1, <2>2, <3>2 DEF HoldOK
  <2>5. ASSUME w[1] = O, ~StoodDown(w), NEW n \in 1 .. Pass,
               WorkerIs(w, [at |-> worker[w].at, left |-> worker[w].left, nap |-> n])
        PROVE  HoldOK'
    <3>1. worker'[w].at = worker[w].at /\ worker'[w].left = worker[w].left
      BY <2>5 DEF WorkerIs
    <3>2. \A k \in 1 .. MaxWorkers : /\ worker'[<<O, k>>].at = worker[<<O, k>>].at
                                     /\ worker'[<<O, k>>].left = worker[<<O, k>>].left
      BY <1>0, <2>1, <3>1, WorkerOf, Names
    <3>3. ctx[O].mode = "shutting_down"
      BY <2>5 DEF StoodDown
    <3> QED
      BY <2>1, <2>2, <3>2, <3>3 DEF HoldOK
  <2> QED
    BY <1>5, <2>3, <2>4, <2>5, <2>w, Names DEF Works, GoesOn, EndsFlow
<1>6. CASE Switches
  <2>1. Gap' = Gap
    BY <1>6 DEF Switches, polls, Gap
  <2>2. Enough' = Enough /\ Ahead' = Ahead
    BY <1>6, <2>1, SameEnough, SameAhead DEF Switches
  <2> QED
    BY <1>0, <1>6, <1>s, <2>2 DEF Switches
<1>7. CASE Passes
  <2>1. Enough' = Enough /\ Ahead' = Ahead
    BY <1>7, SameEnough, SameAhead DEF Passes
  <2> QED
    BY <1>0, <1>7, <1>s, <2>1 DEF Passes
<1>8. CASE Tick
  <2>1. ctx'[O].mode = ctx[O].mode /\ flows' = flows
    BY <1>0, <1>8, Names, TurnOfContext DEF Tick
  <2> SUFFICES ASSUME NEW k \in 1 .. MaxWorkers, worker'[<<O, k>>].at = "hold"
      PROVE  IF ctx[O].mode = "shutting_down" THEN worker'[<<O, k>>].left \in Ahead'
             ELSE \/ worker'[<<O, k>>].left > worker'[<<O, k>>].nap
                  \/ flows = 2 \/ (flows = 1 /\ worker'[<<O, k>>].left \in Enough')
    BY <2>1 DEF HoldOK
  <2> DEFINE a == worker[<<O, k>>]
             b == worker'[<<O, k>>]
  <2>2. <<O, k>> \in Workers /\ a.at = "hold"
    BY <1>0, <1>8, WorkerOf, Names, TurnTyped, LaterFields
  <2>3. /\ a \in Worker /\ b \in Worker /\ a.nap > 0 /\ b.nap = a.nap - 1
        /\ b.left = IF a.left > 0 THEN a.left - 1 ELSE 0
    BY <1>0, <1>8, <2>2, TurnOfWorker
  <2>4. a.left \in Nat /\ a.nap \in Nat /\ b.left \in Nat
    BY <2>3, SMT DEF Worker
  <2>5. IF ctx[O].mode = "shutting_down" THEN a.left \in Ahead
        ELSE a.left > a.nap \/ flows = 2 \/ (flows = 1 /\ a.left \in Enough)
    BY <2>2 DEF HoldOK
  <2> HIDE DEF a, b
  <2>6. b.left \in Int /\ b.left >= a.left - 1 /\ (a.left > a.nap => b.left > b.nap)
    BY <2>3, <2>4, SMT
  <2>7. (a.left \in Ahead => b.left \in Ahead') /\ (a.left \in Enough => b.left \in Enough')
    BY <1>8, <2>6, TurnKeepsAhead, TurnKeepsEnough
  <2> QED
    BY <2>5, <2>6, <2>7 DEF b
<1> QED
  BY <1>1, <1>2, <1>3, <1>4, <1>5, <1>6, <1>7, <1>8, Names, StepKinds

FollowInv ==
  /\ Inv /\ StandingOK /\ SettledOK /\ FlowsOK /\ DueOOK
  /\ FlowOK /\ LeadOK /\ HoldOK

LEMMA InitKeepsFollow == ASSUME Init PROVE FollowInv
<1>1. Inv /\ StandingOK
  BY InitKeepsOrder DEF OrderInv
<1>2. /\ \A u \in UPS : ctx[u].mode = "idle"
      /\ \A u \in UPS : power[u] = "OL"
  BY DEF Init
<1>3. \A k \in 1 .. MaxWorkers : worker[<<O, k>>].at = "none"
  <2>1. \A k \in 1 .. MaxWorkers : <<O, k>> \in Workers
    BY <1>1, WorkerOf, Names DEF Inv
  <2> QED
    BY <2>1, NoWorkerIsNone DEF Init
<1>4. SettledOK /\ FlowsOK /\ DueOOK /\ LeadOK
  BY <1>2, Names DEF SettledOK, PSettled, FlowsOK, DueOOK, LeadOK
<1>5. Longest + Windows + 1 \in Int
  BY WindowsLong, WaitsTyped, SMT
<1>6. FlowOK
  BY <1>2, <1>5, Names DEF FlowOK, Enough
<1>7. HoldOK
  BY <1>3 DEF HoldOK
<1> QED
  BY <1>1, <1>4, <1>6, <1>7 DEF FollowInv

LEMMA StepKeepsFollow ==
  ASSUME WaitsAreApart, FollowInv, [Next]_vars
  PROVE  FollowInv'
<1>1. Inv'
  BY StepKinds DEF FollowInv
<1>2. StandingOK'
  BY StepKeepsStanding DEF FollowInv, WaitsAreApart
<1>3. SettledOK' /\ FlowsOK' /\ DueOOK'
  BY StepKeepsSettled, StepKeepsFlows, StepKeepsDueO DEF FollowInv
<1>4. FlowOK' /\ LeadOK' /\ HoldOK'
  BY StepKeepsFlow, StepKeepsLead, StepKeepsHold DEF FollowInv
<1> QED
  BY <1>1, <1>2, <1>3, <1>4 DEF FollowInv

\* The observer gives up on the desktop, or takes it to be taken care of, only when the
\* primary has run its flow and come to its end: _observer_power_off_when_desktop_safe.
THEOREM CutComesLast ==
  ASSUME WaitsAreApart
  PROVE  Spec => CutFollowsFlow
<1> DEFINE FlowOver == flows = 1 /\ ctx["primary"].mode \notin {"monitoring", "shutting_down"}
<1>1. FollowInv /\ [Next]_vars
      => (cut' # cut /\ cut' \in {"limit", "finished"} => flows > 1 \/ FlowOver)
  <2> SUFFICES ASSUME FollowInv, [Next]_vars, cut' # cut, cut' \in {"limit", "finished"}
               PROVE  flows > 1 \/ FlowOver
    OBVIOUS
  <2>0. TypeOK /\ WorkersOK /\ flows \in {0, 1, 2} /\ ~halted
    <3>1. ~halted
      BY DEF Next, vars, server, ends
    <3> QED
      BY <3>1, GapsTyped DEF FollowInv, Inv, Parts
  <2>1. PICK k \in 1 .. MaxWorkers : <<O, k>> \in Workers /\ Hold(<<O, k>>)
    BY HolderCuts DEF FollowInv
  <2> DEFINE w == <<O, k>>
  <2>2. worker[w].at = "hold" /\ worker[w].nap = 0
    BY <2>1 DEF Hold, Awake
  <2>3. ASSUME 0 \in Enough, flows = 1 PROVE FlowOver
    <3>1. ctx[P].mode # "monitoring"
      <4> SUFFICES ASSUME ctx[P].mode = "monitoring" PROVE FALSE
        OBVIOUS
      <4>1. ctx[P].timer + Windows < 0 /\ ctx[P].timer \in 0 .. Longest
        BY <2>3, Names DEF Enough, FollowInv, Inv, Parts, TimersOK
      <4> QED
        BY <4>1, WindowsLong, WaitsTyped, SMT
    <3>2. ctx[P].mode # "shutting_down"
      <4> SUFFICES ASSUME ctx[P].mode = "shutting_down" PROVE FALSE
        OBVIOUS
      <4>1. PICK i \in 1 .. MaxWorkers : worker[<<P, i>>].at # "none" /\ ToGo(<<P, i>>) < 0
        BY <2>0, <2>3 DEF Enough
      <4>2. worker[<<P, i>>] \in Worker
        BY <2>0, WorkerOf, Names
      <4>3. worker[<<P, i>>].left \in Nat /\ worker[<<P, i>>].nap \in Nat
        BY <4>2, SMT DEF Worker
      <4>4. ToGo(<<P, i>>) >= 0
        BY <4>3, WaitsTyped, SMT DEF ToGo
      <4>5. ToGo(<<P, i>>) \in Int
        BY <2>0, ToGoTyped
      <4> QED
        BY <4>1, <4>4, <4>5, SMT
    <3> QED
      BY <2>3, <3>1, <3>2 DEF P
  <2>4. CASE worker[w].left = 0
    <3>1. ~(0 > 0)
      BY SMT
    <3>2. 0 \in Ahead \/ flows = 2 \/ (flows = 1 /\ 0 \in Enough)
      BY <2>2, <2>4, <3>1 DEF FollowInv, HoldOK
    <3>3. ASSUME 0 \in Ahead, flows = 0 PROVE FALSE
      <4>1. Gap + Longest + Windows < 0
        BY <3>3 DEF Ahead
      <4> QED
        BY <2>0, <4>1, GapTyped, WindowsLong, WaitsTyped, SMT
    <3>4. flows = 2 \/ (flows = 1 /\ 0 \in Enough)
      BY <2>0, <3>2, <3>3 DEF Ahead
    <3> HIDE DEF FlowOver
    <3>5. flows = 2 => flows > 1
      BY SMT
    <3> QED
      BY <2>3, <3>4, <3>5
  <2>5. CASE worker[w].left # 0
    <3>1. ctx[O].mode = "shutting_down" /\ cut' = Reason
      BY <2>1, <2>5 DEF Hold, StoodDown, PowerOff, ends
    <3>2. ctx[P].mode = "desktop_handled"
      BY <3>1 DEF Reason, P
    <3>3. flows # 0
      BY <3>1, <3>2 DEF FollowInv, FlowsOK
    <3>4. flows = 2 => flows > 1
      BY SMT
    <3> QED
      BY <2>0, <3>2, <3>3, <3>4 DEF P
  <2> QED
    BY <2>4, <2>5
<1>2. FollowInv /\ [Next]_vars => FollowInv'
  BY StepKeepsFollow
<1>3. Init => FollowInv
  BY InitKeepsFollow
<1>4. FollowInv /\ [Next]_vars
      => [cut' # cut /\ cut' \in {"limit", "finished"} => flows > 1 \/ FlowOver]_vars
  BY <1>1
<1> QED
  BY <1>2, <1>3, <1>4, PTL DEF Spec, CutFollowsFlow

=============================================================================
