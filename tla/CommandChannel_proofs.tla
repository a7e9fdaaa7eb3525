----------------------- MODULE CommandChannel_proofs ------------------------
(* Proofs about CommandChannel, for any number of commands and threads.    *)
EXTENDS CommandChannel, TLAPS

LEMMA TypeInit == Init => TypeOK
<1> SUFFICES ASSUME Init PROVE TypeOK
  OBVIOUS
<1>1. ThreadsOK
  BY DEF Init, ThreadsOK, Free, At, ThreadPlaces
<1>2. HandlersOK
  BY BoundsAssumption DEF Init, HandlersOK, Gone, HandlerPlaces
<1> QED BY <1>1, <1>2, BoundsAssumption DEF Init, TypeOK

\* A step of one thread that issues nothing keeps the types of the threads.
LEMMA GotoType ==
  ASSUME ThreadsOK, NEW t \in Thread, NEW place \in ThreadPlaces, NEW c \in 0 .. issued,
         NEW status \in Statuses \cup {"none"}, Goto(t, place, c, status),
         place = "push" => kind[c] \in Kinds, place = "save" => c # 0,
         UNCHANGED <<kind, issued>>
  PROVE  ThreadsOK'
  BY DEF ThreadsOK, Goto, At

LEMMA FinishType ==
  ASSUME ThreadsOK, issued \in Nat, NEW t \in Thread, Finish(t), UNCHANGED <<kind, issued>>
  PROVE  ThreadsOK'
<1>1. Goto(t, "free", 0, "none")
  BY DEF Finish, Free, Goto
<1> QED BY <1>1, GotoType DEF ThreadPlaces

LEMMA BecomesType ==
  ASSUME HandlersOK, NEW c \in Command, NEW tries \in 0 .. MaxTries,
         NEW place \in HandlerPlaces,
         NEW status \in Statuses \cup {"none"}, Becomes(c, place, tries, status)
  PROVE  HandlersOK'
  BY DEF HandlersOK, Becomes

LEMMA EndsType ==
  ASSUME HandlersOK, NEW c \in Command, Ends(c)
  PROVE  HandlersOK'
<1>1. Becomes(c, "none", 0, "none")
  BY DEF Ends, Gone, Becomes
<1> QED BY <1>1, BecomesType, BoundsAssumption DEF HandlerPlaces

\* A step of the agent for one command keeps the types: it changes its thread
\* and, with the commands that stop the machine, the desktop.
LEMMA AgentType ==
  ASSUME TypeOK, NEW c \in Command, UNCHANGED server,
         \/ Ends(c)
         \/ \E place \in HandlerPlaces, tries \in 0 .. MaxTries,
              status \in Statuses \cup {"none"} : Becomes(c, place, tries, status),
         desktop' \in {desktop, "suspending", "stopping"},
         carried' \in {carried, carried \cup {c}}
  PROVE  TypeOK'
<1>1. HandlersOK'
  BY BecomesType, EndsType DEF TypeOK
<1>2. ThreadsOK'
  BY DEF TypeOK, ThreadsOK, server, At
<1> QED BY <1>1, <1>2 DEF TypeOK, server

LEMMA AgentStepType ==
  ASSUME TypeOK, NEW c \in Command, AgentStep(c), ~ \E t \in Thread : Acknowledge(c, t)
  PROVE  TypeOK'
<1> USE BoundsAssumption DEF Statuses, HandlerPlaces
<1>1. CASE ChooseSleep(c) \/ ChooseShutdown(c) \/ Stumble(c) \/ PreflightError(c)
  <2>1. Ends(c) \/ \E place \in HandlerPlaces : Becomes(c, place, 0, "none")
    BY <1>1 DEF ChooseSleep, ChooseShutdown, Stumble, PreflightError
  <2>2. UNCHANGED <<server, desktop, carried>>
    BY <1>1 DEF ChooseSleep, ChooseShutdown, Stumble, PreflightError
  <2> QED BY <2>1, <2>2, AgentType
<1>2. CASE Dismiss(c) \/ PreflightRejected(c)
  <2>1. \E status \in Statuses : Becomes(c, "ack", 0, status)
    BY <1>2 DEF Dismiss, PreflightRejected, Answers
  <2>2. UNCHANGED <<server, desktop, carried>>
    BY <1>2 DEF Dismiss, PreflightRejected
  <2> QED BY <2>1, <2>2, AgentType
<1>3. CASE PreflightAllowed(c)
  <2>1. \E place \in HandlerPlaces, tries \in 0 .. MaxTries : Becomes(c, place, tries, "none")
    BY <1>3 DEF PreflightAllowed
  <2>2. UNCHANGED <<server, desktop, carried>>
    BY <1>3 DEF PreflightAllowed
  <2> QED BY <2>1, <2>2, AgentType
<1>4. CASE Suspend(c)
  <2>1. Becomes(c, "ack", 0, "done")
    BY <1>4 DEF Suspend, Answers
  <2>2. UNCHANGED server /\ desktop' = "suspending" /\ carried' = carried \cup {c}
    BY <1>4 DEF Suspend
  <2> QED BY <2>1, <2>2, AgentType
<1>5. CASE SuspendFails(c)
  <2>1. \E place \in HandlerPlaces, tries \in 0 .. MaxTries : Becomes(c, place, tries, "none")
    <3>1. handler[c].tries \in 0 .. MaxTries
      BY DEF TypeOK, HandlersOK
    <3>2. CASE TriesLeft(c)
      <4>1. handler[c].tries + 1 \in 0 .. MaxTries
        BY <3>1, <3>2 DEF TriesLeft
      <4> QED BY <1>5, <3>2, <4>1 DEF SuspendFails
    <3>3. CASE ~TriesLeft(c)
      BY <1>5, <3>3 DEF SuspendFails
    <3> QED BY <3>2, <3>3
  <2>2. UNCHANGED <<server, desktop, carried>>
    BY <1>5 DEF SuspendFails
  <2> QED BY <2>1, <2>2, AgentType
<1>6. CASE ShutDown(c)
  <2>1. Ends(c) \/ Becomes(c, "ack", 0, "done")
    BY <1>6 DEF ShutDown, Answers
  <2>2. UNCHANGED server /\ desktop' = "stopping" /\ carried' = carried \cup {c}
    BY <1>6 DEF ShutDown
  <2> QED BY <2>1, <2>2, AgentType
<1>7. CASE ShutDownFails(c) \/ LoseAck(c)
  <2>1. Ends(c) \/ Becomes(c, "ack", 0, "failed")
    BY <1>7 DEF ShutDownFails, LoseAck, Answers
  <2>2. UNCHANGED <<server, desktop, carried>>
    BY <1>7 DEF ShutDownFails, LoseAck
  <2> QED BY <2>1, <2>2, AgentType
<1> QED BY <1>1, <1>2, <1>3, <1>4, <1>5, <1>6, <1>7 DEF AgentStep

LEMMA TypeNext == TypeOK /\ [Next]_vars => TypeOK'
<1> SUFFICES ASSUME TypeOK, [Next]_vars PROVE TypeOK'
  OBVIOUS
<1> USE BoundsAssumption DEF agent
<1>0. ThreadsOK /\ HandlersOK /\ issued \in 0 .. MaxCommands
  BY DEF TypeOK
<1>1. ASSUME NEW t \in Thread, Start(t) \/ EndPhase(t) \/ StandDown(t) \/ Wake(t) \/ WaitEnds(t)
      PROVE  TypeOK'
  <2>1. /\ UNCHANGED <<file, kind, issued, agent>>
        /\ mode' \in {"idle", "monitoring_battery", "shutting_down", "desktop_handled"}
    BY <1>1 DEF Start, EndPhase, StandDown, Wake, WaitEnds, TypeOK
  <2>2. \/ UNCHANGED thread \/ Finish(t)
        \/ \E place \in {"prompt", "force", "wake", "cancel"} : Goto(t, place, 0, "none")
    BY <1>1 DEF Start, EndPhase, StandDown, Wake, WaitEnds
  <2>3. ThreadsOK'
    <3>1. CASE UNCHANGED thread
      BY <1>0, <2>1, <3>1 DEF ThreadsOK, At
    <3>2. CASE Finish(t)
      BY <1>0, <2>1, <3>2, FinishType
    <3>3. CASE \E place \in {"prompt", "force", "wake", "cancel"} : Goto(t, place, 0, "none")
      BY <1>0, <2>1, <3>3, GotoType DEF ThreadPlaces
    <3> QED BY <2>2, <3>1, <3>2, <3>3
  <2> QED BY <2>1, <2>3 DEF TypeOK, HandlersOK
<1>2. ASSUME NEW t \in Thread, Prompt(t) \/ PushShutdown(t) PROVE TypeOK'
  <2>0. Issue(t, "ups_state") \/ Issue(t, "critical_shutdown")
    BY <1>2 DEF Prompt, PushShutdown
  <2>1. PICK what \in Kinds : Issue(t, what)
    <3>1. "ups_state" \in Kinds /\ "critical_shutdown" \in Kinds
      BY DEF Kinds
    <3> QED BY <2>0, <3>1, Zenon
  <2> DEFINE c == issued + 1
  <2>2. c \in Command /\ issued' = c
    BY <1>0, <2>1 DEF Issue, Command
  <2>3. kind' \in [Command -> Kinds \cup {"none"}]
    BY <2>1, <2>2 DEF Issue, TypeOK
  <2>4. \A d \in Command : d # c => kind'[d] = kind[d]
    BY <2>1, <2>2 DEF Issue, TypeOK
  <2>5. kind'[c] = what
    BY <2>1, <2>2 DEF Issue, TypeOK
  <2>6. thread' = [thread EXCEPT ![t] = [at |-> "push", id |-> c, status |-> "none"]]
    BY <2>1 DEF Issue, Goto
  <2>7. ThreadsOK'
    <3>1. thread' \in [Thread -> [at : ThreadPlaces, id : 0 .. c, status : Statuses \cup {"none"}]]
      BY <1>0, <2>6 DEF ThreadsOK, ThreadPlaces
    <3>2. \A s \in Thread : At(s, "push")' => kind'[thread'[s].id] \in Kinds
      <4> SUFFICES ASSUME NEW s \in Thread, At(s, "push")' PROVE kind'[thread'[s].id] \in Kinds
        OBVIOUS
      <4>1. CASE s = t
        BY <1>0, <2>5, <2>6, <4>1 DEF ThreadsOK
      <4>2. CASE s # t
        <5>1. thread'[s] = thread[s] /\ kind[thread[s].id] \in Kinds
          BY <1>0, <2>6, <4>2 DEF ThreadsOK, At
        <5>2. thread[s].id \in 0 .. issued
          BY <1>0 DEF ThreadsOK
        <5>3. thread[s].id # c
          BY <1>0, <5>2
        <5>4. CASE thread[s].id \in Command
          BY <2>4, <5>1, <5>3, <5>4
        <5>5. CASE thread[s].id \notin Command
          BY <2>1, <2>3, <5>1, <5>5 DEF Issue, TypeOK
        <5> QED BY <5>4, <5>5
      <4> QED BY <4>1, <4>2
    <3>3. \A s \in Thread : At(s, "save")' => (thread[s].id)' # 0
      BY <1>0, <2>6 DEF ThreadsOK, At
    <3> QED BY <2>2, <3>1, <3>2, <3>3 DEF ThreadsOK
  <2> QED BY <2>1, <2>2, <2>3, <2>7 DEF Issue, TypeOK, HandlersOK, Statuses, Command
<1>3. ASSUME NEW t \in Thread, Push(t) \/ PushFails(t) PROVE TypeOK'
  <2> DEFINE c == thread[t].id
  <2>1. c \in 0 .. issued /\ kind[c] \in Kinds
    BY <1>0, <1>3 DEF ThreadsOK, Push, PushFails
  <2>2. UNCHANGED <<mode, file, kind, issued, desktop, carried>> /\ Pushed(t)
    BY <1>3 DEF Push, PushFails
  <2>3. ThreadsOK'
    <3>1. CASE Finish(t)
      BY <1>0, <2>2, <3>1, FinishType
    <3>2. CASE Goto(t, "wait", 0, "none")
      BY <1>0, <2>2, <3>2, GotoType DEF ThreadPlaces
    <3> QED BY <2>2, <3>1, <3>2 DEF Pushed
  <2>4. HandlersOK'
    <3>1. CASE UNCHANGED handler
      BY <1>0, <3>1 DEF HandlersOK
    <3>2. CASE \E place \in {"prompt", "ask"} : Becomes(c, place, 0, "none")
      <4>1. PICK place \in {"prompt", "ask"} : Becomes(c, place, 0, "none")
        BY <3>2
      <4>2. CASE c \in Command
        BY <1>0, <4>1, <4>2, BecomesType DEF HandlerPlaces
      <4>3. CASE c \notin Command
        BY <1>0, <4>1, <4>3 DEF HandlersOK, Becomes
      <4> QED BY <4>2, <4>3
    <3> QED BY <1>3, <3>1, <3>2 DEF Push, PushFails
  <2> QED BY <2>2, <2>3, <2>4 DEF TypeOK
<1>4. ASSUME NEW t \in Thread, CancelRead(t) PROVE TypeOK'
  <2>1. UNCHANGED <<mode, file, kind, issued, agent>>
    BY <1>4 DEF CancelRead
  <2>2. ThreadsOK'
    <3>1. CASE Finish(t)
      BY <1>0, <2>1, <3>1, FinishType
    <3>2. CASE file.status = "pending" /\ Goto(t, "save", file.id, CancelledStatus)
      <4>1. file.id \in 0 .. issued /\ file.id # 0
        BY <3>2 DEF TypeOK
      <4> QED BY <1>0, <2>1, <3>2, <4>1, GotoType DEF ThreadPlaces, CancelledStatus, Statuses
    <3> QED BY <1>4, <3>1, <3>2 DEF CancelRead
  <2> QED BY <2>1, <2>2 DEF TypeOK, HandlersOK
<1>5. ASSUME NEW t \in Thread, Save(t) PROVE TypeOK'
  <2>1. ThreadsOK'
    BY <1>0, <1>5, FinishType DEF Save
  <2>2. /\ thread[t].id \in 0 .. issued /\ thread[t].id # 0
        /\ thread[t].status \in Statuses \cup {"none"}
    BY <1>0, <1>5 DEF ThreadsOK, Save
  <2> QED BY <1>5, <2>1, <2>2 DEF Save, TypeOK, HandlersOK
<1>6. ASSUME NEW c \in Command, NEW t \in Thread, Acknowledge(c, t) PROVE TypeOK'
  <2>1. UNCHANGED <<mode, file, kind, issued, desktop, carried>> /\ HandlersOK'
    BY <1>0, <1>6, EndsType DEF Acknowledge
  <2>2. ThreadsOK'
    <3>1. CASE UNCHANGED thread
      BY <1>0, <2>1, <3>1 DEF ThreadsOK, At
    <3>2. CASE Matches(c) /\ Goto(t, "save", file.id, AckStatus(handler[c].status))
      <4>1. file.id \in 0 .. issued /\ file.id # 0
        BY <3>2 DEF TypeOK, Matches, Command
      <4>2. handler[c].status \in Statuses \cup {"none"}
        BY <1>0 DEF HandlersOK
      <4> QED BY <1>0, <2>1, <3>2, <4>1, <4>2, GotoType DEF ThreadPlaces, AckStatus
    <3> QED BY <1>6, <3>1, <3>2 DEF Acknowledge
  <2> QED BY <2>1, <2>2 DEF TypeOK
<1>7. CASE Restart
  <2>1. ThreadsOK'
    BY <1>0, <1>7 DEF Restart, ThreadsOK, Free, At, ThreadPlaces
  <2>2. file' \in [id : 0 .. issued, status : Statuses \cup {"none"}]
    BY <1>7 DEF Restart, TypeOK, Statuses
  <2>3. file'.id = 0 => file'.status = "none"
    BY <1>7 DEF Restart, TypeOK
  <2> QED BY <1>7, <2>1, <2>2, <2>3 DEF Restart, TypeOK, HandlersOK
<1>8. CASE FallAsleep \/ ComeUp
  BY <1>0, <1>8 DEF FallAsleep, ComeUp, server, TypeOK, ThreadsOK, HandlersOK, At
<1>9. CASE PowerDown
  <2>1. HandlersOK'
    BY <1>9 DEF PowerDown, HandlersOK, Gone, HandlerPlaces
  <2> QED BY <1>0, <1>9, <2>1 DEF PowerDown, server, TypeOK, ThreadsOK, At
<1>10. CASE UNCHANGED vars
  BY <1>0, <1>10 DEF vars, server, TypeOK, ThreadsOK, HandlersOK, At
<1>11. ASSUME NEW c \in Command, AgentStep(c) PROVE TypeOK'
  BY <1>6, <1>11, AgentStepType
<1>12. ASSUME NEW t \in Thread, ServerStep(t) PROVE TypeOK'
  BY <1>1, <1>2, <1>3, <1>4, <1>5, <1>12 DEF ServerStep
<1> QED BY <1>1, <1>7, <1>8, <1>9, <1>10, <1>11, <1>12 DEF Next

\* The files, the threads of the server and those of the agent hold values of
\* their types, for every number of commands, threads and tries.
THEOREM TypeCorrect == Spec => []TypeOK
  BY TypeInit, TypeNext, PTL DEF Spec

-----------------------------------------------------------------------------
(* What the unguarded writers of command.json cannot do to each other.  A  *)
(* thread of the server that holds a command it has read is going to save  *)
(* it with a status other than pending, and as done only if the agent has  *)
(* carried that command out; so is an acknowledgement on its way.          *)

SavesAreFinal ==
  /\ \A t \in Thread : At(t, "save") =>
       /\ thread[t].status \in Statuses \ {"pending"}
       /\ thread[t].status = "done" => thread[t].id \in carried
  /\ \A c \in Command : handler[c].at = "ack" =>
       /\ handler[c].status \in Statuses \ {"pending"}
       /\ handler[c].status = "done" => c \in carried

ChannelInv == SavesAreFinal /\ OnlyLatestPending /\ DoneIsDone

LEMMA ChannelInit == Init => ChannelInv
  BY DEF Init, ChannelInv, SavesAreFinal, OnlyLatestPending, DoneIsDone, Free, Gone, At

\* Steps of the agent that answer nothing, or answer what is the case.
LEMMA AgentFinal ==
  ASSUME TypeOK, ChannelInv, NEW c \in Command, UNCHANGED server,
         carried \subseteq carried',
         \/ Ends(c)
         \/ \E place \in HandlerPlaces \ {"ack"}, tries \in 0 .. MaxTries : Becomes(c, place, tries, "none")
         \/ Answers(c, "failed") \/ Answers(c, "cancelled")
         \/ Answers(c, "done") /\ c \in carried'
  PROVE  ChannelInv'
<1>1. handler'[c].at = "ack" =>
        /\ handler'[c].status \in {"failed", "cancelled", "done"}
        /\ handler'[c].status = "done" => c \in carried'
  BY DEF TypeOK, HandlersOK, Ends, Gone, Becomes, Answers
<1>2. \A d \in Command \ {c} : handler'[d] = handler[d]
  BY DEF TypeOK, HandlersOK, Ends, Becomes, Answers
<1>3. UNCHANGED <<thread, file, issued>>
  BY DEF server
<1>4. \A d \in Command : handler'[d].at = "ack" =>
        /\ handler'[d].status \in Statuses \ {"pending"}
        /\ handler'[d].status = "done" => d \in carried'
  <2> SUFFICES ASSUME NEW d \in Command, handler'[d].at = "ack"
               PROVE  /\ handler'[d].status \in Statuses \ {"pending"}
                      /\ handler'[d].status = "done" => d \in carried'
    OBVIOUS
  <2>1. CASE d = c
    <3>1. handler'[c].at = "ack"
      BY <2>1
    <3>2. {"failed", "cancelled", "done"} \subseteq Statuses \ {"pending"}
      BY DEF Statuses
    <3>3. handler'[c].status \in Statuses \ {"pending"}
      BY <1>1, <3>1, <3>2
    <3>4. handler'[c].status = "done" => c \in carried'
      BY <1>1, <3>1
    <3> QED BY <2>1, <3>3, <3>4
  <2>2. CASE d # c
    <3>1. handler[d].at = "ack" /\ handler'[d] = handler[d]
      BY <1>2, <2>2
    <3>2. /\ handler[d].status \in Statuses \ {"pending"}
          /\ handler[d].status = "done" => d \in carried
      BY <3>1 DEF ChannelInv, SavesAreFinal
    <3> QED BY <3>1, <3>2
  <2> QED BY <2>1, <2>2
<1>5. \A t \in Thread : At(t, "save")' =>
        /\ thread'[t].status \in Statuses \ {"pending"}
        /\ thread'[t].status = "done" => thread'[t].id \in carried'
  BY <1>3 DEF ChannelInv, SavesAreFinal, At
<1>6. OnlyLatestPending' /\ DoneIsDone'
  BY <1>3 DEF ChannelInv, OnlyLatestPending, DoneIsDone
<1> QED BY <1>4, <1>5, <1>6 DEF ChannelInv, SavesAreFinal

LEMMA ChannelAgentStep ==
  ASSUME TypeOK, ChannelInv, NEW c \in Command, AgentStep(c),
         ~ \E t \in Thread : Acknowledge(c, t)
  PROVE  ChannelInv'
<1> USE BoundsAssumption DEF HandlerPlaces
<1>1. CASE ChooseSleep(c) \/ ChooseShutdown(c) \/ Stumble(c) \/ PreflightError(c)
           \/ PreflightAllowed(c)
  <2>1. Ends(c) \/ \E place \in HandlerPlaces \ {"ack"}, tries \in 0 .. MaxTries :
                     Becomes(c, place, tries, "none")
    BY <1>1 DEF ChooseSleep, ChooseShutdown, Stumble, PreflightError, PreflightAllowed
  <2>2. UNCHANGED <<server, carried>>
    BY <1>1 DEF ChooseSleep, ChooseShutdown, Stumble, PreflightError, PreflightAllowed
  <2> QED BY <2>1, <2>2, AgentFinal
<1>2. CASE Dismiss(c) \/ PreflightRejected(c)
  BY <1>2, AgentFinal DEF Dismiss, PreflightRejected
<1>3. CASE Suspend(c) \/ ShutDown(c)
  BY <1>3, AgentFinal DEF Suspend, ShutDown
<1>4. CASE SuspendFails(c)
  <2>1. handler[c].tries \in 0 .. MaxTries
    BY DEF TypeOK, HandlersOK
  <2>2. \E place \in HandlerPlaces \ {"ack"}, tries \in 0 .. MaxTries :
          Becomes(c, place, tries, "none")
    <3>1. CASE TriesLeft(c)
      <4>1. handler[c].tries + 1 \in 0 .. MaxTries
        BY <2>1, <3>1 DEF TriesLeft
      <4> QED BY <1>4, <3>1, <4>1 DEF SuspendFails
    <3>2. CASE ~TriesLeft(c)
      BY <1>4, <3>2 DEF SuspendFails
    <3> QED BY <3>1, <3>2
  <2>3. UNCHANGED <<server, carried>>
    BY <1>4 DEF SuspendFails
  <2> QED BY <2>2, <2>3, AgentFinal
<1>5. CASE ShutDownFails(c) \/ LoseAck(c)
  BY <1>5, AgentFinal DEF ShutDownFails, LoseAck
<1> QED BY <1>1, <1>2, <1>3, <1>4, <1>5 DEF AgentStep

LEMMA ChannelNext == TypeOK /\ ChannelInv /\ [Next]_vars => ChannelInv'
<1> SUFFICES ASSUME TypeOK, ChannelInv, [Next]_vars PROVE ChannelInv'
  OBVIOUS
<1> USE DEF agent
<1>0. /\ issued \in Nat
      /\ \A t \in Thread : At(t, "save") => thread[t].id \in 0 .. issued
      /\ ThreadsOK
  BY BoundsAssumption DEF TypeOK, ThreadsOK
\* Steps of a server thread after which it is not about to save.
<1>a. ASSUME NEW t \in Thread, UNCHANGED <<file, issued, agent>>,
             \/ UNCHANGED thread \/ Finish(t)
             \/ \E place \in ThreadPlaces \ {"save"} : Goto(t, place, 0, "none")
      PROVE  ChannelInv'
  <2>1. \A s \in Thread : At(s, "save")' => thread'[s] = thread[s] /\ At(s, "save")
    BY <1>0, <1>a DEF ThreadsOK, Finish, Free, Goto, At
  <2> QED BY <1>a, <2>1 DEF ChannelInv, SavesAreFinal, OnlyLatestPending, DoneIsDone
<1>1. ASSUME NEW t \in Thread, Start(t) \/ EndPhase(t) \/ StandDown(t) \/ Wake(t) \/ WaitEnds(t)
      PROVE  ChannelInv'
  <2>1. UNCHANGED <<file, issued, agent>>
    BY <1>1 DEF Start, EndPhase, StandDown, Wake, WaitEnds
  <2>2. \/ UNCHANGED thread \/ Finish(t)
        \/ \E place \in {"prompt", "force", "wake", "cancel"} : Goto(t, place, 0, "none")
    BY <1>1 DEF Start, EndPhase, StandDown, Wake, WaitEnds
  <2> QED BY <1>a, <2>1, <2>2 DEF ThreadPlaces
<1>2. ASSUME NEW t \in Thread, Prompt(t) \/ PushShutdown(t) PROVE ChannelInv'
  <2>1. /\ issued' = issued + 1 /\ file' = [id |-> issued + 1, status |-> "pending"]
        /\ Goto(t, "push", issued + 1, "none") /\ UNCHANGED agent
    BY <1>2 DEF Prompt, PushShutdown, Issue
  <2>2. \A s \in Thread : At(s, "save")' => thread'[s] = thread[s] /\ At(s, "save")
    BY <1>0, <2>1 DEF ThreadsOK, Goto, At
  <2> QED BY <2>1, <2>2 DEF ChannelInv, SavesAreFinal, OnlyLatestPending, DoneIsDone
<1>3. ASSUME NEW t \in Thread, Push(t) \/ PushFails(t) PROVE ChannelInv'
  <2>1. UNCHANGED <<file, issued, carried>> /\ Pushed(t)
    BY <1>3 DEF Push, PushFails
  <2>2. \A s \in Thread : At(s, "save")' => thread'[s] = thread[s] /\ At(s, "save")
    BY <1>0, <2>1 DEF ThreadsOK, Pushed, Finish, Free, Goto, At
  <2>3. \A c \in Command : handler'[c].at = "ack" => handler'[c] = handler[c]
    BY <1>3 DEF Push, PushFails, Becomes, TypeOK, HandlersOK
  <2> QED BY <2>1, <2>2, <2>3 DEF ChannelInv, SavesAreFinal, OnlyLatestPending, DoneIsDone
<1>4. ASSUME NEW t \in Thread, CancelRead(t) PROVE ChannelInv'
  <2>1. UNCHANGED <<file, issued, agent>>
    BY <1>4 DEF CancelRead
  <2>2. \A s \in Thread : At(s, "save")' =>
          (thread'[s] = thread[s] /\ At(s, "save")) \/ thread'[s].status = "cancelled"
    BY <1>0, <1>4 DEF CancelRead, ThreadsOK, Finish, Free, Goto, At, CancelledStatus
  <2> QED BY <2>1, <2>2 DEF ChannelInv, SavesAreFinal, OnlyLatestPending, DoneIsDone, Statuses
<1>5. ASSUME NEW t \in Thread, Save(t) PROVE ChannelInv'
  <2>1. /\ file' = [id |-> thread[t].id, status |-> thread[t].status]
        /\ At(t, "save") /\ Finish(t) /\ UNCHANGED <<issued, agent>>
    BY <1>5 DEF Save
  <2>2. \A s \in Thread : At(s, "save")' => thread'[s] = thread[s] /\ At(s, "save")
    BY <1>0, <2>1 DEF ThreadsOK, Finish, Free, At
  <2> QED BY <2>1, <2>2 DEF ChannelInv, SavesAreFinal, OnlyLatestPending, DoneIsDone
<1>6. ASSUME NEW c \in Command, NEW t \in Thread, Acknowledge(c, t) PROVE ChannelInv'
  <2>1. UNCHANGED <<file, issued, carried>> /\ Ends(c) /\ handler[c].at = "ack"
    BY <1>6 DEF Acknowledge, InState
  <2>2. \A s \in Thread : At(s, "save")' =>
          \/ thread'[s] = thread[s] /\ At(s, "save")
          \/ thread'[s].id = c /\ thread'[s].status = handler[c].status
    BY <1>0, <1>6 DEF Acknowledge, Matches, AckStatus, ThreadsOK, Goto, At
  <2>3. \A d \in Command : handler'[d].at = "ack" => handler'[d] = handler[d]
    BY <2>1 DEF Ends, Gone, TypeOK, HandlersOK
  <2> QED BY <2>1, <2>2, <2>3 DEF ChannelInv, SavesAreFinal, OnlyLatestPending, DoneIsDone
<1>7. CASE Restart
  <2>1. /\ \A t \in Thread : ~At(t, "save")'
        /\ UNCHANGED <<issued, agent>>
        /\ file' = file \/ file'.status = "cancelled"
    BY <1>7 DEF Restart, Free, At, TypeOK
  <2> QED BY <2>1 DEF ChannelInv, SavesAreFinal, OnlyLatestPending, DoneIsDone
<1>8. CASE FallAsleep \/ ComeUp
  BY <1>8 DEF FallAsleep, ComeUp, server, ChannelInv, SavesAreFinal, OnlyLatestPending,
              DoneIsDone, At
<1>9. CASE PowerDown
  BY <1>9 DEF PowerDown, Gone, server, ChannelInv, SavesAreFinal, OnlyLatestPending,
              DoneIsDone, At
<1>10. CASE UNCHANGED vars
  BY <1>10 DEF vars, server, ChannelInv, SavesAreFinal, OnlyLatestPending, DoneIsDone, At
<1>11. ASSUME NEW c \in Command, AgentStep(c) PROVE ChannelInv'
  BY <1>6, <1>11, ChannelAgentStep
<1>12. ASSUME NEW t \in Thread, ServerStep(t) PROVE ChannelInv'
  BY <1>1, <1>2, <1>3, <1>4, <1>5, <1>12 DEF ServerStep
<1> QED BY <1>1, <1>7, <1>8, <1>9, <1>10, <1>11, <1>12 DEF Next

LEMMA ChannelHolds == Spec => [](TypeOK /\ ChannelInv)
<1>1. Init => TypeOK /\ ChannelInv
  BY TypeInit, ChannelInit
<1>2. TypeOK /\ ChannelInv /\ [Next]_vars => (TypeOK /\ ChannelInv)'
  BY TypeNext, ChannelNext
<1> QED BY <1>1, <1>2, PTL DEF Spec

\* Only the latest command can be pending, so a late answer to an older prompt
\* is refused, however the writers of command.json interleave.
THEOREM LatestIsPending == Spec => []OnlyLatestPending
<1>1. TypeOK /\ ChannelInv => OnlyLatestPending
  BY DEF ChannelInv
<1> QED BY <1>1, ChannelHolds, PTL

\* A command on file as done was carried out by the agent.
THEOREM DoneMeansDone == Spec => []DoneIsDone
<1>1. TypeOK /\ ChannelInv => DoneIsDone
  BY DEF ChannelInv
<1> QED BY <1>1, ChannelHolds, PTL

\* A command becomes pending only by being issued: none is pending again after
\* it was cancelled, answered or replaced.
THEOREM CommandsStayClosed == Spec => NothingComesBack
<1> DEFINE Opened == \A c \in Command :
             Pending(c)' => Pending(c) \/ (issued = c - 1 /\ issued' = c)
<1>1. TypeOK /\ ChannelInv /\ [Next]_vars => Opened
  <2> SUFFICES ASSUME TypeOK, ChannelInv, [Next]_vars, NEW c \in Command, Pending(c)'
               PROVE  Pending(c) \/ (issued = c - 1 /\ issued' = c)
    OBVIOUS
  <2>1. ASSUME UNCHANGED file PROVE Pending(c)
    BY <2>1 DEF Pending
  <2>2. ASSUME NEW t \in Thread, Prompt(t) \/ PushShutdown(t)
        PROVE  issued = c - 1 /\ issued' = c
    <3>1. issued' = issued + 1 /\ file'.id = issued + 1
      BY <2>2 DEF Prompt, PushShutdown, Issue
    <3>2. file'.id = c /\ issued \in Nat
      BY BoundsAssumption DEF Pending, TypeOK
    <3> QED BY <3>1, <3>2
  <2>3. ASSUME NEW t \in Thread, Save(t) PROVE FALSE
    BY <2>3 DEF Save, Pending, ChannelInv, SavesAreFinal
  <2>4. ASSUME Restart PROVE Pending(c)
    BY <2>4 DEF Restart, Pending, TypeOK
  <2>5. ASSUME NEW t \in Thread, ServerStep(t) PROVE UNCHANGED file \/ Prompt(t) \/ PushShutdown(t) \/ Save(t)
    BY <2>5 DEF ServerStep, Wake, Push, PushFails, WaitEnds, CancelRead
  <2>6. ASSUME NEW d \in Command, AgentStep(d) PROVE UNCHANGED file
    BY <2>6 DEF AgentStep, ChooseSleep, ChooseShutdown, Dismiss, Stumble, PreflightAllowed,
         PreflightRejected, PreflightError, Suspend, SuspendFails, ShutDown, ShutDownFails,
         LoseAck, Acknowledge, server
  <2>7. ASSUME NEW t \in Thread, Start(t) \/ EndPhase(t) \/ StandDown(t) PROVE UNCHANGED file
    BY <2>7 DEF Start, EndPhase, StandDown
  <2>8. ASSUME FallAsleep \/ PowerDown \/ ComeUp \/ UNCHANGED vars PROVE UNCHANGED file
    BY <2>8 DEF FallAsleep, PowerDown, ComeUp, vars, server
  <2> QED BY <2>1, <2>2, <2>3, <2>4, <2>5, <2>6, <2>7, <2>8 DEF Next
<1>2. Spec => [][Opened]_vars
  BY <1>1, ChannelHolds, PTL DEF Spec
<1> QED BY <1>2 DEF NothingComesBack

=============================================================================
