------------------------- MODULE PowerAgent_proofs --------------------------
(* Proofs about PowerAgent, for any number of locks, signals and late      *)
(* reports.                                                                *)
EXTENDS PowerAgent, TLAPS

main == frame["main"]
term == frame["term"]

-----------------------------------------------------------------------------
(* The inductive invariant.                                                *)

\* What a frame can be doing at each place.
FramesOK ==
  /\ main.job # "term"
  /\ main.at # "quit"
  /\ main.at \in {"inhibit", "assign"} => main.job \in TakingJobs
  /\ main.at = "subscribe" => main.job = "start"
  /\ main.at = "wait" => main.job = "resume"
  /\ Handling => term.job = "term" /\ term.at \in {"send", "drop", "close", "clear", "quit"}

\* Signals reach only an agent in its main loop.
LoopOK ==
  /\ signals # <<>> => looping
  /\ main.at \in {"idle", "wait", "close", "clear", "exit"} => looping
  /\ Alive /\ main.job # "start" => looping
  /\ ~Alive \/ (main.at = "drop" /\ main.job = "start") => fd = NoInhibitor
  /\ Handling \/ quitting => termed
  /\ Handling \/ looping \/ quitting => Alive
  /\ machine = "off" => ~Alive

\* There is at most one lock, and a frame that has closed it is about to say so.
LocksOK ==
  /\ NoLockIsLost
  /\ main.at \in {"inhibit", "assign"} => fd = NoInhibitor
  /\ main.at = "assign" => main.lock \in locks
  /\ main.at = "clear" => fd \notin locks
  /\ term.at = "clear" => fd \notin locks

\* What the agent has been told last is what the machine is doing.
GoingOK ==
  /\ Alive /\ main.job = "sleep" /\ main.at # "idle" /\ signals = <<>>
       => machine \in {"toSleep", "asleep"}
  /\ Alive /\ main.job = "shutdown" /\ main.at # "idle" /\ signals = <<>>
       => machine = "toShutdown"
  /\ \A i \in DOMAIN signals : i = Len(signals) =>
       /\ signals[i] = "sleep" => machine \in {"toSleep", "asleep"}
       /\ signals[i] = "shutdown" => machine = "toShutdown"

\* A taking job that has come through without being refused has the lock.
WaitOK ==
  /\ WaitsWithLock
  /\ main.at = "close" /\ ~termed => fd # NoInhibitor
  /\ /\ main.at \in {"send", "subscribe"} /\ main.job \in TakingJobs
     /\ ~termed /\ ~refused
     => fd \in locks

\* Between the announcement of a sleep and the report of it, the lock is held.
Holding ==
  /\ fd \in locks
  /\ ~quitting
  /\ term.at \in {"none", "send"}
  /\ \/ main.at = "idle" /\ signals = <<"sleep">>
     \/ main.at = "send" /\ main.job = "sleep"
SleepOK == watched /\ machine = "toSleep" /\ ~told => Holding

\* What follows a sleep.
SleepsThenResumes(q) ==
  \A i \in DOMAIN q : q[i] = "sleep" /\ i < Len(q) => q[i + 1] = "resume"

\* After an announced sleep, in the queue or to come, is the resume of it.
NextIsResume ==
  IF signals = <<>> THEN machine \in {"toSleep", "asleep"} ELSE Head(signals) = "resume"
ResumeOK ==
  /\ SleepsThenResumes(signals)
  /\ Alive /\ main.job = "sleep" /\ main.at # "idle" => NextIsResume

\* A server that takes the desktop for gone is about to hear that it is not.
BackOnItsWay ==
  \/ main.job = "start" /\ main.at \in {"drop", "inhibit", "assign", "send"}
  \/ main.job = "resume" /\ main.at # "idle"
  \/ (main.job = "sleep" \/ main.at = "idle") /\ NextIsResume
KnownOK ==
  Alive /\ ~termed /\ through /\ heard \in {"suspended", "offline"} => BackOnItsWay

Inv ==
  /\ TypeOK /\ FramesOK /\ LoopOK /\ LocksOK /\ GoingOK /\ WaitOK /\ SleepOK
  /\ ResumeOK /\ KnownOK

-----------------------------------------------------------------------------
(* Types.                                                                  *)

Frame == [job : Jobs, at : Places, tries : 0 .. MaxRetries, lock : Inhibitor \cup {NoInhibitor}]

LEMMA BeginType ==
  ASSUME NEW job \in Jobs
  PROVE  Begin(job) \in Frame /\ (Begin(job).at = "send" => Begin(job).job \in ReportingJobs)
  BY DEF Begin, First, Frame, Jobs, Signals, ReportingJobs, Retries, MaxRetries, Places

LEMMA NoneType == None \in Frame /\ None.at # "send"
  BY DEF None, Frame, Jobs, MaxRetries, Places

LEMMA SetType ==
  ASSUME FramesTyped, NEW f \in Frames, NEW r \in Frame,
         r.at = "send" => r.job \in ReportingJobs, frame' = [frame EXCEPT ![f] = r]
  PROVE  FramesTyped'
  BY DEF FramesTyped, Frame

LEMMA GotoType ==
  ASSUME FramesTyped, NEW f \in Frames, NEW place \in Places, Goto(f, place),
         place = "send" => frame[f].job \in ReportingJobs
  PROVE  FramesTyped'
<1>1. [frame[f] EXCEPT !.at = place, !.lock = NoInhibitor] \in Frame
  BY DEF FramesTyped, Frame
<1>2. frame' = [frame EXCEPT ![f] = [frame[f] EXCEPT !.at = place, !.lock = NoInhibitor]]
  BY DEF Goto, FramesTyped
<1> QED BY <1>1, <1>2, SetType DEF FramesTyped, Frame

LEMMA AfterDropType ==
  ASSUME NEW job PROVE AfterDrop(job) \in Places \ {"send"}
  BY DEF AfterDrop, Places

\* After the last try of a report.
LEMMA AfterSendType ==
  ASSUME FramesTyped, NEW f \in Frames,
         frame' = [frame EXCEPT ![f].at = AfterSend(frame[f].job), ![f].tries = 0]
  PROVE  FramesTyped'
<1>1. AfterSend(frame[f].job) \in Places \ {"send"}
  BY DEF AfterSend, Places
<1>2. [frame[f] EXCEPT !.at = AfterSend(frame[f].job), !.tries = 0] \in Frame
  <2>1. 0 \in 0 .. MaxRetries
    BY DEF MaxRetries
  <2> QED BY <1>1, <2>1 DEF FramesTyped, Frame
<1>3. frame' = [frame EXCEPT ![f] = [frame[f] EXCEPT !.at = AfterSend(frame[f].job), !.tries = 0]]
  BY DEF FramesTyped
<1> QED BY <1>1, <1>2, <1>3, SetType DEF FramesTyped, Frame

LEMMA EndedType ==
  ASSUME TypeOK, Ended, UNCHANGED <<server, refused, termed, told, through>>,
         machine' \in {machine, "off"}, watched' \in {watched, FALSE}
  PROVE  TypeOK'
<1>1. FramesTyped'
  BY NoneType DEF Ended, FramesTyped, Frame
<1>2. signals' \in Seq(Signals) /\ Len(signals') <= MaxSignals
  BY BoundsAssumption DEF Ended
<1> QED BY <1>1, <1>2 DEF TypeOK, Ended, server

LEMMA QueuedType ==
  ASSUME signals \in Seq(Signals), Len(signals) <= MaxSignals, NEW s \in Signals, Queued(s)
  PROVE  signals' \in Seq(Signals) /\ Len(signals') <= MaxSignals
  BY BoundsAssumption DEF Queued

LEMMA TypeInit == Init => TypeOK
<1> SUFFICES ASSUME Init PROVE TypeOK
  OBVIOUS
<1>1. FramesTyped
  BY BeginType, NoneType DEF Init, FramesTyped, Frame, Frames, Jobs
<1>2. signals \in Seq(Signals) /\ Len(signals) <= MaxSignals
  BY BoundsAssumption DEF Init
<1> QED BY <1>1, <1>2 DEF Init, TypeOK

\* Every step keeps the types.
LEMMA TypeOKNext == Inv /\ [Next]_vars => TypeOK'
<1> SUFFICES ASSUME Inv, [Next]_vars PROVE TypeOK'
  OBVIOUS
<1> USE BoundsAssumption DEF logind, agent, server, history, vars, Inv, TypeOK
<1>1. ASSUME NEW f \in Frames, SendOk(f) PROVE TypeOK'
  <2>1. FramesTyped'
    BY <1>1, AfterSendType DEF SendOk, Sent, At, FramesTyped
  <2> QED BY <1>1, <2>1 DEF SendOk, Sent, At, Report, Statuses, FramesTyped
<1>2. ASSUME NEW f \in Frames, SendFails(f) PROVE TypeOK'
  <2>1. FramesTyped'
    <3>1. CASE LastTry(f)
      BY <1>2, <3>1, AfterSendType DEF SendFails, Sent, At, FramesTyped
    <3>2. CASE ~LastTry(f)
      <4>1. frame' = [frame EXCEPT ![f] = [frame[f] EXCEPT !.tries = frame[f].tries - 1]]
        BY <1>2, <3>2 DEF SendFails, FramesTyped
      <4>2. [frame[f] EXCEPT !.tries = frame[f].tries - 1] \in Frame
        BY <3>2 DEF LastTry, FramesTyped, Frame, MaxRetries
      <4> QED BY <4>1, <4>2, SetType DEF FramesTyped, Frame
    <3> QED BY <3>1, <3>2
  <2>2. late' \subseteq Statuses /\ heard' \in Statuses /\ told' \in BOOLEAN
    BY <1>2 DEF SendFails, Sent, At, Report, Statuses, FramesTyped
  <2> QED BY <1>2, <2>1, <2>2 DEF SendFails
<1>3. ASSUME NEW f \in Frames, Drop(f) PROVE TypeOK'
  <2>1. FramesTyped'
    BY <1>3, AfterDropType, GotoType DEF Drop, At, FramesTyped, Places
  <2> QED BY <1>3, <2>1 DEF Drop
<1>4. ASSUME NEW f \in Frames, Close(f) PROVE TypeOK'
  <2>1. FramesTyped'
    BY <1>4, GotoType DEF Close, Places
  <2> QED BY <1>4, <2>1 DEF Close
<1>5. ASSUME NEW f \in Frames, Clear(f) PROVE TypeOK'
  <2>1. FramesTyped'
    BY <1>5, AfterDropType, GotoType DEF Clear, At, FramesTyped, Places
  <2> QED BY <1>5, <2>1 DEF Clear
<1>6. CASE CloseRaises
  <2>1. FramesTyped'
    BY <1>6, GotoType DEF CloseRaises, Places, Frames
  <2> QED BY <1>6, <2>1 DEF CloseRaises
<1>7. CASE InhibitGranted
  <2>1. PICK l \in Inhibitor \ locks :
               /\ locks' = locks \cup {l}
               /\ frame' = [frame EXCEPT !["main"].at = "assign", !["main"].lock = l]
    BY <1>7 DEF InhibitGranted
  <2>2. [main EXCEPT !.at = "assign", !.lock = l] \in Frame
    BY DEF FramesTyped, Frame, Frames, Places, main
  <2>3. frame' = [frame EXCEPT !["main"] = [main EXCEPT !.at = "assign", !.lock = l]]
    BY <2>1 DEF FramesTyped, Frames, main
  <2>4. FramesTyped'
    BY <2>2, <2>3, SetType DEF Frames, Frame
  <2> QED BY <1>7, <2>1, <2>4 DEF InhibitGranted
<1>8. CASE InhibitRefused
  <2>1. FramesTyped'
    BY <1>8, GotoType DEF InhibitRefused, At, AfterTake, TakingJobs, ReportingJobs, FramesOK, main, Places, Frames
  <2> QED BY <1>8, <2>1 DEF InhibitRefused
<1>9. CASE Assign
  <2>1. FramesTyped'
    BY <1>9, GotoType DEF Assign, At, AfterTake, TakingJobs, ReportingJobs, FramesOK, main, Places, Frames
  <2> QED BY <1>9, <2>1 DEF Assign, FramesTyped, Frames
<1>10. CASE Subscribe
  <2>1. FramesTyped'
    BY <1>10, GotoType DEF Subscribe, Places, Frames
  <2> QED BY <1>10, <2>1 DEF Subscribe
<1>11. CASE Dispatch
  <2>1. Head(signals) \in Jobs
    BY <1>11 DEF Dispatch, Jobs
  <2>2. FramesTyped'
    BY <1>11, <2>1, BeginType, SetType DEF Dispatch, Frames
  <2> QED BY <1>11, <2>2 DEF Dispatch
<1>12. CASE NetworkWait
  <2>1. FramesTyped'
    BY <1>12, GotoType DEF NetworkWait, Places, Frames
  <2> QED BY <1>12, <2>1 DEF NetworkWait
<1>13. CASE LoopEnds
  <2>1. FramesTyped'
    BY <1>13, BeginType, SetType DEF LoopEnds, Frames, Jobs
  <2> QED BY <1>13, <2>1 DEF LoopEnds
<1>14. CASE Exit
  BY <1>14, EndedType DEF Exit
<1>15. CASE Quit
  <2>1. FramesTyped'
    BY <1>15, NoneType, SetType DEF Quit, Frames
  <2> QED BY <1>15, <2>1 DEF Quit, TakesNotice
<1>16. CASE AnnounceSleep
  BY <1>16, QueuedType DEF AnnounceSleep, Announced, OnWatch, FramesTyped, Signals
<1>17. CASE FallAsleep
  BY <1>17 DEF FallAsleep, FramesTyped, Statuses, Report, ReportingJobs
<1>18. CASE WakeUp
  BY <1>18, QueuedType DEF WakeUp, FramesTyped, Signals
<1>19. CASE AnnounceShutdown
  BY <1>19, QueuedType DEF AnnounceShutdown, Announced, FramesTyped, Signals
<1>20. CASE CallOff
  BY <1>20, QueuedType DEF CallOff, FramesTyped, Signals
<1>21. CASE PowerOff
  BY <1>21, EndedType DEF PowerOff
<1>22. CASE Boot
  BY <1>22 DEF Boot, FramesTyped, Statuses, Report, ReportingJobs
<1>23. CASE Poll
  BY <1>23 DEF Poll, FramesTyped, Statuses, Report, ReportingJobs
<1>24. ASSUME NEW status \in Statuses, HandleLate(status) PROVE TypeOK'
  BY <1>24 DEF HandleLate, FramesTyped, Statuses, Report, ReportingJobs
<1>25. CASE Terminate
  <2>1. FramesTyped'
    BY <1>25, BeginType, SetType DEF Terminate, Frames, Jobs
  <2> QED BY <1>25, <2>1 DEF Terminate
<1>26. CASE Kill
  BY <1>26, EndedType DEF Kill
<1>27. CASE Launch
  <2>1. FramesTyped'
    BY <1>27, BeginType, SetType DEF Launch, Frames, Jobs
  <2> QED BY <1>27, <2>1 DEF Launch
<1>28. CASE UNCHANGED vars
  BY <1>28 DEF FramesTyped
<1> QED
  BY <1>1, <1>2, <1>3, <1>4, <1>5, <1>6, <1>7, <1>8, <1>9, <1>10, <1>11, <1>12, <1>13, <1>14,
     <1>15, <1>16, <1>17, <1>18, <1>19, <1>20, <1>21, <1>22, <1>23, <1>24, <1>25, <1>26, <1>27, <1>28
  DEF Next, AgentStep, FrameStep, LogindStep, ServerStep

-----------------------------------------------------------------------------
(* The queue of signals.                                                   *)

LEMMA NothingOrder == SleepsThenResumes(<<>>)
  BY DEF SleepsThenResumes

\* A signal at the end of the queue leaves the head where it is.
LEMMA QueuedOrder ==
  ASSUME signals \in Seq(Signals), NEW s \in Signals, Queued(s), SleepsThenResumes(signals),
         signals # <<>> /\ signals[Len(signals)] = "sleep" => s = "resume"
  PROVE  /\ SleepsThenResumes(signals')
         /\ signals # <<>> => signals' # <<>> /\ Head(signals') = Head(signals)
         /\ signals = <<>> /\ looping => signals' # <<>> /\ Head(signals') = s
<1>1. CASE ~looping
  BY <1>1 DEF Queued, SleepsThenResumes
<1>2. CASE looping
  <2>1. signals' = Append(signals, s)
    BY <1>2 DEF Queued
  <2>2. /\ Len(signals') = Len(signals) + 1 /\ signals'[Len(signals) + 1] = s
        /\ \A i \in 1 .. Len(signals) : signals'[i] = signals[i]
        /\ DOMAIN signals' = 1 .. Len(signals) + 1
    BY <2>1
  <2>3. SleepsThenResumes(signals')
    <3> SUFFICES ASSUME NEW i \in DOMAIN signals', signals'[i] = "sleep", i < Len(signals')
                 PROVE  signals'[i + 1] = "resume"
      BY DEF SleepsThenResumes
    <3>1. i \in 1 .. Len(signals) /\ signals[i] = "sleep"
      BY <2>2
    <3>2. CASE i < Len(signals)
      BY <2>2, <3>1, <3>2 DEF SleepsThenResumes
    <3>3. CASE i = Len(signals)
      BY <2>2, <3>1, <3>3
    <3> QED BY <3>1, <3>2, <3>3
  <2> QED BY <2>1, <2>2, <2>3, <1>2
<1> QED BY <1>1, <1>2

\* What is left when the head has been taken.
LEMMA TakenOrder ==
  ASSUME signals \in Seq(Signals), signals # <<>>, SleepsThenResumes(signals),
         signals' = Tail(signals)
  PROVE  /\ SleepsThenResumes(signals')
         /\ Head(signals) = "sleep" /\ signals' # <<>> => Head(signals') = "resume"
         /\ signals' = <<>> => signals[Len(signals)] = Head(signals)
         /\ signals' # <<>> => signals'[Len(signals')] = signals[Len(signals)]
<1>1. /\ Len(signals') = Len(signals) - 1 /\ Len(signals) \in Nat \ {0}
      /\ \A i \in 1 .. Len(signals) - 1 : signals'[i] = signals[i + 1]
      /\ DOMAIN signals' = 1 .. Len(signals) - 1
  OBVIOUS
<1>2. SleepsThenResumes(signals')
  <2> SUFFICES ASSUME NEW i \in DOMAIN signals', signals'[i] = "sleep", i < Len(signals')
               PROVE  signals'[i + 1] = "resume"
    BY DEF SleepsThenResumes
  <2>1. signals[i + 1] = "sleep" /\ i + 1 \in DOMAIN signals /\ i + 1 < Len(signals)
    BY <1>1
  <2>2. signals[i + 2] = "resume"
    BY <1>1, <2>1 DEF SleepsThenResumes
  <2> QED BY <1>1, <2>1, <2>2
<1>3. Head(signals) = "sleep" /\ signals' # <<>> => Head(signals') = "resume"
  <2> SUFFICES ASSUME signals[1] = "sleep", Len(signals) > 1 PROVE signals[2] = "resume"
    BY <1>1
  <2> QED BY <1>1 DEF SleepsThenResumes
<1>4. signals' = <<>> => signals[Len(signals)] = Head(signals)
  <2> SUFFICES ASSUME signals' = <<>> PROVE Len(signals) = 1
    OBVIOUS
  <2>1. DOMAIN signals' = {}
    OBVIOUS
  <2>2. 1 \notin 1 .. Len(signals) - 1
    BY <1>1, <2>1
  <2>3. ASSUME NEW n \in Nat \ {0}, 1 \notin 1 .. n - 1 PROVE n = 1
    BY <2>3
  <2> QED BY <1>1, <2>2, <2>3
<1>5. signals' # <<>> => signals'[Len(signals')] = signals[Len(signals)]
  <2> SUFFICES ASSUME signals' # <<>> PROVE signals'[Len(signals')] = signals[Len(signals)]
    OBVIOUS
  <2>1. Len(signals') # 0 /\ Len(signals') \in Nat
    OBVIOUS
  <2> QED BY <1>1, <2>1
<1> QED BY <1>2, <1>3, <1>4, <1>5

-----------------------------------------------------------------------------
(* The other parts of the invariant, one lemma each.                       *)

\* Every step leaves each frame at a place of its job.
LEMMA FramesOKNext == Inv /\ [Next]_vars => FramesOK'
<1> SUFFICES ASSUME Inv, [Next]_vars PROVE FramesOK'
  OBVIOUS
<1> USE DEF logind, agent, server, history, vars, Frames, main, term, Alive, Handling, At, Running, Inv, TypeOK, FramesTyped, FramesOK, Signals, TakingJobs, First, AfterTake, AfterDrop, AfterSend
<1>1. ASSUME NEW f \in Frames, SendOk(f) PROVE FramesOK'
  BY <1>1 DEF SendOk, Sent
<1>2. ASSUME NEW f \in Frames, SendFails(f) PROVE FramesOK'
  BY <1>2 DEF SendFails, Sent, LastTry
<1>3. ASSUME NEW f \in Frames, Drop(f) PROVE FramesOK'
  BY <1>3 DEF Drop, Goto
<1>4. ASSUME NEW f \in Frames, Close(f) PROVE FramesOK'
  BY <1>4 DEF Close, Goto
<1>5. ASSUME NEW f \in Frames, Clear(f) PROVE FramesOK'
  BY <1>5 DEF Clear, Goto
<1>6. CASE CloseRaises
  BY <1>6 DEF CloseRaises, Goto
<1>7. CASE InhibitGranted
  BY <1>7 DEF InhibitGranted
<1>8. CASE InhibitRefused
  BY <1>8 DEF InhibitRefused, Goto
<1>9. CASE Assign
  BY <1>9 DEF Assign, Goto
<1>10. CASE Subscribe
  BY <1>10 DEF Subscribe, Goto
<1>11. CASE Dispatch
  BY <1>11 DEF Dispatch, Begin
<1>12. CASE NetworkWait
  BY <1>12 DEF NetworkWait, Goto
<1>13. CASE LoopEnds
  BY <1>13 DEF LoopEnds, Begin
<1>14. CASE Exit
  BY <1>14 DEF Exit, Ended, None
<1>15. CASE Quit
  BY <1>15 DEF Quit, None, TakesNotice
<1>16. CASE AnnounceSleep
  BY <1>16 DEF AnnounceSleep, Announced, Queued, OnWatch
<1>17. CASE FallAsleep
  BY <1>17 DEF FallAsleep
<1>18. CASE WakeUp
  BY <1>18 DEF WakeUp, Queued
<1>19. CASE AnnounceShutdown
  BY <1>19 DEF AnnounceShutdown, Announced, Queued
<1>20. CASE CallOff
  BY <1>20 DEF CallOff, Queued
<1>21. CASE PowerOff
  BY <1>21 DEF PowerOff, Ended, None
<1>22. CASE Boot
  BY <1>22 DEF Boot
<1>23. CASE Poll
  BY <1>23 DEF Poll
<1>24. ASSUME NEW status \in Statuses, HandleLate(status) PROVE FramesOK'
  BY <1>24 DEF HandleLate
<1>25. CASE Terminate
  BY <1>25 DEF Terminate, Begin
<1>26. CASE Kill
  BY <1>26 DEF Kill, Ended, None
<1>27. CASE Launch
  BY <1>27 DEF Launch, Begin
<1>28. CASE UNCHANGED vars
  BY <1>28
<1> QED
  BY <1>1, <1>2, <1>3, <1>4, <1>5, <1>6, <1>7, <1>8, <1>9, <1>10, <1>11, <1>12, <1>13, <1>14,
     <1>15, <1>16, <1>17, <1>18, <1>19, <1>20, <1>21, <1>22, <1>23, <1>24, <1>25, <1>26, <1>27, <1>28
  DEF Next, AgentStep, FrameStep, LogindStep, ServerStep

\* Every step respects the order of subscribing, of being told to stop, of ending.
LEMMA LoopOKNext == Inv /\ [Next]_vars => LoopOK'
<1> SUFFICES ASSUME Inv, [Next]_vars PROVE LoopOK'
  OBVIOUS
<1> USE DEF logind, agent, server, history, vars, Frames, main, term, Alive, Handling, At, Running, Inv, TypeOK, FramesTyped, FramesOK, LoopOK, Signals, TakingJobs, First, AfterTake, AfterDrop, AfterSend
<1>1. ASSUME NEW f \in Frames, SendOk(f) PROVE LoopOK'
  BY <1>1 DEF SendOk, Sent
<1>2. ASSUME NEW f \in Frames, SendFails(f) PROVE LoopOK'
  BY <1>2 DEF SendFails, Sent, LastTry
<1>3. ASSUME NEW f \in Frames, Drop(f) PROVE LoopOK'
  BY <1>3 DEF Drop, Goto
<1>4. ASSUME NEW f \in Frames, Close(f) PROVE LoopOK'
  BY <1>4 DEF Close, Goto
<1>5. ASSUME NEW f \in Frames, Clear(f) PROVE LoopOK'
  BY <1>5 DEF Clear, Goto
<1>6. CASE CloseRaises
  BY <1>6 DEF CloseRaises, Goto
<1>7. CASE InhibitGranted
  BY <1>7 DEF InhibitGranted
<1>8. CASE InhibitRefused
  BY <1>8 DEF InhibitRefused, Goto
<1>9. CASE Assign
  BY <1>9 DEF Assign, Goto
<1>10. CASE Subscribe
  BY <1>10 DEF Subscribe, Goto
<1>11. CASE Dispatch
  BY <1>11 DEF Dispatch, Begin
<1>12. CASE NetworkWait
  BY <1>12 DEF NetworkWait, Goto
<1>13. CASE LoopEnds
  BY <1>13 DEF LoopEnds, Begin
<1>14. CASE Exit
  BY <1>14 DEF Exit, Ended, None
<1>15. CASE Quit
  BY <1>15 DEF Quit, None, TakesNotice
<1>16. CASE AnnounceSleep
  BY <1>16 DEF AnnounceSleep, Announced, Queued, OnWatch
<1>17. CASE FallAsleep
  BY <1>17 DEF FallAsleep
<1>18. CASE WakeUp
  BY <1>18 DEF WakeUp, Queued
<1>19. CASE AnnounceShutdown
  BY <1>19 DEF AnnounceShutdown, Announced, Queued
<1>20. CASE CallOff
  BY <1>20 DEF CallOff, Queued
<1>21. CASE PowerOff
  BY <1>21 DEF PowerOff, Ended, None
<1>22. CASE Boot
  BY <1>22 DEF Boot
<1>23. CASE Poll
  BY <1>23 DEF Poll
<1>24. ASSUME NEW status \in Statuses, HandleLate(status) PROVE LoopOK'
  BY <1>24 DEF HandleLate
<1>25. CASE Terminate
  BY <1>25 DEF Terminate, Begin
<1>26. CASE Kill
  BY <1>26 DEF Kill, Ended, None
<1>27. CASE Launch
  BY <1>27 DEF Launch, Begin
<1>28. CASE UNCHANGED vars
  BY <1>28
<1> QED
  BY <1>1, <1>2, <1>3, <1>4, <1>5, <1>6, <1>7, <1>8, <1>9, <1>10, <1>11, <1>12, <1>13, <1>14,
     <1>15, <1>16, <1>17, <1>18, <1>19, <1>20, <1>21, <1>22, <1>23, <1>24, <1>25, <1>26, <1>27, <1>28
  DEF Next, AgentStep, FrameStep, LogindStep, ServerStep

\* A lock is closed before the field is cleared, and assigned only to a cleared field.
LEMMA LocksOKNext == Inv /\ [Next]_vars => LocksOK'
<1> SUFFICES ASSUME Inv, [Next]_vars PROVE LocksOK'
  OBVIOUS
<1> USE InhibitorAssumption DEF logind, agent, server, history, vars, Frames, main, term, Alive, Handling, At, Running, Inv, TypeOK, FramesTyped, FramesOK, LoopOK, LocksOK, NoLockIsLost, Signals, TakingJobs, First, AfterTake, AfterDrop, AfterSend
<1>1. ASSUME NEW f \in Frames, SendOk(f) PROVE LocksOK'
  BY <1>1 DEF SendOk, Sent
<1>2. ASSUME NEW f \in Frames, SendFails(f) PROVE LocksOK'
  BY <1>2 DEF SendFails, Sent, LastTry
<1>3. ASSUME NEW f \in Frames, Drop(f) PROVE LocksOK'
  BY <1>3 DEF Drop, Goto
<1>4. ASSUME NEW f \in Frames, Close(f) PROVE LocksOK'
  BY <1>4 DEF Close, Goto
<1>5. ASSUME NEW f \in Frames, Clear(f) PROVE LocksOK'
  BY <1>5 DEF Clear, Goto
<1>6. CASE CloseRaises
  BY <1>6 DEF CloseRaises, Goto
<1>7. CASE InhibitGranted
  BY <1>7 DEF InhibitGranted
<1>8. CASE InhibitRefused
  BY <1>8 DEF InhibitRefused, Goto
<1>9. CASE Assign
  BY <1>9 DEF Assign, Goto
<1>10. CASE Subscribe
  BY <1>10 DEF Subscribe, Goto
<1>11. CASE Dispatch
  BY <1>11 DEF Dispatch, Begin
<1>12. CASE NetworkWait
  BY <1>12 DEF NetworkWait, Goto
<1>13. CASE LoopEnds
  BY <1>13 DEF LoopEnds, Begin
<1>14. CASE Exit
  BY <1>14 DEF Exit, Ended, None
<1>15. CASE Quit
  BY <1>15 DEF Quit, None, TakesNotice
<1>16. CASE AnnounceSleep
  BY <1>16 DEF AnnounceSleep, Announced, Queued, OnWatch
<1>17. CASE FallAsleep
  BY <1>17 DEF FallAsleep
<1>18. CASE WakeUp
  BY <1>18 DEF WakeUp, Queued
<1>19. CASE AnnounceShutdown
  BY <1>19 DEF AnnounceShutdown, Announced, Queued
<1>20. CASE CallOff
  BY <1>20 DEF CallOff, Queued
<1>21. CASE PowerOff
  BY <1>21 DEF PowerOff, Ended, None
<1>22. CASE Boot
  BY <1>22 DEF Boot
<1>23. CASE Poll
  BY <1>23 DEF Poll
<1>24. ASSUME NEW status \in Statuses, HandleLate(status) PROVE LocksOK'
  BY <1>24 DEF HandleLate
<1>25. CASE Terminate
  BY <1>25 DEF Terminate, Begin
<1>26. CASE Kill
  BY <1>26 DEF Kill, Ended, None
<1>27. CASE Launch
  BY <1>27 DEF Launch, Begin
<1>28. CASE UNCHANGED vars
  BY <1>28
<1> QED
  BY <1>1, <1>2, <1>3, <1>4, <1>5, <1>6, <1>7, <1>8, <1>9, <1>10, <1>11, <1>12, <1>13, <1>14,
     <1>15, <1>16, <1>17, <1>18, <1>19, <1>20, <1>21, <1>22, <1>23, <1>24, <1>25, <1>26, <1>27, <1>28
  DEF Next, AgentStep, FrameStep, LogindStep, ServerStep

\* An announcement is queued by the same step that changes what the machine does.
LEMMA GoingOKNext == Inv /\ [Next]_vars => GoingOK'
<1> SUFFICES ASSUME Inv, [Next]_vars PROVE GoingOK'
  OBVIOUS
<1> USE DEF logind, agent, server, history, vars, Frames, main, term, Alive, Handling, At, Running, Inv, TypeOK, FramesTyped, FramesOK, LoopOK, GoingOK, Signals, TakingJobs, First, AfterTake, AfterDrop, AfterSend
<1>1. ASSUME NEW f \in Frames, SendOk(f) PROVE GoingOK'
  BY <1>1 DEF SendOk, Sent
<1>2. ASSUME NEW f \in Frames, SendFails(f) PROVE GoingOK'
  BY <1>2 DEF SendFails, Sent, LastTry
<1>3. ASSUME NEW f \in Frames, Drop(f) PROVE GoingOK'
  BY <1>3 DEF Drop, Goto
<1>4. ASSUME NEW f \in Frames, Close(f) PROVE GoingOK'
  BY <1>4 DEF Close, Goto
<1>5. ASSUME NEW f \in Frames, Clear(f) PROVE GoingOK'
  BY <1>5 DEF Clear, Goto
<1>6. CASE CloseRaises
  BY <1>6 DEF CloseRaises, Goto
<1>7. CASE InhibitGranted
  BY <1>7 DEF InhibitGranted
<1>8. CASE InhibitRefused
  BY <1>8 DEF InhibitRefused, Goto
<1>9. CASE Assign
  BY <1>9 DEF Assign, Goto
<1>10. CASE Subscribe
  BY <1>10 DEF Subscribe, Goto
<1>11. CASE Dispatch
  <2>1. signals # <<>> /\ signals' = Tail(signals) /\ UNCHANGED machine
    BY <1>11 DEF Dispatch
  <2>2. main'.job = Head(signals)
    BY <1>11 DEF Dispatch, Begin
  <2>3. /\ signals' = <<>> => signals[Len(signals)] = Head(signals)
        /\ signals' # <<>> => signals'[Len(signals')] = signals[Len(signals)]
    BY <2>1, TakenOrder DEF ResumeOK
  <2> HIDE DEF At, Running, FramesTyped
  <2> QED BY <2>1, <2>2, <2>3
<1>12. CASE NetworkWait
  BY <1>12 DEF NetworkWait, Goto
<1>13. CASE LoopEnds
  BY <1>13 DEF LoopEnds, Begin
<1>14. CASE Exit
  BY <1>14 DEF Exit, Ended, None
<1>15. CASE Quit
  BY <1>15 DEF Quit, None, TakesNotice
<1>16. CASE AnnounceSleep
  BY <1>16 DEF AnnounceSleep, Announced, Queued, OnWatch
<1>17. CASE FallAsleep
  BY <1>17 DEF FallAsleep
<1>18. CASE WakeUp
  BY <1>18 DEF WakeUp, Queued
<1>19. CASE AnnounceShutdown
  BY <1>19 DEF AnnounceShutdown, Announced, Queued
<1>20. CASE CallOff
  BY <1>20 DEF CallOff, Queued
<1>21. CASE PowerOff
  BY <1>21 DEF PowerOff, Ended, None
<1>22. CASE Boot
  BY <1>22 DEF Boot
<1>23. CASE Poll
  BY <1>23 DEF Poll
<1>24. ASSUME NEW status \in Statuses, HandleLate(status) PROVE GoingOK'
  BY <1>24 DEF HandleLate
<1>25. CASE Terminate
  BY <1>25 DEF Terminate, Begin
<1>26. CASE Kill
  BY <1>26 DEF Kill, Ended, None
<1>27. CASE Launch
  BY <1>27 DEF Launch, Begin
<1>28. CASE UNCHANGED vars
  BY <1>28
<1> QED
  BY <1>1, <1>2, <1>3, <1>4, <1>5, <1>6, <1>7, <1>8, <1>9, <1>10, <1>11, <1>12, <1>13, <1>14,
     <1>15, <1>16, <1>17, <1>18, <1>19, <1>20, <1>21, <1>22, <1>23, <1>24, <1>25, <1>26, <1>27, <1>28
  DEF Next, AgentStep, FrameStep, LogindStep, ServerStep

\* The lock taken by a job is still held when the job is over.
LEMMA WaitOKNext == Inv /\ [Next]_vars => WaitOK'
<1> SUFFICES ASSUME Inv, [Next]_vars PROVE WaitOK'
  OBVIOUS
<1> USE InhibitorAssumption DEF logind, agent, server, history, vars, Frames, main, term, Alive, Handling, At, Running, Inv, TypeOK, FramesTyped, FramesOK, LoopOK, LocksOK, GoingOK, WaitOK, WaitsWithLock, Signals, TakingJobs, First, AfterTake, AfterDrop, AfterSend
<1>1. ASSUME NEW f \in Frames, SendOk(f) PROVE WaitOK'
  BY <1>1 DEF SendOk, Sent
<1>2. ASSUME NEW f \in Frames, SendFails(f) PROVE WaitOK'
  BY <1>2 DEF SendFails, Sent, LastTry
<1>3. ASSUME NEW f \in Frames, Drop(f) PROVE WaitOK'
  <2>1. CASE f = "main"
    <3>1. main.job \in Jobs \ {"term"} /\ Alive
      BY <1>3, <2>1 DEF Drop
    <3>2. main'.at = "close" => fd' # NoInhibitor
      BY <1>3, <2>1, <3>1 DEF Drop, Goto, Jobs
    <3>3. main'.at = "idle" => main.job \in {"sleep", "shutdown"}
      BY <1>3, <2>1, <3>1 DEF Drop, Goto, Jobs
    <3>4. main'.at \notin {"send", "subscribe"}
      BY <1>3, <2>1, <3>1 DEF Drop, Goto, Jobs
    <3>5. UNCHANGED <<signals, machine>> /\ main.at # "idle"
      BY <1>3, <2>1 DEF Drop
    <3> QED BY <3>1, <3>2, <3>3, <3>4, <3>5
  <2>2. CASE f = "term"
    BY <1>3, <2>2 DEF Drop, Goto
  <2> QED BY <2>1, <2>2
<1>4. ASSUME NEW f \in Frames, Close(f) PROVE WaitOK'
  BY <1>4 DEF Close, Goto
<1>5. ASSUME NEW f \in Frames, Clear(f) PROVE WaitOK'
  <2>1. CASE f = "main"
    <3>1. main.job \in Jobs \ {"term"} /\ Alive
      BY <1>5, <2>1 DEF Clear
    <3>2. main'.at = "close" => fd' # NoInhibitor
      BY <1>5, <2>1, <3>1 DEF Clear, Goto, Jobs
    <3>3. main'.at = "idle" => main.job \in {"sleep", "shutdown"}
      BY <1>5, <2>1, <3>1 DEF Clear, Goto, Jobs
    <3>4. main'.at \notin {"send", "subscribe"}
      BY <1>5, <2>1, <3>1 DEF Clear, Goto, Jobs
    <3>5. UNCHANGED <<signals, machine>> /\ main.at # "idle"
      BY <1>5, <2>1 DEF Clear
    <3> QED BY <3>1, <3>2, <3>3, <3>4, <3>5
  <2>2. CASE f = "term"
    BY <1>5, <2>2 DEF Clear, Goto
  <2> QED BY <2>1, <2>2
<1>6. CASE CloseRaises
  BY <1>6 DEF CloseRaises, Goto
<1>7. CASE InhibitGranted
  BY <1>7 DEF InhibitGranted
<1>8. CASE InhibitRefused
  BY <1>8 DEF InhibitRefused, Goto
<1>9. CASE Assign
  BY <1>9 DEF Assign, Goto
<1>10. CASE Subscribe
  BY <1>10 DEF Subscribe, Goto
<1>11. CASE Dispatch
  BY <1>11 DEF Dispatch, Begin
<1>12. CASE NetworkWait
  BY <1>12 DEF NetworkWait, Goto
<1>13. CASE LoopEnds
  BY <1>13 DEF LoopEnds, Begin
<1>14. CASE Exit
  BY <1>14 DEF Exit, Ended, None
<1>15. CASE Quit
  BY <1>15 DEF Quit, None, TakesNotice
<1>16. CASE AnnounceSleep
  BY <1>16 DEF AnnounceSleep, Announced, Queued, OnWatch
<1>17. CASE FallAsleep
  BY <1>17 DEF FallAsleep
<1>18. CASE WakeUp
  BY <1>18 DEF WakeUp, Queued
<1>19. CASE AnnounceShutdown
  BY <1>19 DEF AnnounceShutdown, Announced, Queued
<1>20. CASE CallOff
  BY <1>20 DEF CallOff, Queued
<1>21. CASE PowerOff
  BY <1>21 DEF PowerOff, Ended, None
<1>22. CASE Boot
  BY <1>22 DEF Boot
<1>23. CASE Poll
  BY <1>23 DEF Poll
<1>24. ASSUME NEW status \in Statuses, HandleLate(status) PROVE WaitOK'
  BY <1>24 DEF HandleLate
<1>25. CASE Terminate
  BY <1>25 DEF Terminate, Begin
<1>26. CASE Kill
  BY <1>26 DEF Kill, Ended, None
<1>27. CASE Launch
  BY <1>27 DEF Launch, Begin
<1>28. CASE UNCHANGED vars
  BY <1>28
<1> QED
  BY <1>1, <1>2, <1>3, <1>4, <1>5, <1>6, <1>7, <1>8, <1>9, <1>10, <1>11, <1>12, <1>13, <1>14,
     <1>15, <1>16, <1>17, <1>18, <1>19, <1>20, <1>21, <1>22, <1>23, <1>24, <1>25, <1>26, <1>27, <1>28
  DEF Next, AgentStep, FrameStep, LogindStep, ServerStep

\* Nothing but the report comes between an announced sleep and the release of the
\* lock.
LEMMA SleepOKNext == Inv /\ [Next]_vars => SleepOK'
<1> SUFFICES ASSUME Inv, [Next]_vars PROVE SleepOK'
  OBVIOUS
<1> USE DEF logind, agent, server, history, vars, Frames, main, term, Alive, Handling, At, Running, Inv, TypeOK, FramesTyped, FramesOK, LoopOK, LocksOK, SleepOK, Holding, Signals, TakingJobs, First, AfterTake, AfterDrop, AfterSend
<1>1. ASSUME NEW f \in Frames, SendOk(f) PROVE SleepOK'
  BY <1>1 DEF SendOk, Sent
<1>2. ASSUME NEW f \in Frames, SendFails(f) PROVE SleepOK'
  BY <1>2 DEF SendFails, Sent, LastTry
<1>3. ASSUME NEW f \in Frames, Drop(f) PROVE SleepOK'
  BY <1>3 DEF Drop, Goto
<1>4. ASSUME NEW f \in Frames, Close(f) PROVE SleepOK'
  BY <1>4 DEF Close, Goto
<1>5. ASSUME NEW f \in Frames, Clear(f) PROVE SleepOK'
  BY <1>5 DEF Clear, Goto
<1>6. CASE CloseRaises
  BY <1>6 DEF CloseRaises, Goto
<1>7. CASE InhibitGranted
  BY <1>7 DEF InhibitGranted
<1>8. CASE InhibitRefused
  BY <1>8 DEF InhibitRefused, Goto
<1>9. CASE Assign
  BY <1>9 DEF Assign, Goto
<1>10. CASE Subscribe
  BY <1>10 DEF Subscribe, Goto
<1>11. CASE Dispatch
  BY <1>11 DEF Dispatch, Begin
<1>12. CASE NetworkWait
  BY <1>12 DEF NetworkWait, Goto
<1>13. CASE LoopEnds
  BY <1>13 DEF LoopEnds, Begin
<1>14. CASE Exit
  BY <1>14 DEF Exit, Ended, None
<1>15. CASE Quit
  BY <1>15 DEF Quit, None, TakesNotice
<1>16. CASE AnnounceSleep
  <2>1. CASE OnWatch
    <3>1. signals' = <<"sleep">>
      <4>1. signals' = Append(<<>>, "sleep")
        BY <1>16, <2>1 DEF AnnounceSleep, Announced, Queued, OnWatch
      <4> QED BY <4>1
    <3> QED BY <1>16, <2>1, <3>1 DEF AnnounceSleep, OnWatch
  <2>2. CASE ~OnWatch
    BY <1>16, <2>2 DEF AnnounceSleep
  <2> QED BY <2>1, <2>2
<1>17. CASE FallAsleep
  BY <1>17 DEF FallAsleep
<1>18. CASE WakeUp
  BY <1>18 DEF WakeUp, Queued
<1>19. CASE AnnounceShutdown
  BY <1>19 DEF AnnounceShutdown, Announced, Queued
<1>20. CASE CallOff
  BY <1>20 DEF CallOff, Queued
<1>21. CASE PowerOff
  BY <1>21 DEF PowerOff, Ended, None
<1>22. CASE Boot
  BY <1>22 DEF Boot
<1>23. CASE Poll
  BY <1>23 DEF Poll
<1>24. ASSUME NEW status \in Statuses, HandleLate(status) PROVE SleepOK'
  BY <1>24 DEF HandleLate
<1>25. CASE Terminate
  BY <1>25 DEF Terminate, Begin
<1>26. CASE Kill
  BY <1>26 DEF Kill, Ended, None
<1>27. CASE Launch
  BY <1>27 DEF Launch, Begin
<1>28. CASE UNCHANGED vars
  BY <1>28
<1> QED
  BY <1>1, <1>2, <1>3, <1>4, <1>5, <1>6, <1>7, <1>8, <1>9, <1>10, <1>11, <1>12, <1>13, <1>14,
     <1>15, <1>16, <1>17, <1>18, <1>19, <1>20, <1>21, <1>22, <1>23, <1>24, <1>25, <1>26, <1>27, <1>28
  DEF Next, AgentStep, FrameStep, LogindStep, ServerStep

\* Signals are queued in the order in which logind says what the machine does.
LEMMA ResumeOKNext == Inv /\ [Next]_vars => ResumeOK'
<1> SUFFICES ASSUME Inv, [Next]_vars PROVE ResumeOK'
  OBVIOUS
<1> USE DEF logind, agent, server, history, vars, Frames, main, term, Alive, Handling, At, Running, Inv, TypeOK, FramesTyped, FramesOK, LoopOK, GoingOK, ResumeOK, NextIsResume, Signals, TakingJobs, First, AfterTake, AfterDrop, AfterSend
<1>1. ASSUME NEW f \in Frames, SendOk(f) PROVE ResumeOK'
  BY <1>1 DEF SendOk, Sent
<1>2. ASSUME NEW f \in Frames, SendFails(f) PROVE ResumeOK'
  BY <1>2 DEF SendFails, Sent, LastTry
<1>3. ASSUME NEW f \in Frames, Drop(f) PROVE ResumeOK'
  BY <1>3 DEF Drop, Goto
<1>4. ASSUME NEW f \in Frames, Close(f) PROVE ResumeOK'
  BY <1>4 DEF Close, Goto
<1>5. ASSUME NEW f \in Frames, Clear(f) PROVE ResumeOK'
  BY <1>5 DEF Clear, Goto
<1>6. CASE CloseRaises
  BY <1>6 DEF CloseRaises, Goto
<1>7. CASE InhibitGranted
  BY <1>7 DEF InhibitGranted
<1>8. CASE InhibitRefused
  BY <1>8 DEF InhibitRefused, Goto
<1>9. CASE Assign
  BY <1>9 DEF Assign, Goto
<1>10. CASE Subscribe
  BY <1>10 DEF Subscribe, Goto
<1>11. CASE Dispatch
  <2>1. signals # <<>> /\ signals' = Tail(signals) /\ UNCHANGED machine
    BY <1>11 DEF Dispatch
  <2>2. main'.job = Head(signals)
    BY <1>11 DEF Dispatch, Begin
  <2>3. signals[Len(signals)] = "sleep" => machine \in {"toSleep", "asleep"}
    BY <2>1
  <2> HIDE DEF At, Running, FramesTyped
  <2> QED BY <2>1, <2>2, <2>3, TakenOrder
<1>12. CASE NetworkWait
  BY <1>12 DEF NetworkWait, Goto
<1>13. CASE LoopEnds
  BY <1>13 DEF LoopEnds, Begin
<1>14. CASE Exit
  BY <1>14, NothingOrder DEF Exit, Ended, None
<1>15. CASE Quit
  BY <1>15 DEF Quit, None, TakesNotice
<1>16. CASE AnnounceSleep
  <2>1. Queued("sleep") /\ UNCHANGED <<frame, looping>>
    BY <1>16 DEF AnnounceSleep, Announced
  <2>2. signals # <<>> /\ signals[Len(signals)] = "sleep" => machine \in {"toSleep", "asleep"}
    OBVIOUS
  <2>3. SleepsThenResumes(signals')
    BY <1>16, <2>1, <2>2, QueuedOrder DEF AnnounceSleep
  <2>4. NextIsResume /\ looping => NextIsResume'
    BY <1>16, <2>1, <2>2, QueuedOrder DEF AnnounceSleep
  <2> QED BY <2>1, <2>3, <2>4
<1>17. CASE FallAsleep
  BY <1>17 DEF FallAsleep
<1>18. CASE WakeUp
  <2>1. Queued("resume") /\ UNCHANGED <<frame, looping>>
    BY <1>18 DEF WakeUp
  <2>2. signals # <<>> /\ signals[Len(signals)] = "sleep" => machine \in {"toSleep", "asleep"}
    OBVIOUS
  <2>3. SleepsThenResumes(signals')
    BY <1>18, <2>1, <2>2, QueuedOrder DEF WakeUp
  <2>4. NextIsResume /\ looping => NextIsResume'
    BY <1>18, <2>1, <2>2, QueuedOrder DEF WakeUp
  <2> QED BY <2>1, <2>3, <2>4
<1>19. CASE AnnounceShutdown
  <2>1. Queued("shutdown") /\ UNCHANGED <<frame, looping>>
    BY <1>19 DEF AnnounceShutdown, Announced
  <2>2. signals # <<>> /\ signals[Len(signals)] = "sleep" => machine \in {"toSleep", "asleep"}
    OBVIOUS
  <2>3. SleepsThenResumes(signals')
    BY <1>19, <2>1, <2>2, QueuedOrder DEF AnnounceShutdown
  <2>4. NextIsResume /\ looping => NextIsResume'
    BY <1>19, <2>1, <2>2, QueuedOrder DEF AnnounceShutdown
  <2> QED BY <2>1, <2>3, <2>4
<1>20. CASE CallOff
  <2>1. Queued("cancelled") /\ UNCHANGED <<frame, looping>>
    BY <1>20 DEF CallOff
  <2>2. signals # <<>> /\ signals[Len(signals)] = "sleep" => machine \in {"toSleep", "asleep"}
    OBVIOUS
  <2>3. SleepsThenResumes(signals')
    BY <1>20, <2>1, <2>2, QueuedOrder DEF CallOff
  <2>4. NextIsResume /\ looping => NextIsResume'
    BY <1>20, <2>1, <2>2, QueuedOrder DEF CallOff
  <2> QED BY <2>1, <2>3, <2>4
<1>21. CASE PowerOff
  BY <1>21, NothingOrder DEF PowerOff, Ended, None
<1>22. CASE Boot
  BY <1>22 DEF Boot
<1>23. CASE Poll
  BY <1>23 DEF Poll
<1>24. ASSUME NEW status \in Statuses, HandleLate(status) PROVE ResumeOK'
  BY <1>24 DEF HandleLate
<1>25. CASE Terminate
  BY <1>25 DEF Terminate, Begin
<1>26. CASE Kill
  BY <1>26, NothingOrder DEF Kill, Ended, None
<1>27. CASE Launch
  BY <1>27 DEF Launch, Begin
<1>28. CASE UNCHANGED vars
  BY <1>28
<1> QED
  BY <1>1, <1>2, <1>3, <1>4, <1>5, <1>6, <1>7, <1>8, <1>9, <1>10, <1>11, <1>12, <1>13, <1>14,
     <1>15, <1>16, <1>17, <1>18, <1>19, <1>20, <1>21, <1>22, <1>23, <1>24, <1>25, <1>26, <1>27, <1>28
  DEF Next, AgentStep, FrameStep, LogindStep, ServerStep

\* A report of going away is followed by one of being back.
LEMMA KnownOKNext == Inv /\ [Next]_vars => KnownOK'
<1> SUFFICES ASSUME Inv, [Next]_vars PROVE KnownOK'
  OBVIOUS
<1> USE DEF logind, agent, server, history, vars, Frames, main, term, Alive, Handling, At, Running, Inv, TypeOK, FramesTyped, FramesOK, LoopOK, GoingOK, WaitOK, ResumeOK, NextIsResume, KnownOK, BackOnItsWay, Report, Signals, TakingJobs, First, AfterTake, AfterDrop, AfterSend
<1>1. ASSUME NEW f \in Frames, SendOk(f) PROVE KnownOK'
  <2>1. heard' = Report[frame[f].job] /\ UNCHANGED <<signals, machine, termed>>
    BY <1>1 DEF SendOk
  <2>2. CASE f = "main"
    <3>1. main.job \in ReportingJobs \ {"term"} /\ main'.job = main.job
      BY <1>1, <2>2 DEF SendOk, Sent
    <3>2. heard' = "suspended" \/ heard' = "offline" => main.job = "sleep"
      BY <2>1, <2>2, <3>1 DEF ReportingJobs
    <3>3. main.job = "sleep" => NextIsResume
      BY <1>1, <2>2 DEF SendOk
    <3> QED BY <2>1, <3>1, <3>2, <3>3
  <2>3. CASE f = "term"
    BY <1>1, <2>1, <2>3 DEF SendOk, Sent
  <2> QED BY <2>2, <2>3
<1>2. ASSUME NEW f \in Frames, SendFails(f) PROVE KnownOK'
  <2>1. UNCHANGED <<signals, machine, termed>> /\ (through' => heard' = Report[frame[f].job])
    BY <1>2 DEF SendFails
  <2>2. CASE f = "main"
    <3>1. main.job \in ReportingJobs \ {"term"} /\ main'.job = main.job
      BY <1>2, <2>2 DEF SendFails, Sent
    <3>2. through' /\ heard' \in {"suspended", "offline"} => main.job = "sleep"
      BY <2>1, <2>2, <3>1 DEF ReportingJobs
    <3>3. main.job = "sleep" => NextIsResume
      BY <1>2, <2>2 DEF SendFails
    <3> QED BY <2>1, <3>1, <3>2, <3>3
  <2>3. CASE f = "term"
    BY <1>2, <2>1, <2>3 DEF SendFails, Sent
  <2> QED BY <2>2, <2>3
<1>3. ASSUME NEW f \in Frames, Drop(f) PROVE KnownOK'
  BY <1>3 DEF Drop, Goto
<1>4. ASSUME NEW f \in Frames, Close(f) PROVE KnownOK'
  BY <1>4 DEF Close, Goto
<1>5. ASSUME NEW f \in Frames, Clear(f) PROVE KnownOK'
  BY <1>5 DEF Clear, Goto
<1>6. CASE CloseRaises
  BY <1>6 DEF CloseRaises, Goto
<1>7. CASE InhibitGranted
  BY <1>7 DEF InhibitGranted
<1>8. CASE InhibitRefused
  BY <1>8 DEF InhibitRefused, Goto
<1>9. CASE Assign
  BY <1>9 DEF Assign, Goto
<1>10. CASE Subscribe
  BY <1>10 DEF Subscribe, Goto
<1>11. CASE Dispatch
  BY <1>11 DEF Dispatch, Begin
<1>12. CASE NetworkWait
  BY <1>12 DEF NetworkWait, Goto
<1>13. CASE LoopEnds
  BY <1>13 DEF LoopEnds, Begin
<1>14. CASE Exit
  BY <1>14 DEF Exit, Ended, None
<1>15. CASE Quit
  BY <1>15 DEF Quit, None, TakesNotice
<1>16. CASE AnnounceSleep
  BY <1>16 DEF AnnounceSleep, Announced, Queued, OnWatch
<1>17. CASE FallAsleep
  BY <1>17 DEF FallAsleep
<1>18. CASE WakeUp
  BY <1>18 DEF WakeUp, Queued
<1>19. CASE AnnounceShutdown
  BY <1>19 DEF AnnounceShutdown, Announced, Queued
<1>20. CASE CallOff
  BY <1>20 DEF CallOff, Queued
<1>21. CASE PowerOff
  BY <1>21 DEF PowerOff, Ended, None
<1>22. CASE Boot
  BY <1>22 DEF Boot
<1>23. CASE Poll
  BY <1>23 DEF Poll
<1>24. ASSUME NEW status \in Statuses, HandleLate(status) PROVE KnownOK'
  BY <1>24 DEF HandleLate
<1>25. CASE Terminate
  BY <1>25 DEF Terminate, Begin
<1>26. CASE Kill
  BY <1>26 DEF Kill, Ended, None
<1>27. CASE Launch
  BY <1>27 DEF Launch, Begin
<1>28. CASE UNCHANGED vars
  BY <1>28
<1> QED
  BY <1>1, <1>2, <1>3, <1>4, <1>5, <1>6, <1>7, <1>8, <1>9, <1>10, <1>11, <1>12, <1>13, <1>14,
     <1>15, <1>16, <1>17, <1>18, <1>19, <1>20, <1>21, <1>22, <1>23, <1>24, <1>25, <1>26, <1>27, <1>28
  DEF Next, AgentStep, FrameStep, LogindStep, ServerStep

-----------------------------------------------------------------------------
(* Theorems.                                                               *)

LEMMA InvInit == Init => Inv
<1> SUFFICES ASSUME Init PROVE Inv
  OBVIOUS
<1>1. TypeOK
  BY TypeInit
<1> QED
  BY <1>1, InhibitorAssumption, NothingOrder
  DEF Init, Inv, FramesOK, LoopOK, LocksOK, NoLockIsLost, GoingOK, WaitOK, WaitsWithLock, SleepOK,
      ResumeOK, KnownOK, BackOnItsWay, NextIsResume, Begin, First, None, Frames, main, term, Alive, Handling, TakingJobs

THEOREM Invariance == Spec => []Inv
<1>1. Inv /\ [Next]_vars => Inv'
  BY TypeOKNext, FramesOKNext, LoopOKNext, LocksOKNext, GoingOKNext, WaitOKNext, SleepOKNext,
     ResumeOKNext, KnownOKNext DEF Inv
<1> QED BY <1>1, InvInit, PTL DEF Spec

\* The agent, logind and the reports stay within their types: the retries of a
\* report end.
THEOREM TypeCorrect == Spec => []TypeOK
<1>1. Inv => TypeOK
  BY DEF Inv
<1> QED BY <1>1, Invariance, PTL

\* Whatever the handler of SIGTERM interrupts, a lock that is open is the one the
\* agent will close, or the one it is about to store.
THEOREM LocksAreKnown == Spec => []NoLockIsLost
<1>1. Inv => NoLockIsLost
  BY DEF Inv, LocksOK
<1> QED BY <1>1, Invariance, PTL

\* An agent that waits on a machine that stays up has the lock.
THEOREM AgentWaitsWithLock == Spec => []WaitsWithLock
<1>1. Inv => WaitsWithLock
  BY DEF Inv, WaitOK
<1> QED BY <1>1, Invariance, PTL

\* An agent that waits on a machine that stays up, and was heard, is known to be back.
THEOREM BackKnown == Spec => []BackIsKnown
<1>1. Inv => BackIsKnown
  BY DEF Inv, TypeOK, KnownOK, BackOnItsWay, NextIsResume, BackIsKnown, Alive, main
<1> QED BY <1>1, Invariance, PTL

\* A sleep that found the agent on watch, and is not forced, has been reported.
THEOREM SleepComesAfterReport == Spec => SleepIsReported
<1>1. Inv /\ [Next]_vars
      => [machine = "toSleep" /\ machine' = "asleep" /\ locks = {} /\ watched => told]_vars
  BY DEF Inv, SleepOK, Holding
<1> QED BY <1>1, Invariance, PTL DEF Spec, SleepIsReported
=============================================================================
