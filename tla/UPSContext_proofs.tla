-------------------------- MODULE UPSContext_proofs --------------------------
EXTENDS UPSContext, TLAPS

(***************************************************************************)
(* What the steps of a thread do to the threads.                           *)
(***************************************************************************)

LEMMA GotoStep ==
  ASSUME ThreadsOK, NEW t \in Thread, NEW place \in Places, NEW arg \in Args,
         thread[t].at # "free", Goto(t, place, arg),
         place \in {"note", "noteLog", "noteOpen", "dispatch"} => arg \in Signals,
         place = "follow" => arg \in Modes,
         place \in {"save", "arm"} => arg \in Phases
  PROVE  /\ ThreadsOK'
         /\ thread'[t].at = place
         /\ thread'[t].arg = arg
         /\ thread'[t].ups = thread[t].ups
         /\ \A s \in Thread \ {t} : thread'[s] = thread[s]
  BY DEF Goto, Works, ThreadsOK

LEMMA FinishStep ==
  ASSUME ThreadsOK, NEW t \in Thread, Finish(t)
  PROVE  /\ ThreadsOK'
         /\ thread'[t] = Free
         /\ \A s \in Thread \ {t} : thread'[s] = thread[s]
  BY DEF Finish, Free, ThreadsOK, Places, Args

LEMMA EnterStep ==
  ASSUME ThreadsOK, NEW t \in Thread, NEW u \in UPS, NEW place \in Places, NEW arg \in Args,
         NEW isPoll \in BOOLEAN, Enter(t, u, place, arg, isPoll),
         place \in {"note", "noteLog", "noteOpen", "dispatch"} => arg \in Signals,
         place \notin {"follow", "save", "arm"}
  PROVE  /\ ThreadsOK'
         /\ thread'[t] = [at |-> place, ups |-> u, poll |-> isPoll, arg |-> arg]
         /\ thread[t].at = "free"
         /\ \A s \in Thread \ {t} : thread'[s] = thread[s]
  BY DEF Enter, Works, ThreadsOK, At

LEMMA BecomeStep ==
  ASSUME ThreadsOK, NEW t \in Thread, NEW place \in WorkerPlaces, thread[t].ups \in UPS,
         Become(t, place)
  PROVE  /\ ThreadsOK'
         /\ thread'[t].at = place
         /\ thread'[t].ups = thread[t].ups
         /\ \A s \in Thread \ {t} : thread'[s] = thread[s]
  BY DEF Become, Works, ThreadsOK, Places, WorkerPlaces, Args

(***************************************************************************)
(* Type correctness.                                                       *)
(***************************************************************************)

LEMMA OffMainsBoolean == \A s : OffMains(s) \in BOOLEAN
<1> TAKE s
<1>1. CASE OffMains(s)
  <2>1. OffMains(s) = TRUE BY <1>1
  <2> QED BY <2>1
<1>2. CASE ~OffMains(s)
  <2>1. OffMains(s) = FALSE BY <1>2
  <2> QED BY <2>1
<1> QED BY <1>1, <1>2

LEMMA IsOutBoolean == \A signal : IsOut(signal) \in BOOLEAN
  BY DEF IsOut

LEMMA SetModeType ==
  ASSUME mode \in [UPS -> Modes], acted \in [UPS -> BOOLEAN],
         NEW u \in UPS, NEW m \in Modes, SetMode(u, m)
  PROVE  mode' \in [UPS -> Modes] /\ acted' \in [UPS -> BOOLEAN]
  BY DEF SetMode

LEMMA LeaveMonitoringType ==
  ASSUME mode \in [UPS -> Modes], acted \in [UPS -> BOOLEAN],
         phase \in [UPS -> Phases \cup {"none"}], timer \in [UPS -> BOOLEAN],
         NEW u \in UPS, NEW m \in Modes, LeaveMonitoring(u, m)
  PROVE  /\ mode' \in [UPS -> Modes] /\ acted' \in [UPS -> BOOLEAN]
         /\ phase' \in [UPS -> Phases \cup {"none"}] /\ timer' \in [UPS -> BOOLEAN]
<1>1. SetMode(u, m)
  BY DEF LeaveMonitoring
<1> QED BY <1>1, SetModeType DEF LeaveMonitoring

LEMMA EndStartType ==
  ASSUME startLock \in [UPS -> Thread \cup {NoThread}], NEW t \in Thread, EndStart(t)
  PROVE  startLock' \in [UPS -> Thread \cup {NoThread}]
  BY DEF EndStart

LEMMA TypeInit == Init => TypeOK
<1> SUFFICES ASSUME Init PROVE TypeOK
  OBVIOUS
<1>1. ThreadsOK
  BY DEF Init, ThreadsOK, Free, Places, Args
<1>2. power \in [UPS -> {"OL", "OB", "OB LB", "OL LB"}]
  BY InputAssumption DEF Init
<1>3. wasOut \in [UPS -> BOOLEAN]
  BY OffMainsBoolean DEF Init
<1> QED
  BY <1>1, <1>2, <1>3 DEF Init, TypeOK, Modes, Idle

LEMMA TypeNext == TypeOK /\ [Next]_vars => TypeOK'
<1> USE DEF At, vars, files, fields, world, history, Idle, Monitoring, ShuttingDown,
            DesktopHandled, UserPrompt, OfflineWait, SuspendWait, Modes, Phases
<1> SUFFICES ASSUME TypeOK, [Next]_vars PROVE TypeOK'
  OBVIOUS
<1>0. /\ ThreadsOK
      /\ \A t \in Thread : thread[t].at # "free" => thread[t].ups \in UPS
  BY DEF TypeOK, ThreadsOK
<1>1. ASSUME NEW t \in Thread, NEW u \in UPS, Begin(t, u)
      PROVE  TypeOK'
  <2>1. CASE BeginPoll(t, u)
    <3>1. ThreadsOK'
      BY <1>0, <2>1, EnterStep DEF BeginPoll, Places, Args
    <3> QED BY <2>1, <3>1 DEF BeginPoll, TypeOK, DesktopAnswers, DesktopSilent
  <2>2. ASSUME NEW e \in Notices[u], BeginEvent(t, u, e) PROVE TypeOK'
    <3>0. e \in {"ONLINE", "ONBATT", "LOWBATT", "desktop_suspend_due"}
      BY <2>2, InputAssumption
    <3>1. ThreadsOK'
      BY <1>0, <2>2, <3>0, EnterStep DEF BeginEvent, Places, Args, Signals
    <3> QED BY <2>2, <3>1 DEF BeginEvent, TypeOK
  <2>3. CASE TimerFires(t, u)
    <3>1. ThreadsOK'
      BY <1>0, <2>3, EnterStep DEF TimerFires, Places, Args
    <3> QED BY <2>3, <3>1 DEF TimerFires, TypeOK
  <2>4. ASSUME NEW s \in Statuses[u], BeginReport(t, u, s) PROVE TypeOK'
    <3>0. s \in {"online", "suspended", "down"}
      BY <2>4, InputAssumption
    <3>1. ThreadsOK'
      BY <1>0, <2>4, <3>0, EnterStep DEF BeginReport, Places, Args
    <3> QED BY <2>4, <3>1 DEF BeginReport, TypeOK
  <2>5. CASE BeginAck(t, u)
    <3>1. ThreadsOK'
      BY <1>0, <2>5, EnterStep DEF BeginAck, Places, Args
    <3> QED BY <2>5, <3>1 DEF BeginAck, TypeOK
  <2> QED BY <1>1, <2>1, <2>2, <2>3, <2>4, <2>5 DEF Begin
<1>2. ASSUME NEW t \in Thread, Step(t)
      PROVE  TypeOK'
  <2>1. thread[t].at # "free" => thread[t].ups \in UPS
    BY <1>0
  <2>2. CASE ReadStatus(t)
    <3>1. ThreadsOK'
      BY <1>0, <2>2, GotoStep DEF ReadStatus, Places, Args, Signals, TypeOK, SignalOf, LowBattery
    <3> QED BY <2>1, <2>2, <3>1 DEF ReadStatus, TypeOK, SignalOf, LowBattery
  <2>3. CASE ReadNothing(t)
    <3>1. ThreadsOK'
      BY <1>0, <2>3, GotoStep DEF ReadNothing, Places, Args, Signals
    <3> QED BY <2>1, <2>3, <3>1 DEF ReadNothing, TypeOK
  <2>4. CASE Note(t)
    <3>1. ThreadsOK'
      BY <1>0, <2>4, GotoStep DEF Note, Places, Args, Signals, ThreadsOK
    <3>2. thread[t].ups \in UPS
      BY <2>1, <2>4 DEF Note
    <3>3. onBattery' \in [UPS -> BOOLEAN]
      <4>1. PICK out \in BOOLEAN : onBattery' = [onBattery EXCEPT ![thread[t].ups] = out]
        BY <2>4, IsOutBoolean DEF Note
      <4> QED BY <4>1 DEF TypeOK
    <3> QED BY <2>4, <3>1, <3>2, <3>3 DEF Note, TypeOK
  <2>5. CASE NoteLog(t)
    <3>1. ThreadsOK'
      BY <1>0, <2>5, GotoStep DEF NoteLog, Places, Args, Signals, ThreadsOK
    <3> QED BY <2>1, <2>5, <3>1 DEF NoteLog, TypeOK, OutageClosed
  <2>6. CASE NoteOpen(t)
    <3>1. ThreadsOK'
      BY <1>0, <2>6, GotoStep DEF NoteOpen, Places, Args, Signals, ThreadsOK
    <3> QED BY <2>1, <2>6, <3>1 DEF NoteOpen, TypeOK, OutageOpened
  <2>7. CASE Dispatch(t)
    <3>1. ThreadsOK'
      BY <1>0, <2>7, GotoStep, FinishStep DEF Dispatch, Places, Args, Signals, TypeOK
    <3> QED BY <2>1, <2>7, <3>1 DEF Dispatch, TypeOK, LeftAlone
  <2>8. CASE Follow(t)
    <3>1. ThreadsOK'
      BY <1>0, <2>8, GotoStep, FinishStep DEF Follow, Places, Args, Signals
    <3> QED BY <2>1, <2>8, <3>1 DEF Follow, TypeOK
  <2>9. CASE FollowBlind(t)
    <3>1. ThreadsOK'
      BY <1>0, <2>9, GotoStep, FinishStep DEF FollowBlind, Places, Args, Signals
    <3> QED BY <2>1, <2>9, <3>1 DEF FollowBlind, TypeOK
  <2>10. CASE Lock(t)
    <3>1. ThreadsOK'
      BY <1>0, <2>10, GotoStep, FinishStep DEF Lock, Places, Args, Signals
    <3>2. startLock' \in [UPS -> Thread \cup {NoThread}]
      <4>1. \/ startLock' = startLock
            \/ startLock' = [startLock EXCEPT ![thread[t].ups] = t]
        BY <2>10 DEF Lock
      <4>2. startLock \in [UPS -> Thread \cup {NoThread}]
        BY DEF TypeOK
      <4> QED BY <4>1, <4>2
    <3> QED BY <2>10, <3>1, <3>2 DEF Lock, TypeOK
  <2>11. CASE Start(t)
    <3>1. ThreadsOK'
      BY <1>0, <2>11, GotoStep DEF Start, Places, Args, Signals, TypeOK
    <3> QED BY <2>1, <2>11, <3>1 DEF Start, TypeOK
  <2>12. CASE StartLog(t)
    <3>1. ThreadsOK'
      BY <1>0, <2>12, GotoStep DEF StartLog, Places, Args, Signals, TypeOK
    <3> QED BY <2>1, <2>12, <3>1 DEF StartLog, TypeOK, OutageOpened
  <2>13. CASE Choose(t)
    <3>1. ThreadsOK'
      BY <1>0, <2>13, GotoStep DEF Choose, Places, Args, Signals, TypeOK
    <3> QED BY <2>1, <2>13, <3>1 DEF Choose, TypeOK, DesktopAnswers, DesktopSilent
  <2>14. CASE Save(t)
    <3>1. ThreadsOK'
      BY <1>0, <2>14, GotoStep DEF Save, Places, Args, Signals, ThreadsOK
    <3>2. thread[t].ups \in UPS /\ thread[t].arg \in Phases
      BY <1>0, <2>14 DEF Save, ThreadsOK
    <3> QED BY <2>14, <3>1, <3>2 DEF Save, TypeOK, SetMode
  <2>15. CASE Arm(t)
    <3>1. ThreadsOK'
      BY <1>0, <2>15, GotoStep, FinishStep DEF Arm, Places, Args, Signals, EndStart, ThreadsOK
    <3>2. startLock' \in [UPS -> Thread \cup {NoThread}]
      <4>1. startLock \in [UPS -> Thread \cup {NoThread}]
        BY DEF TypeOK
      <4>2. UNCHANGED startLock \/ EndStart(t)
        BY <2>15 DEF Arm
      <4> QED BY <4>1, <4>2, EndStartType
    <3>3. timer' \in [UPS -> BOOLEAN]
      <4>1. timer \in [UPS -> BOOLEAN]
        BY DEF TypeOK
      <4> QED BY <2>15, <4>1 DEF Arm
    <3> QED BY <2>15, <3>1, <3>2, <3>3 DEF Arm, TypeOK
  <2>16. CASE Prompt(t)
    <3>1. ThreadsOK'
      BY <1>0, <2>16, GotoStep DEF Prompt, Places, Args, Signals
    <3> QED BY <2>1, <2>16, <3>1 DEF Prompt, TypeOK
  <2>17. CASE Prompted(t)
    <3>1. ThreadsOK'
      BY <1>0, <2>17, GotoStep, FinishStep DEF Prompted, Places, Args, Signals, EndStart
    <3>2. startLock' \in [UPS -> Thread \cup {NoThread}]
      <4>1. startLock \in [UPS -> Thread \cup {NoThread}]
        BY DEF TypeOK
      <4>2. EndStart(t)
        BY <2>17 DEF Prompted
      <4> QED BY <4>1, <4>2, EndStartType
    <3> QED BY <2>17, <3>1, <3>2 DEF Prompted, TypeOK
  <2>18. CASE DeadlineReached(t)
    <3>1. ThreadsOK'
      BY <1>0, <2>18, GotoStep DEF DeadlineReached, Places, Args, Signals
    <3> QED BY <2>1, <2>18, <3>1 DEF DeadlineReached, TypeOK
  <2>19. CASE DeadlineAhead(t)
    <3>1. ThreadsOK'
      BY <1>0, <2>19, FinishStep DEF DeadlineAhead, Places, Args, Signals
    <3> QED BY <2>1, <2>19, <3>1 DEF DeadlineAhead, TypeOK
  <2>20. CASE ExecRead(t)
    <3>1. thread[t].ups \in UPS /\ thread[t].arg \in Args
      BY <1>0, <2>20 DEF ExecRead, ThreadsOK
    <3>2. phase[thread[t].ups] \in Args
      BY <3>1 DEF TypeOK, Args
    <3>3. ThreadsOK'
      BY <1>0, <2>20, <3>1, <3>2, GotoStep, FinishStep DEF ExecRead, Places
    <3>4. actionLock' \in [UPS -> Thread \cup {NoThread}]
      <4>1. actionLock \in [UPS -> Thread \cup {NoThread}]
        BY DEF TypeOK
      <4>2. \/ UNCHANGED actionLock
            \/ actionLock' = [actionLock EXCEPT ![thread[t].ups] = t]
        BY <2>20 DEF ExecRead
      <4> QED BY <4>1, <4>2
    <3> QED BY <2>20, <3>3, <3>4 DEF ExecRead, TypeOK
  <2>21. CASE ExecSave(t)
    <3>1. ThreadsOK'
      BY <1>0, <2>21, BecomeStep DEF ExecSave, Places, Args, Signals, WorkerFor, WorkerPlaces
    <3> QED BY <2>1, <2>21, <3>1, SetModeType DEF ExecSave, TypeOK, Modes, OutageInitiated
  <2>22. CASE Reset(t)
    <3>1. ThreadsOK'
      BY <1>0, <2>22, GotoStep DEF Reset, Places, Args, Signals
    <3> QED BY <2>1, <2>22, <3>1 DEF Reset, TypeOK, OutageClosed
  <2>23. CASE Leave(t)
    <3>1. ThreadsOK'
      BY <1>0, <2>23, GotoStep DEF Leave, Places, Args, Signals
    <3> QED BY <2>1, <2>23, <3>1, LeaveMonitoringType DEF Leave, TypeOK, Modes
  <2>24. CASE CancelRead(t)
    <3>1. ThreadsOK'
      BY <1>0, <2>24, GotoStep, FinishStep DEF CancelRead, Places, Args, Signals
    <3> QED BY <2>1, <2>24, <3>1 DEF CancelRead, TypeOK
  <2>25. CASE CancelSave(t)
    <3>1. ThreadsOK'
      BY <1>0, <2>25, FinishStep DEF CancelSave, Places, Args, Signals
    <3> QED BY <2>1, <2>25, <3>1 DEF CancelSave, TypeOK
  <2>26. CASE NotifyRead(t)
    <3>1. ThreadsOK'
      BY <1>0, <2>26, GotoStep, FinishStep DEF NotifyRead, Places, Args, Signals
    <3> QED BY <2>1, <2>26, <3>1 DEF NotifyRead, TypeOK
  <2>27. CASE NotifyDown(t)
    <3>1. ThreadsOK'
      BY <1>0, <2>27, FinishStep, BecomeStep DEF NotifyDown, Places, Args, Signals, WorkerPlaces
    <3>2. thread[t].ups \in UPS
      BY <2>1, <2>27 DEF NotifyDown
    <3>3. CASE mode[thread[t].ups] = ShuttingDown
      <4>1. UNCHANGED <<mode, outage, acted>>
        BY <2>27, <3>3 DEF NotifyDown
      <4> QED BY <2>27, <3>1, <4>1 DEF NotifyDown, TypeOK
    <3>4. CASE mode[thread[t].ups] # ShuttingDown
      <4>1. SetMode(thread[t].ups, ShuttingDown) /\ OutageInitiated(thread[t].ups)
        BY <2>27, <3>4 DEF NotifyDown
      <4> QED BY <2>27, <3>1, <3>2, <4>1, SetModeType DEF NotifyDown, TypeOK, Modes, OutageInitiated
    <3> QED BY <3>3, <3>4
  <2>28. CASE NotifySuspend(t)
    <3>1. ThreadsOK'
      BY <1>0, <2>28, FinishStep DEF NotifySuspend, Places, Args, Signals
    <3> QED BY <2>1, <2>28, <3>1, SetModeType DEF NotifySuspend, TypeOK, Modes
  <2>29. CASE AckSave(t)
    <3>1. ThreadsOK'
      BY <1>0, <2>29, FinishStep DEF AckSave, Places, Args, Signals
    <3> QED BY <2>1, <2>29, <3>1 DEF AckSave, TypeOK
  <2>30. CASE PushShutdown(t)
    <3>1. ThreadsOK'
      BY <1>0, <2>30, GotoStep DEF PushShutdown, Places, Args, Signals, WorkerPlaces
    <3> QED BY <2>1, <2>30, <3>1 DEF PushShutdown, TypeOK
  <2>31. CASE Wake(t)
    <3>1. ThreadsOK'
      BY <1>0, <2>31, GotoStep, FinishStep DEF Wake, Places, Args, Signals, WorkerPlaces
    <3> QED BY <2>1, <2>31, <3>1 DEF Wake, TypeOK, DesktopAnswers
  <2>32. CASE WakeExpires(t)
    <3>1. ThreadsOK'
      BY <1>0, <2>32, GotoStep DEF WakeExpires, Places, Args, Signals, WorkerPlaces
    <3> QED BY <2>1, <2>32, <3>1 DEF WakeExpires, TypeOK
  <2>33. CASE WakePush(t)
    <3>1. ThreadsOK'
      BY <1>0, <2>33, GotoStep, FinishStep DEF WakePush, Places, Args, Signals, WorkerPlaces
    <3> QED BY <2>1, <2>33, <3>1 DEF WakePush, TypeOK
  <2>34. CASE Wait(t)
    <3>1. ThreadsOK'
      BY <1>0, <2>34, GotoStep, FinishStep DEF Wait, Places, Args, Signals, WorkerPlaces
    <3> QED BY <2>1, <2>34, <3>1 DEF Wait, TypeOK
  <2>35. CASE WaitExpires(t)
    <3>1. ThreadsOK'
      BY <1>0, <2>35, GotoStep DEF WaitExpires, Places, Args, Signals, WorkerPlaces
    <3> QED BY <2>1, <2>35, <3>1 DEF WaitExpires, TypeOK
  <2>36. CASE Terminal(t)
    <3>1. ThreadsOK'
      BY <1>0, <2>36, GotoStep, FinishStep DEF Terminal, Places, Args, Signals, WorkerPlaces
    <3>2. actionLock' \in [UPS -> Thread \cup {NoThread}]
      <4>1. actionLock \in [UPS -> Thread \cup {NoThread}]
        BY DEF TypeOK
      <4>2. \/ actionLock' = actionLock
            \/ actionLock' = [actionLock EXCEPT ![thread[t].ups] = t]
        BY <2>36 DEF Terminal
      <4> QED BY <4>1, <4>2
    <3> QED BY <2>36, <3>1, <3>2 DEF Terminal, TypeOK
  <2>37. CASE Settle(t)
    <3>1. ThreadsOK'
      BY <1>0, <2>37, FinishStep DEF Settle
    <3>2. DesktopHandled \in Modes
      BY DEF Modes
    <3> QED BY <2>1, <2>37, <3>1, <3>2, LeaveMonitoringType DEF Settle, TypeOK
  <2>38. CASE Hold(t)
    <3>1. ThreadsOK'
      BY <1>0, <2>38, GotoStep, FinishStep DEF Hold, Places, Args, Signals, WorkerPlaces
    <3> QED BY <2>1, <2>38, <3>1 DEF Hold, TypeOK
  <2>39. CASE Look(t)
    <3>1. ThreadsOK'
      BY <1>0, <2>39, GotoStep, FinishStep DEF Look, Places, Args, Signals, WorkerPlaces
    <3> QED BY <2>1, <2>39, <3>1 DEF Look, TypeOK
  <2>40. CASE HoldExpires(t)
    <3>1. ThreadsOK'
      BY <1>0, <2>40, GotoStep DEF HoldExpires, Places, Args, Signals, WorkerPlaces
    <3> QED BY <2>1, <2>40, <3>1 DEF HoldExpires, TypeOK
  <2>41. CASE Issue(t)
    <3>1. ThreadsOK'
      BY <1>0, <2>41, FinishStep DEF Issue, Places, Args, Signals, WorkerPlaces
    <3> QED BY <2>1, <2>41, <3>1 DEF Issue, TypeOK
  <2> QED
    BY <1>2, <2>2, <2>3, <2>4, <2>7, <2>8, <2>9, <2>10, <2>11, <2>14, <2>15, <2>16, <2>17, <2>18, <2>19, <2>20, <2>21, <2>22, <2>23, <2>24, <2>25, <2>26, <2>27, <2>28, <2>29, <2>30, <2>31, <2>32, <2>33, <2>34, <2>35, <2>36, <2>38, <2>39, <2>40, <2>41, <2>5, <2>6, <2>12, <2>13, <2>37 DEF Step
<1>3. CASE World
  <2>1. ASSUME NEW u \in UPS, NEW e \in Notices[u], LoseNotice(u, e) PROVE TypeOK'
    BY <2>1 DEF LoseNotice, TypeOK, ThreadsOK
  <2>2. ASSUME NEW u \in UPS, NEW s \in Reports[u], PowerChange(u, s) PROVE TypeOK'
    <3>1. s \in {"OL", "OB", "OB LB", "OL LB"} /\ Notices[u] \subseteq
            {"ONLINE", "ONBATT", "LOWBATT", "desktop_suspend_due"}
      BY <2>2, InputAssumption
    <3> QED BY <2>2, <3>1 DEF PowerChange, TypeOK, ThreadsOK, OffMains
  <2>3. ASSUME NEW u \in UPS, AskDesktop(u) PROVE TypeOK'
    BY <2>3 DEF AskDesktop, DesktopAnswers, TypeOK, ThreadsOK
  <2>4. CASE Restart
    <3>1. ThreadsOK'
      BY <2>4 DEF Restart, ThreadsOK, Free, Places, Args
    <3>2. wasOut' \in [UPS -> BOOLEAN]
      BY <2>4, OffMainsBoolean DEF Restart
    <3>3. mode' \in [UPS -> Modes] /\ outage' \in [UPS -> {"closed", "open", "initiated"}]
      BY <2>4 DEF Restart, TypeOK, ModeAfterRestart
    <3>4. /\ command' \in [UPS -> {"none", "ups_state", "critical_shutdown"}]
          /\ notices' \in [UPS -> SUBSET {"ONLINE", "ONBATT", "LOWBATT", "desktop_suspend_due"}]
      BY <2>4 DEF Restart, TypeOK
    <3> QED BY <2>4, <3>1, <3>2, <3>3, <3>4 DEF Restart, TypeOK
  <2> QED BY <1>3, <2>1, <2>2, <2>3, <2>4 DEF World
<1>4. CASE UNCHANGED vars
  BY <1>4 DEF TypeOK, ThreadsOK
<1> QED
  BY <1>1, <1>2, <1>3, <1>4 DEF Next

\* Every reachable state is of the right type.
THEOREM TypeCorrect == Spec => []TypeOK
  BY TypeInit, TypeNext, PTL DEF Spec

(***************************************************************************)
(* What a step of one thread leaves alone.                                 *)
(***************************************************************************)

LEMMA Moves ==
  ASSUME ThreadsOK, NEW t \in Thread
  PROVE  /\ \A place, arg : Goto(t, place, arg) =>
              thread'[t].at = place /\ thread'[t].ups = thread[t].ups /\ thread'[t].arg = arg
         /\ \A place : Become(t, place) =>
              thread'[t].at = place /\ thread'[t].ups = thread[t].ups
         /\ Finish(t) => thread'[t].at = "free"
  BY DEF Goto, Become, Works, Finish, Free, ThreadsOK

LEMMA StepOfOne ==
  ASSUME ThreadsOK, NEW t \in Thread, Step(t)
  PROVE  /\ \A s \in Thread \ {t} : thread'[s] = thread[s]
         /\ thread[t].ups \in UPS
         /\ thread'[t].ups = thread[t].ups \/ thread'[t] = Free
<1> USE DEF At, Goto, Become, Works, Finish, ThreadsOK
<1>1. CASE \/ ReadStatus(t) \/ ReadNothing(t) \/ Note(t) \/ NoteLog(t) \/ NoteOpen(t)
           \/ Dispatch(t) \/ Follow(t) \/ FollowBlind(t)
  BY <1>1 DEF ReadStatus, ReadNothing, Note, NoteLog, NoteOpen, Dispatch, Follow, FollowBlind
<1>2. CASE \/ Lock(t) \/ Start(t) \/ StartLog(t) \/ Choose(t) \/ Save(t) \/ Arm(t)
           \/ Prompt(t) \/ Prompted(t)
  BY <1>2 DEF Lock, Start, StartLog, Choose, Save, Arm, Prompt, Prompted, EndStart
<1>3. CASE \/ DeadlineReached(t) \/ DeadlineAhead(t) \/ ExecRead(t) \/ ExecSave(t)
           \/ Reset(t) \/ Leave(t) \/ CancelRead(t) \/ CancelSave(t)
  BY <1>3 DEF DeadlineReached, DeadlineAhead, ExecRead, ExecSave, Reset, Leave, CancelRead, CancelSave
<1>4. CASE \/ NotifyRead(t) \/ NotifyDown(t) \/ NotifySuspend(t) \/ AckSave(t)
  BY <1>4 DEF NotifyRead, NotifyDown, NotifySuspend, AckSave
<1>5. CASE \/ PushShutdown(t) \/ Wake(t) \/ WakeExpires(t) \/ WakePush(t) \/ Wait(t)
           \/ WaitExpires(t) \/ Terminal(t) \/ Settle(t) \/ Hold(t) \/ Look(t)
           \/ HoldExpires(t) \/ Issue(t)
  BY <1>5 DEF PushShutdown, Wake, WakeExpires, WakePush, Wait, WaitExpires, Terminal, Settle, Hold, Look,
              HoldExpires, Issue
<1> QED
  BY <1>1, <1>2, <1>3, <1>4, <1>5 DEF Step

LEMMA BeginOfOne ==
  ASSUME ThreadsOK, NEW t \in Thread, NEW u \in UPS, Begin(t, u)
  PROVE  /\ thread[t].at = "free"
         /\ thread'[t].ups = u
         /\ thread'[t].at \in {"upsc", "note", "dispatch", "exec", "notify", "ackSave"}
         /\ \A s \in Thread \ {t} : thread'[s] = thread[s]
         /\ UNCHANGED <<mode, phase, command, outage, onBattery, startLock, actionLock, history>>
<1> USE DEF Enter, At, Works, ThreadsOK, files, fields
<1>1. CASE BeginPoll(t, u)
  BY <1>1 DEF BeginPoll
<1>2. CASE \E e \in Notices[u] : BeginEvent(t, u, e)
  BY <1>2 DEF BeginEvent
<1>3. CASE TimerFires(t, u)
  BY <1>3 DEF TimerFires
<1>4. CASE \E s \in Statuses[u] : BeginReport(t, u, s)
  BY <1>4 DEF BeginReport
<1>5. CASE BeginAck(t, u)
  BY <1>5 DEF BeginAck
<1> QED
  BY <1>1, <1>2, <1>3, <1>4, <1>5 DEF Begin

(***************************************************************************)
(* The locks, and what the one on the actions is for.  That a step which   *)
(* saves shutting_down still finds monitoring_battery on file follows from *)
(* its holding the lock: whoever else would leave monitoring_battery needs *)
(* the lock too.                                                           *)
(***************************************************************************)

HoldsActionLock ==
  \A t \in Thread : thread[t].at \in {"execSave", "settle"} => actionLock[thread[t].ups] = t

LockInv == LocksAreReleased /\ HoldsActionLock /\ NoStaleShutdown

LEMMA LockInit == Init => LockInv
  BY ThreadAssumption DEF Init, LockInv, LocksAreReleased, HoldsActionLock, NoStaleShutdown, Free, At

LEMMA LockStep ==
  ASSUME TypeOK, LockInv, NEW t \in Thread, Step(t)
  PROVE  LockInv'
<1>m. /\ \A place, arg : Goto(t, place, arg) =>
           thread'[t].at = place /\ thread'[t].ups = thread[t].ups
      /\ \A place : Become(t, place) =>
           thread'[t].at = place /\ thread'[t].ups = thread[t].ups
      /\ Finish(t) => thread'[t].at = "free"
  <2>1. ThreadsOK
    BY DEF TypeOK
  <2> QED BY <2>1, Moves
<1> USE DEF At, LockInv, LocksAreReleased, HoldsActionLock, NoStaleShutdown, Monitoring,
            ShuttingDown, Idle, DesktopHandled, StartPlaces, files, fields
<1>0. /\ \A s \in Thread \ {t} : thread'[s] = thread[s]
      /\ thread[t].ups \in UPS
      /\ \A s \in Thread : thread[s].ups \in UPS \/ thread[s].at = "free"
      /\ NoThread \notin Thread
  BY StepOfOne, ThreadAssumption DEF TypeOK, ThreadsOK
<1>f. /\ mode \in [UPS -> Modes]
      /\ startLock \in [UPS -> Thread \cup {NoThread}]
      /\ actionLock \in [UPS -> Thread \cup {NoThread}]
  BY DEF TypeOK
<1>1. CASE \/ ReadStatus(t) \/ ReadNothing(t) \/ Note(t) \/ NoteLog(t) \/ NoteOpen(t)
           \/ Dispatch(t) \/ Follow(t) \/ FollowBlind(t)
  BY <1>0, <1>m, <1>f, <1>1 DEF ReadStatus, ReadNothing, Note, NoteLog, NoteOpen, Dispatch, Follow, FollowBlind
<1>2. CASE Lock(t)
  BY <1>0, <1>m, <1>f, <1>2 DEF Lock, StartLockFree
<1>3. CASE Start(t) \/ StartLog(t) \/ Choose(t) \/ Save(t) \/ Prompt(t)
  BY <1>0, <1>m, <1>f, <1>3 DEF Start, StartLog, Choose, Save, Prompt, SetMode
<1>4. CASE Arm(t) \/ Prompted(t)
  <2>1. /\ UNCHANGED <<mode, actionLock>> /\ thread[t].at \in StartPlaces
        /\ \/ thread'[t].at = "prompt" /\ thread'[t].ups = thread[t].ups /\ startLock' = startLock
           \/ EndStart(t)
    BY <1>m, <1>4 DEF Arm, Prompted
  <2>2. CASE EndStart(t)
    <3>1. CASE startLock[thread[t].ups] = t
      <4>1. /\ thread'[t].at = "free"
            /\ startLock' = [startLock EXCEPT ![thread[t].ups] = NoThread]
        BY <1>0, <1>m, <1>f, <2>2, <3>1 DEF EndStart
      <4>2. \A u \in UPS : startLock[u] = t => u = thread[t].ups
        BY <1>0
      <4>3. LocksAreReleased'
        BY <1>0, <1>f, <2>1, <4>1, <4>2
      <4>4. HoldsActionLock' /\ NoStaleShutdown'
        BY <1>0, <1>f, <2>1, <4>1
      <4> QED BY <4>3, <4>4
    <3>2. CASE startLock[thread[t].ups] # t
      BY <1>0, <1>m, <1>f, <2>1, <2>2, <3>2 DEF EndStart
    <3> QED BY <3>1, <3>2
  <2> QED BY <1>0, <1>f, <2>1, <2>2
<1>5. CASE \/ DeadlineReached(t) \/ DeadlineAhead(t) \/ Reset(t) \/ CancelRead(t) \/ CancelSave(t)
  BY <1>0, <1>m, <1>f, <1>5 DEF DeadlineReached, DeadlineAhead, Reset, CancelRead, CancelSave
<1>6. CASE ExecRead(t)
  <2>1. /\ UNCHANGED <<mode, startLock>>
        /\ thread[t].at = "exec" /\ actionLock[thread[t].ups] = NoThread
        /\ \/ /\ mode[thread[t].ups] = Monitoring
              /\ actionLock' = [actionLock EXCEPT ![thread[t].ups] = t]
              /\ thread'[t].at = "execSave" /\ thread'[t].ups = thread[t].ups
           \/ actionLock' = actionLock /\ thread'[t].at = "free"
    BY <1>m, <1>6 DEF ExecRead, ActionLockFree
  <2>2. LocksAreReleased'
    BY <1>0, <1>f, <2>1
  <2>3. HoldsActionLock' /\ NoStaleShutdown'
    BY <1>0, <1>f, <2>1
  <2> QED BY <2>2, <2>3
<1>7. CASE ExecSave(t)
  <2>1. /\ startLock' = startLock
        /\ thread[t].at = "execSave" /\ thread'[t].at \in {"force", "wake", "terminal", "hold"}
        /\ mode' = [mode EXCEPT ![thread[t].ups] = ShuttingDown]
        /\ actionLock' = [actionLock EXCEPT ![thread[t].ups] = NoThread]
    BY <1>m, <1>7 DEF ExecSave, SetMode, WorkerFor
  <2>2. \A s \in Thread \ {t} : thread[s].at \in {"execSave", "settle"} => thread[s].ups # thread[t].ups
    BY <1>0, <2>1
  <2>3. LocksAreReleased'
    BY <1>0, <1>f, <2>1
  <2>4. HoldsActionLock' /\ NoStaleShutdown'
    BY <1>0, <1>f, <2>1, <2>2
  <2> QED BY <2>3, <2>4
<1>8. CASE Leave(t)
  <2>1. /\ UNCHANGED <<startLock, actionLock>>
        /\ thread[t].at = "leave" /\ thread'[t].at = "cancel"
        /\ mode' = [mode EXCEPT ![thread[t].ups] = Idle]
        /\ actionLock[thread[t].ups] = NoThread
    BY <1>m, <1>8 DEF Leave, ActionLockFree, LeaveMonitoring, SetMode
  <2>2. \A s \in Thread \ {t} : thread[s].at \in {"execSave", "settle"} => thread[s].ups # thread[t].ups
    BY <1>0, <2>1
  <2>3. LocksAreReleased'
    BY <1>0, <1>f, <2>1
  <2>4. HoldsActionLock' /\ NoStaleShutdown'
    BY <1>0, <1>f, <2>1, <2>2
  <2> QED BY <2>3, <2>4
<1>9. CASE NotifyRead(t) \/ AckSave(t)
  BY <1>0, <1>m, <1>f, <1>9 DEF NotifyRead, AckSave
<1>10. CASE NotifyDown(t)
  <2>1. /\ UNCHANGED <<startLock, actionLock>>
        /\ thread[t].at = "notifyDown" /\ thread'[t].at \in {"free", "terminal"}
        /\ mode' = mode \/ mode' = [mode EXCEPT ![thread[t].ups] = ShuttingDown]
        /\ actionLock[thread[t].ups] = NoThread
    BY <1>m, <1>10 DEF NotifyDown, ActionLockFree, SetMode, fields
  <2>2. \A s \in Thread \ {t} : thread[s].at \in {"execSave", "settle"} => thread[s].ups # thread[t].ups
    BY <1>0, <2>1
  <2>3. LocksAreReleased'
    BY <1>0, <1>f, <2>1
  <2>4. HoldsActionLock' /\ NoStaleShutdown'
    BY <1>0, <1>f, <2>1, <2>2
  <2> QED BY <2>3, <2>4
<1>11. CASE NotifySuspend(t)
  BY <1>0, <1>m, <1>f, <1>11 DEF NotifySuspend, SetMode
<1>12. CASE \/ PushShutdown(t) \/ Wake(t) \/ WakeExpires(t) \/ WakePush(t) \/ Wait(t)
            \/ WaitExpires(t) \/ Hold(t) \/ Look(t) \/ HoldExpires(t) \/ Issue(t)
  BY <1>0, <1>m, <1>f, <1>12 DEF PushShutdown, Wake, WakeExpires, WakePush, Wait, WaitExpires, Hold, Look,
                     HoldExpires, Issue
<1>13. CASE Terminal(t)
  <2>1. /\ UNCHANGED <<mode, startLock>>
        /\ thread[t].at = "terminal" /\ actionLock[thread[t].ups] = NoThread
        /\ \/ /\ actionLock' = [actionLock EXCEPT ![thread[t].ups] = t]
              /\ thread'[t].at = "settle" /\ thread'[t].ups = thread[t].ups
           \/ actionLock' = actionLock /\ thread'[t].at \in {"free", "cut", "fsd"}
    BY <1>m, <1>13 DEF Terminal, ActionLockFree
  <2>2. LocksAreReleased'
    BY <1>0, <1>f, <2>1
  <2>3. HoldsActionLock' /\ NoStaleShutdown'
    BY <1>0, <1>f, <2>1
  <2> QED BY <2>2, <2>3
<1>14. CASE Settle(t)
  <2>1. /\ startLock' = startLock
        /\ thread[t].at = "settle" /\ thread'[t].at = "free"
        /\ mode' = [mode EXCEPT ![thread[t].ups] = DesktopHandled]
        /\ actionLock' = [actionLock EXCEPT ![thread[t].ups] = NoThread]
    BY <1>m, <1>14 DEF Settle, LeaveMonitoring, SetMode
  <2>2. \A s \in Thread \ {t} : thread[s].at \in {"execSave", "settle"} => thread[s].ups # thread[t].ups
    BY <1>0, <2>1
  <2>3. LocksAreReleased'
    BY <1>0, <1>f, <2>1
  <2>4. HoldsActionLock' /\ NoStaleShutdown'
    BY <1>0, <1>f, <2>1, <2>2
  <2> QED BY <2>3, <2>4
<1> QED
  BY <1>1, <1>2, <1>3, <1>4, <1>5, <1>6, <1>7, <1>8, <1>9, <1>10, <1>11, <1>12, <1>13, <1>14 DEF Step

LEMMA LockNext == TypeOK /\ LockInv /\ [Next]_vars => LockInv'
<1> SUFFICES ASSUME TypeOK, LockInv, [Next]_vars PROVE LockInv'
  OBVIOUS
<1> USE DEF At, LockInv, LocksAreReleased, HoldsActionLock, NoStaleShutdown, StartPlaces
<1>1. ASSUME NEW t \in Thread, NEW u \in UPS, Begin(t, u) PROVE LockInv'
  <2>1. /\ thread[t].at = "free"
        /\ thread'[t].at \notin StartPlaces \cup {"execSave", "settle"}
        /\ \A s \in Thread \ {t} : thread'[s] = thread[s]
        /\ UNCHANGED <<mode, startLock, actionLock>>
    BY <1>1, BeginOfOne DEF TypeOK
  <2>2. LocksAreReleased'
    BY <2>1
  <2>3. HoldsActionLock' /\ NoStaleShutdown'
    BY <2>1
  <2> QED BY <2>2, <2>3
<1>2. ASSUME NEW t \in Thread, Step(t) PROVE LockInv'
  BY <1>2, LockStep
<1>3. CASE World
  BY <1>3, ThreadAssumption DEF World, LoseNotice, PowerChange, AskDesktop, Restart, Free, files, fields
<1>4. CASE UNCHANGED vars
  BY <1>4 DEF vars, files, fields
<1> QED
  BY <1>1, <1>2, <1>3, <1>4 DEF Next

LEMMA LocksHold == Spec => []LockInv
  BY TypeCorrect, LockInit, LockNext, PTL DEF Spec

\* A lock is held only by a thread that will give it back without waiting for one.
THEOREM LocksReleased == Spec => []LocksAreReleased
  BY LocksHold, PTL DEF LockInv

\* A phase action does not save shutting_down over a stand-down.
THEOREM StaleShutdownImpossible == Spec => []NoStaleShutdown
  BY LocksHold, PTL DEF LockInv

=============================================================================
