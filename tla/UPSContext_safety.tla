-------------------------- MODULE UPSContext_safety --------------------------
(***************************************************************************)
(* Safety of the contexts for every set of UPSes, desktops and threads.    *)
(* Each section strengthens one property of UPSContext to an invariant     *)
(* that every step keeps, and looks at the actions in the order of Step.   *)
(***************************************************************************)
EXTENDS UPSContext_proofs

(***************************************************************************)
(* A shutdown has its worker.  Nothing has to be added: a step that saves  *)
(* shutting_down goes on as the worker, and a worker stops only where it   *)
(* finds another mode or issues the command.                               *)
(***************************************************************************)

WorksFor(t, u) == thread[t].ups = u /\ thread[t].at \in WorkerPlaces

\* What a step of thread t must show of each UPS.
LEMMA WorkerKept ==
  ASSUME ShutdownHasWorker, NEW t \in Thread,
         \A s \in Thread \ {t} : thread'[s] = thread[s],
         \A u \in UPS : mode'[u] = ShuttingDown =>
           \/ WorksFor(t, u)'
           \/ acted'[u]
           \/ mode[u] = ShuttingDown /\ (acted[u] => acted'[u]) /\ ~WorksFor(t, u)
  PROVE  ShutdownHasWorker'
  BY DEF ShutdownHasWorker, WorksFor

\* Steps that are none of a worker's and do not touch the mode.
LEMMA WorkerUntouched ==
  ASSUME ShutdownHasWorker, NEW t \in Thread,
         \A s \in Thread \ {t} : thread'[s] = thread[s],
         thread[t].at \notin WorkerPlaces,
         UNCHANGED <<mode, acted>>
  PROVE  ShutdownHasWorker'
  BY WorkerKept DEF WorksFor

\* Steps that are none of a worker's and save another mode than shutting_down.
LEMMA WorkerOfOthers ==
  ASSUME TypeOK, ShutdownHasWorker, NEW t \in Thread,
         \A s \in Thread \ {t} : thread'[s] = thread[s],
         thread[t].at \notin WorkerPlaces,
         NEW u \in UPS, NEW m \in Modes \ {ShuttingDown}, SetMode(u, m)
  PROVE  ShutdownHasWorker'
<1>0. mode \in [UPS -> Modes] /\ acted \in [UPS -> BOOLEAN]
  BY DEF TypeOK
<1>1. \A v \in UPS : mode'[v] = ShuttingDown => v # u /\ mode[v] = ShuttingDown
  BY <1>0 DEF SetMode
<1>2. \A v \in UPS : v # u /\ acted[v] => acted'[v]
  BY <1>0 DEF SetMode
<1> QED BY <1>1, <1>2, WorkerKept DEF WorksFor

\* Steps of a thread that is the worker afterwards, or leaves no shutting_down.
LEMMA WorkerOfThis ==
  ASSUME ShutdownHasWorker, NEW t \in Thread,
         \A s \in Thread \ {t} : thread'[s] = thread[s],
         NEW u \in UPS, u = thread[t].ups,
         \A v \in UPS \ {u} : mode'[v] = mode[v] /\ (acted[v] => acted'[v]),
         mode'[u] = ShuttingDown => WorksFor(t, u)' \/ acted'[u]
  PROVE  ShutdownHasWorker'
<1> SUFFICES ASSUME NEW v \in UPS, mode'[v] = ShuttingDown
             PROVE  acted'[v] \/ \E s \in Thread : WorksFor(s, v)'
  BY DEF ShutdownHasWorker, WorksFor
<1>1. CASE v = u
  BY <1>1
<1>2. CASE v # u
  <2>1. acted[v] \/ \E s \in Thread \ {t} : WorksFor(s, v)
    BY <1>2 DEF ShutdownHasWorker, WorksFor
  <2> QED BY <1>2, <2>1 DEF WorksFor
<1> QED BY <1>1, <1>2

LEMMA WorkerStep ==
  ASSUME TypeOK, ShutdownHasWorker, NEW t \in Thread, Step(t)
  PROVE  ShutdownHasWorker'
<1> USE DEF At, files, fields, world, history
<1>u. PICK u \in UPS : u = thread[t].ups
  BY StepOfOne DEF TypeOK
<1>1. /\ \A s \in Thread \ {t} : thread'[s] = thread[s]
      /\ u = thread[t].ups
  BY <1>u, StepOfOne DEF TypeOK
<1>m. /\ \A place, arg : Goto(t, place, arg) => thread'[t].at = place /\ thread'[t].ups = u
      /\ \A place : Become(t, place) => thread'[t].at = place /\ thread'[t].ups = u
  BY <1>u, Moves DEF TypeOK
<1>2. CASE \/ ReadStatus(t) \/ ReadNothing(t) \/ Note(t) \/ NoteLog(t) \/ NoteOpen(t)
           \/ Dispatch(t) \/ Follow(t) \/ FollowBlind(t) \/ Lock(t) \/ Start(t) \/ StartLog(t)
           \/ Choose(t)
  <2>1. UNCHANGED <<mode, acted>> /\ thread[t].at \notin WorkerPlaces
    BY <1>2 DEF ReadStatus, ReadNothing, Note, NoteLog, NoteOpen, Dispatch, Follow, FollowBlind, Lock,
                Start, StartLog, Choose, WorkerPlaces
  <2> QED BY <1>1, <2>1, WorkerUntouched
<1>3. CASE \/ Arm(t) \/ Prompt(t) \/ Prompted(t) \/ DeadlineReached(t) \/ DeadlineAhead(t)
           \/ ExecRead(t) \/ Reset(t) \/ CancelRead(t) \/ CancelSave(t) \/ NotifyRead(t)
           \/ AckSave(t)
  <2>1. UNCHANGED <<mode, acted>> /\ thread[t].at \notin WorkerPlaces
    BY <1>3 DEF Arm, Prompt, Prompted, DeadlineReached, DeadlineAhead, ExecRead, Reset,
                CancelRead, CancelSave, NotifyRead, AckSave, WorkerPlaces
  <2> QED BY <1>1, <2>1, WorkerUntouched
<1>4. CASE Save(t) \/ NotifySuspend(t)
  <2>1. SetMode(u, Monitoring) /\ thread[t].at \notin WorkerPlaces
    BY <1>1, <1>4 DEF Save, NotifySuspend, WorkerPlaces
  <2>2. Monitoring \in Modes \ {ShuttingDown}
    BY DEF Modes, Monitoring, ShuttingDown
  <2> QED BY <1>1, <2>1, <2>2, WorkerOfOthers
<1>5. CASE Leave(t)
  <2>1. SetMode(u, Idle) /\ thread[t].at \notin WorkerPlaces
    BY <1>1, <1>5 DEF Leave, LeaveMonitoring, WorkerPlaces
  <2>2. Idle \in Modes \ {ShuttingDown}
    BY DEF Modes, Idle, ShuttingDown
  <2> QED BY <1>1, <2>1, <2>2, WorkerOfOthers
<1>6. CASE ExecSave(t)
  <2>1. SetMode(u, ShuttingDown) /\ thread[t].at = "execSave" /\ WorksFor(t, u)'
    BY <1>1, <1>m, <1>6 DEF ExecSave, WorkerFor, WorkerPlaces, WorksFor
  <2>2. \A v \in UPS : v # u => mode'[v] = mode[v] /\ acted'[v] = acted[v]
    BY <1>1, <2>1 DEF TypeOK, SetMode
  <2> QED BY <1>1, <2>1, <2>2, WorkerOfThis
<1>7. CASE NotifyDown(t)
  <2>1. CASE mode[u] = ShuttingDown
    <3>1. UNCHANGED <<mode, acted>> /\ thread[t].at \notin WorkerPlaces
      BY <1>1, <1>7, <2>1 DEF NotifyDown, WorkerPlaces
    <3> QED BY <1>1, <3>1, WorkerUntouched
  <2>2. CASE mode[u] # ShuttingDown
    <3>1. SetMode(u, ShuttingDown) /\ thread[t].at = "notifyDown" /\ WorksFor(t, u)'
      BY <1>1, <1>m, <1>7, <2>2 DEF NotifyDown, WorkerPlaces, WorksFor
    <3>2. \A v \in UPS : v # u => mode'[v] = mode[v] /\ acted'[v] = acted[v]
      <4>1. DOMAIN mode = UPS /\ DOMAIN acted = UPS
        BY DEF TypeOK
      <4> QED BY <3>1, <4>1 DEF SetMode
    <3> QED BY <1>1, <3>1, <3>2, WorkerOfThis
  <2> QED BY <2>1, <2>2
<1>8. CASE \/ PushShutdown(t) \/ Wake(t) \/ WakeExpires(t) \/ WakePush(t) \/ Wait(t)
           \/ WaitExpires(t)
  <2>1. UNCHANGED <<mode, acted>> /\ (WorksFor(t, u)' \/ mode[u] # ShuttingDown)
    BY <1>1, <1>m, <1>8 DEF PushShutdown, Wake, WakeExpires, WakePush, Wait, WaitExpires, WorksFor, WorkerPlaces
  <2> QED BY <1>1, <2>1, WorkerOfThis
<1>9. CASE Hold(t) \/ Look(t) \/ HoldExpires(t)
  <2>1. UNCHANGED <<mode, acted>> /\ (WorksFor(t, u)' \/ mode[u] # ShuttingDown)
    BY <1>1, <1>m, <1>9 DEF Hold, Look, HoldExpires, WorksFor, WorkerPlaces
  <2> QED BY <1>1, <2>1, WorkerOfThis
<1>10. CASE Terminal(t)
  <2>1. UNCHANGED <<mode, acted>> /\ (WorksFor(t, u)' \/ mode[u] # ShuttingDown)
    BY <1>1, <1>m, <1>10 DEF Terminal, WorksFor, WorkerPlaces
  <2> QED BY <1>1, <2>1, WorkerOfThis
<1>11. CASE Settle(t)
  <2>1. SetMode(u, DesktopHandled)
    BY <1>1, <1>11 DEF Settle, LeaveMonitoring
  <2>2. /\ mode'[u] # ShuttingDown
        /\ \A v \in UPS : v # u => mode'[v] = mode[v] /\ acted'[v] = acted[v]
    BY <1>1, <2>1 DEF TypeOK, SetMode, DesktopHandled, ShuttingDown
  <2> QED BY <1>1, <2>2, WorkerOfThis
<1>12. CASE Issue(t)
  <2>1. /\ mode' = mode
        /\ mode[u] = ShuttingDown => acted'[u]
        /\ \A v \in UPS \ {u} : acted'[v] = acted[v]
    <3>1. /\ mode' = mode
          /\ acted' = [acted EXCEPT ![u] = acted[u] \/ mode[u] = ShuttingDown]
      BY <1>1, <1>12 DEF Issue
    <3>2. mode[u] = ShuttingDown => (acted[u] \/ mode[u] = ShuttingDown) = TRUE
      OBVIOUS
    <3>3. mode[u] = ShuttingDown => acted'[u] = TRUE
      BY <1>1, <3>1, <3>2 DEF TypeOK
    <3>4. \A v \in UPS \ {u} : acted'[v] = acted[v]
      BY <1>1, <3>1 DEF TypeOK
    <3> QED BY <3>1, <3>3, <3>4
  <2> QED BY <1>1, <2>1, WorkerOfThis
<1> QED
  BY <1>2, <1>3, <1>4, <1>5, <1>6, <1>7, <1>8, <1>9, <1>10, <1>12, <1>11 DEF Step

LEMMA WorkerNext == TypeOK /\ ShutdownHasWorker /\ [Next]_vars => ShutdownHasWorker'
<1> SUFFICES ASSUME TypeOK, ShutdownHasWorker, [Next]_vars PROVE ShutdownHasWorker'
  OBVIOUS
<1>1. ASSUME NEW t \in Thread, NEW u \in UPS, Begin(t, u) PROVE ShutdownHasWorker'
  <2>1. /\ thread[t].at \notin WorkerPlaces
        /\ \A s \in Thread \ {t} : thread'[s] = thread[s]
        /\ UNCHANGED <<mode, acted>>
    BY <1>1, BeginOfOne DEF TypeOK, history, WorkerPlaces
  <2> QED BY <2>1, WorkerUntouched
<1>2. ASSUME NEW t \in Thread, Step(t) PROVE ShutdownHasWorker'
  BY <1>2, WorkerStep
<1>3. CASE World
  <2>1. CASE UNCHANGED <<mode, acted, thread>>
    BY <2>1 DEF ShutdownHasWorker
  <2>2. CASE Restart
    BY <2>2 DEF Restart, ModeAfterRestart, ShutdownHasWorker, Idle, ShuttingDown
  <2> QED
    BY <1>3, <2>1, <2>2 DEF World, LoseNotice, PowerChange, AskDesktop, files, fields, history
<1>4. CASE UNCHANGED vars
  BY <1>4 DEF ShutdownHasWorker, vars, files, history
<1> QED
  BY <1>1, <1>2, <1>3, <1>4 DEF Next

\* What is on file as shutting_down is somebody's business, through every
\* interleaving, restart and lost event.
THEOREM ShutdownIsWorkedOn == Spec => []ShutdownHasWorker
<1>1. Init => ShutdownHasWorker
  BY DEF Init, ShutdownHasWorker, Idle, ShuttingDown
<1> QED
  BY <1>1, TypeCorrect, WorkerNext, PTL DEF Spec

(***************************************************************************)
(* An observer spares the desktop.  It only ever enters offline_wait, so   *)
(* it asks nobody, and an observer's phase action starts no worker that    *)
(* addresses the desktop.                                                  *)
(***************************************************************************)

DesktopPlaces == {"prompt", "prompted", "force", "wake", "wakePush", "wait"}

ObserverInv ==
  \A o \in Observer :
    /\ command[o] = "none"
    /\ \A t \in Thread : thread[t].ups = o =>
         /\ thread[t].at \notin DesktopPlaces
         /\ thread[t].at \in {"save", "arm"} => thread[t].arg = OfflineWait

\* What a step of thread t must show.
LEMMA SparesKept ==
  ASSUME ObserverInv, NEW t \in Thread,
         \A s \in Thread \ {t} : thread'[s] = thread[s],
         NEW u \in UPS,
         \A o \in Observer \ {u} : command'[o] = command[o],
         thread'[t].ups \in {u, NoUPS},
         u \in Observer =>
           /\ command'[u] = "none"
           /\ thread'[t].at \notin DesktopPlaces
           /\ thread'[t].at \in {"save", "arm"} => thread'[t].arg = OfflineWait
  PROVE  ObserverInv'
<1>1. \A o \in Observer : o # NoUPS
  BY RolesAssumption DEF UPS
<1> QED BY <1>1 DEF ObserverInv

LEMMA CommandOfOne ==
  ASSUME TypeOK, NEW t \in Thread, Step(t)
  PROVE  \/ command' = command
         \/ thread[t].at \in {"prompt", "cancelSave", "ackSave", "force"}
            /\ \E c \in {"none", "ups_state", "critical_shutdown"} :
                 /\ command' = [command EXCEPT ![thread[t].ups] = c]
                 /\ thread[t].at \in {"cancelSave", "ackSave"} => c = "none"
<1> USE DEF At, files
<1>1. CASE \/ ReadStatus(t) \/ ReadNothing(t) \/ Note(t) \/ NoteLog(t) \/ NoteOpen(t)
           \/ Dispatch(t) \/ Follow(t) \/ FollowBlind(t) \/ Lock(t) \/ Start(t) \/ StartLog(t)
           \/ Choose(t) \/ Save(t) \/ Arm(t) \/ Prompted(t)
  BY <1>1 DEF ReadStatus, ReadNothing, Note, NoteLog, NoteOpen, Dispatch, Follow, FollowBlind, Lock,
              Start, StartLog, Choose, Save, Arm, Prompted
<1>2. CASE \/ DeadlineReached(t) \/ DeadlineAhead(t) \/ ExecRead(t) \/ ExecSave(t)
           \/ Reset(t) \/ Leave(t) \/ CancelRead(t) \/ NotifyRead(t) \/ NotifyDown(t)
           \/ NotifySuspend(t)
  BY <1>2 DEF DeadlineReached, DeadlineAhead, ExecRead, ExecSave, Reset, Leave, CancelRead,
              NotifyRead, NotifyDown, NotifySuspend
<1>3. CASE \/ Wake(t) \/ WakeExpires(t) \/ WakePush(t) \/ Wait(t) \/ WaitExpires(t)
           \/ Terminal(t) \/ Settle(t) \/ Hold(t) \/ Look(t) \/ HoldExpires(t) \/ Issue(t)
  BY <1>3 DEF Wake, WakeExpires, WakePush, Wait, WaitExpires, Terminal, Settle, LeaveMonitoring,
              Hold, Look, HoldExpires, Issue
<1>4. CASE Prompt(t) \/ PushShutdown(t)
  BY <1>4 DEF Prompt, PushShutdown
<1>5. CASE CancelSave(t) \/ AckSave(t)
  BY <1>5 DEF CancelSave, AckSave
<1> QED
  BY <1>1, <1>2, <1>3, <1>4, <1>5 DEF Step

LEMMA SparesStep ==
  ASSUME TypeOK, ObserverInv, NEW t \in Thread, Step(t)
  PROVE  ObserverInv'
<1> USE DEF At
<1>u. PICK u \in UPS : u = thread[t].ups
  BY StepOfOne DEF TypeOK
<1>0. /\ \A s \in Thread \ {t} : thread'[s] = thread[s]
      /\ u = thread[t].ups
      /\ thread'[t].ups \in {u, NoUPS}
  <2>1. ThreadsOK
    BY DEF TypeOK
  <2>2. Free.ups = NoUPS
    BY DEF Free
  <2> QED BY <1>u, <2>1, <2>2, StepOfOne
<1>m. /\ \A place, arg : Goto(t, place, arg) => thread'[t].at = place /\ thread'[t].arg = arg
      /\ \A place : Become(t, place) => thread'[t].at = place
      /\ Finish(t) => thread'[t].at = "free"
  BY Moves DEF TypeOK
<1>c. /\ \A o \in Observer \ {u} : command'[o] = command[o]
      /\ u \in Observer => command'[u] = "none"
  <2>1. u \in Observer => thread[t].at \notin DesktopPlaces /\ command[u] = "none"
    BY <1>0 DEF ObserverInv
  <2>2. CASE command' = command
    BY <2>1, <2>2
  <2>3. CASE command' # command
    <3>1. PICK c \in {"none", "ups_state", "critical_shutdown"} :
            /\ command' = [command EXCEPT ![u] = c]
            /\ thread[t].at \in {"prompt", "cancelSave", "ackSave", "force"}
            /\ thread[t].at \in {"cancelSave", "ackSave"} => c = "none"
      BY <1>0, <2>3, CommandOfOne
    <3>2. u \in Observer => c = "none"
      BY <2>1, <3>1 DEF DesktopPlaces
    <3> QED BY <3>1, <3>2 DEF TypeOK, UPS
  <2> QED BY <2>2, <2>3
<1> SUFFICES ASSUME u \in Observer
             PROVE  /\ thread'[t].at \notin DesktopPlaces
                    /\ thread'[t].at \in {"save", "arm"} => thread'[t].arg = OfflineWait
  BY <1>0, <1>c, SparesKept
<1>d. /\ thread[t].at \notin DesktopPlaces
      /\ thread[t].at \in {"save", "arm"} => thread[t].arg = OfflineWait
      /\ u \notin Primary
  BY <1>0, RolesAssumption DEF ObserverInv
<1> USE DEF DesktopPlaces
<1>1. CASE \/ ReadStatus(t) \/ ReadNothing(t) \/ Note(t) \/ NoteLog(t) \/ NoteOpen(t)
           \/ Dispatch(t) \/ Follow(t) \/ FollowBlind(t) \/ Lock(t) \/ Start(t) \/ StartLog(t)
  BY <1>m, <1>1 DEF ReadStatus, ReadNothing, Note, NoteLog, NoteOpen, Dispatch, Follow, FollowBlind, Lock, Start,
                    StartLog
<1>2. CASE Choose(t)
  BY <1>0, <1>m, <1>d, <1>2 DEF Choose, Coordinates
<1>3. CASE Save(t)
  BY <1>0, <1>m, <1>d, <1>3 DEF Save
<1>4. CASE Arm(t)
  BY <1>0, <1>m, <1>d, <1>4 DEF Arm, EndStart, OfflineWait, UserPrompt
<1>5. CASE \/ DeadlineReached(t) \/ DeadlineAhead(t) \/ ExecRead(t) \/ Reset(t) \/ Leave(t)
           \/ CancelRead(t) \/ CancelSave(t) \/ NotifyRead(t) \/ NotifyDown(t)
           \/ NotifySuspend(t) \/ AckSave(t)
  BY <1>m, <1>5 DEF DeadlineReached, DeadlineAhead, ExecRead, Reset, Leave, CancelRead, CancelSave,
                    NotifyRead, NotifyDown, NotifySuspend, AckSave
<1>6. CASE ExecSave(t)
  BY <1>0, <1>m, <1>d, <1>6 DEF ExecSave, WorkerFor
<1>7. CASE \/ Prompt(t) \/ Prompted(t) \/ PushShutdown(t) \/ Wake(t) \/ WakeExpires(t)
           \/ WakePush(t) \/ Wait(t) \/ WaitExpires(t)
  BY <1>d, <1>7 DEF Prompt, Prompted, PushShutdown, Wake, WakeExpires, WakePush, Wait, WaitExpires
<1>8. CASE Terminal(t) \/ Settle(t) \/ Hold(t) \/ Look(t) \/ HoldExpires(t) \/ Issue(t)
  BY <1>m, <1>8 DEF Terminal, Settle, Hold, Look, HoldExpires, Issue
<1> QED
  BY <1>1, <1>2, <1>3, <1>4, <1>5, <1>6, <1>7, <1>8 DEF Step

LEMMA SparesNext == TypeOK /\ ObserverInv /\ [Next]_vars => ObserverInv'
<1> SUFFICES ASSUME TypeOK, ObserverInv, [Next]_vars PROVE ObserverInv'
  OBVIOUS
<1>1. ASSUME NEW t \in Thread, NEW u \in UPS, Begin(t, u) PROVE ObserverInv'
  <2>1. /\ \A s \in Thread \ {t} : thread'[s] = thread[s]
        /\ command' = command /\ thread'[t].ups = u
        /\ thread'[t].at \notin DesktopPlaces \cup {"save", "arm"}
    BY <1>1, BeginOfOne DEF TypeOK, DesktopPlaces
  <2>2. u \in Observer => command[u] = "none"
    BY DEF ObserverInv
  <2> QED BY <2>1, <2>2, SparesKept
<1>2. ASSUME NEW t \in Thread, Step(t) PROVE ObserverInv'
  BY <1>2, SparesStep
<1>3. CASE World
  <2>1. CASE UNCHANGED <<command, thread>>
    BY <2>1 DEF ObserverInv
  <2>2. CASE Restart
    BY <2>2, RolesAssumption DEF Restart, ObserverInv, Free, UPS, DesktopPlaces
  <2> QED
    BY <1>3, <2>1, <2>2 DEF World, LoseNotice, PowerChange, AskDesktop, files, fields, history
<1>4. CASE UNCHANGED vars
  BY <1>4 DEF ObserverInv, vars, files
<1> QED
  BY <1>1, <1>2, <1>3, <1>4 DEF Next

\* An observer never coordinates a desktop, whatever else is configured.
THEOREM ObserversSpareDesktop == Spec => []ObserverSparesDesktop
<1>1. Init => ObserverInv
  BY RolesAssumption DEF Init, ObserverInv, Free, UPS, DesktopPlaces
<1>2. ObserverInv => ObserverSparesDesktop
  BY DEF ObserverInv, ObserverSparesDesktop, DesktopPlaces
<1> QED
  BY <1>1, <1>2, TypeCorrect, SparesNext, PTL DEF Spec

(***************************************************************************)
(* Nothing is shut down without an outage of its own, given what the code  *)
(* needs for it: a low battery is only ever shown off mains (the code      *)
(* takes "OL LB" for both), and no desktop has two observers.  Followed    *)
(* backwards, fsd needs _ups_on_battery, which only a signal of an outage  *)
(* sets; upscmd needs an observer that has left idle, and what starts an   *)
(* observer is a signal of its own outage, as it has no desktop UPS to     *)
(* follow.                                                                 *)
(***************************************************************************)

OutageSignals == {"OB", "LB", "ONBATT", "LOWBATT"}

\* What the place of a thread tells of its UPS.
ThreadOut(t) ==
  /\ thread[t].at \in {"note", "noteLog", "noteOpen", "dispatch"} /\ thread[t].arg \in OutageSignals
       => wasOut[thread[t].ups]
  /\ thread[t].at \in {"lock", "start", "startLog", "choose", "save"} /\ thread[t].ups \in Observer
       => wasOut[thread[t].ups]
  /\ thread[t].at \in {"notifyDown", "notifySuspend", "settle"} => thread[t].ups \in Primary
  /\ thread[t].at \in {"hold", "look", "fsd", "cut"} => wasOut[thread[t].ups]

OutInv ==
  /\ \A u \in UPS :
       /\ power[u] # "OL LB"
       /\ OffMains(power[u]) => wasOut[u]
       /\ "ONBATT" \in notices[u] \/ "LOWBATT" \in notices[u] => wasOut[u]
       /\ onBattery[u] => wasOut[u]
  /\ \A o \in Observer : mode[o] # Idle => wasOut[o]
  /\ \A t \in Thread : ThreadOut(t)

LEMMA OutKept ==
  ASSUME OutInv, NEW t \in Thread,
         \A s \in Thread \ {t} : thread'[s] = thread[s],
         UNCHANGED <<power, notices, wasOut>>,
         NEW u \in UPS,
         \A v \in UPS \ {u} : mode'[v] = mode[v] /\ onBattery'[v] = onBattery[v],
         onBattery'[u] => wasOut[u],
         u \in Observer /\ mode'[u] # Idle => wasOut[u],
         ThreadOut(t)'
  PROVE  OutInv'
<1>1. \A s \in Thread : ThreadOut(s)'
  BY DEF OutInv, ThreadOut
<1>2. \A v \in UPS : onBattery'[v] => wasOut'[v]
  BY DEF OutInv
<1>3. \A o \in Observer : mode'[o] # Idle => wasOut'[o]
  BY DEF OutInv, UPS
<1> QED BY <1>1, <1>2, <1>3 DEF OutInv

\* A thread changes nothing outside, and the mode and the power that is known of
\* its own UPS only.
LEMMA StepIsLocal ==
  ASSUME TypeOK, NEW t \in Thread, Step(t)
  PROVE  /\ UNCHANGED <<power, notices, wasOut>>
         /\ onBattery' = onBattery \/ Note(t)
         /\ \/ mode' = mode
            \/ \E m \in Modes : mode' = [mode EXCEPT ![thread[t].ups] = m]
<1> USE DEF At, files, fields, world, history
<1>1. CASE \/ ReadStatus(t) \/ ReadNothing(t) \/ Note(t) \/ NoteLog(t) \/ NoteOpen(t)
           \/ Dispatch(t) \/ Follow(t) \/ FollowBlind(t) \/ Lock(t) \/ Start(t) \/ StartLog(t)
           \/ Choose(t) \/ Arm(t) \/ Prompt(t) \/ Prompted(t)
  BY <1>1 DEF ReadStatus, ReadNothing, Note, NoteLog, NoteOpen, Dispatch, Follow, FollowBlind, Lock,
              Start, StartLog, Choose, Arm, Prompt, Prompted
<1>2. CASE \/ DeadlineReached(t) \/ DeadlineAhead(t) \/ ExecRead(t) \/ Reset(t) \/ CancelRead(t)
           \/ CancelSave(t) \/ NotifyRead(t) \/ AckSave(t)
  BY <1>2 DEF DeadlineReached, DeadlineAhead, ExecRead, Reset, CancelRead, CancelSave, NotifyRead,
              AckSave
<1>3. CASE \/ PushShutdown(t) \/ Wake(t) \/ WakeExpires(t) \/ WakePush(t) \/ Wait(t)
           \/ WaitExpires(t) \/ Terminal(t) \/ Hold(t) \/ Look(t) \/ HoldExpires(t) \/ Issue(t)
  BY <1>3 DEF PushShutdown, Wake, WakeExpires, WakePush, Wait, WaitExpires, Terminal, Hold, Look,
              HoldExpires, Issue
<1>4. CASE Save(t) \/ ExecSave(t) \/ NotifySuspend(t)
  BY <1>4 DEF Save, ExecSave, NotifySuspend, SetMode, Modes
<1>5. CASE Leave(t) \/ Settle(t)
  BY <1>5 DEF Leave, Settle, LeaveMonitoring, SetMode, Modes
<1>6. CASE NotifyDown(t)
  BY <1>6 DEF NotifyDown, SetMode, Modes
<1> QED
  BY <1>1, <1>2, <1>3, <1>4, <1>5, <1>6 DEF Step

SoloObservers == \A o \in Observer : DesktopPeers(o, Observer) = {}
LowMeansOut == \A u \in UPS : "OL LB" \notin Reports[u]

LEMMA OutStep ==
  ASSUME TypeOK, LockInv, OutInv, SoloObservers, NEW t \in Thread, Step(t)
  PROVE  OutInv'
<1> USE DEF At
<1>u. PICK u \in UPS : u = thread[t].ups
  BY StepOfOne DEF TypeOK
<1>1. /\ \A s \in Thread \ {t} : thread'[s] = thread[s]
      /\ u = thread[t].ups
      /\ UNCHANGED <<power, notices, wasOut>>
      /\ ThreadOut(t)
      /\ onBattery[u] => wasOut[u]
      /\ u \in Observer /\ mode[u] # Idle => wasOut[u]
  BY <1>u, StepOfOne, StepIsLocal DEF TypeOK, OutInv
<1>m. /\ \A place, arg : Goto(t, place, arg) =>
           thread'[t].at = place /\ thread'[t].ups = u /\ thread'[t].arg = arg
      /\ \A place : Become(t, place) => thread'[t].at = place /\ thread'[t].ups = u
      /\ Finish(t) => thread'[t].at = "free"
  BY <1>u, Moves DEF TypeOK
<1>l. \A v \in UPS \ {u} : mode'[v] = mode[v] /\ onBattery'[v] = onBattery[v]
  <2>1. \A v \in UPS \ {u} : mode'[v] = mode[v]
    <3>1. mode' = mode \/ \E m \in Modes : mode' = [mode EXCEPT ![u] = m]
      BY <1>1, StepIsLocal
    <3>2. mode \in [UPS -> Modes]
      BY DEF TypeOK
    <3> QED BY <3>1, <3>2
  <2>2. \A v \in UPS \ {u} : onBattery'[v] = onBattery[v]
    <3>1. CASE Note(t)
      <4>1. PICK out : onBattery' = [onBattery EXCEPT ![u] = out]
        BY <1>1, <3>1 DEF Note
      <4>2. onBattery \in [UPS -> BOOLEAN]
        BY DEF TypeOK
      <4> QED BY <4>1, <4>2
    <3> QED BY <3>1, StepIsLocal
  <2> QED BY <2>1, <2>2
<1>o. u \in Observer => ~DesktopUpsOnBattery(u) /\ u \notin Primary
  BY RolesAssumption DEF SoloObservers, DesktopUpsOnBattery
<1> SUFFICES /\ onBattery'[u] => wasOut[u]
             /\ u \in Observer /\ mode'[u] # Idle => wasOut[u]
             /\ ThreadOut(t)'
  BY <1>1, <1>l, OutKept
<1>2. CASE ReadStatus(t)
  <2>1. /\ thread'[t].at = "note" /\ thread'[t].ups = u
        /\ thread'[t].arg = SignalOf(power[u])
        /\ UNCHANGED <<mode, onBattery>>
    BY <1>1, <1>m, <1>2 DEF ReadStatus, files, fields
  <2>2. power[u] \in {"OL", "OB", "OB LB"}
    <3>1. power \in [UPS -> {"OL", "OB", "OB LB", "OL LB"}]
      BY DEF TypeOK
    <3>2. power[u] # "OL LB"
      BY DEF OutInv
    <3> QED BY <3>1, <3>2
  <2>3. SignalOf(power[u]) \in OutageSignals => OffMains(power[u])
    BY <2>2 DEF SignalOf, LowBattery, OffMains, OutageSignals
  <2>4. OffMains(power[u]) => wasOut[u]
    BY <1>1 DEF OutInv
  <2>5. ThreadOut(t)'
    BY <1>1, <2>1, <2>3, <2>4 DEF ThreadOut
  <2> QED BY <1>1, <2>1, <2>5
<1>3. CASE \/ ReadNothing(t) \/ DeadlineReached(t) \/ DeadlineAhead(t) \/ ExecRead(t)
           \/ Reset(t) \/ CancelRead(t) \/ CancelSave(t) \/ AckSave(t)
  BY <1>1, <1>m, <1>3 DEF ReadNothing, DeadlineReached, DeadlineAhead, ExecRead, Reset, CancelRead,
       CancelSave, AckSave, ThreadOut, OutageSignals, files, fields
<1>4. CASE Note(t)
  <2>1. onBattery'[u] => wasOut[u]
    BY <1>1, <1>4 DEF Note, IsOut, TypeOK, ThreadOut, OutageSignals
  <2>2. mode' = mode /\ ThreadOut(t)'
    BY <1>1, <1>m, <1>4 DEF Note, ThreadOut, files
  <2> QED BY <1>1, <2>1, <2>2
<1>5. CASE NoteLog(t) \/ NoteOpen(t)
  BY <1>1, <1>m, <1>5 DEF NoteLog, NoteOpen, ThreadOut, fields
<1>6. CASE Dispatch(t)
  BY <1>1, <1>m, <1>6 DEF Dispatch, ThreadOut, OutageSignals, LowSignals, files, fields
<1>7. CASE Follow(t) \/ FollowBlind(t)
  BY <1>1, <1>m, <1>o, <1>7 DEF Follow, FollowBlind, ThreadOut, files, fields
<1>8. CASE Lock(t) \/ Start(t) \/ StartLog(t) \/ Choose(t)
  BY <1>1, <1>m, <1>8 DEF Lock, Start, StartLog, Choose, ThreadOut, files, fields
<1>9. CASE Save(t)
  BY <1>1, <1>m, <1>9 DEF Save, ThreadOut, fields
<1>10. CASE Arm(t) \/ Prompt(t) \/ Prompted(t)
  BY <1>1, <1>m, <1>10 DEF Arm, Prompt, Prompted, EndStart, ThreadOut, files, fields
<1>11. CASE ExecSave(t)
  <2>1. u \in Observer => wasOut[u]
    BY <1>1, <1>11 DEF ExecSave, LockInv, NoStaleShutdown, Monitoring, Idle
  <2>2. onBattery' = onBattery /\ ThreadOut(t)'
    BY <1>1, <1>m, <1>11, <2>1 DEF ExecSave, WorkerFor, ThreadOut
  <2> QED BY <1>1, <2>1, <2>2
<1>12. CASE Leave(t)
  <2>1. mode' = [mode EXCEPT ![u] = Idle] /\ onBattery' = onBattery
    BY <1>1, <1>12 DEF Leave, LeaveMonitoring, SetMode
  <2>2. mode'[u] = Idle
    BY <2>1 DEF TypeOK
  <2>3. ThreadOut(t)'
    BY <1>m, <1>12 DEF Leave, ThreadOut
  <2> QED BY <1>1, <2>1, <2>2, <2>3
<1>13. CASE NotifyRead(t)
  BY <1>1, <1>m, <1>13 DEF NotifyRead, ThreadOut, files, fields
<1>14. CASE NotifyDown(t) \/ NotifySuspend(t)
  <2>1. u \notin Observer
    BY <1>1, <1>o, <1>14 DEF NotifyDown, NotifySuspend, ThreadOut
  <2>2. onBattery' = onBattery /\ ThreadOut(t)'
    BY <1>1, <1>m, <1>14 DEF NotifyDown, NotifySuspend, ThreadOut, fields
  <2> QED BY <1>1, <2>1, <2>2
<1>15. CASE \/ PushShutdown(t) \/ Wake(t) \/ WakeExpires(t) \/ WakePush(t) \/ Wait(t)
            \/ WaitExpires(t)
  BY <1>1, <1>m, <1>15 DEF PushShutdown, Wake, WakeExpires, WakePush, Wait, WaitExpires, ThreadOut, files,
       fields
<1>16. CASE Terminal(t)
  BY <1>1, <1>m, <1>16 DEF Terminal, PowersOff, ShuttingDown, Idle, ThreadOut, UPS, files
<1>17. CASE Settle(t)
  <2>1. u \notin Observer
    BY <1>1, <1>o, <1>17 DEF Settle, ThreadOut
  <2>2. onBattery' = onBattery /\ ThreadOut(t)'
    BY <1>m, <1>17 DEF Settle, ThreadOut
  <2> QED BY <1>1, <2>1, <2>2
<1>18. CASE Hold(t) \/ Look(t) \/ HoldExpires(t) \/ Issue(t)
  BY <1>1, <1>m, <1>18 DEF Hold, Look, HoldExpires, Issue, ThreadOut, files, fields
<1> QED
  BY <1>2, <1>3, <1>4, <1>6, <1>7, <1>8, <1>9, <1>10, <1>11, <1>12, <1>13, <1>14, <1>15, <1>16, <1>18, <1>5, <1>17
     DEF Step

LEMMA OutNext ==
  SoloObservers /\ LowMeansOut /\ TypeOK /\ LockInv /\ OutInv /\ [Next]_vars => OutInv'
<1> SUFFICES ASSUME SoloObservers, LowMeansOut, TypeOK, LockInv, OutInv, [Next]_vars PROVE OutInv'
  OBVIOUS
<1>1. ASSUME NEW t \in Thread, NEW u \in UPS, Begin(t, u) PROVE OutInv'
  <2>1. /\ \A s \in Thread \ {t} : thread'[s] = thread[s]
        /\ UNCHANGED <<mode, onBattery, wasOut>> /\ thread'[t].ups = u
        /\ thread'[t].at \in {"upsc", "note", "dispatch", "exec", "notify", "ackSave"}
    BY <1>1, BeginOfOne DEF TypeOK, history
  <2>2. /\ power' = power
        /\ \A v \in UPS : notices'[v] \subseteq notices[v]
        /\ thread'[t].at \in {"note", "noteLog", "noteOpen", "dispatch"} /\ thread'[t].arg \in OutageSignals => wasOut[u]
    <3> USE DEF Enter, At, Works, world, OutageSignals
    <3>0. thread \in [Thread -> [at : Places, ups : UPS \cup {NoUPS}, poll : BOOLEAN, arg : Args]]
      BY DEF TypeOK, ThreadsOK
    <3>1. CASE BeginPoll(t, u)
      BY <3>0, <3>1 DEF BeginPoll
    <3>2. CASE \E e \in Notices[u] : BeginEvent(t, u, e)
      <4>1. PICK e \in Notices[u] : BeginEvent(t, u, e)
        BY <3>2
      <4>2. thread'[t].arg = e /\ e \in notices[u] /\ power' = power
        BY <3>0, <4>1 DEF BeginEvent
      <4>3. e \in {"ONLINE", "ONBATT", "LOWBATT", "desktop_suspend_due"}
        BY InputAssumption
      <4>4. \A v \in UPS : notices'[v] \subseteq notices[v]
        <5>1. notices' = [notices EXCEPT ![u] = notices[u] \ {e}]
          BY <4>1 DEF BeginEvent
        <5>2. DOMAIN notices = UPS
          BY DEF TypeOK
        <5> QED BY <5>1, <5>2
      <4> QED BY <4>2, <4>3, <4>4 DEF OutInv
    <3>3. CASE TimerFires(t, u)
      BY <3>0, <3>3 DEF TimerFires
    <3>4. CASE \E s \in Statuses[u] : BeginReport(t, u, s)
      BY <3>0, <3>4 DEF BeginReport
    <3>5. CASE BeginAck(t, u)
      BY <3>0, <3>5 DEF BeginAck
    <3> QED BY <1>1, <3>1, <3>2, <3>3, <3>4, <3>5 DEF Begin
  <2>3. ThreadOut(t)'
    BY <2>1, <2>2 DEF ThreadOut
  <2>4. \A s \in Thread : ThreadOut(s)'
    BY <2>1, <2>3 DEF OutInv, ThreadOut
  <2> QED BY <2>1, <2>2, <2>4 DEF OutInv
<1>2. ASSUME NEW t \in Thread, Step(t) PROVE OutInv'
  BY <1>2, OutStep
<1>3. CASE World
  <2>1. ASSUME NEW u \in UPS, NEW e \in Notices[u], LoseNotice(u, e) PROVE OutInv'
    <3>1. UNCHANGED <<mode, onBattery, thread, power, wasOut>>
      BY <2>1 DEF LoseNotice, files, fields, history
    <3>2. \A v \in UPS : notices'[v] \subseteq notices[v]
      <4>1. notices' = [notices EXCEPT ![u] = notices[u] \ {e}]
        BY <2>1 DEF LoseNotice
      <4>2. DOMAIN notices = UPS
        BY DEF TypeOK
      <4> QED BY <4>1, <4>2
    <3> QED BY <3>1, <3>2 DEF OutInv, ThreadOut
  <2>2. ASSUME NEW u \in UPS, NEW s \in Reports[u], PowerChange(u, s) PROVE OutInv'
    <3>1. s \in {"OL", "OB", "OB LB"}
      BY InputAssumption DEF LowMeansOut
    <3>2. \A v \in UPS : wasOut[v] => wasOut'[v]
      <4>1. wasOut' = [wasOut EXCEPT ![u] = wasOut[u] \/ OffMains(s)]
        BY <2>2 DEF PowerChange
      <4>2. DOMAIN wasOut = UPS
        BY DEF TypeOK
      <4> QED BY <4>1, <4>2
    <3>3. OffMains(s) => wasOut'[u]
      <4>1. wasOut' = [wasOut EXCEPT ![u] = wasOut[u] \/ OffMains(s)]
        BY <2>2 DEF PowerChange
      <4>2. DOMAIN wasOut = UPS
        BY DEF TypeOK
      <4> QED BY <4>1, <4>2
    <3>4. UNCHANGED <<mode, onBattery, thread>> /\ power' = [power EXCEPT ![u] = s]
      BY <2>2 DEF PowerChange, files, fields
    <3>5. \A t \in Thread : ThreadOut(t)'
      <4>1. \A t \in Thread : thread[t].ups \in UPS \/ thread[t].at = "free"
        BY DEF TypeOK, ThreadsOK
      <4> QED BY <3>2, <3>4, <4>1 DEF OutInv, ThreadOut
    <3>6. /\ notices' = [notices EXCEPT ![u] = notices[u] \cup (NoticesOf(power[u], s) \cap Notices[u])]
          /\ "ONBATT" \in NoticesOf(power[u], s) \/ "LOWBATT" \in NoticesOf(power[u], s) => OffMains(s)
      BY <2>2, <3>1 DEF PowerChange, NoticesOf, OffMains, LowBattery
    <3>7. \A v \in UPS : "ONBATT" \in notices'[v] \/ "LOWBATT" \in notices'[v] => wasOut'[v]
      <4> SUFFICES ASSUME NEW v \in UPS, "ONBATT" \in notices'[v] \/ "LOWBATT" \in notices'[v]
                   PROVE  wasOut'[v]
        OBVIOUS
      <4>1. CASE v = u
        <5>1. notices'[u] = notices[u] \cup (NoticesOf(power[u], s) \cap Notices[u])
          BY <3>6 DEF TypeOK
        <5>2. CASE "ONBATT" \in notices[u] \/ "LOWBATT" \in notices[u]
          BY <3>2, <4>1, <5>2 DEF OutInv
        <5>3. CASE ~("ONBATT" \in notices[u] \/ "LOWBATT" \in notices[u])
          BY <3>3, <3>6, <4>1, <5>1, <5>3
        <5> QED BY <5>2, <5>3
      <4>2. CASE v # u
        <5>1. notices'[v] = notices[v]
          BY <3>6, <4>2 DEF TypeOK
        <5> QED BY <3>2, <5>1 DEF OutInv
      <4> QED BY <4>1, <4>2
    <3>8. \A v \in UPS : power'[v] # "OL LB" /\ (OffMains(power'[v]) => wasOut'[v])
      <4> SUFFICES ASSUME NEW v \in UPS
                   PROVE  power'[v] # "OL LB" /\ (OffMains(power'[v]) => wasOut'[v])
        OBVIOUS
      <4>1. CASE v = u
        <5>1. power'[v] = s
          BY <3>4, <4>1 DEF TypeOK
        <5> QED BY <3>1, <3>3, <4>1, <5>1
      <4>2. CASE v # u
        <5>1. power'[v] = power[v]
          BY <3>4, <4>2 DEF TypeOK
        <5> QED BY <3>2, <5>1 DEF OutInv
      <4> QED BY <4>1, <4>2
    <3> QED BY <3>2, <3>4, <3>5, <3>7, <3>8 DEF OutInv, UPS
  <2>3. ASSUME NEW u \in UPS, AskDesktop(u) PROVE OutInv'
    BY <2>3 DEF AskDesktop, fields, world, history, OutInv, ThreadOut
  <2>4. CASE Restart
    <3>1. \A v \in UPS : OffMains(power[v]) => wasOut'[v]
      BY <2>4 DEF Restart
    <3>2. \A t \in Thread : ThreadOut(t)'
      BY <2>4 DEF Restart, Free, ThreadOut
    <3>3. \A v \in UPS : notices'[v] \subseteq {"desktop_suspend_due"} /\ ~onBattery'[v] /\ mode'[v] = Idle
      BY <2>4 DEF Restart, ModeAfterRestart
    <3> QED BY <2>4, <3>1, <3>2, <3>3 DEF Restart, OutInv, UPS
  <2> QED BY <1>3, <2>1, <2>2, <2>3, <2>4 DEF World
<1>4. CASE UNCHANGED vars
  BY <1>4 DEF OutInv, ThreadOut, vars, files, fields, world, history
<1> QED
  BY <1>1, <1>2, <1>3, <1>4 DEF Next

LEMMA OutInit == LowMeansOut /\ Init => OutInv
<1> SUFFICES ASSUME LowMeansOut, Init PROVE OutInv
  OBVIOUS
<1>1. \A u \in UPS : power[u] # "OL LB" /\ (OffMains(power[u]) => wasOut[u])
  BY DEF Init, LowMeansOut
<1>2. \A t \in Thread : ThreadOut(t)
  BY DEF Init, Free, ThreadOut
<1> QED BY <1>1, <1>2 DEF Init, OutInv, UPS

\* The server is shut down, and a UPS switched off, only after an outage of that
\* very UPS.
THEOREM NoOutageNoShutdown ==
  ASSUME SoloObservers, LowMeansOut
  PROVE  Spec => []NoShutdownWithoutOutage
<1>1. OutInv => NoShutdownWithoutOutage
  BY DEF OutInv, ThreadOut, NoShutdownWithoutOutage, At
<1>2. Init => OutInv
  BY OutInit
<1>3. TypeOK /\ LockInv /\ OutInv /\ [Next]_vars => OutInv'
  BY OutNext
<1> QED
  BY <1>1, <1>2, <1>3, TypeCorrect, LocksHold, PTL DEF Spec

(***************************************************************************)
(* Monitoring is started once, where no low battery bypasses the lock.     *)
(***************************************************************************)

NoLowBattery ==
  \A u \in UPS : "LOWBATT" \notin Notices[u] /\ \A s \in Reports[u] : ~LowBattery(s)

\* Whoever starts holds the lock; no signal of a low battery is under way.
StartInv ==
  /\ \A u \in UPS : ~LowBattery(power[u])
  /\ \A t \in Thread :
       /\ thread[t].at \in StartPlaces => startLock[thread[t].ups] = t
       /\ thread[t].at \in {"note", "noteLog", "noteOpen", "dispatch"} => thread[t].arg \notin LowSignals

LEMMA StartStep ==
  ASSUME TypeOK, StartInv, NEW t \in Thread, Step(t)
  PROVE  StartInv'
<1> USE DEF At, files, fields, StartPlaces
<1>u. PICK u \in UPS : u = thread[t].ups
  BY StepOfOne DEF TypeOK
<1>0. /\ \A s \in Thread \ {t} : thread'[s] = thread[s]
      /\ u = thread[t].ups
      /\ power' = power
      /\ startLock \in [UPS -> Thread \cup {NoThread}]
      /\ \A s \in Thread : thread[s].ups \in UPS \/ thread[s].at = "free"
      /\ thread[t].at \in StartPlaces => startLock[u] = t
      /\ thread[t].at \in {"note", "noteLog", "noteOpen", "dispatch"} => thread[t].arg \notin LowSignals
  BY <1>u, StepOfOne, StepIsLocal DEF TypeOK, ThreadsOK, StartInv
<1>m. /\ \A place, arg : Goto(t, place, arg) =>
           thread'[t].at = place /\ thread'[t].ups = u /\ thread'[t].arg = arg
      /\ \A place : Become(t, place) => thread'[t].at = place
      /\ Finish(t) => thread'[t].at = "free"
  BY <1>u, Moves DEF TypeOK
<1> SUFFICES /\ \A s \in Thread \ {t} : startLock[thread[s].ups] = s /\ thread[s].at \in StartPlaces
                   => startLock'[thread[s].ups] = s
             /\ thread'[t].at \in StartPlaces => startLock'[thread'[t].ups] = t
             /\ thread'[t].at \in {"note", "noteLog", "noteOpen", "dispatch"} => thread'[t].arg \notin LowSignals
  BY <1>0 DEF StartInv
<1>1. CASE ReadStatus(t)
  <2>1. ~LowBattery(power[u]) /\ power[u] \in {"OL", "OB", "OB LB", "OL LB"}
    BY DEF StartInv, TypeOK
  <2>2. SignalOf(power[u]) \in {"OL", "OB"}
    BY <2>1 DEF SignalOf, LowBattery
  <2>3. thread'[t].at = "note" /\ thread'[t].arg = SignalOf(power[u]) /\ startLock' = startLock
    BY <1>0, <1>m, <1>1 DEF ReadStatus
  <2> QED BY <1>0, <2>2, <2>3 DEF LowSignals
<1>2. CASE ReadNothing(t) \/ Note(t) \/ NoteLog(t) \/ NoteOpen(t)
  BY <1>0, <1>m, <1>2 DEF ReadNothing, Note, NoteLog, NoteOpen, LowSignals
<1>3. CASE Dispatch(t) \/ Follow(t) \/ FollowBlind(t)
  BY <1>0, <1>m, <1>3 DEF Dispatch, Follow, FollowBlind, LowSignals
<1>4. CASE Lock(t)
  <2>1. CASE startLock' = startLock /\ thread'[t].at = "free"
    BY <1>0, <2>1
  <2>2. CASE /\ startLock' = [startLock EXCEPT ![u] = t] /\ thread'[t].ups = u
             /\ thread'[t].at = "start" /\ startLock[u] = NoThread
    BY <1>0, <2>2, ThreadAssumption
  <2> QED BY <1>0, <1>m, <1>4, <2>1, <2>2 DEF Lock, StartLockFree
<1>5. CASE Start(t) \/ StartLog(t) \/ Choose(t) \/ Save(t) \/ Prompt(t)
  BY <1>0, <1>m, <1>5 DEF Start, StartLog, Choose, Save, Prompt
<1>6. CASE Arm(t) \/ Prompted(t)
  <2>1. CASE thread'[t].at = "prompt" /\ thread'[t].ups = u /\ startLock' = startLock
    BY <1>0, <1>6, <2>1 DEF Arm, Prompted
  <2>2. CASE EndStart(t)
    <3>1. startLock' = [startLock EXCEPT ![u] = NoThread] /\ thread'[t].at = "free"
      BY <1>0, <1>m, <1>6, <2>2 DEF Arm, Prompted, EndStart
    <3> QED BY <1>0, <1>6, <3>1 DEF Arm, Prompted
  <2> QED BY <1>m, <1>6, <2>1, <2>2 DEF Arm, Prompted
<1>7. CASE \/ DeadlineReached(t) \/ DeadlineAhead(t) \/ ExecRead(t) \/ Reset(t) \/ Leave(t)
           \/ CancelRead(t) \/ CancelSave(t) \/ NotifyRead(t) \/ NotifyDown(t)
           \/ NotifySuspend(t) \/ AckSave(t)
  BY <1>m, <1>7 DEF DeadlineReached, DeadlineAhead, ExecRead, Reset, Leave, CancelRead, CancelSave,
                    NotifyRead, NotifyDown, NotifySuspend, AckSave
<1>8. CASE ExecSave(t)
  BY <1>m, <1>8 DEF ExecSave, WorkerFor
<1>9. CASE \/ PushShutdown(t) \/ Wake(t) \/ WakeExpires(t) \/ WakePush(t) \/ Wait(t)
           \/ WaitExpires(t) \/ Terminal(t) \/ Settle(t) \/ Hold(t) \/ Look(t)
           \/ HoldExpires(t) \/ Issue(t)
  BY <1>m, <1>9 DEF PushShutdown, Wake, WakeExpires, WakePush, Wait, WaitExpires, Terminal, Settle,
                    Hold, Look, HoldExpires, Issue
<1> QED
  BY <1>1, <1>2, <1>3, <1>4, <1>5, <1>6, <1>7, <1>8, <1>9 DEF Step

LEMMA StartNext == NoLowBattery /\ TypeOK /\ StartInv /\ [Next]_vars => StartInv'
<1> SUFFICES ASSUME NoLowBattery, TypeOK, StartInv, [Next]_vars PROVE StartInv'
  OBVIOUS
<1> USE DEF StartPlaces
<1>1. ASSUME NEW t \in Thread, NEW u \in UPS, Begin(t, u) PROVE StartInv'
  <2>1. /\ \A s \in Thread \ {t} : thread'[s] = thread[s]
        /\ startLock' = startLock
        /\ thread'[t].at \in {"upsc", "note", "dispatch", "exec", "notify", "ackSave"}
    BY <1>1, BeginOfOne DEF TypeOK
  <2>2. /\ power' = power
        /\ thread'[t].at \in {"note", "noteLog", "noteOpen", "dispatch"} => thread'[t].arg \notin LowSignals
    <3> USE DEF Enter, At, Works, world, LowSignals
    <3>0. thread \in [Thread -> [at : Places, ups : UPS \cup {NoUPS}, poll : BOOLEAN, arg : Args]]
      BY DEF TypeOK, ThreadsOK
    <3>1. CASE BeginPoll(t, u)
      BY <3>0, <3>1 DEF BeginPoll
    <3>2. CASE \E e \in Notices[u] : BeginEvent(t, u, e)
      <4>1. PICK e \in Notices[u] : BeginEvent(t, u, e)
        BY <3>2
      <4>2. thread'[t].arg = e /\ power' = power
        BY <3>0, <4>1 DEF BeginEvent
      <4>3. e \in {"ONLINE", "ONBATT", "desktop_suspend_due"}
        BY InputAssumption DEF NoLowBattery
      <4> QED BY <4>2, <4>3
    <3>3. CASE TimerFires(t, u)
      BY <3>0, <3>3 DEF TimerFires
    <3>4. CASE \E s \in Statuses[u] : BeginReport(t, u, s)
      BY <3>0, <3>4 DEF BeginReport
    <3>5. CASE BeginAck(t, u)
      BY <3>0, <3>5 DEF BeginAck
    <3> QED BY <1>1, <3>1, <3>2, <3>3, <3>4, <3>5 DEF Begin
  <2> QED BY <2>1, <2>2 DEF StartInv
<1>2. ASSUME NEW t \in Thread, Step(t) PROVE StartInv'
  BY <1>2, StartStep
<1>3. CASE World
  <2>1. ASSUME NEW u \in UPS, NEW s \in Reports[u], PowerChange(u, s) PROVE StartInv'
    <3>1. \A v \in UPS : power'[v] = s \/ power'[v] = power[v]
      BY <2>1 DEF PowerChange, TypeOK
    <3>2. \A v \in UPS : ~LowBattery(power'[v])
      BY <3>1 DEF NoLowBattery, StartInv
    <3> QED BY <2>1, <3>2 DEF PowerChange, fields, StartInv
  <2>2. CASE Restart
    BY <2>2 DEF Restart, Free, StartInv
  <2> QED
    BY <1>3, <2>1, <2>2 DEF World, LoseNotice, AskDesktop, fields, world, StartInv
<1>4. CASE UNCHANGED vars
  BY <1>4 DEF vars, fields, world, StartInv
<1> QED
  BY <1>1, <1>2, <1>3, <1>4 DEF Next

\* Two threads never start monitoring the same UPS at the same time.
THEOREM MonitoringStartsOnce == Spec => []SingleStart
<1>1. CASE NoLowBattery
  <2>1. Init => StartInv
    BY <1>1 DEF Init, NoLowBattery, StartInv, Free, StartPlaces
  <2>2. TypeOK /\ StartInv /\ [Next]_vars => StartInv'
    BY <1>1, StartNext
  <2>3. TypeOK /\ StartInv => SingleStart
    BY DEF StartInv, SingleStart
  <2> QED
    BY <2>1, <2>2, <2>3, TypeCorrect, PTL DEF Spec
<1>2. CASE ~NoLowBattery
  <2>1. SingleStart
    BY <1>2 DEF NoLowBattery, SingleStart
  <2> QED
    BY <2>1, PTL
<1> QED
  BY <1>1, <1>2

(***************************************************************************)
(* The promise of Orchestration.  What a hand may do depends on who it     *)
(* works for, which no step looks at again: only observers hold, only a    *)
(* primary is reported to be going down or settles, and what settles is    *)
(* still shutting down, or monitors again by a save that did not look.     *)
(***************************************************************************)

Holding == {"hold", "look"}
Committed == {"fsd", "cut"}
Working == WorkerPlaces \ {"settle", "fsd", "cut"}

DutyInv ==
  \A t \in Thread :
    /\ thread[t].at \in Holding => thread[t].ups \in Observer
    /\ thread[t].at \in {"notifyDown", "settle"} => thread[t].ups \in Primary
    /\ thread[t].at = "settle" => mode[thread[t].ups] \in {Monitoring, ShuttingDown}

\* A UPS whose lock is free, or held by a thread that does not settle, has none
\* that settles.
LEMMA NoneSettles ==
  ASSUME TypeOK, LockInv, NEW t \in Thread, thread[t].at # "settle",
         actionLock[thread[t].ups] \in {NoThread, t},
         NEW s \in Thread, thread[s].at = "settle"
  PROVE  thread[s].ups # thread[t].ups
  BY ThreadAssumption DEF LockInv, HoldsActionLock

\* Steps that save no mode, and settle nothing.
LEMMA DutyKept ==
  ASSUME TypeOK, DutyInv, NEW t \in Thread, UNCHANGED mode,
         \A s \in Thread \ {t} : thread'[s] = thread[s],
         thread'[t].at \notin Holding \cup {"notifyDown", "settle"}
  PROVE  DutyInv'
  BY DEF DutyInv

\* Steps that save a mode of the thread's UPS.
LEMMA DutyOfSave ==
  ASSUME TypeOK, DutyInv, NEW t \in Thread, NEW m \in Modes, thread[t].ups \in UPS,
         mode' = [mode EXCEPT ![thread[t].ups] = m],
         \A s \in Thread \ {t} : thread'[s] = thread[s],
         thread'[t].at \notin {"notifyDown", "settle"},
         thread'[t].at \in Holding => thread'[t].ups \in Observer,
         \/ m \in {Monitoring, ShuttingDown}
         \/ \A s \in Thread \ {t} : thread[s].at = "settle" => thread[s].ups # thread[t].ups
  PROVE  DutyInv'
<1>0. mode \in [UPS -> Modes] /\ \A s \in Thread : thread[s].at = "settle" => thread[s].ups \in UPS
  BY DEF TypeOK, ThreadsOK
<1>1. ASSUME NEW s \in Thread, thread'[s].at = "settle"
      PROVE  mode'[thread'[s].ups] \in {Monitoring, ShuttingDown}
  <2>1. s # t /\ thread'[s] = thread[s] /\ thread[s].at = "settle"
    BY <1>1
  <2>2. mode[thread[s].ups] \in {Monitoring, ShuttingDown}
    BY <2>1 DEF DutyInv
  <2> QED BY <1>0, <2>1, <2>2
<1> QED BY <1>1 DEF DutyInv

LEMMA DutyStep ==
  ASSUME TypeOK, LockInv, DutyInv, NEW t \in Thread, Step(t)
  PROVE  DutyInv'
<1> USE DEF At, files, fields, Holding
<1>u. PICK u \in UPS : u = thread[t].ups
  BY StepOfOne DEF TypeOK
<1>1. /\ \A s \in Thread \ {t} : thread'[s] = thread[s]
      /\ u = thread[t].ups
  BY <1>u, StepOfOne DEF TypeOK
<1>m. /\ \A place, arg : Goto(t, place, arg) => thread'[t].at = place /\ thread'[t].ups = u
      /\ \A place : Become(t, place) => thread'[t].at = place /\ thread'[t].ups = u
      /\ Finish(t) => thread'[t].at = "free"
  BY <1>u, Moves DEF TypeOK
<1>o. Monitoring \in Modes /\ ShuttingDown \in Modes /\ Idle \in Modes /\ DesktopHandled \in Modes
  BY DEF Modes
<1>2. CASE \/ ReadStatus(t) \/ ReadNothing(t) \/ Note(t) \/ NoteLog(t) \/ NoteOpen(t)
           \/ Dispatch(t) \/ Follow(t) \/ FollowBlind(t) \/ Lock(t) \/ Start(t) \/ StartLog(t)
           \/ Choose(t)
  <2>1. mode' = mode /\ thread'[t].at \notin Holding \cup {"notifyDown", "settle"}
    BY <1>m, <1>2 DEF ReadStatus, ReadNothing, Note, NoteLog, NoteOpen, Dispatch, Follow, FollowBlind, Lock,
                Start, StartLog, Choose
  <2> QED BY <1>1, <2>1, DutyKept
<1>3. CASE \/ Arm(t) \/ Prompt(t) \/ Prompted(t) \/ DeadlineReached(t) \/ DeadlineAhead(t)
           \/ ExecRead(t) \/ Reset(t) \/ CancelRead(t) \/ CancelSave(t) \/ AckSave(t)
  <2>1. mode' = mode /\ thread'[t].at \notin Holding \cup {"notifyDown", "settle"}
    BY <1>m, <1>3 DEF Arm, Prompt, Prompted, EndStart, DeadlineReached, DeadlineAhead, ExecRead, Reset,
                CancelRead, CancelSave, AckSave
  <2> QED BY <1>1, <2>1, DutyKept
<1>4. CASE \/ PushShutdown(t) \/ Wake(t) \/ WakeExpires(t) \/ WakePush(t) \/ Wait(t)
           \/ WaitExpires(t) \/ HoldExpires(t) \/ Issue(t)
  <2>1. mode' = mode /\ thread'[t].at \notin Holding \cup {"notifyDown", "settle"}
    BY <1>m, <1>4 DEF PushShutdown, Wake, WakeExpires, WakePush, Wait, WaitExpires, HoldExpires, Issue
  <2> QED BY <1>1, <2>1, DutyKept
<1>5. CASE Save(t) \/ NotifySuspend(t)
  <2>1. /\ mode' = [mode EXCEPT ![thread[t].ups] = Monitoring]
        /\ thread'[t].at \notin Holding \cup {"notifyDown", "settle"}
    BY <1>m, <1>5 DEF Save, NotifySuspend, SetMode
  <2> QED BY <1>1, <1>o, <2>1, DutyOfSave
<1>6. CASE ExecSave(t)
  <2>1. /\ mode' = [mode EXCEPT ![thread[t].ups] = ShuttingDown]
        /\ thread'[t].at \in WorkerPlaces /\ thread'[t].at = WorkerFor(u, thread[t].arg)
        /\ thread'[t].ups = u
    BY <1>1, <1>m, <1>6 DEF ExecSave, SetMode, WorkerFor, WorkerPlaces
  <2>2. /\ thread'[t].at \notin {"notifyDown", "settle"}
        /\ thread'[t].at \in Holding => thread'[t].ups \in Observer
    BY <2>1 DEF WorkerFor
  <2> QED BY <1>1, <1>o, <2>1, <2>2, DutyOfSave
<1>7. CASE NotifyDown(t)
  <2>1. CASE mode[u] = ShuttingDown
    <3>1. mode' = mode /\ thread'[t].at = "free"
      BY <1>1, <1>m, <1>7, <2>1 DEF NotifyDown
    <3> QED BY <1>1, <3>1, DutyKept
  <2>2. CASE mode[u] # ShuttingDown
    <3>1. mode' = [mode EXCEPT ![thread[t].ups] = ShuttingDown] /\ thread'[t].at = "terminal"
      BY <1>1, <1>m, <1>7, <2>2 DEF NotifyDown, SetMode
    <3> QED BY <1>1, <1>o, <3>1, DutyOfSave
  <2> QED BY <2>1, <2>2
<1>8. CASE Leave(t)
  <2>1. /\ mode' = [mode EXCEPT ![thread[t].ups] = Idle]
        /\ thread[t].at = "leave" /\ thread'[t].at = "cancel"
        /\ actionLock[thread[t].ups] = NoThread
    BY <1>m, <1>8 DEF Leave, LeaveMonitoring, SetMode, ActionLockFree
  <2>2. \A s \in Thread \ {t} : thread[s].at = "settle" => thread[s].ups # thread[t].ups
    BY <2>1, NoneSettles
  <2> QED BY <1>1, <1>o, <2>1, <2>2, DutyOfSave
<1>9. CASE Settle(t)
  <2>1. /\ mode' = [mode EXCEPT ![thread[t].ups] = DesktopHandled]
        /\ thread[t].at = "settle" /\ thread'[t].at = "free"
    BY <1>m, <1>9 DEF Settle, LeaveMonitoring, SetMode
  <2>2. \A s \in Thread \ {t} : thread[s].at = "settle" => thread[s].ups # thread[t].ups
    BY <2>1 DEF LockInv, HoldsActionLock
  <2> QED BY <1>1, <1>o, <2>1, <2>2, DutyOfSave
<1>10. CASE NotifyRead(t)
  <2>1. /\ mode' = mode /\ thread'[t].at \notin Holding \cup {"settle"}
        /\ thread'[t].at = "notifyDown" => u \in Primary /\ thread'[t].ups = u
    BY <1>1, <1>m, <1>10 DEF NotifyRead
  <2> QED BY <1>1, <2>1 DEF DutyInv
<1>11. CASE Hold(t) \/ Look(t)
  <2>1. /\ mode' = mode /\ thread'[t].at \notin {"notifyDown", "settle"}
        /\ thread'[t].at \in Holding => thread[t].at \in Holding /\ thread'[t].ups = u
    BY <1>m, <1>11 DEF Hold, Look
  <2> QED BY <1>1, <2>1 DEF DutyInv
<1>12. CASE Terminal(t)
  <2>1. /\ mode' = mode /\ thread'[t].at \notin Holding \cup {"notifyDown"}
        /\ thread'[t].at = "settle" => mode[u] = ShuttingDown /\ ~PowersOff(u) /\ thread'[t].ups = u
    BY <1>1, <1>m, <1>12 DEF Terminal
  <2>2. thread'[t].at = "settle" => u \in Primary
    BY <2>1 DEF PowersOff, UPS
  <2> QED BY <1>1, <2>1, <2>2 DEF DutyInv
<1> QED
  BY <1>2, <1>3, <1>4, <1>5, <1>6, <1>7, <1>8, <1>9, <1>10, <1>11, <1>12 DEF Step

LEMMA DutyNext == TypeOK /\ LockInv /\ DutyInv /\ [Next]_vars => DutyInv'
<1> SUFFICES ASSUME TypeOK, LockInv, DutyInv, [Next]_vars PROVE DutyInv'
  OBVIOUS
<1>1. ASSUME NEW t \in Thread, NEW u \in UPS, Begin(t, u) PROVE DutyInv'
  <2>1. /\ thread'[t].at \notin Holding \cup {"notifyDown", "settle"}
        /\ \A s \in Thread \ {t} : thread'[s] = thread[s]
        /\ UNCHANGED mode
    BY <1>1, BeginOfOne DEF TypeOK, Holding
  <2> QED BY <2>1, DutyKept
<1>2. ASSUME NEW t \in Thread, Step(t) PROVE DutyInv'
  BY <1>2, DutyStep
<1>3. CASE World
  <2>1. CASE UNCHANGED <<mode, thread>>
    BY <2>1 DEF DutyInv
  <2>2. CASE Restart
    BY <2>2 DEF Restart, DutyInv, Free, Holding
  <2> QED
    BY <1>3, <2>1, <2>2 DEF World, LoseNotice, PowerChange, AskDesktop, files, fields
<1>4. CASE UNCHANGED vars
  BY <1>4 DEF DutyInv, vars, files
<1> QED
  BY <1>1, <1>2, <1>3, <1>4 DEF Next

\* How the hands of the promise follow the threads.
LEMMA HandAt ==
  ASSUME NEW t \in Thread
  PROVE  /\ thread[t].at \in Working => Promise!Does(t, thread[t].ups, "works")
         /\ thread[t].at \in Committed => Promise!Does(t, thread[t].ups, "issues")
         /\ thread[t].at = "settle" => Promise!Does(t, thread[t].ups, "spares")
         /\ thread[t].at \notin WorkerPlaces => HandOf(t) = Promise!Away
  BY DEF Promise!Does, Promise!Away, HandOf, Doing, Working, Committed, WorkerPlaces

LEMMA HandAfter ==
  ASSUME NEW t \in Thread, NEW u, \A s \in Thread \ {t} : thread'[s] = thread[s]
  PROVE  /\ thread'[t].at \in Working /\ thread'[t].ups = u => Promise!Turns(t, u, "works")
         /\ thread'[t].at \in Committed /\ thread'[t].ups = u => Promise!Turns(t, u, "issues")
         /\ thread'[t].at = "settle" /\ thread'[t].ups = u => Promise!Turns(t, u, "spares")
         /\ thread'[t].at \notin WorkerPlaces => Promise!Leaves(t)
<1>1. \A s \in Thread \ {t} : HandOf(s)' = HandOf(s)
  BY DEF HandOf, Doing
<1>2. /\ thread'[t].at \in Working /\ thread'[t].ups = u
           => HandOf(t)' = [of |-> u, does |-> "works"]
      /\ thread'[t].at \in Committed /\ thread'[t].ups = u
           => HandOf(t)' = [of |-> u, does |-> "issues"]
      /\ thread'[t].at = "settle" /\ thread'[t].ups = u
           => HandOf(t)' = [of |-> u, does |-> "spares"]
      /\ thread'[t].at \notin WorkerPlaces => HandOf(t)' = [of |-> NoUPS, does |-> "nothing"]
  BY DEF HandOf, Doing, Working, Committed, WorkerPlaces
<1> QED BY <1>1, <1>2 DEF Promise!Turns, Promise!Leaves, Promise!Away

\* A step that changes nothing of the promise.
Unseen ==
  /\ UNCHANGED <<mode, acted, onBattery>>
  /\ \A t \in Thread : HandOf(t)' = HandOf(t)

LEMMA UnseenStutters == ASSUME Unseen PROVE UNCHANGED Promise!vars
  BY DEF Unseen, Promise!vars

\* A thread that is no hand before or after, or works for the same UPS before and after.
LEMMA HandUnseen ==
  ASSUME NEW t \in Thread, \A s \in Thread \ {t} : thread'[s] = thread[s],
         UNCHANGED <<mode, acted, onBattery>>,
         \/ thread[t].at \notin WorkerPlaces /\ thread'[t].at \notin WorkerPlaces
         \/ /\ thread[t].at \in Working /\ thread'[t].at \in Working
            /\ thread'[t].ups = thread[t].ups
  PROVE  Unseen
<1>1. \A s \in Thread \ {t} : HandOf(s)' = HandOf(s)
  BY DEF HandOf, Doing
<1>2. HandOf(t)' = HandOf(t)
  BY DEF HandOf, Doing, Working
<1> QED BY <1>1, <1>2 DEF Unseen

LEMMA NobodySpares ==
  ASSUME TypeOK, LockInv, NEW t \in Thread, thread[t].at # "settle",
         actionLock[thread[t].ups] \in {NoThread, t}
  PROVE  ~Promise!Spared(thread[t].ups)
<1> SUFFICES ASSUME NEW h \in Thread, Promise!Does(h, thread[t].ups, "spares") PROVE FALSE
  BY DEF Promise!Spared
<1>1. HandOf(h) = [of |-> thread[t].ups, does |-> "spares"]
  BY DEF Promise!Does
<1>2. thread[h].at = "settle" /\ thread[h].ups = thread[t].ups
  BY <1>1 DEF HandOf, Doing
<1> QED BY <1>2, NoneSettles

\* Every step of a thread is a step of the promise, or changes nothing of it.
LEMMA PromiseStep ==
  ASSUME TypeOK, LockInv, DutyInv, NEW t \in Thread, Step(t)
  PROVE  Promise!Next \/ Unseen
<1> USE DEF At, files, fields, history
<1>u. PICK u \in UPS : u = thread[t].ups
  BY StepOfOne DEF TypeOK
<1>1. /\ \A s \in Thread \ {t} : thread'[s] = thread[s]
      /\ u = thread[t].ups
  BY <1>u, StepOfOne DEF TypeOK
<1>m. /\ \A place, arg : Goto(t, place, arg) => thread'[t].at = place /\ thread'[t].ups = u
      /\ \A place : Become(t, place) => thread'[t].at = place /\ thread'[t].ups = u
      /\ Finish(t) => thread'[t].at = "free"
  BY <1>u, Moves DEF TypeOK
<1>n. \/ Promise!NotePower(u) \/ Promise!Watch(u) \/ Promise!StandDown(u)
      \/ Promise!Decide(u, t) \/ Promise!Dismiss(u, t) \/ Promise!Commit(u, t)
      \/ Promise!Issue(u, t) \/ Promise!Spare(u, t) \/ Promise!Settle(u, t)
      => Promise!Next
  BY <1>u DEF Promise!Next
<1>d. /\ thread[t].at \in Holding => u \in Observer
      /\ thread[t].at \in {"notifyDown", "settle"} => u \in Primary
      /\ thread[t].at = "settle" => mode[u] \in {Monitoring, ShuttingDown}
  BY <1>1 DEF DutyInv
<1>2. CASE \/ ReadStatus(t) \/ ReadNothing(t) \/ NoteLog(t) \/ NoteOpen(t)
           \/ Dispatch(t) \/ Follow(t) \/ FollowBlind(t) \/ Lock(t) \/ Start(t) \/ StartLog(t)
           \/ Choose(t)
  <2>1. /\ UNCHANGED <<mode, acted, onBattery>>
        /\ thread[t].at \notin WorkerPlaces /\ thread'[t].at \notin WorkerPlaces
    BY <1>m, <1>2 DEF ReadStatus, ReadNothing, NoteLog, NoteOpen, Dispatch, Follow, FollowBlind, Lock,
                Start, StartLog, Choose, WorkerPlaces
  <2> QED BY <1>1, <2>1, HandUnseen
<1>3. CASE \/ Arm(t) \/ Prompt(t) \/ Prompted(t) \/ DeadlineReached(t) \/ DeadlineAhead(t)
           \/ ExecRead(t) \/ Reset(t) \/ CancelRead(t) \/ CancelSave(t) \/ NotifyRead(t)
           \/ AckSave(t)
  <2>1. /\ UNCHANGED <<mode, acted, onBattery>>
        /\ thread[t].at \notin WorkerPlaces /\ thread'[t].at \notin WorkerPlaces
    BY <1>m, <1>3 DEF Arm, Prompt, Prompted, EndStart, DeadlineReached, DeadlineAhead, ExecRead, Reset,
                CancelRead, CancelSave, NotifyRead, AckSave, WorkerPlaces
  <2> QED BY <1>1, <2>1, HandUnseen
<1>4. CASE Note(t)
  <2>1. /\ UNCHANGED <<mode, acted>>
        /\ thread[t].at \notin WorkerPlaces /\ thread'[t].at \notin WorkerPlaces
    BY <1>m, <1>4 DEF Note, WorkerPlaces
  <2>2. PICK out \in BOOLEAN : onBattery' = [onBattery EXCEPT ![u] = out]
    BY <1>1, <1>4, IsOutBoolean DEF Note
  <2>3. onBattery \in [UPS -> BOOLEAN]
    BY DEF TypeOK
  <2>4. CASE out = onBattery[u]
    <3>1. onBattery' = onBattery
      BY <2>2, <2>3, <2>4
    <3> QED BY <1>1, <2>1, <3>1, HandUnseen
  <2>5. CASE out # onBattery[u]
    <3>1. out = ~onBattery[u]
      BY <2>3, <2>5
    <3>2. \A s \in Thread : HandOf(s)' = HandOf(s)
      BY <1>1, <2>1 DEF HandOf, Doing
    <3>3. Promise!NotePower(u)
      BY <2>1, <2>2, <3>1, <3>2 DEF Promise!NotePower
    <3> QED BY <1>n, <3>3
  <2> QED BY <2>4, <2>5
<1>5. CASE Save(t) \/ NotifySuspend(t)
  <2>1. /\ SetMode(u, Monitoring) /\ onBattery' = onBattery
        /\ thread[t].at \notin WorkerPlaces /\ thread'[t].at \notin WorkerPlaces
    BY <1>1, <1>m, <1>5 DEF Save, NotifySuspend, WorkerPlaces
  <2>2. \A s \in Thread : HandOf(s)' = HandOf(s)
    BY <1>1, <2>1 DEF HandOf, Doing
  <2>3. Promise!Watch(u)
    BY <2>1, <2>2 DEF Promise!Watch, Promise!Saves, SetMode, Monitoring, ShuttingDown
  <2> QED BY <1>n, <2>3
<1>6. CASE Leave(t)
  <2>1. /\ SetMode(u, Idle) /\ onBattery' = onBattery /\ actionLock[thread[t].ups] = NoThread
        /\ thread[t].at = "leave" /\ thread'[t].at = "cancel"
    BY <1>1, <1>m, <1>6 DEF Leave, LeaveMonitoring, ActionLockFree
  <2>2. \A s \in Thread : HandOf(s)' = HandOf(s)
    BY <1>1, <2>1 DEF HandOf, Doing, WorkerPlaces
  <2>3. ~Promise!Spared(u)
    BY <1>1, <2>1, NobodySpares
  <2>4. Promise!StandDown(u)
    BY <2>1, <2>2, <2>3 DEF Promise!StandDown, Promise!Saves, SetMode, Idle, ShuttingDown
  <2> QED BY <1>n, <2>4
<1>7. CASE ExecSave(t)
  <2>1. /\ SetMode(u, ShuttingDown) /\ onBattery' = onBattery
        /\ thread[t].at = "execSave" /\ thread'[t].at \in Working /\ thread'[t].ups = u
    BY <1>1, <1>m, <1>7 DEF ExecSave, WorkerFor, Working, WorkerPlaces
  <2>2. mode[u] = Monitoring /\ actionLock[thread[t].ups] = t
    BY <1>1, <2>1 DEF LockInv, NoStaleShutdown, HoldsActionLock
  <2>3. ~Promise!Spared(u)
    BY <1>1, <2>1, <2>2, NobodySpares
  <2>4. Promise!Turns(t, u, "works") /\ HandOf(t) = Promise!Away
    BY <1>1, <2>1, HandAt, HandAfter DEF WorkerPlaces
  <2>5. Promise!Decide(u, t)
    BY <2>1, <2>2, <2>3, <2>4 DEF Promise!Decide, Promise!Saves, SetMode, Monitoring, ShuttingDown
  <2> QED BY <1>n, <2>5
<1>8. CASE NotifyDown(t)
  <2>0. thread[t].at = "notifyDown" /\ onBattery' = onBattery /\ actionLock[thread[t].ups] = NoThread
    BY <1>1, <1>8 DEF NotifyDown, ActionLockFree
  <2>1. CASE mode[u] = ShuttingDown
    <3>1. UNCHANGED <<mode, acted>> /\ thread'[t].at = "free"
      BY <1>1, <1>m, <1>8, <2>1 DEF NotifyDown
    <3> QED BY <1>1, <2>0, <3>1, HandUnseen DEF WorkerPlaces
  <2>2. CASE mode[u] # ShuttingDown
    <3>1. SetMode(u, ShuttingDown) /\ thread'[t].at = "terminal" /\ thread'[t].ups = u
      BY <1>1, <1>m, <1>8, <2>2 DEF NotifyDown
    <3>2. ~Promise!Spared(u)
      BY <1>1, <2>0, NobodySpares
    <3>3. Promise!Turns(t, u, "works") /\ HandOf(t) = Promise!Away
      BY <1>1, <2>0, <3>1, HandAt, HandAfter DEF WorkerPlaces, Working
    <3>4. Promise!Decide(u, t)
      BY <1>d, <2>0, <2>2, <3>1, <3>2, <3>3 DEF Promise!Decide, Promise!Saves, SetMode, ShuttingDown
    <3> QED BY <1>n, <3>4
  <2> QED BY <2>1, <2>2
<1>9. CASE PushShutdown(t) \/ WakeExpires(t) \/ WaitExpires(t)
  <2>1. /\ UNCHANGED <<mode, acted, onBattery>>
        /\ thread[t].at \in Working /\ thread'[t].at \in Working /\ thread'[t].ups = u
    BY <1>m, <1>9 DEF PushShutdown, WakeExpires, WaitExpires, Working, WorkerPlaces
  <2> QED BY <1>1, <2>1, HandUnseen
<1>10. CASE Wake(t) \/ WakePush(t) \/ Wait(t) \/ Hold(t) \/ Look(t) \/ HoldExpires(t) \/ Terminal(t)
  <2>1. /\ UNCHANGED <<mode, acted, onBattery>> /\ thread[t].at \in Working
        /\ \/ thread'[t].at \in Working /\ thread'[t].ups = u
           \/ thread'[t].at = "free" /\ mode[u] # ShuttingDown
           \/ /\ thread'[t].at \in Committed /\ thread'[t].ups = u
              /\ u \in Primary => mode[u] = ShuttingDown /\ onBattery[u]
           \/ /\ thread'[t].at = "settle" /\ thread'[t].ups = u /\ mode[u] = ShuttingDown
              /\ actionLock[thread[t].ups] = NoThread /\ ~PowersOff(u)
    <3>1. CASE Wake(t) \/ WakePush(t) \/ Wait(t)
      BY <1>1, <1>m, <3>1 DEF Wake, WakePush, Wait, Working, WorkerPlaces
    <3>2. CASE Hold(t) \/ Look(t) \/ HoldExpires(t)
      <4>1. u \notin Primary
        BY <1>d, <3>2, RolesAssumption DEF Hold, Look, HoldExpires, Holding
      <4> QED BY <1>1, <1>m, <3>2, <4>1 DEF Hold, Look, HoldExpires, Working, Committed, WorkerPlaces
    <3>3. CASE Terminal(t)
      <4>1. u \in Primary /\ PowersOff(u) => onBattery[u]
        BY RolesAssumption DEF PowersOff
      <4> QED BY <1>1, <1>m, <3>3, <4>1 DEF Terminal, ActionLockFree, Working, Committed, WorkerPlaces
    <3> QED BY <1>10, <3>1, <3>2, <3>3
  <2>2. Promise!Does(t, u, "works")
    BY <1>1, <2>1, HandAt
  <2>3. CASE thread'[t].at \in Working /\ thread'[t].ups = u
    BY <1>1, <2>1, <2>3, HandUnseen
  <2>4. CASE thread'[t].at = "free" /\ mode[u] # ShuttingDown
    <3>1. Promise!Leaves(t)
      BY <1>1, <2>4, HandAfter DEF WorkerPlaces
    <3>2. Promise!Dismiss(u, t)
      BY <2>1, <2>2, <2>4, <3>1 DEF Promise!Dismiss, ShuttingDown
    <3> QED BY <1>n, <3>2
  <2>5. CASE /\ thread'[t].at \in Committed /\ thread'[t].ups = u
             /\ u \in Primary => mode[u] = ShuttingDown /\ onBattery[u]
    <3>1. Promise!Turns(t, u, "issues")
      BY <1>1, <2>5, HandAfter
    <3>2. Promise!Commit(u, t)
      BY <2>1, <2>2, <2>5, <3>1 DEF Promise!Commit, ShuttingDown
    <3> QED BY <1>n, <3>2
  <2>6. CASE /\ thread'[t].at = "settle" /\ thread'[t].ups = u /\ mode[u] = ShuttingDown
             /\ actionLock[thread[t].ups] = NoThread /\ ~PowersOff(u)
    <3>1. Promise!Turns(t, u, "spares")
      BY <1>1, <2>6, HandAfter
    <3>2. u \in Primary /\ ~onBattery[u]
      BY <2>6 DEF PowersOff, UPS
    <3>3. ~Promise!Spared(u)
      BY <1>1, <2>1, <2>6, NobodySpares DEF Working
    <3>4. Promise!Spare(u, t)
      BY <2>1, <2>2, <2>6, <3>1, <3>2, <3>3 DEF Promise!Spare, ShuttingDown
    <3> QED BY <1>n, <3>4
  <2> QED BY <2>1, <2>3, <2>4, <2>5, <2>6
<1>11. CASE Settle(t)
  <2>1. /\ SetMode(u, DesktopHandled) /\ onBattery' = onBattery
        /\ thread[t].at = "settle" /\ thread'[t].at = "free"
    BY <1>1, <1>m, <1>11 DEF Settle, LeaveMonitoring
  <2>2. Promise!Does(t, u, "spares") /\ Promise!Leaves(t)
    BY <1>1, <2>1, HandAt, HandAfter DEF WorkerPlaces
  <2>3. Promise!Settle(u, t)
    BY <1>d, <2>1, <2>2
       DEF Promise!Settle, Promise!Saves, SetMode, Monitoring, ShuttingDown, DesktopHandled
  <2> QED BY <1>n, <2>3
<1>12. CASE Issue(t)
  <2>1. /\ UNCHANGED <<mode, onBattery>> /\ thread[t].at \in Committed /\ thread'[t].at = "free"
        /\ acted' = [acted EXCEPT ![u] = acted[u] \/ mode[u] = ShuttingDown]
    BY <1>1, <1>m, <1>12 DEF Issue, Committed
  <2>2. Promise!Does(t, u, "issues") /\ Promise!Leaves(t)
    BY <1>1, <2>1, HandAt, HandAfter DEF WorkerPlaces
  <2>3. Promise!Issue(u, t)
    BY <2>1, <2>2 DEF Promise!Issue, ShuttingDown
  <2> QED BY <1>n, <2>3
<1> QED
  BY <1>2, <1>3, <1>4, <1>5, <1>6, <1>7, <1>8, <1>9, <1>10, <1>11, <1>12 DEF Step

LEMMA PromiseNext ==
  ASSUME TypeOK, LockInv, DutyInv, [Next]_vars
  PROVE  Promise!Next \/ Unseen
<1> USE DEF files, fields, history
<1>1. ASSUME NEW t \in Thread, NEW u \in UPS, Begin(t, u) PROVE Unseen
  <2>1. /\ thread[t].at \notin WorkerPlaces /\ thread'[t].at \notin WorkerPlaces
        /\ \A s \in Thread \ {t} : thread'[s] = thread[s]
        /\ UNCHANGED <<mode, acted, onBattery>>
    BY <1>1, BeginOfOne DEF TypeOK, WorkerPlaces
  <2> QED BY <2>1, HandUnseen
<1>2. ASSUME NEW t \in Thread, Step(t) PROVE Promise!Next \/ Unseen
  BY <1>2, PromiseStep
<1>3. ASSUME UNCHANGED <<mode, acted, onBattery, thread>> PROVE Unseen
  BY <1>3 DEF Unseen, HandOf, Doing
<1>4. CASE Restart
  <2>1. \A t \in Thread : HandOf(t)' = Promise!Away
    BY <1>4 DEF Restart, HandOf, Free, WorkerPlaces, Promise!Away
  <2>2. Promise!Restart
    BY <1>4, <2>1 DEF Restart, ModeAfterRestart, Idle, Promise!Restart
  <2> QED BY <2>2 DEF Promise!Next
<1>5. CASE World
  BY <1>3, <1>4, <1>5 DEF World, LoseNotice, PowerChange, AskDesktop
<1>6. CASE UNCHANGED vars
  BY <1>3, <1>6 DEF vars
<1> QED
  BY <1>1, <1>2, <1>5, <1>6 DEF Next

\* The contexts, for all sets of UPSes, desktops and threads and with every event,
\* report, blind poll and restart, implement Orchestration: a decision hires one hand,
\* a hand issues the final command once at most and leaves undone work only when the
\* decision was called off, a primary commits itself only while its own power is noted as
\* out, and nothing stands down or decides between the look and the save of a hand that
\* spares the server.
THEOREM PromiseIsKept == Spec => KeepsPromise
<1>1. Init => Promise!Init
  BY DEF Init, Idle, HandOf, Free, WorkerPlaces, Promise!Init, Promise!Away
<1>2. Init => DutyInv
  BY DEF Init, DutyInv, Free, Holding
<1>3. TypeOK /\ LockInv /\ DutyInv /\ [Next]_vars => [Promise!Next]_(Promise!vars)
  BY PromiseNext, UnseenStutters
<1> QED
  BY <1>1, <1>2, <1>3, TypeCorrect, LocksHold, DutyNext, PTL DEF Spec, KeepsPromise, Promise!Spec

=============================================================================
