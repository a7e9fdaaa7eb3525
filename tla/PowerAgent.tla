----------------------------- MODULE PowerAgent -----------------------------
(***************************************************************************)
(* The power agent of the desktop, desktop/app/power_agent.py.  It holds a *)
(* delay inhibitor of logind, so that logind, before it suspends or halts  *)
(* the machine, waits until the agent has told the server; it takes the    *)
(* inhibitor again when the machine is back.                               *)
(*                                                                         *)
(* The agent is one thread.  The signals of logind wait in its main loop   *)
(* and are handled one after another.  The handler of SIGTERM is a frame   *)
(* on top of whatever the thread is doing: it runs between any two steps   *)
(* of the main frame, also in the middle of a retry or of taking the       *)
(* inhibitor, and reads and writes the same field inhibit_fd.              *)
(*                                                                         *)
(* A step ends where that handler, logind or the server can make a         *)
(* difference.  Time is abstracted: a request, a pause or a wait may end   *)
(* at any step, and logind's limit on a delay may pass at any step.  A     *)
(* request that the agent has given up on may still reach the server.      *)
(***************************************************************************)
EXTENDS Integers, Sequences, FiniteSets

CONSTANTS
  Inhibitor,     \* the locks logind can hand out, by identity
  NoInhibitor,
  MaxSignals,    \* bound on the signals that wait in the main loop
  MaxLate,       \* bound on the reports that are late at one time
  MayRefuse,     \* the Inhibit call may fail
  Unreliable,    \* a request may time out, handled or not, now or later
  MayStop        \* the agent may get a SIGTERM, be killed, be started again

ASSUME InhibitorAssumption ==
  /\ NoInhibitor \notin Inhibitor
  /\ IsFiniteSet(Inhibitor) /\ Cardinality(Inhibitor) >= 2
ASSUME BoundsAssumption == MaxSignals \in Nat \ {0, 1} /\ MaxLate \in Nat
ASSUME FaultsAssumption == {MayRefuse, Unreliable, MayStop} \subseteq BOOLEAN

VARIABLES
  \* logind.
  machine,    \* what the machine is doing
  locks,      \* the delay locks logind knows of: descriptors the agent has open
  \* The agent.
  fd,         \* inhibit_fd
  frame,      \* what the main frame and the frame of the SIGTERM handler are at
  signals,    \* signals that wait in the main loop
  looping,    \* the agent has subscribed and its main loop has been started
  quitting,   \* loop.quit() was called on the running loop
  \* The server.
  heard,      \* desktop_state.json "status"
  late,       \* reports the agent has given up on, still on their way
  \* History.
  refused,    \* the last Inhibit call failed
  termed,     \* this process has got a SIGTERM
  watched,    \* the last announcement of a sleep found the agent waiting, with
              \* its lock, and the agent has not been killed since
  told,       \* a report of going away has been sent since, or tried
  through     \* the last try of a report got through, and no late one came after it

logind  == <<machine, locks>>
agent   == <<fd, frame, signals, looping, quitting>>
server  == <<heard, late>>
history == <<refused, termed, watched, told, through>>
vars    == <<logind, agent, server, history>>

-----------------------------------------------------------------------------
(* Faults.  Variants of definitions below, each with a mistake this code   *)
(* could have had: with one of them in place, a property below must fail.  *)

TriesForEver(f) == FALSE
TakesOverTheOld(job) ==
  CASE job = "resume" -> "wait"
    [] job \in {"sleep", "shutdown", "term"} -> "send"
    [] OTHER -> "inhibit"
ReleasesUnheard(job) ==
  CASE job = "resume" -> "wait"
    [] job \in {"shutdown", "term"} -> "send"
    [] OTHER -> "drop"
StaysWithoutAfterCallOff(job) ==
  CASE job \in {"start", "resume"} -> "inhibit"
    [] job = "term" -> "quit"
    [] job = "end" -> "exit"
    [] OTHER -> "idle"
KeepsLockForSleep(job) ==
  CASE job = "start" -> "subscribe"
    [] job \in {"resume", "sleep"} -> "idle"
    [] OTHER -> "drop"
NeverQuits == FALSE
BackInSilence(job) == IF job = "start" THEN "send" ELSE "idle"

-----------------------------------------------------------------------------
(* Jobs: what a frame has been set to do.                                  *)

Signals == {"sleep", "resume", "shutdown", "cancelled"}
Jobs == Signals \cup {"start", "term", "end"}
TakingJobs == {"start", "resume", "cancelled"}    \* take_delay_lock
ReportingJobs == {"start", "sleep", "resume", "shutdown", "term"}

Report == [start |-> "online", sleep |-> "suspended", resume |-> "online",
           shutdown |-> "shutting_down", term |-> "offline"]
Retries == [start |-> 3, sleep |-> 3, resume |-> 5, shutdown |-> 1, term |-> 1]
MaxRetries == 5
Statuses == {Report[j] : j \in ReportingJobs}

First(job) ==
  CASE job = "resume" -> "wait"
    [] job \in {"sleep", "shutdown", "term"} -> "send"
    [] OTHER -> "drop"
AfterTake(job) == IF job = "cancelled" THEN "idle" ELSE "send"
AfterDrop(job) ==
  CASE job \in TakingJobs -> "inhibit"
    [] job = "term" -> "quit"
    [] job = "end" -> "exit"
    [] OTHER -> "idle"
AfterSend(job) ==
  CASE job = "start" -> "subscribe"
    [] job = "resume" -> "idle"
    [] OTHER -> "drop"

-----------------------------------------------------------------------------
(* Frames.                                                                 *)

Frames == {"main", "term"}
None == [job |-> "end", at |-> "none", tries |-> 0, lock |-> NoInhibitor]
Begin(job) ==
  [job |-> job, at |-> First(job),
   tries |-> IF job \in ReportingJobs THEN Retries[job] ELSE 0, lock |-> NoInhibitor]

Running == machine \in {"awake", "toSleep", "toShutdown"}
Alive == frame["main"].at # "none"
Handling == frame["term"].at # "none"

\* The handler of SIGTERM is on top of the main frame.
At(f, place) == Running /\ frame[f].at = place /\ (f = "main" => ~Handling)
Goto(f, place) == frame' = [frame EXCEPT ![f].at = place, ![f].lock = NoInhibitor]

\* The process has ended: the kernel closes its descriptors.
Ended ==
  /\ frame' = [f \in Frames |-> None]
  /\ fd' = NoInhibitor
  /\ locks' = {}
  /\ signals' = <<>>
  /\ looping' = FALSE
  /\ quitting' = FALSE

-----------------------------------------------------------------------------
(* _send_state: one try.  After the last one the agent goes on all the same. *)

LastTry(f) == frame[f].tries <= 1
Sent(f) ==
  /\ frame' = [frame EXCEPT ![f].at = AfterSend(frame[f].job), ![f].tries = 0]
  /\ told' = (told \/ frame[f].job \in {"sleep", "term"})

SendOk(f) ==
  /\ At(f, "send") /\ heard' = Report[frame[f].job] /\ through' = TRUE /\ Sent(f)
  /\ UNCHANGED <<logind, fd, signals, looping, quitting, late, refused, termed, watched>>

SendFails(f) ==
  LET status == Report[frame[f].job]
  IN  /\ At(f, "send")
      /\ Unreliable
      /\ \/ UNCHANGED server /\ through' = FALSE
         \/ heard' = status /\ UNCHANGED late /\ through' = TRUE
         \/ /\ Cardinality(late) < MaxLate
            /\ late' = late \cup {status} /\ through' = FALSE
            /\ UNCHANGED heard
      /\ \/ LastTry(f) /\ Sent(f)
         \/ /\ ~LastTry(f)
            /\ frame' = [frame EXCEPT ![f].tries = @ - 1]
            /\ UNCHANGED told
      /\ UNCHANGED <<logind, fd, signals, looping, quitting, refused, termed, watched>>

-----------------------------------------------------------------------------
(* release_delay_lock, also as the beginning of take_delay_lock.           *)

Drop(f) ==
  /\ At(f, "drop")
  /\ Goto(f, IF fd = NoInhibitor THEN AfterDrop(frame[f].job) ELSE "close")
  /\ UNCHANGED <<logind, fd, signals, looping, quitting, server, history>>

Close(f) ==
  /\ At(f, "close") /\ fd # NoInhibitor /\ locks' = locks \ {fd}
  /\ Goto(f, "clear")
  /\ UNCHANGED <<machine, fd, signals, looping, quitting, server, history>>

\* The handler of SIGTERM has cleared the field since it was tested: os.close(None)
\* raises a TypeError, only OSError is caught, and the main loop goes on.
CloseRaises ==
  /\ At("main", "close") /\ fd = NoInhibitor /\ Goto("main", "idle")
  /\ UNCHANGED <<logind, fd, signals, looping, quitting, server, history>>

Clear(f) ==
  /\ At(f, "clear") /\ fd' = NoInhibitor /\ Goto(f, AfterDrop(frame[f].job))
  /\ UNCHANGED <<logind, signals, looping, quitting, server, history>>

(* take_delay_lock: the call, and the assignment of what it returned.      *)

InhibitGranted ==
  /\ At("main", "inhibit")
  /\ \E l \in Inhibitor \ locks :
       /\ locks' = locks \cup {l}
       /\ frame' = [frame EXCEPT !["main"].at = "assign", !["main"].lock = l]
  /\ refused' = FALSE
  /\ UNCHANGED <<machine, fd, signals, looping, quitting, server, termed, watched, told, through>>

InhibitRefused ==
  /\ At("main", "inhibit") /\ MayRefuse /\ refused' = TRUE
  /\ Goto("main", AfterTake(frame["main"].job))
  /\ UNCHANGED <<logind, fd, signals, looping, quitting, server, termed, watched, told, through>>

Assign ==
  /\ At("main", "assign") /\ fd' = frame["main"].lock
  /\ Goto("main", AfterTake(frame["main"].job))
  /\ UNCHANGED <<logind, signals, looping, quitting, server, history>>

-----------------------------------------------------------------------------
(* run, and the handlers of the signals.                                   *)

\* From here on the signals of logind are queued.
Subscribe ==
  /\ At("main", "subscribe") /\ looping' = TRUE /\ Goto("main", "idle")
  /\ UNCHANGED <<logind, fd, signals, quitting, server, history>>

Dispatch ==
  /\ At("main", "idle") /\ ~quitting /\ signals # <<>>
  /\ frame' = [frame EXCEPT !["main"] = Begin(Head(signals))]
  /\ signals' = Tail(signals)
  /\ UNCHANGED <<logind, fd, looping, quitting, server, history>>

\* on_prepare_for_sleep(False) waits for the network before anything else.
NetworkWait ==
  /\ At("main", "wait") /\ Goto("main", "drop")
  /\ UNCHANGED <<logind, fd, signals, looping, quitting, server, history>>

LoopEnds ==
  /\ At("main", "idle") /\ quitting
  /\ frame' = [frame EXCEPT !["main"] = Begin("end")]
  /\ UNCHANGED <<logind, fd, signals, looping, quitting, server, history>>

Exit ==
  /\ At("main", "exit") /\ Ended
  /\ UNCHANGED <<machine, server, history>>

(* handle_signal.  One SIGTERM per process, as systemd sends it.           *)

Terminate ==
  /\ Running /\ Alive /\ MayStop /\ ~termed
  /\ termed' = TRUE /\ frame' = [frame EXCEPT !["term"] = Begin("term")]
  /\ UNCHANGED <<logind, fd, signals, looping, quitting, server, refused, watched, told, through>>

\* quit() does nothing to a loop that has not been started.
TakesNotice == looping

Quit ==
  /\ At("term", "quit")
  /\ quitting' = (quitting \/ TakesNotice)
  /\ frame' = [frame EXCEPT !["term"] = None]
  /\ UNCHANGED <<logind, fd, signals, looping, server, history>>

Kill ==
  /\ Running /\ Alive /\ MayStop
  /\ Ended /\ watched' = FALSE
  /\ UNCHANGED <<machine, server, refused, termed, told, through>>

\* systemd, Restart=always; also after an exit.
Launch ==
  /\ Running /\ ~Alive /\ frame' = [frame EXCEPT !["main"] = Begin("start")]
  /\ termed' = FALSE
  /\ UNCHANGED <<logind, fd, signals, looping, quitting, server, refused, watched, told, through>>

-----------------------------------------------------------------------------
(* logind and the machine.                                                 *)

Queued(s) ==
  IF looping THEN Len(signals) < MaxSignals /\ signals' = Append(signals, s)
             ELSE UNCHANGED signals
\* Nothing is announced that the queue has no room for the end of.
Announced(s) == Len(signals) < MaxSignals - 1 /\ Queued(s)

\* The agent waits for signals, with its lock.
OnWatch == frame["main"].at = "idle" /\ ~Handling /\ ~quitting /\ signals = <<>> /\ fd \in locks

AnnounceSleep ==
  /\ machine = "awake" /\ machine' = "toSleep" /\ Announced("sleep")
  /\ watched' = OnWatch /\ told' = FALSE
  /\ UNCHANGED <<locks, fd, frame, looping, quitting, server, refused, termed, through>>

\* When the last lock is gone, or when it has been waited for long enough.
FallAsleep ==
  /\ machine = "toSleep" /\ machine' = "asleep"
  /\ UNCHANGED <<locks, agent, server, history>>

WakeUp ==
  /\ machine = "asleep" /\ machine' = "awake" /\ Queued("resume")
  /\ UNCHANGED <<locks, fd, frame, looping, quitting, server, history>>

AnnounceShutdown ==
  /\ machine = "awake" /\ machine' = "toShutdown" /\ Announced("shutdown")
  /\ UNCHANGED <<locks, fd, frame, looping, quitting, server, history>>

CallOff ==
  /\ machine = "toShutdown" /\ machine' = "awake" /\ Queued("cancelled")
  /\ UNCHANGED <<locks, fd, frame, looping, quitting, server, history>>

PowerOff ==
  /\ machine = "toShutdown" /\ machine' = "off" /\ Ended
  /\ UNCHANGED <<server, history>>

Boot ==
  /\ machine = "off" /\ machine' = "awake"
  /\ UNCHANGED <<locks, agent, server, history>>

-----------------------------------------------------------------------------
(* The server.                                                             *)

\* update_state, for a report that took its time.
HandleLate(status) ==
  /\ status \in late /\ late' = late \ {status} /\ heard' = status
  /\ through' = FALSE
  /\ UNCHANGED <<logind, agent, refused, termed, watched, told>>

\* fetch_state_from_desktop, at each poll.  It asks the other agent of the desktop,
\* which is a program of the login session: where nobody is logged in, or it does not
\* answer, what the server knows stays as it is.
Poll ==
  /\ Running /\ heard' \in {"online", heard}
  /\ UNCHANGED <<logind, agent, late, history>>

-----------------------------------------------------------------------------

Init ==
  /\ machine = "awake" /\ locks = {} /\ fd = NoInhibitor
  /\ frame = [f \in Frames |-> IF f = "main" THEN Begin("start") ELSE None]
  /\ signals = <<>> /\ looping = FALSE /\ quitting = FALSE
  /\ heard \in Statuses /\ late = {} /\ refused = FALSE
  /\ termed = FALSE /\ watched = FALSE /\ told = FALSE /\ through = FALSE

FrameStep(f) == SendOk(f) \/ SendFails(f) \/ Drop(f) \/ Close(f) \/ Clear(f)
AgentStep ==
  \/ \E f \in Frames : FrameStep(f)
  \/ CloseRaises \/ InhibitGranted \/ InhibitRefused \/ Assign
  \/ Subscribe \/ Dispatch \/ NetworkWait \/ LoopEnds \/ Exit \/ Quit
LogindStep ==
  \/ AnnounceSleep \/ FallAsleep \/ WakeUp
  \/ AnnounceShutdown \/ CallOff \/ PowerOff \/ Boot
ServerStep == Poll \/ \E status \in Statuses : HandleLate(status)

Next == AgentStep \/ LogindStep \/ ServerStep \/ Terminate \/ Kill \/ Launch

Spec == Init /\ [][Next]_vars

\* The agent's thread runs while the machine does, and every request has a timeout.
FairSpec == Spec /\ WF_vars(AgentStep)

-----------------------------------------------------------------------------
(* Properties.                                                             *)

Places == {"none", "wait", "drop", "close", "clear", "inhibit", "assign", "send",
           "subscribe", "idle", "quit", "exit"}

FramesTyped ==
  /\ frame \in [Frames -> [job : Jobs, at : Places, tries : 0 .. MaxRetries,
                           lock : Inhibitor \cup {NoInhibitor}]]
  /\ \A f \in Frames : frame[f].at = "send" => frame[f].job \in ReportingJobs

TypeOK ==
  /\ machine \in {"awake", "toSleep", "asleep", "toShutdown", "off"}
  /\ locks \subseteq Inhibitor
  /\ fd \in Inhibitor \cup {NoInhibitor}
  /\ FramesTyped
  /\ signals \in Seq(Signals) /\ Len(signals) <= MaxSignals
  /\ heard \in Statuses /\ late \subseteq Statuses
  /\ {looping, quitting, refused, termed, watched, told, through} \subseteq BOOLEAN

\* The lock that logind knows of is the one in inhibit_fd, or the one just
\* about to be put there, also when the handler of SIGTERM releases it while
\* the main frame is releasing or taking it: a lock that is nowhere in the
\* agent would delay every sleep, and nobody could release it.
NoLockIsLost ==
  \A l \in locks : l = fd \/ (frame["main"].at = "assign" /\ frame["main"].lock = l)

\* An agent that waits for signals on a machine that stays up has the lock,
\* whatever sleeps, wake-ups and called-off shutdowns came before, unless logind
\* refused it the last time: take_delay_lock comes after every release.
WaitsWithLock ==
  /\ frame["main"].at = "idle" /\ signals = <<>> /\ machine = "awake"
  /\ ~termed /\ ~refused
  => fd \in locks

\* An agent that waits for signals on a machine that stays up is not taken for one
\* that sleeps or is gone, without the help of a poll and whatever sleeps, wake-ups,
\* called-off shutdowns, kills and starts came before, if its last report got through
\* and no late one came after it: each "suspended" and each "offline" is
\* followed by an "online", in the order in which logind said so.
BackIsKnown ==
  /\ frame["main"].at = "idle" /\ signals = <<>> /\ machine = "awake"
  /\ ~termed /\ through
  => heard \notin {"suspended", "offline"}

\* A sleep that was announced to an agent on watch, and that logind did not
\* force, comes after the agent has reported it: "sleep never waited for the
\* 'suspended' report" is the bug its test is about.
SleepIsReported ==
  [][machine = "toSleep" /\ machine' = "asleep" /\ locks = {} /\ watched => told]_vars

\* The agent does not hold up a sleep it has been told of, whatever it was doing at
\* the time and however many of its reports fail.
SleepGoesAhead ==
  (machine = "toSleep" /\ \E i \in DOMAIN signals : signals[i] = "sleep")
    ~> (machine # "toSleep" \/ locks = {})

\* A SIGTERM that finds the main loop running ends the agent, also in the middle
\* of a handler, or before the machine sleeps at the latest when it is up again.
TermEndsAgent == (Handling /\ looping) ~> (~Alive \/ machine = "asleep")

=============================================================================
