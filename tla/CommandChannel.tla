--------------------------- MODULE CommandChannel ---------------------------
(***************************************************************************)
(* How a command gets from a primary to its desktop and back.  The server  *)
(* saves a command in command.json and pushes it to the agent; the agent   *)
(* handles each pushed command in a thread of its own (prompt, preflight,  *)
(* suspend or shut down, acknowledge); the server answers a preflight from *)
(* command.json, and a stand-down, an acknowledgement or a restart cancels *)
(* or closes what that file holds.                                         *)
(*                                                                         *)
(* Nothing guards command.json: a cancelling and an acknowledgement read   *)
(* it, then write back what they read.  The steps of the server that only  *)
(* matter here as the cause of a command (monitoring starts, a phase ends, *)
(* mains is back) are one step each; module UPSContext has them in full.   *)
(* Commands have numbers in the order they are issued in; the seconds in   *)
(* the identifiers of the code are taken to differ.                        *)
(***************************************************************************)
EXTENDS Integers, FiniteSets

CONSTANTS
  MaxCommands,     \* bound on the commands issued
  Thread,          \* server threads that may be at work at the same time
  MaxTries,        \* UPS_SUSPEND_MAX_RETRIES
  Unreliable,      \* requests of the agent may fail, with or without effect, and
                   \* a command it runs may raise instead of returning a code
  MayRestart       \* the orchestrator may be restarted

ASSUME BoundsAssumption == MaxCommands \in Nat /\ MaxTries \in Nat \ {0}
ASSUME FaultsAssumption == Unreliable \in BOOLEAN /\ MayRestart \in BOOLEAN

Command == 1 .. MaxCommands

VARIABLES
  mode,      \* of the primary
  file,      \* command.json: a command and its status
  kind,      \* what each command asks for
  issued,    \* how many commands have been issued
  thread,    \* what each server thread is doing
  handler,   \* what the agent's thread for each command is doing
  desktop,   \* is the desktop up
  carried    \* history: commands the agent has carried out

server == <<mode, file, kind, issued, thread>>
agent  == <<handler, desktop, carried>>
vars   == <<server, agent>>

Kinds == {"ups_state", "critical_shutdown"}
Statuses == {"pending", "done", "failed", "cancelled"}

Pending(c) == file = [id |-> c, status |-> "pending"]

-----------------------------------------------------------------------------
(* Threads of the server.                                                  *)

Free == [at |-> "free", id |-> 0, status |-> "none"]
At(t, place) == thread[t].at = place
Goto(t, place, c, status) ==
  thread' = [thread EXCEPT ![t] = [at |-> place, id |-> c, status |-> status]]
Finish(t) == thread' = [thread EXCEPT ![t] = Free]

(* The agent's threads.                                                    *)

Gone == [at |-> "none", tries |-> 0, status |-> "none"]
Awake == desktop \in {"on", "suspending", "stopping"}
InState(c, place) == Awake /\ handler[c].at = place
Becomes(c, place, tries, status) ==
  handler' = [handler EXCEPT ![c] = [at |-> place, tries |-> tries, status |-> status]]
Answers(c, status) == Becomes(c, "ack", 0, status)
Ends(c) == handler' = [handler EXCEPT ![c] = Gone]

-----------------------------------------------------------------------------
(* Faults.  Variants of definitions below, each with a mistake this code   *)
(* could have had: with one of them in place, a property below must fail.  *)

StatusAsRead(status) == "pending"       \* the result is recorded, not the status
StillPending == "pending"
AnyCommand(c) == file.id # 0            \* an acknowledgement is not matched
OneTryMore(c) == handler[c].tries <= MaxTries

-----------------------------------------------------------------------------
(* What makes the server issue a command.                                  *)

\* Bound: threads on their way to issue a command have one left each.
MayIssue ==
  issued + Cardinality({t \in Thread : thread[t].at \in {"prompt", "force", "wake"}})
    < MaxCommands

\* _start_battery_monitoring: the user is prompted if the desktop answers.
Start(t) ==
  /\ At(t, "free")
  /\ mode \in {"idle", "desktop_handled"}
  /\ mode' = "monitoring_battery"
  /\ (MayIssue /\ Goto(t, "prompt", 0, "none")) \/ UNCHANGED thread
  /\ UNCHANGED <<file, kind, issued, agent>>

\* _execute_phase_action starts the worker of the phase; the worker of
\* offline_wait leaves the desktop alone and, on mains, comes to rest at once.
EndPhase(t) ==
  /\ At(t, "free")
  /\ mode = "monitoring_battery"
  /\ \/ /\ MayIssue
        /\ mode' = "shutting_down"
        /\ \E worker \in {"force", "wake"} : Goto(t, worker, 0, "none")
     \/ mode' \in {"shutting_down", "desktop_handled"} /\ UNCHANGED thread
  /\ UNCHANGED <<file, kind, issued, agent>>

\* _action_wake_then_shutdown, up to its last look at the mode.
Wake(t) ==
  /\ At(t, "wake")
  /\ \/ mode = "shutting_down" /\ Goto(t, "force", 0, "none")
     \/ mode # "shutting_down" /\ Finish(t)
  /\ UNCHANGED <<mode, file, kind, issued, agent>>

\* save_command of a new command, over whatever the file holds.
Issue(t, what) ==
  /\ issued < MaxCommands
  /\ issued' = issued + 1
  /\ kind' = [kind EXCEPT ![issued + 1] = what]
  /\ file' = [id |-> issued + 1, status |-> "pending"]
  /\ Goto(t, "push", issued + 1, "none")
  /\ UNCHANGED <<mode, agent>>

Prompt(t) == At(t, "prompt") /\ Issue(t, "ups_state")
PushShutdown(t) == At(t, "force") /\ Issue(t, "critical_shutdown")

\* What follows a push: a prompt is all, a worker waits for the desktop.
Pushed(t) ==
  \/ kind[thread[t].id] = "ups_state" /\ Finish(t)
  \/ kind[thread[t].id] = "critical_shutdown" /\ Goto(t, "wait", 0, "none")

\* push_command_to_desktop, once: the agent starts a thread for the command.
Push(t) ==
  LET c == thread[t].id
  IN  /\ At(t, "push")
      /\ Awake
      /\ Becomes(c, IF kind[c] = "ups_state" THEN "prompt" ELSE "ask", 0, "none")
      /\ Pushed(t)
      /\ UNCHANGED <<mode, file, kind, issued, desktop, carried>>

PushFails(t) ==
  /\ At(t, "push")
  /\ Pushed(t)
  /\ UNCHANGED <<mode, file, kind, issued, agent>>

\* _wait_for_desktop_then_terminal_action: the desktop has reported, or the
\* wait is over; on mains the primary comes to rest.
WaitEnds(t) ==
  /\ At(t, "wait")
  /\ Finish(t)
  /\ mode' \in IF mode = "shutting_down" THEN {"shutting_down", "desktop_handled"} ELSE {mode}
  /\ UNCHANGED <<file, kind, issued, agent>>

-----------------------------------------------------------------------------
(* What ends a command on the server.                                      *)

\* _reset_to_idle
StandDown(t) ==
  /\ At(t, "free")
  /\ mode # "idle"
  /\ mode' = "idle"
  /\ Goto(t, "cancel", 0, "none")
  /\ UNCHANGED <<file, kind, issued, agent>>

CancelledStatus == "cancelled"

CancelRead(t) ==
  /\ At(t, "cancel")
  /\ \/ file.status = "pending" /\ Goto(t, "save", file.id, CancelledStatus)
     \/ file.status # "pending" /\ Finish(t)
  /\ UNCHANGED <<mode, file, kind, issued, agent>>

\* save_command of a command that was read before, with its new status.
Save(t) ==
  /\ At(t, "save")
  /\ file' = [id |-> thread[t].id, status |-> thread[t].status]
  /\ Finish(t)
  /\ UNCHANGED <<mode, kind, issued, agent>>

AckStatus(status) == status
Matches(c) == file.id = c

\* server.py ack reads the file when the agent's request arrives.
Acknowledge(c, t) ==
  /\ InState(c, "ack")
  /\ At(t, "free")
  /\ \/ Matches(c) /\ Goto(t, "save", file.id, AckStatus(handler[c].status))
     \/ ~Matches(c) /\ UNCHANGED thread
  /\ Ends(c)
  /\ UNCHANGED <<mode, file, kind, issued, desktop, carried>>

LoseAck(c) ==
  /\ Unreliable
  /\ InState(c, "ack")
  /\ Ends(c)
  /\ UNCHANGED <<server, desktop, carried>>

\* reset_state_on_startup cancels a shutdown that is pending, not a prompt.
Restart ==
  /\ MayRestart
  /\ mode' = "idle"
  /\ thread' = [t \in Thread |-> Free]
  /\ file' = IF file.status = "pending" /\ kind[file.id] = "critical_shutdown"
             THEN [file EXCEPT !.status = "cancelled"] ELSE file
  /\ UNCHANGED <<kind, issued, agent>>

-----------------------------------------------------------------------------
(* The agent.                                                              *)

\* prompt_soft_suspend: the user's choice, or "shutdown" when there is none.
ChooseSleep(c) ==
  /\ InState(c, "prompt")
  /\ Becomes(c, "askSuspend", 0, "none")
  /\ UNCHANGED <<server, desktop, carried>>

ChooseShutdown(c) ==
  /\ InState(c, "prompt")
  /\ Becomes(c, "ask", 0, "none")
  /\ UNCHANGED <<server, desktop, carried>>

Dismiss(c) ==
  /\ InState(c, "prompt")
  /\ Answers(c, "cancelled")
  /\ UNCHANGED <<server, desktop, carried>>

\* An exception, run_cmd's for one: the thread of a prompt then shuts down for
\* safety, the thread of a shutdown is gone.
Stumble(c) ==
  /\ Unreliable
  /\ InState(c, "prompt") \/ InState(c, "suspend") \/ InState(c, "execute")
  /\ \/ kind[c] = "ups_state" /\ Becomes(c, "failSafe", 0, "none")
     \/ kind[c] # "ups_state" /\ Ends(c)
  /\ UNCHANGED <<server, desktop, carried>>

\* preflight: allowed only while the very command is pending.
PreflightAllowed(c) ==
  /\ Pending(c)
  /\ \/ InState(c, "askSuspend") /\ Becomes(c, "suspend", 1, "none")
     \/ InState(c, "ask") /\ Becomes(c, "execute", 0, "none")
  /\ UNCHANGED <<server, desktop, carried>>

PreflightRejected(c) ==
  /\ ~Pending(c)
  /\ InState(c, "askSuspend") \/ InState(c, "ask")
  /\ Answers(c, "failed")
  /\ UNCHANGED <<server, desktop, carried>>

\* No answer: a suspend turns into a shutdown, a shutdown goes ahead.
PreflightError(c) ==
  /\ Unreliable
  /\ \/ InState(c, "askSuspend") /\ Becomes(c, "failSafe", 0, "none")
     \/ InState(c, "ask") /\ Becomes(c, "execute", 0, "none")
  /\ UNCHANGED <<server, desktop, carried>>

\* do_suspend: systemctl suspend is tried MaxTries times.
Suspend(c) ==
  /\ InState(c, "suspend")
  /\ desktop = "on"
  /\ desktop' = "suspending"
  /\ carried' = carried \cup {c}
  /\ Answers(c, "done")
  /\ UNCHANGED server

TriesLeft(c) == handler[c].tries < MaxTries

SuspendFails(c) ==
  /\ InState(c, "suspend")
  /\ \/ TriesLeft(c) /\ Becomes(c, "suspend", handler[c].tries + 1, "none")
     \/ ~TriesLeft(c) /\ Becomes(c, "failSafe", 0, "none")
  /\ UNCHANGED <<server, desktop, carried>>

\* _execute_shutdown: one of three commands succeeds, or none.  A shutdown for
\* safety is not acknowledged either way.
ShutDown(c) ==
  /\ \/ InState(c, "execute") /\ Answers(c, "done")
     \/ InState(c, "failSafe") /\ Ends(c)
  /\ desktop' = "stopping"
  /\ carried' = carried \cup {c}
  /\ UNCHANGED server

ShutDownFails(c) ==
  /\ \/ InState(c, "execute") /\ Answers(c, "failed")
     \/ InState(c, "failSafe") /\ Ends(c)
  /\ UNCHANGED <<server, desktop, carried>>

-----------------------------------------------------------------------------
(* The machine.  Its threads stand still while it sleeps and are gone when *)
(* it is off.                                                              *)

FallAsleep ==
  /\ desktop = "suspending"
  /\ desktop' = "asleep"
  /\ UNCHANGED <<server, handler, carried>>

PowerDown ==
  /\ desktop = "stopping"
  /\ desktop' = "off"
  /\ handler' = [c \in Command |-> Gone]
  /\ UNCHANGED <<server, carried>>

ComeUp ==
  /\ desktop \in {"asleep", "off"}
  /\ desktop' = "on"
  /\ UNCHANGED <<server, handler, carried>>

-----------------------------------------------------------------------------

Init ==
  /\ mode = "idle"
  /\ file = [id |-> 0, status |-> "none"]
  /\ kind = [c \in Command |-> "none"]
  /\ issued = 0
  /\ thread = [t \in Thread |-> Free]
  /\ handler = [c \in Command |-> Gone]
  /\ desktop \in {"on", "asleep", "off"}
  /\ carried = {}

ServerStep(t) ==
  \/ Wake(t) \/ Prompt(t) \/ PushShutdown(t) \/ Push(t) \/ PushFails(t) \/ WaitEnds(t)
  \/ CancelRead(t) \/ Save(t)

AgentStep(c) ==
  \/ ChooseSleep(c) \/ ChooseShutdown(c) \/ Dismiss(c) \/ Stumble(c)
  \/ PreflightAllowed(c) \/ PreflightRejected(c) \/ PreflightError(c)
  \/ Suspend(c) \/ SuspendFails(c) \/ ShutDown(c) \/ ShutDownFails(c)
  \/ LoseAck(c)
  \/ \E t \in Thread : Acknowledge(c, t)

Next ==
  \/ \E t \in Thread : Start(t) \/ EndPhase(t) \/ StandDown(t) \/ ServerStep(t)
  \/ \E c \in Command : AgentStep(c)
  \/ Restart
  \/ FallAsleep \/ PowerDown \/ ComeUp

Spec == Init /\ [][Next]_vars

-----------------------------------------------------------------------------
(* Properties.                                                             *)

ThreadPlaces == {"free", "prompt", "force", "push", "wake", "wait", "cancel", "save"}
HandlerPlaces ==
  {"none", "prompt", "askSuspend", "ask", "suspend", "execute", "failSafe", "ack"}

ThreadsOK ==
  /\ thread \in [Thread -> [at : ThreadPlaces, id : 0 .. issued,
                            status : Statuses \cup {"none"}]]
  /\ \A t \in Thread : At(t, "push") => kind[thread[t].id] \in Kinds
  /\ \A t \in Thread : At(t, "save") => thread[t].id # 0

HandlersOK ==
  handler \in [Command -> [at : HandlerPlaces, tries : 0 .. MaxTries,
                          status : Statuses \cup {"none"}]]

\* The type invariant.
TypeOK ==
  /\ mode \in {"idle", "monitoring_battery", "shutting_down", "desktop_handled"}
  /\ issued \in 0 .. MaxCommands
  /\ file \in [id : 0 .. issued, status : Statuses \cup {"none"}]
  /\ file.id = 0 => file.status = "none"
  /\ kind \in [Command -> Kinds \cup {"none"}]
  /\ ThreadsOK
  /\ HandlersOK
  /\ desktop \in {"on", "suspending", "stopping", "asleep", "off"}
  /\ carried \subseteq Command

\* A late answer to an older prompt is never allowed once a newer command has
\* been issued, whatever the unguarded writers of command.json do to each other.
OnlyLatestPending == file.status = "pending" => file.id = issued

\* A command that was cancelled, answered or replaced is never pending again: a
\* command becomes pending only by being issued.
NothingComesBack ==
  [][\A c \in Command : Pending(c)' => Pending(c) \/ (issued = c - 1 /\ issued' = c)]_vars

\* What is on file as done was carried out by the agent, and under that name: no
\* acknowledgement is taken for one of another command.
DoneIsDone == file.status = "done" => file.id \in carried

=============================================================================
