------------------------------ MODULE OutageLog -----------------------------
(***************************************************************************)
(* The outage log of one UPS, file operation by file operation: the entry  *)
(* of the outage that is open (outage_state.json) and the history of those *)
(* that are over (outage_history.jsonl).  UPSContext calls record_start    *)
(* and record_end from polls, events, starts and phase actions, and        *)
(* resolve_on_startup before anything else.  No lock covers all of them:   *)
(* threads read, append, write and remove beside each other.  The process  *)
(* can be killed between any two steps.                                    *)
(*                                                                         *)
(* The entry is written in place: it is truncated, then filled, and what   *)
(* is read in between is no entry.  Who has opened the file keeps it: once *)
(* it is removed, what is filled in goes nowhere.  A line of the history   *)
(* is short and appended at once.  Of a time only the order counts:        *)
(* outages are known by the number of the record_start that opened them.   *)
(***************************************************************************)
EXTENDS Integers

CONSTANTS
  MaxOutages,   \* bound on the calls of record_start
  Thread,       \* threads that may call at the same time
  Main          \* the thread that resolves the log at start-up

ASSUME CountAssumption == MaxOutages \in Nat
ASSUME MainAssumption == Main \notin Thread

Outage == 1 .. MaxOutages
Caller == Thread \cup {Main}

VARIABLES
  entry,      \* outage_state.json: missing, torn, or an entry and its outcome
  recorded,   \* the outcomes each outage has in outage_history.jsonl
  calls,      \* how many times record_start has been called
  caller,     \* what each thread is doing
  torn,       \* history: outages whose entry a crash has left truncated
  mixed       \* history: outages at stake, not yet recorded, when two calls overlapped

vars == <<entry, recorded, calls, caller, torn, mixed>>

NoEntry == [state |-> "missing", start |-> 0]
Torn == [state |-> "torn", start |-> 0]
Entry(state, o) == [state |-> state, start |-> o]
Readable == entry.state \in {"open", "initiated"}

\* A caller: which method, where in it, the entry it has read, and the outage it
\* is to open.
Free == [call |-> "none", at |-> "free", read |-> 0, opens |-> 0]
At(t, place) == caller[t].at = place
Goto(t, place) == caller' = [caller EXCEPT ![t].at = place]
Reads(t, place) == caller' = [caller EXCEPT ![t].at = place, ![t].read = entry.start]
Finish(t) == caller' = [caller EXCEPT ![t] = Free]

Closed == {o \in Outage : recorded[o] # {}}

\* The outages at stake: on file, read by a caller, or about to be opened by one.
AtStake ==
  {o \in Outage : o = entry.start \/ \E u \in Caller : o \in {caller[u].read, caller[u].opens}}
Busy(u) == ~At(u, "free")

\* A call begins, maybe beside others.
Enter(t) ==
  mixed' = mixed \cup IF \E u \in Thread \ {t} : Busy(u) THEN AtStake' \ Closed ELSE {}

-----------------------------------------------------------------------------
(* Faults.  Variants of definitions below, each with a mistake this code   *)
(* could have had: with one of them in place, a property below must fail.  *)

OverTheOld(call) ==                  \* an unclosed entry is not closed first
  IF call \in {"record_start", "shutdown_initiated"} THEN "truncate" ELSE "append"
AnyFile(t) == entry.state # "missing"        \* a torn file is taken for an entry

-----------------------------------------------------------------------------

RecordStart(t) ==
  /\ calls < MaxOutages
  /\ At(Main, "free") /\ At(t, "free")
  /\ calls' = calls + 1
  /\ caller' = [caller EXCEPT ![t] =
       [call |-> "record_start", at |-> "read", read |-> 0, opens |-> calls + 1]]
  /\ UNCHANGED <<entry, recorded, torn>>
  /\ Enter(t)

Ends == {"power_restored", "shutdown_initiated"}

RecordEnd(t, outcome) ==
  /\ At(Main, "free") /\ At(t, "free")
  /\ caller' = [caller EXCEPT ![t] = [call |-> outcome, at |-> "read", read |-> 0, opens |-> 0]]
  /\ UNCHANGED <<entry, recorded, calls, torn>>
  /\ Enter(t)

\* Where each method goes on with an entry it has found.
AfterRead(call) == IF call = "shutdown_initiated" THEN "truncate" ELSE "append"

\* The part of the entry a method needs to go on.
Concerns(t) ==
  IF caller[t].call = "resolve_on_startup" THEN entry.state = "initiated" ELSE Readable

\* _read_state
ReadState(t) ==
  /\ At(t, "read")
  /\ \/ Concerns(t) /\ Reads(t, AfterRead(caller[t].call))
     \/ ~Concerns(t) /\ caller[t].call = "record_start" /\ Goto(t, "truncate")
     \/ ~Concerns(t) /\ caller[t].call # "record_start" /\ Finish(t)
  /\ UNCHANGED <<entry, recorded, calls, torn, mixed>>

Outcome(call) ==
  CASE call = "record_start" -> "unknown"
    [] call = "resolve_on_startup" -> "power_restored_after_reboot"
    [] OTHER -> call

\* _append_completed
AppendCompleted(t) ==
  /\ At(t, "append")
  /\ recorded' = [recorded EXCEPT ![caller[t].read] = @ \cup {Outcome(caller[t].call)}]
  /\ Goto(t, IF caller[t].call = "record_start" THEN "truncate" ELSE "clear")
  /\ UNCHANGED <<entry, calls, torn, mixed>>

\* What a caller is writing: a new entry, or the one it read, marked.
Writes(t) ==
  IF caller[t].call = "record_start" THEN Entry("open", caller[t].opens)
                                     ELSE Entry("initiated", caller[t].read)

\* _write_state, in two steps
Truncate(t) ==
  /\ At(t, "truncate")
  /\ entry' = Torn
  /\ Goto(t, "fill")
  /\ UNCHANGED <<recorded, calls, torn, mixed>>

\* What is on file when it has been filled: a new entry is shorter than one that is
\* marked, and does not cover what another caller has filled in meanwhile.
Filled(t) ==
  IF entry.state = "initiated" /\ Writes(t).state = "open" THEN Torn ELSE Writes(t)

Fill(t) ==
  /\ At(t, "fill")
  /\ entry' = Filled(t)
  /\ Finish(t)
  /\ UNCHANGED <<recorded, calls, torn, mixed>>

\* The same, of a file that has been removed since.
FillRemoved(t) ==
  /\ At(t, "removed")
  /\ Finish(t)
  /\ UNCHANGED <<entry, recorded, calls, torn, mixed>>

Filling == {t \in Caller : At(t, "fill")}

\* _clear_state
ClearState(t) ==
  /\ At(t, "clear")
  /\ entry' = NoEntry
  /\ caller' = [u \in Caller |->
       IF u = t THEN Free
       ELSE IF u \in Filling THEN [caller[u] EXCEPT !.at = "removed"] ELSE caller[u]]
  /\ UNCHANGED <<recorded, calls, torn, mixed>>

\* The process dies and is started again.
Restart ==
  /\ caller' = [t \in Caller |->
       IF t = Main THEN [call |-> "resolve_on_startup", at |-> "read", read |-> 0, opens |-> 0]
                   ELSE Free]
  /\ torn' = torn \cup {Writes(t).start : t \in {f \in Filling : entry = Torn}}
  /\ UNCHANGED <<entry, recorded, calls, mixed>>

-----------------------------------------------------------------------------

Init ==
  /\ entry = NoEntry
  /\ recorded = [o \in Outage |-> {}]
  /\ calls = 0
  /\ caller = [t \in Caller |-> Free]
  /\ torn = {}
  /\ mixed = {}

Step(t) ==
  \/ ReadState(t) \/ AppendCompleted(t) \/ Truncate(t) \/ Fill(t) \/ FillRemoved(t) \/ ClearState(t)

Next ==
  \/ \E t \in Thread : RecordStart(t) \/ \E outcome \in Ends : RecordEnd(t, outcome)
  \/ \E t \in Caller : Step(t)
  \/ Restart

Spec == Init /\ [][Next]_vars

-----------------------------------------------------------------------------
(* Properties.                                                             *)

Calls == {"none", "record_start", "resolve_on_startup"} \cup Ends
Outcomes == {"unknown", "power_restored", "power_restored_after_reboot"}

CallerOK ==
  caller \in [Caller -> [call : Calls,
                         at : {"free", "read", "append", "truncate", "fill", "removed", "clear"},
                         read : 0 .. MaxOutages, opens : 0 .. MaxOutages]]

\* The type invariant; a caller that is to write or append knows what.
TypeOK ==
  /\ entry \in [state : {"missing", "torn", "open", "initiated"}, start : 0 .. MaxOutages]
  /\ Readable <=> entry.start \in Outage
  /\ recorded \in [Outage -> SUBSET Outcomes]
  /\ calls \in 0 .. MaxOutages
  /\ CallerOK
  /\ \A t \in Caller :
       /\ caller[t].at \in {"append", "clear"} => caller[t].read \in Outage
       /\ caller[t].at \in {"truncate", "fill"} => Writes(t).start \in Outage
  /\ torn \subseteq Outage /\ mixed \subseteq Outage

\* The outage the log stands for as open: the entry on file, or the one that is
\* being written, unless its line is in the history already or nothing is promised
\* of it any more.
OnFile ==
  IF entry = Torn /\ Filling # {} THEN Writes(CHOOSE t \in Filling : TRUE).start
                                  ELSE entry.start

Current == IF OnFile \in Closed \cup mixed THEN 0 ELSE OnFile

History == INSTANCE OutageHistory WITH
  current <- Current, closed <- Closed \ mixed, lost <- (torn \ Closed) \cup mixed

\* However many threads call at the same time, and wherever a crash hits, the log
\* keeps the promise of OutageHistory: an outage that was opened gets into the
\* history and stays there, unless a crash hits while its entry is being written, or
\* two calls overlap while it is on file or in their hands.  Only those outages
\* are at risk: none before, and none that is opened when the calls are over.
KeepsHistory == History!Spec

=============================================================================
