-------------------------- MODULE OutageLog_proofs --------------------------
(* What is proved about OutageLog, for any number of outages and callers:  *)
(* its types, and that it implements OutageHistory.                        *)
EXTENDS OutageLog, TLAPS

\* The bodies of the methods: which of them gets to which place, and that a
\* record_start knows the outage it opens.
ShapeOK ==
  \A t \in Caller :
    /\ At(t, "read") => caller[t].call # "none"
    /\ At(t, "append") => caller[t].call \in {"record_start", "power_restored", "resolve_on_startup"}
    /\ At(t, "clear") => caller[t].call \in {"power_restored", "resolve_on_startup"}
    /\ At(t, "truncate") \/ At(t, "fill") => caller[t].call \in {"record_start", "shutdown_initiated"}
    /\ caller[t].call = "record_start" => caller[t].opens \in 1 .. calls

-----------------------------------------------------------------------------
(* How the steps of a caller change the callers.                           *)

OthersStay(t) == \A u \in Caller : u # t => caller'[u] = caller[u]

LEMMA GotoStep ==
  ASSUME CallerOK, NEW t \in Caller, Goto(t, "read") \/ Goto(t, "append") \/ Goto(t, "truncate")
                                     \/ Goto(t, "fill") \/ Goto(t, "clear")
  PROVE  /\ CallerOK' /\ OthersStay(t)
         /\ caller'[t].call = caller[t].call
         /\ caller'[t].read = caller[t].read
         /\ caller'[t].opens = caller[t].opens
BY DEF CallerOK, Goto, OthersStay

LEMMA GotoPlace ==
  ASSUME CallerOK, NEW t \in Caller, NEW place, Goto(t, place)
  PROVE  caller'[t].at = place
BY DEF CallerOK, Goto

LEMMA ReadsStep ==
  ASSUME CallerOK, NEW t \in Caller, NEW place \in {"append", "truncate"}, Reads(t, place),
         entry.start \in 0 .. MaxOutages
  PROVE  /\ CallerOK' /\ OthersStay(t)
         /\ caller'[t].at = place
         /\ caller'[t].read = entry.start
         /\ caller'[t].call = caller[t].call
         /\ caller'[t].opens = caller[t].opens
BY DEF CallerOK, Reads, OthersStay

LEMMA FinishStep ==
  ASSUME CallerOK, NEW t \in Caller, Finish(t)
  PROVE  CallerOK' /\ OthersStay(t) /\ caller'[t] = Free
<1> USE CountAssumption
<1> QED BY DEF CallerOK, Finish, Free, Calls, OthersStay

LEMMA CallStep ==
  ASSUME CallerOK, NEW t \in Caller, NEW c, c \in [call : Calls, at : {"read"},
         read : 0 .. MaxOutages, opens : 0 .. MaxOutages], caller' = [caller EXCEPT ![t] = c]
  PROVE  CallerOK' /\ OthersStay(t) /\ caller'[t] = c
BY DEF CallerOK, OthersStay

LEMMA ClearStep ==
  ASSUME CallerOK, NEW t \in Caller, ClearState(t)
  PROVE  /\ CallerOK' /\ caller'[t] = Free
         /\ \A u \in Caller : u # t /\ u \notin Filling => caller'[u] = caller[u]
         /\ \A u \in Caller : u # t /\ u \in Filling =>
              /\ caller'[u].at = "removed" /\ caller'[u].call = caller[u].call
              /\ caller'[u].read = caller[u].read /\ caller'[u].opens = caller[u].opens
<1> USE CountAssumption
<1>1. \A u \in Caller : caller'[u] = IF u = t THEN Free
         ELSE IF u \in Filling THEN [caller[u] EXCEPT !.at = "removed"] ELSE caller[u]
  BY DEF ClearState
<1>2. CallerOK'
  BY DEF ClearState, CallerOK, Free, Calls
<1> QED BY <1>1, <1>2 DEF CallerOK

\* What is at stake when a call begins is an outage.
LEMMA EnterTyped ==
  ASSUME mixed \subseteq Outage, NEW t \in Thread, Enter(t)
  PROVE  mixed' \subseteq Outage
<1>1. AtStake' \subseteq Outage
  BY DEF AtStake
<1> QED BY <1>1 DEF Enter

-----------------------------------------------------------------------------
(* Types.                                                                  *)

TypeInv == TypeOK /\ ShapeOK

\* What the two ask of one caller.
CallerInv(t) ==
  /\ At(t, "append") \/ At(t, "clear") => caller[t].read \in Outage
  /\ At(t, "truncate") \/ At(t, "fill") => Writes(t).start \in Outage
  /\ At(t, "read") => caller[t].call # "none"
  /\ At(t, "append") => caller[t].call \in {"record_start", "power_restored", "resolve_on_startup"}
  /\ At(t, "clear") => caller[t].call \in {"power_restored", "resolve_on_startup"}
  /\ At(t, "truncate") \/ At(t, "fill") => caller[t].call \in {"record_start", "shutdown_initiated"}
  /\ caller[t].call = "record_start" => caller[t].opens \in 1 .. calls

EntryOK ==
  /\ entry \in [state : {"missing", "torn", "open", "initiated"}, start : 0 .. MaxOutages]
  /\ Readable <=> entry.start \in Outage

Parts ==
  /\ EntryOK /\ recorded \in [Outage -> SUBSET Outcomes] /\ calls \in 0 .. MaxOutages
  /\ torn \subseteq Outage /\ mixed \subseteq Outage /\ CallerOK /\ \A t \in Caller : CallerInv(t)

LEMMA TypeInvParts == (TypeInv <=> Parts) /\ (TypeInv' <=> Parts')
<1> USE DEF EntryOK, CallerInv, At
<1>1. TypeInv <=> Parts
  BY DEF TypeInv, TypeOK, ShapeOK, Parts
<1>2. TypeInv' <=> Parts'
  BY DEF TypeInv, TypeOK, ShapeOK, Parts
<1> QED BY <1>1, <1>2

\* A caller that a step leaves alone.
LEMMA InvStays ==
  ASSUME NEW t \in Caller, CallerInv(t), caller'[t] = caller[t],
         calls \in Nat, calls' \in Nat, calls' >= calls
  PROVE  CallerInv(t)'
<1>1. caller[t].call = "record_start" => caller[t].opens \in 1 .. calls'
  BY DEF CallerInv
<1> QED BY <1>1 DEF CallerInv, At, Writes, Entry

LEMMA TypeInit == Init => TypeInv
<1> SUFFICES ASSUME Init PROVE TypeInv
  OBVIOUS
<1>1. \A t \in Caller : caller[t] = Free
  BY DEF Init
<1>2. CallerOK
  BY CountAssumption DEF Init, CallerOK, Free, Calls
<1>3. EntryOK
  BY CountAssumption DEF Init, EntryOK, NoEntry, Readable, Outage
<1>4. \A t \in Caller : CallerInv(t)
  BY <1>1 DEF CallerInv, At, Free
<1> QED BY <1>2, <1>3, <1>4, TypeInvParts, CountAssumption DEF Init, Parts

LEMMA TypeNext == TypeInv /\ [Next]_vars => TypeInv'
<1> SUFFICES ASSUME TypeInv, [Next]_vars PROVE TypeInv'
  OBVIOUS
<1> USE CountAssumption
<1>0. /\ EntryOK /\ recorded \in [Outage -> SUBSET Outcomes] /\ calls \in 0 .. MaxOutages
      /\ torn \subseteq Outage /\ mixed \subseteq Outage /\ CallerOK
  BY TypeInvParts DEF Parts
<1>00. ASSUME NEW t \in Caller PROVE CallerInv(t)
  BY TypeInvParts DEF Parts
<1>e. entry.start \in 0 .. MaxOutages /\ (Readable => entry.start \in Outage)
  BY <1>0 DEF EntryOK
<1>t. Thread \subseteq Caller
  BY DEF Caller
\* What is left to show when one caller moves.
<1>a. ASSUME NEW t \in Caller, CallerOK', OthersStay(t), calls' \in calls .. MaxOutages,
             CallerInv(t)', EntryOK', recorded' \in [Outage -> SUBSET Outcomes],
             torn' \subseteq Outage, mixed' \subseteq Outage
      PROVE  TypeInv'
  <2>1. ASSUME NEW u \in Caller PROVE CallerInv(u)'
    <3>1. CASE u = t
      BY <1>a, <3>1
    <3>2. CASE u # t
      BY <1>0, <1>00, <1>a, <3>2, InvStays DEF OthersStay
    <3> QED BY <3>1, <3>2
  <2> QED BY <1>0, <1>a, <2>1, TypeInvParts DEF Parts
<1>1. ASSUME NEW t \in Thread, RecordStart(t) PROVE TypeInv'
  <2> DEFINE c == [call |-> "record_start", at |-> "read", read |-> 0, opens |-> calls + 1]
  <2>0. c \in [call : Calls, at : {"read"}, read : 0 .. MaxOutages, opens : 0 .. MaxOutages]
    BY <1>0, <1>1 DEF RecordStart, Calls
  <2>1. CallerOK' /\ OthersStay(t) /\ caller'[t] = c
    BY <1>0, <1>1, <1>t, <2>0, CallStep DEF RecordStart
  <2>2. CallerInv(t)'
    BY <1>0, <1>1, <2>1 DEF RecordStart, CallerInv, At
  <2> QED BY <1>0, <1>1, <1>a, <1>t, <2>1, <2>2, EnterTyped DEF RecordStart, EntryOK, Readable
<1>2. ASSUME NEW t \in Thread, NEW outcome \in Ends, RecordEnd(t, outcome) PROVE TypeInv'
  <2> DEFINE c == [call |-> outcome, at |-> "read", read |-> 0, opens |-> 0]
  <2>0. c \in [call : Calls, at : {"read"}, read : 0 .. MaxOutages, opens : 0 .. MaxOutages]
    BY <1>0 DEF Calls
  <2>1. CallerOK' /\ OthersStay(t) /\ caller'[t] = c
    BY <1>0, <1>2, <1>t, <2>0, CallStep DEF RecordEnd
  <2>2. CallerInv(t)'
    BY <1>0, <1>2, <2>1 DEF RecordEnd, CallerInv, At, Ends
  <2> QED BY <1>0, <1>2, <1>a, <1>t, <2>1, <2>2, EnterTyped DEF RecordEnd, EntryOK, Readable
<1>3. ASSUME NEW t \in Caller, ReadState(t) PROVE TypeInv'
  <2>1. UNCHANGED <<entry, recorded, calls, torn, mixed>>
    BY <1>3 DEF ReadState
  <2>2. CallerOK' /\ OthersStay(t) /\ CallerInv(t)'
    <3>1. CASE Concerns(t) /\ Reads(t, AfterRead(caller[t].call))
      <4>1. entry.start \in Outage
        BY <1>e, <3>1 DEF Concerns, Readable
      <4>2. AfterRead(caller[t].call) \in {"append", "truncate"}
        BY DEF AfterRead
      <4>3. /\ CallerOK' /\ OthersStay(t)
            /\ caller'[t].at = AfterRead(caller[t].call) /\ caller'[t].read = entry.start
            /\ caller'[t].call = caller[t].call /\ caller'[t].opens = caller[t].opens
        BY <1>0, <1>e, <3>1, <4>2, ReadsStep
      <4>4. caller[t].call \in Calls /\ caller[t].call # "none"
        BY <1>0, <1>00, <1>3 DEF CallerOK, CallerInv, ReadState
      <4>5. CallerInv(t)'
        BY <1>00, <2>1, <4>1, <4>3, <4>4 DEF CallerInv, At, Writes, Entry, AfterRead, Calls, Ends
      <4> QED BY <4>3, <4>5
    <3>2. CASE caller[t].call = "record_start" /\ Goto(t, "truncate")
      <4>1. /\ CallerOK' /\ OthersStay(t) /\ caller'[t].at = "truncate"
            /\ caller'[t].call = caller[t].call /\ caller'[t].opens = caller[t].opens
        BY <1>0, <3>2, GotoStep, GotoPlace
      <4>2. CallerInv(t)'
        BY <1>0, <1>00, <2>1, <3>2, <4>1 DEF CallerInv, At, Writes, Entry, Outage
      <4> QED BY <4>1, <4>2
    <3>3. CASE Finish(t)
      <4>1. CallerOK' /\ OthersStay(t) /\ caller'[t] = Free
        BY <1>0, <3>3, FinishStep
      <4> QED BY <4>1 DEF CallerInv, At, Free
    <3> QED BY <1>3, <3>1, <3>2, <3>3 DEF ReadState
  <2> QED BY <1>0, <1>a, <2>1, <2>2 DEF EntryOK, Readable
<1>4. ASSUME NEW t \in Caller, AppendCompleted(t) PROVE TypeInv'
  <2>1. Outcome(caller[t].call) \in Outcomes
    BY <1>00, <1>4 DEF AppendCompleted, CallerInv, Outcome, Outcomes
  <2>2. caller[t].read \in Outage
    BY <1>00, <1>4 DEF AppendCompleted, CallerInv
  <2>3. recorded' \in [Outage -> SUBSET Outcomes]
    BY <1>0, <1>4, <2>1, <2>2 DEF AppendCompleted
  <2>4. /\ CallerOK' /\ OthersStay(t)
        /\ caller'[t].at = IF caller[t].call = "record_start" THEN "truncate" ELSE "clear"
        /\ caller'[t].call = caller[t].call /\ caller'[t].opens = caller[t].opens
        /\ caller'[t].read = caller[t].read
    BY <1>0, <1>4, GotoStep, GotoPlace DEF AppendCompleted
  <2>5. CallerInv(t)'
    BY <1>0, <1>00, <1>4, <2>2, <2>4 DEF AppendCompleted, CallerInv, At, Writes, Entry, Outage
  <2> QED BY <1>0, <1>4, <1>a, <2>3, <2>4, <2>5 DEF AppendCompleted, EntryOK, Readable
<1>5. ASSUME NEW t \in Caller, Truncate(t) PROVE TypeInv'
  <2>1. /\ CallerOK' /\ OthersStay(t) /\ caller'[t].at = "fill"
        /\ caller'[t].call = caller[t].call /\ caller'[t].opens = caller[t].opens
        /\ caller'[t].read = caller[t].read
    BY <1>0, <1>5, GotoStep, GotoPlace DEF Truncate
  <2>2. CallerInv(t)'
    BY <1>00, <1>5, <2>1 DEF Truncate, CallerInv, At, Writes, Entry
  <2>3. EntryOK'
    BY <1>5 DEF Truncate, EntryOK, Torn, Readable, Outage
  <2> QED BY <1>0, <1>5, <1>a, <2>1, <2>2, <2>3 DEF Truncate
<1>6. ASSUME NEW t \in Caller, Fill(t) PROVE TypeInv'
  <2>1. CallerOK' /\ OthersStay(t) /\ caller'[t] = Free
    BY <1>0, <1>6, FinishStep DEF Fill
  <2>2. Writes(t).start \in Outage
    BY <1>00, <1>6 DEF Fill, CallerInv
  <2>3. Filled(t) \in [state : {"open", "initiated"}, start : Outage] \cup {Torn}
    BY <2>2 DEF Filled, Writes, Entry
  <2>4. EntryOK'
    BY <1>6, <2>3 DEF Fill, EntryOK, Readable, Outage, Torn
  <2> QED BY <1>0, <1>6, <1>a, <2>1, <2>4 DEF Fill, CallerInv, At, Free
<1>7. ASSUME NEW t \in Caller, ClearState(t) PROVE TypeInv'
  <2>1. CallerOK' /\ caller'[t] = Free
    BY <1>0, <1>7, ClearStep
  <2>2. EntryOK'
    BY <1>7 DEF ClearState, EntryOK, NoEntry, Readable, Outage
  <2>3. ASSUME NEW u \in Caller PROVE CallerInv(u)'
    <3>1. CASE u = t
      BY <2>1, <3>1 DEF CallerInv, At, Free
    <3>2. CASE u # t /\ u \in Filling
      <4>1. /\ caller'[u].at = "removed" /\ caller'[u].call = caller[u].call
            /\ caller'[u].opens = caller[u].opens
        BY <1>0, <1>7, <3>2, ClearStep
      <4> QED BY <1>00, <1>7, <4>1 DEF ClearState, CallerInv, At
    <3>3. CASE u # t /\ u \notin Filling
      <4>1. caller'[u] = caller[u]
        BY <1>0, <1>7, <3>3, ClearStep
      <4>2. calls \in Nat /\ calls' \in Nat /\ calls' >= calls
        BY <1>0, <1>7 DEF ClearState
      <4> QED BY <1>00, <4>1, <4>2, InvStays
    <3> QED BY <3>1, <3>2, <3>3
  <2> QED BY <1>0, <1>7, <2>1, <2>2, <2>3, TypeInvParts DEF ClearState, Parts
<1>10. ASSUME NEW t \in Caller, FillRemoved(t) PROVE TypeInv'
  <2>1. CallerOK' /\ OthersStay(t) /\ caller'[t] = Free
    BY <1>0, <1>10, FinishStep DEF FillRemoved
  <2> QED BY <1>0, <1>10, <1>a, <2>1 DEF FillRemoved, EntryOK, Readable, CallerInv, At, Free
<1>8. CASE Restart
  <2>1. CallerOK'
    BY <1>8 DEF Restart, CallerOK, Free, Calls
  <2>2. \A t \in Caller : CallerInv(t)'
    BY <1>8 DEF Restart, CallerInv, At, Free
  <2>3. \A t \in Filling : Writes(t).start \in Outage
    BY <1>00 DEF Filling, CallerInv
  <2>4. torn' \subseteq Outage
    BY <1>0, <1>8, <2>3 DEF Restart
  <2>5. /\ EntryOK' /\ recorded' \in [Outage -> SUBSET Outcomes] /\ calls' \in 0 .. MaxOutages
        /\ mixed' \subseteq Outage
    BY <1>0, <1>8 DEF Restart, EntryOK, Readable
  <2> QED BY <2>1, <2>2, <2>4, <2>5, TypeInvParts DEF Parts
<1>9. CASE UNCHANGED vars
  <2>1. EntryOK' /\ CallerOK'
    BY <1>0, <1>9 DEF vars, EntryOK, Readable, CallerOK
  <2>2. ASSUME NEW t \in Caller PROVE CallerInv(t)'
    BY <1>0, <1>00, <1>9, InvStays DEF vars
  <2> QED BY <1>0, <1>9, <2>1, <2>2, TypeInvParts DEF vars, Parts
<1> QED
  BY <1>1, <1>2, <1>3, <1>4, <1>5, <1>6, <1>7, <1>8, <1>9, <1>10 DEF Next, Step

\* Whatever the callers do to each other, the file and the threads hold values of
\* their types, and a caller that is to write or append knows what.
THEOREM TypeCorrect == Spec => []TypeOK
<1>1. TypeInv => TypeOK
  BY DEF TypeInv
<1> QED BY <1>1, TypeInit, TypeNext, PTL DEF Spec


-----------------------------------------------------------------------------
(* Where one call is at work at most, what it has read is still on file.   *)
(* Where calls have overlapped, nothing on file or in their hands is an    *)
(* outage that the log still has to keep.                                  *)

Known == Closed \cup mixed \cup {0}

\* No number is ahead of the calls.
Counted ==
  /\ entry.start <= calls
  /\ \A o \in Closed \cup torn \cup mixed : o <= calls
  /\ \A t \in Caller : caller[t].read <= calls /\ caller[t].opens <= calls

FreeOK == \A t \in Caller : At(t, "free") => caller[t] = Free

Alone(t) == \A u \in Caller : u # t => caller[u] = Free

EntryInv == entry.start \in torn => entry.start \in Known

\* What a caller relies on from its last step to its next one.
Relies(t) ==
  /\ ~At(t, "removed")
  /\ At(t, "append") \/ At(t, "clear") => Readable /\ entry.start = caller[t].read
  /\ At(t, "clear") => caller[t].read \in Closed
  /\ At(t, "truncate") /\ caller[t].call = "shutdown_initiated"
       => Readable /\ entry.start = caller[t].read
  /\ At(t, "truncate") /\ caller[t].call = "record_start" => entry.start \in Known
  /\ At(t, "fill") =>
       /\ entry = Torn
       /\ Writes(t).start \in torn => Writes(t).start \in Known
  /\ caller[t].call = "record_start"
       => caller[t].opens \notin Known \cup torn /\ caller[t].opens # entry.start

Apart ==
  /\ EntryInv
  /\ \A t, u \in Caller : caller[t] # Free /\ caller[u] # Free => t = u
  /\ \A t \in Caller : Relies(t)

Astray ==
  /\ entry.start \in Known
  /\ \A t \in Caller : caller[t].read \in Known /\ caller[t].opens \in Known

LogInv == Counted /\ FreeOK /\ (Apart \/ Astray)

LEMMA LogInit == Init => LogInv
<1> SUFFICES ASSUME Init PROVE LogInv
  OBVIOUS
<1>1. \A t \in Caller : caller[t] = Free
  BY DEF Init
<1>2. Closed = {} /\ torn = {} /\ mixed = {} /\ entry.start = 0 /\ calls = 0
  BY DEF Init, Closed, NoEntry
<1>3. Counted /\ FreeOK
  BY <1>1, <1>2 DEF Counted, FreeOK, Free
<1>4. \A t \in Caller : Relies(t)
  BY <1>1 DEF Relies, At, Free
<1> QED BY <1>1, <1>2, <1>3, <1>4 DEF LogInv, Apart, EntryInv

\* What is left to show when the only caller moves.
LEMMA ApartLocal ==
  ASSUME NEW t \in Caller, Alone(t), OthersStay(t), EntryInv', Relies(t)'
  PROVE  Apart' /\ Alone(t)'
<1>1. \A u \in Caller : u # t => caller'[u] = Free
  BY DEF Alone, OthersStay
<1>2. ASSUME NEW u \in Caller PROVE Relies(u)'
  <2>1. CASE u = t
    BY <2>1
  <2>2. CASE u # t
    BY <1>1, <2>2 DEF Relies, At, Free
  <2> QED BY <2>1, <2>2
<1>3. Alone(t)'
  BY <1>1 DEF Alone
<1> QED BY <1>1, <1>2, <1>3 DEF Apart

\* Who moves is alone.
LEMMA MoverIsAlone ==
  ASSUME Apart, NEW t \in Caller, ~At(t, "free")
  PROVE  Alone(t)
<1>1. caller[t] # Free
  BY DEF At, Free
<1> QED BY <1>1 DEF Apart, Alone

-----------------------------------------------------------------------------
(* The open outage of OutageHistory, and the steps that leave it alone.    *)

LEMMA OnFileOf ==
  ASSUME NEW t \in Caller
  PROVE  /\ Alone(t) => OnFile = IF entry = Torn /\ At(t, "fill") THEN Writes(t).start
                                                              ELSE entry.start
         /\ Alone(t)' => OnFile' = IF entry' = Torn /\ At(t, "fill")' THEN Writes(t)'.start
                                                                 ELSE entry'.start
<1>1. ASSUME Alone(t)
      PROVE  OnFile = IF entry = Torn /\ At(t, "fill") THEN Writes(t).start ELSE entry.start
  <2>1. Filling = IF At(t, "fill") THEN {t} ELSE {}
    BY <1>1 DEF Filling, Alone, At, Free
  <2> QED BY <2>1 DEF OnFile
<1>2. ASSUME Alone(t)'
      PROVE  OnFile' = IF entry' = Torn /\ At(t, "fill")' THEN Writes(t)'.start ELSE entry'.start
  <2>1. Filling' = IF At(t, "fill")' THEN {t} ELSE {}
    BY <1>2 DEF Filling, Alone, At, Free
  <2> QED BY <2>1 DEF OnFile
<1> QED BY <1>1, <1>2

\* The entry on file, or what somebody is filling in.
LEMMA OnFileIs ==
  /\ OnFile = entry.start \/ \E t \in Filling : OnFile = Writes(t).start
  /\ OnFile' = entry'.start \/ \E t \in Filling' : OnFile' = Writes(t)'.start
<1>1. OnFile = entry.start \/ \E t \in Filling : OnFile = Writes(t).start
  BY DEF OnFile
<1>2. OnFile' = entry'.start \/ \E t \in Filling' : OnFile' = Writes(t)'.start
  BY DEF OnFile
<1> QED BY <1>1, <1>2

\* What is filled in, its filler has in hand.
LEMMA WritesIs ==
  ASSUME NEW t \in Caller
  PROVE  Writes(t).start = caller[t].opens \/ Writes(t).start = caller[t].read
BY DEF Writes, Entry

LEMMA AstrayHasNone == (Astray => Current = 0) /\ (Astray' => Current' = 0)
<1>1. Astray => OnFile \in Known
  BY OnFileIs, WritesIs DEF Astray, Filling
<1>2. OnFile' = entry'.start \/ \E t \in Filling' : OnFile' = Writes(t)'.start
  BY OnFileIs
<1>3. \A t \in Caller : Writes(t)'.start = caller'[t].opens \/ Writes(t)'.start = caller'[t].read
  BY DEF Writes, Entry
<1>4. Astray' => OnFile' \in Known'
  BY <1>2, <1>3 DEF Astray, Filling
<1> QED BY <1>1, <1>4 DEF Current, Known

Stutter == UNCHANGED <<Current, Closed \ mixed, (torn \ Closed) \cup mixed>>

LEMMA SameHistory ==
  ASSUME UNCHANGED <<recorded, torn, mixed>>, OnFile' = OnFile
  PROVE  Stutter
<1>1. Closed' = Closed
  BY DEF Closed
<1> QED BY <1>1 DEF Stutter, Current

\* A step that touches no file, of a caller that writes none before or after.
LEMMA FilesStay ==
  ASSUME NEW t \in Caller, Alone(t), Alone(t)', UNCHANGED <<entry, recorded, torn, mixed>>,
         ~At(t, "fill"), ~At(t, "fill")'
  PROVE  Stutter
BY OnFileOf, SameHistory


-----------------------------------------------------------------------------
(* A call begins: alone, with the log in order from then on; or beside      *)
(* another, and then what is at stake is lost to the promise.              *)

Begins(t) ==
  /\ At(Main, "free") /\ At(t, "free") /\ UNCHANGED <<entry, recorded, torn>> /\ Enter(t)
  /\ OthersStay(t) /\ At(t, "read")'
  /\ \/ caller'[t].call \in Ends /\ calls' = calls
     \/ /\ caller'[t].call = "record_start" /\ caller'[t].opens = calls + 1
        /\ calls' = calls + 1

LEMMA CallBegins ==
  ASSUME TypeInv, NEW t \in Thread,
         RecordStart(t) \/ \E outcome \in Ends : RecordEnd(t, outcome)
  PROVE  Begins(t) /\ CallerOK' /\ t \in Caller
<1> USE CountAssumption
<1>0. CallerOK /\ calls \in 0 .. MaxOutages /\ t \in Caller
  BY TypeInvParts DEF Parts, Caller
<1>1. CASE RecordStart(t)
  <2> DEFINE c == [call |-> "record_start", at |-> "read", read |-> 0, opens |-> calls + 1]
  <2>1. c \in [call : Calls, at : {"read"}, read : 0 .. MaxOutages, opens : 0 .. MaxOutages]
    BY <1>0, <1>1 DEF RecordStart, Calls
  <2>2. CallerOK' /\ OthersStay(t) /\ caller'[t] = c
    BY <1>0, <1>1, <2>1, CallStep DEF RecordStart
  <2> QED BY <1>0, <1>1, <2>2 DEF RecordStart, Begins, At
<1>2. ASSUME NEW outcome \in Ends, RecordEnd(t, outcome) PROVE Begins(t) /\ CallerOK'
  <2> DEFINE c == [call |-> outcome, at |-> "read", read |-> 0, opens |-> 0]
  <2>1. c \in [call : Calls, at : {"read"}, read : 0 .. MaxOutages, opens : 0 .. MaxOutages]
    BY <1>0 DEF Calls
  <2>2. CallerOK' /\ OthersStay(t) /\ caller'[t] = c
    BY <1>0, <1>2, <2>1, CallStep DEF RecordEnd
  <2> QED BY <1>2, <2>2 DEF RecordEnd, Begins, At
<1> QED BY <1>0, <1>1, <1>2

LEMMA CountsGrow ==
  ASSUME TypeInv, LogInv, NEW t \in Thread, Begins(t)
  PROVE  /\ calls \in Nat /\ calls' \in Nat /\ calls <= calls'
         /\ Closed' = Closed
         /\ \A o \in Closed \cup torn \cup mixed : o \in Nat /\ o <= calls /\ o <= calls'
<1>1. calls \in Nat /\ Closed \cup torn \cup mixed \subseteq Nat
  BY TypeInvParts, CountAssumption DEF Parts, Outage, Closed
<1>2. calls' \in Nat /\ calls <= calls' /\ Closed' = Closed
  BY <1>1 DEF Begins, Closed
<1> QED BY <1>1, <1>2 DEF LogInv, Counted

\* Whatever the callers do, no number gets ahead of the calls.
LEMMA NumbersNext ==
  ASSUME TypeInv, Counted, FreeOK, [Next]_vars
  PROVE  Counted' /\ FreeOK'
<1> USE CountAssumption
<1>0. /\ CallerOK /\ EntryOK /\ calls \in 0 .. MaxOutages
      /\ recorded \in [Outage -> SUBSET Outcomes] /\ Thread \subseteq Caller
      /\ \A t \in Caller : CallerInv(t)
  BY TypeInvParts DEF Parts, Caller
<1>n. /\ calls \in Nat /\ entry.start \in Nat
      /\ \A t \in Caller : caller[t].read \in Nat /\ caller[t].opens \in Nat
  BY <1>0 DEF CallerOK, EntryOK
<1>w. \A t \in Caller : Writes(t).start <= calls
  BY WritesIs DEF Counted
\* What is left to show when nothing new is called.
<1>a. ASSUME calls' = calls, entry'.start <= calls, \A o \in (Closed \cup torn \cup mixed)' : o <= calls,
             \A t \in Caller :
               \/ /\ caller'[t].read = caller[t].read \/ caller'[t].read = entry.start
                  /\ caller'[t].opens = caller[t].opens
                  /\ caller'[t].at = "free" => caller'[t] = caller[t]
               \/ caller'[t] = Free
      PROVE  Counted' /\ FreeOK'
  <2>1. ASSUME NEW t \in Caller
        PROVE  /\ caller'[t].read <= calls' /\ caller'[t].opens <= calls'
               /\ caller'[t].at = "free" => caller'[t] = Free
    BY <1>n, <1>a DEF Counted, FreeOK, Free, At
  <2> QED BY <1>a, <2>1 DEF Counted, FreeOK, At
<1>1. ASSUME NEW t \in Thread, RecordStart(t) \/ \E outcome \in Ends : RecordEnd(t, outcome)
      PROVE  Counted' /\ FreeOK'
  <2>1. Begins(t) /\ CallerOK' /\ t \in Caller
    BY <1>1, CallBegins
  <2>2. calls' \in Nat /\ calls <= calls' /\ Closed' = Closed /\ UNCHANGED <<entry, torn>>
    BY <1>n, <2>1 DEF Begins, Closed
  <2>3. /\ caller'[t].at = "read"
        /\ caller'[t].read = 0
        /\ caller'[t].opens \in {0, calls'}
    <3>1. CASE RecordStart(t)
      BY <1>0, <3>1 DEF RecordStart, CallerOK
    <3>2. CASE \E outcome \in Ends : RecordEnd(t, outcome)
      <4>1. PICK outcome \in Ends : RecordEnd(t, outcome)
        BY <3>2
      <4> QED BY <1>0, <4>1 DEF RecordEnd, CallerOK
    <3> QED BY <1>1, <3>1, <3>2
  <2>4. ASSUME NEW u \in Caller
        PROVE  /\ caller'[u].read <= calls' /\ caller'[u].opens <= calls'
               /\ caller'[u].at = "free" => caller'[u] = Free
    <3>1. CASE u = t
      BY <2>2, <2>3, <3>1
    <3>2. CASE u # t
      BY <1>n, <2>1, <2>2, <3>2 DEF Begins, OthersStay, Counted, FreeOK, At
    <3> QED BY <3>1, <3>2
  <2>5. \A o \in AtStake' : o <= calls'
    BY <1>n, <2>2, <2>4 DEF AtStake, Counted
  <2>6. \A o \in (Closed \cup torn \cup mixed)' : o <= calls'
    <3>1. mixed' \subseteq mixed \cup AtStake'
      BY <2>1 DEF Begins, Enter
    <3>2. \A o \in Closed \cup torn \cup mixed : o \in Nat
      BY TypeInvParts DEF Parts, Closed, Outage
    <3> QED BY <1>n, <2>2, <2>5, <3>1, <3>2 DEF Counted
  <2>7. entry'.start <= calls'
    BY <1>n, <2>2 DEF Counted
  <2> QED BY <2>4, <2>6, <2>7 DEF Counted, FreeOK, At
<1>2. ASSUME NEW t \in Caller, ReadState(t) PROVE Counted' /\ FreeOK'
  <2>1. UNCHANGED <<entry, recorded, calls, torn, mixed>> /\ Closed' = Closed
    BY <1>2 DEF ReadState, Closed
  <2>2. \A u \in Caller :
          \/ /\ caller'[u].read = caller[u].read \/ caller'[u].read = entry.start
             /\ caller'[u].opens = caller[u].opens
             /\ caller'[u].at = "free" => caller'[u] = caller[u]
          \/ caller'[u] = Free
    BY <1>0, <1>2 DEF ReadState, Reads, Goto, Finish, CallerOK, AfterRead
  <2> QED BY <1>a, <2>1, <2>2 DEF Counted
<1>3. ASSUME NEW t \in Caller, AppendCompleted(t) PROVE Counted' /\ FreeOK'
  <2>1. Closed' \subseteq Closed \cup {caller[t].read}
    BY <1>0, <1>3 DEF AppendCompleted, Closed
  <2>2. \A o \in (Closed \cup torn \cup mixed)' : o <= calls
    BY <1>3, <2>1 DEF AppendCompleted, Counted
  <2>3. \A u \in Caller :
          /\ caller'[u].read = caller[u].read /\ caller'[u].opens = caller[u].opens
          /\ caller'[u].at = "free" => caller'[u] = caller[u]
    BY <1>0, <1>3 DEF AppendCompleted, Goto, CallerOK
  <2> QED BY <1>3, <1>a, <2>2, <2>3 DEF AppendCompleted, Counted
<1>4. ASSUME NEW t \in Caller, Truncate(t) PROVE Counted' /\ FreeOK'
  <2>1. UNCHANGED <<recorded, calls, torn, mixed>> /\ Closed' = Closed /\ entry'.start <= calls
    BY <1>n, <1>4 DEF Truncate, Closed, Torn
  <2>2. \A u \in Caller :
          /\ caller'[u].read = caller[u].read /\ caller'[u].opens = caller[u].opens
          /\ caller'[u].at = "free" => caller'[u] = caller[u]
    BY <1>0, <1>4 DEF Truncate, Goto, CallerOK
  <2> QED BY <1>a, <2>1, <2>2 DEF Counted
<1>5. ASSUME NEW t \in Caller, Fill(t) \/ FillRemoved(t) PROVE Counted' /\ FreeOK'
  <2>1. UNCHANGED <<recorded, calls, torn, mixed>> /\ Closed' = Closed
    BY <1>5 DEF Fill, FillRemoved, Closed
  <2>2. entry'.start <= calls
    BY <1>n, <1>w, <1>5 DEF Fill, FillRemoved, Filled, Torn, Counted
  <2>3. \A u \in Caller : caller'[u] = caller[u] \/ caller'[u] = Free
    BY <1>0, <1>5 DEF Fill, FillRemoved, Finish, CallerOK
  <2> QED BY <1>a, <2>1, <2>2, <2>3 DEF Counted
<1>6. ASSUME NEW t \in Caller, ClearState(t) PROVE Counted' /\ FreeOK'
  <2>1. UNCHANGED <<recorded, calls, torn, mixed>> /\ Closed' = Closed /\ entry'.start <= calls
    BY <1>n, <1>6 DEF ClearState, Closed, NoEntry
  <2>2. \A u \in Caller :
          \/ /\ caller'[u].read = caller[u].read /\ caller'[u].opens = caller[u].opens
             /\ caller'[u].at = "free" => caller'[u] = caller[u]
          \/ caller'[u] = Free
    BY <1>0, <1>6, ClearStep
  <2> QED BY <1>a, <2>1, <2>2 DEF Counted
<1>7. CASE Restart
  <2>1. UNCHANGED <<entry, recorded, calls, mixed>> /\ Closed' = Closed
    BY <1>7 DEF Restart, Closed
  <2>2. \A o \in (Closed \cup torn \cup mixed)' : o <= calls
    <3>1. \A u \in Filling : Writes(u).start <= calls
      BY <1>w DEF Filling
    <3> QED BY <1>7, <2>1, <3>1 DEF Restart, Counted
  <2>3. \A u \in Caller :
          /\ caller'[u].read = 0 /\ caller'[u].opens = 0
          /\ caller'[u].at = "free" => caller'[u] = Free
    BY <1>7 DEF Restart, Free
  <2> QED BY <1>n, <2>1, <2>2, <2>3 DEF Counted, FreeOK, At
<1>8. CASE UNCHANGED vars
  BY <1>8 DEF vars, Counted, FreeOK, Closed, At
<1> QED BY <1>1, <1>2, <1>3, <1>4, <1>5, <1>6, <1>7, <1>8 DEF Next, Step

LEMMA BeginsAlone ==
  ASSUME TypeInv, LogInv, NEW t \in Thread, Begins(t),
         \A u \in Thread \ {t} : ~Busy(u)
  PROVE  Apart' /\ Stutter
<1> USE CountAssumption
<1>0. /\ calls \in Nat /\ calls' \in Nat /\ calls <= calls' /\ Closed' = Closed
      /\ \A o \in Closed \cup torn \cup mixed : o \in Nat /\ o <= calls /\ o <= calls'
      /\ t \in Caller /\ entry.start \in 0 .. MaxOutages
  BY CountsGrow, TypeInvParts DEF Parts, EntryOK, Caller
<1>1. UNCHANGED <<entry, recorded, torn, mixed>>
  <2>1. ~\E u \in Thread \ {t} : Busy(u)
    OBVIOUS
  <2> QED BY <2>1 DEF Begins, Enter
<1>2. FreeOK
  BY DEF LogInv
<1>3. Alone(t)
  <2>1. ASSUME NEW u \in Caller, u # t PROVE At(u, "free")
    BY <2>1 DEF Begins, Caller, Busy
  <2> QED BY <1>2, <2>1 DEF FreeOK, Alone
<1>4. EntryInv /\ entry.start <= calls
  BY DEF LogInv, Apart, Astray, EntryInv, Counted
<1>5. EntryInv'
  BY <1>0, <1>1, <1>4 DEF EntryInv, Known
<1>6. Relies(t)'
  <2>1. calls + 1 \notin Known \cup torn /\ calls + 1 # entry.start
    BY <1>0, <1>4 DEF Known
  <2> QED BY <1>0, <1>1, <2>1 DEF Begins, Relies, At, Ends, Known
<1>7. Apart' /\ Alone(t)'
  BY <1>0, <1>3, <1>5, <1>6, ApartLocal DEF Begins
<1>8. ~At(t, "fill") /\ ~At(t, "fill")'
  BY DEF Begins, At
<1> QED BY <1>0, <1>1, <1>3, <1>7, <1>8, FilesStay

\* The outage that is open is at stake, and is not lost already.
LEMMA CurrentAtStake ==
  ASSUME TypeInv, LogInv, NEW t \in Thread, Begins(t), Current # 0
  PROVE  Current \in AtStake' /\ Current \notin Closed \cup mixed \cup torn
<1>1. Apart /\ Current = OnFile /\ OnFile \notin Known
  BY AstrayHasNone DEF LogInv, Current, Known
<1>2. CASE OnFile = entry.start
  <2>1. entry.start \notin torn
    BY <1>1, <1>2 DEF Apart, EntryInv
  <2>2. entry.start \in Outage
    BY <1>1, <1>2, TypeInvParts DEF Parts, EntryOK, Outage, Known
  <2>3. entry.start \in AtStake'
    BY <2>2 DEF AtStake, Begins
  <2> QED BY <1>1, <1>2, <2>1, <2>3 DEF Known
<1>3. ASSUME NEW u \in Filling, OnFile = Writes(u).start
      PROVE  Current \in AtStake' /\ Current \notin Closed \cup mixed \cup torn
  <2>1. u \in Caller /\ At(u, "fill") /\ u # t
    BY DEF Filling, Begins, At
  <2>2. Writes(u).start \notin torn
    BY <1>1, <1>3, <2>1 DEF Apart, Relies
  <2>3. Writes(u).start \in Outage
    BY <2>1, TypeInvParts DEF Parts, CallerInv
  <2>4. Writes(u).start = caller'[u].opens \/ Writes(u).start = caller'[u].read
    BY <2>1, WritesIs DEF Begins, OthersStay
  <2>5. Writes(u).start \in AtStake'
    BY <2>1, <2>3, <2>4 DEF AtStake
  <2> QED BY <1>1, <1>3, <2>2, <2>5 DEF Known
<1> QED BY <1>2, <1>3, OnFileIs

LEMMA BeginsBeside ==
  ASSUME TypeInv, LogInv, NEW t \in Thread, Begins(t), CallerOK',
         NEW v \in Thread \ {t}, Busy(v)
  PROVE  Astray' /\ \E some \in SUBSET Outage : History!Lose(some)
<1> USE CountAssumption
<1>0. /\ calls \in Nat /\ calls' \in Nat /\ calls <= calls' /\ Closed' = Closed
      /\ \A o \in Closed \cup torn \cup mixed : o \in Nat /\ o <= calls /\ o <= calls'
      /\ t \in Caller /\ entry.start \in 0 .. MaxOutages
      /\ mixed \subseteq Outage /\ torn \subseteq Outage
  BY CountsGrow, TypeInvParts DEF Parts, EntryOK, Caller
<1>1. mixed' = mixed \cup (AtStake' \ Closed) /\ UNCHANGED <<entry, recorded, torn>>
  BY DEF Begins, Enter
<1>2. AtStake' \subseteq Outage /\ AtStake' \subseteq Known'
  BY <1>0, <1>1 DEF AtStake, Known
<1>3. entry'.start \in Known'
  <2>1. entry'.start \in Outage => entry'.start \in AtStake'
    BY DEF AtStake
  <2> QED BY <1>0, <1>1, <1>2, <2>1 DEF Outage, Known
<1>4. \A u \in Caller : caller'[u].read \in Known' /\ caller'[u].opens \in Known'
  <2> TAKE u \in Caller
  <2>1. caller'[u].read \in 0 .. MaxOutages /\ caller'[u].opens \in 0 .. MaxOutages
    BY DEF CallerOK
  <2>2. \A o \in Outage : o \in {caller'[u].read, caller'[u].opens} => o \in AtStake'
    BY DEF AtStake
  <2> QED BY <1>2, <2>1, <2>2 DEF Outage, Known
<1>7. Astray'
  BY <1>3, <1>4 DEF Astray
<1>8. Current' = 0
  BY <1>7, AstrayHasNone
<1> DEFINE some == (AtStake' \ Closed) \ (mixed \cup torn)
<1>9. some \in SUBSET Outage
  BY <1>2
<1>10. Current # 0 => Current \in some
  BY CurrentAtStake
<1>11. History!Lose(some)
  BY <1>0, <1>1, <1>8, <1>10 DEF History!Lose
<1> QED BY <1>7, <1>9, <1>11


-----------------------------------------------------------------------------
(* The file operations of the only caller.                                 *)

LEMMA ReadApart ==
  ASSUME TypeInv, FreeOK, Apart, NEW t \in Caller, ReadState(t)
  PROVE  Apart' /\ Stutter
<1>0. CallerOK /\ EntryInv /\ EntryOK /\ CallerInv(t) /\ Relies(t)
  BY TypeInvParts DEF Parts, Apart
<1>1. Alone(t) /\ At(t, "read") /\ UNCHANGED <<entry, recorded, calls, torn, mixed>>
  BY MoverIsAlone DEF ReadState, At
<1>2. Closed' = Closed /\ Known' = Known /\ (Readable' <=> Readable) /\ EntryInv'
  BY <1>0, <1>1 DEF Closed, Known, Readable, EntryInv
<1>3. OthersStay(t) /\ Relies(t)' /\ ~At(t, "fill")'
  <2>1. CASE Concerns(t) /\ Reads(t, AfterRead(caller[t].call))
    <3>1. AfterRead(caller[t].call) \in {"append", "truncate"} /\ entry.start \in 0 .. MaxOutages
      BY <1>0 DEF AfterRead, EntryOK
    <3>2. /\ OthersStay(t) /\ caller'[t].at = AfterRead(caller[t].call)
          /\ caller'[t].read = entry.start
          /\ caller'[t].call = caller[t].call /\ caller'[t].opens = caller[t].opens
      BY <1>0, <2>1, <3>1, ReadsStep
    <3>3. Readable
      BY <2>1 DEF Concerns, Readable
    <3> QED BY <1>0, <1>1, <1>2, <3>2, <3>3 DEF Relies, At, AfterRead
  <2>2. CASE ~Concerns(t) /\ caller[t].call = "record_start" /\ Goto(t, "truncate")
    <3>1. /\ OthersStay(t) /\ caller'[t].at = "truncate"
          /\ caller'[t].call = caller[t].call /\ caller'[t].opens = caller[t].opens
      BY <1>0, <2>2, GotoStep, GotoPlace
    <3>2. entry.start = 0
      BY <1>0, <2>2, CountAssumption DEF Concerns, EntryOK, Outage
    <3> QED BY <1>0, <1>1, <1>2, <2>2, <3>1, <3>2 DEF Relies, At, Known
  <2>3. CASE Finish(t)
    <3>1. OthersStay(t) /\ caller'[t] = Free
      BY <1>0, <2>3, FinishStep
    <3> QED BY <3>1 DEF Relies, At, Free
  <2> QED BY <2>1, <2>2, <2>3 DEF ReadState
<1>4. Apart' /\ Alone(t)'
  BY <1>1, <1>2, <1>3, ApartLocal
<1> QED BY <1>1, <1>3, <1>4, FilesStay DEF At

\* The history has one line more.
LEMMA ClosedGrows ==
  ASSUME TypeInv, NEW t \in Caller, AppendCompleted(t)
  PROVE  caller[t].read \in Outage /\ Closed' = Closed \cup {caller[t].read}
<1> DEFINE o == caller[t].read
<1>1. o \in Outage /\ recorded \in [Outage -> SUBSET Outcomes]
  BY TypeInvParts DEF Parts, AppendCompleted, CallerInv
<1>2. recorded' = [recorded EXCEPT ![o] = @ \cup {Outcome(caller[t].call)}]
  BY DEF AppendCompleted
<1>3. ASSUME NEW p \in Outage PROVE p \in Closed' <=> p \in Closed \cup {o}
  BY <1>1, <1>2 DEF Closed
<1> QED BY <1>1, <1>3 DEF Closed

LEMMA AppendApart ==
  ASSUME TypeInv, FreeOK, Apart, NEW t \in Caller, AppendCompleted(t)
  PROVE  Apart' /\ (Stutter \/ History!Close)
<1> DEFINE o == caller[t].read
<1>0. CallerOK /\ EntryInv /\ EntryOK /\ CallerInv(t) /\ Relies(t)
  BY TypeInvParts DEF Parts, Apart
<1>1. Alone(t) /\ At(t, "append") /\ UNCHANGED <<entry, calls, torn, mixed>>
  BY MoverIsAlone DEF AppendCompleted, At
<1>2. o \in Outage /\ entry.start = o /\ Readable
  BY <1>0, <1>1 DEF CallerInv, Relies
<1>3. Closed' = Closed \cup {o}
  BY ClosedGrows
<1>4. /\ OthersStay(t)
      /\ caller'[t].at = IF caller[t].call = "record_start" THEN "truncate" ELSE "clear"
      /\ caller'[t].call = caller[t].call /\ caller'[t].opens = caller[t].opens
      /\ caller'[t].read = caller[t].read
  BY <1>0, GotoStep, GotoPlace DEF AppendCompleted
<1>5. EntryInv' /\ Known' = Known \cup {o}
  BY <1>0, <1>1, <1>2, <1>3 DEF EntryInv, Known
<1>6. Relies(t)'
  BY <1>0, <1>1, <1>2, <1>3, <1>4, <1>5 DEF Relies, At, Readable, CallerInv
<1>7. Apart' /\ Alone(t)'
  BY <1>1, <1>4, <1>5, <1>6, ApartLocal
<1>8. OnFile = o /\ OnFile' = o
  BY <1>1, <1>2, <1>4, <1>7, OnFileOf DEF At
<1>9. Current' = 0
  BY <1>3, <1>8 DEF Current
<1>10. CASE o \in Closed \cup mixed
  <2>1. Current = 0
    BY <1>8, <1>10 DEF Current
  <2> QED BY <1>1, <1>3, <1>7, <1>9, <1>10, <2>1 DEF Stutter
<1>11. CASE o \notin Closed \cup mixed
  <2>1. Current = o /\ o # 0 /\ o \notin torn
    BY <1>0, <1>2, <1>8, <1>11 DEF Current, EntryInv, Known, Outage
  <2>2. (torn \ Closed' = torn \ Closed) /\ (Closed' \ mixed = (Closed \ mixed) \cup {o})
    BY <1>3, <1>11, <2>1
  <2> QED BY <1>1, <1>7, <1>9, <2>1, <2>2 DEF History!Close
<1> QED BY <1>10, <1>11

LEMMA TruncateApart ==
  ASSUME TypeInv, FreeOK, Apart, NEW t \in Caller, Truncate(t)
  PROVE  Apart' /\ (Stutter \/ \E o \in Outage : History!Open(o))
<1>0. CallerOK /\ EntryInv /\ EntryOK /\ CallerInv(t) /\ Relies(t)
  BY TypeInvParts DEF Parts, Apart
<1>1. Alone(t) /\ At(t, "truncate") /\ entry' = Torn /\ UNCHANGED <<recorded, calls, torn, mixed>>
  BY MoverIsAlone DEF Truncate, At
<1>2. /\ OthersStay(t) /\ caller'[t].at = "fill"
      /\ caller'[t].call = caller[t].call /\ caller'[t].opens = caller[t].opens
      /\ caller'[t].read = caller[t].read
  BY <1>0, GotoStep, GotoPlace DEF Truncate
<1>3. /\ Closed' = Closed /\ Known' = Known
      /\ Writes(t)' = Writes(t) /\ Writes(t).start \in Outage /\ Writes(t).start # 0
  BY <1>0, <1>1, <1>2 DEF Closed, Known, Writes, Entry, CallerInv, Outage
<1>4. Writes(t).start \in torn => Writes(t).start \in Known
  BY <1>0, <1>1 DEF Relies, CallerInv, Writes, Entry, EntryInv
<1>5. EntryInv'
  BY <1>1 DEF EntryInv, Torn, Known
<1>6. Relies(t)'
  BY <1>0, <1>1, <1>2, <1>3, <1>4 DEF Relies, At, Torn, CallerInv, Known
<1>7. Apart' /\ Alone(t)'
  BY <1>1, <1>2, <1>5, <1>6, ApartLocal
<1>8. OnFile' = Writes(t).start /\ OnFile = entry.start
  BY <1>1, <1>2, <1>3, <1>7, OnFileOf DEF At
<1>9. CASE caller[t].call = "shutdown_initiated"
  <2>1. OnFile' = OnFile
    BY <1>0, <1>1, <1>8, <1>9 DEF Relies, Writes, Entry
  <2> QED BY <1>1, <1>7, <2>1, SameHistory
<1>10. CASE caller[t].call = "record_start"
  <2>1. Writes(t).start = caller[t].opens
    BY <1>10 DEF Writes, Entry
  <2>2. Writes(t).start \notin Known \cup torn
    BY <1>0, <1>10, <2>1 DEF Relies
  <2>3. Current = 0
    BY <1>0, <1>1, <1>8, <1>10 DEF Relies, Current, Known
  <2>4. Current' = Writes(t).start
    BY <1>1, <1>3, <1>8, <2>2 DEF Current, Known
  <2>5. History!Open(Writes(t).start)
    BY <1>1, <1>3, <2>2, <2>3, <2>4 DEF History!Open, Known
  <2> QED BY <1>3, <1>7, <2>5
<1> QED BY <1>0, <1>1, <1>9, <1>10 DEF CallerInv

LEMMA FillApart ==
  ASSUME TypeInv, FreeOK, Apart, NEW t \in Caller, Fill(t)
  PROVE  Apart' /\ Stutter
<1>0. CallerOK /\ EntryInv /\ EntryOK /\ CallerInv(t) /\ Relies(t)
  BY TypeInvParts DEF Parts, Apart
<1>1. Alone(t) /\ At(t, "fill") /\ UNCHANGED <<recorded, calls, torn, mixed>>
  BY MoverIsAlone DEF Fill, At
<1>2. entry = Torn /\ entry' = Writes(t)
  BY <1>0, <1>1 DEF Fill, Filled, Relies, Torn
<1>3. OthersStay(t) /\ caller'[t] = Free
  BY <1>0, FinishStep DEF Fill
<1>4. EntryInv'
  BY <1>0, <1>1, <1>2 DEF EntryInv, Relies, Known, Closed
<1>5. Relies(t)'
  BY <1>3 DEF Relies, At, Free
<1>6. Apart' /\ Alone(t)'
  BY <1>1, <1>3, <1>4, <1>5, ApartLocal
<1>7. OnFile = Writes(t).start /\ OnFile' = Writes(t).start
  BY <1>1, <1>2, <1>3, <1>6, OnFileOf DEF At, Free
<1> QED BY <1>1, <1>6, <1>7, SameHistory

LEMMA ClearApart ==
  ASSUME TypeInv, FreeOK, Apart, NEW t \in Caller, ClearState(t)
  PROVE  Apart' /\ Stutter
<1>0. CallerOK /\ EntryInv /\ EntryOK /\ CallerInv(t) /\ Relies(t)
  BY TypeInvParts DEF Parts, Apart
<1>1. Alone(t) /\ At(t, "clear") /\ entry' = NoEntry /\ UNCHANGED <<recorded, calls, torn, mixed>>
  BY MoverIsAlone DEF ClearState, At
<1>2. OthersStay(t) /\ caller'[t] = Free
  <2>1. Filling = {}
    BY <1>1 DEF Filling, Alone, At, Free
  <2> QED BY <1>0, <2>1, ClearStep DEF OthersStay
<1>3. Closed' = Closed /\ entry'.start = 0 /\ entry' # Torn
  BY <1>1 DEF Closed, NoEntry, Torn
<1>4. EntryInv'
  BY <1>3 DEF EntryInv, Known
<1>5. Relies(t)'
  BY <1>2 DEF Relies, At, Free
<1>6. Apart' /\ Alone(t)'
  BY <1>1, <1>2, <1>4, <1>5, ApartLocal
<1>7. OnFile \in Closed /\ OnFile' = 0
  BY <1>0, <1>1, <1>2, <1>3, <1>6, OnFileOf DEF At, Free, Relies
<1>8. Current = 0 /\ Current' = 0
  BY <1>7 DEF Current
<1> QED BY <1>1, <1>3, <1>6, <1>8 DEF Stutter

-----------------------------------------------------------------------------
(* The file operations of callers that have met.                           *)

LEMMA StepAstray ==
  ASSUME TypeInv, Astray, NEW t \in Caller, Step(t)
  PROVE  Astray' /\ Stutter
<1>0. CallerOK /\ \A u \in Caller : CallerInv(u)
  BY TypeInvParts DEF Parts
<1>1. Writes(t).start \in Known
  BY WritesIs DEF Astray
<1>2. UNCHANGED <<torn, mixed>>
  BY DEF Step, ReadState, AppendCompleted, Truncate, Fill, FillRemoved, ClearState
<1>3. UNCHANGED recorded \/ AppendCompleted(t)
  BY DEF Step, ReadState, Truncate, Fill, FillRemoved, ClearState
<1>4. /\ Known \subseteq Known'
      /\ UNCHANGED <<Closed \ mixed, (torn \ Closed) \cup mixed>>
  <2>1. CASE UNCHANGED recorded
    BY <1>2, <2>1 DEF Known, Closed
  <2>2. CASE AppendCompleted(t)
    <3>1. caller[t].read \in Outage /\ Closed' = Closed \cup {caller[t].read}
      BY <2>2, ClosedGrows
    <3>2. caller[t].read \in Closed \cup mixed
      BY <3>1 DEF Astray, Known, Outage
    <3> QED BY <1>2, <3>1, <3>2 DEF Known
  <2> QED BY <1>3, <2>1, <2>2
<1>5. entry' = entry \/ entry'.start = 0 \/ entry'.start = Writes(t).start
  BY DEF Step, ReadState, AppendCompleted, Truncate, Fill, FillRemoved, ClearState,
         Filled, Torn, NoEntry
<1>6. \A u \in Caller :
        \/ /\ caller'[u].read = caller[u].read \/ caller'[u].read = entry.start
           /\ caller'[u].opens = caller[u].opens
        \/ caller'[u] = Free
  <2>1. CASE ClearState(t)
    BY <1>0, <2>1, ClearStep
  <2>2. CASE ReadState(t)
    BY <1>0, <2>2 DEF ReadState, Reads, Goto, Finish, CallerOK
  <2>3. CASE AppendCompleted(t) \/ Truncate(t)
    BY <1>0, <2>3 DEF AppendCompleted, Truncate, Goto, CallerOK
  <2>4. CASE Fill(t) \/ FillRemoved(t)
    BY <1>0, <2>4 DEF Fill, FillRemoved, Finish, CallerOK
  <2> QED BY <2>1, <2>2, <2>3, <2>4 DEF Step
<1>7. Astray'
  BY <1>1, <1>4, <1>5, <1>6 DEF Astray, Known, Free
<1> QED BY <1>4, <1>7, AstrayHasNone DEF Stutter

LEMMA RestartOfLog ==
  ASSUME TypeInv, LogInv, Restart
  PROVE  (Apart \/ Astray)' /\ (Stutter \/ \E some \in SUBSET Outage : History!Lose(some))
<1>1. /\ \A t \in Caller : caller'[t] = IF t = Main
           THEN [call |-> "resolve_on_startup", at |-> "read", read |-> 0, opens |-> 0] ELSE Free
      /\ UNCHANGED <<entry, recorded, calls, mixed>>
  BY DEF Restart
<1>2. Closed' = Closed /\ Known' = Known /\ Filling' = {}
  BY <1>1 DEF Closed, Known, Filling, At, Free
<1>3. OnFile' = entry.start
  BY <1>1, <1>2 DEF OnFile
<1>4. CASE Astray
  <2>1. \A t \in Filling : Writes(t).start \in Known
    BY <1>4, WritesIs DEF Astray, Filling
  <2>2. \A t \in Filling : Writes(t).start # 0
    BY TypeInvParts DEF Parts, CallerInv, Filling, Outage
  <2>3. UNCHANGED <<Closed \ mixed, (torn \ Closed) \cup mixed>>
    BY <1>1, <1>2, <2>1, <2>2 DEF Restart, Known
  <2>4. Astray'
    BY <1>1, <1>2, <1>4 DEF Astray, Free, Known
  <2> QED BY <1>4, <2>3, <2>4, AstrayHasNone DEF Stutter
<1>5. CASE Apart
  <2>1. \A t \in Caller : Relies(t)'
    BY <1>1 DEF Relies, At, Free
  <2>2. \A t, u \in Caller : caller'[t] # Free /\ caller'[u] # Free => t = u
    BY <1>1
  <2>3. CASE Filling = {}
    <3>1. torn' = torn
      BY <2>3 DEF Restart
    <3>2. Apart'
      BY <1>1, <1>2, <1>5, <2>1, <2>2, <3>1 DEF Apart, EntryInv
    <3>3. OnFile = entry.start
      BY <2>3 DEF OnFile
    <3> QED BY <1>1, <1>3, <3>1, <3>2, <3>3, SameHistory
  <2>4. ASSUME NEW t \in Filling
        PROVE  Apart' /\ (Stutter \/ \E some \in SUBSET Outage : History!Lose(some))
    <3> DEFINE w == Writes(t).start
    <3>1. t \in Caller /\ At(t, "fill") /\ Relies(t) /\ CallerInv(t) /\ Alone(t)
      BY <1>5, <2>4, TypeInvParts, MoverIsAlone DEF Filling, Apart, Parts, At
    <3>2. entry = Torn /\ (w \in torn => w \in Known) /\ w \in Outage /\ w # 0
      BY <3>1 DEF Relies, CallerInv, Outage
    <3>3. Filling = {t}
      BY <3>1 DEF Filling, Alone, At, Free
    <3>4. torn' = torn \cup {w}
      BY <3>2, <3>3 DEF Restart
    <3>5. entry.start = 0
      BY <3>2 DEF Torn
    <3>6. Apart'
      BY <1>1, <2>1, <2>2, <3>5 DEF Apart, EntryInv, Known
    <3>7. OnFile = w
      BY <3>1, <3>2, OnFileOf
    <3>8. Current' = 0
      BY <1>3, <3>5 DEF Current
    <3>9. CASE w \in Closed \cup mixed
      <4>1. Current = 0 /\ (torn' \ Closed') \cup mixed' = (torn \ Closed) \cup mixed
        BY <1>1, <1>2, <3>4, <3>7, <3>9 DEF Current
      <4> QED BY <1>1, <1>2, <3>6, <3>8, <4>1 DEF Stutter
    <3>10. CASE w \notin Closed \cup mixed
      <4>1. Current = w /\ w \notin torn
        BY <3>2, <3>7, <3>10 DEF Current, Known
      <4>2. (torn' \ Closed') \cup mixed' = ((torn \ Closed) \cup mixed) \cup {w}
        BY <1>1, <1>2, <3>4, <3>10
      <4>3. History!Lose({w})
        BY <1>1, <1>2, <3>8, <3>10, <4>1, <4>2 DEF History!Lose
      <4> QED BY <3>2, <3>6, <4>3
    <3> QED BY <3>9, <3>10
  <2> QED BY <2>3, <2>4
<1> QED BY <1>4, <1>5 DEF LogInv

LEMMA LogNext ==
  ASSUME TypeInv, LogInv, [Next]_vars
  PROVE  LogInv' /\ [History!Next]_(History!vars)
<1> USE DEF History!Next
<1>n. Counted' /\ FreeOK' /\ FreeOK
  BY NumbersNext DEF LogInv
<1>u. Stutter => UNCHANGED History!vars
  BY DEF Stutter, History!vars
<1>1. ASSUME NEW t \in Thread, RecordStart(t) \/ \E outcome \in Ends : RecordEnd(t, outcome)
      PROVE  (Apart \/ Astray)' /\ [History!Next]_(History!vars)
  <2>1. Begins(t) /\ CallerOK'
    BY <1>1, CallBegins
  <2>2. CASE \A v \in Thread \ {t} : ~Busy(v)
    BY <1>u, <2>1, <2>2, BeginsAlone
  <2>3. ASSUME NEW v \in Thread \ {t}, Busy(v)
        PROVE  (Apart \/ Astray)' /\ [History!Next]_(History!vars)
    BY <2>1, <2>3, BeginsBeside
  <2> QED BY <2>2, <2>3
<1>2. ASSUME NEW t \in Caller, Step(t)
      PROVE  (Apart \/ Astray)' /\ [History!Next]_(History!vars)
  <2>1. CASE Astray
    BY <1>2, <1>u, <2>1, StepAstray
  <2>2. CASE Apart
    <3>1. ~FillRemoved(t)
      BY <2>2 DEF FillRemoved, Apart, Relies
    <3> QED BY <1>2, <1>n, <1>u, <2>2, <3>1, ReadApart, AppendApart, TruncateApart, FillApart,
               ClearApart DEF Step
  <2> QED BY <2>1, <2>2 DEF LogInv
<1>3. CASE Restart
  BY <1>n, <1>u, <1>3, RestartOfLog DEF LogInv
<1>4. CASE UNCHANGED vars
  <2>1. Closed' = Closed /\ OnFile' = OnFile /\ Known' = Known
    BY <1>4 DEF vars, Closed, OnFile, Known, Filling, At, Writes, Entry
  <2>2. Apart => Apart'
    BY <1>4, <2>1 DEF vars, Apart, EntryInv, Relies, Readable, At, Writes, Entry
  <2>3. Astray => Astray'
    BY <1>4, <2>1 DEF vars, Astray
  <2> QED BY <1>n, <1>4, <1>u, <2>1, <2>2, <2>3, SameHistory DEF vars, LogInv
<1> QED BY <1>n, <1>1, <1>2, <1>3, <1>4 DEF Next, LogInv

\* However many threads call, and whatever the process is doing when it is killed, the
\* log implements OutageHistory: an outage that was opened gets into the history and
\* stays there, unless a crash hits while its entry is being written, or two calls
\* overlap while it is on file or in their hands.
THEOREM LogKeepsHistory == Spec => KeepsHistory
<1>1. Init => History!Init
  <2> SUFFICES ASSUME Init PROVE History!Init
    OBVIOUS
  <2>1. Closed = {} /\ torn = {} /\ mixed = {} /\ OnFile = 0
    BY DEF Init, Closed, OnFile, NoEntry, Torn
  <2> QED BY <2>1 DEF History!Init, Current
<1>2. TypeInv /\ LogInv /\ [Next]_vars => LogInv' /\ [History!Next]_(History!vars)
  BY LogNext
<1> QED
  BY <1>1, <1>2, LogInit, TypeInit, TypeNext, PTL DEF Spec, KeepsHistory, History!Spec

=============================================================================
