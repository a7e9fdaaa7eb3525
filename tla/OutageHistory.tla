---------------------------- MODULE OutageHistory ---------------------------
(* What the outage log of a UPS promises.  Outages are opened one after the *)
(* other; one that is open ends up in the history.  A mishap loses some:   *)
(* what is open, what has yet to be opened.  None is forgotten otherwise,   *)
(* none leaves the history, and none that is lost is opened or closed.      *)
EXTENDS Integers

CONSTANT Outage      \* what outages are known by (the time they started), none of them 0

VARIABLES
  current,   \* the outage that is open, or 0
  closed,    \* the outages in the history
  lost       \* the outages lost by a mishap

vars == <<current, closed, lost>>

Init == current = 0 /\ closed = {} /\ lost = {}

Open(o) ==
  /\ current = 0
  /\ o \notin closed \cup lost
  /\ current' = o
  /\ UNCHANGED <<closed, lost>>

Close ==
  /\ current # 0
  /\ closed' = closed \cup {current}
  /\ current' = 0
  /\ UNCHANGED lost

\* A mishap: a crash, or calls that overlap.
Lose(some) ==
  /\ some \cap (closed \cup lost) = {}
  /\ lost' = lost \cup some
  /\ current' = IF current \in some THEN 0 ELSE current
  /\ UNCHANGED closed

Next ==
  \/ \E o \in Outage : Open(o)
  \/ Close
  \/ \E some \in SUBSET Outage : Lose(some)

Spec == Init /\ [][Next]_vars
=============================================================================
