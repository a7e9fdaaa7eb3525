---------------------------- MODULE Orchestration ---------------------------
(* What the orchestrator promises of each UPS, whatever its polls, events,  *)
(* reports, timers and workers read and write in between.  A decision to    *)
(* bring a UPS down hires one hand for it.  A hand leaves when it finds the *)
(* decision called off, or it comes to one of two ends: it spares the       *)
(* server, or it issues the final command, once.                            *)
CONSTANTS
  UPS, Primary,
  Hand,          \* the workers that can be hired
  NoUPS

VARIABLES
  mode,          \* "idle", "monitoring_battery", "shutting_down", "desktop_handled"
  hand,          \* what each hand does, and for which UPS
  own,           \* is the UPS's own power noted as out
  acted          \* the final command was issued in this shutting_down

vars == <<mode, hand, own, acted>>

Away == [of |-> NoUPS, does |-> "nothing"]
Does(h, u, what) == hand[h] = [of |-> u, does |-> what]
Turns(h, u, what) == hand' = [hand EXCEPT ![h] = [of |-> u, does |-> what]]
Leaves(h) == hand' = [hand EXCEPT ![h] = Away]

Saves(u, m) ==
  /\ mode' = [mode EXCEPT ![u] = m]
  /\ acted' = [acted EXCEPT ![u] = acted[u] /\ m = "shutting_down"]

\* A hand that spares the server decides and saves in one piece: meanwhile nobody
\* stands down, and nobody decides again.
Spared(u) == \E h \in Hand : Does(h, u, "spares")

Init ==
  /\ mode = [u \in UPS |-> "idle"]
  /\ hand = [h \in Hand |-> Away]
  /\ own = [u \in UPS |-> FALSE]
  /\ acted = [u \in UPS |-> FALSE]

\* What the UPS shows of its own power.
NotePower(u) ==
  /\ own' = [own EXCEPT ![u] = ~@]
  /\ UNCHANGED <<mode, hand, acted>>

\* Monitoring begins, or begins its next phase; the save does not look at what
\* has become of the mode.
Watch(u) ==
  /\ Saves(u, "monitoring_battery")
  /\ UNCHANGED <<hand, own>>

StandDown(u) ==
  /\ ~Spared(u)
  /\ Saves(u, "idle")
  /\ UNCHANGED <<hand, own>>

\* The phase is over; or the desktop of a primary is going down, which was found to
\* matter a moment ago: of what the mode is by now, only shutting_down is minded.
Decide(u, h) ==
  /\ hand[h] = Away
  /\ mode[u] = "monitoring_battery" \/ (u \in Primary /\ mode[u] # "shutting_down")
  /\ ~Spared(u)
  /\ Saves(u, "shutting_down")
  /\ Turns(h, u, "works")
  /\ UNCHANGED own

\* A hand leaves with its work undone only when the decision was called off.
Dismiss(u, h) ==
  /\ Does(h, u, "works")
  /\ mode[u] # "shutting_down"
  /\ Leaves(h)
  /\ UNCHANGED <<mode, own, acted>>

\* Nothing takes this back.  A primary whose own power is not out, or whose
\* decision was called off, never gets here.
Commit(u, h) ==
  /\ Does(h, u, "works")
  /\ u \in Primary => mode[u] = "shutting_down" /\ own[u]
  /\ Turns(h, u, "issues")
  /\ UNCHANGED <<mode, own, acted>>

Issue(u, h) ==
  /\ Does(h, u, "issues")
  /\ acted' = [acted EXCEPT ![u] = acted[u] \/ mode[u] = "shutting_down"]
  /\ Leaves(h)
  /\ UNCHANGED <<mode, own>>

\* Only the desktop was brought down; this is for a primary only.
Spare(u, h) ==
  /\ Does(h, u, "works")
  /\ u \in Primary /\ mode[u] = "shutting_down" /\ ~own[u] /\ ~Spared(u)
  /\ Turns(h, u, "spares")
  /\ UNCHANGED <<mode, own, acted>>

Settle(u, h) ==
  /\ Does(h, u, "spares")
  /\ mode[u] \in {"shutting_down", "monitoring_battery"}
  /\ Saves(u, "desktop_handled")
  /\ Leaves(h)
  /\ UNCHANGED own

\* The process starts again with everything at rest.
Restart ==
  /\ mode' = [u \in UPS |-> "idle"]
  /\ hand' = [h \in Hand |-> Away]
  /\ own' = [u \in UPS |-> FALSE]
  /\ acted' = [u \in UPS |-> FALSE]

Next ==
  \/ \E u \in UPS : NotePower(u) \/ Watch(u) \/ StandDown(u)
  \/ \E u \in UPS, h \in Hand :
       Decide(u, h) \/ Dismiss(u, h) \/ Commit(u, h) \/ Issue(u, h) \/ Spare(u, h) \/ Settle(u, h)
  \/ Restart

Spec == Init /\ [][Next]_vars
=============================================================================
