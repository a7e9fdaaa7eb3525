---------------------------- MODULE MCWakeOnLan ----------------------------
(* A small instance of WakeOnLan: files of up to three entries.             *)
EXTENDS WakeOnLan

E(id, role, desktop, relay, retry) ==
  [id |-> id, role |-> role, desktop |-> desktop, relay |-> relay, retry |-> retry,
   broken |-> FALSE]
D(url, mac) == [url |-> url, mac |-> mac]

SomeEntries ==
  {E("a", Unset, NoDesktop, FALSE, Unset),
   E("a", "primary", NoDesktop, TRUE, 0),
   E("b", "primary", D("d1", "good"), FALSE, 1),
   E("b", "observer", D("d1", "good"), FALSE, Unset),
   E("c", "observer", D("d2", "bad"), FALSE, Unset),
   E("c", "observer", NoDesktop, FALSE, Unset),
   E("c", "other", NoDesktop, FALSE, Unset),
   [E("b", "observer", D("d1", "none"), FALSE, Unset) EXCEPT !.broken = TRUE]}

SomeFiles == UNION {[1 .. n -> SomeEntries] : n \in 0 .. 3} \cup {NoFile}
=============================================================================
