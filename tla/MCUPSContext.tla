---------------------------- MODULE MCUPSContext ----------------------------
(* Small instances of UPSContext: what the UPSes can show, which NUT events *)
(* are posted and what the desktop reports, per run.                        *)
EXTENDS UPSContext, TLC

\* One desktop for every UPS.
OneDesktop == [u \in UPS |-> "desktop"]

MainsOrBattery == [u \in UPS |-> {"OL", "OB"}]
MainsOrLow == [u \in UPS |-> {"OL", "OB", "OB LB"}]
DesktopUpsOnly == [u \in UPS |-> IF u \in Primary THEN {"OL"} ELSE {"OL", "OB"}]

NoNotices == [u \in UPS |-> {}]
OnBattOnly == [u \in UPS |-> IF u \in Primary THEN {"ONBATT"} ELSE {}]
SwitchesAndDue == [u \in UPS |-> {"ONLINE", "ONBATT", "desktop_suspend_due"}]

NothingReported == [u \in UPS |-> {}]
DownReported == [u \in UPS |-> IF u \in Primary THEN {"down"} ELSE {}]
SuspendedOrDown == [u \in UPS |-> IF u \in Primary THEN {"suspended", "down"} ELSE {}]

Symmetric == Permutations(Thread)
=============================================================================
