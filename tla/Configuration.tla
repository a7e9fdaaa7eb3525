--------------------------- MODULE Configuration ---------------------------
(***************************************************************************)
(* server/app/config.py, and what server.py and ups_context.py build from  *)
(* it when they start: the UPSs, their roles, the desktop each belongs to, *)
(* and who of them is whose peer.  The names and numbers in a file are     *)
(* values of small sets; a required key that is missing is "broken".       *)
(***************************************************************************)
EXTENDS Integers, Sequences

CONSTANTS
  Id,            \* names of UPSs
  Url,           \* agent_url: one per desktop agent
  NoDesktop,
  NoFile,        \* there is no configuration file
  EnvId, EnvUrl, \* what the environment says when there is none
  DefaultRetry,  \* TimingConfig.wol_retry_interval
  Unset          \* a key that is not in the file

ASSUME NamesAssumption ==
  EnvId \in Id /\ EnvUrl \in Url /\ NoDesktop \notin [url : Url, mac : {"none", "good", "bad"}]
ASSUME RetryAssumption == DefaultRetry \in Nat /\ Unset \notin Nat

(* Faults.  Variants of definitions below, each with a mistake this code   *)
(* could have had: with one of them in place, a property must fail.        *)

NeverAmbiguous(ds) == FALSE

-----------------------------------------------------------------------------

Desktop == [url : Url, mac : {"none", "good", "bad"}]
\* An entry of ups_devices.
Entry ==
  [id : Id, role : {Unset, "primary", "observer", "other"}, desktop : Desktop \cup {NoDesktop},
   relay : BOOLEAN, retry : Nat \cup {Unset}, broken : BOOLEAN]
\* UPSDeviceConfig
Device ==
  [id : Id, role : {"primary", "observer"}, desktop : Desktop \cup {NoDesktop},
   relay : BOOLEAN, retry : Nat]

IsObserver(d) == d.role = "observer"
Given(value, default) == IF value = Unset THEN default ELSE value

\* _load_ups_devices, an entry on its own.
Invalid(e) == e.broken \/ e.role \notin {Unset, "primary", "observer"}
Parsed(e) ==
  [id |-> e.id, role |-> Given(e.role, "primary"), desktop |-> e.desktop,
   relay |-> e.relay, retry |-> Given(e.retry, DefaultRetry)]

\* The primaries that are to inherit a desktop, and the observers they could have it from.
Heirs(ds) == {i \in DOMAIN ds : ~IsObserver(ds[i]) /\ ds[i].desktop = NoDesktop}
Observers(ds) == {i \in DOMAIN ds : IsObserver(ds[i])}
Ambiguous(ds) == Heirs(ds) # {} /\ \E i, j \in Observers(ds) : i # j

Entries(file) == [i \in DOMAIN file |-> Parsed(file[i])]
Rejected(file) ==
  file # NoFile /\ ((\E i \in DOMAIN file : Invalid(file[i])) \/ Ambiguous(Entries(file)))

FirstObserver(ds) == CHOOSE i \in Observers(ds) : \A j \in Observers(ds) : i <= j
WithDesktop(d, desktop) ==
  [id |-> d.id, role |-> d.role, desktop |-> desktop, relay |-> d.relay, retry |-> d.retry]
Inherit(ds) ==
  [i \in DOMAIN ds |->
     IF i \in Heirs(ds) /\ Observers(ds) # {}
     THEN WithDesktop(ds[i], ds[FirstObserver(ds)].desktop) ELSE ds[i]]

\* UPS_DEVICES
Loaded(file) ==
  IF file = NoFile
  THEN <<[id |-> EnvId, role |-> "primary", desktop |-> [url |-> EnvUrl, mac |-> "none"],
          relay |-> FALSE, retry |-> DefaultRetry]>>
  ELSE Inherit(Entries(file))

\* CONTEXTS: of two UPSs with one name, the later one.
Contexts(ds) == {i \in DOMAIN ds : \A j \in DOMAIN ds : j > i => ds[j].id # ds[i].id}

\* register_peers and _desktop_peers
Peers(ds, i, observers) ==
  {j \in Contexts(ds) \ {i} :
     /\ IsObserver(ds[j]) = observers
     /\ ds[i].desktop # NoDesktop /\ ds[j].desktop # NoDesktop
     /\ ds[j].desktop.url = ds[i].desktop.url}
=============================================================================
