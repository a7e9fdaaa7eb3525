-------------------------- MODULE WakeOnLan_proofs --------------------------
(***************************************************************************)
(* What is proved of Configuration and WakeOnLan, for every configuration  *)
(* file and all times.                                                     *)
(***************************************************************************)
EXTENDS WakeOnLan, FiniteSetTheorems, TLAPS

-----------------------------------------------------------------------------
(* The configuration.                                                      *)

\* An entry that is not invalid becomes a device.
LEMMA ParsedIsDevice ==
  ASSUME NEW e \in Entry, ~Invalid(e)
  PROVE  Parsed(e) \in Device
<1>1. e.role \in {Unset, "primary", "observer"}
  BY DEF Invalid
<1>2. Given(e.role, "primary") \in {"primary", "observer"}
  BY <1>1 DEF Given
<1>3. Given(e.retry, DefaultRetry) \in Nat
  BY RetryAssumption DEF Given, Entry
<1> QED
  BY <1>2, <1>3 DEF Parsed, Device, Entry

\* What is put together from a device and a desktop.
LEMMA WithDesktopIsDevice ==
  ASSUME NEW d \in Device, NEW k \in Desktop \cup {NoDesktop}
  PROVE  /\ WithDesktop(d, k) \in Device
         /\ WithDesktop(d, k).desktop = k
         /\ WithDesktop(d, k).role = d.role
  BY DEF WithDesktop, Device

\* The entries of an accepted file: devices, and one observer at most where a
\* primary is to inherit.
LEMMA AcceptedEntries ==
  ASSUME NEW f \in Seq(Entry), f # NoFile, ~Rejected(f)
  PROVE  /\ DOMAIN Entries(f) = 1 .. Len(f) /\ DOMAIN f = 1 .. Len(f) /\ Len(f) \in Nat
         /\ \A i \in 1 .. Len(f) : Entries(f)[i] \in Device
         /\ \A i \in 1 .. Len(f) : Entries(f)[i].desktop = f[i].desktop
         /\ Heirs(Entries(f)) # {} => \A i, j \in Observers(Entries(f)) : i = j
<1>1. DOMAIN f = 1 .. Len(f) /\ Len(f) \in Nat /\ \A i \in 1 .. Len(f) : f[i] \in Entry
  OBVIOUS
<1>2. DOMAIN Entries(f) = 1 .. Len(f) /\ \A i \in 1 .. Len(f) : Entries(f)[i] = Parsed(f[i])
  BY <1>1 DEF Entries
<1>3. \A i \in 1 .. Len(f) : ~Invalid(f[i])
  BY <1>1 DEF Rejected
<1>4. \A i \in 1 .. Len(f) : Parsed(f[i]) \in Device /\ Parsed(f[i]).desktop = f[i].desktop
  BY <1>1, <1>3, ParsedIsDevice DEF Parsed
<1>5. Heirs(Entries(f)) # {} => \A i, j \in Observers(Entries(f)) : i = j
  BY DEF Rejected, Ambiguous
<1> QED
  BY <1>1, <1>2, <1>4, <1>5

\* The observer that is inherited from is the one there is.
LEMMA InheritedFrom ==
  ASSUME NEW f \in Seq(Entry), f # NoFile, ~Rejected(f),
         Heirs(Entries(f)) # {}, NEW o \in Observers(Entries(f))
  PROVE  FirstObserver(Entries(f)) = o /\ o \in 1 .. Len(f)
<1> DEFINE S == Observers(Entries(f))
<1>1. o \in 1 .. Len(f) /\ Len(f) \in Nat /\ \A j \in S : o = j
  BY AcceptedEntries DEF Observers
<1>2. \A j \in S : o <= j
  BY <1>1
<1>3. FirstObserver(Entries(f)) \in S
  BY <1>2 DEF FirstObserver
<1> QED
  BY <1>1, <1>3

\* The devices of an accepted file.
LEMMA LoadedFromFile ==
  ASSUME NEW f \in Seq(Entry), f # NoFile, ~Rejected(f)
  PROVE  /\ Loaded(f) \in Seq(Device)
         /\ DOMAIN Loaded(f) = 1 .. Len(f)
         /\ \A i \in 1 .. Len(f) : Loaded(f)[i].role = Entries(f)[i].role
         /\ \A i \in 1 .. Len(f) : i \notin Heirs(Entries(f)) => Loaded(f)[i] = Entries(f)[i]
         /\ \A i \in Heirs(Entries(f)), o \in Observers(Entries(f)) :
              Loaded(f)[i].desktop = Entries(f)[o].desktop
<1> DEFINE ds == Entries(f)
<1>1. /\ DOMAIN ds = 1 .. Len(f) /\ Len(f) \in Nat
      /\ \A i \in 1 .. Len(f) : ds[i] \in Device
  BY AcceptedEntries
<1>2. DOMAIN Loaded(f) = 1 .. Len(f)
  BY <1>1 DEF Loaded, Inherit
<1>3. ASSUME NEW i \in 1 .. Len(f)
      PROVE  /\ Loaded(f)[i] \in Device /\ Loaded(f)[i].role = ds[i].role
             /\ i \notin Heirs(ds) => Loaded(f)[i] = ds[i]
             /\ \A o \in Observers(ds) : i \in Heirs(ds) => Loaded(f)[i].desktop = ds[o].desktop
  <2>1. CASE i \in Heirs(ds) /\ Observers(ds) # {}
    <3>1. PICK o \in Observers(ds) : TRUE
      BY <2>1
    <3>2. FirstObserver(ds) \in 1 .. Len(f) /\ \A n \in Observers(ds) : FirstObserver(ds) = n
      BY <2>1, <3>1, InheritedFrom
    <3>3. Loaded(f)[i] = WithDesktop(ds[i], ds[FirstObserver(ds)].desktop)
      BY <1>1, <2>1 DEF Loaded, Inherit
    <3>4. ds[FirstObserver(ds)].desktop \in Desktop \cup {NoDesktop}
      BY <1>1, <3>2 DEF Device
    <3> QED
      BY <1>1, <2>1, <3>2, <3>3, <3>4, WithDesktopIsDevice
  <2>2. CASE ~(i \in Heirs(ds) /\ Observers(ds) # {})
    BY <1>1, <2>2 DEF Loaded, Inherit
  <2> QED
    BY <2>1, <2>2
<1>4. Loaded(f) \in [1 .. Len(f) -> Device]
  <2>1. Loaded(f) = [i \in 1 .. Len(f) |-> Loaded(f)[i]]
    BY <1>1 DEF Loaded, Inherit
  <2> QED
    BY <1>3, <2>1
<1>5. Loaded(f) \in Seq(Device)
  BY <1>1, <1>4
<1>6. Heirs(ds) \subseteq 1 .. Len(f)
  BY <1>1 DEF Heirs
<1> QED
  BY <1>2, <1>3, <1>5, <1>6

\* The devices, with a file or without.
LEMMA LoadedTyped ==
  ASSUME NEW f \in Files, ~Rejected(f)
  PROVE  Loaded(f) \in Seq(Device)
<1>1. CASE f = NoFile
  BY <1>1, NamesAssumption, RetryAssumption DEF Loaded, Device, Desktop
<1>2. CASE f # NoFile
  BY <1>2, FilesAssumption, LoadedFromFile
<1> QED
  BY <1>1, <1>2

\* A primary that named no desktop and an observer that has one are each other's peers.
LEMMA HeirsHavePeers ==
  ASSUME NEW f \in Seq(Entry), f # NoFile, ~Rejected(f),
         NEW p \in Contexts(Loaded(f)), NEW o \in Contexts(Loaded(f)),
         ~IsObserver(Loaded(f)[p]), f[p].desktop = NoDesktop,
         IsObserver(Loaded(f)[o]), Loaded(f)[o].desktop # NoDesktop
  PROVE  o \in Peers(Loaded(f), p, TRUE) /\ p \in Peers(Loaded(f), o, FALSE)
<1> DEFINE ds == Entries(f)
<1>1. p \in 1 .. Len(f) /\ o \in 1 .. Len(f)
  BY LoadedFromFile DEF Contexts
<1>2. ds[p].role = Loaded(f)[p].role /\ ds[o].role = Loaded(f)[o].role /\ ds[p].desktop = NoDesktop
  BY <1>1, AcceptedEntries, LoadedFromFile
<1>3. DOMAIN ds = 1 .. Len(f)
  BY AcceptedEntries
<1>4. p \in Heirs(ds) /\ o \in Observers(ds) /\ o \notin Heirs(ds)
  BY <1>1, <1>2, <1>3 DEF Heirs, Observers, IsObserver
<1>5. Loaded(f)[p].desktop = ds[o].desktop /\ Loaded(f)[o] = ds[o]
  BY <1>1, <1>4, LoadedFromFile
<1>6. p # o
  OBVIOUS
<1>7. IsObserver(Loaded(f)[o]) = TRUE /\ IsObserver(Loaded(f)[p]) = FALSE
  BY DEF IsObserver
<1> QED
  BY <1>5, <1>6, <1>7 DEF Peers

-----------------------------------------------------------------------------
(* What a call of wol.send sends.                                          *)

\* One of the local methods is used, if any works.
LEMMA UsedOnce ==
  ASSUME NEW w \in SUBSET Local
  PROVE  Cardinality(Used(w)) = IF w = {} THEN 0 ELSE 1
<1>1. CASE w = {}
  <2>1. Used(w) = {}
    BY <1>1 DEF Used
  <2> QED
    BY <1>1, <2>1, FS_EmptySet
<1>2. CASE w # {}
  <2>1. \E m : Used(w) = {m}
    <3>1. CASE "af_packet" \in w
      <4>1. Used(w) = {"af_packet"}
        BY <3>1 DEF Used, Local, Before
      <4> QED
        BY <4>1
    <3>2. CASE "af_packet" \notin w /\ "directed" \in w
      <4>1. Used(w) = {"directed"}
        BY <3>2 DEF Used, Local, Before
      <4> QED
        BY <4>1
    <3>3. CASE "af_packet" \notin w /\ "directed" \notin w
      <4>1. w = {"global"}
        BY <1>2, <3>3 DEF Local
      <4>2. Used(w) = {"global"}
        BY <4>1 DEF Used, Before
      <4> QED
        BY <4>2
    <3> QED
      BY <3>1, <3>2, <3>3
  <2> QED
    BY <1>2, <2>1, FS_Singleton
<1> QED
  BY <1>1, <1>2

\* A call sends one packet at most, and one if it returns.
LEMMA SendsOne ==
  ASSUME NEW d \in Device, NEW s \in Sends(d)
  PROVE  s.left \in {0, 1} /\ s.ok \in BOOLEAN /\ (s.ok => s.left = 1)
<1>1. CASE s \in LocalSends
  <2>1. PICK w \in SUBSET Local : s = [left |-> Cardinality(Used(w)), ok |-> w # {}]
    BY <1>1 DEF LocalSends
  <2>2. s.left = (IF w = {} THEN 0 ELSE 1) /\ s.ok = (w # {})
    BY <2>1, UsedOnce
  <2> QED
    BY <2>2
<1>2. CASE s = [left |-> 1, ok |-> TRUE]
  <2>1. s.left = 1 /\ s.ok = TRUE
    BY <1>2
  <2> QED
    BY <2>1
<1>3. CASE \E n \in {0, 1} : s = [left |-> n, ok |-> FALSE]
  <2>1. s.left \in {0, 1} /\ s.ok = FALSE
    BY <1>3
  <2> QED
    BY <2>1
<1> QED
  BY <1>1, <1>2, <1>3 DEF Sends, RelaySends

-----------------------------------------------------------------------------
(* The invariant.                                                          *)

StartOK == server # "up" => waker.at = "none"

CountsOK == logged <= packets /\ packets <= tries

LateOK ==
  /\ late <= 1
  /\ mode = "resting" /\ waker.at \in {"first", "answer", "again"} => late = 0

\* The times to come and the times gone by add up.
ClocksOK ==
  Windowed =>
    /\ IF waker.retry > 0 THEN since + waker.retry = Mine.retry ELSE since >= Mine.retry
    /\ waker.left > 0 => ran + waker.left = WakeTimeout

\* How late it can be at each place of a turn.
Slack == [turn |-> 0, answer |-> Asking, again |-> Asking, sent |-> Asking + Sending,
          push |-> Asking]
PlacesOK ==
  Windowed =>
    /\ waker.at \in {"again", "sent"} => Mine.retry > 0
    /\ waker.at \in {"again", "push"} => waker.nap = 0
    /\ waker.at = "again" => waker.retry = 0
    /\ Mine.retry > 0 => since + waker.nap <= Mine.retry + Slack[waker.at]
    /\ ran + waker.nap <=
         IF waker.at \in {"turn", "push"} THEN WakeTimeout + Asking + Sending
         ELSE WakeTimeout - 1 + Slack[waker.at]

\* Every packet but the first took an interval.
TriesOK ==
  /\ waker.at = "first" => tries = 0
  /\ waker.at = "begin" => tries <= 1
  /\ Windowed =>
       IF Mine.retry = 0 THEN tries <= 1
       ELSE /\ waker.at # "sent" => (tries - 1) * Mine.retry + since <= ran
            /\ (tries - 1) * Mine.retry <= ran
            /\ (tries - 1) * Mine.retry < WakeTimeout + Asking

Inv == TypeOK /\ StartOK /\ CountsOK /\ LateOK /\ ClocksOK /\ PlacesOK /\ TriesOK

LEMMA InitInv == Init => Inv
  BY FilesAssumption, TimesAssumption
     DEF Init, Inv, TypeOK, StartOK, CountsOK, LateOK, ClocksOK, PlacesOK, TriesOK, Windowed,
         Resting, Places, Device

\* The device of the worker.
LEMMA MineTyped ==
  ASSUME TypeOK, waker.at # "none"
  PROVE  Mine \in Device /\ Mine.retry \in Nat
<1>1. devices \in Seq(Device) /\ waker.dev \in DOMAIN devices
  BY DEF TypeOK, Contexts
<1>2. Mine \in Device
  BY <1>1 DEF Mine
<1> QED
  BY <1>2 DEF Device

\* Without a worker there is little to keep.
LEMMA NoWorkerInv ==
  ASSUME TypeOK', CountsOK', late' <= 1, waker'.at = "none"
  PROVE  Inv'
  BY DEF Inv, StartOK, LateOK, ClocksOK, PlacesOK, TriesOK, Windowed

LEMMA LoadStep == ASSUME Inv, Load PROVE Inv'
<1>1. waker.at = "none"
  BY DEF Inv, StartOK, Load
<1>2. devices' \in Seq(Device) /\ (server' = "up" => ~Rejected(file) /\ devices' = Loaded(file))
  BY LoadedTyped DEF Inv, TypeOK, Load
<1>3. TypeOK'
  BY <1>1, <1>2 DEF Inv, TypeOK, Load, counts, times
<1> QED
  BY <1>1, <1>3, NoWorkerInv DEF Inv, CountsOK, LateOK, Load, counts

LEMMA RestartStep == ASSUME Inv, Restart PROVE Inv'
<1>1. TypeOK'
  BY TimesAssumption DEF Inv, TypeOK, Restart, Resting, Places, counts, times
<1> QED
  BY <1>1, NoWorkerInv DEF Inv, CountsOK, LateOK, Restart, Resting, counts

LEMMA ExecuteStep == ASSUME Inv, Execute PROVE Inv'
<1>1. PICK i \in Contexts(devices) :
        /\ devices[i].desktop # NoDesktop
        /\ waker' = [dev |-> i, at |-> "first", nap |-> 0, left |-> 0, retry |-> 0]
  BY DEF Execute
<1>2. i \in Nat
  BY DEF Inv, TypeOK, Contexts
<1>3. UNCHANGED config /\ mode' = "shutting_down" /\ tries' = 0 /\ packets' = 0 /\ logged' = 0
      /\ late' = 0 /\ since' = 0 /\ ran' = 0 /\ server = "up"
  BY DEF Execute
<1>4. TypeOK'
  BY <1>1, <1>2, <1>3, TimesAssumption DEF Inv, TypeOK, Places, config
<1> QED
  BY <1>1, <1>3, <1>4
     DEF Inv, StartOK, CountsOK, LateOK, ClocksOK, PlacesOK, TriesOK, Windowed, config

LEMMA ModeStep == ASSUME Inv, StandDown \/ NextOutage PROVE Inv'
<1>1. UNCHANGED <<config, waker, tries, packets, logged, times>>
  BY DEF StandDown, NextOutage, counts
<1>2. late' \in {0, late} /\ mode' \in {"resting", "shutting_down"}
      /\ (mode' = "resting" => late' = 0)
  BY DEF StandDown, NextOutage, counts
<1>3. TypeOK'
  BY <1>1, <1>2 DEF Inv, TypeOK, config, times
<1>4. Mine' = Mine
  BY <1>1 DEF Mine, config
<1>5. LateOK'
  BY <1>1, <1>2 DEF Inv, LateOK
<1>6. ClocksOK' /\ PlacesOK' /\ TriesOK'
  BY <1>1, <1>4 DEF Inv, ClocksOK, PlacesOK, TriesOK, Windowed, times
<1> QED
  BY <1>1, <1>3, <1>5, <1>6 DEF Inv, StartOK, CountsOK, config

\* What a call of _send_wol changes.
LEMMA SendEffect ==
  ASSUME Inv, NEW place \in Places, waker.at # "none", SendWol(place)
  PROVE  \E nap \in 0 .. Sending :
           /\ waker' = Waker(place, nap, waker.left, waker.retry)
           /\ tries' \in {tries, tries + 1}
           /\ packets' \in {packets, packets + (tries' - tries)}
           /\ logged' \in {logged, logged + (packets' - packets)}
           /\ late' \in Nat /\ (late' = late \/ (mode = "resting" /\ late' = late + 1))
<1>0. Mine \in Device /\ {tries, packets, logged, late} \subseteq Nat
  BY MineTyped DEF Inv, TypeOK
<1>1. CASE Mine.desktop.mac = "none"
  BY <1>0, <1>1, TimesAssumption DEF SendWol, Goto, counts
<1>2. CASE Mine.desktop.mac # "none"
  <2>1. PICK s \in Sends(Mine), nap \in 0 .. Sending :
          /\ Goto(place, nap)
          /\ tries' = tries + 1
          /\ packets' = packets + s.left
          /\ logged' = IF s.ok THEN logged + 1 ELSE logged
          /\ late' = IF mode = "resting" THEN late + 1 ELSE late
    BY <1>2 DEF SendWol
  <2>2. s.left \in {0, 1} /\ (s.ok => s.left = 1)
    BY <1>0, SendsOne
  <2>3. packets' \in {packets, packets + 1}
    BY <1>0, <2>1, <2>2
  <2>4. logged' = logged \/ (logged' = logged + 1 /\ packets' = packets + 1)
    BY <1>0, <2>1, <2>2
  <2> QED
    BY <1>0, <2>1, <2>3, <2>4 DEF Goto
<1> QED
  BY <1>1, <1>2

\* The worker goes to another place: what its record is then.
LEMMA WakerFields ==
  ASSUME NEW at, NEW nap, NEW left, NEW retry, waker' = Waker(at, nap, left, retry)
  PROVE  /\ waker'.dev = waker.dev /\ waker'.at = at /\ waker'.nap = nap
         /\ waker'.left = left /\ waker'.retry = retry
  BY DEF Waker

\* A step of the worker leaves its device as it is.
LEMMA MineKept ==
  ASSUME TypeOK, waker.at # "none", UNCHANGED <<config, mode>>,
         NEW at \in Places, NEW nap \in Nat, NEW left \in 0 .. WakeTimeout, NEW retry \in Nat,
         waker' = Waker(at, nap, left, retry),
         {tries', packets', logged', late', since', ran'} \subseteq Nat
  PROVE  TypeOK' /\ Mine' = Mine
<1>1. waker'.dev = waker.dev
  BY WakerFields
<1>2. waker' \in [dev : Nat, at : Places, nap : Nat, left : 0 .. WakeTimeout, retry : Nat]
  BY DEF Waker, TypeOK
<1>3. waker'.dev \in Contexts(devices) /\ devices[waker'.dev].desktop # NoDesktop
  BY <1>1 DEF TypeOK
<1> QED
  BY <1>1, <1>2, <1>3 DEF TypeOK, Mine, config

LEMMA SendFirstStep == ASSUME Inv, SendFirst PROVE Inv'
<1>0. waker.at = "first" /\ waker.nap = 0 /\ SendWol("begin") /\ UNCHANGED <<config, mode, times>>
  BY DEF SendFirst, At
<1>1. PICK nap \in 0 .. Sending :
        /\ waker' = Waker("begin", nap, waker.left, waker.retry)
        /\ tries' \in {tries, tries + 1}
        /\ packets' \in {packets, packets + (tries' - tries)}
        /\ logged' \in {logged, logged + (packets' - packets)}
        /\ late' \in Nat /\ (late' = late \/ (mode = "resting" /\ late' = late + 1))
  BY <1>0, SendEffect DEF Places
<1>2. {tries, packets, logged, late, since, ran} \subseteq Nat
      /\ waker.left \in 0 .. WakeTimeout /\ waker.retry \in Nat /\ nap \in Nat
  BY TimesAssumption DEF Inv, TypeOK
<1>3. {tries', packets', logged', late', since', ran'} \subseteq Nat
  BY <1>0, <1>1, <1>2 DEF times
<1>4. TypeOK'
  BY <1>0, <1>1, <1>2, <1>3, MineKept DEF Inv, Places
<1>5. waker'.at = "begin"
  BY <1>1, WakerFields
<1>6. CountsOK'
  BY <1>1, <1>2 DEF Inv, CountsOK
<1>7. LateOK' /\ tries' <= 1
  BY <1>0, <1>1, <1>2, <1>5 DEF Inv, LateOK, TriesOK
<1>8. StartOK'
  BY <1>0, <1>5 DEF Inv, StartOK, config
<1> QED
  BY <1>4, <1>5, <1>6, <1>7, <1>8 DEF Inv, ClocksOK, PlacesOK, TriesOK, Windowed

LEMMA BeginStep == ASSUME Inv, Begin PROVE Inv'
<1>0. waker.at = "begin" /\ UNCHANGED <<config, mode, counts>> /\ since' = 0 /\ ran' = 0
      /\ waker' = Waker("turn", 0, WakeTimeout, Mine.retry)
  BY DEF Begin, At, RetryIn
<1>1. Mine.retry \in Nat /\ WakeTimeout \in Nat \ {0} /\ Asking \in Nat /\ Sending \in Nat
      /\ {tries, packets, logged, late} \subseteq Nat
  BY <1>0, MineTyped, TimesAssumption DEF Inv, TypeOK
<1>2. TypeOK' /\ Mine' = Mine
  BY <1>0, <1>1, MineKept DEF Inv, Places, counts
<1>3. waker'.at = "turn" /\ waker'.nap = 0 /\ waker'.left = WakeTimeout /\ waker'.retry = Mine.retry
  BY <1>0, WakerFields
<1>4. tries' <= 1 /\ tries' \in Nat /\ CountsOK' /\ LateOK' /\ StartOK'
  BY <1>0, <1>1, <1>3 DEF Inv, TriesOK, CountsOK, LateOK, StartOK, config, counts
<1>5. ClocksOK' /\ PlacesOK'
  BY <1>0, <1>1, <1>2, <1>3 DEF ClocksOK, PlacesOK, Windowed, Slack
<1>6. (tries' - 1) * Mine.retry <= 0
  <2>1. tries' = 0 \/ tries' = 1
    BY <1>4
  <2>2. (0 - 1) * Mine.retry <= 0 /\ (1 - 1) * Mine.retry <= 0
    BY <1>1
  <2> QED
    BY <2>1, <2>2
<1>7. (tries' - 1) * Mine.retry \in Int
  BY <1>1, <1>4
<1>8. TriesOK'
  BY <1>0, <1>1, <1>2, <1>3, <1>4, <1>6, <1>7 DEF TriesOK, Windowed
<1> QED
  BY <1>2, <1>4, <1>5, <1>8 DEF Inv

\* A step in a window that sends nothing and lets no time pass.
LEMMA QuietStep ==
  ASSUME Inv, Windowed, waker.at # "sent", UNCHANGED <<config, mode, counts, times>>,
         NEW at \in {"turn", "answer", "again", "push"}, NEW nap \in Nat,
         waker' = Waker(at, nap, waker.left, waker.retry),
         mode = "resting" /\ at \in {"answer", "again"} => waker.at \in {"answer", "again"},
         PlacesOK'
  PROVE  Inv'
<1>1. TypeOK' /\ Mine' = Mine
  BY MineKept DEF Inv, TypeOK, Windowed, Places, counts, times
<1>2. waker'.at = at /\ waker'.left = waker.left /\ waker'.retry = waker.retry
  BY WakerFields
<1>3. Windowed'
  BY <1>2 DEF Windowed
<1>4. ClocksOK'
  BY <1>1, <1>2 DEF Inv, ClocksOK, Windowed, times
<1>5. TriesOK'
  BY <1>1, <1>2, <1>3 DEF Inv, TriesOK, counts, times
<1>6. LateOK' /\ CountsOK' /\ StartOK'
  BY <1>2 DEF Inv, LateOK, CountsOK, StartOK, Windowed, counts, config
<1> QED
  BY <1>1, <1>4, <1>5, <1>6 DEF Inv

\* The worker ends.
LEMMA EndStep ==
  ASSUME Inv, UNCHANGED <<config, mode, counts, times>>, Ends
  PROVE  Inv'
<1>1. TypeOK' /\ waker'.at = "none"
  BY TimesAssumption DEF Inv, TypeOK, Ends, Resting, Places, config, counts, times
<1> QED
  BY <1>1, NoWorkerInv DEF Inv, CountsOK, LateOK, counts

LEMMA TurnStep == ASSUME Inv, Turn PROVE Inv'
<1>0. waker.at = "turn" /\ waker.nap = 0 /\ UNCHANGED <<config, mode, counts, times>>
  BY DEF Turn, At
<1>1. Mine.retry \in Nat /\ WakeTimeout \in Nat \ {0} /\ Asking \in Nat /\ Sending \in Nat
      /\ since \in Nat /\ ran \in Nat /\ waker.left \in 0 .. WakeTimeout /\ waker.retry \in Nat
  BY <1>0, MineTyped, TimesAssumption DEF Inv, TypeOK
<1>2. CASE Ends
  BY <1>0, <1>2, EndStep
<1>3. ASSUME waker.left > 0, mode = "shutting_down", NEW nap \in 0 .. Asking, Goto("answer", nap)
      PROVE  Inv'
  <2>1. waker' = Waker("answer", nap, waker.left, waker.retry) /\ nap \in Nat
    BY <1>1, <1>3 DEF Goto
  <2>2. Mine' = Mine
    BY <1>0, <1>1, <2>1, MineKept DEF Inv, TypeOK, Places, counts, times
  <2>3. waker'.at = "answer" /\ waker'.nap = nap
    BY <2>1, WakerFields
  <2>4. PlacesOK'
    BY <1>0, <1>1, <1>3, <2>2, <2>3 DEF Inv, PlacesOK, ClocksOK, Windowed, Slack, times
  <2> QED
    BY <1>0, <1>3, <2>1, <2>4, QuietStep DEF Windowed
<1>4. CASE Goto("push", 0)
  <2>1. waker' = Waker("push", 0, waker.left, waker.retry)
    BY <1>4 DEF Goto
  <2>2. Mine' = Mine
    BY <1>0, <1>1, <2>1, MineKept DEF Inv, TypeOK, Places, counts, times
  <2>3. waker'.at = "push" /\ waker'.nap = 0
    BY <2>1, WakerFields
  <2>4. PlacesOK'
    BY <1>0, <1>1, <2>2, <2>3 DEF Inv, PlacesOK, Windowed, Slack, times
  <2> QED
    BY <1>0, <2>1, <2>4, QuietStep DEF Windowed
<1> QED
  BY <1>2, <1>3, <1>4 DEF Turn, Looks

LEMMA AnswerStep == ASSUME Inv, Answer PROVE Inv'
<1>0. waker.at = "answer" /\ waker.nap = 0 /\ UNCHANGED <<config, mode, counts, times>>
  BY DEF Answer, At
<1>1. Mine.retry \in Nat /\ WakeTimeout \in Nat \ {0} /\ Asking \in Nat /\ Sending \in Nat
      /\ since \in Nat /\ ran \in Nat /\ waker.left \in 0 .. WakeTimeout /\ waker.retry \in Nat
  BY <1>0, MineTyped, TimesAssumption DEF Inv, TypeOK
<1>2. PICK at \in {"push", "again", "turn"}, nap \in {0, 1} :
        /\ waker' = Waker(at, nap, waker.left, waker.retry)
        /\ at # "turn" => nap = 0
        /\ at = "again" => Mine.retry > 0 /\ waker.retry = 0
        /\ at = "turn" => ~(Mine.retry > 0 /\ waker.retry = 0)
  BY DEF Answer, Goto
<1>3. Mine' = Mine /\ waker'.at = at /\ waker'.nap = nap
  BY <1>0, <1>1, <1>2, MineKept, WakerFields DEF Inv, TypeOK, Places, counts, times
<1>4. /\ Mine.retry > 0 => since <= Mine.retry + Asking
      /\ ran <= WakeTimeout - 1 + Asking
      /\ waker.retry > 0 => since + waker.retry = Mine.retry
  BY <1>0, <1>1 DEF Inv, PlacesOK, ClocksOK, Windowed, Slack
<1>5. /\ Mine.retry > 0 => since + nap <= Mine.retry + Slack[at]
      /\ ran + nap <= IF at \in {"turn", "push"} THEN WakeTimeout + Asking + Sending
                      ELSE WakeTimeout - 1 + Slack[at]
  BY <1>1, <1>2, <1>4 DEF Slack
<1>6. since' = since /\ ran' = ran /\ waker'.retry = waker.retry
  BY <1>0, <1>2, WakerFields DEF times
<1>7. PlacesOK'
  BY <1>2, <1>3, <1>5, <1>6 DEF PlacesOK
<1> QED
  BY <1>0, <1>2, <1>7, QuietStep DEF Windowed

LEMMA PushStep == ASSUME Inv, Push PROVE Inv'
  BY EndStep DEF Push

\* A product, a step at a time.
LEMMA OneMore == ASSUME NEW n \in Int, NEW r \in Int PROVE n * r = (n - 1) * r + r
  OBVIOUS

LEMMA SendAgainStep == ASSUME Inv, SendAgain PROVE Inv'
<1>0. waker.at = "again" /\ waker.nap = 0 /\ SendWol("sent") /\ UNCHANGED <<config, mode, times>>
  BY DEF SendAgain, At
<1>1. Mine.retry \in Nat /\ WakeTimeout \in Nat \ {0} /\ Asking \in Nat /\ Sending \in Nat
      /\ {tries, packets, logged, late, since, ran} \subseteq Nat
      /\ waker.left \in 0 .. WakeTimeout /\ waker.retry \in Nat
  BY <1>0, MineTyped, TimesAssumption DEF Inv, TypeOK
<1>2. PICK nap \in 0 .. Sending :
        /\ waker' = Waker("sent", nap, waker.left, waker.retry)
        /\ tries' \in {tries, tries + 1}
        /\ packets' \in {packets, packets + (tries' - tries)}
        /\ logged' \in {logged, logged + (packets' - packets)}
        /\ late' \in Nat /\ (late' = late \/ (mode = "resting" /\ late' = late + 1))
  BY <1>0, SendEffect DEF Places
<1>3. {tries', packets', logged', late', since', ran'} \subseteq Nat /\ nap \in Nat
  BY <1>0, <1>1, <1>2 DEF times
<1>4. TypeOK' /\ Mine' = Mine
  BY <1>0, <1>1, <1>2, <1>3, MineKept DEF Inv, Places
<1>5. waker'.at = "sent" /\ waker'.nap = nap /\ waker'.left = waker.left
      /\ waker'.retry = waker.retry
  BY <1>2, WakerFields
<1>6. CountsOK'
  BY <1>1, <1>2 DEF Inv, CountsOK
<1>7. LateOK'
  BY <1>0, <1>1, <1>2, <1>5 DEF Inv, LateOK
<1>8. StartOK'
  BY <1>0, <1>5 DEF Inv, StartOK, config
<1>9. ClocksOK'
  BY <1>0, <1>4, <1>5 DEF Inv, ClocksOK, Windowed, times
<1>10. PlacesOK'
  BY <1>0, <1>1, <1>4, <1>5 DEF Inv, PlacesOK, Windowed, Slack, times
<1>11. Mine.retry > 0 /\ ran <= WakeTimeout - 1 + Asking /\ since >= Mine.retry
  BY <1>0, <1>1 DEF Inv, PlacesOK, ClocksOK, Windowed, Slack
<1>12. (tries' - 1) * Mine.retry <= ran
  <2>1. CASE tries' = tries
    BY <1>0, <1>1, <1>11, <2>1 DEF Inv, TriesOK, Windowed
  <2>2. CASE tries' = tries + 1
    <3>1. tries * Mine.retry = (tries - 1) * Mine.retry + Mine.retry
      BY <1>1, OneMore
    <3>2. (tries - 1) * Mine.retry + since <= ran
      BY <1>0, <1>1, <1>11 DEF Inv, TriesOK, Windowed
    <3>3. tries' - 1 = tries
      BY <1>1, <2>2
    <3>4. (tries - 1) * Mine.retry \in Int
      BY <1>1
    <3>5. tries * Mine.retry <= ran
      <4> DEFINE t == (tries - 1) * Mine.retry
      <4>1. t \in Int /\ tries * Mine.retry = t + Mine.retry /\ t + since <= ran
        BY <3>1, <3>2, <3>4
      <4> HIDE DEF t
      <4> QED
        BY <1>1, <1>11, <4>1
    <3> QED
      BY <3>3, <3>5
  <2> QED
    BY <1>2, <2>1, <2>2
<1>13. TriesOK'
  <2> DEFINE t == (tries' - 1) * Mine.retry
  <2>1. t \in Int /\ t <= ran
    BY <1>1, <1>3, <1>12
  <2> HIDE DEF t
  <2>2. t < WakeTimeout + Asking
    BY <1>1, <1>11, <2>1
  <2> QED
    BY <1>0, <1>4, <1>5, <1>11, <2>1, <2>2 DEF TriesOK, Windowed, times, t
<1> QED
  BY <1>4, <1>6, <1>7, <1>8, <1>9, <1>10, <1>13 DEF Inv

LEMMA SentStep == ASSUME Inv, Sent PROVE Inv'
<1>0. waker.at = "sent" /\ waker.nap = 0 /\ UNCHANGED <<config, mode, counts, ran>> /\ since' = 0
      /\ waker' = Waker("turn", 1, waker.left, Mine.retry)
  BY DEF Sent, At, RetryIn
<1>1. Mine.retry \in Nat /\ WakeTimeout \in Nat \ {0} /\ Asking \in Nat /\ Sending \in Nat
      /\ {tries, packets, logged, late, since, ran} \subseteq Nat
      /\ waker.left \in 0 .. WakeTimeout /\ waker.retry \in Nat
  BY <1>0, MineTyped, TimesAssumption DEF Inv, TypeOK
<1>2. TypeOK' /\ Mine' = Mine
  BY <1>0, <1>1, MineKept DEF Inv, Places, counts
<1>3. waker'.at = "turn" /\ waker'.nap = 1 /\ waker'.left = waker.left
      /\ waker'.retry = Mine.retry
  BY <1>0, WakerFields
<1>4. CountsOK' /\ LateOK' /\ StartOK'
  BY <1>0, <1>3 DEF Inv, CountsOK, LateOK, StartOK, config, counts
<1>5. ClocksOK'
  BY <1>0, <1>1, <1>2, <1>3 DEF Inv, ClocksOK, Windowed
<1>6. PlacesOK'
  BY <1>0, <1>1, <1>2, <1>3 DEF Inv, PlacesOK, Windowed, Slack
<1>7. TriesOK'
  <2> DEFINE t == (tries - 1) * Mine.retry
  <2>1. t \in Int
    BY <1>1
  <2>2. Mine.retry > 0 /\ t <= ran /\ t < WakeTimeout + Asking
    BY <1>0, <1>1 DEF Inv, TriesOK, PlacesOK, Windowed
  <2>3. (tries' - 1) * (Mine.retry)' = t
    BY <1>0, <1>2 DEF counts
  <2> HIDE DEF t
  <2> QED
    BY <1>0, <1>1, <1>2, <1>3, <2>1, <2>2, <2>3 DEF TriesOK, Windowed
<1> QED
  BY <1>2, <1>4, <1>5, <1>6, <1>7 DEF Inv

LEMMA TickStep == ASSUME Inv, Tick PROVE Inv'
<1>0. /\ waker.at # "none" /\ waker.nap > 0 /\ UNCHANGED <<config, mode, counts>>
      /\ waker' = Waker(waker.at, waker.nap - 1, Less(waker.left), Less(waker.retry))
      /\ since' = since + 1 /\ ran' = ran + 1
  BY DEF Tick
<1>1. Mine.retry \in Nat /\ WakeTimeout \in Nat \ {0} /\ Asking \in Nat /\ Sending \in Nat
      /\ {tries, packets, logged, late, since, ran} \subseteq Nat /\ waker.nap \in Nat
      /\ waker.left \in 0 .. WakeTimeout /\ waker.retry \in Nat /\ waker.at \in Places
  BY <1>0, MineTyped, TimesAssumption DEF Inv, TypeOK
<1>2. waker.nap - 1 \in Nat /\ Less(waker.left) \in 0 .. WakeTimeout /\ Less(waker.retry) \in Nat
  BY <1>0, <1>1 DEF Less
<1>3. TypeOK' /\ Mine' = Mine
  BY <1>0, <1>1, <1>2, MineKept DEF Inv, counts
<1>4. waker'.at = waker.at /\ waker'.nap = waker.nap - 1 /\ waker'.left = Less(waker.left)
      /\ waker'.retry = Less(waker.retry)
  BY <1>0, WakerFields
<1>5. CountsOK' /\ LateOK' /\ StartOK'
  BY <1>0, <1>4 DEF Inv, CountsOK, LateOK, StartOK, config, counts
<1>6. ClocksOK'
  BY <1>0, <1>1, <1>3, <1>4 DEF Inv, ClocksOK, Windowed, Less
<1>7. PlacesOK'
  BY <1>0, <1>1, <1>3, <1>4 DEF Inv, PlacesOK, Windowed, Slack, Less
<1>8. TriesOK'
  <2> DEFINE t == (tries - 1) * Mine.retry
  <2>1. t \in Int /\ (tries' - 1) * (Mine.retry)' = t
    BY <1>0, <1>1, <1>3 DEF counts
  <2>2. Windowed /\ Mine.retry # 0 =>
          (waker.at # "sent" => t + since <= ran) /\ t <= ran /\ t < WakeTimeout + Asking
    BY DEF Inv, TriesOK
  <2> HIDE DEF t
  <2> QED
    BY <1>0, <1>1, <1>3, <1>4, <2>1, <2>2 DEF Inv, TriesOK, Windowed, counts
<1> QED
  BY <1>3, <1>5, <1>6, <1>7, <1>8 DEF Inv

LEMMA StepInv == Inv /\ [Next]_vars => Inv'
<1> SUFFICES ASSUME Inv, [Next]_vars PROVE Inv'
  OBVIOUS
<1>1. CASE Worker
  BY <1>1, SendFirstStep, BeginStep, TurnStep, AnswerStep, SendAgainStep, SentStep, PushStep
     DEF Worker
<1>2. CASE Load \/ Restart \/ Execute \/ StandDown \/ NextOutage \/ Tick
  BY <1>2, LoadStep, RestartStep, ExecuteStep, ModeStep, TickStep
<1>3. CASE UNCHANGED vars
  BY <1>3 DEF Inv, TypeOK, StartOK, CountsOK, LateOK, ClocksOK, PlacesOK, TriesOK, Windowed, Mine,
              vars, config, counts, times
<1> QED
  BY <1>1, <1>2, <1>3 DEF Next

-----------------------------------------------------------------------------
(* The theorems.                                                           *)

\* The invariant holds, whatever the files and the times.
THEOREM Invariance == Spec => []Inv
  BY InitInv, StepInv, PTL DEF Spec

\* config.py, server.py, wol.py: what is loaded is typed, and a worker has a device with
\* a desktop.
THEOREM TypeCorrect == Spec => []TypeOK
<1>1. Inv => TypeOK
  BY DEF Inv
<1> QED
  BY <1>1, Invariance, PTL

\* _load_ups_devices, register_peers: every configuration that is not refused gives a
\* primary without a desktop of its own that of the observer, both ways.
THEOREM DesktopShared == Spec => []DesktopIsShared
<1>1. Inv => DesktopIsShared
  <2> SUFFICES ASSUME Inv, server = "up", file # NoFile,
                      NEW p \in Contexts(devices), NEW o \in Contexts(devices),
                      ~IsObserver(devices[p]), file[p].desktop = NoDesktop,
                      IsObserver(devices[o]), devices[o].desktop # NoDesktop
               PROVE  o \in Peers(devices, p, TRUE) /\ p \in Peers(devices, o, FALSE)
    BY DEF DesktopIsShared
  <2>1. file \in Seq(Entry) /\ devices = Loaded(file) /\ ~Rejected(file)
    BY FilesAssumption DEF Inv, TypeOK
  <2> QED
    BY <2>1, HeirsHavePeers
<1> QED
  BY <1>1, Invariance, PTL

\* wol.send, _send_wol: what is logged as sent has left, once.
THEOREM SentMeansLeft == Spec => []SentHasLeft
<1>1. Inv => SentHasLeft
  BY DEF Inv, CountsOK, SentHasLeft
<1> QED
  BY <1>1, Invariance, PTL

\* _action_wake_then_shutdown: the next packet comes in time.
THEOREM PacketsComeInTime == Spec => []RetriedInTime
<1>1. Inv => RetriedInTime
  <2> SUFFICES ASSUME Inv, Windowed, Mine.retry > 0
               PROVE  since <= Mine.retry + Asking + Sending
    BY DEF RetriedInTime
  <2>1. waker.at # "none" /\ Mine.retry \in Nat /\ since \in Nat /\ waker.nap \in Nat
        /\ Asking \in Nat /\ Sending \in Nat
    BY MineTyped, TimesAssumption DEF Inv, TypeOK, Windowed
  <2> QED
    BY <2>1 DEF Inv, PlacesOK, Windowed, Slack
<1> QED
  BY <1>1, Invariance, PTL

\* _action_wake_then_shutdown: how long the window is, and how many packets fit in.
THEOREM WindowBounded == Spec => []WindowIsBounded
<1>1. Inv => WindowIsBounded
  <2> SUFFICES ASSUME Inv, Windowed
               PROVE  /\ ran <= WakeTimeout + Asking + Sending
                      /\ tries > 1 => /\ Mine.retry > 0
                                      /\ (tries - 1) * Mine.retry < WakeTimeout + Asking
    BY DEF WindowIsBounded
  <2>1. Mine.retry \in Nat /\ ran \in Nat /\ waker.nap \in Nat /\ tries \in Nat
        /\ Asking \in Nat /\ Sending \in Nat /\ WakeTimeout \in Nat
    BY MineTyped, TimesAssumption DEF Inv, TypeOK, Windowed
  <2>2. ran <= WakeTimeout + Asking + Sending
    BY <2>1 DEF Inv, PlacesOK, Windowed, Slack
  <2>3. Mine.retry = 0 => tries <= 1
    BY DEF Inv, TriesOK
  <2>4. Mine.retry # 0 => (tries - 1) * Mine.retry < WakeTimeout + Asking
    BY DEF Inv, TriesOK
  <2> QED
    BY <2>1, <2>2, <2>3, <2>4
<1> QED
  BY <1>1, Invariance, PTL

\* _action_wake_then_shutdown: after a stand-down one packet at most.
THEOREM LatePacketIsLast == Spec => []OneLatePacket
<1>1. Inv => OneLatePacket
  BY DEF Inv, LateOK, OneLatePacket
<1> QED
  BY <1>1, Invariance, PTL

=============================================================================
