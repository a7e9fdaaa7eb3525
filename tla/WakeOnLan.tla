----------------------------- MODULE WakeOnLan -----------------------------
(***************************************************************************)
(* Waking the desktop: server/app/wol.py, the wake window of               *)
(* server/app/ups_context.py that uses it, and the configuration that both *)
(* work from.  The server loads its configuration once; a primary whose    *)
(* phase "suspend_wait" is over starts a worker, which sends a magic       *)
(* packet, asks the desktop, and sends again.                              *)
(*                                                                         *)
(* A unit of time is the pause of the window's loop, time.sleep(5).  Times *)
(* are numbers of units still to go; what a call takes passes after its    *)
(* effect.  A packet that has left may still be dropped on its way.        *)
(***************************************************************************)
EXTENDS Configuration, FiniteSets

CONSTANTS
  Files,        \* the configurations looked at
  WakeTimeout,  \* wake_online_timeout
  Sending,      \* at most this long for wol.send, with iface_for_ip before it
  Asking        \* at most this long for fetch_state_from_desktop

ASSUME FilesAssumption == Files \subseteq Seq(Entry) \cup {NoFile} /\ Files # {}
ASSUME TimesAssumption == WakeTimeout \in Nat \ {0} /\ {Sending, Asking} \subseteq Nat

VARIABLES
  file,      \* ups_config.yml
  server,    \* "new", "up", or "refused" if it could not load its configuration
  devices,   \* UPS_DEVICES
  mode,      \* of the primary that wakes: "shutting_down" or "resting"
  waker,     \* its worker: device, place, and the times to its next step, to
             \* the deadline of the window and to the next packet
  \* History of the window.
  tries,     \* calls of wol.send
  packets,   \* magic packets that left the server, or the relay
  logged,    \* EV_WOL_SENT entries
  since,     \* time since the last packet was, or was not, sent
  ran,       \* time since the deadline was set
  late       \* calls of wol.send since the UPS stood down

config  == <<file, server, devices>>
counts  == <<tries, packets, logged, late>>
times   == <<since, ran>>
vars    == <<config, mode, waker, counts, times>>

-----------------------------------------------------------------------------
(* Faults, as in Configuration.                                            *)

LessForEver(n) == n - 1
AllThatWork(works) == works
AtTheEnd(d) == WakeTimeout
AtEachTurn(d) == 0
WithoutALook == TRUE

-----------------------------------------------------------------------------

Local == {"af_packet", "directed", "global"}
Before == {<<"af_packet", "directed">>, <<"af_packet", "global">>, <<"directed", "global">>}

Less(n) == IF n > 0 THEN n - 1 ELSE 0
Resting == [dev |-> 1, at |-> "none", nap |-> 0, left |-> 0, retry |-> 0]
Waker(at, nap, left, retry) ==
  [dev |-> waker.dev, at |-> at, nap |-> nap, left |-> left, retry |-> retry]

At(place) == waker.at = place /\ waker.nap = 0
Goto(place, nap) == waker' = Waker(place, nap, waker.left, waker.retry)
Ends == waker' = Resting
Mine == devices[waker.dev]

-----------------------------------------------------------------------------
(* Start-up, and what makes the worker start and stop.                     *)

Load ==
  /\ server = "new"
  /\ IF Rejected(file) THEN server' = "refused" /\ UNCHANGED devices
                       ELSE server' = "up" /\ devices' = Loaded(file)
  /\ UNCHANGED <<file, mode, waker, counts, times>>

\* systemd starts it again; a configuration that was refused has been mended.
Restart ==
  /\ server # "new" /\ server' = "new"
  /\ IF server = "refused" THEN file' \in Files ELSE UNCHANGED file
  /\ devices' = <<>> /\ mode' = "resting" /\ waker' = Resting
  /\ UNCHANGED <<counts, times>>

\* _execute_phase_action at the end of suspend_wait: only a primary that has a
\* desktop is ever in this phase.
Execute ==
  /\ server = "up" /\ mode = "resting" /\ waker.at = "none"
  /\ \E i \in Contexts(devices) :
       /\ ~IsObserver(devices[i]) /\ devices[i].desktop # NoDesktop
       /\ waker' = [dev |-> i, at |-> "first", nap |-> 0, left |-> 0, retry |-> 0]
  /\ mode' = "shutting_down"
  /\ tries' = 0 /\ packets' = 0 /\ logged' = 0 /\ late' = 0 /\ since' = 0 /\ ran' = 0
  /\ UNCHANGED config

StandDown ==
  /\ mode = "shutting_down" /\ mode' = "resting" /\ late' = 0
  /\ UNCHANGED <<config, waker, tries, packets, logged, times>>

\* The next outage, with a worker of its own, before this one has looked.
NextOutage ==
  /\ mode = "resting" /\ waker.at # "none" /\ mode' = "shutting_down"
  /\ UNCHANGED <<config, waker, counts, times>>

-----------------------------------------------------------------------------
(* _send_wol.                                                              *)

\* _send_local returns from the first method that works.
Used(works) == {m \in works : \A b \in works : <<b, m>> \notin Before}
LocalSends == {[left |-> Cardinality(Used(w)), ok |-> w # {}] : w \in SUBSET Local}
\* _send_via_ssh: the relay may have sent it although ssh fails or takes too long.
RelaySends == {[left |-> 1, ok |-> TRUE], [left |-> 1, ok |-> FALSE], [left |-> 0, ok |-> FALSE]}
Sends(d) ==
  IF d.desktop.mac = "bad" THEN {[left |-> 0, ok |-> FALSE]}
  ELSE IF d.relay THEN RelaySends ELSE LocalSends

SendWol(next) ==
  \/ /\ Mine.desktop.mac = "none"
     /\ Goto(next, 0) /\ UNCHANGED counts
  \/ /\ Mine.desktop.mac # "none"
     /\ \E s \in Sends(Mine), nap \in 0 .. Sending :
          /\ Goto(next, nap)
          /\ tries' = tries + 1
          /\ packets' = packets + s.left
          /\ logged' = IF s.ok THEN logged + 1 ELSE logged
          /\ late' = IF mode = "resting" THEN late + 1 ELSE late

-----------------------------------------------------------------------------
(* _action_wake_then_shutdown.                                             *)

\* next_retry; with an interval of 0 it is never looked at.
RetryIn(d) == d.retry
Looks == mode = "shutting_down"

SendFirst ==
  /\ At("first") /\ SendWol("begin")
  /\ UNCHANGED <<config, mode, times>>

Begin ==
  /\ At("begin")
  /\ waker' = Waker("turn", 0, WakeTimeout, RetryIn(Mine))
  /\ since' = 0 /\ ran' = 0
  /\ UNCHANGED <<config, mode, counts>>

Turn ==
  /\ At("turn")
  /\ \/ waker.left > 0 /\ ~Looks /\ Ends
     \/ waker.left > 0 /\ Looks /\ \E nap \in 0 .. Asking : Goto("answer", nap)
     \/ waker.left = 0 /\ Goto("push", 0)
  /\ UNCHANGED <<config, mode, counts, times>>

Answer ==
  /\ At("answer")
  /\ \/ Goto("push", 0)
     \/ Mine.retry > 0 /\ waker.retry = 0 /\ Goto("again", 0)
     \/ ~(Mine.retry > 0 /\ waker.retry = 0) /\ Goto("turn", 1)
  /\ UNCHANGED <<config, mode, counts, times>>

SendAgain ==
  /\ At("again") /\ SendWol("sent")
  /\ UNCHANGED <<config, mode, times>>

Sent ==
  /\ At("sent")
  /\ waker' = Waker("turn", 1, waker.left, RetryIn(Mine))
  /\ since' = 0
  /\ UNCHANGED <<config, mode, counts, ran>>

\* The command is pushed, or not; UPSContext goes on from here.
Push ==
  /\ At("push") /\ Ends
  /\ UNCHANGED <<config, mode, counts, times>>

Tick ==
  /\ waker.at # "none" /\ waker.nap > 0
  /\ waker' = Waker(waker.at, waker.nap - 1, Less(waker.left), Less(waker.retry))
  /\ since' = since + 1 /\ ran' = ran + 1
  /\ UNCHANGED <<config, mode, counts>>

-----------------------------------------------------------------------------

Init ==
  /\ file \in Files /\ server = "new" /\ devices = <<>>
  /\ mode = "resting" /\ waker = Resting
  /\ tries = 0 /\ packets = 0 /\ logged = 0 /\ late = 0
  /\ since = 0 /\ ran = 0

Worker == SendFirst \/ Begin \/ Turn \/ Answer \/ SendAgain \/ Sent \/ Push
Next == Load \/ Restart \/ Execute \/ StandDown \/ NextOutage \/ Worker \/ Tick

Spec == Init /\ [][Next]_vars

-----------------------------------------------------------------------------
(* Properties.                                                             *)

Places == {"none", "first", "begin", "turn", "answer", "again", "sent", "push"}
Windowed == waker.at \in {"turn", "answer", "again", "sent", "push"}

TypeOK ==
  /\ file \in Files /\ server \in {"new", "up", "refused"}
  /\ devices \in Seq(Device) /\ (server = "up" => ~Rejected(file) /\ devices = Loaded(file))
  /\ mode \in {"resting", "shutting_down"}
  /\ waker \in [dev : Nat, at : Places, nap : Nat, left : 0 .. WakeTimeout, retry : Nat]
  /\ waker.at # "none" =>
       waker.dev \in Contexts(devices) /\ devices[waker.dev].desktop # NoDesktop
  /\ {tries, packets, logged, late, since, ran} \subseteq Nat

\* "A primary UPS that has no desktop config inherits it from the observer": with a
\* configuration that is not refused, it coordinates the desktop of every observer
\* there is, and each of these finds it when it holds its power for the desktop.
DesktopIsShared ==
  server = "up" /\ file # NoFile =>
    \A p, o \in Contexts(devices) :
      /\ ~IsObserver(devices[p]) /\ file[p].desktop = NoDesktop
      /\ IsObserver(devices[o]) /\ devices[o].desktop # NoDesktop
      => o \in Peers(devices, p, TRUE) /\ p \in Peers(devices, o, FALSE)

\* What the event log says was sent has left, once: also when one way of sending
\* after the other fails, or a relay that sent it is given up on.
SentHasLeft == logged <= packets /\ packets <= tries

\* A packet that is dropped is followed by another: a desktop that does not come
\* online is not left without a packet for longer than the interval and one turn.
RetriedInTime ==
  Windowed /\ Mine.retry > 0 /\ Mine.desktop.mac # "none" =>
    since <= Mine.retry + Asking + Sending

\* The window ends about when it should, whatever the calls in it take, and
\* there are as many packets as intervals fit in, and not one more.
WindowIsBounded ==
  Windowed =>
    /\ ran <= WakeTimeout + Asking + Sending
    /\ tries > 1 => Mine.retry > 0 /\ (tries - 1) * Mine.retry < WakeTimeout + Asking

\* When mains is back the desktop is not woken any more, but for the packet of the
\* turn that the window was at.
OneLatePacket == late <= 1
=============================================================================
