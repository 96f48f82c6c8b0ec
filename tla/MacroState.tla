------------------------------ MODULE MacroState ------------------------------
(***************************************************************************)
(* The macro sidecar and its reader: macro/daemon.py (run), macro/build.py *)
(* and macro/blackout.py (what a state file says), macro/state_writer.py   *)
(* (how it gets there) and orb/macroguard.py (what the bot makes of it).   *)
(*                                                                         *)
(* One scheduled high-impact event.  A state file is [at, active]; the     *)
(* biases of assets, and what scores them, are left out: they veto entries *)
(* like any other filter and close nothing.  Times are in minutes.         *)
(***************************************************************************)
EXTENDS PyMath

CONSTANTS
  EventAt, PreMin, PostMin,    \* the event, and its window: pre_min, post_min
  FetchInterval, WriteInterval, Ttl,
  BlockWhenStale               \* default_when_stale = "block"

ASSUME MacroAssumption ==
  /\ {EventAt, PreMin, PostMin, Ttl} \subseteq Nat
  /\ {FetchInterval, WriteInterval} \subseteq Nat \ {0}
  /\ BlockWhenStale \in BOOLEAN

(* macro/daemon.py: it writes often enough that a state "stays inside       *)
(* ttl_sec" (60 against 300 seconds).                                       *)
ASSUME FreshAssumption == WriteInterval <= Ttl

NoFile == [at |-> -1, active |-> FALSE]

(* active_blackout, over the events the daemon knows. *)
InWindow(t) == EventAt - PreMin <= t /\ t <= EventAt + PostMin

BuildState(known, now) == [at |-> now, active |-> known /\ InWindow(now)]

(* The daemon: does it know the event, when did it last fetch and write?    *)
NewDaemon == [known |-> FALSE, fetchedAt |-> -1, wroteAt |-> -1]

FetchDue(d, now) == d.fetchedAt = -1 \/ now - d.fetchedAt >= FetchInterval

(* A failed first fetch counts as one, so as not to hammer a dead host; a   *)
(* later one is tried again on the next write.                              *)
Fetch(d, ok, now) ==
  IF ~FetchDue(d, now) THEN d
  ELSE [d EXCEPT !.known = @ \/ ok,
                 !.fetchedAt = IF ok \/ @ = -1 THEN now ELSE @]

WriteDue(d, now) == d.wroteAt = -1 \/ now - d.wroteAt >= WriteInterval

(* write_state: a temporary file, moved over the old one as a whole. *)
Replace(old, new, works) == IF works THEN new ELSE old

(* MacroGuard.read: a missing file is no state at all, one that cannot be   *)
(* read is the last good one.                                               *)
Read(file, cached, ok) == IF file = NoFile THEN NoFile ELSE IF ok THEN file ELSE cached

IsStale(s, now) == Ttl = 0 \/ now - s.at > Ttl

(* decide_entry and decide_risk_off *)
Vetoes(s, now) == IF s = NoFile \/ IsStale(s, now) THEN BlockWhenStale ELSE s.active

RiskOff(s, now) == s # NoFile /\ ~IsStale(s, now) /\ s.active
=============================================================================
