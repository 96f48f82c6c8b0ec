---------------------------- MODULE SessionClock ----------------------------
(***************************************************************************)
(* orb/session.py: which trading session a bar belongs to, and where in    *)
(* that session it lies.                                                   *)
(*                                                                         *)
(* A timestamp is a calendar day and a minute of that day, as in Python's  *)
(* datetime; a session is named by the calendar day of its open.           *)
(***************************************************************************)
EXTENDS Integers

CONSTANTS
  DayMin,      \* minutes in a calendar day (1440)
  SessionOpen, \* session_open_utc as a minute of the day
  SessionLen,  \* session_len_min
  RangeMin     \* range_minutes

(***************************************************************************)
(* OrbConfig.__post_init__ accepts exactly these (models.py 168-202).      *)
(***************************************************************************)
ASSUME ClockAssumption ==
  /\ DayMin \in Nat \ {0}
  /\ SessionOpen \in 0 .. DayMin - 1
  /\ RangeMin \in Nat \ {0}
  /\ SessionLen \in Nat
  /\ SessionLen > RangeMin

Time == [d : Nat, m : 0 .. DayMin - 1]

Zones == {"BEFORE", "IN_RANGE_WINDOW", "IN_SESSION", "AFTER"}

(* The zones in which indicators are fed and a range may be built. *)
Active == {"IN_RANGE_WINDOW", "IN_SESSION"}

Later(t, u) == t.d > u.d \/ (t.d = u.d /\ t.m > u.m)

Minutes(t, u) == (t.d - u.d) * DayMin + (t.m - u.m)

(* Minutes elapsed since today's open, and since yesterday's. *)
SinceOpen(t) == t.m - SessionOpen
SincePrevOpen(t) == t.m - SessionOpen + DayMin

InPrevSession(t) == SinceOpen(t) < 0 /\ SincePrevOpen(t) < SessionLen

MutSessionIdCalendar(t) == t.d

(* The name of the session that owns t. *)
SessionId(t) == IF InPrevSession(t) THEN t.d - 1 ELSE t.d

ZoneWithin(elapsed) ==
  IF elapsed < RangeMin THEN "IN_RANGE_WINDOW" ELSE "IN_SESSION"

ZoneOf(t) ==
  IF InPrevSession(t) THEN ZoneWithin(SincePrevOpen(t))
  ELSE IF SinceOpen(t) < 0 THEN "BEFORE"
  ELSE IF SinceOpen(t) >= SessionLen THEN "AFTER"
  ELSE ZoneWithin(SinceOpen(t))
=============================================================================
