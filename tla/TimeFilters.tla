----------------------------- MODULE TimeFilters -----------------------------
(***************************************************************************)
(* The entry filters of cmd_live.on_signal that depend on the time of day: *)
(* orb/trueopen.py (the opens at New York times), orb/quarters.py (the day *)
(* and its sessions in four quarters, and the open of the second) and the  *)
(* killzones of orb/execguard.py.  The first two read the same bars and    *)
(* claim to find the same prices in different ways: one by comparing a bar *)
(* with the bar before, one by numbering the cycles.                       *)
(*                                                                         *)
(* A time is in minutes of New York since a Monday, 00:00, on days without *)
(* a change of the clock.                                                  *)
(***************************************************************************)
EXTENDS Integers, FiniteSetsExt

CONSTANTS
  Killzones,         \* windows of UTC minutes, as start * 10000 + end
  AllowedQuarters,   \* --quarter-filter
  UtcOffset          \* minutes from New York to UTC

Day == 24 * 60

(* parse_killzones: a window has two different ends within the day. *)
WindowStart(w) == w \div 10000
WindowEnd(w) == w % 10000

WindowsValid ==
  /\ UtcOffset \in Nat /\ AllowedQuarters \subseteq 1..4
  /\ \A w \in Killzones : /\ WindowStart(w) \in 0 .. Day - 1
                          /\ WindowEnd(w) \in 0 .. Day - 1
                          /\ WindowStart(w) # WindowEnd(w)

ASSUME TimeAssumption == WindowsValid

Session == 6 * 60
SessionSlots == {90, 450, 810}      \* 01:30 london, 07:30 new_york, 13:30 pm
CycleSlots == {203, 563, 923}       \* 03:23, 09:23, 15:23
WeekSlot == 18 * 60                 \* Monday 18:00

Unset == -1
TimeOfDay(ny) == ny % Day
Weekday(ny) == (ny \div Day) % 7    \* 0: Monday

-----------------------------------------------------------------------------
(* TrueOpenTracker *)
NewOpens ==
  [prev |-> Unset, tdo |-> Unset, session |-> Unset, name |-> Unset,
   week |-> Unset, cycle |-> Unset]

(* The slot on the bar's own date lies in (prev, cur]. *)
MutCrossed(prev, cur, slot) ==
  prev % Day < slot /\ slot <= TimeOfDay(cur)

Crossed(prev, cur, slot) ==
  LET target == cur - TimeOfDay(cur) + slot IN prev < target /\ target <= cur

(* A session is named by its slot; when a gap crosses several, the last     *)
(* one wins.                                                                *)
UpdateOpens(s, ny, open) ==
  LET prev == IF s.prev = Unset THEN ny - 1 ELSE s.prev
      hit(slots) == {x \in slots : Crossed(prev, ny, x)}
      level(slots, old) == IF hit(slots) # {} THEN open ELSE old
  IN [prev |-> ny,
      tdo |-> level({0}, s.tdo),
      session |-> level(SessionSlots, s.session),
      name |-> IF hit(SessionSlots) # {} THEN Max(hit(SessionSlots)) ELSE s.name,
      cycle |-> level(CycleSlots, s.cycle),
      week |-> IF Weekday(ny) = 0 THEN level({WeekSlot}, s.week) ELSE s.week]

OpenBias(s, close) ==
  IF s.session = Unset THEN "none" ELSE IF close > s.session THEN "bullish" ELSE "bearish"

Zone(s, close) ==
  LET levels == {s.tdo, s.session, s.week} IN
  IF Unset \in levels THEN "none"
  ELSE IF \A x \in levels : close > x THEN "premium"
  ELSE IF \A x \in levels : close <= x THEN "discount" ELSE "dead_zone"

-----------------------------------------------------------------------------
(* QuarterTracker: the trading day begins at 18:00, a session every six     *)
(* hours; each has four quarters.                                           *)
DayCycle(ny) == (ny + Session) \div Day
DayQuarter(ny) == ((ny + Session) % Day) \div Session + 1
M90Cycle(ny) == ny \div Session
M90Quarter(ny) == (ny % Session) \div 90 + 1

NewQuarters == [dayId |-> Unset, m90Id |-> Unset, dayQ2 |-> Unset, m90Q2 |-> Unset]

(* The open of the second quarter, or of the first bar after its begin. *)
Q2Open(old, sameCycle, quarter, open) ==
  LET kept == IF sameCycle THEN old ELSE Unset IN
  IF kept = Unset /\ quarter > 1 THEN open ELSE kept

UpdateQuarters(q, ny, open) ==
  [dayId |-> DayCycle(ny), m90Id |-> M90Cycle(ny),
   dayQ2 |-> Q2Open(q.dayQ2, DayCycle(ny) = q.dayId, DayQuarter(ny), open),
   m90Q2 |-> Q2Open(q.m90Q2, M90Cycle(ny) = q.m90Id, M90Quarter(ny), open)]

ValueZone(ref, close) ==
  IF ref = Unset THEN "none" ELSE IF close > ref THEN "premium" ELSE "discount"

-----------------------------------------------------------------------------
(* SessionGate.allows: a window that starts after its end wraps past        *)
(* midnight; no windows allow everything.                                   *)
InKillzone(ny) ==
  LET m == TimeOfDay(ny + UtcOffset) IN
  \/ Killzones = {}
  \/ \E w \in Killzones :
       IF WindowStart(w) < WindowEnd(w)
       THEN WindowStart(w) <= m /\ m < WindowEnd(w)
       ELSE m >= WindowStart(w) \/ m < WindowEnd(w)

(* The three skips of on_signal, in front of an entry at this price. *)
PassesTime(s, ny, price) ==
  /\ Zone(s, price) # "dead_zone"
  /\ DayQuarter(ny) \in AllowedQuarters
  /\ InKillzone(ny)
=============================================================================
