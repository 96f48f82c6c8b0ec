----------------------------- MODULE Babysitter -----------------------------
(***************************************************************************)
(* orb/babysitter.py: the exit manager of limit-mode fills.                *)
(*                                                                         *)
(* "trades" is the dict _trades, from ticket to [d, done]; a position is   *)
(* [dir, open, sl, vol], with sl = 0 for "no stop".  on_bar is the pair    *)
(* Remember (the dict afterwards) and Actions (what it returns).           *)
(***************************************************************************)
EXTENDS PyMath

CONSTANTS
  PartialAtR,     \* partial_at_r
  PartialTenths,  \* partial_frac in tenths
  BreakevenAtR,   \* breakeven_at_r (0: off)
  DefaultD        \* default_d

ASSUME SitterAssumption ==
  /\ PartialAtR \in Nat \ {0} /\ PartialTenths \in 1 .. 9
  /\ BreakevenAtR \in Nat /\ DefaultD \in Nat \ {0}

(* The distance of a position's stop when the sitter first sees it. *)
InitialDistance(p) == IF p.sl = 0 THEN DefaultD ELSE AbsDiff(p.open, p.sl)

TradeState(trades, t, p) ==
  IF t \in DOMAIN trades THEN trades[t] ELSE [d |-> InitialDistance(p), done |-> FALSE]

Profit(p, close) == IF p.dir = "LONG" THEN close - p.open ELSE p.open - close

MutPartialDue(st, p, close) == Profit(p, close) >= PartialAtR * st.d

PartialDue(st, p, close) == ~st.done /\ Profit(p, close) >= PartialAtR * st.d

(* The chasing stop, d behind the close; never worse than the entry once    *)
(* the profit reached breakeven_at_r.                                       *)
Target(st, p, close) ==
  LET chase == IF p.dir = "LONG" THEN close - st.d ELSE close + st.d IN
  IF BreakevenAtR = 0 \/ Profit(p, close) < BreakevenAtR * st.d THEN chase
  ELSE IF p.dir = "LONG" THEN MaxOf(chase, p.open) ELSE MinOf(chase, p.open)

MutTighter(p, target) == p.sl # target

Tighter(p, target) ==
  p.sl = 0 \/ (IF p.dir = "LONG" THEN target > p.sl ELSE target < p.sl)

(* on_bar over the positions of a snapshot.  The list it returns is a       *)
(* function: the partial close of ticket t is at <<t, 1>>, its volume left  *)
(* in tenths of a lot step, and the new stop at <<t, 2>>; they are sent in  *)
(* the order of Before.                                                     *)
Before(a, b) == a[1] < b[1] \/ (a[1] = b[1] /\ a[2] <= b[2])

Partials(trades, snap, close) ==
  {t \in DOMAIN snap : PartialDue(TradeState(trades, t, snap[t]), snap[t], close)}

Chase(trades, snap, close, t) == Target(TradeState(trades, t, snap[t]), snap[t], close)

StopMoves(trades, snap, close) ==
  {t \in DOMAIN snap : Tighter(snap[t], Chase(trades, snap, close, t))}

Actions(trades, snap, close) ==
  [a \in Partials(trades, snap, close) \X {1} \cup StopMoves(trades, snap, close) \X {2} |->
     IF a[2] = 1 THEN PartialTenths * snap[a[1]].vol ELSE Chase(trades, snap, close, a[1])]

(* Tickets no longer listed are forgotten. *)
Remember(trades, snap, close) ==
  [t \in DOMAIN snap |->
     LET st == TradeState(trades, t, snap[t])
     IN [st EXCEPT !.done = @ \/ PartialDue(st, snap[t], close)]]
=============================================================================
