----------------------------- MODULE LadderExits -----------------------------
(***************************************************************************)
(* orb/smc/exits.py: the exit manager of the SMC strategy.  Volume comes   *)
(* off in two rungs and at a final target; the stop moves at most twice,   *)
(* each time on the evidence of the candle before the one just closed.     *)
(*                                                                         *)
(* "trades" is the dict _trades; a position is [dir, open, sl, vol], with  *)
(* sl = 0 for "no stop"; a candle is [h, l, c].  Volumes count lot steps.  *)
(***************************************************************************)
EXTENDS PyMath

CONSTANTS
  Rung1R, Rung1Pct, Rung2R, Rung2Pct,   \* partial_levels
  FinalR,                               \* final_tp_r
  Stage1R, Stage2R, MinLockR, Buffer,   \* stage1_at_r, stage2_at_r, ...
  VolMin, DefaultD                      \* vol_min, default_d

(* SmcConfig.__post_init__, the ladder's part: rungs ascend and take off no *)
(* more than all there is, the final target, if any, lies beyond them.      *)
(* Levels are whole multiples of the distance here.                         *)
LadderValid ==
  /\ Rung1R \in Nat \ {0} /\ Rung2R \in Nat /\ Rung2R > Rung1R
  /\ Rung1Pct \in 1..99 /\ Rung2Pct \in 1..99 /\ Rung1Pct + Rung2Pct <= 100
  /\ FinalR \in Nat /\ (FinalR = 0 \/ FinalR > Rung2R)
  /\ Stage1R \in Nat \ {0} /\ Stage2R \in Nat /\ Stage2R > Stage1R
  /\ MinLockR \in Nat \ {0}

ASSUME LadderAssumption ==
  /\ LadderValid
  /\ Buffer \in Nat /\ {VolMin, DefaultD} \subseteq Nat \ {0}

RungR(k) == IF k = 1 THEN Rung1R ELSE Rung2R
RungPct(k) == IF k = 1 THEN Rung1Pct ELSE Rung2Pct
NoCandle == [none |-> TRUE]

(* The initial distance; a stop at the entry gives none to work with. *)
InitialDistance(p) ==
  IF p.sl = 0 \/ p.sl = p.open THEN DefaultD ELSE AbsDiff(p.open, p.sl)

PosState(p) == [entry |-> p.open, d |-> InitialDistance(p), vol0 |-> p.vol,
                filled |-> {}, s1 |-> FALSE, s2 |-> FALSE]

MutStateOf(trades, t, p) ==
  IF t \in DOMAIN trades THEN [trades[t] EXCEPT !.d = InitialDistance(p)] ELSE PosState(p)

StateOf(trades, t, p) == IF t \in DOMAIN trades THEN trades[t] ELSE PosState(p)

Gain(p, st, price) == IF p.dir = "LONG" THEN price - st.entry ELSE st.entry - price
Reached(p, st, price, r) == Gain(p, st, price) >= r * st.d

-----------------------------------------------------------------------------
(* 1. Rungs, in order; one that cannot be filled is used up all the same. *)
Due(k, p, st, close) == k \notin st.filled /\ Reached(p, st, close, RungR(k))

RungVolume(st, k) == (st.vol0 * RungPct(k)) \div 100

(* What rung k closes when "left" is left of the position. *)
Rung(k, p, st, close, left) ==
  LET v == RungVolume(st, k) IN
  IF Due(k, p, st, close) /\ v >= VolMin /\ left - v >= VolMin THEN v ELSE 0

First(p, st, close) == Rung(1, p, st, close, p.vol)

MutSecond(p, st, close) == Rung(2, p, st, close, p.vol)

Second(p, st, close) == Rung(2, p, st, close, p.vol - First(p, st, close))

(* 2. The final target takes the remainder, and the ticket is forgotten. *)
Final(p, st, close) == FinalR > 0 /\ Reached(p, st, close, FinalR)

Remainder(p, st, close) ==
  IF Final(p, st, close) THEN p.vol - First(p, st, close) - Second(p, st, close) ELSE 0

(* 3. The stages, judged on the candidate; stage 2 wins over stage 1. *)
Stage(p, st, cand) ==
  IF cand = NoCandle \/ st.s2 THEN 0
  ELSE IF Reached(p, st, cand.c, Stage2R) THEN 2
  ELSE IF ~st.s1 /\ Reached(p, st, cand.c, Stage1R) THEN 1 ELSE 0

(* costs: the live spread and the commission, in price. *)
Level(p, st, cand, stage, costs) ==
  IF stage = 1 THEN IF p.dir = "LONG" THEN st.entry + costs ELSE st.entry - costs
  ELSE IF p.dir = "LONG" THEN MaxOf(cand.l - Buffer, st.entry + MinLockR * st.d)
  ELSE MinOf(cand.h + Buffer, st.entry - MinLockR * st.d)

MutAllowed(p, level, close) == IF p.dir = "LONG" THEN level < close ELSE level > close

(* Tighter than the stop in the snapshot, and valid at the current price. *)
Allowed(p, level, close) ==
  IF p.dir = "LONG" THEN (p.sl = 0 \/ level > p.sl) /\ level < close
  ELSE (p.sl = 0 \/ level < p.sl) /\ level > close

Moves(p, st, close, cand, costs) ==
  LET stage == Stage(p, st, cand) IN
  IF stage > 0 /\ Allowed(p, Level(p, st, cand, stage, costs), close) THEN stage ELSE 0

-----------------------------------------------------------------------------
(* on_bar: the actions it returns, and the dict afterwards.  The list is a *)
(* function: the actions on ticket t are at <<t, 1>> and <<t, 2>> (rungs),  *)
(* <<t, 3>> (remainder) and <<t, 4>> (stop), in this order.                 *)
Before(a, b) == a[1] < b[1] \/ (a[1] = b[1] /\ a[2] <= b[2])

Parts == 1 .. 3
Volume(k, p, st, close) ==
  CASE k = 1 -> First(p, st, close)
    [] k = 2 -> Second(p, st, close)
    [] k = 3 -> Remainder(p, st, close)

Closes(trades, snap, close) ==
  {a \in (DOMAIN snap) \X Parts :
     Volume(a[2], snap[a[1]], StateOf(trades, a[1], snap[a[1]]), close) > 0}

StopMoves(trades, snap, close, cand, costs) ==
  {t \in DOMAIN snap : LET st == StateOf(trades, t, snap[t]) IN
     ~Final(snap[t], st, close) /\ Moves(snap[t], st, close, cand, costs) > 0}

Actions(trades, snap, close, cand, costs) ==
  [a \in Closes(trades, snap, close)
         \cup StopMoves(trades, snap, close, cand, costs) \X {4} |->
     LET p == snap[a[1]]
         st == StateOf(trades, a[1], p)
     IN IF a[2] = 4 THEN Level(p, st, cand, Moves(p, st, close, cand, costs), costs)
        ELSE Volume(a[2], p, st, close)]

Remember(trades, snap, close, cand, costs) ==
  [t \in {u \in DOMAIN snap : ~Final(snap[u], StateOf(trades, u, snap[u]), close)} |->
     LET p == snap[t]
         st == StateOf(trades, t, p)
         stage == Moves(p, st, close, cand, costs)
     IN [st EXCEPT !.filled = @ \cup {k \in {1, 2} : Due(k, p, st, close)},
                   !.s1 = @ \/ stage > 0, !.s2 = @ \/ stage = 2]]
=============================================================================
