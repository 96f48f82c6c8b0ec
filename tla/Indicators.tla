------------------------------ MODULE Indicators ------------------------------
(***************************************************************************)
(* orb/indicators.py (Wilder's ATR, the rate of change, the volume         *)
(* average) and SpikeCancel of orb/riskguard.py: streaming readings, each  *)
(* a record and an operator from the record before a bar to the one after. *)
(*                                                                         *)
(* Values are exact: an average is kept as its numerator over a            *)
(* denominator that only the number of bars decides.                       *)
(***************************************************************************)
EXTENDS SmcTrackers

CONSTANTS
  AtrPeriod, RocPeriod, SmaPeriod,
  SpikeRatioPct, SpikeLookback, SpikeMinBars   \* SpikeCancel: ratio in percent

ASSUME IndicatorAssumption ==
  /\ {AtrPeriod, RocPeriod, SmaPeriod, SpikeLookback} \subseteq Nat \ {0}
  /\ SpikeMinBars \in Nat
  /\ SpikeRatioPct \in Nat /\ SpikeRatioPct > 100

SumOf(s) == FoldLeft(LAMBDA x, y : x + y, 0, s)

(* WilderATR: the mean of the first period true ranges, then smoothing. The *)
(* ATR is num / AtrPeriod^pow, ready once pow > 0.                          *)
NewAtr == [prevClose |-> None, count |-> 0, num |-> 0, pow |-> 0]

TrueRange(prevClose, b) ==
  IF prevClose = None THEN b.h - b.l
  ELSE MaxOf(b.h - b.l, MaxOf(AbsDiff(b.h, prevClose.c), AbsDiff(b.l, prevClose.c)))

UpdateAtr(a, b) ==
  LET tr == TrueRange(a.prevClose, b)
      seeding == a.pow = 0
  IN [prevClose |-> [c |-> b.c], count |-> a.count + 1,
      num |-> IF seeding THEN a.num + tr
              ELSE a.num * (AtrPeriod - 1) + tr * AtrPeriod^a.pow,
      pow |-> IF seeding /\ a.count + 1 < AtrPeriod THEN 0 ELSE a.pow + 1]

AtrReady(a) == a.pow > 0

(* ROC: the last period + 1 closes; the value relates the last to the first *)
(* and does not exist until there are that many.                            *)
UpdateRoc(closes, b) == Bounded(Append(closes, b.c), RocPeriod + 1)

Roc(closes) ==
  IF Len(closes) < RocPeriod + 1 THEN None
  ELSE [num |-> Last(closes) - Head(closes), den |-> Head(closes)]

(* VolumeSMA: a rolling sum; what leaves the window is subtracted. *)
NewSma == [vols |-> << >>, sum |-> 0]

UpdateSma(s, b) ==
  [vols |-> Bounded(Append(s.vols, b.v), SmaPeriod),
   sum |-> s.sum + b.v - IF Len(s.vols) = SmaPeriod THEN Head(s.vols) ELSE 0]

SmaReady(s) == Len(s.vols) = SmaPeriod

(* SpikeCancel: the range of the bar against the average of those before. *)
NewSpike == [ranges |-> << >>, spike |-> FALSE]

UpdateSpike(s, b) ==
  LET rng == b.h - b.l
      total == SumOf(s.ranges)
  IN [ranges |-> Bounded(Append(s.ranges, rng), SpikeLookback),
      spike |-> /\ Len(s.ranges) >= SpikeMinBars /\ total > 0
                /\ 100 * rng * Len(s.ranges) >= SpikeRatioPct * total]
=============================================================================
