----------------------------- MODULE SvpTrackers -----------------------------
(***************************************************************************)
(* The accumulators behind the SVP engine: orb/svp/profile.py (the volume  *)
(* profile of a session) and orb/svp/structure.py (swing highs and lows).  *)
(*                                                                         *)
(* Volumes are integers in units of 1/Unit, where Unit is divisible by     *)
(* every number of rows a bar may span, so that the even split of a bar's  *)
(* volume is exact; fractions of the configuration are percentages.        *)
(***************************************************************************)
EXTENDS SmcTrackers

CONSTANTS
  RowSize, Unit,
  ValueAreaPct, HvnPct, LvnPct, IMaxPeakPct,
  TpoFallback, TiebreakUp,       \* tpo_fallback, va_tiebreak = "up"
  MinBars, MaxRowsPerBar

(* SvpConfig.__post_init__, the profile's part. *)
ProfileValid ==
  /\ {RowSize, MinBars, MaxRowsPerBar} \subseteq Nat \ {0}
  /\ {ValueAreaPct, HvnPct, LvnPct} \subseteq 1..100
  /\ IMaxPeakPct \in Nat /\ IMaxPeakPct > 100
  /\ {TpoFallback, TiebreakUp} \subseteq BOOLEAN

ASSUME ProfileAssumption ==
  ProfileValid /\ Unit \in Nat \ {0} /\ \A n \in 1..MaxRowsPerBar : Unit % n = 0

-----------------------------------------------------------------------------
(* VolumeProfile.update: the volume of a bar is shared evenly by the rows   *)
(* it spans.                                                                *)
NewProfile == [anchor |-> 0, hist |-> << >>, total |-> 0, bars |-> 0]

RowOf(p, price) == (price - p.anchor) \div RowSize

Vol(p, r) == IF r \in DOMAIN p.hist THEN p.hist[r] ELSE 0

Weight(b) == Unit * (IF b.v > 0 THEN b.v ELSE IF TpoFallback THEN 1 ELSE 0)

Spread(p, b) ==
  LET rows == RowOf(p, b.l) .. RowOf(p, b.h)
      n == Cardinality(rows)
  IN IF Weight(b) = 0 \/ n > MaxRowsPerBar THEN p
     ELSE [p EXCEPT !.hist = [r \in DOMAIN @ \cup rows |->
                                Vol(p, r) + IF r \in rows THEN Weight(b) \div n ELSE 0],
                    !.total = @ + Weight(b)]

UpdateProfile(p, b) ==
  Spread([p EXCEPT !.anchor = IF p.bars = 0 THEN b.l ELSE @, !.bars = @ + 1], b)

Ready(p) == p.bars >= MinBars /\ p.total > 0

-----------------------------------------------------------------------------
(* The levels of a profile, as rows.  The rows between the lowest and the   *)
(* highest row touched count, also those no bar touched.                    *)
MinRow(p) == Min(DOMAIN p.hist)
MaxRow(p) == Max(DOMAIN p.hist)
Rows(p) == MinRow(p) .. MaxRow(p)

PocRow(p) == Min({r \in Rows(p) : \A x \in Rows(p) : Vol(p, x) <= Vol(p, r)})

(* _value_area: from the POC, absorb the heavier pair of rows above or      *)
(* below until enough volume is enclosed.                                   *)
Pair(p, r, d) == Vol(p, r + d) + Vol(p, r + 2 * d)

Enclosed(p, a) == MapThenSumSet(LAMBDA r : Vol(p, r), a.lo .. a.hi)

EnoughIn(p, a) == 100 * Enclosed(p, a) >= ValueAreaPct * p.total

GoUp(p, a) ==
  LET up == Pair(p, a.hi, 1)
      dn == Pair(p, a.lo, -1)
  IN a.hi < MaxRow(p)
     /\ (a.lo > MinRow(p) => up > dn \/ (up = dn /\ TiebreakUp))

Absorb(p, a) ==
  IF GoUp(p, a) THEN [a EXCEPT !.hi = MinOf(@ + 2, MaxRow(p))]
  ELSE [a EXCEPT !.lo = MaxOf(@ - 2, MinRow(p))]

Steps(p) == 0 .. (Cardinality(Rows(p)) + 1) \div 2

MutValueArea(p) ==
  LET walk[k \in Steps(p)] ==
        IF k = 0 THEN [lo |-> PocRow(p), hi |-> PocRow(p)]
        ELSE LET a == walk[k - 1] IN
             IF EnoughIn(p, a) THEN a ELSE [a EXCEPT !.hi = MinOf(@ + 2, MaxRow(p))]
  IN walk[Max(Steps(p))]

ValueArea(p) ==
  LET walk[k \in Steps(p)] ==
        IF k = 0 THEN [lo |-> PocRow(p), hi |-> PocRow(p)]
        ELSE LET a == walk[k - 1] IN IF EnoughIn(p, a) THEN a ELSE Absorb(p, a)
  IN walk[Max(Steps(p))]

(* _nodes: peaks of the profile, runs of adjacent peaks collapsed, and the  *)
(* lightest row between two neighbouring peaks if it is light enough.       *)
Heaviest(p) == Vol(p, PocRow(p))
Occupied(p) == {r \in Rows(p) : Vol(p, r) > 0}

Peaks(p) ==
  LET top == Heaviest(p) IN
  {r \in Rows(p) : /\ 100 * Vol(p, r) >= HvnPct * top
                   /\ Vol(p, r) >= Vol(p, r - 1)
                   /\ Vol(p, r) >= Vol(p, r + 1)}

RunOf(rows, r) == {x \in rows : MinOf(x, r) .. MaxOf(x, r) \subseteq rows}

Hvns(p) ==
  LET peaks == Peaks(p) IN
  {r \in peaks : \A x \in RunOf(peaks, r) \ {r} :
      Vol(p, x) < Vol(p, r) \/ (Vol(p, x) = Vol(p, r) /\ x > r)}

Between(hvns) ==
  {q[1] + 1 .. q[2] - 1 : q \in {y \in hvns \X hvns :
      y[1] < y[2] /\ \A x \in hvns : x <= y[1] \/ x >= y[2]}}

Lightest(p, seg) == Min({r \in seg : \A x \in seg : Vol(p, r) <= Vol(p, x)})

IsLight(p, r) == 100 * Vol(p, r) * Cardinality(Occupied(p)) <= LvnPct * p.total

Lvns(p) == {r \in {Lightest(p, seg) : seg \in Between(Hvns(p)) \ {{}}} : IsLight(p, r)}

ClassifyShape(p) ==
  LET span == MaxRow(p) - MinRow(p)
      height == PocRow(p) - MinRow(p)
  IN CASE span = 0 -> "NONE"
       [] span > 0 /\ 100 * Heaviest(p) * Cardinality(Occupied(p)) < IMaxPeakPct * p.total -> "I"
       [] OTHER -> IF Cardinality(Hvns(p)) >= 2 /\ Lvns(p) # {} THEN "B"
                   ELSE IF 100 * height >= 66 * span THEN "P"
                   ELSE IF 100 * height <= 34 * span THEN "b" ELSE "D"

(* levels(): nothing until the profile is ready. *)
Levels(p) ==
  IF ~Ready(p) THEN None
  ELSE [poc |-> PocRow(p), vah |-> ValueArea(p).hi, val |-> ValueArea(p).lo,
        hvns |-> Hvns(p), lvns |-> Lvns(p), shape |-> ClassifyShape(p)]

-----------------------------------------------------------------------------
(* SwingStructure: the last two confirmed swing highs and lows. *)
NewSwings == [window |-> << >>, highs |-> << >>, lows |-> << >>]

UpdateSwings(s, b) ==
  LET w == Bounded(Append(s.window, [h |-> b.h, l |-> b.l]), 2 * Lookback + 1) IN
  [window |-> w,
   highs |-> IF IsSwing(w, LAMBDA x, y : x.h > y.h)
             THEN Bounded(Append(s.highs, w[Centre].h), 2) ELSE s.highs,
   lows |-> IF IsSwing(w, LAMBDA x, y : x.l < y.l)
            THEN Bounded(Append(s.lows, w[Centre].l), 2) ELSE s.lows]

Bias(s) ==
  IF Len(s.highs) < 2 \/ Len(s.lows) < 2 THEN "none"
  ELSE IF s.highs[2] > s.highs[1] /\ s.lows[2] > s.lows[1] THEN "LONG"
  ELSE IF s.highs[2] < s.highs[1] /\ s.lows[2] < s.lows[1] THEN "SHORT"
  ELSE "none"
=============================================================================
