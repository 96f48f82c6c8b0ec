----------------------------- MODULE SmcTrackers -----------------------------
(***************************************************************************)
(* The accumulators behind the SMC engine, fed one closed bar at a time:   *)
(* orb/smc/mtf.py (candles of a higher timeframe), orb/smc/structure.py    *)
(* (swings, and the breaks of structure) and orb/smc/orderblocks.py.       *)
(*                                                                         *)
(* Each is a record and an operator from the record before a bar to the    *)
(* record after it.  A bar is [t, o, h, l, c, disp] in integers; disp says *)
(* whether it passes the body and ATR test of a displacement bar, which    *)
(* is left open.                                                           *)
(***************************************************************************)
EXTENDS PyMath, FiniteSets, SequencesExt

CONSTANTS
  Tf,           \* TimeframeAggregator.minutes
  Lookback,     \* StructureTracker.lookback
  RecentBars, MaxPending,            \* _RECENT_BARS, _MAX_PENDING
  ConfirmBars, MaxBlocks, ExpiryBars \* confirm_bars, max_blocks, expiry_bars

ASSUME TrackerAssumption ==
  /\ {Tf, Lookback, RecentBars, MaxPending, MaxBlocks, ExpiryBars} \subseteq Nat \ {0}
  /\ ConfirmBars \in Nat

None == [none |-> TRUE]
Opposite == [LONG |-> "SHORT", SHORT |-> "LONG"]

(* deque(maxlen = n): append s on the right, old entries fall out. *)
Bounded(s, n) == IF Len(s) > n THEN SubSeq(s, Len(s) - n + 1, Len(s)) ELSE s

-----------------------------------------------------------------------------
(* TimeframeAggregator.update: fold the bar into its bucket; the first bar  *)
(* of another bucket completes the candle before it.                        *)
NewAggregator == [key |-> -1, candle |-> None, done |-> None]

BucketOf(t) == t - (t % Tf)

Ohlc(b) == [o |-> b.o, h |-> b.h, l |-> b.l, c |-> b.c]

Aggregate(a, b) ==
  IF BucketOf(b.t) = a.key
  THEN [a EXCEPT !.done = None,
                 !.candle = [o |-> @.o, h |-> MaxOf(@.h, b.h), l |-> MinOf(@.l, b.l),
                             c |-> b.c]]
  ELSE [key |-> BucketOf(b.t), candle |-> Ohlc(b), done |-> a.candle]

-----------------------------------------------------------------------------
(* StructureTracker.update: confirm the centre of the window as a swing if  *)
(* it is strictly beyond its neighbours; then a close beyond the unbroken   *)
(* reference is an event and consumes the reference.                        *)
NewStructure == [window |-> << >>, refHigh |-> None, refLow |-> None,
                 trend |-> "none", event |-> None]

Centre == Lookback + 1
Full(w) == Len(w) = 2 * Lookback + 1

IsSwing(w, beyond(_, _)) ==
  Full(w) /\ \A j \in DOMAIN w \ {Centre} : beyond(w[Centre], w[j])

Confirmed(s, b) ==
  LET w == Bounded(Append(s.window, [h |-> b.h, l |-> b.l]), 2 * Lookback + 1) IN
  [s EXCEPT !.window = w,
            !.refHigh = IF IsSwing(w, LAMBDA x, y : x.h > y.h)
                        THEN [price |-> w[Centre].h] ELSE @,
            !.refLow = IF IsSwing(w, LAMBDA x, y : x.l < y.l)
                       THEN [price |-> w[Centre].l] ELSE @]

Event(s, dir) == [kind |-> IF s.trend = Opposite[dir] THEN "CHOCH" ELSE "BOS", dir |-> dir]

MutBreak(s, b) ==
  LET up == s.refHigh # None /\ b.c > s.refHigh.price
      down == s.refLow # None /\ b.c < s.refLow.price
  IN IF up /\ (down => b.c >= b.o)
     THEN [s EXCEPT !.trend = "LONG", !.event = Event(s, "LONG")]
     ELSE IF down
     THEN [s EXCEPT !.refLow = None, !.trend = "SHORT", !.event = Event(s, "SHORT")]
     ELSE [s EXCEPT !.event = None]

Break(s, b) ==
  LET up == s.refHigh # None /\ b.c > s.refHigh.price
      down == s.refLow # None /\ b.c < s.refLow.price
  IN IF up /\ (down => b.c >= b.o)
     THEN [s EXCEPT !.refHigh = None, !.trend = "LONG", !.event = Event(s, "LONG")]
     ELSE IF down
     THEN [s EXCEPT !.refLow = None, !.trend = "SHORT", !.event = Event(s, "SHORT")]
     ELSE [s EXCEPT !.event = None]

UpdateStructure(s, b) == Break(Confirmed(s, b), b)

-----------------------------------------------------------------------------
(* OrderBlockTracker.update.  Blocks are kept in the order of the bars they *)
(* were born at, one a bar: a register is a set, and a deque(maxlen = n) of *)
(* them keeps the n newest.                                                 *)
NoBlocks == [dir \in {"LONG", "SHORT"} |-> {}]
NewOrderBlocks == [bar |-> 0, recent |-> << >>, pending |-> NoBlocks, active |-> NoBlocks]

Newest(reg, n) ==
  LET born == {ob.born : ob \in reg} IN
  {ob \in reg : Cardinality({k \in born : k > ob.born}) < n}

(* 1. Blocks active before the bar expire, are closed through or touched. *)
Invalidated(ob, dir, b) == IF dir = "LONG" THEN b.c < ob.bottom ELSE b.c > ob.top
Touched(ob, b) == b.l <= ob.top /\ b.h >= ob.bottom

Surviving(reg, dir, b, bar) ==
  {[ob EXCEPT !.mitigated = @ \/ Touched(ob, b)] :
     ob \in {x \in reg : bar - x.born < ExpiryBars /\ ~Invalidated(x, dir, b)}}

(* 2. A displacement bar makes a candidate of the last bar of the opposite  *)
(* colour.                                                                  *)
BarDir(b) == IF b.c > b.o THEN "LONG" ELSE IF b.c < b.o THEN "SHORT" ELSE "none"

Candidates(o, b, bar) ==
  LET dir == BarDir(b)
      prevs == {i \in DOMAIN o.recent : BarDir(o.recent[i]) = Opposite[dir]}
  IN IF ~b.disp \/ dir = "none" THEN o.pending
     ELSE IF prevs = {} THEN o.pending
     ELSE LET p == o.recent[Max(prevs)]
              ob == [top |-> p.h, bottom |-> p.l, mitigated |-> FALSE, born |-> bar]
          IN [o.pending EXCEPT ![dir] = Newest(@ \cup {ob}, MaxPending)]

(* 3. and 4. An event promotes the candidates of its direction that are in  *)
(* the window; older ones are dropped.                                      *)
InTime(reg, bar) == {ob \in reg : bar - ob.born <= ConfirmBars}

MutUpdateBlocks(o, b, event) ==
  LET bar == o.bar + 1
      pending == Candidates(o, b, bar)
      promotes(dir) == event # None /\ event.dir = dir
  IN [bar |-> bar,
      recent |-> Bounded(Append(o.recent, b), RecentBars),
      active |-> [dir \in DOMAIN o.active |->
        Surviving(IF promotes(dir)
                  THEN Newest(o.active[dir] \cup InTime(pending[dir], bar), MaxBlocks)
                  ELSE o.active[dir], dir, b, bar)],
      pending |-> [dir \in DOMAIN pending |->
        IF promotes(dir) THEN {} ELSE InTime(pending[dir], bar)]]

UpdateBlocks(o, b, event) ==
  LET bar == o.bar + 1
      pending == Candidates(o, b, bar)
      promotes(dir) == event # None /\ event.dir = dir
  IN [bar |-> bar,
      recent |-> Bounded(Append(o.recent, b), RecentBars),
      active |-> [dir \in DOMAIN o.active |->
        LET kept == Surviving(o.active[dir], dir, b, bar) IN
        IF promotes(dir) THEN Newest(kept \cup InTime(pending[dir], bar), MaxBlocks)
        ELSE kept],
      pending |-> [dir \in DOMAIN pending |->
        IF promotes(dir) THEN {} ELSE InTime(pending[dir], bar)]]
=============================================================================
