-------------------------------- MODULE BarFed --------------------------------
(***************************************************************************)
(* The streaming accumulators of the two strategies, fed bar by bar, held  *)
(* against definitions over the whole history.  The code promises that     *)
(* what it keeps incrementally is what a chart of the same bars shows;     *)
(* each accumulator sees a bar once and forgets it, so a mistake in what   *)
(* is kept, dropped or evicted shows many bars later.                      *)
(***************************************************************************)
EXTENDS SvpTrackers, Indicators, TimeFilters

CONSTANTS
  Shapes,            \* what a bar may look like: a new session?, time since the
                     \* bar before, prices, displacement?, volume
  MaxLen,            \* bound: bars in a history
  NyStart, NyStep    \* New York time of a bar: NyStart + NyStep * its time

VARIABLES
  hist,                     \* the bars so far
  events,                   \* the event each of them caused
  agg, str, obs,            \* SmcStrategy._h1, ._st_m15, ._obs
  start, prof, swings,      \* first bar of the session, SvpStrategy._profile, ._struct
  atr, closes, sma, spike,  \* WilderATR, ROC, VolumeSMA, SpikeCancel
  opens, quarters,          \* TrueOpenTracker, QuarterTracker
  gate                      \* would an entry on the last bar have passed?

feedVars == <<hist, events, agg, str, obs, start, prof, swings, atr, closes, sma,
              spike, opens, quarters, gate>>

Shape == [fresh : BOOLEAN, wait : Nat \ {0}, o : Nat, h : Nat, l : Nat, c : Nat,
          disp : BOOLEAN, v : Nat]

ASSUME ShapesAssumption ==
  /\ Shapes \subseteq Shape /\ MaxLen \in Nat
  /\ \A x \in Shapes : x.l <= MinOf(x.o, x.c) /\ MaxOf(x.o, x.c) <= x.h

ASSUME NyAssumption == NyStart \in Nat /\ NyStep \in Nat \ {0}

Now == Len(hist)
LastTime == IF Now = 0 THEN 0 ELSE hist[Now].t
Ny(b) == NyStart + NyStep * b.t

BarOf(x) == [t |-> LastTime + x.wait, o |-> x.o, h |-> x.h, l |-> x.l, c |-> x.c,
             disp |-> x.disp, v |-> x.v]

FeedInit ==
  /\ hist = << >> /\ events = << >>
  /\ agg = NewAggregator /\ str = NewStructure /\ obs = NewOrderBlocks
  /\ start = 1 /\ prof = NewProfile /\ swings = NewSwings
  /\ atr = NewAtr /\ closes = << >> /\ sma = NewSma /\ spike = NewSpike
  /\ opens = NewOpens /\ quarters = NewQuarters /\ gate = FALSE

(* One closed bar reaches every accumulator; a new session starts a new    *)
(* profile and new swings.  The live loop hands a bar's signal to          *)
(* on_signal, with the filters, before on_bar feeds the bar to the opens.  *)
Feed(x) ==
  LET b == BarOf(x) IN
  /\ Now < MaxLen
  /\ hist' = Append(hist, b)
  /\ agg' = Aggregate(agg, b)
  /\ str' = UpdateStructure(str, b)
  /\ events' = Append(events, str'.event)
  /\ obs' = UpdateBlocks(obs, b, str'.event)
  /\ start' = IF x.fresh THEN Now + 1 ELSE start
  /\ prof' = UpdateProfile(IF x.fresh THEN NewProfile ELSE prof, b)
  /\ swings' = UpdateSwings(IF x.fresh THEN NewSwings ELSE swings, b)
  /\ atr' = UpdateAtr(atr, b) /\ closes' = UpdateRoc(closes, b)
  /\ sma' = UpdateSma(sma, b) /\ spike' = UpdateSpike(spike, b)
  /\ gate' = PassesTime(opens, Ny(b), b.c)
  /\ opens' = UpdateOpens(opens, Ny(b), b.o)
  /\ quarters' = UpdateQuarters(quarters, Ny(b), b.o)

FeedNext == \E x \in Shapes : Feed(x)

FeedSpec == FeedInit /\ [][FeedNext]_feedVars

-----------------------------------------------------------------------------
(* Swings and events, from the chart. *)
SwingHigh(first, k) ==
  /\ k - Lookback >= first /\ k + Lookback <= Now
  /\ \A j \in (k - Lookback .. k + Lookback) \ {k} : hist[k].h > hist[j].h
SwingLow(first, k) ==
  /\ k - Lookback >= first /\ k + Lookback <= Now
  /\ \A j \in (k - Lookback .. k + Lookback) \ {k} : hist[k].l < hist[j].l

EventsIn(dir, from, to) == {m \in from .. to : events[m] # None /\ events[m].dir = dir}

(* The last bar closes beyond the newest swing, and no event has done so    *)
(* since the swing was confirmed.                                           *)
Broke(dir) ==
  LET ks == {k \in 1..Now : IF dir = "LONG" THEN SwingHigh(1, k) ELSE SwingLow(1, k)} IN
  /\ ks # {}
  /\ EventsIn(dir, Max(ks) + Lookback, Now - 1) = {}
  /\ IF dir = "LONG" THEN hist[Now].c > hist[Max(ks)].h ELSE hist[Now].c < hist[Max(ks)].l

ChartEvent ==
  LET dir == IF Broke("LONG") /\ (Broke("SHORT") => hist[Now].c >= hist[Now].o)
             THEN "LONG" ELSE "SHORT"
      past == EventsIn("LONG", 1, Now - 1) \cup EventsIn("SHORT", 1, Now - 1)
      turn == past # {} /\ events[Max(past)].dir # dir
  IN IF ~Broke("LONG") /\ ~Broke("SHORT") THEN None
     ELSE [kind |-> IF turn THEN "CHOCH" ELSE "BOS", dir |-> dir]

(* The last two swings of the session decide the bias. *)
Rising(ks, price(_)) == LET k == Max(ks) IN price(k) - price(Max(ks \ {k}))

ChartBias ==
  LET hs == {k \in start..Now : SwingHigh(start, k)}
      ls == {k \in start..Now : SwingLow(start, k)}
      dh == Rising(hs, LAMBDA k : hist[k].h)
      dl == Rising(ls, LAMBDA k : hist[k].l)
  IN IF Cardinality(hs) < 2 \/ Cardinality(ls) < 2 THEN "none"
     ELSE IF dh > 0 /\ dl > 0 THEN "LONG"
     ELSE IF dh < 0 /\ dl < 0 THEN "SHORT" ELSE "none"

(* Structure: the break of structure (or the change of character) that the  *)
(* tracker reports for a bar is the one its chart shows - the newest swing, *)
(* each swing broken once, a change of character exactly on a turn - and    *)
(* the bias of the SVP filter is that of the session's last two swings      *)
(* (StructureTracker.update, SwingStructure.update).                        *)
StructureIsChart ==
  Now > 0 => events[Now] = ChartEvent /\ Bias(swings) = ChartBias

-----------------------------------------------------------------------------
(* Order blocks, from the chart: a block is named by its displacement bar. *)
BlockDir(d) == BarDir(hist[d])
OriginsOf(d) ==
  {p \in MaxOf(1, d - RecentBars) .. d - 1 : BarDir(hist[p]) = Opposite[BlockDir(d)]}
IsCandidate(d) == hist[d].disp /\ BlockDir(d) # "none" /\ OriginsOf(d) # {}
Newer(d, to) == {x \in d + 1 .. to : IsCandidate(x) /\ BlockDir(x) = BlockDir(d)}

Confirmers(d) == EventsIn(BlockDir(d), d, Now)
IsConfirmed(d) ==
  /\ IsCandidate(d) /\ Confirmers(d) # {}
  /\ Min(Confirmers(d)) - d <= ConfirmBars
  /\ Cardinality(Newer(d, Min(Confirmers(d)))) < MaxPending

Block(d) == [top |-> hist[Max(OriginsOf(d))].h, bottom |-> hist[Max(OriginsOf(d))].l]
Since(d, m) == Min(Confirmers(d)) + 1 .. m
Stands(d, m) ==
  /\ IsConfirmed(d) /\ Min(Confirmers(d)) <= m
  /\ \A i \in Since(d, m) : i - d < ExpiryBars /\ ~Invalidated(Block(d), BlockDir(d), hist[i])
Crowded(d, m) == Cardinality({x \in Newer(d, Now) : Stands(x, m)}) >= MaxBlocks

ChartBlocks(dir) ==
  {[top |-> Block(d).top, bottom |-> Block(d).bottom, born |-> d,
    mitigated |-> \E i \in Since(d, Now) : Touched(Block(d), hist[i])] :
     d \in {x \in 1..Now : /\ IsCandidate(x) /\ BlockDir(x) = dir /\ Stands(x, Now)
                           /\ \A m \in Min(Confirmers(x)) .. Now : ~Crowded(x, m)}}

(* Order blocks: the blocks the tracker holds active are those of the       *)
(* chart - confirmed in time by an event of their direction, not closed     *)
(* through, expired or crowded out by newer ones - and a block is marked    *)
(* mitigated exactly when a bar after its confirmation touched it           *)
(* (OrderBlockTracker.update).                                              *)
BlocksAreChart ==
  \A dir \in DOMAIN obs.active : obs.active[dir] = ChartBlocks(dir)

-----------------------------------------------------------------------------
(* Candles of the higher timeframe, from the chart. *)
BucketBars(key) == {k \in 1..Now : BucketOf(hist[k].t) = key}
ChartCandle(ks) ==
  [o |-> hist[Min(ks)].o, h |-> Max({hist[k].h : k \in ks}),
   l |-> Min({hist[k].l : k \in ks}), c |-> hist[Max(ks)].c]

CandleIsChart ==
  LET ks == BucketBars(BucketOf(hist[Now].t))
      before == 1..Min(ks) - 1
  IN /\ agg.candle = ChartCandle(ks)
     /\ agg.done = IF before = {} \/ Cardinality(ks) > 1 THEN None
                   ELSE ChartCandle(BucketBars(BucketOf(hist[Max(before)].t)))

(* The opens of the chart: of the first bar of a date at or after a slot.   *)
(* The first bar of all counts only if it is on time.                       *)
OnDate(k, j) == Ny(hist[j]) \div Day = Ny(hist[k]) \div Day
OpensAt(k, slot) ==
  LET tod(j) == TimeOfDay(Ny(hist[j])) IN
  /\ IF k = 1 THEN tod(k) = slot ELSE tod(k) >= slot
  /\ \A j \in 1 .. k - 1 : OnDate(k, j) => tod(j) < slot
ChartOpen(slots, date(_), last) ==
  LET ks == {k \in 1..last : date(Ny(hist[k])) /\ \E s \in slots : OpensAt(k, s)} IN
  IF ks = {} THEN Unset ELSE hist[Max(ks)].o
AnyDay(ny) == TRUE
Monday(ny) == Weekday(ny) = 0

(* trueopen.py: "levels survive gaps".  quarters.py: the open of the day's  *)
(* second quarter "== TDO"; likewise the open of a session's second quarter *)
(* is the session open, except in the evening, which has no slot.  So the   *)
(* two never tell opposite sides of the day's or the session's open.        *)
OpensAreChart ==
  /\ opens.tdo = ChartOpen({0}, AnyDay, Now)
  /\ opens.session = ChartOpen(SessionSlots, AnyDay, Now)
  /\ opens.cycle = ChartOpen(CycleSlots, AnyDay, Now)
  /\ opens.week = ChartOpen({WeekSlot}, Monday, Now)
  /\ Unset \notin {opens.tdo, quarters.dayQ2} => opens.tdo = quarters.dayQ2
  /\ quarters.m90Id % 4 # 3 /\ Unset \notin {opens.session, quarters.m90Q2} =>
       opens.session = quarters.m90Q2
  /\ LET c == hist[Now].c IN
     /\ Zone(opens, c) = "premium" =>
          OpenBias(opens, c) = "bullish" /\ ValueZone(quarters.dayQ2, c) # "discount"
     /\ Zone(opens, c) = "discount" =>
          OpenBias(opens, c) = "bearish" /\ ValueZone(quarters.dayQ2, c) # "premium"

(* An entry on this bar passes when it lies in an allowed quarter and,      *)
(* around the clock from its start, less than a window's length into a      *)
(* killzone, and not between the opens known from the bars BEFORE it.       *)
FiltersAreChart ==
  LET ny == Ny(hist[Now])
      price == hist[Now].c
      into(w) == (ny + UtcOffset - WindowStart(w)) % Day
      length(w) == (WindowEnd(w) - WindowStart(w)) % Day
      known == {ChartOpen({0}, AnyDay, Now - 1), ChartOpen(SessionSlots, AnyDay, Now - 1),
                ChartOpen({WeekSlot}, Monday, Now - 1)}
  IN gate <=>
       /\ Unset \in known \/ price > Max(known) \/ price <= Min(known)
       /\ (ny + Session) % Day \in UNION {(q - 1) * Session .. q * Session - 1 :
                                           q \in AllowedQuarters}
       /\ Killzones = {} \/ \E w \in Killzones : into(w) < length(w)

(* Candles, opens and filters: a higher-timeframe candle is the fold of     *)
(* exactly the bars of its bucket, and is completed by the first bar of     *)
(* another (TimeframeAggregator.update); the opens at New York times are    *)
(* those of the chart whatever bars are missing (over midnight, over        *)
(* several slots, over days), and the two trackers agree on them            *)
(* (trueopen.py, quarters.py); and the filters by the time of day let an    *)
(* entry through exactly where the chart has room for one (execguard.py,    *)
(* cmd_live.on_signal).                                                     *)
ClockIsChart ==
  Now > 0 => CandleIsChart /\ OpensAreChart /\ FiltersAreChart

-----------------------------------------------------------------------------
(* Sums over the bars: the profile of the session and the indicators.       *)
ChartVol(r) ==
  MapThenSumSet(LAMBDA k :
      LET rows == RowOf(prof, hist[k].l) .. RowOf(prof, hist[k].h) IN
      IF r \in rows /\ Cardinality(rows) <= MaxRowsPerBar
      THEN Weight(hist[k]) \div Cardinality(rows) ELSE 0, start..Now)

(* The value area holds the share of the volume it is named for, and would  *)
(* not without the rows it absorbed last.                                   *)
ValueAreaTight ==
  LET a == ValueArea(prof)
      poc == PocRow(prof)
      less == {x \in [lo : a.lo .. a.hi, hi : a.lo .. a.hi] :
                 /\ x.lo <= poc /\ poc <= x.hi
                 /\ (x.hi - x.lo) = (a.hi - a.lo) - MinOf(2, a.hi - a.lo)
                 /\ x.lo = a.lo \/ x.hi = a.hi}
  IN /\ poc \in a.lo .. a.hi
     /\ EnoughIn(prof, a)
     /\ a.lo < a.hi => \E x \in less : ~EnoughIn(prof, x)

(* The POC is a peak, peaks are apart, a valley is the lightest row between *)
(* two of them; two clusters need a valley, a P has its POC high, a b low.  *)
LevelsSound ==
  LET lv == Levels(prof)
      middle == MinRow(prof) + MaxRow(prof)
  IN lv # None =>
     /\ lv.poc \in lv.hvns
     /\ \A r \in lv.hvns : r + 1 \notin lv.hvns
     /\ \A r \in lv.lvns :
          \E a, b \in lv.hvns : /\ a < r /\ r < b
                                /\ \A x \in a + 1 .. b - 1 : Vol(prof, r) <= Vol(prof, x)
     /\ lv.shape = "B" => lv.lvns # {}
     /\ lv.shape = "P" => 2 * lv.poc > middle
     /\ lv.shape = "b" => 2 * lv.poc < middle

ProfileIsChart ==
  /\ prof.bars = Now - start + 1
  /\ \A r \in 0 - 9 .. 9 : Vol(prof, r) = ChartVol(r)
  /\ (prof.total > 0 => ValueAreaTight) /\ LevelsSound

(* Readings of the last bars. *)
LastBars(n) == MaxOf(1, Now - n + 1) .. Now
SumBars(of(_), bars) == MapThenSumSet(of, bars)
Tr(k) == TrueRange(IF k = 1 THEN None ELSE [c |-> hist[k - 1].c], hist[k])

(* Wilder's average unrolled: the mean of the first true ranges and each    *)
(* later one, weighted by its age.                                          *)
ChartAtr ==
  LET p == AtrPeriod
      age(k) == (p - 1)^(Now - MaxOf(k, p)) * p^(MaxOf(k, p) - p)
  IN SumBars(LAMBDA k : Tr(k) * age(k), 1..Now)

IndicatorsAreChart ==
  LET before == LastBars(SpikeLookback + 1) \ {Now}
      rng(k) == hist[k].h - hist[k].l
      total == SumBars(rng, before)
  IN /\ AtrReady(atr) <=> Now >= AtrPeriod
     /\ AtrReady(atr) => atr.num = ChartAtr /\ atr.pow = Now - AtrPeriod + 1
     /\ Roc(closes) = IF Now <= RocPeriod THEN None
                      ELSE [num |-> hist[Now].c - hist[Now - RocPeriod].c,
                            den |-> hist[Now - RocPeriod].c]
     /\ SmaReady(sma) <=> Now >= SmaPeriod
     /\ sma.sum = SumBars(LAMBDA k : hist[k].v, LastBars(SmaPeriod))
     /\ spike.spike <=> /\ Cardinality(before) >= SpikeMinBars /\ total > 0
                        /\ 100 * Cardinality(before) * rng(Now) >= SpikeRatioPct * total

(* Sums: the profile counts every bar of the session once, its value area   *)
(* is as large as promised and no larger than its last step made it, and    *)
(* its levels agree with one another (VolumeProfile); averages, rate of     *)
(* change and spike trigger depend on exactly the bars of their windows,    *)
(* and are ready from the first full one on (indicators.py, riskguard.py).  *)
SumsAreChart ==
  Now > 0 => ProfileIsChart /\ IndicatorsAreChart
=============================================================================
