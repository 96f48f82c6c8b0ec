------------------------------ MODULE SmcEngine ------------------------------
(***************************************************************************)
(* orb/smc/strategy.py: the Smart-Money-Concepts entry machine.            *)
(*                                                                         *)
(* One-minute bars are folded into trigger (M15), H4 and D1 candles.  An   *)
(* aggregator completes a candle on the first bar of the NEXT bucket, so   *)
(* what completes on a bar at t follows from t and the time of the bar     *)
(* before it.  D1 and H4 are updated before the M15 candle is judged, and  *)
(* the day has rolled over before both.                                    *)
(*                                                                         *)
(* What is abstracted: prices are integers, and a completed M15 candle has *)
(* any shape; a structure tracker reports any event when its candle        *)
(* completes, and its order-block tracker keeps, touches and promotes any  *)
(* blocks its rules allow (SmcTrackers models both, BarFed checks them);   *)
(* the read-only checks hold or fail freely, except that a swept level     *)
(* lies where _check_sweep finds it.                                       *)
(***************************************************************************)
EXTENDS PyMath, FiniteSets, FiniteSetsExt

CONSTANTS
  DayMin, TriggerMin, HtfMin,  \* minutes: a day, trigger_tf_min, htf_min
  MaxDay, MaxJump,             \* bounds: last day; longest silence
  Prices, Edges,               \* prices of candles; edges of order blocks
  MaxBorn,                     \* bound: order blocks ever promoted
  MaxBlocks,                   \* max_blocks
  MinConfluences, MaxTradesPerDay,
  StopBuffer, StopMaxDist

(* SmcConfig.__post_init__, as far as the engine reads the fields. *)
TimeframesValid ==
  /\ {TriggerMin, HtfMin, MaxBlocks, MaxTradesPerDay} \subseteq Nat \ {0}
  /\ DayMin \in Nat /\ TriggerMin < HtfMin /\ HtfMin < DayMin

StopsValid ==
  /\ StopBuffer \in Nat \ {0}
  /\ StopMaxDist \in Nat /\ StopMaxDist > StopBuffer
  /\ MinConfluences \in 1 .. 6

ASSUME SmcAssumption ==
  /\ TimeframesValid /\ StopsValid
  /\ DayMin % TriggerMin = 0 /\ DayMin % HtfMin = 0
  /\ {MaxDay, MaxJump, MaxBorn} \subseteq Nat
  /\ Prices \subseteq Nat \ {0} /\ Edges \subseteq Nat \ {0}

VARIABLES
  eng,     \* the engine
  basis,   \* what the last entry was decided on (history)
  entered, \* entries per calendar day (history)
  backed   \* entries per order block (history)

vars == <<eng, basis, entered, backed>>

-----------------------------------------------------------------------------
Directions == {"LONG", "SHORT"}
Timeframes == {"H4", "D1"}
Flat == [dir |-> "none", stop |-> 0]
NoBlock == [id |-> 0, bottom |-> 0, top |-> 0]
NoZone == [bottom |-> 0, top |-> 0]
Zones == {z \in [bottom : Edges, top : Edges] : z.bottom < z.top}
NoBasis == [h |-> 0, l |-> 0, c |-> 0, block |-> NoBlock]
NoLevel == 0
NoDay == -1

Candles == {k \in [h : Prices, l : Prices, c : Prices] : k.l <= k.c /\ k.c <= k.h}

(* What the read-only checks of _confluence say of a decision bar: how many *)
(* of displacement, CISD, alignment and premium/discount hold, the swept    *)
(* level, and whether a POC is near.                                        *)
Verdicts == [others : 0 .. 4, swept : Prices \cup {NoLevel}, poc : BOOLEAN]

-----------------------------------------------------------------------------
(* TimeframeAggregator: the bucket of a timestamp, and whether a bar at t   *)
(* completes the candle of the bar before it.                               *)
Bucket(t, minutes) == <<t.d, t.m - (t.m % minutes)>>

Completes(e, t, minutes) ==
  e.day # NoDay /\ Bucket(t, minutes) # Bucket(e.last, minutes)

(* Steps 1 and 2 of on_candle: time moves on, a new UTC day clears the      *)
(* counter of trades.                                                       *)
RollDay(e, t) ==
  [e EXCEPT !.last = t, !.sig = "none", !.day = t.d,
            !.traded = IF t.d # e.day THEN 0 ELSE @]

(* Step 4, one higher timeframe: the blocks in "gone" expired or were       *)
(* closed through, those in "touched" were mitigated; an event sets the     *)
(* trend and may promote a block of its direction, the oldest giving way.   *)
Register(blocks, tf, dir) == {b \in blocks : b.tf = tf /\ b.dir = dir}

Oldest(reg) == CHOOSE b \in reg : \A o \in reg : b.id <= o.id

Evicted(reg) == IF Cardinality(reg) > MaxBlocks THEN reg \ {Oldest(reg)} ELSE reg

Promote(blocks, tf, dir, id, zone) ==
  LET reg == Register(blocks, tf, dir)
      new == [tf |-> tf, dir |-> dir, id |-> id, bottom |-> zone.bottom,
              top |-> zone.top, mitigated |-> FALSE]
  IN (blocks \ reg) \cup Evicted(reg \cup {new})

Aged(blocks, gone, touched) ==
  {[b EXCEPT !.mitigated = @ \/ b \in touched] : b \in blocks \ gone}

HtfUpdate(e, tf, h) ==
  LET aged == Aged(e.blocks, h.gone, h.touched) IN
  [e EXCEPT !.trend[tf] = IF h.event = "none" THEN @ ELSE h.event,
            !.blocks = IF h.zone = NoZone THEN aged
                       ELSE Promote(aged, tf, h.event, e.born + 1, h.zone),
            !.born = IF h.zone = NoZone THEN @ ELSE @ + 1]

(* The updates a tracker of timeframe tf can make; none without a candle. *)
Quiet == [event |-> "none", gone |-> {}, touched |-> {}, zone |-> NoZone]

HtfUpdates(e, tf, completes) ==
  LET mine == {b \in e.blocks : b.tf = tf} IN
  IF ~completes THEN {Quiet}
  ELSE {h \in [event : Directions \cup {"none"}, gone : SUBSET mine,
               touched : SUBSET mine, zone : Zones \cup {NoZone}] :
          /\ h.gone \cap h.touched = {}
          /\ h.zone # NoZone => h.event # "none" /\ e.born < MaxBorn}

-----------------------------------------------------------------------------
(* _htf_bias: the H4 trend, vetoed by an opposite D1 trend. *)
Bias(e) ==
  IF e.trend["D1"] \in {"none", e.trend["H4"]} THEN e.trend["H4"] ELSE "none"

(* _check_sweep: the wick goes beyond the level, the close comes back. *)
Swept(k, dir, level) ==
  \/ level = NoLevel
  \/ dir = "LONG" /\ k.l < level /\ level < k.c
  \/ dir = "SHORT" /\ k.h > level /\ level > k.c

NonPoi(v) == v.others + (IF v.swept = NoLevel THEN 0 ELSE 1)

(* poi_at: the newest unmitigated block of the direction that the candle    *)
(* overlaps; D1 before H4.                                                  *)
Pois(e, k, dir, tf) ==
  {b \in Register(e.blocks, tf, dir) :
     ~b.mitigated /\ b.bottom <= k.h /\ b.top >= k.l}

Newest(reg) == CHOOSE b \in reg : \A o \in reg : o.id <= b.id

ObPoi(e, k, dir) ==
  LET d1 == Pois(e, k, dir, "D1")
      h4 == Pois(e, k, dir, "H4")
  IN IF d1 # {} THEN Newest(d1) ELSE IF h4 # {} THEN Newest(h4) ELSE NoBlock

MutConsume(e, ob) == e

Consume(e, ob) ==
  [e EXCEPT !.blocks = {[b EXCEPT !.mitigated = @ \/ b.id = ob.id] : b \in @}]

(* _enter: the stop beyond the wick, the swept level and the block.  A stop *)
(* that is too far is never tightened: there is no entry then.              *)
StructuralStop(k, dir, ob, level) ==
  IF dir = "LONG"
  THEN Min({k.l} \cup {x \in {ob.bottom, level} : x # 0}) - StopBuffer
  ELSE Max({k.h, ob.top, level}) + StopBuffer

MutEnter(e, k, dir, ob, level) ==
  LET stop == IF dir = "LONG" THEN k.l - StopBuffer ELSE k.h + StopBuffer IN
  IF AbsDiff(k.c, stop) = 0 \/ AbsDiff(k.c, stop) > StopMaxDist THEN e
  ELSE [e EXCEPT !.pos = [dir |-> dir, stop |-> stop], !.traded = @ + 1,
                 !.st = "BREAKOUT", !.sig = "ENTRY"]

Enter(e, k, dir, ob, level) ==
  LET stop == StructuralStop(k, dir, ob, level) IN
  IF AbsDiff(k.c, stop) = 0 \/ AbsDiff(k.c, stop) > StopMaxDist THEN e
  ELSE [e EXCEPT !.pos = [dir |-> dir, stop |-> stop], !.traded = @ + 1,
                 !.st = "BREAKOUT", !.sig = "ENTRY"]

(* _confluence and _resolve_poi: the mandatory point of interest is looked  *)
(* up last, because looking up a block consumes it.                         *)
Poi(e, k, dir, v) == IF v.poc THEN NoBlock ELSE ObPoi(e, k, dir)

Confluence(e, k, dir, v) ==
  LET ob == Poi(e, k, dir, v) IN
  IF NonPoi(v) + 1 < MinConfluences \/ (~v.poc /\ ob = NoBlock) THEN e
  ELSE Enter(Consume(e, ob), k, dir, ob, v.swept)

MutOnDecision(e, k, v) ==
  LET dir == Bias(e) IN
  IF dir = "none" THEN [e EXCEPT !.st = "IDLE"]
  ELSE LET armed == [e EXCEPT !.st = "RANGE_DEFINED"] IN
       IF e.traded >= MaxTradesPerDay THEN armed ELSE Confluence(armed, k, dir, v)

(* _on_decision: a completed M15 candle. *)
OnDecision(e, k, v) ==
  LET dir == Bias(e) IN
  IF e.pos # Flat THEN e
  ELSE IF dir = "none" THEN [e EXCEPT !.st = "IDLE"]
  ELSE LET armed == [e EXCEPT !.st = "RANGE_DEFINED"] IN
       IF e.traded >= MaxTradesPerDay THEN armed ELSE Confluence(armed, k, dir, v)

(* Without a bias or over the day's cap candle and checks are not read. *)
Judges(e) == Bias(e) # "none" /\ e.traded < MaxTradesPerDay

Readings(e) ==
  LET all == {r \in [k : Candles, v : Verdicts] : Swept(r.k, Bias(e), r.v.swept)}
  IN IF Judges(e) THEN all ELSE {CHOOSE r \in all : TRUE}

-----------------------------------------------------------------------------
InitEng ==
  [st |-> "IDLE", pos |-> Flat, traded |-> 0, day |-> NoDay,
   last |-> [d |-> 0, m |-> 0], trend |-> [tf \in Timeframes |-> "none"],
   blocks |-> {}, born |-> 0, sig |-> "none"]

Init ==
  /\ eng = InitEng
  /\ basis = NoBasis
  /\ entered = [d \in 0 .. MaxDay |-> 0]
  /\ backed = [i \in 1 .. MaxBorn |-> 0]

Minutes(t) == (t.d - eng.last.d) * DayMin + (t.m - eng.last.m)

(* validate and the timestamp check let a bar at t through; within bounds.  *)
Accepted(t) ==
  IF eng.day = NoDay THEN t.d = 0 ELSE Minutes(t) > 0 /\ Minutes(t) <= MaxJump

(* Steps 1 to 4 of on_candle up to the M15 aggregator: the engines that the *)
(* day's rollover, then D1, then H4 can lead to.                            *)
Updates(t) ==
  LET rolled == RollDay(eng, t)
      daily == {HtfUpdate(rolled, "D1", h) :
                  h \in HtfUpdates(rolled, "D1", Completes(eng, t, DayMin))}
  IN UNION {{HtfUpdate(e, "H4", h) :
               h \in HtfUpdates(e, "H4", Completes(eng, t, HtfMin))} : e \in daily}

(* A bar inside the M15 bucket: no decision. *)
OnBar(t) ==
  /\ Accepted(t) /\ ~Completes(eng, t, TriggerMin)
  /\ eng' \in Updates(t)
  /\ basis' = NoBasis
  /\ UNCHANGED <<entered, backed>>

(* The M15 candle k completes: the decision, and the history of entries. *)
Decide(e, k, v) ==
  LET ob == Poi(e, k, Bias(e), v) IN
  /\ eng' = OnDecision(e, k, v)
  /\ IF eng'.sig = "ENTRY"
     THEN /\ basis' = [h |-> k.h, l |-> k.l, c |-> k.c,
                       block |-> [x \in DOMAIN NoBlock |-> ob[x]]]
          /\ entered' = [entered EXCEPT ![e.day] = @ + 1]
          /\ backed' = IF ob = NoBlock THEN backed
                       ELSE [backed EXCEPT ![ob.id] = @ + 1]
     ELSE basis' = NoBasis /\ UNCHANGED <<entered, backed>>

(* The first bar of a new M15 bucket. *)
OnTriggerBar(t) ==
  /\ Accepted(t) /\ Completes(eng, t, TriggerMin)
  /\ \E e \in Updates(t) : \E r \in Readings(e) : Decide(e, r.k, r.v)

(* A late, repeated or malformed bar is dropped or raises. *)
RejectCandle ==
  /\ eng.day # NoDay
  /\ eng' = [eng EXCEPT !.sig = "none"] /\ basis' = NoBasis
  /\ UNCHANGED <<entered, backed>>

(* force_flat: the broker closed the position; re-arm whatever the bias. *)
ForceFlat ==
  /\ eng.pos # Flat
  /\ eng' = [eng EXCEPT !.pos = Flat, !.st = "RANGE_DEFINED", !.sig = "EXIT"]
  /\ basis' = NoBasis
  /\ UNCHANGED <<entered, backed>>

Timeline == [d : 0 .. MaxDay, m : 0 .. DayMin - 1]

NextCandle == \E t \in Timeline : OnBar(t) \/ OnTriggerBar(t)

Next == NextCandle \/ RejectCandle \/ ForceFlat

Spec == Init /\ [][Next]_vars

-----------------------------------------------------------------------------
Block == [tf : Timeframes, dir : Directions, id : 1 .. MaxBorn,
          bottom : Edges, top : Edges, mitigated : BOOLEAN]

Engine ==
  [st : {"IDLE", "RANGE_DEFINED", "BREAKOUT"},
   pos : [dir : Directions \cup {"none"}, stop : Int],
   traded : Nat, day : 0 .. MaxDay \cup {NoDay}, last : Timeline,
   trend : [Timeframes -> Directions \cup {"none"}],
   blocks : SUBSET Block, born : 0 .. MaxBorn, sig : {"none", "ENTRY", "EXIT"}]

TypeOK ==
  /\ eng \in Engine
  /\ entered \in [0 .. MaxDay -> Nat] /\ backed \in [1 .. MaxBorn -> Nat]

(* Every entry follows the higher timeframes as they stand on its own bar   *)
(* (never against H4 or D1, even when both turn on that very bar), and its  *)
(* stop lies beyond the wick of the decision candle and beyond the block    *)
(* that backs it, at a distance of at most stop_max_dist (_enter).          *)
SoundEntry ==
  eng.sig = "ENTRY" =>
    LET p == eng.pos IN
    /\ p.dir = eng.trend["H4"] /\ eng.trend["D1"] \in {"none", p.dir}
    /\ AbsDiff(basis.c, p.stop) <= StopMaxDist
    /\ IF p.dir = "LONG"
       THEN p.stop < basis.l /\ (basis.block # NoBlock => p.stop < basis.block.bottom)
       ELSE p.stop > basis.h /\ (basis.block # NoBlock => p.stop > basis.block.top)

(* However often positions are closed by the broker and the engine re-armed *)
(* (force_flat), no calendar day sees more than max_trades_per_day entries, *)
(* and an order block backs at most one entry in its life: poi_at consumes  *)
(* it, and no later candle of its timeframe revives it.                     *)
EntryLimits ==
  /\ TypeOK
  /\ \A d \in DOMAIN entered : entered[d] <= MaxTradesPerDay
  /\ \A i \in DOMAIN backed : backed[i] <= 1

(* The engine keeps the contract the live loop is written against: it never *)
(* enters over a position, never touches a stop, and leaves a position only *)
(* with an EXIT.                                                            *)
Contract == INSTANCE EngineContract
              WITH Stops <- Int, cpos <- eng.pos, csig <- eng.sig
ImplementsContract == Contract!CSpec
=============================================================================
