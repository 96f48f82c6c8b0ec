--------------------------- MODULE SmcEngineProofs ---------------------------
(***************************************************************************)
(* Proofs about the Smart-Money-Concepts engine, for all timeframes, caps  *)
(* and prices SmcConfig accepts, any silences and any number of blocks.    *)
(*                                                                         *)
(* The caps are not inductive alone.  The engine counts trades in a field  *)
(* it clears when a bar's date changes; that the field is the count of the *)
(* day needs time to run forward (DayCount).  A block backs one entry      *)
(* since it is consumed, and never returns: a block that is not mitigated  *)
(* has backed none, and no number beyond the last one given is in use      *)
(* (Unspent).                                                              *)
(***************************************************************************)
EXTENDS SmcEngine, WellFoundedInduction, TLAPS

Counts == [1 .. MaxBorn -> Nat]

(* A position is none, or one with a direction. *)
PosOK(e) == e.pos = Flat \/ e.pos.dir \in Directions

(* The numbers of blocks, and what bk says they have backed. *)
Unspent(e, bk) ==
  /\ \A b \in e.blocks : b.id <= e.born /\ (~b.mitigated => bk[b.id] = 0)
  /\ \A i \in 1 .. MaxBorn : i > e.born => bk[i] = 0

(* The field "traded" counts the entries of the engine's day, and there are *)
(* none on later days. *)
DayCount(e, n) ==
  /\ e.day = NoDay => e.traded = 0
  /\ e.day # NoDay => e.day = e.last.d /\ n[e.day] = e.traded
  /\ \A d \in 0 .. MaxDay : d > e.day => n[d] = 0

Inv ==
  /\ TypeOK /\ PosOK(eng)
  /\ Unspent(eng, backed) /\ DayCount(eng, entered)
  /\ \A i \in 1 .. MaxBorn : backed[i] <= 1
  /\ \A d \in 0 .. MaxDay : entered[d] <= MaxTradesPerDay

(* What a step of on_candle before the decision leaves alone. *)
SameTrade(e, f) ==
  /\ f.pos = e.pos /\ f.traded = e.traded /\ f.day = e.day
  /\ f.last = e.last /\ f.st = e.st /\ f.sig = e.sig

(* The constants, as the provers need them. *)
LEMMA Constants ==
  /\ MaxBorn \in Nat /\ MaxDay \in Nat /\ MaxJump \in Nat /\ DayMin \in Nat
  /\ MaxTradesPerDay \in Nat /\ StopBuffer \in Nat /\ StopBuffer > 0
  /\ StopMaxDist \in Nat
  /\ Prices \subseteq Nat /\ Edges \subseteq Nat
  /\ \A p \in Prices : p \in Int /\ p > 0
  /\ \A p \in Edges : p \in Int /\ p > 0
BY SmcAssumption DEF TimeframesValid, StopsValid

(* A bounded set of numbers has a greatest element.                         *)
LEMMA GreatestExists ==
  ASSUME NEW S \in SUBSET Nat, S # {}, NEW b \in Nat, \A m \in S : m <= b
  PROVE  \E n \in S : \A m \in S : m <= n
<1> DEFINE T == {n \in Nat : \A m \in S : m <= n}
<1>1. PICK t \in T : \A y \in T : ~(<<y, t>> \in OpToRel(<, Nat))
  <2>1. T \subseteq Nat /\ T # {}
    OBVIOUS
  <2>2. QED
    BY <2>1, NatLessThanWellFounded, WFMin
<1>2. \A y \in T : ~(y < t)
  BY <1>1 DEF OpToRel
<1>3. t \in Nat /\ \A m \in S : m \in Nat /\ m <= t
  OBVIOUS
<1>4. ASSUME t \notin S PROVE FALSE
  <2>1. PICK s \in S : TRUE
    OBVIOUS
  <2>2. \A m \in S : m <= t - 1
    <3> HIDE DEF T
    <3>1. QED
      BY <1>3, <1>4
  <2>3. t - 1 \in Nat
    <3> HIDE DEF T
    <3>1. QED
      BY <1>3, <2>1, <2>2
  <2>4. t - 1 \in T
    BY <2>2, <2>3
  <2>5. QED
    BY <1>2, <1>3, <2>4
<1>5. QED
  BY <1>3, <1>4

(* The newest block of a register is one of its blocks (poi_at).            *)
LEMMA NewestIs ==
  ASSUME NEW reg \in SUBSET Block, reg # {}
  PROVE  Newest(reg) \in reg
<1> DEFINE S == {b.id : b \in reg}
<1>1. \A b \in reg : b.id \in Nat /\ b.id <= MaxBorn
  BY Constants DEF Block
<1>2. S \in SUBSET Nat /\ S # {} /\ \A m \in S : m <= MaxBorn
  BY <1>1
<1>3. PICK n \in S : \A m \in S : m <= n
  BY <1>2, GreatestExists, Constants
<1>4. \E b \in reg : \A o \in reg : o.id <= b.id
  BY <1>3
<1>5. QED
  BY <1>4, Zenon DEF Newest

(* Time and the day's rollover: the counter is cleared exactly when the     *)
(* date changes, so it counts the entries of the new day.                   *)
LEMMA RollDayOK ==
  ASSUME NEW e \in Engine, NEW t \in Timeline, PosOK(e),
         NEW bk \in Counts, Unspent(e, bk),
         NEW n \in [0 .. MaxDay -> Nat], DayCount(e, n),
         e.day # NoDay => t.d >= e.last.d
  PROVE  LET f == RollDay(e, t) IN
         /\ f \in Engine /\ f.pos = e.pos /\ f.sig = "none" /\ f.day = t.d
         /\ f.day # NoDay /\ Unspent(f, bk) /\ DayCount(f, n)
<1> DEFINE f == RollDay(e, t)
<1>1. t.d \in 0 .. MaxDay /\ t.d # NoDay
  BY DEF Timeline, NoDay
<1>2. /\ f.last = t /\ f.sig = "none" /\ f.day = t.d /\ f.pos = e.pos
      /\ f.traded = (IF t.d # e.day THEN 0 ELSE e.traded)
      /\ f.blocks = e.blocks /\ f.born = e.born
  BY DEF RollDay, Engine
<1>3. f \in Engine
  BY <1>1 DEF RollDay, Engine
<1>4. Unspent(f, bk)
  BY <1>2 DEF Unspent
<1>5. DayCount(f, n)
  <2>1. e.day \in 0 .. MaxDay \cup {NoDay}
    BY DEF Engine
  <2>2. CASE e.day = NoDay
    BY <1>1, <1>2, <2>2, Constants DEF DayCount, NoDay
  <2>3. CASE e.day # NoDay
    BY <1>1, <1>2, <2>1, <2>3, Constants DEF DayCount, NoDay
  <2>4. QED
    BY <2>2, <2>3
<1>6. QED
  BY <1>1, <1>2, <1>3, <1>4, <1>5

(* A higher timeframe changes the trend and the blocks only, and no block   *)
(* that backed an entry is offered again: blocks are dropped, marked, or    *)
(* new under a number never used.                                           *)
LEMMA HtfUpdateOK ==
  ASSUME NEW e \in Engine, NEW tf \in Timeframes, NEW c \in BOOLEAN,
         NEW h \in HtfUpdates(e, tf, c), NEW bk \in Counts, Unspent(e, bk)
  PROVE  LET f == HtfUpdate(e, tf, h) IN
         f \in Engine /\ SameTrade(e, f) /\ Unspent(f, bk)
<1> DEFINE f == HtfUpdate(e, tf, h)
<1> DEFINE aged == Aged(e.blocks, h.gone, h.touched)
<1>1. /\ h.event \in Directions \cup {"none"}
      /\ h.zone \in Zones \cup {NoZone}
      /\ h.zone # NoZone => h.event \in Directions /\ e.born < MaxBorn
  BY DEF HtfUpdates, Quiet
<1>2. e.blocks \in SUBSET Block /\ e.born \in 0 .. MaxBorn
  BY DEF Engine
<1>3. /\ aged \in SUBSET Block
      /\ \A b \in aged : \E o \in e.blocks : o.id = b.id /\ (o.mitigated => b.mitigated)
  <2> DEFINE Mark(b) == [b EXCEPT !.mitigated = @ \/ b \in h.touched]
  <2>1. \A b \in e.blocks :
          Mark(b) \in Block /\ Mark(b).id = b.id /\ (b.mitigated => Mark(b).mitigated)
    BY <1>2 DEF Block
  <2>2. aged = {Mark(b) : b \in e.blocks \ h.gone}
    BY DEF Aged
  <2> HIDE DEF Mark, aged
  <2>3. QED
    BY <2>1, <2>2
<1>4. \A b \in aged : b.id <= e.born /\ (~b.mitigated => bk[b.id] = 0)
  BY <1>3 DEF Unspent
<1>5. [e.trend EXCEPT ![tf] = IF h.event = "none" THEN e.trend[tf] ELSE h.event]
        \in [Timeframes -> Directions \cup {"none"}]
  BY <1>1 DEF Engine
<1>6. CASE h.zone = NoZone
  <2>1. f.blocks = aged /\ f.born = e.born /\ SameTrade(e, f)
    BY <1>6 DEF HtfUpdate, SameTrade, Engine
  <2>2. f \in Engine
    BY <1>3, <1>5, <1>6 DEF HtfUpdate, Engine
  <2>3. Unspent(f, bk)
    BY <1>4, <2>1 DEF Unspent
  <2>4. QED
    BY <2>1, <2>2, <2>3
<1>7. CASE h.zone # NoZone
  <2> DEFINE new == [tf |-> tf, dir |-> h.event, id |-> e.born + 1,
                     bottom |-> h.zone.bottom, top |-> h.zone.top,
                     mitigated |-> FALSE]
  <2> DEFINE made == Promote(aged, tf, h.event, e.born + 1, h.zone)
  <2>1. e.born + 1 \in 1 .. MaxBorn /\ e.born \in Nat
    BY <1>1, <1>2, <1>7, Constants
  <2>2. new \in Block
    BY <1>1, <1>7, <2>1, Constants DEF Block, Zones
  <2>3. made \subseteq aged \cup {new}
    BY DEF Promote, Evicted, Register
  <2>4. f.blocks = made /\ f.born = e.born + 1 /\ SameTrade(e, f)
    BY <1>7 DEF HtfUpdate, SameTrade, Engine
  <2>5. made \in SUBSET Block
    BY <1>3, <2>2, <2>3
  <2>6. f \in Engine
    <3> DEFINE trend == [e.trend EXCEPT ![tf] = IF h.event = "none" THEN e.trend[tf]
                                                ELSE h.event]
    <3>1. f = [e EXCEPT !.trend = trend, !.blocks = made, !.born = e.born + 1]
      BY <1>7 DEF HtfUpdate
    <3>2. e.born + 1 \in 0 .. MaxBorn
      BY <2>1, Constants
    <3> HIDE DEF trend, made, f
    <3>3. trend \in [Timeframes -> Directions \cup {"none"}]
      BY <1>5 DEF trend
    <3>4. QED
      BY <2>5, <3>1, <3>2, <3>3 DEF Engine
  <2>7. Unspent(f, bk)
    <3>1. bk[e.born + 1] = 0
      BY <2>1 DEF Unspent
    <3>2. \A b \in made : b.id <= e.born + 1 /\ (~b.mitigated => bk[b.id] = 0)
      <4>1. TAKE b \in made
      <4>2. CASE b \in aged
        BY <1>2, <1>3, <1>4, <2>1, <4>2, Constants DEF Block
      <4>3. CASE b = new
        BY <2>1, <3>1, <4>3
      <4>4. QED
        BY <2>3, <4>2, <4>3
    <3>3. \A i \in 1 .. MaxBorn : i > e.born + 1 => bk[i] = 0
      BY <2>1, Constants DEF Unspent
    <3>4. QED
      BY <2>4, <3>2, <3>3 DEF Unspent
  <2>8. QED
    BY <2>4, <2>6, <2>7
<1>8. QED
  BY <1>6, <1>7

(* A bar the engine accepts is not of an earlier date than the one before.  *)
LEMMA TimeForward ==
  ASSUME NEW t \in Timeline, eng \in Engine, Accepted(t), eng.day # NoDay
  PROVE  t.d >= eng.last.d
<1>1. /\ t.d \in Nat /\ eng.last.d \in Nat /\ t.m \in Nat /\ eng.last.m \in Nat
      /\ t.m < DayMin
  BY Constants DEF Timeline, Engine
<1>2. (t.d - eng.last.d) * DayMin + (t.m - eng.last.m) > 0
  BY DEF Accepted, Minutes
<1>3. ASSUME t.d < eng.last.d PROVE FALSE
  <2> DEFINE j == eng.last.d - t.d - 1
  <2>1. j \in Nat
    BY <1>1, <1>3
  <2>2. j * DayMin \in Nat
    BY <2>1, Constants
  <2>3. (t.d - eng.last.d) * DayMin = - (j * DayMin) - DayMin
    BY <1>1, Constants
  <2>4. QED
    BY <1>1, <1>2, <2>2, <2>3, Constants
<1>4. QED
  BY <1>1, <1>3

(* The engine that reaches the decision of a bar: the day has rolled over,  *)
(* both timeframes are up to date, and the trade is as before.              *)
LEMMA UpdatesOK ==
  ASSUME Inv, NEW t \in Timeline, Accepted(t), NEW e \in Updates(t)
  PROVE  /\ e \in Engine /\ e.pos = eng.pos /\ e.sig = "none" /\ e.day = t.d
         /\ e.day # NoDay /\ Unspent(e, backed) /\ DayCount(e, entered)
<1> DEFINE rolled == RollDay(eng, t)
<1>1. /\ eng \in Engine /\ PosOK(eng) /\ Unspent(eng, backed)
      /\ DayCount(eng, entered) /\ entered \in [0 .. MaxDay -> Nat]
      /\ backed \in Counts
  BY DEF Inv, TypeOK, Counts
<1>2. eng.day # NoDay => t.d >= eng.last.d
  BY <1>1, TimeForward
<1>3. /\ rolled \in Engine /\ rolled.pos = eng.pos /\ rolled.sig = "none"
      /\ rolled.day = t.d /\ rolled.day # NoDay
      /\ Unspent(rolled, backed) /\ DayCount(rolled, entered)
  BY <1>1, <1>2, RollDayOK
<1> HIDE DEF rolled
<1>4. PICK h \in HtfUpdates(rolled, "D1", Completes(eng, t, DayMin)) :
        LET d == HtfUpdate(rolled, "D1", h) IN
        \E g \in HtfUpdates(d, "H4", Completes(eng, t, HtfMin)) :
          e = HtfUpdate(d, "H4", g)
  BY DEF Updates, rolled
<1> DEFINE d == HtfUpdate(rolled, "D1", h)
<1>5. Completes(eng, t, DayMin) \in BOOLEAN /\ Completes(eng, t, HtfMin) \in BOOLEAN
  BY DEF Completes
<1>6. d \in Engine /\ SameTrade(rolled, d) /\ Unspent(d, backed)
  BY <1>1, <1>3, <1>4, <1>5, HtfUpdateOK DEF Timeframes
<1> HIDE DEF d
<1>7. PICK g \in HtfUpdates(d, "H4", Completes(eng, t, HtfMin)) : e = HtfUpdate(d, "H4", g)
  BY <1>4 DEF d
<1>8. e \in Engine /\ SameTrade(d, e) /\ Unspent(e, backed)
  BY <1>1, <1>5, <1>6, <1>7, HtfUpdateOK DEF Timeframes
<1>9. DayCount(e, entered)
  BY <1>3, <1>6, <1>8 DEF SameTrade, DayCount
<1>10. QED
  BY <1>3, <1>6, <1>8, <1>9 DEF SameTrade

(* Consuming a block marks it, and every other one under its number.        *)
LEMMA ConsumeOK ==
  ASSUME NEW e \in Engine, NEW bk \in Counts, Unspent(e, bk), NEW ob
  PROVE  LET f == Consume(e, ob) IN
         /\ f \in Engine /\ SameTrade(e, f) /\ f.trend = e.trend /\ f.born = e.born
         /\ Unspent(f, bk)
         /\ \A b \in f.blocks : b.id = ob.id => b.mitigated
<1> DEFINE Mark(b) == [b EXCEPT !.mitigated = @ \/ b.id = ob.id]
<1> DEFINE marked == {Mark(b) : b \in e.blocks}
<1> DEFINE f == Consume(e, ob)
<1>1. \A b \in e.blocks :
        /\ Mark(b) \in Block /\ Mark(b).id = b.id
        /\ b.mitigated => Mark(b).mitigated
        /\ b.id = ob.id => Mark(b).mitigated
  <2>1. TAKE b \in e.blocks
  <2>2. b \in Block
    BY DEF Engine
  <2> DEFINE spent == b.mitigated \/ b.id = ob.id
  <2>3. spent \in BOOLEAN /\ Mark(b) = [b EXCEPT !.mitigated = spent]
    OBVIOUS
  <2>4. (b.mitigated => spent) /\ (b.id = ob.id => spent)
    OBVIOUS
  <2> HIDE DEF spent, Mark
  <2>5. Mark(b) \in Block /\ Mark(b).id = b.id /\ Mark(b).mitigated = spent
    BY <2>2, <2>3 DEF Block
  <2>6. QED
    BY <2>4, <2>5
<1>2. f = [e EXCEPT !.blocks = marked]
  BY DEF Consume
<1>3. \A x \in marked : \E b \in e.blocks : x = Mark(b)
  OBVIOUS
<1> HIDE DEF Mark, f
<1>4. marked \in SUBSET Block
  BY <1>1, <1>3
<1> HIDE DEF marked
<1>5. /\ f \in Engine /\ f.blocks = marked /\ SameTrade(e, f)
      /\ f.trend = e.trend /\ f.born = e.born
  BY <1>2, <1>4 DEF Engine, SameTrade
<1>6. \A b \in marked : b.id <= e.born /\ (~b.mitigated => bk[b.id] = 0)
  BY <1>1, <1>3 DEF Unspent
<1>7. \A b \in marked : b.id = ob.id => b.mitigated
  BY <1>1, <1>3
<1>8. Unspent(f, bk)
  BY <1>5, <1>6 DEF Unspent
<1>9. QED
  BY <1>5, <1>7, <1>8 DEF f

(* The block that backs a decision is one the engine holds, never used.     *)
LEMMA PoiIs ==
  ASSUME NEW e \in Engine, NEW k, NEW dir, NEW v
  PROVE  LET ob == Poi(e, k, dir, v) IN
         ob = NoBlock \/ (ob \in e.blocks /\ ~ob.mitigated)
<1>1. \A tf \in Timeframes :
        LET found == Pois(e, k, dir, tf) IN
        found # {} => Newest(found) \in e.blocks /\ ~Newest(found).mitigated
  <2>1. TAKE tf \in Timeframes
  <2> DEFINE found == Pois(e, k, dir, tf)
  <2>2. \A b \in found : b \in e.blocks /\ ~b.mitigated
    BY DEF Pois, Register
  <2>3. e.blocks \in SUBSET Block
    BY DEF Engine
  <2> HIDE DEF found
  <2>4. found # {} => Newest(found) \in found
    BY <2>2, <2>3, NewestIs
  <2>5. QED
    BY <2>2, <2>4 DEF found
<1>2. QED
  BY <1>1 DEF Poi, ObPoi, Timeframes

(* The structural stop lies beyond the wick and beyond the block.           *)
LEMMA StopBeyond ==
  ASSUME NEW k \in Candles, NEW dir \in Directions,
         NEW ob, ob = NoBlock \/ ob \in Block, NEW level \in Prices \cup {NoLevel}
  PROVE  LET stop == StructuralStop(k, dir, ob, level) IN
         /\ stop \in Int
         /\ dir = "LONG" => stop < k.l /\ (ob # NoBlock => stop < ob.bottom)
         /\ dir = "SHORT" => stop > k.h /\ (ob # NoBlock => stop > ob.top)
<1>1. k.l \in Int /\ k.h \in Int /\ level \in Int
  <2>1. k \in [h : Prices, l : Prices, c : Prices]
    BY DEF Candles
  <2>2. k.l \in Prices /\ k.h \in Prices
    BY <2>1
  <2>3. \A p \in Prices : p \in Int
    BY Constants
  <2>4. level \in Int
    BY <2>3 DEF NoLevel
  <2>5. QED
    BY <2>2, <2>3, <2>4
<1>b. /\ ob.bottom \in Int /\ ob.top \in Int
      /\ ob # NoBlock => ob.bottom # 0
  <2>1. CASE ob = NoBlock
    BY <2>1 DEF NoBlock
  <2>2. CASE ob \in Block
    <3>1. ob.bottom \in Edges /\ ob.top \in Edges
      BY <2>2 DEF Block
    <3>2. ob.bottom \in Int /\ ob.top \in Int /\ ob.bottom > 0
      <4> DEFINE x == ob.bottom
      <4> DEFINE y == ob.top
      <4>1. x \in Edges /\ y \in Edges
        BY <3>1
      <4> HIDE DEF x, y
      <4>2. x \in Int /\ y \in Int /\ x > 0
        BY <4>1, Constants
      <4>3. QED
        BY <4>2 DEF x, y
    <3>3. QED
      BY <3>2
  <2>3. QED
    BY <2>1, <2>2
<1>2. CASE dir = "LONG"
  <2> DEFINE S == {k.l} \cup {x \in {ob.bottom, level} : x # 0}
  <2>1. \E x \in S : \A y \in S : x <= y
    BY <1>1, <1>b
  <2>2. Min(S) \in S /\ \A y \in S : Min(S) <= y
    BY <2>1, Zenon DEF Min
  <2>3. k.l \in S /\ (ob # NoBlock => ob.bottom \in S) /\ S \subseteq Int
    BY <1>1, <1>b
  <2>4. StructuralStop(k, dir, ob, level) = Min(S) - StopBuffer
    BY <1>2 DEF StructuralStop
  <2> HIDE DEF S
  <2> DEFINE m == Min(S)
  <2>5. m \in Int /\ m <= k.l /\ (ob # NoBlock => m <= ob.bottom)
    BY <2>2, <2>3
  <2> HIDE DEF m
  <2>6. /\ m - StopBuffer \in Int /\ m - StopBuffer < k.l
        /\ ob # NoBlock => m - StopBuffer < ob.bottom
    BY <1>1, <1>b, <2>5, Constants
  <2>7. dir # "SHORT"
    BY <1>2
  <2>8. QED
    BY <2>4, <2>6, <2>7, Zenon DEF m
<1>3. CASE dir = "SHORT"
  <2> DEFINE S == {k.h, ob.top, level}
  <2>1. \E x \in S : \A y \in S : x >= y
    BY <1>1, <1>b
  <2>2. Max(S) \in S /\ \A y \in S : Max(S) >= y
    BY <2>1, Zenon DEF Max
  <2>3. k.h \in S /\ ob.top \in S /\ S \subseteq Int
    BY <1>1, <1>b
  <2>4. StructuralStop(k, dir, ob, level) = Max(S) + StopBuffer
    BY <1>3 DEF StructuralStop
  <2> HIDE DEF S
  <2> DEFINE m == Max(S)
  <2>5. m \in Int /\ m >= k.h /\ (ob # NoBlock => m >= ob.top)
    BY <2>2, <2>3
  <2> HIDE DEF m
  <2>6. /\ m + StopBuffer \in Int /\ m + StopBuffer > k.h
        /\ ob # NoBlock => m + StopBuffer > ob.top
    BY <1>1, <1>b, <2>5, Constants
  <2>7. dir # "LONG"
    BY <1>3
  <2>8. QED
    BY <2>4, <2>6, <2>7, Zenon DEF m
<1>4. QED
  BY <1>2, <1>3 DEF Directions

(* _enter: nothing happens, or a position is opened with its stop beyond    *)
(* the structure, at most stop_max_dist from the close.                     *)
LEMMA EnterOK ==
  ASSUME NEW e \in Engine, NEW k \in Candles, NEW dir \in Directions,
         NEW ob, ob = NoBlock \/ ob \in Block, NEW level \in Prices \cup {NoLevel}
  PROVE  LET f == Enter(e, k, dir, ob, level)
             stop == StructuralStop(k, dir, ob, level)
         IN \/ f = e
            \/ /\ f \in Engine /\ f.pos = [dir |-> dir, stop |-> stop]
               /\ f.traded = e.traded + 1 /\ f.sig = "ENTRY" /\ f.day = e.day
               /\ f.last = e.last /\ f.trend = e.trend /\ f.blocks = e.blocks
               /\ f.born = e.born /\ AbsDiff(k.c, stop) <= StopMaxDist
<1> DEFINE f == Enter(e, k, dir, ob, level)
<1> DEFINE stop == StructuralStop(k, dir, ob, level)
<1>1. stop \in Int /\ k.c \in Int
  <2>1. k.c \in Prices
    BY DEF Candles
  <2>2. QED
    BY <2>1, StopBeyond, Constants
<1>2. AbsDiff(k.c, stop) \in Int
  BY <1>1 DEF AbsDiff
<1> DEFINE dist == AbsDiff(k.c, stop)
<1>3. CASE dist = 0 \/ dist > StopMaxDist
  BY <1>3 DEF Enter
<1>4. CASE ~(dist = 0 \/ dist > StopMaxDist)
  <2> DEFINE pos == [dir |-> dir, stop |-> stop]
  <2> DEFINE n == e.traded + 1
  <2>1. f = [e EXCEPT !.pos = pos, !.traded = n, !.st = "BREAKOUT", !.sig = "ENTRY"]
    BY <1>4 DEF Enter
  <2>n. n \in Nat
    BY DEF Engine
  <2>2. pos \in [dir : Directions \cup {"none"}, stop : Int]
    BY <1>1
  <2>3. dist <= StopMaxDist
    BY <1>2, <1>4, Constants
  <2> HIDE DEF f, pos, dist, n
  <2>4. /\ f \in Engine /\ f.pos = pos /\ f.traded = n /\ f.sig = "ENTRY"
        /\ f.day = e.day /\ f.last = e.last /\ f.trend = e.trend
        /\ f.blocks = e.blocks /\ f.born = e.born
    BY <2>1, <2>2, <2>n DEF Engine
  <2>5. QED
    BY <2>3, <2>4 DEF f, pos, dist, n
<1>5. QED
  BY <1>3, <1>4

(* What a decision leads to, on which block ob: either the trade stays as   *)
(* it is, or an entry that agrees with the trends and has a sound stop.     *)
NoEntry(e, f) ==
  /\ f.sig = "none" /\ f.pos = e.pos /\ f.traded = e.traded

Entered(e, f, k, ob) ==
  /\ f.sig = "ENTRY" /\ e.pos = Flat
  /\ f.traded = e.traded + 1 /\ e.traded < MaxTradesPerDay
  /\ f.pos.dir \in Directions /\ f.pos.dir = e.trend["H4"]
  /\ e.trend["D1"] \in {"none", f.pos.dir}
  /\ AbsDiff(k.c, f.pos.stop) <= StopMaxDist
  /\ f.pos.dir = "LONG" =>
       f.pos.stop < k.l /\ (ob # NoBlock => f.pos.stop < ob.bottom)
  /\ f.pos.dir = "SHORT" =>
       f.pos.stop > k.h /\ (ob # NoBlock => f.pos.stop > ob.top)
  /\ ob = NoBlock \/ (ob \in e.blocks /\ ~ob.mitigated)
  /\ \A b \in f.blocks : b.id = ob.id => b.mitigated

(* on_decision leaves an entry that obeys its contract, or none.            *)
LEMMA OnDecisionOK ==
  ASSUME NEW e \in Engine, e.sig = "none", NEW bk \in Counts, Unspent(e, bk),
         NEW r \in Readings(e)
  PROVE  LET f == OnDecision(e, r.k, r.v)
             ob == Poi(e, r.k, Bias(e), r.v)
         IN /\ f \in Engine /\ f.day = e.day /\ f.last = e.last
            /\ f.trend = e.trend /\ f.born = e.born /\ Unspent(f, bk)
            /\ NoEntry(e, f) \/ Entered(e, f, r.k, ob)
<1> DEFINE f == OnDecision(e, r.k, r.v)
<1> DEFINE dir == Bias(e)
<1> DEFINE ob == Poi(e, r.k, dir, r.v)
<1> DEFINE armed == [e EXCEPT !.st = "RANGE_DEFINED"]
<1>1. CASE e.pos # Flat
  BY <1>1 DEF OnDecision, NoEntry
<1>2. CASE e.pos = Flat /\ dir = "none"
  <2>1. f = [e EXCEPT !.st = "IDLE"]
    BY <1>2 DEF OnDecision
  <2> HIDE DEF f
  <2>2. /\ f \in Engine /\ f.day = e.day /\ f.last = e.last /\ f.sig = e.sig
        /\ f.pos = e.pos /\ f.traded = e.traded /\ f.blocks = e.blocks
        /\ f.trend = e.trend /\ f.born = e.born
    BY <2>1 DEF Engine
  <2>3. Unspent(f, bk)
    BY <2>2 DEF Unspent
  <2>4. QED
    BY <2>2, <2>3 DEF NoEntry, f
<1>3. /\ armed \in Engine /\ armed.day = e.day /\ armed.last = e.last
      /\ armed.sig = e.sig /\ armed.pos = e.pos /\ armed.traded = e.traded
      /\ armed.blocks = e.blocks /\ armed.trend = e.trend /\ armed.born = e.born
  BY DEF Engine
<1>4. Unspent(armed, bk)
  BY <1>3 DEF Unspent
<1>5. CASE e.pos = Flat /\ dir # "none" /\ e.traded >= MaxTradesPerDay
  <2>1. f = armed
    BY <1>5 DEF OnDecision
  <2> HIDE DEF f, armed
  <2>2. QED
    BY <1>3, <1>4, <2>1 DEF NoEntry, f
<1>6. CASE e.pos = Flat /\ dir # "none" /\ ~(e.traded >= MaxTradesPerDay)
  <2>1. f = Confluence(armed, r.k, dir, r.v)
    BY <1>6 DEF OnDecision
  <2>2. e.traded < MaxTradesPerDay
    BY <1>6, Constants DEF Engine
  <2>3. dir \in Directions /\ dir = e.trend["H4"] /\ e.trend["D1"] \in {"none", dir}
    BY <1>6 DEF Bias, Engine, Timeframes
  <2>4. r.k \in Candles /\ r.v.swept \in Prices \cup {NoLevel}
    <3>1. Judges(e)
      BY <1>6, <2>2 DEF Judges
    <3>2. r \in [k : Candles, v : Verdicts]
      BY <3>1 DEF Readings
    <3>3. QED
      BY <3>2 DEF Verdicts
  <2>5. Poi(armed, r.k, dir, r.v) = ob
    BY <1>3 DEF Poi, ObPoi, Pois, Register
  <2>6. ob = NoBlock \/ (ob \in e.blocks /\ ~ob.mitigated)
    BY PoiIs
  <2>7. ob = NoBlock \/ ob \in Block
    BY <2>6 DEF Engine
  <2> DEFINE spent == Consume(armed, ob)
  <2>8. /\ spent \in Engine /\ SameTrade(armed, spent) /\ spent.trend = e.trend
        /\ spent.born = e.born /\ Unspent(spent, bk)
        /\ \A b \in spent.blocks : b.id = ob.id => b.mitigated
    BY <1>3, <1>4, ConsumeOK
  <2>9. f = armed \/ f = Enter(spent, r.k, dir, ob, r.v.swept)
    BY <2>1, <2>5, Zenon DEF Confluence
  <2> DEFINE g == Enter(spent, r.k, dir, ob, r.v.swept)
  <2> HIDE DEF f, armed, dir, ob, spent
  <2>10. CASE f = armed
    BY <1>3, <1>4, <2>10 DEF NoEntry, f
  <2>11. CASE f = g /\ g = spent
    BY <1>3, <2>8, <2>11 DEF NoEntry, SameTrade, f
  <2>12. CASE f = g /\ g # spent
    <3> DEFINE stop == StructuralStop(r.k, dir, ob, r.v.swept)
    <3>1. /\ g \in Engine /\ g.pos = [dir |-> dir, stop |-> stop]
          /\ g.traded = spent.traded + 1 /\ g.sig = "ENTRY" /\ g.day = spent.day
          /\ g.last = spent.last /\ g.trend = spent.trend /\ g.blocks = spent.blocks
          /\ g.born = spent.born /\ AbsDiff(r.k.c, stop) <= StopMaxDist
      BY <2>3, <2>4, <2>7, <2>8, <2>12, EnterOK
    <3>2. /\ stop \in Int
          /\ dir = "LONG" => stop < r.k.l /\ (ob # NoBlock => stop < ob.bottom)
          /\ dir = "SHORT" => stop > r.k.h /\ (ob # NoBlock => stop > ob.top)
      BY <2>3, <2>4, <2>7, StopBeyond
    <3> HIDE DEF g, stop
    <3>3. g.pos.dir = dir /\ g.pos.stop = stop
      BY <3>1
    <3>4. Unspent(g, bk)
      BY <2>8, <3>1 DEF Unspent
    <3>5. /\ g.day = e.day /\ g.last = e.last /\ g.trend = e.trend /\ g.born = e.born
          /\ g.traded = e.traded + 1
      BY <1>3, <2>8, <3>1 DEF SameTrade
    <3>6. Entered(e, g, r.k, ob)
      BY <1>6, <2>2, <2>3, <2>6, <2>8, <3>1, <3>2, <3>3, <3>5 DEF Entered
    <3>7. QED
      BY <2>12, <3>1, <3>4, <3>5, <3>6 DEF f, ob, dir
  <2>13. QED
    BY <2>9, <2>10, <2>11, <2>12 DEF g
<1>7. QED
  BY <1>1, <1>2, <1>5, <1>6

-----------------------------------------------------------------------------
(* A freshly constructed engine.                                            *)
LEMMA InitInv == Init => Inv
<1> SUFFICES ASSUME Init PROVE Inv
  OBVIOUS
<1>1. [d |-> 0, m |-> 0] \in Timeline
  BY SmcAssumption, Constants DEF TimeframesValid, Timeline
<1>2. eng \in Engine
  BY <1>1, Constants DEF Init, InitEng, Engine, Flat, NoDay
<1>3. TypeOK
  BY <1>2, Constants DEF Init, TypeOK
<1>4. PosOK(eng) /\ Unspent(eng, backed)
  BY DEF Init, InitEng, PosOK, Unspent
<1>5. DayCount(eng, entered)
  BY DEF Init, InitEng, DayCount
<1>6. QED
  BY <1>3, <1>4, <1>5, Constants DEF Init, Inv

(* What every step does to position and signal: it is a step of the         *)
(* contract, and an entry is sound.                                         *)
EngStep == Contract!CNext /\ SoundEntry'

(* A step without a signal that keeps the trade is "hold" or "wait" of the  *)
(* contract.                                                                *)
LEMMA Keeps ==
  ASSUME eng \in Engine, PosOK(eng), eng'.pos = eng.pos, eng'.sig = "none"
  PROVE  EngStep
<1>1. CASE eng.pos = Flat
  BY <1>1 DEF EngStep, SoundEntry, Contract!CNext, Contract!Wait, Contract!NoTrade, Flat
<1>2. CASE eng.pos # Flat
  <2>1. eng.pos \in [dir : {"LONG", "SHORT"}, stop : Int]
    BY <1>2 DEF Engine, PosOK, Directions
  <2>2. eng.pos.stop >= eng.pos.stop /\ eng.pos.stop <= eng.pos.stop
    BY <2>1
  <2>3. Contract!Hold
    BY <1>2, <2>1, <2>2 DEF Contract!Hold, Contract!NoLooser, Contract!NoTrade,
                            Contract!Trades, Flat
  <2>4. QED
    BY <2>3 DEF EngStep, SoundEntry, Contract!CNext
<1>3. QED
  BY <1>1, <1>2

(* A bar inside its M15 bucket.                                             *)
LEMMA OnBarStep ==
  ASSUME Inv, NEW t \in Timeline, OnBar(t)
  PROVE  Inv' /\ EngStep
<1>1. /\ eng' \in Engine /\ eng'.pos = eng.pos /\ eng'.sig = "none"
      /\ Unspent(eng', backed) /\ DayCount(eng', entered)
  BY UpdatesOK DEF OnBar
<1>2. EngStep
  BY <1>1, Keeps DEF Inv, TypeOK
<1>3. backed' = backed /\ entered' = entered
  BY DEF OnBar
<1>4. Inv'
  BY <1>1, <1>3 DEF Inv, TypeOK, PosOK
<1>5. QED
  BY <1>2, <1>4

(* The decision on a completed candle: the engine after it is typed, what   *)
(* the histories count stays below the caps, and the entry is sound.        *)
LEMMA DecideStep ==
  ASSUME Inv, NEW t \in Timeline, Accepted(t), NEW e \in Updates(t),
         NEW r \in Readings(e), Decide(e, r.k, r.v)
  PROVE  Inv' /\ EngStep
<1> DEFINE ob == Poi(e, r.k, Bias(e), r.v)
<1>1. /\ e \in Engine /\ e.pos = eng.pos /\ e.sig = "none" /\ e.day \in 0 .. MaxDay
      /\ e.day # NoDay /\ Unspent(e, backed) /\ DayCount(e, entered)
  BY UpdatesOK DEF Timeline
<1>2. /\ eng \in Engine /\ PosOK(eng) /\ backed \in Counts
      /\ entered \in [0 .. MaxDay -> Nat]
  BY DEF Inv, TypeOK, Counts
<1>3. /\ eng' \in Engine /\ eng'.day = e.day /\ eng'.last = e.last
      /\ eng'.trend = e.trend /\ eng'.born = e.born /\ Unspent(eng', backed)
      /\ NoEntry(e, eng') \/ Entered(e, eng', r.k, ob)
  BY <1>1, <1>2, OnDecisionOK DEF Decide
<1> HIDE DEF ob
<1>4. CASE NoEntry(e, eng')
  <2>1. backed' = backed /\ entered' = entered
    BY <1>4 DEF Decide, NoEntry
  <2>2. eng'.pos = eng.pos /\ eng'.sig = "none" /\ eng'.traded = e.traded
    BY <1>1, <1>4 DEF NoEntry
  <2>3. EngStep
    BY <1>2, <2>2, Keeps
  <2>4. DayCount(eng', entered)
    BY <1>1, <1>3, <2>2 DEF DayCount
  <2>5. Inv'
    BY <1>2, <1>3, <2>1, <2>2, <2>4 DEF Inv, TypeOK, PosOK
  <2>6. QED
    BY <2>3, <2>5
<1>5. CASE Entered(e, eng', r.k, ob)
  <2>1. /\ basis' = [h |-> r.k.h, l |-> r.k.l, c |-> r.k.c,
                     block |-> [x \in DOMAIN NoBlock |-> ob[x]]]
        /\ entered' = [entered EXCEPT ![e.day] = @ + 1]
        /\ backed' = IF ob = NoBlock THEN backed
                     ELSE [backed EXCEPT ![ob.id] = @ + 1]
    BY <1>5 DEF Decide, Entered, ob
  <2>2. PosOK(eng)' /\ eng'.pos.dir \in Directions
    BY <1>5 DEF PosOK, Entered
  <2>3. /\ entered' \in [0 .. MaxDay -> Nat] /\ DayCount(eng, entered)'
        /\ \A d \in 0 .. MaxDay : entered'[d] <= MaxTradesPerDay
    <3>1. entered[e.day] = e.traded /\ e.traded \in Nat /\ e.traded < MaxTradesPerDay
      BY <1>1, <1>5 DEF DayCount, Entered, Engine
    <3>2. entered' \in [0 .. MaxDay -> Nat]
      BY <1>1, <1>2, <2>1
    <3>3. entered'[e.day] = e.traded + 1
      BY <1>1, <1>2, <2>1, <3>1
    <3>4. \A d \in 0 .. MaxDay : d # e.day => entered'[d] = entered[d]
      BY <1>1, <1>2, <2>1
    <3>5. \A d \in 0 .. MaxDay : entered[d] <= MaxTradesPerDay
      BY DEF Inv
    <3>6. eng'.traded = e.traded + 1 /\ e.day = e.last.d
      BY <1>1, <1>5 DEF Entered, DayCount
    <3>7. \A d \in 0 .. MaxDay : d > e.day => entered[d] = 0
      BY <1>1 DEF DayCount
    <3>8. \A d \in 0 .. MaxDay : d > e.day => entered'[d] = 0
      BY <1>1, <3>4, <3>7, Constants
    <3>9. DayCount(eng, entered)'
      BY <1>1, <1>3, <3>3, <3>6, <3>8 DEF DayCount
    <3>10. \A d \in 0 .. MaxDay : entered'[d] <= MaxTradesPerDay
      BY <3>1, <3>3, <3>4, <3>5, Constants
    <3>11. QED
      BY <3>2, <3>9, <3>10
  <2>4. /\ backed' \in Counts /\ Unspent(eng, backed)'
        /\ \A i \in 1 .. MaxBorn : backed'[i] <= 1
    <3>1. \A i \in 1 .. MaxBorn : backed[i] <= 1
      BY DEF Inv
    <3>2. CASE ob = NoBlock
      BY <1>2, <1>3, <2>1, <3>1, <3>2 DEF Unspent
    <3>3. CASE ob # NoBlock
      <4>1. /\ ob \in e.blocks /\ ~ob.mitigated
            /\ \A b \in eng'.blocks : b.id = ob.id => b.mitigated
        BY <1>5, <3>3 DEF Entered
      <4>2. ob.id \in 1 .. MaxBorn /\ ob.id <= e.born /\ backed[ob.id] = 0
        BY <1>1, <4>1 DEF Engine, Block, Unspent
      <4> DEFINE n == ob.id
      <4>3. backed' = [backed EXCEPT ![n] = backed[n] + 1]
        BY <2>1, <3>3
      <4>4. backed'[n] = 1 /\ \A i \in 1 .. MaxBorn : i # n => backed'[i] = backed[i]
        BY <1>2, <4>2, <4>3 DEF Counts
      <4>5. backed' \in Counts
        BY <1>2, <4>2, <4>3 DEF Counts
      <4>6. \A i \in 1 .. MaxBorn : backed'[i] <= 1
        BY <3>1, <4>4
      <4>7. \A b \in eng'.blocks :
              b.id <= eng'.born /\ (~b.mitigated => backed'[b.id] = 0)
        <5>1. TAKE b \in eng'.blocks
        <5>2. /\ b.id \in 1 .. MaxBorn /\ b.id <= eng'.born
              /\ ~b.mitigated => backed[b.id] = 0
          BY <1>3 DEF Engine, Block, Unspent
        <5>3. b.id = n => b.mitigated
          BY <4>1
        <5>4. QED
          BY <4>4, <5>2, <5>3
      <4>8. \A i \in 1 .. MaxBorn : i > eng'.born => backed'[i] = 0
        <5>1. TAKE i \in 1 .. MaxBorn
        <5>2. i > e.born => i # n
          BY <1>1, <4>2, Constants DEF Engine
        <5>3. i > e.born => backed[i] = 0
          BY <1>1 DEF Unspent
        <5>4. QED
          BY <1>3, <4>4, <5>2, <5>3
      <4>9. QED
        BY <4>5, <4>6, <4>7, <4>8 DEF Unspent
    <3>4. QED
      BY <3>2, <3>3
  <2>5. Inv'
    BY <1>3, <2>2, <2>3, <2>4 DEF Inv, TypeOK, Counts
  <2>6. SoundEntry'
    <3>1. basis'.block # NoBlock =>
            /\ ob # NoBlock
            /\ basis'.block.bottom = ob.bottom /\ basis'.block.top = ob.top
      <4>1. CASE ob = NoBlock
        BY <2>1, <4>1 DEF NoBlock
      <4>2. CASE ob # NoBlock
        BY <2>1, <4>2 DEF NoBlock
      <4>3. QED
        BY <4>1, <4>2
    <3>2. basis'.c = r.k.c /\ basis'.l = r.k.l /\ basis'.h = r.k.h
      BY <2>1
    <3>3. CASE eng'.pos.dir = "LONG"
      BY <1>3, <1>5, <3>1, <3>2, <3>3 DEF SoundEntry, Entered
    <3>4. CASE eng'.pos.dir = "SHORT"
      BY <1>3, <1>5, <3>1, <3>2, <3>4 DEF SoundEntry, Entered
    <3>5. QED
      BY <2>2, <3>3, <3>4 DEF Directions
  <2>7. Contract!Enter
    <3>1. eng.pos = Flat /\ eng'.sig = "ENTRY"
      BY <1>1, <1>5 DEF Entered
    <3>2. eng'.pos \in [dir : {"LONG", "SHORT"}, stop : Int]
      BY <1>3, <2>2 DEF Engine, Directions
    <3>3. QED
      BY <3>1, <3>2 DEF Contract!Enter, Contract!NoTrade, Contract!Trades, Flat
  <2>8. QED
    BY <2>5, <2>6, <2>7 DEF EngStep, Contract!CNext
<1>6. QED
  BY <1>3, <1>4, <1>5

(* A bar that is dropped.                                                   *)
LEMMA RejectStep ==
  ASSUME Inv, RejectCandle
  PROVE  Inv' /\ EngStep
<1>1. eng \in Engine
  BY DEF Inv, TypeOK
<1>2. /\ eng' \in Engine /\ eng'.pos = eng.pos /\ eng'.sig = "none"
      /\ eng'.blocks = eng.blocks /\ eng'.born = eng.born /\ eng'.day = eng.day
      /\ eng'.traded = eng.traded /\ eng'.last = eng.last
  BY <1>1 DEF RejectCandle, Engine
<1>3. backed' = backed /\ entered' = entered
  BY DEF RejectCandle
<1>4. EngStep
  BY <1>1, <1>2, Keeps DEF Inv
<1>5. Unspent(eng', backed') /\ DayCount(eng', entered')
  BY <1>2, <1>3 DEF Inv, Unspent, DayCount
<1>6. Inv'
  BY <1>2, <1>3, <1>5 DEF Inv, TypeOK, PosOK
<1>7. QED
  BY <1>4, <1>6

(* The broker closed the position.                                          *)
LEMMA ForceFlatStep ==
  ASSUME Inv, ForceFlat
  PROVE  Inv' /\ EngStep
<1>1. eng \in Engine /\ eng.pos # Flat
  BY DEF Inv, TypeOK, ForceFlat
<1>2. Flat \in [dir : Directions \cup {"none"}, stop : Int]
  BY DEF Flat
<1>3. /\ eng' \in Engine /\ eng'.pos = Flat /\ eng'.sig = "EXIT"
      /\ eng'.blocks = eng.blocks /\ eng'.born = eng.born /\ eng'.day = eng.day
      /\ eng'.traded = eng.traded /\ eng'.last = eng.last
  BY <1>1, <1>2 DEF ForceFlat, Engine
<1>4. backed' = backed /\ entered' = entered
  BY DEF ForceFlat
<1>5. EngStep
  BY <1>1, <1>3 DEF EngStep, SoundEntry, Contract!CNext, Contract!Leave,
                    Contract!NoTrade, Flat
<1>6. Unspent(eng', backed') /\ DayCount(eng', entered')
  BY <1>3, <1>4 DEF Inv, Unspent, DayCount
<1>7. Inv'
  BY <1>3, <1>4, <1>6 DEF Inv, TypeOK, PosOK
<1>8. QED
  BY <1>5, <1>7

(* A stuttering step.                                                       *)
LEMMA StutterStep ==
  ASSUME Inv, UNCHANGED vars
  PROVE  Inv' /\ UNCHANGED Contract!cvars /\ (SoundEntry => SoundEntry')
BY DEF vars, Inv, TypeOK, PosOK, Unspent, DayCount, SoundEntry, Contract!cvars

(* Every call of on_candle and force_flat.                                  *)
LEMMA NextStep ==
  ASSUME Inv, Next
  PROVE  Inv' /\ EngStep
<1>1. CASE NextCandle
  <2>1. PICK t \in Timeline : OnBar(t) \/ OnTriggerBar(t)
    BY <1>1 DEF NextCandle
  <2>2. CASE OnBar(t)
    BY <2>2, OnBarStep
  <2>3. CASE OnTriggerBar(t)
    BY <2>3, DecideStep DEF OnTriggerBar
  <2>4. QED
    BY <2>1, <2>2, <2>3
<1>2. CASE RejectCandle
  BY <1>2, RejectStep
<1>3. CASE ForceFlat
  BY <1>3, ForceFlatStep
<1>4. QED
  BY <1>1, <1>2, <1>3 DEF Next

(* The inductive invariant holds after every call of on_candle and          *)
(* force_flat.                                                              *)
THEOREM Invariance == Spec => []Inv
<1>1. Inv /\ [Next]_vars => Inv'
  BY NextStep, StutterStep
<1>2. QED
  BY <1>1, InitInv, PTL DEF Spec

(* However often the broker closes a position and the engine is re-armed,   *)
(* no day sees more than max_trades_per_day entries and no order block      *)
(* backs two (_on_decision, poi_at).                                        *)
THEOREM Caps == Spec => []EntryLimits
<1>1. Inv => EntryLimits
  BY Constants DEF Inv, EntryLimits, TypeOK
<1>2. QED
  BY <1>1, Invariance, PTL

(* An entry follows the trends as they stand on its own bar, and its stop   *)
(* lies beyond wick and block, not too far away (_enter).                   *)
THEOREM Soundness == Spec => []SoundEntry
<1>1. Init => SoundEntry
  BY DEF Init, InitEng, SoundEntry
<1>2. Inv /\ SoundEntry /\ [Next]_vars => SoundEntry'
  BY NextStep, StutterStep DEF EngStep
<1>3. QED
  BY <1>1, <1>2, Invariance, PTL DEF Spec

(* The engine implements the contract of the live loop: it starts without a *)
(* trade, and every call is an entry, a hold, an exit or nothing.           *)
THEOREM Refinement == Spec => ImplementsContract
<1>1. Init => Contract!CInit
  BY DEF Init, InitEng, Contract!CInit, Contract!NoTrade, Flat
<1>2. Inv /\ [Next]_vars => [Contract!CNext]_(Contract!cvars)
  BY NextStep, StutterStep DEF EngStep
<1>3. QED
  BY <1>1, <1>2, Invariance, PTL DEF Spec, ImplementsContract, Contract!CSpec
=============================================================================
