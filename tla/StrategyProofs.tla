--------------------------- MODULE StrategyProofs ---------------------------
(***************************************************************************)
(* Proofs about the strategies' own state machines: the opening-range      *)
(* engine, for every session geometry and every configuration OrbConfig    *)
(* accepts, and the trackers that BarFed feeds bar by bar, for every       *)
(* configuration, every bars and every gap between them.                   *)
(*                                                                         *)
(* The engine's invariant Inv joins the typing, the agreement of state,    *)
(* position and range, and the session the engine works on.  It is         *)
(* inductive only as a whole: that a range is known when it is compared    *)
(* needs the rebuild flag, which needs "locked implies not rebuilding",    *)
(* which needs that only a built range is ever locked; and that an         *)
(* unlocked, non-rebuilding range is never read outside its session needs  *)
(* the order of timestamps.                                                *)
(*                                                                         *)
(* On top of it every step is shown to be a step of EntryContract, and     *)
(* TradeInv bounds the trades between two resets: it adds to Inv the pace  *)
(* of the session.  A range has no more bars than the minutes since the    *)
(* open, so no trade is entered before the window is over, and an engine   *)
(* that is idle after its trade finds no further window to arm it.         *)
(***************************************************************************)
EXTENDS OrbEngine, BarFed, FiniteSetTheorems, WellFoundedInduction,
        NaturalsInduction, TLAPS

(* What every engine between two calls satisfies, whatever the bar. *)
Good(e) == e \in Engine /\ PositionOK(e) /\ RangeOK(e)

(* The stop distance is never negative: _stop_dist clamps a product of      *)
(* non-negative numbers between two of them.                                *)
LEMMA StopDistNat == \A a \in Atrs : StopDist(a) \in Nat
<1> TAKE a \in Atrs
<1>1. a \in Nat /\ AtrMult \in Nat
  BY EngineAssumption
<1>2. AtrMult * a \in Nat
  BY <1>1
<1>3. QED
  BY <1>2, EngineAssumption DEF StopDist, MaxOf, MinOf

(* The session clock is total: every bar has a session and a zone.          *)
LEMMA ClockTypes ==
  ASSUME NEW t \in Time
  PROVE  SessionId(t) \in Int /\ ZoneOf(t) \in Zones
<1>1. t.d \in Int /\ t.m \in Int
  BY ClockAssumption DEF Time
<1>2. QED
  BY <1>1, ClockAssumption
  DEF SessionId, ZoneOf, Zones, ZoneWithin, InPrevSession, SinceOpen, SincePrevOpen

(* Time does not run back into the pre-open of a session once a bar of the  *)
(* session itself was seen, also when the session crosses midnight.         *)
LEMMA NeverBeforeAgain ==
  ASSUME NEW t \in Time, NEW u \in Time, Later(t, u),
         SessionId(t) = SessionId(u), ZoneOf(u) \in Active
  PROVE  ZoneOf(t) # "BEFORE"
<1>1. /\ t.d \in Nat /\ u.d \in Nat
      /\ t.m \in 0 .. DayMin - 1 /\ u.m \in 0 .. DayMin - 1
  BY DEF Time
<1>2. CASE InPrevSession(t)
  BY <1>2 DEF ZoneOf, ZoneWithin
<1>3. CASE ~InPrevSession(t)
  <2>1. SessionId(t) = t.d
    BY <1>3 DEF SessionId
  <2>2. ~InPrevSession(u)
    BY <1>1, <2>1 DEF SessionId, Later
  <2>3. u.d = t.d /\ t.m > u.m
    BY <1>1, <2>1, <2>2 DEF SessionId, Later
  <2>4. SinceOpen(u) >= 0
    BY <1>1, <2>2, ClockAssumption DEF ZoneOf, Active, SinceOpen
  <2>5. SinceOpen(t) > 0
    BY <1>1, <2>3, <2>4, ClockAssumption DEF SinceOpen
  <2>6. QED
    BY <1>1, <1>3, <2>5, ClockAssumption DEF ZoneOf, ZoneWithin, SinceOpen
<1>4. QED
  BY <1>2, <1>3

(* Clearing the range touches the four range fields only.                   *)
LEMMA ClearedEngine ==
  ASSUME NEW e \in Engine
  PROVE  LET f == ClearRange(e) IN
         /\ f \in Engine /\ f.bars = 0 /\ ~f.locked
         /\ f.st = e.st /\ f.pos = e.pos /\ f.last = e.last /\ f.sid = e.sid
         /\ f.sig = e.sig /\ f.rebuild = e.rebuild /\ f.fed = e.fed
<1>1. 0 \in 0 .. RangeMin
  BY ClockAssumption
<1>2. QED
  BY <1>1 DEF ClearRange, Engine

(* Leaving a position keeps the engine well formed and says so.             *)
LEMMA ExitGood ==
  ASSUME NEW e, Good(e), e.st = "BREAKOUT", e.sig = NoSig,
         NEW r \in {"range_reentry", "take_profit", "trail_stop", "session_end",
                    "gap_invalidate", "broker_closed"},
         NEW to \in {"IDLE", "RANGE_DEFINED"}
  PROVE  LET f == Exit(e, r, to) IN
         /\ Good(f) /\ f.st = to /\ f.pos = Flat /\ f.last = e.last
         /\ f.sid = e.sid /\ f.sig.kind = "EXIT"
         /\ f.sig.reason # "take_profit_partial"
         /\ f.bars <= e.bars /\ (f.locked => e.locked)
<1> DEFINE g == [e EXCEPT !.st = to, !.pos = Flat,
                          !.sig = Signal("EXIT", e.pos.dir, r)]
<1>1. /\ e \in Engine /\ e.locked /\ e.bars > 0 /\ ~e.rebuild /\ e.bars \in Int
      /\ e.pos.dir \in Directions \cup {"none"}
  BY DEF Good, PositionOK, RangeOK, Engine, Position
<1>2. Signal("EXIT", e.pos.dir, r) \in SigType
  BY <1>1 DEF Signal, SigType
<1>3. Flat \in Position
  BY DEF Flat, Position
<1>4. g \in Engine
  BY <1>1, <1>2, <1>3 DEF Engine, States
<1>5. /\ g.st = to /\ g.pos = Flat /\ g.last = e.last /\ g.sid = e.sid
      /\ g.sig = Signal("EXIT", e.pos.dir, r)
      /\ g.locked = e.locked /\ g.bars = e.bars /\ g.rebuild = e.rebuild
      /\ g.hi = e.hi /\ g.lo = e.lo
  BY <1>1 DEF Engine
<1>6. Good(g)
  BY <1>1, <1>4, <1>5 DEF Good, PositionOK, RangeOK
<1>7. CASE to = "RANGE_DEFINED" /\ RearmRebuild
  <2> DEFINE f == [ClearRange(g) EXCEPT !.rebuild = TRUE]
  <2>0. Exit(e, r, to) = f
    BY <1>7 DEF Exit, RearmAt
  <2> HIDE DEF g
  <2>1. /\ f \in Engine /\ f.st = g.st /\ f.pos = g.pos /\ f.last = g.last
        /\ f.sid = g.sid /\ f.sig = g.sig /\ f.bars = 0 /\ ~f.locked /\ f.rebuild
    BY <1>4, ClearedEngine DEF Engine
  <2>2. Good(f)
    BY <1>5, <2>1, ClockAssumption DEF Good, PositionOK, RangeOK
  <2>4. QED
    BY <1>1, <1>5, <2>0, <2>1, <2>2 DEF Signal
<1>8. CASE ~(to = "RANGE_DEFINED" /\ RearmRebuild)
  <2>1. Exit(e, r, to) = g
    BY <1>8 DEF Exit, RearmAt
  <2>2. QED
    BY <1>1, <1>5, <1>6, <2>1 DEF Signal
<1>9. QED
  BY <1>7, <1>8

-----------------------------------------------------------------------------
(* A partial exit is a signal about a position the call leaves as it was,   *)
(* and a rejection one of an engine that holds none.                        *)
Obeys(e, f) ==
  /\ f.sig.reason = "take_profit_partial" =>
       e.pos # Flat /\ f.pos.dir = e.pos.dir /\ f.pos.stop = e.pos.stop
  /\ f.sig.kind = "REJECT" => e.pos = Flat

(* What one call on a bar closing at c may do to the engine. *)
StepOK(e, f, c) ==
  /\ Good(f) /\ f.sid = e.sid /\ f.last = e.last
  /\ OutsideRange(f, c) /\ StopBehind(f, c)
  /\ Tightens(e, f) /\ Announced(e, f) /\ Obeys(e, f)

(* A position survives a bar only outside the range, with a stop no looser  *)
(* than before; every other outcome is an announced exit.                   *)
LEMMA OnBreakoutOK ==
  ASSUME NEW e, Good(e), e.st = "BREAKOUT", e.sig = NoSig,
         NEW b \in Bars, NEW c0, StopBehind(e, c0)
  PROVE  StepOK(e, OnBreakout(e, b), b.c)
<1> DEFINE f == OnBreakout(e, b)
<1>1. /\ e \in Engine /\ e.pos # Flat /\ e.pos \in Position
      /\ e.pos.dir \in Directions /\ e.pos.stop \in Int /\ e.pos.tp \in Int
      /\ e.hi \in Nat /\ e.lo \in Nat
  BY DEF Good, PositionOK, Allowed, Engine, Position, Directions
<1>2. /\ b.h \in Nat /\ b.l \in Nat /\ b.c \in Nat /\ b.atr \in Atrs
      /\ b.l <= b.c /\ b.c <= b.h
  BY EngineAssumption DEF Bars
<1>3. ASSUME NEW r \in {"range_reentry", "take_profit", "trail_stop"},
             f = Exit(e, r, PostExitState(e))
      PROVE  StepOK(e, f, b.c)
  <2>1. PostExitState(e) \in {"IDLE", "RANGE_DEFINED"}
    BY DEF PostExitState
  <2>2. /\ Good(f) /\ f.st # "BREAKOUT" /\ f.pos = Flat /\ f.last = e.last
        /\ f.sid = e.sid /\ f.sig.kind = "EXIT"
        /\ f.sig.reason # "take_profit_partial"
    BY <1>3, <2>1, ExitGood
  <2> HIDE DEF f
  <2>3. QED
    BY <1>1, <2>2 DEF StepOK, OutsideRange, StopBehind, Tightens, Announced, Obeys
<1>4. CASE RangeReentered(e, b)
  BY <1>3, <1>4 DEF OnBreakout
<1>5. CASE ~RangeReentered(e, b) /\ TpHit(e, b)
  <2>1. CASE ~TpPartial
    BY <1>3, <1>5, <2>1 DEF OnBreakout
  <2>2. CASE TpPartial
    <3> DEFINE s == Signal("EXIT", e.pos.dir, "take_profit_partial")
               p == [dir |-> e.pos.dir, stop |-> e.pos.stop,
                     hasTp |-> FALSE, tp |-> 0]
    <3>1. f = PartialTp(e)
      BY <1>5, <2>2 DEF OnBreakout
    <3>2. s \in SigType /\ p \in Position /\ p.dir = e.pos.dir
          /\ p.stop = e.pos.stop /\ ~p.hasTp
      BY <1>1 DEF Signal, SigType, Position, Directions
    <3>3. PartialTp(e) = [e EXCEPT !.sig = s, !.pos = p]
      BY DEF PartialTp
    <3> HIDE DEF p, s
    <3> DEFINE g == [e EXCEPT !.sig = s]
    <3>g. /\ g \in Engine /\ f = [g EXCEPT !.pos = p]
          /\ g.st = e.st /\ g.sig = s
          /\ g.locked = e.locked /\ g.rebuild = e.rebuild /\ g.bars = e.bars
          /\ g.hi = e.hi /\ g.lo = e.lo /\ g.fed = e.fed
          /\ g.sid = e.sid /\ g.last = e.last
      BY <1>1, <3>1, <3>2, <3>3 DEF Engine
    <3> HIDE DEF f, g
    <3>4. /\ f \in Engine /\ f.st = e.st /\ f.pos = p /\ f.sig = s
          /\ f.locked = e.locked /\ f.rebuild = e.rebuild /\ f.bars = e.bars
          /\ f.hi = e.hi /\ f.lo = e.lo /\ f.fed = e.fed
          /\ f.sid = e.sid /\ f.last = e.last
      BY <3>g, <3>2 DEF Engine
    <3>5. p # Flat
      BY <1>1, <3>2 DEF Flat, Directions
    <3>6. Good(f)
      BY <1>1, <3>2, <3>4, <3>5 DEF Good, PositionOK, RangeOK, Warm
    <3>7. OutsideRange(f, b.c)
      BY <1>1, <1>2, <1>5, <3>2, <3>4 DEF OutsideRange, RangeReentered, Directions
    <3>8. StopBehind(f, b.c)
      BY <1>1, <1>2, <1>5, <3>2, <3>4 DEF StopBehind, TpHit, Directions
    <3>9. Tightens(e, f)
      BY <1>1, <3>2, <3>4 DEF Tightens
    <3>10. Announced(e, f) /\ Obeys(e, f)
      BY <1>1, <3>2, <3>4, <3>5 DEF Announced, Obeys, Signal, s
    <3>11. QED
      BY <3>4, <3>6, <3>7, <3>8, <3>9, <3>10 DEF StepOK, f
  <2>3. QED
    BY <2>1, <2>2
<1>6. CASE ~RangeReentered(e, b) /\ ~TpHit(e, b) /\ TrailHit(e, b)
  BY <1>3, <1>6 DEF OnBreakout
<1>7. CASE ~RangeReentered(e, b) /\ ~TpHit(e, b) /\ ~TrailHit(e, b)
  <2> DEFINE d == StopDist(b.atr)
             x == IF e.pos.dir = "LONG" THEN MaxOf(e.pos.stop, b.c - d)
                                        ELSE MinOf(e.pos.stop, b.c + d)
             p == [e.pos EXCEPT !.stop = x]
  <2>1. f = Ratchet(e, b)
    BY <1>7 DEF OnBreakout
  <2>2. d \in Nat
    BY <1>2, StopDistNat
  <2> HIDE DEF d
  <2>3. x \in Int
    BY <1>1, <1>2, <2>2 DEF MaxOf, MinOf
  <2>4. p \in Position /\ p.dir = e.pos.dir /\ p.stop = x
        /\ p.hasTp = e.pos.hasTp /\ p.tp = e.pos.tp
    BY <1>1, <2>3 DEF Position
  <2>5. Ratchet(e, b) = [e EXCEPT !.pos = p]
    BY <1>1 DEF Ratchet, Engine, Position, d
  <2> HIDE DEF p
  <2>6. /\ f \in Engine /\ f.st = e.st /\ f.pos = p /\ f.sig = e.sig
        /\ f.locked = e.locked /\ f.rebuild = e.rebuild /\ f.bars = e.bars
        /\ f.hi = e.hi /\ f.lo = e.lo /\ f.fed = e.fed
        /\ f.sid = e.sid /\ f.last = e.last
    BY <1>1, <2>1, <2>4, <2>5 DEF Engine
  <2> HIDE DEF f
  <2>7. p # Flat
    BY <1>1, <2>4 DEF Flat, Directions
  <2>8. Good(f)
    BY <1>1, <2>4, <2>6, <2>7 DEF Good, PositionOK, RangeOK, Warm
  <2>9. OutsideRange(f, b.c)
    BY <1>1, <1>2, <1>7, <2>4, <2>6 DEF OutsideRange, RangeReentered, Directions
  <2>10. StopBehind(f, b.c)
    BY <1>1, <1>2, <1>7, <2>2, <2>4, <2>6
    DEF StopBehind, TpHit, TrailHit, Directions, MaxOf, MinOf
  <2>11. Tightens(e, f)
    BY <1>1, <1>2, <2>2, <2>4, <2>6 DEF Tightens, MaxOf, MinOf, Directions
  <2>12. Announced(e, f) /\ Obeys(e, f)
    BY <1>1, <2>6, <2>7 DEF Announced, Obeys, NoSig
  <2>13. QED
    BY <2>6, <2>8, <2>9, <2>10, <2>11, <2>12 DEF StepOK, f
<1>8. QED
  BY <1>4, <1>5, <1>6, <1>7

-----------------------------------------------------------------------------
(* Locking completes a range under construction.                            *)
LEMMA MaybeLockGood ==
  ASSUME NEW e \in Engine, e.st = "RANGE_DEFINED", e.pos = Flat, ~e.locked,
         e.bars > 0, e.lo <= e.hi
  PROVE  LET f == MaybeLock(e) IN
         /\ Good(f) /\ f.st = e.st /\ f.pos = Flat /\ f.sid = e.sid
         /\ f.last = e.last /\ f.sig = e.sig
         /\ f.bars = e.bars /\ (f.locked => f.bars >= RangeMin)
<1> DEFINE g == LockRange(e)
<1>1. /\ g \in Engine /\ g.locked /\ ~g.rebuild /\ g.bars = e.bars
      /\ g.hi = e.hi /\ g.lo = e.lo /\ g.st = e.st /\ g.pos = e.pos
      /\ g.sid = e.sid /\ g.last = e.last /\ g.sig = e.sig
  BY DEF LockRange, Engine
<1>2. Good(g)
  BY <1>1 DEF Good, PositionOK, RangeOK
<1>3. CASE e.bars >= RangeMin
  BY <1>1, <1>2, <1>3 DEF MaybeLock
<1>4. CASE ~(e.bars >= RangeMin)
  <2>1. Good(e)
    BY <1>4, ClockAssumption DEF Good, PositionOK, RangeOK, Engine
  <2>2. QED
    BY <1>4, <2>1 DEF MaybeLock
<1>5. QED
  BY <1>3, <1>4

(* An engine without a position that ends without one, silently, took a     *)
(* legal step.                                                              *)
LEMMA QuietStep ==
  ASSUME NEW e, NEW f, NEW c, Good(f), e.pos = Flat, f.pos = Flat,
         f.sid = e.sid, f.last = e.last, f.sig.kind \notin {"ENTRY", "EXIT"},
         f.sig.reason # "take_profit_partial"
  PROVE  StepOK(e, f, c)
<1>1. f.st # "BREAKOUT"
  BY DEF Good, PositionOK
<1>2. QED
  BY <1>1 DEF StepOK, OutsideRange, StopBehind, Tightens, Announced, Obeys

(* The first bar of the window opens a range.                               *)
LEMMA OnIdleOK ==
  ASSUME NEW e, Good(e), e.st = "IDLE", e.sig = NoSig, NEW b \in Bars, NEW zone
  PROVE  LET f == OnIdle(e, b, zone) IN
         /\ StepOK(e, f, b.c)
         /\ f.st # "IDLE" => zone = "IN_RANGE_WINDOW"
<1>1. e \in Engine /\ e.pos = Flat
  BY DEF Good, PositionOK
<1>2a. /\ b.h \in Nat /\ b.l \in Nat /\ b.c \in Nat
       /\ b.l <= b.c /\ b.c <= b.h
  BY EngineAssumption DEF Bars
<1>2. b.h \in Nat /\ b.l \in Nat /\ b.l <= b.h
  BY <1>2a
<1>3. CASE zone = "IN_RANGE_WINDOW"
  <2> DEFINE g == [e EXCEPT !.hi = b.h, !.lo = b.l, !.bars = 1,
                            !.locked = FALSE, !.st = "RANGE_DEFINED"]
  <2>1. 1 \in 0 .. RangeMin /\ "RANGE_DEFINED" \in States
    BY ClockAssumption DEF States
  <2>2. /\ g \in Engine /\ g.st = "RANGE_DEFINED" /\ g.pos = e.pos
        /\ ~g.locked /\ g.bars = 1 /\ g.hi = b.h /\ g.lo = b.l
        /\ g.sid = e.sid /\ g.last = e.last /\ g.sig = e.sig
    BY <1>1, <1>2, <2>1 DEF Engine
  <2> HIDE DEF g
  <2> DEFINE f == MaybeLock(g)
  <2>3. /\ Good(f) /\ f.pos = Flat /\ f.sid = g.sid /\ f.last = g.last
        /\ f.sig = g.sig
    BY <1>1, <1>2, <2>2, MaybeLockGood
  <2>4. OnIdle(e, b, zone) = f
    BY <1>3 DEF OnIdle, g
  <2> HIDE DEF f
  <2>5. /\ f.sig.kind \notin {"ENTRY", "EXIT"}
        /\ f.sig.reason # "take_profit_partial"
    BY <2>2, <2>3 DEF NoSig
  <2>6. StepOK(e, f, b.c)
    BY <1>1, <2>2, <2>3, <2>5, QuietStep
  <2>7. QED
    BY <1>3, <2>4, <2>6
<1>4. CASE zone # "IN_RANGE_WINDOW"
  <2>1. OnIdle(e, b, zone) = e
    BY <1>4 DEF OnIdle
  <2>2. /\ e.sig.kind \notin {"ENTRY", "EXIT"}
        /\ e.sig.reason # "take_profit_partial"
    BY DEF NoSig
  <2>3. StepOK(e, e, b.c)
    BY <1>1, <2>2, QuietStep
  <2>4. QED
    BY <2>1, <2>3
<1>5. QED
  BY <1>3, <1>4

(* The distance to the take profit has the sign of the direction.           *)
LEMMA TpSide ==
  ASSUME NEW a \in Nat
  PROVE  /\ TpRrr * a \in Int /\ TpRrr * a >= 0
         /\ TpRrr * (0 - a) \in Int /\ TpRrr * (0 - a) <= 0
<1>1. TpRrr \in Nat
  BY EngineAssumption
<1>2. QED
  BY <1>1

(* A close beyond a locked range, with warm indicators, opens a position    *)
(* with its stop behind the close, and announces it.                        *)
LEMMA CheckBreakoutOK ==
  ASSUME NEW e, Good(e), e.st = "RANGE_DEFINED", e.locked, Warm(e),
         e.sig = NoSig, NEW b \in Bars
  PROVE  StepOK(e, CheckBreakout(e, b), b.c)
<1>1. /\ e \in Engine /\ e.pos = Flat /\ e.hi \in Nat /\ e.lo \in Nat
  BY DEF Good, PositionOK, Engine
<1>2. b.c \in Nat /\ b.atr \in Atrs
  BY EngineAssumption DEF Bars
<1> DEFINE dir == BreakoutDir(e, b)
<1>3. CASE ~Allowed(dir)
  <2>1. CheckBreakout(e, b) = e
    BY <1>3 DEF CheckBreakout
  <2>2. /\ e.sig.kind \notin {"ENTRY", "EXIT"}
        /\ e.sig.reason # "take_profit_partial"
    BY DEF NoSig
  <2>3. QED
    BY <1>1, <2>1, <2>2, QuietStep
<1>4. CASE Allowed(dir) /\ ~b.mom
  <2> DEFINE s == Signal("REJECT", dir, "momentum_fail")
             f == [e EXCEPT !.sig = s]
  <2>1. CheckBreakout(e, b) = f
    BY <1>4 DEF CheckBreakout
  <2>2. s \in SigType /\ s.kind = "REJECT" /\ s.reason = "momentum_fail"
    BY <1>4 DEF Signal, SigType, BreakoutDir, Directions
  <2> HIDE DEF s
  <2>3. /\ f \in Engine /\ f.st = e.st /\ f.pos = e.pos /\ f.sig = s
        /\ f.locked = e.locked /\ f.rebuild = e.rebuild /\ f.bars = e.bars
        /\ f.hi = e.hi /\ f.lo = e.lo /\ f.fed = e.fed
        /\ f.sid = e.sid /\ f.last = e.last
    BY <1>1, <2>2 DEF Engine
  <2> HIDE DEF f
  <2>4. Good(f)
    BY <2>3 DEF Good, PositionOK, RangeOK, Warm
  <2>5. /\ f.sig.kind \notin {"ENTRY", "EXIT"}
        /\ f.sig.reason # "take_profit_partial"
    BY <2>2, <2>3
  <2>6. StepOK(e, f, b.c)
    BY <1>1, <2>3, <2>4, <2>5, QuietStep
  <2>7. QED
    BY <2>1, <2>6
<1>5. CASE Allowed(dir) /\ b.mom
  <2> DEFINE dist == StopDist(b.atr)
             away == IF dir = "LONG" THEN dist ELSE 0 - dist
             p == [dir |-> dir, stop |-> b.c - away, hasTp |-> UseTp,
                   tp |-> IF UseTp THEN b.c + TpRrr * away ELSE 0]
             s == Signal("ENTRY", dir, "breakout")
             f == [e EXCEPT !.st = "BREAKOUT", !.traded = TRUE,
                            !.pos = p, !.sig = s]
  <2>1. CheckBreakout(e, b) = f
    BY <1>5 DEF CheckBreakout, OpenPosition
  <2>2. dir \in Directions
    BY <1>5 DEF Allowed, Directions
  <2>3. dir = "LONG" => b.c > e.hi
    BY DEF BreakoutDir
  <2>4. dir = "SHORT" => b.c < e.lo
    BY DEF BreakoutDir
  <2> HIDE DEF dir
  <2>5. dist \in Nat
    BY <1>2, StopDistNat
  <2> HIDE DEF dist
  <2>6. away \in Int /\ TpRrr * away \in Int
    BY <2>5, TpSide
  <2>7. /\ dir = "LONG" => away >= 0 /\ TpRrr * away >= 0
        /\ dir # "LONG" => away <= 0 /\ TpRrr * away <= 0
    BY <2>5, TpSide
  <2> HIDE DEF away
  <2>8. p.stop \in Int /\ p.tp \in Int /\ p.dir = dir /\ p.hasTp = UseTp
        /\ p.stop = b.c - away /\ (UseTp => p.tp = b.c + TpRrr * away)
    BY <1>2, <2>6
  <2>9. p \in Position /\ s \in SigType /\ s.kind = "ENTRY" /\ s.reason = "breakout"
    BY <2>2, <2>8, EngineAssumption DEF Position, Signal, SigType
  <2> HIDE DEF p, s
  <2>10. /\ f \in Engine /\ f.st = "BREAKOUT" /\ f.pos = p /\ f.sig = s
         /\ f.locked = e.locked /\ f.rebuild = e.rebuild /\ f.bars = e.bars
         /\ f.hi = e.hi /\ f.lo = e.lo /\ f.fed = e.fed
         /\ f.sid = e.sid /\ f.last = e.last
    BY <1>1, <2>9 DEF Engine, States
  <2> HIDE DEF f
  <2>11. p # Flat
    BY <2>2, <2>8 DEF Flat, Directions
  <2>12. Good(f)
    BY <1>5, <2>8, <2>10, <2>11 DEF Good, PositionOK, RangeOK, Warm
  <2>13. OutsideRange(f, b.c)
    BY <2>2, <2>3, <2>4, <2>8, <2>10 DEF OutsideRange, Directions
  <2>14. StopBehind(f, b.c)
    BY <1>2, <2>2, <2>6, <2>7, <2>8, <2>10 DEF StopBehind
  <2>15. Tightens(e, f) /\ Announced(e, f) /\ Obeys(e, f)
    BY <1>1, <2>9, <2>10, <2>11 DEF Tightens, Announced, Obeys
  <2>16. QED
    BY <2>1, <2>10, <2>12, <2>13, <2>14, <2>15 DEF StepOK
<1>6. QED
  BY <1>3, <1>4, <1>5

(* Building, locking and breaking a range inside the session.               *)
LEMMA OnRangeDefinedOK ==
  ASSUME NEW e, Good(e), e.st = "RANGE_DEFINED", e.sig = NoSig,
         NEW b \in Bars, NEW zone \in Active
  PROVE  StepOK(e, OnRangeDefined(e, b, zone), b.c)
<1>1. /\ e \in Engine /\ e.pos = Flat /\ e.hi \in Nat /\ e.lo \in Nat
      /\ e.bars \in 0 .. RangeMin
  BY DEF Good, PositionOK, Engine
<1>2. /\ b.h \in Nat /\ b.l \in Nat /\ b.c \in Nat
      /\ b.l <= b.c /\ b.c <= b.h
  BY EngineAssumption DEF Bars
<1>3. CASE (zone = "IN_RANGE_WINDOW" \/ e.rebuild) /\ ~e.locked
  <2> DEFINE g == ExtendRange(e, b)
             f == MaybeLock(g)
  <2>1. OnRangeDefined(e, b, zone) = f
    BY <1>3 DEF OnRangeDefined
  <2>2. e.bars < RangeMin /\ (e.bars > 0 => e.lo <= e.hi)
    BY <1>3 DEF Good, RangeOK
  <2>3. /\ g \in Engine /\ g.bars > 0 /\ g.lo <= g.hi
        /\ g.st = e.st /\ g.pos = e.pos /\ g.locked = e.locked
        /\ g.sid = e.sid /\ g.last = e.last /\ g.sig = e.sig
    <3>1. CASE e.bars = 0
      <4> DEFINE hi2 == b.h
                 lo2 == b.l
                 n2 == 1
      <4>1. /\ hi2 \in Nat /\ lo2 \in Nat /\ lo2 <= hi2
            /\ n2 \in 0 .. RangeMin /\ n2 > 0
        BY <1>2, ClockAssumption
      <4>2. g = [e EXCEPT !.hi = hi2, !.lo = lo2, !.bars = n2]
        BY <3>1 DEF ExtendRange
      <4> HIDE DEF hi2, lo2, n2, g
      <4>3. QED
        BY <1>1, <4>1, <4>2 DEF Engine
    <3>2. CASE e.bars # 0
      <4> DEFINE hi2 == MaxOf(e.hi, b.h)
                 lo2 == MinOf(e.lo, b.l)
                 n2 == e.bars + 1
      <4>1. /\ hi2 \in Nat /\ lo2 \in Nat /\ lo2 <= hi2
            /\ n2 \in 0 .. RangeMin /\ n2 > 0
        BY <1>1, <1>2, <2>2, <3>2, ClockAssumption DEF MaxOf, MinOf
      <4>2. g = [e EXCEPT !.hi = hi2, !.lo = lo2, !.bars = n2]
        BY <1>1, <3>2 DEF ExtendRange, Engine
      <4> HIDE DEF hi2, lo2, n2, g
      <4>3. QED
        BY <1>1, <4>1, <4>2 DEF Engine
    <3>3. QED
      BY <3>1, <3>2
  <2> HIDE DEF g
  <2>4. /\ Good(f) /\ f.pos = Flat /\ f.sid = g.sid /\ f.last = g.last
        /\ f.sig = g.sig
    BY <1>1, <1>3, <2>3, MaybeLockGood
  <2> HIDE DEF f
  <2>5. /\ f.sig.kind \notin {"ENTRY", "EXIT"}
        /\ f.sig.reason # "take_profit_partial"
    BY <2>3, <2>4 DEF NoSig
  <2>6. StepOK(e, f, b.c)
    BY <1>1, <2>3, <2>4, <2>5, QuietStep
  <2>7. QED
    BY <2>1, <2>6
<1>4. CASE ~((zone = "IN_RANGE_WINDOW" \/ e.rebuild) /\ ~e.locked)
  <2> DEFINE g == IF zone = "IN_SESSION" /\ ~e.locked THEN LockRange(e) ELSE e
             f == IF Warm(g) THEN CheckBreakout(g, b) ELSE g
  <2>1. OnRangeDefined(e, b, zone) = f
    BY <1>4 DEF OnRangeDefined
  <2>2. /\ Good(g) /\ g.locked /\ g.st = e.st /\ g.pos = Flat
        /\ g.sid = e.sid /\ g.last = e.last /\ g.sig = NoSig
    <3>1. CASE e.locked
      BY <1>1, <3>1
    <3>2. CASE ~e.locked
      <4>1. zone = "IN_SESSION" /\ ~e.rebuild
        BY <1>4, <3>2 DEF Active
      <4>2. e.bars > 0 /\ e.lo <= e.hi
        BY <1>1, <4>1 DEF Good, RangeOK
      <4>3. g = LockRange(e)
        BY <3>2, <4>1
      <4>4. /\ g \in Engine /\ g.locked /\ ~g.rebuild /\ g.bars = e.bars
            /\ g.hi = e.hi /\ g.lo = e.lo /\ g.st = e.st /\ g.pos = e.pos
            /\ g.sid = e.sid /\ g.last = e.last /\ g.sig = e.sig
        BY <1>1, <4>3 DEF LockRange, Engine
      <4> HIDE DEF g
      <4>5. QED
        BY <1>1, <4>2, <4>4 DEF Good, PositionOK, RangeOK
    <3>3. QED
      BY <3>1, <3>2
  <2> HIDE DEF g
  <2>3. CASE Warm(g)
    <3>1. StepOK(g, f, b.c)
      BY <2>2, <2>3, CheckBreakoutOK
    <3> HIDE DEF f
    <3>2. StepOK(e, f, b.c)
      BY <1>1, <2>2, <3>1 DEF StepOK, Tightens, Announced, Obeys
    <3>3. QED
      BY <2>1, <3>2
  <2>4. CASE ~Warm(g)
    <3>1. /\ g.sig.kind \notin {"ENTRY", "EXIT"}
          /\ g.sig.reason # "take_profit_partial"
      BY <2>2 DEF NoSig
    <3>2. StepOK(e, g, b.c)
      BY <1>1, <2>2, <3>1, QuietStep
    <3>3. QED
      BY <2>1, <2>4, <3>2
  <2>5. QED
    BY <2>3, <2>4
<1>5. QED
  BY <1>3, <1>4

(* Feeding the indicators and dispatching on the state.                     *)
LEMMA DispatchOK ==
  ASSUME NEW e, Good(e), e.sig = NoSig, NEW b \in Bars, NEW zone \in Zones,
         e.st # "IDLE" => zone \in Active,
         NEW c0, StopBehind(e, c0)
  PROVE  LET f == Dispatch(e, b, zone) IN
         /\ StepOK(e, f, b.c)
         /\ f.st # "IDLE" => zone \in Active
<1> DEFINE g == IF zone \in Active THEN [e EXCEPT !.fed = MinOf(@ + 1, WarmBars)]
                                   ELSE e
           f == Dispatch(e, b, zone)
<1>1. e \in Engine /\ e.st \in States /\ e.fed \in 0 .. WarmBars
  BY DEF Good, Engine
<1>2. MinOf(e.fed + 1, WarmBars) \in 0 .. WarmBars
      /\ MinOf(e.fed + 1, WarmBars) >= e.fed
  BY <1>1, EngineAssumption DEF MinOf
<1>3. /\ g \in Engine /\ g.fed >= e.fed
      /\ g.locked = e.locked /\ g.rebuild = e.rebuild /\ g.bars = e.bars
      /\ g.hi = e.hi /\ g.lo = e.lo /\ g.st = e.st /\ g.pos = e.pos
      /\ g.sid = e.sid /\ g.last = e.last /\ g.sig = e.sig
  <2>1. CASE zone \in Active
    BY <1>1, <1>2, <2>1 DEF Engine
  <2>2. CASE zone \notin Active
    BY <1>1, <2>2
  <2>3. QED
    BY <2>1, <2>2
<1>4. f = CASE g.st = "IDLE" -> OnIdle(g, b, zone)
            [] g.st = "RANGE_DEFINED" -> OnRangeDefined(g, b, zone)
            [] g.st = "BREAKOUT" -> OnBreakout(g, b)
  BY DEF Dispatch
<1>5. g.fed \in Nat /\ e.fed \in Nat /\ WarmBars \in Nat
  BY <1>1, <1>3, EngineAssumption DEF Engine
<1> HIDE DEF g, f
<1>6. Good(g) /\ StopBehind(g, c0)
  BY <1>3, <1>5 DEF Good, PositionOK, RangeOK, Warm, StopBehind
<1>7. /\ StepOK(g, f, b.c)
      /\ f.st # "IDLE" => zone \in Active
  <2>1. CASE g.st = "IDLE"
    <3>1. f = OnIdle(g, b, zone)
      BY <1>4, <2>1
    <3>2. QED
      BY <1>3, <1>6, <2>1, <3>1, OnIdleOK DEF Active
  <2>2. CASE g.st = "RANGE_DEFINED"
    <3>1. f = OnRangeDefined(g, b, zone)
      BY <1>4, <2>2
    <3>2. zone \in Active
      BY <1>3, <2>2
    <3>3. QED
      BY <1>3, <1>6, <2>2, <3>1, <3>2, OnRangeDefinedOK
  <2>3. CASE g.st = "BREAKOUT"
    <3>1. f = OnBreakout(g, b)
      BY <1>4, <2>3
    <3>2. zone \in Active
      BY <1>3, <2>3
    <3>3. QED
      BY <1>3, <1>6, <2>3, <3>1, <3>2, OnBreakoutOK
  <2>4. QED
    BY <1>1, <1>3, <2>1, <2>2, <2>3 DEF States
<1>8. StepOK(e, f, b.c)
  BY <1>3, <1>7 DEF StepOK, Tightens, Announced, Obeys
<1>9. QED
  BY <1>7, <1>8 DEF f

-----------------------------------------------------------------------------
(* The inductive invariant. *)
Inv ==
  /\ TypeOK /\ PositionInv /\ RangeInv
  /\ eng.sid # NoSession => SessionId(eng.last) = eng.sid
  /\ eng.st # "IDLE" => eng.sid # NoSession /\ ZoneOf(eng.last) \in Active
  /\ HeldOutsideRange /\ StopBehindClose

(* An engine without a position may be reset, for a new session or after a  *)
(* gap: the result is well formed and silent.                               *)
LEMMA ResetGood ==
  ASSUME NEW e, e \in Engine, NEW sid \in Int
  PROVE  LET f == ResetForNewSession(e, sid) IN
         /\ Good(f) /\ f.st = "IDLE" /\ f.pos = Flat /\ f.sid = sid
         /\ f.last = e.last /\ f.sig = e.sig
         /\ f.bars = 0 /\ ~f.locked
<1> DEFINE g == ClearRange(e)
           f == ResetForNewSession(e, sid)
<1>1. /\ g \in Engine /\ g.bars = 0 /\ ~g.locked
      /\ g.last = e.last /\ g.sig = e.sig
  BY ClearedEngine
<1>2. f = [g EXCEPT !.st = "IDLE", !.pos = Flat, !.rebuild = FALSE,
                    !.traded = FALSE, !.fed = 0, !.sid = sid]
  BY DEF ResetForNewSession
<1>3. 0 \in 0 .. WarmBars /\ "IDLE" \in States /\ Flat \in Position
  BY EngineAssumption DEF States, Flat, Position
<1> HIDE DEF g, f
<1>4. /\ f \in Engine /\ f.st = "IDLE" /\ f.pos = Flat /\ f.sid = sid
      /\ f.last = g.last /\ f.sig = g.sig /\ f.bars = g.bars
      /\ f.locked = g.locked
  BY <1>1, <1>2, <1>3 DEF Engine
<1>5. Good(f)
  BY <1>1, <1>4, ClockAssumption DEF Good, PositionOK, RangeOK
<1>6. QED
  BY <1>1, <1>4, <1>5 DEF f

(* A gap in the data re-arms the engine inside the session and idles it     *)
(* outside; a position is left with an announced exit.                      *)
LEMMA GapResetGood ==
  ASSUME NEW e, Good(e), e.sig = NoSig, NEW zone \in Zones
  PROVE  LET f == HandleGapReset(e, zone) IN
         /\ Good(f) /\ f.pos = Flat /\ f.sid = e.sid /\ f.last = e.last
         /\ f.st # "IDLE" => zone \in Active
         /\ e.st # "BREAKOUT" => f.sig = NoSig
         /\ e.st = "BREAKOUT" => /\ f.sig.kind = "EXIT"
                                 /\ f.sig.reason # "take_profit_partial"
         /\ f.bars = 0 /\ ~f.locked
<1> DEFINE x == IF e.st = "BREAKOUT" THEN Exit(e, "gap_invalidate", "IDLE") ELSE e
           g == [ClearRange(x) EXCEPT !.fed = 0]
           f == HandleGapReset(e, zone)
<1>1. /\ x \in Engine /\ x.pos = Flat /\ x.sid = e.sid /\ x.last = e.last
      /\ e.st # "BREAKOUT" => x.sig = NoSig
      /\ e.st = "BREAKOUT" => /\ x.sig.kind = "EXIT"
                              /\ x.sig.reason # "take_profit_partial"
  <2>1. CASE e.st = "BREAKOUT"
    BY <2>1, ExitGood DEF Good
  <2>2. CASE e.st # "BREAKOUT"
    BY <2>2 DEF Good, PositionOK
  <2>3. QED
    BY <2>1, <2>2
<1>2. f = IF zone \in Active THEN [g EXCEPT !.st = "RANGE_DEFINED", !.rebuild = TRUE]
                            ELSE [g EXCEPT !.st = "IDLE", !.rebuild = FALSE]
  BY DEF HandleGapReset
<1> HIDE DEF x, f
<1> DEFINE k == ClearRange(x)
<1>3. /\ k \in Engine /\ k.bars = 0 /\ ~k.locked /\ k.pos = x.pos
      /\ k.sid = x.sid /\ k.last = x.last /\ k.sig = x.sig
  BY <1>1, ClearedEngine
<1>4. 0 \in 0 .. WarmBars
  BY EngineAssumption
<1>5. g = [k EXCEPT !.fed = 0]
  OBVIOUS
<1> HIDE DEF k, g
<1>6. /\ g \in Engine /\ g.bars = 0 /\ ~g.locked /\ g.pos = x.pos
      /\ g.sid = x.sid /\ g.last = x.last /\ g.sig = x.sig
  BY <1>3, <1>4, <1>5 DEF Engine
<1>7. /\ f \in Engine /\ f.bars = 0 /\ ~f.locked /\ f.pos = x.pos
      /\ f.sid = x.sid /\ f.last = x.last /\ f.sig = x.sig
      /\ \/ zone \in Active /\ f.st = "RANGE_DEFINED" /\ f.rebuild
         \/ f.st = "IDLE"
  <2>1. CASE zone \in Active
    BY <1>2, <1>6, <2>1 DEF Engine, States
  <2>2. CASE zone \notin Active
    BY <1>2, <1>6, <2>2 DEF Engine, States
  <2>3. QED
    BY <2>1, <2>2
<1>8. Good(f)
  BY <1>1, <1>7, ClockAssumption DEF Good, PositionOK, RangeOK
<1>9. QED
  BY <1>1, <1>7, <1>8 DEF f

(* Accepting a bar stamps it and clears the last signal.                    *)
LEMMA BeginGood ==
  ASSUME NEW e, Good(e), NEW t \in Time
  PROVE  LET f == Begin(e, t) IN
         /\ Good(f) /\ f.st = e.st /\ f.pos = e.pos /\ f.sid = e.sid
         /\ f.last = t /\ f.sig = NoSig /\ f.hi = e.hi /\ f.lo = e.lo
         /\ f.bars = e.bars /\ f.locked = e.locked
<1> DEFINE f == Begin(e, t)
<1>1. e \in Engine
  BY DEF Good
<1>2. NoSig \in SigType
  BY DEF NoSig, SigType
<1>3. /\ f \in Engine /\ f.last = t /\ f.sig = NoSig
      /\ f.locked = e.locked /\ f.rebuild = e.rebuild /\ f.bars = e.bars
      /\ f.hi = e.hi /\ f.lo = e.lo /\ f.st = e.st /\ f.pos = e.pos
      /\ f.sid = e.sid /\ f.fed = e.fed
  BY <1>1, <1>2 DEF Begin, Engine
<1> HIDE DEF f
<1>4. Good(f)
  BY <1>3 DEF Good, PositionOK, RangeOK, Warm
<1>5. QED
  BY <1>3, <1>4 DEF f

-----------------------------------------------------------------------------
(* What a whole step of the specification does to the engine: the           *)
(* invariants of the new engine, and the two action properties.             *)
EngStep ==
  /\ Good(eng')
  /\ eng'.sid # NoSession => SessionId(eng'.last) = eng'.sid
  /\ eng'.st # "IDLE" => eng'.sid # NoSession /\ ZoneOf(eng'.last) \in Active
  /\ OutsideRange(eng', lastClose') /\ StopBehind(eng', lastClose')
  /\ Tightens(eng, eng') /\ Announced(eng, eng') /\ Obeys(eng, eng')

(* A bar of another session: exit and reset, or reset and start afresh.     *)
LEMMA NewSessionStep ==
  ASSUME Inv, NEW b \in Bars, NEW t \in Time, OnNewSession(b, t)
  PROVE  EngStep
<1> DEFINE B == Begin(eng, t)
           R == ResetForNewSession(B, SessionId(t))
<1>1. Good(eng)
  BY DEF Inv, TypeOK, Good, PositionInv, RangeInv
<1>2. SessionId(t) \in Int /\ ZoneOf(t) \in Zones /\ SessionId(t) # NoSession
  <2>1. t.d \in Nat
    BY DEF Time
  <2>2. QED
    BY <2>1, ClockTypes DEF SessionId, NoSession
<1>3. /\ Good(B) /\ B.st = eng.st /\ B.pos = eng.pos /\ B.last = t
      /\ B.sig = NoSig
  BY <1>1, BeginGood
<1>4. CASE eng.st = "BREAKOUT"
  <2> DEFINE X == Exit(B, "session_end", "IDLE")
             F == ResetForNewSession(X, SessionId(t))
  <2>1. eng' = F /\ lastClose' = b.c
    BY <1>4 DEF OnNewSession, NewSession
  <2> HIDE DEF B
  <2>2. /\ Good(X) /\ X.last = t /\ X.sig.kind = "EXIT"
        /\ X.sig.reason # "take_profit_partial"
    BY <1>3, <1>4, ExitGood
  <2> HIDE DEF X
  <2>3. /\ Good(F) /\ F.st = "IDLE" /\ F.pos = Flat /\ F.sid = SessionId(t)
        /\ F.last = t /\ F.sig = X.sig
    BY <1>2, <2>2, ResetGood DEF Good
  <2> HIDE DEF F
  <2>4. eng.pos # Flat
    BY <1>1, <1>4 DEF Good, PositionOK
  <2>5. QED
    BY <2>1, <2>2, <2>3, <2>4
    DEF EngStep, OutsideRange, StopBehind, Tightens, Announced, Obeys
<1>5. CASE eng.st # "BREAKOUT"
  <2> DEFINE F == Dispatch(R, b, ZoneOf(t))
  <2>1. eng' = F /\ lastClose' = b.c
    BY <1>5 DEF OnNewSession, NewSession
  <2> HIDE DEF B
  <2>2. /\ Good(R) /\ R.st = "IDLE" /\ R.pos = Flat /\ R.sid = SessionId(t)
        /\ R.last = t /\ R.sig = NoSig
    BY <1>2, <1>3, ResetGood DEF Good
  <2> HIDE DEF R
  <2>3. StopBehind(R, 0)
    BY <2>2 DEF StopBehind
  <2>4. StepOK(R, F, b.c) /\ (F.st # "IDLE" => ZoneOf(t) \in Active)
    BY <1>2, <2>2, <2>3, DispatchOK
  <2> HIDE DEF F
  <2>5. eng.pos = Flat
    BY <1>1, <1>5 DEF Good, PositionOK
  <2>6. QED
    BY <1>2, <1>5, <2>1, <2>2, <2>4, <2>5
    DEF EngStep, StepOK, Tightens, Announced, Obeys
<1>6. QED
  BY <1>4, <1>5

(* A bar past the end of the session tears the trade and the range down.    *)
LEMMA AfterCloseStep ==
  ASSUME Inv, NEW b \in Bars, NEW t \in Time, OnAfterClose(b, t)
  PROVE  EngStep
<1> DEFINE B == Begin(eng, t)
<1>1. Good(eng) /\ eng.st \in States
  BY DEF Inv, TypeOK, Good, PositionInv, RangeInv, Engine
<1>2. /\ Good(B) /\ B.st = eng.st /\ B.pos = eng.pos /\ B.last = t
      /\ B.sig = NoSig /\ B.sid = eng.sid
  BY <1>1, BeginGood
<1>3. SessionId(t) = eng.sid /\ lastClose' = b.c
  BY DEF OnAfterClose
<1>4. /\ eng.st = "BREAKOUT" => eng' = Exit(B, "session_end", "IDLE")
      /\ eng.st = "RANGE_DEFINED" => eng' = [ClearRange(B) EXCEPT !.st = "IDLE"]
      /\ eng.st = "IDLE" => eng' = B
  BY DEF OnAfterClose, AfterClose
<1> HIDE DEF B
<1>5. CASE eng.st = "BREAKOUT"
  <2>1. /\ Good(eng') /\ eng'.st = "IDLE" /\ eng'.pos = Flat /\ eng'.last = t
        /\ eng'.sid = eng.sid /\ eng'.sig.kind = "EXIT"
        /\ eng'.sig.reason # "take_profit_partial"
    BY <1>2, <1>4, <1>5, ExitGood
  <2>2. eng.pos # Flat
    BY <1>1, <1>5 DEF Good, PositionOK
  <2>3. QED
    BY <1>3, <2>1, <2>2
    DEF EngStep, OutsideRange, StopBehind, Tightens, Announced, Obeys
<1>6. CASE eng.st # "BREAKOUT"
  <2>1. /\ eng' \in Engine /\ eng'.st = "IDLE" /\ eng'.pos = B.pos
        /\ eng'.last = t /\ eng'.sid = eng.sid /\ eng'.sig = NoSig
        /\ RangeOK(eng')
    <3>1. CASE eng.st = "IDLE"
      BY <1>2, <1>4, <3>1 DEF Good
    <3>2. CASE eng.st = "RANGE_DEFINED"
      <4> DEFINE C == ClearRange(B)
      <4>1. /\ C \in Engine /\ C.bars = 0 /\ ~C.locked /\ C.pos = B.pos
            /\ C.last = B.last /\ C.sid = B.sid /\ C.sig = B.sig
        BY <1>2, ClearedEngine DEF Good
      <4>2. eng' = [C EXCEPT !.st = "IDLE"]
        BY <1>4, <3>2
      <4> HIDE DEF C
      <4>3. /\ eng' \in Engine /\ eng'.st = "IDLE" /\ eng'.pos = C.pos
            /\ eng'.last = C.last /\ eng'.sid = C.sid /\ eng'.sig = C.sig
            /\ eng'.bars = C.bars /\ eng'.locked = C.locked
        BY <4>1, <4>2 DEF Engine, States
      <4>4. QED
        BY <1>2, <4>1, <4>3, ClockAssumption DEF RangeOK
    <3>3. QED
      BY <1>1, <1>6, <3>1, <3>2 DEF States
  <2>2. eng.pos = Flat
    BY <1>1, <1>6 DEF Good, PositionOK
  <2>3. QED
    BY <1>2, <1>3, <2>1, <2>2
    DEF EngStep, Good, PositionOK, OutsideRange, StopBehind, Tightens, Announced, Obeys,
        NoSig
<1>7. QED
  BY <1>5, <1>6

(* Inside the session an armed engine stays inside it.                      *)
LEMMA StillInSession ==
  ASSUME Inv, NEW t \in Time, Accepted(t), SessionId(t) = eng.sid,
         ZoneOf(t) # "AFTER", eng.st # "IDLE"
  PROVE  ZoneOf(t) \in Active
<1>1. /\ eng.last \in Time /\ eng.sid # NoSession
      /\ ZoneOf(eng.last) \in Active /\ SessionId(eng.last) = eng.sid
  BY DEF Inv, TypeOK, Engine
<1>2. Later(t, eng.last)
  BY <1>1 DEF Accepted
<1>3. ZoneOf(t) # "BEFORE"
  BY <1>1, <1>2, NeverBeforeAgain
<1>4. QED
  BY <1>3, ClockTypes DEF Zones, Active

(* A bar after a hole in the data: exit, or rebuild the range.              *)
LEMMA GapStep ==
  ASSUME Inv, NEW b \in Bars, NEW t \in Time, OnGap(b, t)
  PROVE  EngStep
<1> DEFINE B == Begin(eng, t)
           H == HandleGapReset(B, ZoneOf(t))
<1>1. Good(eng)
  BY DEF Inv, TypeOK, Good, PositionInv, RangeInv
<1>2. ZoneOf(t) \in Zones /\ SessionId(t) \in Int
  BY ClockTypes
<1>3. SessionId(t) # NoSession
  BY DEF Time, SessionId, NoSession
<1>4. SessionId(t) = eng.sid /\ lastClose' = b.c
  BY DEF OnGap
<1>5. /\ Good(B) /\ B.st = eng.st /\ B.pos = eng.pos /\ B.last = t
      /\ B.sig = NoSig /\ B.sid = eng.sid
  BY <1>1, BeginGood
<1>6. eng' = IF eng.st = "BREAKOUT" THEN H ELSE Dispatch(H, b, ZoneOf(t))
  BY DEF OnGap, GapReset
<1> HIDE DEF B
<1>7. /\ Good(H) /\ H.pos = Flat /\ H.sid = B.sid /\ H.last = B.last
      /\ H.st # "IDLE" => ZoneOf(t) \in Active
      /\ B.st # "BREAKOUT" => H.sig = NoSig
      /\ B.st = "BREAKOUT" => /\ H.sig.kind = "EXIT"
                              /\ H.sig.reason # "take_profit_partial"
  BY <1>2, <1>5, GapResetGood
<1> HIDE DEF H
<1>8. H.st # "BREAKOUT"
  BY <1>7 DEF Good, PositionOK
<1>9. CASE eng.st = "BREAKOUT"
  <2>1. eng.pos # Flat
    BY <1>1, <1>9 DEF Good, PositionOK
  <2>2. eng' = H
    BY <1>6, <1>9
  <2>3. QED
    BY <1>3, <1>4, <1>5, <1>7, <1>8, <1>9, <2>1, <2>2
    DEF EngStep, OutsideRange, StopBehind, Tightens, Announced, Obeys
<1>10. CASE eng.st # "BREAKOUT"
  <2> DEFINE F == Dispatch(H, b, ZoneOf(t))
  <2>1. eng' = F
    BY <1>6, <1>10
  <2>2. StopBehind(H, 0)
    BY <1>8 DEF StopBehind
  <2>3. StepOK(H, F, b.c) /\ (F.st # "IDLE" => ZoneOf(t) \in Active)
    BY <1>2, <1>5, <1>7, <1>10, <2>2, DispatchOK
  <2> HIDE DEF F
  <2>4. eng.pos = Flat
    BY <1>1, <1>10 DEF Good, PositionOK
  <2>5. QED
    BY <1>3, <1>4, <1>5, <1>7, <1>10, <2>1, <2>3, <2>4
    DEF EngStep, StepOK, Tightens, Announced, Obeys
<1>11. QED
  BY <1>9, <1>10

(* An ordinary bar of the session.                                          *)
LEMMA BarStep ==
  ASSUME Inv, NEW b \in Bars, NEW t \in Time, OnBar(b, t)
  PROVE  EngStep
<1> DEFINE B == Begin(eng, t)
           F == Dispatch(B, b, ZoneOf(t))
<1>1. Good(eng) /\ StopBehind(eng, lastClose)
  BY DEF Inv, TypeOK, Good, PositionInv, RangeInv, StopBehindClose
<1>2. ZoneOf(t) \in Zones /\ SessionId(t) \in Int
  BY ClockTypes
<1>3. SessionId(t) # NoSession
  BY DEF Time, SessionId, NoSession
<1>4. SessionId(t) = eng.sid /\ lastClose' = b.c /\ eng' = F
  BY DEF OnBar
<1>5. /\ Good(B) /\ B.st = eng.st /\ B.pos = eng.pos /\ B.last = t
      /\ B.sig = NoSig /\ B.sid = eng.sid
  BY <1>1, BeginGood
<1>6. eng.st # "IDLE" => ZoneOf(t) \in Active
  BY StillInSession DEF OnBar
<1> HIDE DEF B
<1>7. StopBehind(B, lastClose)
  BY <1>1, <1>5 DEF StopBehind
<1>8. StepOK(B, F, b.c) /\ (F.st # "IDLE" => ZoneOf(t) \in Active)
  BY <1>2, <1>5, <1>6, <1>7, DispatchOK
<1> HIDE DEF F
<1>9. QED
  BY <1>3, <1>4, <1>5, <1>8 DEF EngStep, StepOK, Tightens, Announced, Obeys

(* The broker closed the position: force_flat drops and re-arms.            *)
LEMMA ForceFlatStep ==
  ASSUME Inv, ForceFlat
  PROVE  EngStep
<1> DEFINE B == [eng EXCEPT !.sig = NoSig]
<1>1. Good(eng) /\ eng \in Engine /\ eng.pos # Flat /\ eng.st = "BREAKOUT"
  BY DEF Inv, TypeOK, Good, PositionInv, RangeInv, ForceFlat, PositionOK
<1>2. NoSig \in SigType
  BY DEF NoSig, SigType
<1>3. /\ B \in Engine /\ B.sig = NoSig
      /\ B.locked = eng.locked /\ B.rebuild = eng.rebuild /\ B.bars = eng.bars
      /\ B.hi = eng.hi /\ B.lo = eng.lo /\ B.st = eng.st /\ B.pos = eng.pos
      /\ B.sid = eng.sid /\ B.fed = eng.fed /\ B.last = eng.last
  BY <1>1, <1>2 DEF Engine
<1>4. eng' = Exit(B, "broker_closed", PostExitState(eng))
      /\ lastClose' = lastClose
  BY DEF ForceFlat, ForceFlatOf
<1> HIDE DEF B
<1>5. Good(B)
  BY <1>1, <1>3 DEF Good, PositionOK, RangeOK, Warm
<1>6. PostExitState(eng) \in {"IDLE", "RANGE_DEFINED"}
  BY DEF PostExitState
<1>7. /\ Good(eng') /\ eng'.st \in {"IDLE", "RANGE_DEFINED"}
      /\ eng'.pos = Flat /\ eng'.last = eng.last /\ eng'.sid = eng.sid
      /\ eng'.sig.kind = "EXIT" /\ eng'.sig.reason # "take_profit_partial"
  BY <1>1, <1>3, <1>4, <1>5, <1>6, ExitGood
<1>8. QED
  BY <1>1, <1>7
  DEF Inv, EngStep, OutsideRange, StopBehind, Tightens, Announced, Obeys

(* A rejected bar changes nothing but the last signal.                      *)
LEMMA RejectStep ==
  ASSUME Inv, RejectCandle
  PROVE  EngStep
<1>1. Good(eng) /\ eng \in Engine
  BY DEF Inv, TypeOK, Good, PositionInv, RangeInv
<1>2. NoSig \in SigType
  BY DEF NoSig, SigType
<1>3. /\ eng' \in Engine /\ eng'.sig = NoSig
      /\ eng'.locked = eng.locked /\ eng'.rebuild = eng.rebuild
      /\ eng'.bars = eng.bars /\ eng'.hi = eng.hi /\ eng'.lo = eng.lo
      /\ eng'.st = eng.st /\ eng'.pos = eng.pos
      /\ eng'.sid = eng.sid /\ eng'.fed = eng.fed /\ eng'.last = eng.last
      /\ lastClose' = lastClose
  BY <1>1, <1>2 DEF RejectCandle, Engine
<1>4. Good(eng')
  BY <1>1, <1>3 DEF Good, PositionOK, RangeOK, Warm
<1>5. eng.pos.stop \in Int
  BY <1>1 DEF Engine, Position
<1>6. QED
  BY <1>3, <1>4, <1>5
  DEF Inv, EngStep, HeldOutsideRange, StopBehindClose, OutsideRange, StopBehind,
      Tightens, Announced, Obeys, NoSig

-----------------------------------------------------------------------------
(* The pace of a session: why one trade per session holds.  Bars of one     *)
(* session come at distinct minutes, so a range cannot be complete before   *)
(* the window is over but for its last minute, an entry comes after it, and *)
(* an engine that went idle after its trade meets no further window.        *)

(* Minutes since the open of the session that owns t. *)
Elapsed(t) == IF InPrevSession(t) THEN SincePrevOpen(t) ELSE SinceOpen(t)

(* The engine has no more bars of range than the minutes so far, and a      *)
(* locked range only from the last minute of the window on.                 *)
Paced(e, n) ==
  e.st # "IDLE" => e.bars <= n + 1 /\ (e.locked => n + 1 >= RangeMin)

(* What a dispatch at minute n does to the pace: it enters only from an     *)
(* armed engine after the window, and under one_trade_per_session it arms   *)
(* an engine only inside the window.                                        *)
PaceOK(e, f, n) ==
  /\ Paced(f, n)
  /\ f.sig.kind = "ENTRY" => e.st = "RANGE_DEFINED" /\ n >= RangeMin
  /\ OneTrade /\ f.st = "RANGE_DEFINED" => e.st = "RANGE_DEFINED" \/ n < RangeMin

(* Later bars of a session are more minutes from its open, also across      *)
(* midnight.                                                                *)
LEMMA ElapsedGrows ==
  ASSUME NEW t \in Time, NEW u \in Time, Later(t, u), SessionId(t) = SessionId(u)
  PROVE  Elapsed(t) > Elapsed(u)
<1>1. /\ t.d \in Nat /\ u.d \in Nat
      /\ t.m \in 0 .. DayMin - 1 /\ u.m \in 0 .. DayMin - 1
  BY DEF Time
<1>2. CASE InPrevSession(t) /\ InPrevSession(u)
  BY <1>1, <1>2, ClockAssumption DEF Elapsed, SessionId, SincePrevOpen, Later
<1>3. CASE InPrevSession(t) /\ ~InPrevSession(u)
  BY <1>1, <1>3, ClockAssumption DEF Elapsed, SessionId, SinceOpen, SincePrevOpen, Later
<1>4. CASE ~InPrevSession(t) /\ InPrevSession(u)
  BY <1>1, <1>4 DEF SessionId, Later
<1>5. CASE ~InPrevSession(t) /\ ~InPrevSession(u)
  BY <1>1, <1>5, ClockAssumption DEF Elapsed, SessionId, SinceOpen, Later
<1>6. QED
  BY <1>2, <1>3, <1>4, <1>5

(* The zone of a bar says where its minute lies.                            *)
LEMMA ZoneElapsed ==
  ASSUME NEW t \in Time
  PROVE  /\ Elapsed(t) \in Int
         /\ ZoneOf(t) \in Active => Elapsed(t) >= 0
         /\ ZoneOf(t) = "IN_RANGE_WINDOW" => Elapsed(t) < RangeMin
         /\ ZoneOf(t) = "IN_SESSION" => Elapsed(t) >= RangeMin
<1>1. t.d \in Nat /\ t.m \in 0 .. DayMin - 1
  BY DEF Time
<1>2. CASE InPrevSession(t)
  BY <1>1, <1>2, ClockAssumption
  DEF Elapsed, ZoneOf, ZoneWithin, Active, InPrevSession, SincePrevOpen, SinceOpen
<1>3. CASE ~InPrevSession(t)
  BY <1>1, <1>3, ClockAssumption
  DEF Elapsed, ZoneOf, ZoneWithin, Active, SincePrevOpen, SinceOpen
<1>4. QED
  BY <1>2, <1>3

(* Managing a position never adds to the range, and after an exit under     *)
(* one_trade_per_session the engine is idle (_post_exit_state).             *)
LEMMA OnBreakoutPace ==
  ASSUME NEW e, Good(e), e.st = "BREAKOUT", e.sig = NoSig, NEW b \in Bars,
         NEW n \in Int, Paced(e, n - 1)
  PROVE  PaceOK(e, OnBreakout(e, b), n)
<1> DEFINE f == OnBreakout(e, b)
<1>1. e \in Engine /\ e.bars \in Int /\ e.bars <= n /\ (e.locked => n >= RangeMin)
      /\ RangeMin \in Int
  BY ClockAssumption DEF Good, Engine, Paced
<1>2. ASSUME NEW r \in {"range_reentry", "take_profit", "trail_stop"},
             f = Exit(e, r, PostExitState(e))
      PROVE  PaceOK(e, f, n)
  <2>1. /\ PostExitState(e) \in {"IDLE", "RANGE_DEFINED"}
        /\ OneTrade => PostExitState(e) = "IDLE"
    BY DEF PostExitState
  <2>2. /\ f.st = PostExitState(e) /\ f.sig.kind = "EXIT" /\ Good(f)
        /\ f.bars <= e.bars /\ (f.locked => e.locked)
    BY <1>2, <2>1, ExitGood
  <2> HIDE DEF f
  <2>3. f.bars \in Int
    BY <2>2 DEF Good, Engine
  <2>4. QED
    BY <1>1, <2>1, <2>2, <2>3 DEF PaceOK, Paced
<1>3. ASSUME f.st = e.st, f.bars = e.bars, f.locked = e.locked,
             f.sig.kind # "ENTRY"
      PROVE  PaceOK(e, f, n)
  <2> HIDE DEF f
  <2>1. QED
    BY <1>1, <1>3 DEF PaceOK, Paced
<1>4. f = PartialTp(e) => PaceOK(e, f, n)
  <2> SUFFICES ASSUME f = PartialTp(e) PROVE PaceOK(e, f, n)
    OBVIOUS
  <2> DEFINE s == Signal("EXIT", e.pos.dir, "take_profit_partial")
             p == [dir |-> e.pos.dir, stop |-> e.pos.stop, hasTp |-> FALSE, tp |-> 0]
  <2>1. PartialTp(e) = [e EXCEPT !.sig = s, !.pos = p]
    BY DEF PartialTp
  <2>2. s.kind = "EXIT"
    BY DEF Signal
  <2> HIDE DEF s, p
  <2>3. f.st = e.st /\ f.bars = e.bars /\ f.locked = e.locked /\ f.sig = s
    BY <1>1, <2>1 DEF Engine
  <2>4. QED
    BY <1>3, <2>2, <2>3
<1>5. f = Ratchet(e, b) => PaceOK(e, f, n)
  <2> SUFFICES ASSUME f = Ratchet(e, b) PROVE PaceOK(e, f, n)
    OBVIOUS
  <2>1. \E x : Ratchet(e, b) = [e EXCEPT !.pos = x]
    <3>1. e.pos \in Position
      BY <1>1 DEF Engine
    <3>2. Ratchet(e, b) = [e EXCEPT !.pos = Ratchet(e, b).pos]
      BY <1>1, <3>1 DEF Ratchet, Engine, Position
    <3>3. QED
      BY <3>2
  <2>2. f.st = e.st /\ f.bars = e.bars /\ f.locked = e.locked /\ f.sig = e.sig
    BY <1>1, <2>1 DEF Engine
  <2>3. QED
    BY <1>3, <2>2 DEF NoSig
<1>6. QED
  BY <1>2, <1>4, <1>5 DEF OnBreakout

(* The first bar of the window: one bar of range, locked only if one minute *)
(* is the whole window.                                                     *)
LEMMA OnIdlePace ==
  ASSUME NEW e, Good(e), e.st = "IDLE", e.sig = NoSig, NEW b \in Bars, NEW zone,
         NEW n \in Int,
         zone = "IN_RANGE_WINDOW" => n >= 0 /\ n < RangeMin
  PROVE  PaceOK(e, OnIdle(e, b, zone), n)
<1>1. e \in Engine /\ e.pos = Flat
  BY DEF Good, PositionOK
<1>2. b.h \in Nat /\ b.l \in Nat /\ b.c \in Nat /\ b.l <= b.c /\ b.c <= b.h
  BY EngineAssumption DEF Bars
<1>3. CASE zone = "IN_RANGE_WINDOW"
  <2> DEFINE g == [e EXCEPT !.hi = b.h, !.lo = b.l, !.bars = 1,
                            !.locked = FALSE, !.st = "RANGE_DEFINED"]
             f == MaybeLock(g)
  <2>1. 1 \in 0 .. RangeMin /\ "RANGE_DEFINED" \in States
    BY ClockAssumption DEF States
  <2>2. /\ g \in Engine /\ g.st = "RANGE_DEFINED" /\ g.pos = e.pos
        /\ ~g.locked /\ g.bars = 1 /\ g.hi = b.h /\ g.lo = b.l /\ g.sig = e.sig
    BY <1>1, <1>2, <2>1 DEF Engine
  <2>3. OnIdle(e, b, zone) = f
    BY <1>3 DEF OnIdle
  <2> HIDE DEF g
  <2>4. f.bars = 1 /\ (f.locked => f.bars >= RangeMin) /\ f.sig = e.sig
    BY <1>1, <1>2, <2>2, MaybeLockGood
  <2> HIDE DEF f
  <2>5. QED
    BY <1>3, <2>3, <2>4, ClockAssumption DEF PaceOK, Paced, NoSig
<1>4. CASE zone # "IN_RANGE_WINDOW"
  BY <1>4 DEF OnIdle, PaceOK, Paced, NoSig
<1>5. QED
  BY <1>3, <1>4

(* Judging a breakout leaves the range as it is.                            *)
LEMMA CheckBreakoutPace ==
  ASSUME NEW e, Good(e), e.st = "RANGE_DEFINED", e.sig = NoSig, NEW b \in Bars,
         NEW n \in Int, Paced(e, n), n >= RangeMin
  PROVE  PaceOK(e, CheckBreakout(e, b), n)
<1> DEFINE f == CheckBreakout(e, b)
<1>1. e \in Engine
  BY DEF Good
<1>2. f.bars = e.bars /\ f.locked = e.locked
  BY <1>1 DEF CheckBreakout, OpenPosition, Engine
<1>3. QED
  BY <1>2, ClockAssumption DEF PaceOK, Paced

(* A range under construction grows by one bar; a locked one may be broken. *)
LEMMA OnRangeDefinedPace ==
  ASSUME NEW e, Good(e), e.st = "RANGE_DEFINED", e.sig = NoSig, NEW b \in Bars,
         NEW zone \in Active, NEW n \in Nat,
         zone = "IN_SESSION" => n >= RangeMin, Paced(e, n - 1)
  PROVE  PaceOK(e, OnRangeDefined(e, b, zone), n)
<1>1. /\ e \in Engine /\ e.pos = Flat /\ e.hi \in Nat /\ e.lo \in Nat
      /\ e.bars \in 0 .. RangeMin /\ e.bars \in Int
      /\ e.bars <= n /\ (e.locked => n >= RangeMin) /\ RangeMin \in Nat \ {0}
  BY ClockAssumption DEF Good, PositionOK, Engine, Paced
<1>2. b.h \in Nat /\ b.l \in Nat /\ b.c \in Nat /\ b.l <= b.c /\ b.c <= b.h
  BY EngineAssumption DEF Bars
<1>3. CASE (zone = "IN_RANGE_WINDOW" \/ e.rebuild) /\ ~e.locked
  <2> DEFINE g == ExtendRange(e, b)
             f == MaybeLock(g)
             hi2 == IF e.bars = 0 THEN b.h ELSE MaxOf(e.hi, b.h)
             lo2 == IF e.bars = 0 THEN b.l ELSE MinOf(e.lo, b.l)
             n2 == e.bars + 1
  <2>1. OnRangeDefined(e, b, zone) = f
    BY <1>3 DEF OnRangeDefined
  <2>2. e.bars < RangeMin /\ (e.bars > 0 => e.lo <= e.hi)
    BY <1>3 DEF Good, RangeOK
  <2>3. /\ hi2 \in Nat /\ lo2 \in Nat /\ lo2 <= hi2
        /\ n2 \in 0 .. RangeMin /\ n2 > 0
    BY <1>1, <1>2, <2>2 DEF MaxOf, MinOf
  <2>4. g = [e EXCEPT !.hi = hi2, !.lo = lo2, !.bars = n2]
    <3>1. CASE e.bars = 0
      BY <3>1 DEF ExtendRange
    <3>2. CASE e.bars # 0
      <4> DEFINE hi3 == MaxOf(e.hi, b.h)
                 lo3 == MinOf(e.lo, b.l)
                 n3 == e.bars + 1
      <4>1. g = [e EXCEPT !.hi = hi3, !.lo = lo3, !.bars = n3]
        BY <1>1, <3>2 DEF ExtendRange, Engine
      <4>2. hi2 = hi3 /\ lo2 = lo3 /\ n2 = n3
        BY <3>2
      <4>3. QED
        BY <4>1, <4>2
    <3>3. QED
      BY <3>1, <3>2
  <2>n. n2 = e.bars + 1
    OBVIOUS
  <2> HIDE DEF hi2, lo2, n2, g
  <2>5. /\ g \in Engine /\ g.hi = hi2 /\ g.lo = lo2 /\ g.bars = n2 /\ g.sig = e.sig
        /\ g.st = e.st /\ g.pos = e.pos /\ g.locked = e.locked
    BY <1>1, <2>3, <2>4 DEF Engine
  <2>6. f.bars = n2 /\ (f.locked => f.bars >= RangeMin) /\ f.sig = e.sig
    BY <1>1, <1>3, <2>3, <2>5, MaybeLockGood
  <2> HIDE DEF f
  <2>7. QED
    BY <1>1, <2>1, <2>n, <2>6 DEF PaceOK, Paced, NoSig
<1>4. CASE ~((zone = "IN_RANGE_WINDOW" \/ e.rebuild) /\ ~e.locked)
  <2> DEFINE g == IF zone = "IN_SESSION" /\ ~e.locked THEN LockRange(e) ELSE e
             f == IF Warm(g) THEN CheckBreakout(g, b) ELSE g
  <2>1. OnRangeDefined(e, b, zone) = f
    BY <1>4 DEF OnRangeDefined
  <2>2. n >= RangeMin
    BY <1>1, <1>4 DEF Active
  <2>3. Good(g) /\ g.st = e.st /\ g.bars = e.bars /\ g.sig = NoSig
    <3>1. CASE e.locked
      BY <3>1
    <3>2. CASE ~e.locked
      <4>1. zone = "IN_SESSION" /\ ~e.rebuild
        BY <1>4, <3>2 DEF Active
      <4>2. e.bars > 0 /\ e.lo <= e.hi
        BY <1>1, <4>1 DEF Good, RangeOK
      <4>3. g = LockRange(e)
        BY <3>2, <4>1
      <4>4. /\ g \in Engine /\ g.locked /\ ~g.rebuild /\ g.bars = e.bars
            /\ g.hi = e.hi /\ g.lo = e.lo /\ g.st = e.st /\ g.pos = e.pos
            /\ g.sig = e.sig
        BY <1>1, <4>3 DEF LockRange, Engine
      <4> HIDE DEF g
      <4>5. QED
        BY <1>1, <4>2, <4>4 DEF Good, PositionOK, RangeOK
    <3>3. QED
      BY <3>1, <3>2
  <2> HIDE DEF g
  <2>4. Paced(g, n)
    BY <1>1, <2>2, <2>3 DEF Paced
  <2>5. CASE Warm(g)
    <3>1. PaceOK(g, f, n)
      BY <2>2, <2>3, <2>4, <2>5, CheckBreakoutPace
    <3> HIDE DEF f
    <3>2. QED
      BY <2>1, <2>3, <3>1 DEF PaceOK
  <2>6. CASE ~Warm(g)
    BY <2>1, <2>3, <2>4, <2>6 DEF PaceOK, NoSig
  <2>7. QED
    BY <2>5, <2>6
<1>5. QED
  BY <1>3, <1>4

(* Feeding and dispatching keeps the pace.                                  *)
LEMMA DispatchPace ==
  ASSUME NEW e, Good(e), e.sig = NoSig, NEW b \in Bars, NEW zone \in Zones,
         e.st # "IDLE" => zone \in Active, NEW n \in Int, Paced(e, n - 1),
         zone \in Active => n >= 0,
         zone = "IN_RANGE_WINDOW" => n < RangeMin,
         zone = "IN_SESSION" => n >= RangeMin
  PROVE  PaceOK(e, Dispatch(e, b, zone), n)
<1> DEFINE g == IF zone \in Active THEN [e EXCEPT !.fed = MinOf(@ + 1, WarmBars)]
                                   ELSE e
           f == Dispatch(e, b, zone)
<1>1. e \in Engine /\ e.st \in States /\ e.fed \in 0 .. WarmBars
  BY DEF Good, Engine
<1>2. MinOf(e.fed + 1, WarmBars) \in 0 .. WarmBars
      /\ MinOf(e.fed + 1, WarmBars) >= e.fed
  BY <1>1, EngineAssumption DEF MinOf
<1>3. /\ g \in Engine /\ g.fed >= e.fed
      /\ g.locked = e.locked /\ g.rebuild = e.rebuild /\ g.bars = e.bars
      /\ g.hi = e.hi /\ g.lo = e.lo /\ g.st = e.st /\ g.pos = e.pos /\ g.sig = e.sig
  <2>1. CASE zone \in Active
    BY <1>1, <1>2, <2>1 DEF Engine
  <2>2. CASE zone \notin Active
    BY <1>1, <2>2
  <2>3. QED
    BY <2>1, <2>2
<1>4. f = CASE g.st = "IDLE" -> OnIdle(g, b, zone)
            [] g.st = "RANGE_DEFINED" -> OnRangeDefined(g, b, zone)
            [] g.st = "BREAKOUT" -> OnBreakout(g, b)
  BY DEF Dispatch
<1>5. g.fed \in Nat /\ e.fed \in Nat /\ WarmBars \in Nat
  BY <1>1, <1>3, EngineAssumption DEF Engine
<1> HIDE DEF g, f
<1>6. Good(g) /\ Paced(g, n - 1)
  BY <1>3, <1>5 DEF Good, PositionOK, RangeOK, Warm, Paced
<1>7. PaceOK(g, f, n)
  <2>1. CASE g.st = "IDLE"
    BY <1>3, <1>4, <1>6, <2>1, OnIdlePace DEF Active
  <2>2. CASE g.st = "RANGE_DEFINED"
    <3>1. zone \in Active /\ n \in Nat
      BY <1>3, <2>2
    <3>2. f = OnRangeDefined(g, b, zone)
      BY <1>4, <2>2
    <3>3. QED
      BY <1>3, <1>6, <2>2, <3>1, <3>2, OnRangeDefinedPace
  <2>3. CASE g.st = "BREAKOUT"
    BY <1>3, <1>4, <1>6, <2>3, OnBreakoutPace
  <2>4. QED
    BY <1>1, <1>3, <2>1, <2>2, <2>3 DEF States
<1>8. QED
  BY <1>3, <1>7 DEF PaceOK, f

-----------------------------------------------------------------------------
(* The counters and the last close keep their types.                        *)
LEMMA HistoryTypes ==
  ASSUME Inv, Next
  PROVE  lastClose' \in Prices \cup {0} /\ trades' \in Nat
<1>1. lastClose \in Prices \cup {0} /\ trades \in Nat
  BY DEF Inv, TypeOK
<1>2. ASSUME NEW b \in Bars, NEW t, OnCandle(b, t)
      PROVE  lastClose' \in Prices /\ trades' \in Nat
  <2>1. b.c \in Prices /\ lastClose' = b.c
    BY <1>2 DEF OnCandle, OnNewSession, OnAfterClose, OnGap, OnBar, Bars
  <2>2. \E x \in BOOLEAN : CountTrades(x)
    BY <1>2 DEF OnCandle, OnNewSession, OnAfterClose, OnGap, OnBar
  <2>3. QED
    BY <1>1, <2>1, <2>2 DEF CountTrades
<1>3. QED
  BY <1>1, <1>2 DEF Next, NextCandle, RejectCandle, ForceFlat

(* Every step of the specification is a legal step of the engine.           *)
LEMMA NextStep ==
  ASSUME Inv, Next
  PROVE  EngStep
<1>1. ASSUME NEW b \in Bars, NEW t \in Timeline, OnCandle(b, t)
      PROVE  EngStep
  <2>1. t \in Time
    BY EngineAssumption DEF Timeline, Time
  <2>2. OnNewSession(b, t) => EngStep
    BY <2>1, NewSessionStep
  <2>3. OnAfterClose(b, t) => EngStep
    BY <2>1, AfterCloseStep
  <2>4. OnGap(b, t) => EngStep
    BY <2>1, GapStep
  <2>5. OnBar(b, t) => EngStep
    BY <2>1, BarStep
  <2>6. QED
    BY <1>1, <2>2, <2>3, <2>4, <2>5 DEF OnCandle
<1>2. QED
  BY <1>1, ForceFlatStep, RejectStep DEF Next, NextCandle

(* Inv is inductive.                                                        *)
LEMMA InvInductive == Inv /\ [Next]_vars => Inv'
<1> SUFFICES ASSUME Inv, [Next]_vars PROVE Inv'
  OBVIOUS
<1>1. CASE Next
  BY <1>1, NextStep, HistoryTypes
  DEF EngStep, Good, Inv, TypeOK, PositionInv, RangeInv, HeldOutsideRange,
      StopBehindClose
<1>2. CASE UNCHANGED vars
  BY <1>2
  DEF vars, Inv, TypeOK, PositionInv, RangeInv, HeldOutsideRange, StopBehindClose
<1>3. QED
  BY <1>1, <1>2

(* A freshly constructed engine satisfies the invariant.                    *)
LEMMA InitInv == Init => Inv
<1> SUFFICES ASSUME Init PROVE Inv
  OBVIOUS
<1>1. /\ 0 \in 0 .. DayMin - 1 /\ 0 \in 0 .. RangeMin /\ 0 \in 0 .. WarmBars
      /\ RangeMin > 0
  BY ClockAssumption, EngineAssumption
<1>2. Flat \in Position /\ NoSig \in SigType /\ [d |-> 0, m |-> 0] \in Time
  BY <1>1 DEF Flat, Position, NoSig, SigType, Time
<1>3. InitEng \in Engine
  BY <1>1, <1>2 DEF InitEng, Engine, States, NoSession
<1>4. TypeOK
  BY <1>3 DEF Init, TypeOK
<1>5. QED
  BY <1>1, <1>4
  DEF Init, InitEng, Inv, PositionInv, PositionOK, RangeInv, RangeOK,
      HeldOutsideRange, OutsideRange, StopBehindClose, StopBehind, NoSession

(* Inv holds in every reachable state of the engine.                        *)
THEOREM Invariance == Spec => []Inv
<1>1. QED
  BY InitInv, InvInductive, PTL DEF Spec

(* Every attribute of the engine keeps its type; in particular the building *)
(* of a range stops at range_minutes bars.                                  *)
THEOREM TypeCorrect == Spec => []TypeOK
<1>1. Inv => TypeOK
  BY DEF Inv
<1>2. QED
  BY <1>1, Invariance, PTL

(* State, position, range and session agree in every reachable state: a     *)
(* position exists exactly in BREAKOUT, on a locked range and with warm     *)
(* indicators; an armed engine has a range or is rebuilding one; and it is  *)
(* armed or in a trade only inside its session (on_candle, force_flat).     *)
THEOREM Coherent == Spec => []Coherence
<1>1. Inv => Coherence
  BY DEF Inv, Coherence, SessionInv
<1>2. QED
  BY <1>1, Invariance, PTL

(* A held position is outside the broken range with its stop behind price   *)
(* (_on_breakout).                                                          *)
THEOREM HeldPositions == Spec => []HeldTrade
<1>1. Inv => HeldTrade
  BY DEF Inv, HeldTrade
<1>2. QED
  BY <1>1, Invariance, PTL

(* No step loosens the stop of a position that stays open.                  *)
THEOREM StopMonotone == Spec => StopNeverLoosens
<1>1. Inv /\ [Next]_vars => [Tightens(eng, eng')]_vars
  BY NextStep DEF EngStep
<1>2. QED
  BY <1>1, Invariance, PTL DEF Spec, StopNeverLoosens

(* No step opens or drops a position without the matching signal.           *)
THEOREM SignalsComplete == Spec => EveryChangeAnnounced
<1>1. Inv /\ [Next]_vars => [Announced(eng, eng')]_vars
  BY NextStep DEF EngStep
<1>2. QED
  BY <1>1, Invariance, PTL DEF Spec, EveryChangeAnnounced

(* Seen through its position and its signals, every step is one of the      *)
(* contract's or changes neither.                                           *)
LEMMA ContractStep ==
  ASSUME Inv, Next
  PROVE  Contract!CNext
<1>1. EngStep
  BY NextStep
<1>2. /\ Good(eng) /\ Good(eng')
  BY <1>1 DEF EngStep, Inv, TypeOK, PositionInv, RangeInv, Good
<1>3. /\ eng.pos = Flat \/ (eng.st = "BREAKOUT" /\ eng.pos.dir \in Directions)
      /\ eng'.pos = Flat \/ (eng'.st = "BREAKOUT" /\ eng'.pos.dir \in Directions)
      /\ eng.pos.stop \in Int /\ eng'.pos.stop \in Int
      /\ eng'.sig.kind \in {"none", "ENTRY", "EXIT", "REJECT"}
  BY <1>2 DEF Good, PositionOK, Allowed, Directions, Engine, Position, SigType
<1>4. /\ eng.pos = Flat => BelievedTrade = Contract!NoTrade
      /\ eng'.pos = Flat => BelievedTrade' = Contract!NoTrade
      /\ eng.pos # Flat => BelievedTrade \in Contract!Trades
      /\ eng'.pos # Flat => BelievedTrade' \in Contract!Trades
      /\ BelievedTrade.dir = eng.pos.dir /\ BelievedTrade.stop = eng.pos.stop
      /\ BelievedTrade'.dir = eng'.pos.dir /\ BelievedTrade'.stop = eng'.pos.stop
  BY <1>3 DEF BelievedTrade, Contract!NoTrade, Contract!Trades, Flat, Directions
<1>5. /\ eng.pos # Flat => BelievedTrade # Contract!NoTrade
  BY <1>3, <1>4 DEF Contract!NoTrade, Directions
<1>6. SignalKind' = IF eng'.sig.reason = "take_profit_partial" THEN "PARTIAL"
                    ELSE eng'.sig.kind
  BY DEF SignalKind
<1>7. Announced(eng, eng') /\ Obeys(eng, eng') /\ Tightens(eng, eng')
  BY <1>1 DEF EngStep
<1>8. CASE eng.pos = Flat /\ eng'.pos = Flat
  <2>1. SignalKind' \in {"none", "REJECT"}
    BY <1>3, <1>6, <1>7, <1>8 DEF Announced, Obeys
  <2>2. QED
    BY <1>4, <1>8, <2>1 DEF Contract!CNext, Contract!Wait
<1>9. CASE eng.pos = Flat /\ eng'.pos # Flat
  <2>1. SignalKind' = "ENTRY"
    BY <1>6, <1>7, <1>9 DEF Announced, Obeys
  <2>2. QED
    BY <1>4, <1>9, <2>1 DEF Contract!CNext, Contract!Enter
<1>10. CASE eng.pos # Flat /\ eng'.pos = Flat
  <2>1. SignalKind' = "EXIT"
    BY <1>6, <1>7, <1>10 DEF Announced
  <2>2. QED
    BY <1>4, <1>5, <1>10, <2>1 DEF Contract!CNext, Contract!Leave
<1>11. CASE eng.pos # Flat /\ eng'.pos # Flat
  <2>1. CASE eng'.sig.reason = "take_profit_partial"
    <3>1. BelievedTrade' = BelievedTrade
      BY <1>7, <2>1 DEF Obeys, BelievedTrade
    <3>2. QED
      BY <1>5, <1>6, <1>11, <2>1, <3>1 DEF Contract!CNext, Contract!PartialExit
  <2>2. CASE eng'.sig.reason # "take_profit_partial"
    <3>1. SignalKind' = "none"
      BY <1>3, <1>6, <1>7, <1>11, <2>2 DEF Announced, Obeys
    <3>2. Contract!NoLooser(BelievedTrade, BelievedTrade')
      BY <1>3, <1>4, <1>7, <1>11 DEF Contract!NoLooser, Tightens
    <3>3. QED
      BY <1>4, <1>5, <1>11, <3>1, <3>2 DEF Contract!CNext, Contract!Hold
  <2>3. QED
    BY <2>1, <2>2
<1>12. QED
  BY <1>8, <1>9, <1>10, <1>11

(* The engine implements the contract the live loop is written against: an  *)
(* entry, a hold with a stop no looser, a partial exit that leaves the      *)
(* position alone, a full exit, or nothing (on_candle, force_flat).         *)
THEOREM Refinement == Spec => ImplementsContract
<1>1. Init => Contract!CInit
  BY DEF Init, InitEng, NoSig, Contract!CInit, Contract!NoTrade, Flat,
         BelievedTrade, SignalKind
<1>2. Inv /\ [Next]_vars => [Contract!CNext]_(Contract!cvars)
  <2>1. UNCHANGED vars => UNCHANGED Contract!cvars
    BY DEF vars, Contract!cvars, BelievedTrade, SignalKind
  <2>2. QED
    BY <2>1, ContractStep
<1>3. QED
  BY <1>1, <1>2, Invariance, PTL DEF Spec, ImplementsContract, Contract!CSpec

-----------------------------------------------------------------------------
(* The inductive invariant of the trade policy: the pace of the engine, an  *)
(* entry only after the window, and an armed engine that has not traded.    *)
TradeInv ==
  /\ Paced(eng, Elapsed(eng.last))
  /\ trades > 0 => Elapsed(eng.last) >= RangeMin
  /\ OneTrade => trades <= 1 /\ (eng.st = "RANGE_DEFINED" => trades = 0)

(* An entry is a call that ends in a position.                              *)
LEMMA EntryHolds ==
  ASSUME EngStep
  PROVE  eng'.sig.kind = "ENTRY" => eng'.st = "BREAKOUT"
<1>1. Announced(eng, eng') /\ Good(eng')
  BY DEF EngStep
<1>2. eng'.sig.kind = "ENTRY" => eng'.pos # Flat /\ eng.pos = Flat
  BY <1>1 DEF Announced
<1>3. QED
  BY <1>1, <1>2 DEF Good, PositionOK

(* One dispatched bar of the session or of a fresh engine f: the pace is    *)
(* kept, and the counter grows only from an armed engine.                   *)
LEMMA CountedDispatch ==
  ASSUME Inv, EngStep, NEW t \in Time, eng'.last = t,
         NEW e, PaceOK(e, eng', Elapsed(t)),
         NEW old \in Nat, trades' = old + (IF eng'.sig.kind = "ENTRY" THEN 1 ELSE 0),
         old > 0 => Elapsed(t) >= RangeMin,
         OneTrade => old <= 1 /\ (e.st = "RANGE_DEFINED" => old = 0)
  PROVE  TradeInv'
<1>1. eng'.sig.kind = "ENTRY" => eng'.st = "BREAKOUT"
  BY EntryHolds
<1>2. CASE eng'.sig.kind = "ENTRY"
  BY <1>1, <1>2, ClockAssumption DEF TradeInv, PaceOK
<1>3. CASE eng'.sig.kind # "ENTRY"
  <2>1. trades' = old
    BY <1>3
  <2>2. Elapsed(t) \in Int /\ RangeMin \in Int
    BY ZoneElapsed, ClockAssumption
  <2>3. QED
    BY <2>1, <2>2 DEF TradeInv, PaceOK
<1>4. QED
  BY <1>2, <1>3

(* A new session starts the count of trades again.                          *)
LEMMA NewSessionTrade ==
  ASSUME Inv, TradeInv, NEW b \in Bars, NEW t \in Time, OnNewSession(b, t)
  PROVE  TradeInv'
<1> DEFINE B == Begin(eng, t)
           R == ResetForNewSession(B, SessionId(t))
<1>1. Good(eng) /\ EngStep
  BY NewSessionStep DEF Inv, TypeOK, Good, PositionInv, RangeInv
<1>2. SessionId(t) \in Int /\ ZoneOf(t) \in Zones
  BY ClockTypes
<1>3. Good(B) /\ B.st = eng.st /\ B.last = t /\ B.sig = NoSig
  BY <1>1, BeginGood
<1>4. trades' = 0 + (IF eng'.sig.kind = "ENTRY" THEN 1 ELSE 0)
  BY DEF OnNewSession, CountTrades
<1>5. CASE eng.st = "BREAKOUT"
  <2> DEFINE X == Exit(B, "session_end", "IDLE")
  <2>1. eng' = ResetForNewSession(X, SessionId(t))
    BY <1>5 DEF OnNewSession, NewSession
  <2> HIDE DEF B
  <2>2. Good(X) /\ X.sig.kind = "EXIT"
    BY <1>3, <1>5, ExitGood
  <2> HIDE DEF X
  <2>3. eng'.st = "IDLE" /\ eng'.sig = X.sig
    BY <1>2, <2>1, <2>2, ResetGood DEF Good
  <2>4. QED
    BY <1>4, <2>2, <2>3 DEF TradeInv, Paced
<1>6. CASE eng.st # "BREAKOUT"
  <2>1. eng' = Dispatch(R, b, ZoneOf(t))
    BY <1>6 DEF OnNewSession, NewSession
  <2> HIDE DEF B
  <2>2. Good(R) /\ R.st = "IDLE" /\ R.last = t /\ R.sig = NoSig
    BY <1>2, <1>3, ResetGood DEF Good
  <2> HIDE DEF R
  <2>3. StepOK(R, eng', b.c) /\ StopBehind(R, 0)
    BY <1>2, <2>1, <2>2, DispatchOK DEF StopBehind
  <2>4. PaceOK(R, eng', Elapsed(t))
    BY <1>2, <2>1, <2>2, ZoneElapsed, DispatchPace DEF Paced
  <2>5. QED
    BY <1>1, <1>4, <2>2, <2>3, <2>4, CountedDispatch DEF StepOK
<1>7. QED
  BY <1>5, <1>6

(* After the close no trade is opened.                                      *)
LEMMA AfterCloseTrade ==
  ASSUME Inv, TradeInv, NEW b \in Bars, NEW t \in Time, OnAfterClose(b, t)
  PROVE  TradeInv'
<1> DEFINE B == Begin(eng, t)
<1>1. Good(eng) /\ EngStep /\ trades \in Nat
  BY AfterCloseStep DEF Inv, TypeOK, Good, PositionInv, RangeInv
<1>2. Good(B) /\ B.st = eng.st /\ B.last = t /\ B.sig = NoSig
  BY <1>1, BeginGood
<1>3. eng'.st = "IDLE" /\ eng'.last = t
  <2>1. /\ eng.st = "BREAKOUT" => eng' = Exit(B, "session_end", "IDLE")
        /\ eng.st = "RANGE_DEFINED" => eng' = [ClearRange(B) EXCEPT !.st = "IDLE"]
        /\ eng.st = "IDLE" => eng' = B
        /\ eng.st \in States
    BY <1>1 DEF OnAfterClose, AfterClose, Good, Engine
  <2> HIDE DEF B
  <2>2. B \in Engine
    BY <1>2 DEF Good
  <2>3. CASE eng.st = "BREAKOUT"
    BY <1>2, <2>1, <2>3, ExitGood
  <2>4. CASE eng.st = "RANGE_DEFINED"
    BY <1>2, <2>1, <2>2, <2>4 DEF ClearRange, Engine
  <2>5. QED
    BY <1>2, <2>1, <2>3, <2>4 DEF States
<1>4. trades' = trades
  <2>1. eng'.sig.kind # "ENTRY"
    BY <1>1, <1>3, EntryHolds
  <2>2. QED
    BY <1>1, <2>1 DEF OnAfterClose, CountTrades
<1>5. Elapsed(t) >= RangeMin
  <2>1. t.d \in Nat /\ t.m \in 0 .. DayMin - 1 /\ ZoneOf(t) = "AFTER"
    BY DEF Time, OnAfterClose
  <2>2. ~InPrevSession(t) /\ SinceOpen(t) >= SessionLen
    BY <2>1, ClockAssumption DEF ZoneOf, ZoneWithin
  <2>3. QED
    BY <2>1, <2>2, ClockAssumption DEF Elapsed, SinceOpen
<1>6. QED
  BY <1>3, <1>4, <1>5 DEF TradeInv, Paced

(* A gap in the bars opens no trade.                                        *)
LEMMA GapTrade ==
  ASSUME Inv, TradeInv, NEW b \in Bars, NEW t \in Time, OnGap(b, t)
  PROVE  TradeInv'
<1> DEFINE B == Begin(eng, t)
           H == HandleGapReset(B, ZoneOf(t))
<1>1. Good(eng) /\ EngStep
  BY GapStep DEF Inv, TypeOK, Good, PositionInv, RangeInv
<1>2. ZoneOf(t) \in Zones /\ Elapsed(t) \in Int
  BY ClockTypes, ZoneElapsed
<1>3. Good(B) /\ B.st = eng.st /\ B.last = t /\ B.sig = NoSig
  BY <1>1, BeginGood
<1>4. trades' = 0 + (IF eng'.sig.kind = "ENTRY" THEN 1 ELSE 0)
  BY DEF OnGap, CountTrades
<1>5. eng' = IF eng.st = "BREAKOUT" THEN H ELSE Dispatch(H, b, ZoneOf(t))
  BY DEF OnGap, GapReset
<1> HIDE DEF B
<1>6. /\ Good(H) /\ H.last = t /\ H.bars = 0 /\ ~H.locked
      /\ H.st # "IDLE" => ZoneOf(t) \in Active
      /\ H.pos = Flat
      /\ B.st # "BREAKOUT" => H.sig = NoSig
      /\ B.st = "BREAKOUT" => H.sig.kind = "EXIT"
  BY <1>2, <1>3, GapResetGood
<1> HIDE DEF H
<1>7. H.st # "IDLE" => Elapsed(t) >= 0
  BY <1>6, ZoneElapsed
<1>8. CASE eng.st = "BREAKOUT"
  <2>1. eng' = H /\ trades' = 0
    BY <1>3, <1>4, <1>5, <1>6, <1>8
  <2>2. QED
    BY <1>2, <1>6, <1>7, <2>1 DEF TradeInv, Paced
<1>9. CASE eng.st # "BREAKOUT"
  <2>1. eng' = Dispatch(H, b, ZoneOf(t)) /\ H.sig = NoSig
    BY <1>3, <1>5, <1>6, <1>9
  <2>2. Paced(H, Elapsed(t) - 1)
    BY <1>2, <1>6, <1>7 DEF Paced
  <2>3. PaceOK(H, eng', Elapsed(t))
    BY <1>2, <1>6, <2>1, <2>2, ZoneElapsed, DispatchPace
  <2>4. H.st # "BREAKOUT" /\ StopBehind(H, 0)
    BY <1>6 DEF Good, PositionOK, StopBehind
  <2>5. StepOK(H, eng', b.c)
    BY <1>2, <1>6, <2>1, <2>4, DispatchOK
  <2>6. QED
    BY <1>1, <1>4, <1>6, <2>3, <2>5, CountedDispatch DEF StepOK
<1>10. QED
  BY <1>8, <1>9

(* A bar opens a trade only where none was counted yet.                     *)
LEMMA BarTrade ==
  ASSUME Inv, TradeInv, NEW b \in Bars, NEW t \in Time, OnBar(b, t)
  PROVE  TradeInv'
<1> DEFINE B == Begin(eng, t)
<1>1. /\ Good(eng) /\ EngStep /\ trades \in Nat /\ eng.last \in Time
      /\ StopBehind(eng, lastClose)
  BY BarStep DEF Inv, TypeOK, Good, PositionInv, RangeInv, StopBehindClose, Engine
<1>2. /\ ZoneOf(t) \in Zones /\ SessionId(t) \in Int /\ SessionId(t) # NoSession
      /\ Elapsed(t) \in Int /\ Elapsed(eng.last) \in Int
  BY <1>1, ClockTypes, ZoneElapsed DEF Time, SessionId, NoSession
<1>3. /\ Good(B) /\ B.st = eng.st /\ B.last = t /\ B.sig = NoSig /\ B.pos = eng.pos
      /\ B.bars = eng.bars /\ B.locked = eng.locked
  BY <1>1, BeginGood
<1>4. /\ trades' = trades + (IF eng'.sig.kind = "ENTRY" THEN 1 ELSE 0)
      /\ eng' = Dispatch(B, b, ZoneOf(t))
      /\ SessionId(t) = eng.sid /\ Accepted(t)
  BY DEF OnBar, CountTrades
<1>5. Elapsed(t) > Elapsed(eng.last)
  BY <1>1, <1>2, <1>4, ElapsedGrows DEF Accepted, Inv
<1>6. eng.st # "IDLE" => ZoneOf(t) \in Active
  BY StillInSession DEF OnBar
<1> HIDE DEF B
<1>7. Paced(B, Elapsed(t) - 1) /\ StopBehind(B, lastClose)
  <2>1. B.bars \in Int /\ RangeMin \in Int
    BY <1>3, ClockAssumption DEF Good, Engine
  <2>2. QED
    BY <1>1, <1>2, <1>3, <1>5, <2>1 DEF TradeInv, Paced, StopBehind
<1>8. PaceOK(B, eng', Elapsed(t))
  BY <1>2, <1>3, <1>4, <1>6, <1>7, ZoneElapsed, DispatchPace
<1>9. StepOK(B, eng', b.c)
  BY <1>2, <1>3, <1>4, <1>6, <1>7, DispatchOK
<1>10. trades > 0 => Elapsed(t) >= RangeMin
  BY <1>2, <1>5, ClockAssumption DEF TradeInv
<1>11. QED
  BY <1>1, <1>3, <1>4, <1>8, <1>9, <1>10, CountedDispatch DEF StepOK, TradeInv

(* What is not a bar opens no trade.                                        *)
LEMMA OtherTrade ==
  ASSUME Inv, TradeInv, ForceFlat \/ RejectCandle
  PROVE  TradeInv'
<1>1. Good(eng) /\ eng \in Engine
  BY DEF Inv, TypeOK, Good, PositionInv, RangeInv
<1>2. CASE RejectCandle
  <2>1. /\ eng'.st = eng.st /\ eng'.bars = eng.bars /\ eng'.locked = eng.locked
        /\ eng'.last = eng.last /\ trades' = trades
    BY <1>1, <1>2 DEF RejectCandle, Engine
  <2>2. QED
    BY <2>1 DEF TradeInv, Paced
<1>3. CASE ForceFlat
  <2> DEFINE B == [eng EXCEPT !.sig = NoSig]
  <2>1. eng.st = "BREAKOUT" /\ NoSig \in SigType
    BY <1>1, <1>3 DEF ForceFlat, Good, PositionOK, NoSig, SigType
  <2>2. /\ B \in Engine /\ B.sig = NoSig
        /\ B.locked = eng.locked /\ B.rebuild = eng.rebuild /\ B.bars = eng.bars
        /\ B.hi = eng.hi /\ B.lo = eng.lo /\ B.st = eng.st /\ B.pos = eng.pos
        /\ B.fed = eng.fed /\ B.last = eng.last
    BY <1>1, <2>1 DEF Engine
  <2>3. /\ eng' = Exit(B, "broker_closed", PostExitState(eng)) /\ trades' = trades
    BY <1>3 DEF ForceFlat, ForceFlatOf
  <2> HIDE DEF B
  <2>4. Good(B)
    BY <1>1, <2>2 DEF Good, PositionOK, RangeOK, Warm
  <2>5. /\ PostExitState(eng) \in {"IDLE", "RANGE_DEFINED"}
        /\ OneTrade => PostExitState(eng) = "IDLE"
    BY DEF PostExitState
  <2>6. /\ eng'.st = PostExitState(eng) /\ eng'.last = eng.last /\ Good(eng')
        /\ eng'.bars <= eng.bars /\ (eng'.locked => eng.locked)
    BY <2>1, <2>2, <2>3, <2>4, <2>5, ExitGood
  <2>7. eng'.bars \in Int /\ eng.bars \in Int /\ Elapsed(eng.last) \in Int
    BY <1>1, <2>6, ZoneElapsed DEF Good, Engine
  <2>8. QED
    BY <2>1, <2>3, <2>5, <2>6, <2>7 DEF TradeInv, Paced
<1>4. QED
  BY <1>2, <1>3

(* TradeInv is inductive relative to Inv.                                   *)
LEMMA TradeInvInductive == Inv /\ TradeInv /\ [Next]_vars => TradeInv'
<1> SUFFICES ASSUME Inv, TradeInv, [Next]_vars PROVE TradeInv'
  OBVIOUS
<1>1. ASSUME NEW b \in Bars, NEW t \in Timeline, OnCandle(b, t)
      PROVE  TradeInv'
  <2>1. t \in Time
    BY EngineAssumption DEF Timeline, Time
  <2>2. QED
    BY <1>1, <2>1, NewSessionTrade, AfterCloseTrade, GapTrade, BarTrade DEF OnCandle
<1>2. CASE UNCHANGED vars
  BY <1>2 DEF vars, TradeInv, Paced
<1>3. QED
  BY <1>1, <1>2, OtherTrade DEF Next, NextCandle

(* With one_trade_per_session an engine enters at most once between two     *)
(* resets: a trade comes after the window, and only the window re-arms an   *)
(* idle engine (_on_idle, _post_exit_state, _maybe_lock).                   *)
THEOREM AtMostOneTrade == Spec => []OneTradePerReset
<1>1. Init => TradeInv
  BY DEF Init, InitEng, TradeInv, Paced
<1>2. TradeInv => OneTradePerReset
  BY DEF TradeInv, OneTradePerReset
<1>3. QED
  BY <1>1, <1>2, Invariance, TradeInvInductive, PTL DEF Spec

-----------------------------------------------------------------------------
(* The trackers of BarFed and the chart.  Each tracker is tied to the whole *)
(* history by an invariant that says, as an operator of the bars g and the  *)
(* events e, what the tracker holds of it: WindowIs, RefOf and TrendOf for  *)
(* the structure (StructureInv), LastTwo for the session's swings           *)
(* (SwingsInv), Waits and Alive for the pending and the active blocks       *)
(* (BlocksInv), Folded for the candle (AggInv), LevelOf, QuartersAre and    *)
(* Room for the opens and the filters (ClockInv).  Each is shown to follow  *)
(* a bar from what it was before it, and to say what the chart says.        *)
(* Bars and events of a history.                                            *)
Bar == [t : Nat, o : Nat, h : Nat, l : Nat, c : Nat, disp : BOOLEAN, v : Nat]
Sides == {"LONG", "SHORT"}
Marks == [kind : {"BOS", "CHOCH"}, dir : Sides] \cup {None}

(* The history: bars in order of time, one event each, and its session.     *)
HistOK ==
  /\ hist \in Seq(Bar) /\ events \in Seq(Marks) /\ Len(events) = Now
  /\ \A i, j \in 1 .. Now : i < j => hist[i].t < hist[j].t
  /\ start \in 1 .. Now + 1 /\ (Now > 0 => start <= Now)

(* The configuration is in the ranges the assumptions give it.              *)
LEMMA Constants ==
  /\ Lookback \in Nat /\ Lookback >= 1 /\ Tf \in Nat /\ Tf >= 1
  /\ RecentBars \in Nat /\ RecentBars >= 1 /\ MaxPending \in Nat /\ MaxPending >= 1
  /\ MaxBlocks \in Nat /\ MaxBlocks >= 1 /\ ExpiryBars \in Nat /\ ExpiryBars >= 1
  /\ ConfirmBars \in Nat /\ Shapes \subseteq Shape
  /\ RocPeriod \in Nat /\ RocPeriod >= 1
  /\ NyStart \in Nat /\ NyStep \in Nat /\ NyStep >= 1
BY TrackerAssumption, ShapesAssumption, NyAssumption, IndicatorAssumption

(* The largest of a set is the member no other exceeds.                     *)
LEMMA MaxIs ==
  ASSUME NEW S \in SUBSET Int, NEW m \in S, \A y \in S : y <= m
  PROVE  Max(S) = m
<1>1. \A x \in S : (\A y \in S : x >= y) => x = m
  OBVIOUS
<1>2. \A y \in S : m >= y
  OBVIOUS
<1> QED BY <1>1, <1>2 DEF Max

(* The smallest of a set is the member no other undercuts.                  *)
LEMMA MinIs ==
  ASSUME NEW S \in SUBSET Int, NEW m \in S, \A y \in S : m <= y
  PROVE  Min(S) = m
<1>1. \A x \in S : (\A y \in S : x <= y) => x = m
  OBVIOUS
<1> QED BY <1>1 DEF Min

(* Dropping the oldest entry of a full deque.                               *)
LEMMA Shift ==
  ASSUME NEW V, NEW a \in Seq(V), NEW n \in Nat, n >= 1, Len(a) = n + 1
  PROVE  /\ SubSeq(a, 2, n + 1) \in Seq(V) /\ Len(SubSeq(a, 2, n + 1)) = n
         /\ \A i \in 1 .. n : SubSeq(a, 2, n + 1)[i] = a[i + 1]
<1> DEFINE r == SubSeq(a, 2, n + 1)
<1>1. r \in Seq(V) /\ Len(r) = n /\ \A i \in 1 .. n : r[i] = a[i + 1]
  OBVIOUS
<1> QED BY <1>1

-----------------------------------------------------------------------------
(* A closed bar is appended to the history, later than all before it.       *)
LEMMA FeedIs ==
  ASSUME HistOK, NEW x \in Shapes, Feed(x)
  PROVE  /\ BarOf(x) \in Bar /\ hist' \in Seq(Bar) /\ Now' = Now + 1 /\ Now \in Nat
         /\ \A i \in 1 .. Now : hist'[i] = hist[i]
         /\ hist'[Now + 1] = BarOf(x)
         /\ \A i, j \in 1 .. Now + 1 : i < j => hist'[i].t < hist'[j].t
<1>1. x \in Shape /\ hist \in Seq(Bar) /\ Now \in Nat
  BY Constants DEF HistOK, Now
<1>2. \A i \in 1 .. Now : hist[i] \in Bar /\ hist[i].t \in Nat
  <2>1. \A i \in 1 .. Now : hist[i] \in Bar
    BY <1>1 DEF Now
  <2> QED BY <2>1 DEF Bar
<1>3. LastTime \in Nat /\ \A i \in 1 .. Now : hist[i].t <= LastTime
  <2>1. CASE Now = 0
    BY <2>1 DEF LastTime
  <2>2. CASE Now # 0
    <3>1. Now \in 1 .. Now /\ LastTime = hist[Now].t
      BY <1>1, <2>2 DEF LastTime
    <3>2. \A i \in 1 .. Now : i < Now => hist[i].t < hist[Now].t
      BY <3>1 DEF HistOK
    <3>3. \A i \in 1 .. Now : i < Now \/ i = Now
      BY <1>1
    <3>4. ASSUME NEW i \in 1 .. Now PROVE hist[i].t <= LastTime
      BY <1>2, <3>1, <3>2, <3>3
    <3> QED BY <1>2, <3>1, <3>4
  <2> QED BY <2>1, <2>2
<1>4. BarOf(x) \in Bar /\ BarOf(x).t > LastTime
  BY <1>1, <1>3 DEF BarOf, Bar, Shape
<1>5. hist' = Append(hist, BarOf(x))
  BY DEF Feed
<1>6. /\ hist' \in Seq(Bar) /\ Now' = Now + 1
      /\ (\A i \in 1 .. Now : hist'[i] = hist[i]) /\ hist'[Now + 1] = BarOf(x)
  BY <1>1, <1>4, <1>5 DEF Now
<1>7. ASSUME NEW i \in 1 .. Now + 1, NEW j \in 1 .. Now + 1, i < j
      PROVE  hist'[i].t < hist'[j].t
  <2>1. i \in 1 .. Now /\ hist'[i] = hist[i]
    BY <1>1, <1>6, <1>7
  <2>2. CASE j = Now + 1
    <3>1. hist'[j] = BarOf(x) /\ BarOf(x).t \in Nat
      BY <1>4, <1>6, <2>2 DEF Bar
    <3> QED BY <1>2, <1>3, <1>4, <2>1, <3>1
  <2>3. CASE j # Now + 1
    BY <1>1, <1>6, <1>7, <2>1, <2>3 DEF HistOK
  <2> QED BY <2>2, <2>3
<1> QED BY <1>1, <1>4, <1>6, <1>7

-----------------------------------------------------------------------------
(* Swings: the window and the swings it confirms.                           *)
Hl == [h : Nat, l : Nat]
Width == 2 * Lookback + 1

(* The window holds the last bars of g since "first". *)
WindowIs(w, first, g) ==
  /\ w \in Seq(Hl)
  /\ Len(w) = MinOf(Len(g) - first + 1, Width)
  /\ \A i \in 1 .. Len(w) :
       w[i] = [h |-> g[Len(g) - Len(w) + i].h, l |-> g[Len(g) - Len(w) + i].l]

(* _win.append: the oldest bar falls out of a full deque.                   *)
Pushed(w, b) == Bounded(Append(w, [h |-> b.h, l |-> b.l]), 2 * Lookback + 1)

(* A bar pushed into the deque of StructureTracker or SwingStructure leaves *)
(* it with the last bars since "first".                                     *)
LEMMA WindowStep ==
  ASSUME NEW g \in Seq(Bar), NEW b \in Bar, NEW first \in 1 .. Len(g) + 1,
         NEW w, WindowIs(w, first, g)
  PROVE  WindowIs(Pushed(w, b), first, Append(g, b))
<1> DEFINE y == [h |-> b.h, l |-> b.l]
           r == Pushed(w, b)
           n == Len(g)
           g1 == Append(g, b)
<1>1. /\ n \in Nat /\ Len(g1) = n + 1 /\ g1[n + 1] = b
      /\ \A i \in 1 .. n : g1[i] = g[i]
  OBVIOUS
<1>2. y \in Hl /\ Width \in Nat /\ Width >= 1 /\ Lookback \in Nat
  BY Constants DEF Bar, Hl, Width
<1>3. w \in Seq(Hl) /\ Len(w) \in Nat /\ Len(w) <= Width /\ Len(w) <= n - first + 1
      /\ (Len(w) = Width \/ Len(w) = n - first + 1)
  BY <1>1, <1>2 DEF WindowIs, MinOf
<1>4. \A i \in 1 .. Len(w) : w[i] = [h |-> g[n - Len(w) + i].h, l |-> g[n - Len(w) + i].l]
  BY DEF WindowIs
<1>5. r = Bounded(Append(w, y), Width)
  BY DEF Pushed, Width
<1> HIDE DEF y, r, n, g1
<1>6. y = [h |-> b.h, l |-> b.l]
  BY DEF y
<1>f. first \in Int /\ first >= 1
  OBVIOUS
<1>7. ASSUME Len(w) < Width PROVE WindowIs(r, first, g1)
  <2>1. /\ r \in Seq(Hl) /\ Len(r) = Len(w) + 1 /\ r[Len(w) + 1] = y
        /\ \A i \in 1 .. Len(w) : r[i] = w[i]
    <3>1. r = Append(w, y)
      BY <1>2, <1>3, <1>5, <1>7 DEF Bounded
    <3> QED BY <1>2, <1>3, <3>1
  <2>2. ASSUME NEW i \in 1 .. Len(r)
        PROVE  r[i] = [h |-> g1[n + 1 - Len(r) + i].h, l |-> g1[n + 1 - Len(r) + i].l]
    <3>1. CASE i = Len(w) + 1
      BY <1>1, <1>3, <1>6, <2>1, <3>1
    <3>2. CASE i # Len(w) + 1
      <4>1. i \in 1 .. Len(w) /\ n + 1 - Len(r) + i = n - Len(w) + i
            /\ n - Len(w) + i \in 1 .. n
        BY <1>1, <1>3, <2>1, <3>2
      <4> QED BY <1>1, <1>4, <2>1, <4>1
    <3> QED BY <3>1, <3>2
  <2>3. Len(r) = MinOf(Len(g1) - first + 1, Width)
    BY <1>1, <1>2, <1>3, <1>7, <2>1 DEF MinOf
  <2>4. \A i \in 1 .. Len(r) :
          r[i] = [h |-> g1[Len(g1) - Len(r) + i].h, l |-> g1[Len(g1) - Len(r) + i].l]
    BY <1>1, <2>2
  <2> QED BY <2>1, <2>3, <2>4 DEF WindowIs
<1>8. ASSUME Len(w) = Width PROVE WindowIs(r, first, g1)
  <2>1. /\ r \in Seq(Hl) /\ Len(r) = Width /\ r[Width] = y
        /\ \A i \in 1 .. Width - 1 : r[i] = w[i + 1]
    <3> DEFINE a == Append(w, y)
    <3>1. /\ a \in Seq(Hl) /\ Len(a) = Width + 1 /\ a[Width + 1] = y
          /\ \A i \in 1 .. Width : a[i] = w[i]
      BY <1>2, <1>3, <1>8
    <3>2. r = SubSeq(a, 2, Width + 1)
      BY <1>2, <1>3, <1>5, <1>8, <3>1 DEF Bounded
    <3> HIDE DEF a
    <3>3. r \in Seq(Hl) /\ Len(r) = Width /\ \A i \in 1 .. Width : r[i] = a[i + 1]
      BY <1>2, <3>1, <3>2
    <3>4. r[Width] = y
      BY <1>2, <3>1, <3>3
    <3>5. ASSUME NEW i \in 1 .. Width - 1 PROVE r[i] = w[i + 1]
      <4>1. i \in 1 .. Width /\ i + 1 \in 1 .. Width
        BY <1>2
      <4> QED BY <3>1, <3>3, <4>1
    <3> QED BY <3>3, <3>4, <3>5
  <2>2. ASSUME NEW i \in 1 .. Len(r)
        PROVE  r[i] = [h |-> g1[n + 1 - Len(r) + i].h, l |-> g1[n + 1 - Len(r) + i].l]
    <3>1. CASE i = Width
      BY <1>1, <1>2, <1>3, <1>6, <2>1, <3>1
    <3>2. CASE i # Width
      <4>1. i \in 1 .. Width - 1 /\ i + 1 \in 1 .. Len(w)
            /\ n + 1 - Len(r) + i = n - Len(w) + (i + 1)
            /\ n - Len(w) + (i + 1) \in 1 .. n
        <5>1. Len(r) = Width /\ Len(w) = Width /\ i \in Int /\ i >= 1 /\ i < Width
          BY <1>2, <1>8, <2>1, <3>2
        <5> QED BY <1>1, <1>2, <1>3, <1>f, <5>1
      <4>2. r[i] = w[i + 1]
        BY <2>1, <4>1
      <4>3. w[i + 1] = [h |-> g[n - Len(w) + (i + 1)].h, l |-> g[n - Len(w) + (i + 1)].l]
        BY <1>4, <4>1
      <4>4. g1[n - Len(w) + (i + 1)] = g[n - Len(w) + (i + 1)]
        BY <1>1, <4>1
      <4> QED BY <4>1, <4>2, <4>3, <4>4
    <3> QED BY <3>1, <3>2
  <2>3. Len(r) = MinOf(Len(g1) - first + 1, Width)
    BY <1>1, <1>2, <1>3, <1>8, <2>1 DEF MinOf
  <2>4. \A i \in 1 .. Len(r) :
          r[i] = [h |-> g1[Len(g1) - Len(r) + i].h, l |-> g1[Len(g1) - Len(r) + i].l]
    BY <1>1, <2>2
  <2> QED BY <2>1, <2>3, <2>4 DEF WindowIs
<1>9. WindowIs(r, first, g1)
  BY <1>2, <1>3, <1>7, <1>8
<1> QED BY <1>9 DEF r, g1

(* A swing of the bars g, and of a window.                                  *)
Beyond(dir, x, y) == IF dir = "LONG" THEN x.h > y.h ELSE x.l < y.l
Price(dir, x) == IF dir = "LONG" THEN x.h ELSE x.l

SwingAt(dir, g, first, k) ==
  /\ k - Lookback >= first /\ k + Lookback <= Len(g)
  /\ \A j \in (k - Lookback .. k + Lookback) \ {k} : Beyond(dir, g[k], g[j])

SwingOf(dir, w) == Full(w) /\ \A j \in DOMAIN w \ {Centre} : Beyond(dir, w[Centre], w[j])

SwingSet(dir, g, first) == {k \in first .. Len(g) : SwingAt(dir, g, first, k)}

(* The window confirms exactly one bar, its centre: a swing after a bar is  *)
(* one of before or that centre.                                            *)
LEMMA SwingStep ==
  ASSUME NEW g \in Seq(Bar), NEW b \in Bar, NEW first \in 1 .. Len(g) + 1,
         NEW w, WindowIs(w, first, Append(g, b)), NEW dir \in Sides
  PROVE  /\ \A k \in Int : SwingAt(dir, Append(g, b), first, k) <=>
              \/ SwingAt(dir, g, first, k)
              \/ /\ k = Len(g) + 1 - Lookback
                 /\ SwingOf(dir, w)
         /\ SwingOf(dir, w) =>
              /\ Len(g) + 1 - Lookback \in first .. Len(g)
              /\ Price(dir, w[Centre]) = Price(dir, Append(g, b)[Len(g) + 1 - Lookback])
<1> DEFINE n == Len(g)
           g1 == Append(g, b)
           c == n + 1 - Lookback
<1>1. /\ n \in Nat /\ Len(g1) = n + 1 /\ \A i \in 1 .. n : g1[i] = g[i]
  OBVIOUS
<1>2. Lookback \in Nat /\ Lookback >= 1 /\ Width = 2 * Lookback + 1 /\ Centre = Lookback + 1
  BY Constants DEF Width, Centre
<1>3. /\ Len(w) \in Nat /\ DOMAIN w = 1 .. Len(w)
      /\ Len(w) = MinOf(n + 2 - first, Width)
      /\ \A i \in 1 .. Len(w) :
           w[i] = [h |-> g1[n + 1 - Len(w) + i].h, l |-> g1[n + 1 - Len(w) + i].l]
  <2> HIDE DEF g1, n
  <2>1. WindowIs(w, first, g1)
    BY DEF g1
  <2>2. w \in Seq(Hl) /\ Len(w) = MinOf(n + 1 - first + 1, Width)
        /\ \A i \in 1 .. Len(w) :
           w[i] = [h |-> g1[n + 1 - Len(w) + i].h, l |-> g1[n + 1 - Len(w) + i].l]
    BY <1>1, <2>1 DEF WindowIs
  <2>3. n + 1 - first + 1 = n + 2 - first
    BY <1>1
  <2> QED BY <2>2, <2>3
<1>4. first \in Int /\ first >= 1 /\ first <= n + 1
  OBVIOUS
<1> HIDE DEF n, g1
<1>5. Full(w) <=> c - Lookback >= first
  BY <1>1, <1>2, <1>3, <1>4 DEF Full, MinOf
<1>6. ASSUME Full(w)
      PROVE  \A i \in 1 .. 2 * Lookback + 1 :
               w[i] = [h |-> g1[c - Centre + i].h, l |-> g1[c - Centre + i].l]
  <2>1. Len(w) = 2 * Lookback + 1 /\ n + 1 - Len(w) = c - Centre
    BY <1>1, <1>2, <1>6 DEF Full
  <2> QED BY <1>3, <2>1
<1>7. SwingOf(dir, w) <=> SwingAt(dir, g1, first, c)
  <2>1. c + Lookback <= Len(g1) /\ c \in Int
    BY <1>1, <1>2
  <2>2. ASSUME Full(w)
        PROVE  (\A j \in DOMAIN w \ {Centre} : Beyond(dir, w[Centre], w[j])) <=>
               (\A j \in (c - Lookback .. c + Lookback) \ {c} : Beyond(dir, g1[c], g1[j]))
    <3>1. DOMAIN w = 1 .. 2 * Lookback + 1
      BY <1>3, <2>2 DEF Full
    <3>2. \A x, y : Beyond(dir, [h |-> x.h, l |-> x.l], [h |-> y.h, l |-> y.l])
                          <=> Beyond(dir, x, y)
      BY DEF Beyond
    <3>3. \A i \in 1 .. 2 * Lookback + 1 :
            Beyond(dir, w[Centre], w[i]) <=> Beyond(dir, g1[c], g1[c - Centre + i])
      <4>1. Centre \in 1 .. 2 * Lookback + 1 /\ c - Centre + Centre = c
        BY <1>2, <2>1
      <4>2. w[Centre] = [h |-> g1[c].h, l |-> g1[c].l]
        BY <1>6, <2>2, <4>1
      <4> QED BY <1>6, <2>2, <3>2, <4>2
    <3>4. ASSUME NEW j \in (c - Lookback .. c + Lookback) \ {c}
          PROVE  \E i \in (1 .. 2 * Lookback + 1) \ {Centre} : j = c - Centre + i
      <4>1. /\ j - c + Centre \in (1 .. 2 * Lookback + 1) \ {Centre}
            /\ j = c - Centre + (j - c + Centre)
        BY <1>2, <2>1
      <4> QED BY <4>1
    <3>5. ASSUME NEW i \in (1 .. 2 * Lookback + 1) \ {Centre}
          PROVE  c - Centre + i \in (c - Lookback .. c + Lookback) \ {c}
      BY <1>2, <2>1
    <3> HIDE DEF c
    <3> QED BY <3>1, <3>3, <3>4, <3>5
  <2> QED BY <1>5, <2>1, <2>2 DEF SwingOf, SwingAt
<1>8. ASSUME NEW k \in Int, k # c
      PROVE  SwingAt(dir, g1, first, k) <=> SwingAt(dir, g, first, k)
  <2>1. CASE k + Lookback <= n /\ k - Lookback >= first
    <3>1. k \in 1 .. n /\ \A j \in k - Lookback .. k + Lookback : j \in 1 .. n
      BY <1>1, <1>2, <1>4, <2>1
    <3>2. g1[k] = g[k] /\ \A j \in k - Lookback .. k + Lookback : g1[j] = g[j]
      BY <1>1, <3>1
    <3>3. k + Lookback <= Len(g1) /\ k + Lookback <= Len(g)
      BY <1>1, <1>2, <2>1 DEF n
    <3> QED BY <3>2, <3>3 DEF SwingAt
  <2>2. CASE k - Lookback < first
    BY <1>2, <1>4, <2>2 DEF SwingAt
  <2>3. CASE k + Lookback > n
    <3>1. k + Lookback > Len(g1) /\ k + Lookback > Len(g)
      BY <1>1, <1>2, <1>8, <2>3 DEF n
    <3>2. ~(k + Lookback <= Len(g1)) /\ ~(k + Lookback <= Len(g))
      BY <1>1, <1>2, <3>1
    <3> QED BY <3>2 DEF SwingAt
  <2> QED BY <1>1, <1>2, <1>4, <2>1, <2>2, <2>3
<1>9. ~SwingAt(dir, g, first, c)
  BY <1>1, <1>2 DEF SwingAt, n
<1>10. ASSUME SwingOf(dir, w)
       PROVE  c \in first .. n /\ Price(dir, w[Centre]) = Price(dir, g1[c])
  <2>1. Full(w) /\ c \in first .. n
    BY <1>1, <1>2, <1>4, <1>5, <1>10 DEF SwingOf
  <2>2. Centre \in 1 .. 2 * Lookback + 1 /\ c - Centre + Centre = c
    BY <1>1, <1>2
  <2>3. w[Centre] = [h |-> g1[c].h, l |-> g1[c].l]
    BY <1>6, <2>1, <2>2
  <2> QED BY <2>1, <2>3 DEF Price
<1>11. c \in Int
  BY <1>1, <1>2
<1> HIDE DEF c
<1>12. ASSUME NEW k \in Int
       PROVE  SwingAt(dir, g1, first, k) <=>
                SwingAt(dir, g, first, k) \/ (k = c /\ SwingOf(dir, w))
  <2>1. CASE k = c
    BY <1>7, <1>9, <2>1
  <2>2. CASE k # c
    BY <1>8, <2>2
  <2> QED BY <2>1, <2>2
<1>13. /\ \A k \in Int : SwingAt(dir, g1, first, k) <=>
            SwingAt(dir, g, first, k) \/ (k = c /\ SwingOf(dir, w))
       /\ SwingOf(dir, w) => c \in first .. n /\ Price(dir, w[Centre]) = Price(dir, g1[c])
  BY <1>10, <1>12
<1> QED BY <1>13, Zenon DEF c, n, g1

-----------------------------------------------------------------------------
(* The greatest number of a set.                                            *)
LEMMA MaxOfSet ==
  ASSUME NEW S \in SUBSET Nat, S # {}, NEW b \in Nat, \A m \in S : m <= b
  PROVE  Max(S) \in S /\ \A m \in S : m <= Max(S)
<1> DEFINE T == {n \in Nat : \A m \in S : m <= n}
<1>1. PICK t \in T : \A y \in T : ~(<<y, t>> \in OpToRel(<, Nat))
  <2>1. T \subseteq Nat /\ T # {}
    OBVIOUS
  <2> QED BY <2>1, NatLessThanWellFounded, WFMin
<1>2. \A y \in T : ~(y < t)
  BY <1>1 DEF OpToRel
<1>3. t \in Nat /\ \A m \in S : m \in Nat /\ m <= t
  OBVIOUS
<1>4. ASSUME t \notin S PROVE FALSE
  <2>1. PICK s \in S : TRUE
    OBVIOUS
  <2>2. \A m \in S : m <= t - 1
    <3> HIDE DEF T
    <3> QED BY <1>3, <1>4
  <2>3. t - 1 \in Nat
    <3> HIDE DEF T
    <3> QED BY <1>3, <2>1, <2>2
  <2>4. t - 1 \in T
    BY <2>2, <2>3
  <2> QED BY <1>2, <1>3, <2>4
<1> HIDE DEF T
<1>5. t \in S /\ S \in SUBSET Int
  BY <1>4
<1>6. Max(S) = t
  BY <1>3, <1>5, MaxIs
<1> QED BY <1>3, <1>5, <1>6

(* A non-empty set of naturals has a smallest member.                       *)
LEMMA MinOfSet ==
  ASSUME NEW S \in SUBSET Nat, S # {}
  PROVE  Min(S) \in S /\ \A m \in S : Min(S) <= m
<1>1. PICK t \in S : \A y \in S : ~(<<y, t>> \in OpToRel(<, Nat))
  BY NatLessThanWellFounded, WFMin
<1>2. \A y \in S : ~(y < t)
  BY <1>1 DEF OpToRel
<1>3. t \in Int /\ S \in SUBSET Int /\ \A y \in S : t <= y
  BY <1>2
<1>4. Min(S) = t
  BY <1>3, MinIs
<1> QED BY <1>3, <1>4

(* A new swing is the newest of all.                                        *)
LEMMA SwingSetStep ==
  ASSUME NEW g \in Seq(Bar), NEW b \in Bar, NEW first \in 1 .. Len(g) + 1,
         NEW w, WindowIs(w, first, Append(g, b)), NEW dir \in Sides,
         NEW ks, ks = SwingSet(dir, g, first),
         NEW ks1, ks1 = SwingSet(dir, Append(g, b), first),
         NEW c, c = Len(g) + 1 - Lookback
  PROVE  /\ ks \in SUBSET Nat /\ ks1 \in SUBSET Nat
         /\ \A k \in ks : k >= first /\ k < c /\ k <= Len(g)
         /\ ks1 = IF SwingOf(dir, w) THEN ks \cup {c} ELSE ks
         /\ SwingOf(dir, w) =>
              /\ c \in first .. Len(g) /\ Max(ks1) = c
              /\ Price(dir, w[Centre]) = Price(dir, Append(g, b)[c])
         /\ ks1 # {} => Max(ks1) \in ks1 /\ \A k \in ks1 : k <= Max(ks1)
<1> DEFINE n == Len(g)
           g1 == Append(g, b)
<1>1. n \in Nat /\ Len(g1) = n + 1 /\ first \in Int /\ first >= 1
      /\ Lookback \in Nat /\ Lookback >= 1
  BY Constants
<1>2. /\ \A k \in Int : SwingAt(dir, g1, first, k) <=>
              \/ SwingAt(dir, g, first, k)
              \/ (k = c /\ SwingOf(dir, w))
      /\ SwingOf(dir, w) => c \in first .. n /\ Price(dir, w[Centre]) = Price(dir, g1[c])
  BY SwingStep, Zenon
<1>3. ks = {k \in first .. n : SwingAt(dir, g, first, k)}
  BY DEF SwingSet
<1>4. ks1 = {k \in first .. n + 1 : SwingAt(dir, g1, first, k)}
  BY <1>1 DEF SwingSet
<1>5. \A k : SwingAt(dir, g, first, k) => k + Lookback <= n
  BY DEF SwingAt
<1> HIDE DEF n, g1
<1>6. c = n + 1 - Lookback /\ c \in Int
  BY <1>1 DEF n
<1>7. ks \in SUBSET Nat /\ ks1 \in SUBSET Nat /\ \A k \in ks1 : k <= n + 1
  BY <1>1, <1>3, <1>4
<1>8. \A k \in ks : k >= first /\ k < c /\ k <= n
  BY <1>1, <1>3, <1>5, <1>6
<1>9. ks1 = IF SwingOf(dir, w) THEN ks \cup {c} ELSE ks
  <2>1. ASSUME NEW k PROVE k \in ks1 <=> k \in ks \/ (k = c /\ SwingOf(dir, w))
    <3>1. CASE k \in ks
      BY <1>1, <1>2, <1>3, <1>4, <3>1
    <3>2. CASE k = c /\ SwingOf(dir, w)
      BY <1>1, <1>2, <1>4, <1>6, <3>2
    <3>3. CASE k \notin ks /\ ~(k = c /\ SwingOf(dir, w))
      <4>1. SUFFICES ASSUME k \in ks1 PROVE FALSE
        BY <3>3
      <4>2. k \in Int /\ k \in first .. n + 1 /\ SwingAt(dir, g1, first, k)
        BY <1>1, <1>4, <4>1
      <4>3. SwingAt(dir, g, first, k)
        BY <1>2, <3>3, <4>2
      <4>4. k \in first .. n
        BY <1>1, <1>5, <4>2, <4>3
      <4> QED BY <1>3, <3>3, <4>3, <4>4
    <3> QED BY <3>1, <3>2, <3>3
  <2> QED BY <2>1
<1>10. ASSUME SwingOf(dir, w) PROVE Max(ks1) = c
  <2>1. c \in ks1 /\ \A k \in ks1 : k <= c
    BY <1>6, <1>7, <1>8, <1>9, <1>10
  <2>2. ks1 \in SUBSET Int
    BY <1>7
  <2> QED BY <2>1, <2>2, MaxIs
<1>11. ks1 # {} => Max(ks1) \in ks1 /\ \A k \in ks1 : k <= Max(ks1)
  <2>1. n + 1 \in Nat
    BY <1>1
  <2> QED BY <1>7, <2>1, MaxOfSet
<1>12. n = Len(g) /\ g1 = Append(g, b)
  BY DEF n, g1
<1> QED BY <1>2, <1>7, <1>8, <1>9, <1>10, <1>11, <1>12

-----------------------------------------------------------------------------
(* Events: the marks e, one a bar.                                          *)
Marked(e, dir, from, to) == {m \in from .. to : e[m] # None /\ e[m].dir = dir}
Past(e, to) == Marked(e, "LONG", 1, to) \cup Marked(e, "SHORT", 1, to)
TrendOf(e, to) == IF Past(e, to) = {} THEN "none" ELSE e[Max(Past(e, to))].dir

(* The reference of the tracker: the newest swing, while no event of its    *)
(* direction has come since it was confirmed.                               *)
RefOf(dir, g, e, to) ==
  LET ks == SwingSet(dir, g, 1) IN
  IF ks = {} \/ Marked(e, dir, Max(ks) + Lookback, to) # {} THEN None
  ELSE [price |-> Price(dir, g[Max(ks)])]

(* A reference price and an event are never taken for nothing.              *)
LEMMA NoneIs ==
  /\ \A p : [price |-> p] # None
  /\ \A x, y : [kind |-> x, dir |-> y] # None
<1>1. DOMAIN None = {"none"}
  BY DEF None
<1>2. "none" # "price" /\ "none" # "kind"
  OBVIOUS
<1>3. \A p : DOMAIN [price |-> p] = {"price"}
  OBVIOUS
<1>4. \A x, y : "kind" \in DOMAIN [kind |-> x, dir |-> y]
  OBVIOUS
<1> QED BY <1>1, <1>2, <1>3, <1>4

(* The bars with an event of a direction grow by the last one at most.      *)
LEMMA MarkedStep ==
  ASSUME NEW e \in Seq(Marks), NEW ev \in Marks, NEW dir \in Sides,
         NEW from \in Nat, from >= 1
  PROVE  /\ Marked(Append(e, ev), dir, from, Len(e)) = Marked(e, dir, from, Len(e))
         /\ from <= Len(e) + 1 =>
              Marked(Append(e, ev), dir, from, Len(e) + 1) =
                Marked(e, dir, from, Len(e)) \cup
                (IF ev # None /\ ev.dir = dir THEN {Len(e) + 1} ELSE {})
         /\ from = Len(e) + 1 => Marked(e, dir, from, Len(e)) = {}
<1> DEFINE n == Len(e)
           e1 == Append(e, ev)
<1>1. n \in Nat /\ (\A i \in 1 .. n : e1[i] = e[i]) /\ e1[n + 1] = ev
  OBVIOUS
<1> HIDE DEF n, e1
<1>2. \A i \in from .. n : i \in 1 .. n /\ e1[i] = e[i]
  BY <1>1
<1>3. Marked(e1, dir, from, n) = Marked(e, dir, from, n)
  BY <1>2 DEF Marked
<1>4. ASSUME from <= n + 1
      PROVE  Marked(e1, dir, from, n + 1) =
               Marked(e, dir, from, n) \cup
               (IF ev # None /\ ev.dir = dir THEN {n + 1} ELSE {})
  <2>1. from .. n + 1 = (from .. n) \cup {n + 1} /\ n + 1 \notin from .. n
    BY <1>1, <1>4
  <2> QED BY <1>1, <1>2, <2>1 DEF Marked
<1>5. ASSUME from = n + 1 PROVE Marked(e, dir, from, n) = {}
  BY <1>1, <1>5 DEF Marked
<1>6. n = Len(e) /\ e1 = Append(e, ev)
  BY DEF n, e1
<1> QED BY <1>3, <1>4, <1>5, <1>6

(* The trend is the direction of the last event.                            *)
LEMMA TrendStep ==
  ASSUME NEW e \in Seq(Marks), NEW ev \in Marks
  PROVE  TrendOf(Append(e, ev), Len(e) + 1) =
           IF ev # None THEN ev.dir ELSE TrendOf(e, Len(e))
<1> DEFINE n == Len(e)
           e1 == Append(e, ev)
<1>1. n \in Nat /\ (\A i \in 1 .. n : e1[i] = e[i]) /\ e1[n + 1] = ev
  OBVIOUS
<1>2. \A dir \in Sides : Marked(e1, dir, 1, n + 1) =
        Marked(e, dir, 1, n) \cup (IF ev # None /\ ev.dir = dir THEN {n + 1} ELSE {})
  <2>1. 1 \in Nat /\ 1 >= 1 /\ 1 <= Len(e) + 1
    BY <1>1
  <2> QED BY <2>1, MarkedStep
<1> HIDE DEF n, e1
<1>3. Past(e, n) \in SUBSET (1 .. n)
  BY DEF Past, Marked
<1>4. CASE ev = None
  <2>1. Past(e1, n + 1) = Past(e, n)
    BY <1>2, <1>4 DEF Past, Sides
  <2>2. ASSUME Past(e, n) # {} PROVE e1[Max(Past(e, n))] = e[Max(Past(e, n))]
    <3>1. Max(Past(e, n)) \in Past(e, n)
      <4>1. Past(e, n) \in SUBSET Nat /\ \A m \in Past(e, n) : m <= n
        BY <1>1, <1>3
      <4> QED BY <1>1, <2>2, <4>1, MaxOfSet
    <3> QED BY <1>1, <1>3, <3>1
  <2>3. TrendOf(e1, n + 1) = TrendOf(e, n)
    BY <2>1, <2>2 DEF TrendOf
  <2> QED BY <1>4, <2>3 DEF n, e1
<1>5. CASE ev # None
  <2>1. ev.dir \in Sides
    BY <1>5 DEF Marks
  <2>2. Past(e1, n + 1) = Past(e, n) \cup {n + 1}
    BY <1>2, <1>5, <2>1 DEF Past, Sides
  <2>3. Max(Past(e1, n + 1)) = n + 1
    <3>1. Past(e1, n + 1) \in SUBSET Int /\ n + 1 \in Past(e1, n + 1)
          /\ \A y \in Past(e1, n + 1) : y <= n + 1
      BY <1>1, <1>3, <2>2
    <3> QED BY <3>1, MaxIs
  <2>4. TrendOf(e1, n + 1) = ev.dir
    BY <1>1, <2>2, <2>3 DEF TrendOf
  <2> QED BY <1>5, <2>4 DEF n, e1
<1> QED BY <1>4, <1>5

(* The reference of a direction is the newest swing not broken since: a     *)
(* confirmed swing replaces it, an event of its direction clears it.        *)
LEMMA RefStep ==
  ASSUME NEW g \in Seq(Bar), NEW b \in Bar, NEW e \in Seq(Marks), Len(e) = Len(g),
         NEW ev \in Marks, NEW w, WindowIs(w, 1, Append(g, b)), NEW dir \in Sides
  PROVE  /\ RefOf(dir, Append(g, b), e, Len(g)) =
              IF SwingOf(dir, w) THEN [price |-> Price(dir, w[Centre])]
              ELSE RefOf(dir, g, e, Len(g))
         /\ RefOf(dir, Append(g, b), Append(e, ev), Len(g) + 1) =
              IF ev # None /\ ev.dir = dir THEN None
              ELSE RefOf(dir, Append(g, b), e, Len(g))
<1> DEFINE n == Len(g)
           g1 == Append(g, b)
           e1 == Append(e, ev)
           c == n + 1 - Lookback
           ks == SwingSet(dir, g, 1)
           ks1 == SwingSet(dir, g1, 1)
<1>1. /\ n \in Nat /\ (\A i \in 1 .. n : g1[i] = g[i])
      /\ Lookback \in Nat /\ Lookback >= 1 /\ 1 \in 1 .. Len(g) + 1
  BY Constants
<1>2. /\ ks \in SUBSET Nat /\ ks1 \in SUBSET Nat
      /\ \A k \in ks : k >= 1 /\ k < c /\ k <= n
      /\ ks1 = IF SwingOf(dir, w) THEN ks \cup {c} ELSE ks
      /\ SwingOf(dir, w) =>
           /\ c \in 1 .. n /\ Max(ks1) = c
           /\ Price(dir, w[Centre]) = Price(dir, g1[c])
      /\ ks1 # {} => Max(ks1) \in ks1 /\ \A k \in ks1 : k <= Max(ks1)
  <2> HIDE DEF g1, ks, ks1, c, n
  <2>1. ks = SwingSet(dir, g, 1) /\ ks1 = SwingSet(dir, Append(g, b), 1)
        /\ c = Len(g) + 1 - Lookback /\ n = Len(g) /\ g1 = Append(g, b)
    BY DEF g1, ks, ks1, c, n
  <2> QED BY <1>1, <2>1, SwingSetStep
<1>3. ASSUME NEW from \in Nat, from >= 1
      PROVE  /\ from <= n + 1 =>
                  Marked(e1, dir, from, n + 1) = Marked(e, dir, from, n) \cup
                  (IF ev # None /\ ev.dir = dir THEN {n + 1} ELSE {})
             /\ from = n + 1 => Marked(e, dir, from, n) = {}
  <2>1. e1 = Append(e, ev) /\ n = Len(e)
    OBVIOUS
  <2>2. /\ from <= Len(e) + 1 =>
              Marked(Append(e, ev), dir, from, Len(e) + 1) = Marked(e, dir, from, Len(e)) \cup
                (IF ev # None /\ ev.dir = dir THEN {Len(e) + 1} ELSE {})
        /\ from = Len(e) + 1 => Marked(e, dir, from, Len(e)) = {}
    BY <1>3, MarkedStep, Zenon
  <2> HIDE DEF n, e1
  <2> QED BY <2>1, <2>2, Zenon
<1>4. /\ RefOf(dir, g1, e, n) =
           IF ks1 = {} \/ Marked(e, dir, Max(ks1) + Lookback, n) # {} THEN None
           ELSE [price |-> Price(dir, g1[Max(ks1)])]
      /\ RefOf(dir, g, e, n) =
           IF ks = {} \/ Marked(e, dir, Max(ks) + Lookback, n) # {} THEN None
           ELSE [price |-> Price(dir, g[Max(ks)])]
      /\ RefOf(dir, g1, e1, n + 1) =
           IF ks1 = {} \/ Marked(e1, dir, Max(ks1) + Lookback, n + 1) # {} THEN None
           ELSE [price |-> Price(dir, g1[Max(ks1)])]
  BY DEF RefOf
<1> HIDE DEF n, g1, e1, ks, ks1
<1>8. /\ \A k \in ks : k \in Int /\ k >= 1 /\ k <= n /\ k + Lookback <= n
      /\ \A k \in ks1 : k \in Nat /\ k >= 1 /\ k + Lookback <= n + 1
  <2>1. \A k \in ks : k \in Int /\ k >= 1 /\ k <= n /\ k + Lookback <= n
    BY <1>1, <1>2
  <2>2. CASE SwingOf(dir, w)
    <3>1. ks1 = ks \cup {c} /\ c \in 1 .. n /\ c + Lookback = n + 1 /\ c \in Nat
      BY <1>1, <1>2, <2>2
    <3> HIDE DEF c
    <3> QED BY <1>1, <2>1, <3>1
  <2>3. CASE ~SwingOf(dir, w)
    BY <1>1, <1>2, <2>1, <2>3
  <2> QED BY <2>1, <2>2, <2>3
<1>5. RefOf(dir, g1, e, n) = IF SwingOf(dir, w) THEN [price |-> Price(dir, w[Centre])]
                             ELSE RefOf(dir, g, e, n)
  <2>1. CASE SwingOf(dir, w)
    <3>1. Max(ks1) + Lookback = n + 1 /\ ks1 # {} /\ n + 1 \in Nat /\ n + 1 >= 1
      BY <1>1, <1>2, <2>1
    <3>2. Marked(e, dir, Max(ks1) + Lookback, n) = {}
      BY <1>3, <3>1
    <3>3. RefOf(dir, g1, e, n) = [price |-> Price(dir, g1[c])]
      BY <1>2, <1>4, <2>1, <3>1, <3>2
    <3> QED BY <1>2, <2>1, <3>3
  <2>2. CASE ~SwingOf(dir, w)
    <3>1. ks1 = ks
      BY <1>2, <2>2
    <3>2. ks # {} => Max(ks) \in ks /\ Max(ks) \in 1 .. n
      <4>1. ks # {} => Max(ks) \in ks
        BY <1>2, <3>1
      <4> QED BY <1>1, <1>8, <4>1
    <3>3. ks # {} => g1[Max(ks)] = g[Max(ks)]
      BY <1>1, <3>2
    <3> QED BY <1>4, <2>2, <3>1, <3>3
  <2> QED BY <2>1, <2>2
<1>6. RefOf(dir, g1, e1, n + 1) =
        IF ev # None /\ ev.dir = dir THEN None ELSE RefOf(dir, g1, e, n)
  <2>1. CASE ks1 = {}
    BY <1>4, <2>1
  <2>2. CASE ks1 # {}
    <3> DEFINE from == Max(ks1) + Lookback
    <3>1. from \in Nat /\ from >= 1 /\ from <= n + 1
      <4>1. Max(ks1) \in ks1
        BY <1>2, <2>2
      <4> QED BY <1>1, <1>8, <4>1
    <3> HIDE DEF from
    <3>2. Marked(e1, dir, from, n + 1) = Marked(e, dir, from, n) \cup
                  (IF ev # None /\ ev.dir = dir THEN {n + 1} ELSE {})
      BY <1>3, <3>1
    <3> QED BY <1>4, <2>2, <3>2 DEF from
  <2> QED BY <2>1, <2>2
<1>7. n = Len(g) /\ g1 = Append(g, b) /\ e1 = Append(e, ev)
  BY DEF n, g1, e1
<1> QED BY <1>5, <1>6, <1>7

(* What the tracker makes of one bar.                                       *)
Refs == [price : Nat] \cup {None}
StrType == [window : Seq(Hl), refHigh : Refs, refLow : Refs,
            trend : Sides \cup {"none"}, event : Marks]

Crosses(dir, ref, b) ==
  ref # None /\ IF dir = "LONG" THEN b.c > ref.price ELSE b.c < ref.price
Renewed(dir, ref, w) == IF SwingOf(dir, w) THEN [price |-> Price(dir, w[Centre])] ELSE ref

(* What StructureTracker.update does, direction by direction.               *)
LEMMA StructureStep ==
  ASSUME NEW s \in StrType, NEW b \in Bar, Pushed(s.window, b) \in Seq(Hl),
         NEW w, w = Pushed(s.window, b),
         NEW high, high = Renewed("LONG", s.refHigh, w),
         NEW low, low = Renewed("SHORT", s.refLow, w),
         NEW up, up = Crosses("LONG", high, b), NEW down, down = Crosses("SHORT", low, b),
         NEW long, long = (up /\ (down => b.c >= b.o)),
         NEW short, short = (down /\ ~long)
  PROVE  /\ UpdateStructure(s, b) \in StrType
         /\ UpdateStructure(s, b).window = w
         /\ UpdateStructure(s, b).refHigh = IF long THEN None ELSE high
         /\ UpdateStructure(s, b).refLow = IF short THEN None ELSE low
         /\ UpdateStructure(s, b).trend =
              IF long THEN "LONG" ELSE IF short THEN "SHORT" ELSE s.trend
         /\ UpdateStructure(s, b).event =
              IF long THEN Event(s, "LONG") ELSE IF short THEN Event(s, "SHORT") ELSE None
<1> DEFINE u == Confirmed(s, b)
           v == UpdateStructure(s, b)
<1>1. /\ IsSwing(w, LAMBDA x, y : x.h > y.h) <=> SwingOf("LONG", w)
      /\ IsSwing(w, LAMBDA x, y : x.l < y.l) <=> SwingOf("SHORT", w)
  BY DEF IsSwing, SwingOf, Beyond
<1>2. u = [s EXCEPT !.window = w,
                    !.refHigh = IF IsSwing(w, LAMBDA x, y : x.h > y.h)
                                THEN [price |-> w[Centre].h] ELSE @,
                    !.refLow = IF IsSwing(w, LAMBDA x, y : x.l < y.l)
                               THEN [price |-> w[Centre].l] ELSE @]
  BY DEF Confirmed, Pushed
<1>3. /\ u.window = w /\ u.trend = s.trend /\ u.event = s.event
      /\ u.refHigh = high /\ u.refLow = low
      /\ u = [window |-> w, refHigh |-> high, refLow |-> low, trend |-> s.trend,
              event |-> s.event]
  BY <1>1, <1>2 DEF StrType, Renewed, Price
<1>4. high \in Refs /\ low \in Refs
  <2>1. ASSUME NEW dir \in Sides, SwingOf(dir, w) PROVE Price(dir, w[Centre]) \in Nat
    <3>1. Centre \in 1 .. Len(w)
      BY <2>1, Constants DEF SwingOf, Full, Centre
    <3>2. w[Centre] \in Hl
      BY <3>1
    <3> QED BY <3>2 DEF Price, Hl
  <2>2. s.refHigh \in Refs /\ s.refLow \in Refs
    BY DEF StrType
  <2> QED BY <2>1, <2>2 DEF Renewed, Refs, Sides
<1>5. v = IF long
          THEN [u EXCEPT !.refHigh = None, !.trend = "LONG", !.event = Event(u, "LONG")]
          ELSE IF short
          THEN [u EXCEPT !.refLow = None, !.trend = "SHORT", !.event = Event(u, "SHORT")]
          ELSE [u EXCEPT !.event = None]
  BY <1>3 DEF UpdateStructure, Break, Crosses
<1>6. Event(u, "LONG") = Event(s, "LONG") /\ Event(u, "SHORT") = Event(s, "SHORT")
      /\ Event(s, "LONG") \in Marks /\ Event(s, "SHORT") \in Marks /\ None \in Marks
      /\ None \in Refs
  BY <1>3 DEF Event, Marks, Sides, Refs
<1> HIDE DEF u, v
<1>7. v = [window |-> w, refHigh |-> IF long THEN None ELSE high,
           refLow |-> IF short THEN None ELSE low,
           trend |-> IF long THEN "LONG" ELSE IF short THEN "SHORT" ELSE s.trend,
           event |-> IF long THEN Event(s, "LONG")
                     ELSE IF short THEN Event(s, "SHORT") ELSE None]
  <2>1. CASE long
    BY <1>3, <1>5, <1>6, <2>1
  <2>2. CASE short /\ ~long
    BY <1>3, <1>5, <1>6, <2>2
  <2>3. CASE ~long /\ ~short
    BY <1>3, <1>5, <1>6, <2>3
  <2> QED BY <2>1, <2>2, <2>3
<1>8. s.trend \in Sides \cup {"none"}
  BY DEF StrType
<1>9. v \in StrType
  BY <1>4, <1>6, <1>7, <1>8 DEF StrType, Sides
<1> QED BY <1>7, <1>9 DEF v

-----------------------------------------------------------------------------
(* The last two swings of a session.                                        *)
LastTwo(q, dir, g, first) ==
  LET ks == SwingSet(dir, g, first) IN
  /\ q \in Seq(Nat) /\ Len(q) = MinOf(Cardinality(ks), 2)
  /\ Len(q) >= 1 => q[Len(q)] = Price(dir, g[Max(ks)])
  /\ Len(q) = 2 => q[1] = Price(dir, g[Max(ks \ {Max(ks)})])

(* A history has finitely many swings.                                      *)
LEMMA SwingSetFinite ==
  ASSUME NEW g \in Seq(Bar), NEW first \in Nat, NEW dir
  PROVE  /\ IsFiniteSet(SwingSet(dir, g, first))
         /\ Cardinality(SwingSet(dir, g, first)) \in Nat
<1>1. SwingSet(dir, g, first) \in SUBSET (first .. Len(g)) /\ first \in Int /\ Len(g) \in Int
  BY DEF SwingSet
<1>2. IsFiniteSet(first .. Len(g))
  BY <1>1, FS_Interval
<1>3. IsFiniteSet(SwingSet(dir, g, first))
  BY <1>1, <1>2, FS_Subset
<1> QED BY <1>3, FS_CardinalityType

(* A new session knows no swing.                                            *)
LEMMA LastTwoStarts ==
  ASSUME NEW g \in Seq(Bar), NEW dir \in Sides
  PROVE  WindowIs(<< >>, Len(g) + 1, g) /\ LastTwo(<< >>, dir, g, Len(g) + 1)
<1>1. Len(g) \in Nat /\ Len(<< >>) = 0 /\ << >> \in Seq(Hl) /\ << >> \in Seq(Nat)
  OBVIOUS
<1>2. Len(g) + 1 .. Len(g) = {}
  BY <1>1
<1>3. SwingSet(dir, g, Len(g) + 1) = {}
  BY <1>2 DEF SwingSet
<1>4. Cardinality({}) = 0
  BY FS_EmptySet
<1>5. LastTwo(<< >>, dir, g, Len(g) + 1)
  <2> DEFINE e == << >>
  <2>1. e \in Seq(Nat) /\ Len(e) = 0
    OBVIOUS
  <2> HIDE DEF e
  <2>2. Len(e) = MinOf(Cardinality(SwingSet(dir, g, Len(g) + 1)), 2)
    <3>1. Cardinality(SwingSet(dir, g, Len(g) + 1)) = 0
      BY <1>3, <1>4, Zenon
    <3>2. MinOf(0, 2) = 0
      BY DEF MinOf
    <3> QED BY <2>1, <3>1, <3>2, Zenon
  <2>3. ~(Len(e) >= 1) /\ ~(Len(e) = 2)
    BY <2>1
  <2>4. LastTwo(e, dir, g, Len(g) + 1)
    BY <2>1, <2>2, <2>3 DEF LastTwo
  <2> QED BY <2>4 DEF e
<1>6. Width \in Nat /\ Width >= 1
  BY Constants DEF Width
<1>7. Len(<< >>) = MinOf(Len(g) - (Len(g) + 1) + 1, Width)
  BY <1>1, <1>6 DEF MinOf
<1> QED BY <1>1, <1>5, <1>7 DEF WindowIs

(* The bounded deque of SwingStructure keeps the last two swings.           *)
LEMMA LastTwoStep ==
  ASSUME NEW g \in Seq(Bar), NEW b \in Bar, NEW first \in 1 .. Len(g) + 1,
         NEW w, WindowIs(w, first, Append(g, b)), NEW dir \in Sides,
         NEW q, LastTwo(q, dir, g, first)
  PROVE  LastTwo(IF SwingOf(dir, w) THEN Bounded(Append(q, Price(dir, w[Centre])), 2) ELSE q,
                 dir, Append(g, b), first)
<1> DEFINE n == Len(g)
           g1 == Append(g, b)
           c == n + 1 - Lookback
           ks == SwingSet(dir, g, first)
           ks1 == SwingSet(dir, g1, first)
           p == Price(dir, w[Centre])
<1>1. /\ n \in Nat /\ (\A i \in 1 .. n : g1[i] = g[i]) /\ first \in Nat /\ first >= 1
      /\ g1 \in Seq(Bar)
  OBVIOUS
<1>2. /\ ks \in SUBSET Nat /\ ks1 \in SUBSET Nat
      /\ \A k \in ks : k >= first /\ k < c /\ k <= n
      /\ ks1 = IF SwingOf(dir, w) THEN ks \cup {c} ELSE ks
      /\ SwingOf(dir, w) => c \in first .. n /\ Max(ks1) = c /\ p = Price(dir, g1[c])
      /\ ks1 # {} => Max(ks1) \in ks1 /\ \A k \in ks1 : k <= Max(ks1)
  <2> HIDE DEF g1, ks, ks1, c, n
  <2>1. ks = SwingSet(dir, g, first) /\ ks1 = SwingSet(dir, Append(g, b), first)
        /\ c = Len(g) + 1 - Lookback /\ n = Len(g) /\ g1 = Append(g, b)
    BY DEF g1, ks, ks1, c, n
  <2> QED BY <1>1, <2>1, SwingSetStep
<1>3. IsFiniteSet(ks) /\ Cardinality(ks) \in Nat
  BY <1>1, SwingSetFinite
<1>4. /\ q \in Seq(Nat) /\ Len(q) = MinOf(Cardinality(ks), 2)
      /\ Len(q) >= 1 => q[Len(q)] = Price(dir, g[Max(ks)])
      /\ Len(q) = 2 => q[1] = Price(dir, g[Max(ks \ {Max(ks)})])
  BY DEF LastTwo
<1>5. ASSUME NEW m \in ks PROVE g1[m] = g[m]
  <2>1. m \in 1 .. n
    BY <1>1, <1>2
  <2> QED BY <1>1, <2>1
<1>6. ASSUME ks # {}
      PROVE  Max(ks) \in ks /\ \A m \in ks : m <= Max(ks)
  <2>1. \A m \in ks : m <= n
    BY <1>2
  <2> QED BY <1>1, <1>2, <1>6, <2>1, MaxOfSet
<1>7. ASSUME Cardinality(ks) >= 2
      PROVE  Max(ks \ {Max(ks)}) \in ks
  <2>1. ks # {}
    BY <1>7, FS_EmptySet
  <2>2. Cardinality(ks \ {Max(ks)}) = Cardinality(ks) - 1 /\ IsFiniteSet(ks \ {Max(ks)})
    BY <1>3, <1>6, <2>1, FS_RemoveElement
  <2>3. ks \ {Max(ks)} # {}
    BY <1>3, <1>7, <2>2, FS_EmptySet
  <2>4. ks \ {Max(ks)} \in SUBSET Nat /\ \A m \in ks \ {Max(ks)} : m <= n
    BY <1>2
  <2> QED BY <1>1, <2>3, <2>4, MaxOfSet
<1>8. Cardinality(ks) = 0 <=> ks = {}
  BY <1>3, FS_EmptySet
<1>9. p \in Nat \/ ~SwingOf(dir, w)
  <2>1. SUFFICES ASSUME SwingOf(dir, w) PROVE p \in Nat
    OBVIOUS
  <2>2. Centre \in 1 .. Len(w) /\ w \in Seq(Hl)
    BY <2>1, Constants DEF SwingOf, Full, Centre, WindowIs
  <2>3. w[Centre] \in Hl
    BY <2>2
  <2> QED BY <2>3 DEF Price, Hl
<1> HIDE DEF n, g1, c, ks, ks1, p
<1>10. CASE ~SwingOf(dir, w)
  <2>1. ks1 = ks
    BY <1>2, <1>10
  <2>2. Len(q) >= 1 => ks # {}
    BY <1>3, <1>4, <1>8 DEF MinOf
  <2>3. Len(q) = 2 => Cardinality(ks) >= 2
    BY <1>3, <1>4 DEF MinOf
  <2>4. Len(q) >= 1 => q[Len(q)] = Price(dir, g1[Max(ks1)])
    BY <1>4, <1>5, <1>6, <2>1, <2>2
  <2>5. Len(q) = 2 => q[1] = Price(dir, g1[Max(ks1 \ {Max(ks1)})])
    BY <1>4, <1>5, <1>7, <2>1, <2>3
  <2>6. LastTwo(q, dir, g1, first)
    BY <1>4, <2>1, <2>4, <2>5 DEF LastTwo, ks1
  <2> QED BY <1>10, <2>6 DEF g1
<1>11. CASE SwingOf(dir, w)
  <2> DEFINE r == Bounded(Append(q, p), 2)
  <2>1. c \notin ks /\ ks1 = ks \cup {c} /\ Max(ks1) = c
    BY <1>1, <1>2, <1>11
  <2>2. Cardinality(ks1) = Cardinality(ks) + 1 /\ ks1 \ {Max(ks1)} = ks
    <3>1. Cardinality(ks \cup {c}) = Cardinality(ks) + 1
      BY <1>3, <2>1, FS_AddElement
    <3>2. (ks \cup {c}) \ {c} = ks
      BY <2>1
    <3> QED BY <2>1, <3>1, <3>2
  <2>3. Len(q) \in {0, 1, 2} /\ p \in Nat /\ q \in Seq(Nat)
    BY <1>3, <1>4, <1>9, <1>11 DEF MinOf
  <2>4. /\ r \in Seq(Nat) /\ Len(r) = MinOf(Len(q) + 1, 2) /\ r[Len(r)] = p
        /\ Len(r) = 2 => r[1] = q[Len(q)]
    <3> DEFINE a == Append(q, p)
    <3>a. /\ a \in Seq(Nat) /\ Len(a) = Len(q) + 1 /\ a[Len(q) + 1] = p
          /\ \A i \in 1 .. Len(q) : a[i] = q[i]
      BY <2>3
    <3>b. r = IF Len(a) > 2 THEN SubSeq(a, Len(a) - 1, Len(a)) ELSE a
      <4>1. Len(a) - 2 + 1 = Len(a) - 1
        BY <3>a
      <4> QED BY <4>1 DEF Bounded
    <3> HIDE DEF a, r
    <3>1. CASE Len(q) = 0
      <4>1. Len(r) = 1 /\ r[1] = p /\ r \in Seq(Nat)
        BY <3>1, <3>a, <3>b
      <4>2. MinOf(Len(q) + 1, 2) = 1
        BY <3>1 DEF MinOf
      <4>3. r[Len(r)] = p /\ Len(r) # 2
        BY <4>1
      <4> QED BY <4>1, <4>2, <4>3, Zenon
    <3>2. CASE Len(q) = 1
      <4>1. r = a /\ Len(a) = 2 /\ a[1] = q[1]
        BY <3>2, <3>a, <3>b
      <4> QED BY <3>2, <3>a, <4>1 DEF MinOf
    <3>3. CASE Len(q) = 2
      <4>1. a \in Seq(Nat) /\ Len(a) = 3 /\ a[3] = p /\ a[2] = q[2]
        BY <3>3, <3>a
      <4>2. r = SubSeq(a, 2, 3)
        BY <3>b, <4>1
      <4>3. r \in Seq(Nat) /\ Len(r) = 2 /\ r[1] = a[2] /\ r[2] = a[3]
        <5>0. 2 \in Nat /\ 2 >= 1 /\ Len(a) = 2 + 1 /\ r = SubSeq(a, 2, 2 + 1)
          BY <4>1, <4>2
        <5>1. Len(r) = 2 /\ r \in Seq(Nat) /\ \A i \in 1 .. 2 : r[i] = a[i + 1]
          BY <4>1, <5>0, Shift, Zenon
        <5>2. r[1] = a[1 + 1] /\ r[2] = a[2 + 1]
          BY <5>1
        <5> QED BY <5>1, <5>2
      <4> QED BY <3>3, <4>1, <4>3 DEF MinOf
    <3> QED BY <2>3, <3>1, <3>2, <3>3
  <2> HIDE DEF r
  <2>5. Len(r) = MinOf(Cardinality(ks1), 2)
    BY <1>3, <1>4, <2>2, <2>4 DEF MinOf
  <2>6. r[Len(r)] = Price(dir, g1[Max(ks1)])
    BY <1>2, <1>11, <2>1, <2>4
  <2>7. Len(r) = 2 => r[1] = Price(dir, g1[Max(ks1 \ {Max(ks1)})])
    <3>1. SUFFICES ASSUME Len(r) = 2 PROVE r[1] = Price(dir, g1[Max(ks)])
      BY <2>2
    <3>2. Len(q) >= 1 /\ ks # {}
      BY <1>3, <1>4, <1>8, <2>3, <2>4, <3>1 DEF MinOf
    <3> QED BY <1>4, <1>5, <1>6, <2>4, <3>1, <3>2
  <2>8. LastTwo(r, dir, g1, first)
    BY <2>4, <2>5, <2>6, <2>7 DEF LastTwo, ks1
  <2> QED BY <1>11, <2>8 DEF g1, r, p
<1> QED BY <1>10, <1>11

-----------------------------------------------------------------------------
(* The structure tracker and the chart.                                     *)
StructureInv ==
  /\ HistOK
  /\ str \in StrType /\ WindowIs(str.window, 1, hist)
  /\ str.refHigh = RefOf("LONG", hist, events, Now)
  /\ str.refLow = RefOf("SHORT", hist, events, Now)
  /\ str.trend = TrendOf(events, Now)

(* The swing tracker of the session.                                        *)
SwingsInv ==
  /\ WindowIs(swings.window, start, hist)
  /\ LastTwo(swings.highs, "LONG", hist, start)
  /\ LastTwo(swings.lows, "SHORT", hist, start)

(* The chart's break is the tracker's: the close is beyond the reference.   *)
LEMMA BrokeIs ==
  ASSUME HistOK, NEW x \in Shapes, Feed(x), NEW ev \in Marks, events' = Append(events, ev),
         NEW dir \in Sides
  PROVE  Broke(dir)' <=> Crosses(dir, RefOf(dir, hist', events, Now), BarOf(x))
<1> DEFINE n == Len(hist)
           b == BarOf(x)
           g1 == Append(hist, b)
           ks1 == SwingSet(dir, g1, 1)
<1>1. /\ b \in Bar /\ hist \in Seq(Bar) /\ n \in Nat /\ hist' = g1 /\ Len(g1) = n + 1
      /\ g1[n + 1] = b /\ events \in Seq(Marks) /\ Len(events) = n
  BY FeedIs DEF HistOK, Now, Feed
<1>2. ks1 \in SUBSET Nat /\ (\A k \in ks1 : k >= 1 /\ k + Lookback <= n + 1)
      /\ Lookback \in Nat
  <2> HIDE DEF n, b, g1
  <2> QED BY <1>1, Constants DEF SwingSet, SwingAt
<1>3. {k \in 1 .. Now' : IF dir = "LONG" THEN SwingHigh(1, k)' ELSE SwingLow(1, k)'} = ks1
  <2>1. hist' = g1 /\ Now' = Len(g1)
    BY <1>1 DEF Now
  <2> HIDE DEF g1
  <2>2. CASE dir = "LONG"
    BY <2>1, <2>2 DEF SwingHigh, SwingSet, SwingAt, Beyond, Now
  <2>3. CASE dir = "SHORT"
    BY <2>1, <2>3 DEF SwingLow, SwingSet, SwingAt, Beyond, Now
  <2> QED BY <2>2, <2>3 DEF Sides
<1>4. Now' - 1 = n /\ Now' = n + 1
  BY <1>1 DEF Now
<1>5. ASSUME NEW from \in Nat, from >= 1
      PROVE  Marked(events', dir, from, n) = Marked(events, dir, from, n)
  BY <1>1, <1>5, MarkedStep
<1> HIDE DEF n, b, g1, ks1
<1>6. Broke(dir)' <=>
        /\ ks1 # {}
        /\ Marked(events', dir, Max(ks1) + Lookback, n) = {}
        /\ IF dir = "LONG" THEN g1[n + 1].c > g1[Max(ks1)].h
                           ELSE g1[n + 1].c < g1[Max(ks1)].l
  BY <1>1, <1>3, <1>4 DEF Broke, EventsIn, Marked
<1>7. RefOf(dir, g1, events, n) =
        IF ks1 = {} \/ Marked(events, dir, Max(ks1) + Lookback, n) # {} THEN None
        ELSE [price |-> Price(dir, g1[Max(ks1)])]
  BY DEF RefOf, ks1
<1>8. CASE ks1 = {}
  BY <1>1, <1>6, <1>7, <1>8 DEF Crosses, n, b, Now
<1>9. CASE ks1 # {}
  <2>1. Max(ks1) + Lookback \in Nat /\ Max(ks1) + Lookback >= 1
    <3>1. Max(ks1) \in ks1
      <4>1. n + 1 \in Nat /\ \A k \in ks1 : k <= n + 1
        BY <1>1, <1>2
      <4> QED BY <1>2, <1>9, <4>1, MaxOfSet
    <3>2. Max(ks1) \in Nat /\ Max(ks1) >= 1
      BY <1>2, <3>1
    <3> QED BY <1>2, <3>2
  <2>2. Marked(events', dir, Max(ks1) + Lookback, n) = Marked(events, dir, Max(ks1) + Lookback, n)
    BY <1>5, <2>1
  <2>3. CASE Marked(events, dir, Max(ks1) + Lookback, n) # {}
    <3>1. RefOf(dir, g1, events, n) = None
      BY <1>7, <2>3
    <3> QED BY <1>1, <1>6, <2>2, <2>3, <3>1 DEF Crosses, n, b, Now
  <2>4. CASE Marked(events, dir, Max(ks1) + Lookback, n) = {}
    <3>1. RefOf(dir, g1, events, n) = [price |-> Price(dir, g1[Max(ks1)])]
      BY <1>7, <1>9, <2>4
    <3>2. RefOf(dir, g1, events, n) # None
          /\ RefOf(dir, g1, events, n).price = Price(dir, g1[Max(ks1)])
      BY <3>1, NoneIs
    <3>3. Broke(dir)' <=> IF dir = "LONG" THEN b.c > g1[Max(ks1)].h
                                          ELSE b.c < g1[Max(ks1)].l
      BY <1>1, <1>6, <1>9, <2>2, <2>4
    <3>4. Crosses(dir, RefOf(dir, g1, events, n), b) <=>
            IF dir = "LONG" THEN b.c > g1[Max(ks1)].h ELSE b.c < g1[Max(ks1)].l
      BY <3>2 DEF Crosses, Price
    <3>5. hist' = g1 /\ Now = n /\ BarOf(x) = b
      BY <1>1 DEF n, b, Now
    <3> QED BY <3>3, <3>4, <3>5
  <2> QED BY <2>3, <2>4
<1> QED BY <1>8, <1>9

(* A step keeps the history well formed, and its event is one.              *)
LEMMA HistStep ==
  ASSUME StructureInv, NEW x \in Shapes, Feed(x)
  PROVE  HistOK' /\ str'.event \in Marks
<1>1. /\ BarOf(x) \in Bar /\ hist' \in Seq(Bar) /\ Now' = Now + 1 /\ Now \in Nat
      /\ \A i, j \in 1 .. Now + 1 : i < j => hist'[i].t < hist'[j].t
      /\ hist \in Seq(Bar) /\ hist' = Append(hist, BarOf(x))
  BY FeedIs DEF StructureInv, HistOK, Feed
<1>2. str'.event \in Marks
  <2>1. str \in StrType /\ str' = UpdateStructure(str, BarOf(x))
    BY DEF StructureInv, Feed
  <2>2. WindowIs(Pushed(str.window, BarOf(x)), 1, Append(hist, BarOf(x)))
    <3>1. 1 \in 1 .. Len(hist) + 1
      BY <1>1
    <3> QED BY <1>1, <3>1, WindowStep DEF StructureInv
  <2>3. Pushed(str.window, BarOf(x)) \in Seq(Hl)
    BY <2>2 DEF WindowIs
  <2>4. str' \in StrType
    BY <1>1, <2>1, <2>3, StructureStep
  <2> QED BY <2>4 DEF StrType
<1>3. events \in Seq(Marks) /\ Len(events) = Now /\ events' = Append(events, str'.event)
      /\ start \in Nat /\ start >= 1 /\ start <= Now + 1
      /\ start' = IF x.fresh THEN Now + 1 ELSE start
  BY <1>1 DEF StructureInv, HistOK, Feed
<1>4. events' \in Seq(Marks) /\ Len(events') = Now + 1
  BY <1>1, <1>2, <1>3
<1>5. start' \in 1 .. Now' + 1 /\ start' <= Now'
  <2>1. start' = Now + 1 \/ start' = start
    BY <1>3, Zenon
  <2> QED BY <1>1, <1>3, <2>1
<1>6. \A i, j \in 1 .. Now' : i < j => hist'[i].t < hist'[j].t
  BY <1>1
<1> QED BY <1>1, <1>2, <1>4, <1>5, <1>6 DEF HistOK

(* A step keeps the structure's invariant and reports the event of the      *)
(* chart.                                                                   *)
LEMMA StructureInvStep ==
  ASSUME StructureInv, NEW x \in Shapes, Feed(x)
  PROVE  StructureInv' /\ events'[Now'] = ChartEvent'
<1> DEFINE n == Len(hist)
           b == BarOf(x)
           g1 == Append(hist, b)
           w == Pushed(str.window, b)
           ev == str'.event
           e1 == Append(events, ev)
           high == Renewed("LONG", str.refHigh, w)
           low == Renewed("SHORT", str.refLow, w)
           up == Crosses("LONG", high, b)
           down == Crosses("SHORT", low, b)
           long == up /\ (down => b.c >= b.o)
           short == down /\ ~long
<1>1. HistOK' /\ HistOK /\ ev \in Marks
  BY HistStep DEF StructureInv
<1>2. /\ b \in Bar /\ hist \in Seq(Bar) /\ n \in Nat /\ hist' = g1 /\ Len(g1) = n + 1
      /\ g1[n + 1] = b /\ events \in Seq(Marks) /\ Len(events) = n /\ events' = e1
      /\ Now = n /\ Now' = n + 1 /\ e1[n + 1] = ev /\ \A i \in 1 .. n : e1[i] = events[i]
  <2>1. /\ b \in Bar /\ hist \in Seq(Bar) /\ n \in Nat /\ hist' = g1 /\ Now = n
        /\ events \in Seq(Marks) /\ Len(events) = n /\ events' = e1 /\ ev \in Marks
    BY <1>1, FeedIs DEF HistOK, Now, Feed
  <2> HIDE DEF b, ev
  <2> QED BY <2>1 DEF Now
<1>3. WindowIs(w, 1, g1)
  <2>1. 1 \in 1 .. Len(hist) + 1
    BY <1>2
  <2> QED BY <1>2, <2>1, WindowStep DEF StructureInv
<1>4. w \in Seq(Hl) /\ str \in StrType /\ str' = UpdateStructure(str, b)
  BY <1>3 DEF WindowIs, StructureInv, Feed
<1>5. /\ str' \in StrType
      /\ str'.window = w
      /\ str'.refHigh = IF long THEN None ELSE high
      /\ str'.refLow = IF short THEN None ELSE low
      /\ str'.trend = IF long THEN "LONG" ELSE IF short THEN "SHORT" ELSE str.trend
      /\ ev = IF long THEN Event(str, "LONG") ELSE IF short THEN Event(str, "SHORT") ELSE None
  <2> HIDE DEF b, w, high, low, up, down, long, short
  <2>1. /\ w = Pushed(str.window, b)
        /\ high = Renewed("LONG", str.refHigh, w) /\ low = Renewed("SHORT", str.refLow, w)
        /\ up = Crosses("LONG", high, b) /\ down = Crosses("SHORT", low, b)
        /\ long = (up /\ (down => b.c >= b.o)) /\ short = (down /\ ~long)
    BY DEF w, high, low, up, down, long, short
  <2> QED BY <1>2, <1>4, <2>1, StructureStep
<1>6. /\ high = RefOf("LONG", g1, events, n) /\ low = RefOf("SHORT", g1, events, n)
      /\ RefOf("LONG", g1, e1, n + 1) =
           IF ev # None /\ ev.dir = "LONG" THEN None ELSE RefOf("LONG", g1, events, n)
      /\ RefOf("SHORT", g1, e1, n + 1) =
           IF ev # None /\ ev.dir = "SHORT" THEN None ELSE RefOf("SHORT", g1, events, n)
  <2>1. \A dir \in Sides :
          /\ RefOf(dir, g1, events, n) = Renewed(dir, RefOf(dir, hist, events, n), w)
          /\ RefOf(dir, g1, e1, n + 1) =
              IF ev # None /\ ev.dir = dir THEN None ELSE RefOf(dir, g1, events, n)
    <3> HIDE DEF b, ev, w
    <3> QED BY <1>1, <1>2, <1>3, RefStep DEF Renewed
  <2>2. str.refHigh = RefOf("LONG", hist, events, n) /\ str.refLow = RefOf("SHORT", hist, events, n)
    BY <1>2 DEF StructureInv
  <2>3. "LONG" \in Sides /\ "SHORT" \in Sides
    BY DEF Sides
  <2> QED BY <2>1, <2>2, <2>3
<1>7. Broke("LONG")' = up /\ Broke("SHORT")' = down
  <2>1. \A dir \in Sides : Broke(dir)' <=> Crosses(dir, RefOf(dir, g1, events, n), b)
    <3>1. events' = Append(events, ev) /\ hist' = g1 /\ Now = n
      BY <1>2
    <3> HIDE DEF ev
    <3> QED BY <1>1, <3>1, BrokeIs
  <2>2. (Broke("LONG")' \in BOOLEAN) /\ (Broke("SHORT")' \in BOOLEAN)
    BY DEF Broke
  <2>3. up \in BOOLEAN /\ down \in BOOLEAN
    BY DEF Crosses
  <2>4. (Broke("LONG")' <=> up) /\ (Broke("SHORT")' <=> down)
    BY <1>6, <2>1 DEF Sides
  <2> QED BY <2>2, <2>3, <2>4
<1>8. TrendOf(e1, n + 1) = IF ev # None THEN ev.dir ELSE TrendOf(events, n)
  BY <1>1, <1>2, TrendStep
<1>9. str.trend = TrendOf(events, n)
  BY <1>2 DEF StructureInv
<1>10. Event(str, "LONG").dir = "LONG" /\ Event(str, "SHORT").dir = "SHORT"
       /\ Event(str, "LONG") # None /\ Event(str, "SHORT") # None
  BY NoneIs DEF Event
<1> HIDE DEF n, b, g1, w, ev, e1, high, low, up, down, long, short
<1>11. StructureInv'
  <2>1. WindowIs(str.window, 1, hist)'
    BY <1>2, <1>3, <1>5
  <2>2. (str.refHigh)' = RefOf("LONG", g1, e1, n + 1)
    BY <1>5, <1>6, <1>10 DEF short
  <2>3. (str.refLow)' = RefOf("SHORT", g1, e1, n + 1)
    BY <1>5, <1>6, <1>10 DEF short
  <2>4. (str.trend)' = TrendOf(e1, n + 1)
    BY <1>5, <1>8, <1>9, <1>10
  <2> QED BY <1>1, <1>2, <1>5, <2>1, <2>2, <2>3, <2>4 DEF StructureInv
<1>12. /\ Past(e1, n) = Past(events, n) /\ Past(events, n) \in SUBSET (1 .. n)
       /\ Past(events, n) # {} => e1[Max(Past(events, n))] = events[Max(Past(events, n))]
  <2>1. Past(events, n) \in SUBSET (1 .. n)
    BY DEF Past, Marked
  <2>2. Past(e1, n) = Past(events, n)
    BY <1>2 DEF Past, Marked
  <2>3. ASSUME Past(events, n) # {} PROVE Max(Past(events, n)) \in 1 .. n
    <3>1. Past(events, n) \in SUBSET Nat /\ \A m \in Past(events, n) : m <= n
      BY <1>2, <2>1
    <3>2. Max(Past(events, n)) \in Past(events, n)
      BY <1>2, <2>3, <3>1, MaxOfSet
    <3> QED BY <2>1, <3>2
  <2> QED BY <1>2, <2>1, <2>2, <2>3
<1>13. (EventsIn("LONG", 1, Now - 1) \cup EventsIn("SHORT", 1, Now - 1))' = Past(e1, n)
  <2>1. n + 1 - 1 = n
    BY <1>2
  <2> QED BY <1>2, <2>1 DEF EventsIn, Past, Marked
<1> DEFINE dir == IF long THEN "LONG" ELSE "SHORT"
           turn == Past(events, n) # {} /\ events[Max(Past(events, n))].dir # dir
<1>14. ChartEvent' = IF ~up /\ ~down THEN None
                     ELSE [kind |-> IF turn THEN "CHOCH" ELSE "BOS", dir |-> dir]
  <2>1. ((hist[Now].c >= hist[Now].o)') = (b.c >= b.o)
    BY <1>2
  <2> QED BY <1>2, <1>7, <1>12, <1>13, <2>1 DEF ChartEvent, long
<1>15. turn <=> str.trend = Opposite[dir]
  <2>1. str.trend \in Sides \cup {"none"}
    BY <1>4 DEF StrType
  <2>2. dir \in Sides /\ Opposite["LONG"] = "SHORT" /\ Opposite["SHORT"] = "LONG"
    BY DEF Sides, Opposite
  <2>3. CASE Past(events, n) = {}
    <3>1. str.trend = "none"
      BY <1>9, <2>3 DEF TrendOf
    <3> QED BY <2>2, <2>3, <3>1 DEF Sides
  <2>4. CASE Past(events, n) # {}
    <3>1. str.trend = events[Max(Past(events, n))].dir
      BY <1>9, <2>4 DEF TrendOf
    <3>2. str.trend \in Sides
      <4>1. Max(Past(events, n)) \in Past(events, n)
        <5>1. Past(events, n) \in SUBSET Nat /\ \A m \in Past(events, n) : m <= n
          BY <1>2, <1>12
        <5> QED BY <1>2, <2>4, <5>1, MaxOfSet
      <4> QED BY <3>1, <4>1 DEF Past, Marked, Sides
    <3> QED BY <2>2, <2>4, <3>1, <3>2 DEF Sides
  <2> QED BY <2>3, <2>4
<1>16. ev = ChartEvent'
  <2>1. CASE long
    BY <1>5, <1>14, <1>15, <2>1 DEF Event, long
  <2>2. CASE short
    BY <1>5, <1>14, <1>15, <2>2 DEF Event, short
  <2>3. CASE ~long /\ ~short
    BY <1>5, <1>14, <2>3 DEF long, short
  <2> QED BY <2>1, <2>2, <2>3
<1> QED BY <1>2, <1>11, <1>16

(* The swings of a session: what the tracker makes of one bar.              *)
LEMMA SwingsInvStep ==
  ASSUME HistOK, SwingsInv, NEW x \in Shapes, Feed(x)
  PROVE  SwingsInv'
<1> DEFINE b == BarOf(x)
           g1 == Append(hist, b)
           s == IF x.fresh THEN NewSwings ELSE swings
           first == IF x.fresh THEN Len(hist) + 1 ELSE start
           w == Pushed(s.window, b)
<1>1. /\ b \in Bar /\ hist \in Seq(Bar) /\ Len(hist) \in Nat /\ hist' = g1
      /\ start' = first /\ swings' = UpdateSwings(s, b)
  BY FeedIs DEF HistOK, Now, Feed
<1>2. /\ first \in 1 .. Len(hist) + 1 /\ WindowIs(s.window, first, hist)
      /\ LastTwo(s.highs, "LONG", hist, first) /\ LastTwo(s.lows, "SHORT", hist, first)
  <2>1. CASE x.fresh
    <3>1. s.window = << >> /\ s.highs = << >> /\ s.lows = << >> /\ first = Len(hist) + 1
      BY <2>1 DEF NewSwings
    <3>2. \A d \in Sides : WindowIs(<< >>, Len(hist) + 1, hist)
                           /\ LastTwo(<< >>, d, hist, Len(hist) + 1)
      BY <1>1, LastTwoStarts
    <3>3. Len(hist) + 1 \in 1 .. Len(hist) + 1
      BY <1>1
    <3> HIDE DEF s, first
    <3> QED BY <3>1, <3>2, <3>3 DEF Sides
  <2>2. CASE ~x.fresh
    <3>1. s = swings /\ first = start
      BY <2>2
    <3>2. start \in 1 .. Len(hist) + 1
      BY DEF HistOK, Now
    <3> HIDE DEF s, first
    <3> QED BY <3>1, <3>2 DEF SwingsInv
  <2> QED BY <2>1, <2>2
<1> HIDE DEF s, first, b, g1
<1>3. WindowIs(w, first, g1)
  BY <1>1, <1>2, WindowStep DEF g1
<1>4. /\ IsSwing(w, LAMBDA u, v : u.h > v.h) <=> SwingOf("LONG", w)
      /\ IsSwing(w, LAMBDA u, v : u.l < v.l) <=> SwingOf("SHORT", w)
  BY DEF IsSwing, SwingOf, Beyond
<1>5. swings' = [window |-> w,
       highs |-> IF SwingOf("LONG", w) THEN Bounded(Append(s.highs, Price("LONG", w[Centre])), 2)
                 ELSE s.highs,
       lows |-> IF SwingOf("SHORT", w) THEN Bounded(Append(s.lows, Price("SHORT", w[Centre])), 2)
                ELSE s.lows]
  BY <1>1, <1>4 DEF UpdateSwings, Pushed, Price
<1> HIDE DEF w
<1>6. ASSUME NEW d \in Sides, NEW q, LastTwo(q, d, hist, first)
      PROVE  LastTwo(IF SwingOf(d, w) THEN Bounded(Append(q, Price(d, w[Centre])), 2) ELSE q,
                     d, g1, first)
  BY <1>1, <1>2, <1>3, <1>6, LastTwoStep, Zenon DEF g1
<1>7. LastTwo(swings'.highs, "LONG", g1, first) /\ LastTwo(swings'.lows, "SHORT", g1, first)
      /\ swings'.window = w
  <2>1. "LONG" \in Sides /\ "SHORT" \in Sides
    BY DEF Sides
  <2>2. /\ swings'.highs = IF SwingOf("LONG", w)
                           THEN Bounded(Append(s.highs, Price("LONG", w[Centre])), 2)
                           ELSE s.highs
        /\ swings'.lows = IF SwingOf("SHORT", w)
                          THEN Bounded(Append(s.lows, Price("SHORT", w[Centre])), 2)
                          ELSE s.lows
        /\ swings'.window = w
    BY <1>5
  <2>3. LastTwo(swings'.highs, "LONG", g1, first)
    BY <1>2, <1>6, <2>1, <2>2, Zenon
  <2>4. LastTwo(swings'.lows, "SHORT", g1, first)
    BY <1>2, <1>6, <2>1, <2>2, Zenon
  <2> QED BY <2>2, <2>3, <2>4
<1> QED BY <1>1, <1>3, <1>7 DEF SwingsInv

(* The last two prices per direction decide the bias as the chart does.     *)
LEMMA BiasIs == HistOK /\ SwingsInv => Bias(swings) = ChartBias
<1> SUFFICES ASSUME HistOK, SwingsInv PROVE Bias(swings) = ChartBias
  OBVIOUS
<1> DEFINE hs == SwingSet("LONG", hist, start)
           ls == SwingSet("SHORT", hist, start)
           dh == hist[Max(hs)].h - hist[Max(hs \ {Max(hs)})].h
           dl == hist[Max(ls)].l - hist[Max(ls \ {Max(ls)})].l
<1>1. {k \in start..Now : SwingHigh(start, k)} = hs
  BY DEF SwingHigh, SwingSet, SwingAt, Beyond, Now
<1>2. {k \in start..Now : SwingLow(start, k)} = ls
  BY DEF SwingLow, SwingSet, SwingAt, Beyond, Now
<1>3. ChartBias = IF Cardinality(hs) < 2 \/ Cardinality(ls) < 2 THEN "none"
                  ELSE IF dh > 0 /\ dl > 0 THEN "LONG"
                  ELSE IF dh < 0 /\ dl < 0 THEN "SHORT" ELSE "none"
  BY <1>1, <1>2 DEF ChartBias, Rising
<1>4. Cardinality(hs) \in Nat /\ Cardinality(ls) \in Nat
  <2>1. hist \in Seq(Bar) /\ start \in Nat
    BY DEF HistOK, Now
  <2> QED BY <2>1, SwingSetFinite
<1>5. /\ swings.highs \in Seq(Nat) /\ Len(swings.highs) = MinOf(Cardinality(hs), 2)
      /\ Len(swings.highs) >= 1 => swings.highs[Len(swings.highs)] = hist[Max(hs)].h
      /\ Len(swings.highs) = 2 => swings.highs[1] = hist[Max(hs \ {Max(hs)})].h
  BY DEF SwingsInv, LastTwo, Price
<1>6. /\ swings.lows \in Seq(Nat) /\ Len(swings.lows) = MinOf(Cardinality(ls), 2)
      /\ Len(swings.lows) >= 1 => swings.lows[Len(swings.lows)] = hist[Max(ls)].l
      /\ Len(swings.lows) = 2 => swings.lows[1] = hist[Max(ls \ {Max(ls)})].l
  BY DEF SwingsInv, LastTwo, Price
<1> HIDE DEF hs, ls
<1>7. CASE Cardinality(hs) < 2 \/ Cardinality(ls) < 2
  <2>1. Len(swings.highs) < 2 \/ Len(swings.lows) < 2
    BY <1>4, <1>5, <1>6, <1>7 DEF MinOf
  <2> QED BY <1>3, <1>7, <2>1 DEF Bias
<1>8. CASE ~(Cardinality(hs) < 2 \/ Cardinality(ls) < 2)
  <2>1. Len(swings.highs) = 2 /\ Len(swings.lows) = 2
    BY <1>4, <1>5, <1>6, <1>8 DEF MinOf
  <2>2. /\ swings.highs[2] = hist[Max(hs)].h
        /\ swings.highs[1] = hist[Max(hs \ {Max(hs)})].h
        /\ swings.lows[2] = hist[Max(ls)].l
        /\ swings.lows[1] = hist[Max(ls \ {Max(ls)})].l
        /\ swings.highs[1] \in Nat /\ swings.highs[2] \in Nat
        /\ swings.lows[1] \in Nat /\ swings.lows[2] \in Nat
    BY <1>5, <1>6, <2>1
  <2>3. dh = swings.highs[2] - swings.highs[1] /\ dl = swings.lows[2] - swings.lows[1]
    BY <2>2
  <2> HIDE DEF dh, dl
  <2>4. (dh > 0 <=> swings.highs[2] > swings.highs[1])
        /\ (dl > 0 <=> swings.lows[2] > swings.lows[1])
        /\ (dh < 0 <=> swings.highs[2] < swings.highs[1])
        /\ (dl < 0 <=> swings.lows[2] < swings.lows[1])
    BY <2>2, <2>3
  <2> QED BY <1>3, <1>8, <2>1, <2>4 DEF Bias
<1> QED BY <1>7, <1>8

(* Both swing trackers start empty.                                         *)
LEMMA StructureInit ==
  ASSUME FeedInit
  PROVE  StructureInv /\ SwingsInv
<1>1. hist = << >> /\ events = << >> /\ str = NewStructure /\ swings = NewSwings /\ start = 1
  BY DEF FeedInit
<1>2. hist \in Seq(Bar) /\ events \in Seq(Marks) /\ Now = 0 /\ Len(events) = 0 /\ Len(hist) = 0
  BY <1>1 DEF Now
<1>3. HistOK
  BY <1>1, <1>2 DEF HistOK
<1>4. \A d \in Sides : WindowIs(<< >>, 1, hist) /\ LastTwo(<< >>, d, hist, 1)
  <2>1. Len(hist) + 1 = 1
    BY <1>2
  <2> QED BY <1>2, <2>1, LastTwoStarts
<1>5. \A d \in Sides : RefOf(d, hist, events, 0) = None
  <2>1. \A d : SwingSet(d, hist, 1) = {}
    BY <1>2 DEF SwingSet
  <2> QED BY <2>1 DEF RefOf
<1>6. TrendOf(events, 0) = "none"
  BY DEF TrendOf, Past, Marked
<1>7. str \in StrType /\ str.window = << >> /\ str.refHigh = None /\ str.refLow = None
      /\ str.trend = "none"
  <2>1. << >> \in Seq(Hl)
    OBVIOUS
  <2> QED BY <1>1, <2>1 DEF NewStructure, StrType, Refs, Marks
<1>8. StructureInv
  BY <1>2, <1>3, <1>4, <1>5, <1>6, <1>7 DEF StructureInv, Sides
<1>9. SwingsInv
  BY <1>1, <1>4 DEF SwingsInv, NewSwings, Sides
<1> QED BY <1>8, <1>9

(* Stuttering leaves every part of the invariant alone.                     *)
LEMMA StructureStutters ==
  ASSUME UNCHANGED feedVars
  PROVE  /\ StructureInv' = StructureInv /\ SwingsInv' = SwingsInv
         /\ StructureIsChart' = StructureIsChart
BY DEF feedVars, StructureInv, SwingsInv, StructureIsChart, HistOK, Now, ChartEvent, Broke,
       EventsIn, SwingHigh, SwingLow, ChartBias, Rising

(* StructureTracker.update and SwingStructure.update: the event reported    *)
(* for a bar is the one the chart of all bars shows, and the bias is that   *)
(* of the session's last two swings, for every lookback and every bars.     *)
THEOREM StructureFollowsChart == FeedSpec => []StructureIsChart
<1> DEFINE I == StructureInv /\ SwingsInv /\ StructureIsChart
<1>1. FeedInit => I
  <2>1. ASSUME FeedInit PROVE StructureIsChart
    BY <2>1 DEF FeedInit, StructureIsChart, Now
  <2> QED BY <2>1, StructureInit
<1>2. I /\ [FeedNext]_feedVars => I'
  <2>1. ASSUME I, NEW x \in Shapes, Feed(x) PROVE I'
    <3>1. StructureInv' /\ events'[Now'] = ChartEvent'
      BY <2>1, StructureInvStep
    <3>2. SwingsInv'
      BY <2>1, SwingsInvStep DEF StructureInv
    <3>3. HistOK'
      BY <3>1 DEF StructureInv
    <3>4. (Bias(swings) = ChartBias)'
      BY <3>2, <3>3, BiasIs, PTL
    <3> QED BY <3>1, <3>2, <3>4 DEF StructureIsChart
  <2>2. ASSUME I, UNCHANGED feedVars PROVE I'
    BY <2>2, StructureStutters
  <2> QED BY <2>1, <2>2 DEF FeedNext
<1> QED BY <1>1, <1>2, PTL DEF FeedSpec

-----------------------------------------------------------------------------
(* Order blocks of the bars g with the events e.  Org, Blk: the bar a       *)
(* displacement bar d makes a block of; Promoted: d was confirmed by bar c; *)
(* Stood: and has not been invalidated by bar m.                            *)
Org(g, d) ==
  {p \in MaxOf(1, d - RecentBars) .. d - 1 : BarDir(g[p]) = Opposite[BarDir(g[d])]}
Cand(g, dir, d) == g[d].disp /\ BarDir(g[d]) = dir /\ Org(g, d) # {}
Blk(g, d) == [top |-> g[Max(Org(g, d))].h, bottom |-> g[Max(Org(g, d))].l]

Mark(e, dir, i) == e[i] # None /\ e[i].dir = dir
FirstMark(e, dir, d, c) == Mark(e, dir, c) /\ \A i \in d .. c - 1 : ~Mark(e, dir, i)
NewerThan(g, dir, d, to) == {x \in d + 1 .. to : Cand(g, dir, x)}

Promoted(g, e, dir, d, c) ==
  /\ Cand(g, dir, d) /\ FirstMark(e, dir, d, c)
  /\ c - d <= ConfirmBars
  /\ Cardinality(NewerThan(g, dir, d, c)) < MaxPending

Kept(g, dir, d, i) == i - d < ExpiryBars /\ ~Invalidated(Blk(g, d), dir, g[i])
Stood(g, e, dir, d, c, m) ==
  Promoted(g, e, dir, d, c) /\ \A i \in c + 1 .. m : Kept(g, dir, d, i)

Standers(g, e, dir, m) == {d \in 1 .. m : \E c \in d .. m : Stood(g, e, dir, d, c, m)}
Above(g, e, dir, d, m) == {x \in Standers(g, e, dir, m) : x > d}

Alive(g, e, dir, d, c, n) ==
  /\ Stood(g, e, dir, d, c, n)
  /\ \A m \in c .. n : Cardinality(Above(g, e, dir, d, m)) < MaxBlocks

Waits(g, e, dir, d, n) ==
  /\ Cand(g, dir, d) /\ \A i \in d .. n : ~Mark(e, dir, i)
  /\ n - d <= ConfirmBars
  /\ Cardinality(NewerThan(g, dir, d, n)) < MaxPending

(* What the tracker keeps of a block.                                       *)
Held(g, d, c, n) ==
  [top |-> Blk(g, d).top, bottom |-> Blk(g, d).bottom, born |-> d,
   mitigated |-> \E i \in c + 1 .. n : Touched(Blk(g, d), g[i])]
Awaited(g, d) ==
  [top |-> Blk(g, d).top, bottom |-> Blk(g, d).bottom, born |-> d, mitigated |-> FALSE]

(* The origins of a displacement bar lie before it, and one is the last.    *)
LEMMA OrgIs ==
  ASSUME NEW g, NEW d \in Nat
  PROVE  /\ Org(g, d) \in SUBSET (1 .. d - 1)
         /\ Org(g, d) # {} => Max(Org(g, d)) \in Org(g, d)
                              /\ \A p \in Org(g, d) : p <= Max(Org(g, d))
<1>1. Org(g, d) \in SUBSET (1 .. d - 1)
  BY Constants DEF Org, MaxOf
<1>2. Org(g, d) \in SUBSET Nat /\ \A p \in Org(g, d) : p <= d
  BY <1>1
<1> QED BY <1>1, <1>2, MaxOfSet

(* What a chart says of its first n bars does not change with later ones.   *)
Agree(n, g, g1, e, e1) == \A i \in 1 .. n : g1[i] = g[i] /\ e1[i] = e[i]

(* What is known of the first n bars does not change with later ones.       *)
LEMMA SamePrefix ==
  ASSUME NEW n \in Nat, NEW g, NEW g1, NEW e, NEW e1, NEW dir,
         Agree(n, g, g1, e, e1)
  PROVE  /\ \A d \in 1 .. n : Org(g1, d) = Org(g, d)
         /\ \A d \in 1 .. n : Cand(g1, dir, d) <=> Cand(g, dir, d)
         /\ \A d \in 1 .. n : Cand(g, dir, d) => Blk(g1, d) = Blk(g, d)
         /\ \A d \in 1 .. n : \A to \in 1 .. n : NewerThan(g1, dir, d, to) = NewerThan(g, dir, d, to)
         /\ \A d \in 1 .. n : \A c \in d .. n :
              Promoted(g1, e1, dir, d, c) <=> Promoted(g, e, dir, d, c)
         /\ \A d \in 1 .. n : \A c \in d .. n : \A m \in c .. n :
              Stood(g1, e1, dir, d, c, m) <=> Stood(g, e, dir, d, c, m)
         /\ \A m \in 1 .. n : Standers(g1, e1, dir, m) = Standers(g, e, dir, m)
         /\ \A m \in 1 .. n : \A d \in 1 .. n :
              Above(g1, e1, dir, d, m) = Above(g, e, dir, d, m)
<1>0. (\A i \in 1 .. n : g1[i] = g[i]) /\ (\A i \in 1 .. n : e1[i] = e[i])
  BY DEF Agree
<1>1. ASSUME NEW d \in 1 .. n PROVE Org(g1, d) = Org(g, d)
  <2>1. \A p \in MaxOf(1, d - RecentBars) .. d - 1 : p \in 1 .. n
    BY Constants DEF MaxOf
  <2>2. \A p \in MaxOf(1, d - RecentBars) .. d - 1 : g1[p] = g[p]
    BY <1>0, <2>1
  <2>3. g1[d] = g[d]
    BY <1>0
  <2> QED BY <2>2, <2>3 DEF Org
<1>2. ASSUME NEW d \in 1 .. n PROVE Cand(g1, dir, d) <=> Cand(g, dir, d)
  BY <1>0, <1>1 DEF Cand
<1>3. ASSUME NEW d \in 1 .. n, Cand(g, dir, d) PROVE Blk(g1, d) = Blk(g, d)
  <2>1. Org(g1, d) = Org(g, d) /\ Org(g, d) # {} /\ d \in Nat
    BY <1>1, <1>3 DEF Cand
  <2>2. Max(Org(g, d)) \in 1 .. d - 1
    BY <2>1, OrgIs
  <2>3. Max(Org(g, d)) \in 1 .. n
    BY <2>1, <2>2
  <2>4. g1[Max(Org(g, d))] = g[Max(Org(g, d))]
    BY <1>0, <2>3
  <2> QED BY <2>1, <2>4 DEF Blk
<1>4. ASSUME NEW d \in 1 .. n, NEW to \in 1 .. n
      PROVE  NewerThan(g1, dir, d, to) = NewerThan(g, dir, d, to)
  <2>1. \A x \in d + 1 .. to : x \in 1 .. n
    OBVIOUS
  <2> QED BY <1>2, <2>1 DEF NewerThan
<1>5. ASSUME NEW d \in 1 .. n, NEW c \in d .. n
      PROVE  Promoted(g1, e1, dir, d, c) <=> Promoted(g, e, dir, d, c)
  <2>1. c \in 1 .. n /\ \A i \in d .. c - 1 : i \in 1 .. n
    OBVIOUS
  <2>2. FirstMark(e1, dir, d, c) <=> FirstMark(e, dir, d, c)
    BY <1>0, <2>1 DEF FirstMark, Mark
  <2> QED BY <1>2, <1>4, <2>1, <2>2 DEF Promoted
<1>6. ASSUME NEW d \in 1 .. n, NEW c \in d .. n, NEW m \in c .. n
      PROVE  Stood(g1, e1, dir, d, c, m) <=> Stood(g, e, dir, d, c, m)
  <2>1. ASSUME Promoted(g, e, dir, d, c), NEW i \in c + 1 .. m
        PROVE  Kept(g1, dir, d, i) <=> Kept(g, dir, d, i)
    <3>1. i \in 1 .. n /\ Cand(g, dir, d)
      BY <2>1 DEF Promoted
    <3>2. g1[i] = g[i] /\ Blk(g1, d) = Blk(g, d)
      BY <1>0, <1>3, <3>1
    <3> QED BY <3>2 DEF Kept
  <2> QED BY <1>5, <2>1 DEF Stood
<1>7. ASSUME NEW m \in 1 .. n PROVE Standers(g1, e1, dir, m) = Standers(g, e, dir, m)
  <2>1. ASSUME NEW d \in 1 .. m
        PROVE  (\E c \in d .. m : Stood(g1, e1, dir, d, c, m)) <=>
               (\E c \in d .. m : Stood(g, e, dir, d, c, m))
    <3>1. d \in 1 .. n /\ \A c \in d .. m : c \in d .. n /\ m \in c .. n
      OBVIOUS
    <3> QED BY <1>6, <3>1
  <2> QED BY <2>1 DEF Standers
<1>8. ASSUME NEW m \in 1 .. n, NEW d \in 1 .. n
      PROVE  Above(g1, e1, dir, d, m) = Above(g, e, dir, d, m)
  BY <1>7 DEF Above
<1> QED BY <1>1, <1>2, <1>3, <1>4, <1>5, <1>6, <1>7, <1>8

(* The sets counted against the limits are finite.                          *)
LEMMA SetsFinite ==
  ASSUME NEW g, NEW e, NEW dir, NEW d \in Nat, NEW m \in Nat
  PROVE  /\ IsFiniteSet(NewerThan(g, dir, d, m)) /\ IsFiniteSet(Standers(g, e, dir, m))
         /\ IsFiniteSet(Above(g, e, dir, d, m))
         /\ Cardinality(NewerThan(g, dir, d, m)) \in Nat
         /\ Cardinality(Above(g, e, dir, d, m)) \in Nat
<1>1. IsFiniteSet(d + 1 .. m) /\ IsFiniteSet(1 .. m)
  <2>1. d + 1 \in Int /\ m \in Int /\ 1 \in Int
    OBVIOUS
  <2> QED BY <2>1, FS_Interval
<1>2. NewerThan(g, dir, d, m) \in SUBSET (d + 1 .. m) /\ Standers(g, e, dir, m) \in SUBSET (1 .. m)
      /\ Above(g, e, dir, d, m) \in SUBSET (1 .. m)
  BY DEF NewerThan, Standers, Above
<1>3. /\ IsFiniteSet(NewerThan(g, dir, d, m)) /\ IsFiniteSet(Standers(g, e, dir, m))
      /\ IsFiniteSet(Above(g, e, dir, d, m))
  BY <1>1, <1>2, FS_Subset
<1> QED BY <1>3, FS_CardinalityType

(* Candidates before the events of bar m are applied.                       *)
Awaitable(g, e, dir, d, m) ==
  /\ Cand(g, dir, d) /\ \A i \in d .. m - 1 : ~Mark(e, dir, i)
  /\ m - d <= ConfirmBars
  /\ Cardinality(NewerThan(g, dir, d, m)) < MaxPending

(* A candidate that could be confirmed on a bar is promoted by an event of  *)
(* its direction and waits on without one.                                  *)
LEMMA ReadySplits ==
  ASSUME NEW g, NEW e, NEW dir, NEW m \in Nat, NEW d \in 1 .. m
  PROVE  /\ Waits(g, e, dir, d, m) <=> Awaitable(g, e, dir, d, m) /\ ~Mark(e, dir, m)
         /\ Promoted(g, e, dir, d, m) <=> Awaitable(g, e, dir, d, m) /\ Mark(e, dir, m)
<1>1. d .. m = (d .. m - 1) \cup {m}
  OBVIOUS
<1>2. (\A i \in d .. m : ~Mark(e, dir, i)) <=>
        (\A i \in d .. m - 1 : ~Mark(e, dir, i)) /\ ~Mark(e, dir, m)
  BY <1>1
<1> QED BY <1>2 DEF Waits, Promoted, Awaitable, FirstMark

(* The register when the candidate of bar n + 1 has been added.             *)
Awaiting(n, g, g1, e, dir) ==
  {d \in 1 .. n : Waits(g, e, dir, d, n)}
  \cup (IF Cand(g1, dir, n + 1) THEN {n + 1} ELSE {})

(* The candidates of the register are all that are newer than any of them,  *)
(* so crowding in the register is crowding on the chart.                    *)
LEMMA ReadyIs ==
  ASSUME NEW n \in Nat, NEW g, NEW g1, NEW e, NEW e1, NEW dir,
         Agree(n, g, g1, e, e1),
         NEW D, D = Awaiting(n, g, g1, e, dir)
  PROVE  /\ \A d \in D : /\ d \in 1 .. n + 1
                         /\ {x \in D : x > d} = NewerThan(g1, dir, d, n + 1)
         /\ \A d \in D : ~Cand(g1, dir, n + 1) =>
              Cardinality(NewerThan(g1, dir, d, n + 1)) < MaxPending
         /\ \A d \in 1 .. n + 1 : Awaitable(g1, e1, dir, d, n + 1) <=>
              /\ d \in D /\ n + 1 - d <= ConfirmBars
              /\ Cardinality(NewerThan(g1, dir, d, n + 1)) < MaxPending
<1>d. D = {d \in 1 .. n : Waits(g, e, dir, d, n)}
          \cup (IF Cand(g1, dir, n + 1) THEN {n + 1} ELSE {})
  BY DEF Awaiting
<1> USE <1>d
<1>1. /\ \A d \in 1 .. n : Cand(g1, dir, d) <=> Cand(g, dir, d)
      /\ \A d \in 1 .. n : \A to \in 1 .. n : NewerThan(g1, dir, d, to) = NewerThan(g, dir, d, to)
  BY SamePrefix
<1>0. \A i \in 1 .. n : e1[i] = e[i]
  BY DEF Agree
<1>2. MaxPending \in Nat /\ MaxPending >= 1 /\ ConfirmBars \in Nat
  BY Constants
<1>3. ASSUME NEW d \in D PROVE d \in 1 .. n + 1 /\ Cand(g1, dir, d)
  <2>1. CASE d = n + 1 /\ Cand(g1, dir, n + 1)
    BY <2>1
  <2>2. CASE d \in 1 .. n /\ Waits(g, e, dir, d, n)
    BY <1>1, <2>2 DEF Waits
  <2> QED BY <2>1, <2>2
<1>4. ASSUME NEW d \in 1 .. n, NEW x \in d + 1 .. n, Waits(g, e, dir, d, n), Cand(g, dir, x)
      PROVE  Waits(g, e, dir, x, n)
  <2>1. NewerThan(g, dir, x, n) \in SUBSET NewerThan(g, dir, d, n)
    BY DEF NewerThan
  <2>2. IsFiniteSet(NewerThan(g, dir, d, n)) /\ Cardinality(NewerThan(g, dir, d, n)) \in Nat
    <3>1. d \in Nat
      OBVIOUS
    <3> QED BY <3>1, SetsFinite
  <2>3. Cardinality(NewerThan(g, dir, x, n)) <= Cardinality(NewerThan(g, dir, d, n))
        /\ Cardinality(NewerThan(g, dir, x, n)) \in Nat
    <3>1. x \in Nat
      OBVIOUS
    <3> QED BY <2>1, <2>2, <3>1, FS_Subset, SetsFinite
  <2>4. Cardinality(NewerThan(g, dir, x, n)) < MaxPending
    BY <1>2, <1>4, <2>2, <2>3 DEF Waits
  <2>5. \A i \in x .. n : i \in d .. n
    OBVIOUS
  <2>6. n - x <= ConfirmBars
    BY <1>2, <1>4 DEF Waits
  <2> QED BY <1>4, <2>4, <2>5, <2>6 DEF Waits
<1>5. ASSUME NEW d \in D PROVE {x \in D : x > d} = NewerThan(g1, dir, d, n + 1)
  <2>1. ASSUME NEW x \in D, x > d PROVE x \in NewerThan(g1, dir, d, n + 1)
    BY <1>3, <2>1 DEF NewerThan
  <2>2. ASSUME NEW x \in NewerThan(g1, dir, d, n + 1) PROVE x \in D /\ x > d
    <3>1. x \in d + 1 .. n + 1 /\ Cand(g1, dir, x) /\ d \in 1 .. n + 1
      BY <1>3, <2>2 DEF NewerThan
    <3>2. CASE x = n + 1
      BY <3>1, <3>2
    <3>3. CASE x # n + 1
      <4>1. d \in 1 .. n /\ x \in d + 1 .. n /\ x \in 1 .. n
        BY <3>1, <3>3
      <4>2. Waits(g, e, dir, d, n)
        BY <4>1
      <4>3. Waits(g, e, dir, x, n)
        BY <1>1, <1>4, <3>1, <4>1, <4>2
      <4> QED BY <4>1, <4>3
    <3> QED BY <3>2, <3>3
  <2> QED BY <2>1, <2>2
<1>6. ASSUME NEW d \in 1 .. n
      PROVE  /\ NewerThan(g, dir, d, n) \in SUBSET NewerThan(g1, dir, d, n + 1)
             /\ ~Cand(g1, dir, n + 1) => NewerThan(g1, dir, d, n + 1) = NewerThan(g, dir, d, n)
             /\ Cardinality(NewerThan(g1, dir, d, n + 1)) < MaxPending =>
                  Cardinality(NewerThan(g, dir, d, n)) < MaxPending
  <2>1. n \in 1 .. n /\ NewerThan(g1, dir, d, n) = NewerThan(g, dir, d, n)
    BY <1>1
  <2>2. NewerThan(g1, dir, d, n) \in SUBSET NewerThan(g1, dir, d, n + 1)
    BY DEF NewerThan
  <2>3. ~Cand(g1, dir, n + 1) => NewerThan(g1, dir, d, n + 1) = NewerThan(g1, dir, d, n)
    <3>1. d + 1 .. n + 1 = (d + 1 .. n) \cup {n + 1}
      OBVIOUS
    <3> QED BY <3>1 DEF NewerThan
  <2>4. Cardinality(NewerThan(g, dir, d, n)) <= Cardinality(NewerThan(g1, dir, d, n + 1))
        /\ Cardinality(NewerThan(g, dir, d, n)) \in Nat
        /\ Cardinality(NewerThan(g1, dir, d, n + 1)) \in Nat
    <3>1. d \in Nat /\ n + 1 \in Nat
      OBVIOUS
    <3>2. /\ IsFiniteSet(NewerThan(g1, dir, d, n + 1))
          /\ Cardinality(NewerThan(g1, dir, d, n + 1)) \in Nat
          /\ Cardinality(NewerThan(g, dir, d, n)) \in Nat
      BY <3>1, SetsFinite
    <3> QED BY <2>1, <2>2, <3>2, FS_Subset
  <2> QED BY <1>2, <2>1, <2>2, <2>3, <2>4
<1>7. ASSUME NEW d \in D, ~Cand(g1, dir, n + 1)
      PROVE  Cardinality(NewerThan(g1, dir, d, n + 1)) < MaxPending
  <2>1. d \in 1 .. n /\ Waits(g, e, dir, d, n)
    BY <1>7
  <2> QED BY <1>6, <1>7, <2>1 DEF Waits
<1>8. ASSUME NEW d \in 1 .. n + 1, Awaitable(g1, e1, dir, d, n + 1)
      PROVE  d \in D
  <2>1. CASE d = n + 1
    BY <1>8, <2>1 DEF Awaitable
  <2>2. CASE d # n + 1
    <3>1. d \in 1 .. n
      BY <2>2
    <3>2. \A i \in d .. n : i \in d .. n + 1 - 1 /\ e1[i] = e[i]
      BY <1>0, <3>1
    <3>3. \A i \in d .. n : ~Mark(e, dir, i)
      BY <1>8, <3>2 DEF Awaitable, Mark
    <3>4. n - d <= ConfirmBars
      BY <1>2, <1>8, <3>1 DEF Awaitable
    <3>5. Waits(g, e, dir, d, n)
      BY <1>1, <1>6, <1>8, <3>1, <3>3, <3>4 DEF Waits, Awaitable
    <3> QED BY <3>1, <3>5
  <2> QED BY <2>1, <2>2
<1>9. ASSUME NEW d \in D, n + 1 - d <= ConfirmBars,
             Cardinality(NewerThan(g1, dir, d, n + 1)) < MaxPending
      PROVE  Awaitable(g1, e1, dir, d, n + 1)
  <2>1. \A i \in d .. n + 1 - 1 : ~Mark(e1, dir, i)
    <3>1. CASE d = n + 1
      BY <3>1
    <3>2. CASE d # n + 1
      <4>1. d \in 1 .. n /\ Waits(g, e, dir, d, n)
        BY <3>2
      <4>2. \A i \in d .. n + 1 - 1 : i \in d .. n /\ e1[i] = e[i]
        BY <1>0, <4>1
      <4> QED BY <4>1, <4>2 DEF Waits, Mark
    <3> QED BY <3>1, <3>2
  <2> QED BY <1>3, <1>9, <2>1 DEF Awaitable
<1>10. \A d \in D : d \in 1 .. n + 1 /\ {x \in D : x > d} = NewerThan(g1, dir, d, n + 1)
  BY <1>3, <1>5
<1>11. \A d \in 1 .. n + 1 : Awaitable(g1, e1, dir, d, n + 1) =>
         n + 1 - d <= ConfirmBars /\ Cardinality(NewerThan(g1, dir, d, n + 1)) < MaxPending
  BY DEF Awaitable
<1> QED BY <1>7, <1>8, <1>9, <1>10, <1>11

(* A block stands after bar n + 1 if it did before and the bar kept it, or  *)
(* if the bar's event promoted it.                                          *)
LEMMA StoodStep ==
  ASSUME NEW n \in Nat, NEW g, NEW g1, NEW e, NEW e1, NEW dir, Agree(n, g, g1, e, e1),
         NEW d \in 1 .. n + 1, NEW c \in d .. n + 1
  PROVE  Stood(g1, e1, dir, d, c, n + 1) <=>
           \/ c = n + 1 /\ Promoted(g1, e1, dir, d, n + 1)
           \/ c <= n /\ Stood(g, e, dir, d, c, n) /\ Kept(g1, dir, d, n + 1)
<1>1. CASE c = n + 1
  <2>1. c + 1 .. n + 1 = {} /\ ~(c <= n)
    BY <1>1
  <2> QED BY <1>1, <2>1 DEF Stood
<1>2. CASE c # n + 1
  <2>1. c <= n /\ d \in 1 .. n /\ c \in d .. n /\ n \in c .. n
    BY <1>2
  <2>2. Stood(g1, e1, dir, d, c, n) <=> Stood(g, e, dir, d, c, n)
    BY <2>1, SamePrefix
  <2>3. c + 1 .. n + 1 = (c + 1 .. n) \cup {n + 1}
    BY <2>1
  <2>4. Stood(g1, e1, dir, d, c, n + 1) <=>
          Stood(g1, e1, dir, d, c, n) /\ Kept(g1, dir, d, n + 1)
    BY <2>3 DEF Stood
  <2> QED BY <1>2, <2>1, <2>2, <2>4
<1> QED BY <1>1, <1>2

(* An older candidate is confirmed no later than a newer one.               *)
LEMMA FirstMarks ==
  ASSUME NEW e, NEW dir, NEW d \in Nat, NEW x \in Nat, d <= x, NEW c \in Nat, NEW k \in Nat,
         x <= k, FirstMark(e, dir, d, c), FirstMark(e, dir, x, k)
  PROVE  c <= k
<1>1. SUFFICES ASSUME ~(c <= k) PROVE FALSE
  OBVIOUS
<1>2. k \in d .. c - 1
  BY <1>1
<1> QED BY <1>2 DEF FirstMark

(* A block newer than one that was never crowded out was not either.        *)
LEMMA AliveNewer ==
  ASSUME NEW n \in Nat, NEW g, NEW e, NEW dir, NEW d \in 1 .. n, NEW c \in d .. n,
         Alive(g, e, dir, d, c, n), NEW x \in 1 .. n, x > d, NEW k \in x .. n,
         Stood(g, e, dir, x, k, n)
  PROVE  Alive(g, e, dir, x, k, n)
<1>1. c <= k
  <2>1. FirstMark(e, dir, d, c) /\ FirstMark(e, dir, x, k)
    BY DEF Alive, Stood, Promoted
  <2>2. d \in Nat /\ x \in Nat /\ c \in Nat /\ k \in Nat /\ d <= x /\ x <= k
    OBVIOUS
  <2> QED BY <2>1, <2>2, FirstMarks
<1>2. ASSUME NEW m \in k .. n PROVE Cardinality(Above(g, e, dir, x, m)) < MaxBlocks
  <2>1. m \in c .. n /\ m \in Nat /\ d \in Nat /\ x \in Nat
    BY <1>1
  <2>2. Cardinality(Above(g, e, dir, d, m)) < MaxBlocks
    BY <2>1 DEF Alive
  <2>3. Above(g, e, dir, x, m) \in SUBSET Above(g, e, dir, d, m)
    <3>1. \A y \in Standers(g, e, dir, m) : y \in Nat
      BY <2>1 DEF Standers
    <3> QED BY <2>1, <3>1 DEF Above
  <2>4. /\ IsFiniteSet(Above(g, e, dir, d, m)) /\ Cardinality(Above(g, e, dir, d, m)) \in Nat
        /\ Cardinality(Above(g, e, dir, x, m)) \in Nat
    BY <2>1, SetsFinite
  <2>5. Cardinality(Above(g, e, dir, x, m)) <= Cardinality(Above(g, e, dir, d, m))
    BY <2>3, <2>4, FS_Subset
  <2> QED BY <2>2, <2>4, <2>5, Constants
<1> QED BY <1>2 DEF Alive

(* The blocks after bar n + 1, before the oldest are crowded out.           *)
Runs(g, g1, e, e1, dir, d, c, n) ==
  \/ c = n + 1 /\ Promoted(g1, e1, dir, d, n + 1)
  \/ c <= n /\ Alive(g, e, dir, d, c, n) /\ Kept(g1, dir, d, n + 1)
Runners(g, g1, e, e1, dir, n) ==
  {d \in 1 .. n + 1 : \E c \in d .. n + 1 : Runs(g, g1, e, e1, dir, d, c, n)}

(* A block outlives a bar exactly when it runs on and fewer than MaxBlocks  *)
(* newer ones do; without a promotion nothing is crowded out.               *)
LEMMA AliveStep ==
  ASSUME NEW n \in Nat, NEW g, NEW g1, NEW e, NEW e1, NEW dir, Agree(n, g, g1, e, e1),
         NEW D, D = Runners(g, g1, e, e1, dir, n),
         NEW d \in 1 .. n + 1, NEW c \in d .. n + 1
  PROVE  /\ Alive(g1, e1, dir, d, c, n + 1) <=>
              /\ Runs(g, g1, e, e1, dir, d, c, n)
              /\ Cardinality({x \in D : x > d}) < MaxBlocks
         /\ Runs(g, g1, e, e1, dir, d, c, n) /\ ~Mark(e1, dir, n + 1) =>
              Cardinality({x \in D : x > d}) < MaxBlocks
<1>1. \A y \in 1 .. n + 1 : \A k \in y .. n + 1 :
        Stood(g1, e1, dir, y, k, n + 1) <=>
           \/ k = n + 1 /\ Promoted(g1, e1, dir, y, n + 1)
           \/ k <= n /\ Stood(g, e, dir, y, k, n) /\ Kept(g1, dir, y, n + 1)
  BY StoodStep
<1>2. \A y \in 1 .. n + 1 : \A k \in y .. n + 1 :
        Runs(g, g1, e, e1, dir, y, k, n) => Stood(g1, e1, dir, y, k, n + 1)
  BY <1>1 DEF Runs, Alive
<1>3. ASSUME Runs(g, g1, e, e1, dir, d, c, n)
      PROVE  {x \in D : x > d} = Above(g1, e1, dir, d, n + 1)
  <2>1. {x \in D : x > d} \subseteq Above(g1, e1, dir, d, n + 1)
    BY <1>2 DEF Runners, Above, Standers
  <2>2. ASSUME NEW x \in Above(g1, e1, dir, d, n + 1) PROVE x \in D /\ x > d
    <3>1. x \in 1 .. n + 1 /\ x > d
      BY <2>2 DEF Above, Standers
    <3>2. PICK k \in x .. n + 1 : Stood(g1, e1, dir, x, k, n + 1)
      BY <2>2 DEF Above, Standers
    <3>3. CASE k = n + 1
      <4>1. Promoted(g1, e1, dir, x, n + 1)
        BY <1>1, <3>1, <3>2, <3>3
      <4>2. Runs(g, g1, e, e1, dir, x, k, n)
        BY <3>3, <4>1 DEF Runs
      <4> QED BY <3>1, <3>2, <4>2 DEF Runners
    <3>4. CASE k # n + 1
      <4>1. k <= n /\ Stood(g, e, dir, x, k, n) /\ Kept(g1, dir, x, n + 1)
        BY <1>1, <3>1, <3>2, <3>4
      <4>2. k \in x .. n /\ x \in 1 .. n /\ d \in 1 .. n /\ k \in d .. n /\ k \in 1 .. n
        BY <3>1, <3>2, <4>1
      <4>3. CASE c = n + 1
        <5>1. \A i \in d .. n : ~Mark(e1, dir, i)
          <6>1. Promoted(g1, e1, dir, d, n + 1)
            BY <1>3, <4>3 DEF Runs
          <6>2. n + 1 - 1 = n
            OBVIOUS
          <6> QED BY <6>1, <6>2 DEF Promoted, FirstMark
        <5>2. Mark(e, dir, k)
          BY <4>1 DEF Stood, Promoted, FirstMark
        <5>3. Mark(e1, dir, k)
          BY <4>2, <5>2 DEF Agree, Mark
        <5> QED BY <4>2, <5>1, <5>3
      <4>4. CASE c # n + 1
        <5>1. c \in d .. n /\ Alive(g, e, dir, d, c, n)
          BY <1>3, <4>4 DEF Runs
        <5>2. Alive(g, e, dir, x, k, n)
          BY <3>1, <4>1, <4>2, <5>1, AliveNewer
        <5>3. Runs(g, g1, e, e1, dir, x, k, n)
          BY <4>1, <5>2 DEF Runs
        <5> QED BY <3>1, <3>2, <5>3 DEF Runners
      <4> QED BY <4>3, <4>4
    <3> QED BY <3>3, <3>4
  <2>3. {x \in D : x > d} \in SUBSET Above(g1, e1, dir, d, n + 1)
        /\ Above(g1, e1, dir, d, n + 1) \in SUBSET {x \in D : x > d}
    BY <2>1, <2>2
  <2> QED BY <2>3
<1>4. Alive(g1, e1, dir, d, c, n + 1) <=>
        /\ Runs(g, g1, e, e1, dir, d, c, n)
        /\ Cardinality(Above(g1, e1, dir, d, n + 1)) < MaxBlocks
  <2>1. CASE c = n + 1
    <3>1. c .. n + 1 = {n + 1} /\ ~(c <= n)
      BY <2>1
    <3> QED BY <1>1, <2>1, <3>1 DEF Alive, Runs
  <2>2. CASE c # n + 1
    <3>1. c <= n /\ c \in d .. n /\ d \in 1 .. n
      BY <2>2
    <3>2. c .. n + 1 = (c .. n) \cup {n + 1}
      BY <3>1
    <3>3. \A m \in c .. n : Above(g1, e1, dir, d, m) = Above(g, e, dir, d, m)
      <4>1. \A m \in c .. n : m \in 1 .. n
        BY <3>1
      <4>2. \A m \in 1 .. n : \A y \in 1 .. n :
              Above(g1, e1, dir, y, m) = Above(g, e, dir, y, m)
        BY SamePrefix
      <4> QED BY <3>1, <4>1, <4>2
    <3>4. (\A m \in c .. n + 1 : Cardinality(Above(g1, e1, dir, d, m)) < MaxBlocks) <=>
            /\ \A m \in c .. n : Cardinality(Above(g, e, dir, d, m)) < MaxBlocks
            /\ Cardinality(Above(g1, e1, dir, d, n + 1)) < MaxBlocks
      BY <3>2, <3>3
    <3>5. Stood(g1, e1, dir, d, c, n + 1) <=>
            Stood(g, e, dir, d, c, n) /\ Kept(g1, dir, d, n + 1)
      BY <1>1, <2>2, <3>1
    <3> QED BY <2>2, <3>1, <3>4, <3>5 DEF Alive, Runs
  <2> QED BY <2>1, <2>2
<1>5. ASSUME Runs(g, g1, e, e1, dir, d, c, n), ~Mark(e1, dir, n + 1)
      PROVE  Cardinality(Above(g1, e1, dir, d, n + 1)) < MaxBlocks
  <2>1. \A y \in 1 .. n + 1 : ~Promoted(g1, e1, dir, y, n + 1)
    BY <1>5 DEF Promoted, FirstMark
  <2>2. c <= n /\ Alive(g, e, dir, d, c, n) /\ c \in d .. n /\ d \in 1 .. n /\ n \in c .. n
    BY <1>5, <2>1 DEF Runs
  <2>3. Above(g1, e1, dir, d, n + 1) \in SUBSET Above(g, e, dir, d, n)
    <3>1. ASSUME NEW x \in Above(g1, e1, dir, d, n + 1) PROVE x \in Above(g, e, dir, d, n)
      <4>1. x \in 1 .. n + 1 /\ x > d
        BY <3>1 DEF Above, Standers
      <4>2. PICK k \in x .. n + 1 : Stood(g1, e1, dir, x, k, n + 1)
        BY <3>1 DEF Above, Standers
      <4>3. k <= n /\ Stood(g, e, dir, x, k, n)
        BY <1>1, <2>1, <4>1, <4>2
      <4>4. x \in 1 .. n /\ k \in x .. n
        BY <4>1, <4>2, <4>3
      <4> QED BY <4>1, <4>3, <4>4 DEF Above, Standers
    <3> QED BY <3>1
  <2>4. /\ Cardinality(Above(g, e, dir, d, n)) < MaxBlocks
    BY <2>2 DEF Alive
  <2>5. /\ IsFiniteSet(Above(g, e, dir, d, n)) /\ Cardinality(Above(g, e, dir, d, n)) \in Nat
        /\ Cardinality(Above(g1, e1, dir, d, n + 1)) \in Nat
    <3>1. d \in Nat /\ n + 1 \in Nat
      OBVIOUS
    <3> QED BY <3>1, SetsFinite
  <2>6. Cardinality(Above(g1, e1, dir, d, n + 1)) <= Cardinality(Above(g, e, dir, d, n))
    BY <2>3, <2>5, FS_Subset
  <2> QED BY <2>4, <2>5, <2>6, Constants
<1> QED BY <1>3, <1>4, <1>5

-----------------------------------------------------------------------------
(* The order-block tracker.                                                 *)
RecentIs(r, g) ==
  /\ r \in Seq(Bar) /\ Len(r) = MinOf(Len(g), RecentBars)
  /\ \A i \in 1 .. Len(r) : r[i] = g[Len(g) - Len(r) + i]

(* The bounded deque of recent bars holds the last RecentBars of the        *)
(* history.                                                                 *)
LEMMA RecentStep ==
  ASSUME NEW g \in Seq(Bar), NEW b \in Bar, NEW r, RecentIs(r, g)
  PROVE  RecentIs(Bounded(Append(r, b), RecentBars), Append(g, b))
<1> DEFINE n == Len(g)
           k == Len(r)
           g1 == Append(g, b)
           a == Append(r, b)
           r1 == Bounded(a, RecentBars)
<1>1. /\ n \in Nat /\ Len(g1) = n + 1 /\ g1[n + 1] = b /\ \A i \in 1 .. n : g1[i] = g[i]
  OBVIOUS
<1>2. RecentBars \in Nat /\ RecentBars >= 1
  BY Constants
<1>3. /\ r \in Seq(Bar) /\ k \in Nat /\ k <= n /\ k <= RecentBars
      /\ (k = n \/ k = RecentBars) /\ \A i \in 1 .. k : r[i] = g[n - k + i]
  <2>1. r \in Seq(Bar) /\ k = MinOf(n, RecentBars) /\ \A i \in 1 .. k : r[i] = g[n - k + i]
    BY DEF RecentIs
  <2>2. k \in Nat
    BY <2>1
  <2> HIDE DEF k, n
  <2>3. k <= n /\ k <= RecentBars /\ (k = n \/ k = RecentBars)
    BY <1>1, <1>2, <2>1, <2>2 DEF MinOf
  <2> QED BY <2>1, <2>2, <2>3
<1>4. /\ a \in Seq(Bar) /\ Len(a) = k + 1 /\ a[k + 1] = b /\ \A i \in 1 .. k : a[i] = r[i]
  BY <1>3
<1> HIDE DEF n, k, g1, a
<1>5. \A i \in 1 .. k + 1 : a[i] = g1[n - k + i]
  <2>1. ASSUME NEW i \in 1 .. k + 1 PROVE a[i] = g1[n - k + i]
    <3>1. CASE i = k + 1
      <4>1. n - k + i = n + 1
        BY <1>1, <1>3, <3>1
      <4> QED BY <1>1, <1>4, <3>1, <4>1
    <3>2. CASE i # k + 1
      <4>1. i \in 1 .. k /\ n - k + i \in 1 .. n
        BY <1>1, <1>3, <3>2
      <4> QED BY <1>1, <1>3, <1>4, <4>1
    <3> QED BY <3>1, <3>2
  <2> QED BY <2>1
<1>6. ASSUME k < RecentBars PROVE RecentIs(r1, g1)
  <2>1. r1 = a /\ Len(r1) = k + 1 /\ r1 \in Seq(Bar)
    BY <1>2, <1>3, <1>4, <1>6 DEF Bounded
  <2>2. Len(r1) = MinOf(Len(g1), RecentBars)
    BY <1>1, <1>2, <1>3, <1>6, <2>1 DEF MinOf
  <2>3. Len(g1) - Len(r1) = n - k
    BY <1>1, <1>3, <2>1
  <2>4. \A i \in 1 .. Len(r1) : r1[i] = g1[Len(g1) - Len(r1) + i]
    BY <1>5, <2>1, <2>3
  <2> QED BY <2>1, <2>2, <2>4 DEF RecentIs
<1>7. ASSUME k = RecentBars PROVE RecentIs(r1, g1)
  <2>1. r1 = SubSeq(a, 2, k + 1)
    BY <1>2, <1>3, <1>4, <1>7 DEF Bounded
  <2> HIDE DEF r1
  <2>2. r1 \in Seq(Bar) /\ Len(r1) = k /\ \A i \in 1 .. k : r1[i] = a[i + 1]
    BY <1>2, <1>3, <1>4, <1>7, <2>1
  <2>3. Len(r1) = MinOf(Len(g1), RecentBars)
    BY <1>1, <1>2, <1>3, <1>7, <2>2 DEF MinOf
  <2>4. ASSUME NEW i \in 1 .. Len(r1) PROVE r1[i] = g1[Len(g1) - Len(r1) + i]
    <3>1. i \in 1 .. k /\ i + 1 \in 1 .. k + 1 /\ Len(g1) - Len(r1) + i = n - k + (i + 1)
      BY <1>1, <1>3, <2>2
    <3>2. r1[i] = a[i + 1] /\ a[i + 1] = g1[n - k + (i + 1)]
      BY <1>5, <2>2, <3>1
    <3> QED BY <3>1, <3>2
  <2> QED BY <2>2, <2>3, <2>4 DEF RecentIs
<1>8. RecentIs(r1, g1)
  BY <1>2, <1>3, <1>6, <1>7
<1> QED BY <1>8 DEF g1, a

(* The tracker finds the block's bar in its window.                         *)
Grows(g, b, n, g1) == g \in Seq(Bar) /\ b \in Bar /\ n = Len(g) /\ g1 = Append(g, b)

Prevs(r, b) == {i \in DOMAIN r : BarDir(r[i]) = Opposite[BarDir(b)]}

(* The newest opposite bar of the deque is the chart's origin.              *)
LEMMA OriginIs ==
  ASSUME NEW g, NEW b, NEW n, NEW g1, Grows(g, b, n, g1), NEW r, RecentIs(r, g),
         NEW prevs, prevs = Prevs(r, b)
  PROVE  /\ prevs = {} <=> Org(g1, n + 1) = {}
         /\ prevs # {} => r[Max(prevs)] = g1[Max(Org(g1, n + 1))]
<1> DEFINE k == Len(r)
           org == Org(g1, n + 1)
<1>0. prevs = {i \in DOMAIN r : BarDir(r[i]) = Opposite[BarDir(b)]}
  BY DEF Prevs
<1>a. g \in Seq(Bar) /\ b \in Bar /\ n = Len(g) /\ g1 = Append(g, b)
  BY DEF Grows
<1>1. n \in Nat /\ Len(g1) = n + 1 /\ g1[n + 1] = b /\ \A i \in 1 .. n : g1[i] = g[i]
  BY <1>a
<1>2. RecentBars \in Nat /\ RecentBars >= 1
  BY Constants
<1>3. /\ k \in Nat /\ k <= n /\ DOMAIN r = 1 .. k /\ MaxOf(1, n + 1 - RecentBars) = n - k + 1
      /\ \A i \in 1 .. k : r[i] = g[n - k + i]
  <2>1. r \in Seq(Bar) /\ k = MinOf(n, RecentBars) /\ \A i \in 1 .. k : r[i] = g[n - k + i]
    BY <1>a DEF RecentIs
  <2>2. k \in Nat /\ DOMAIN r = 1 .. k
    BY <2>1
  <2> HIDE DEF k
  <2>3. k <= n /\ k <= RecentBars /\ (k = n \/ k = RecentBars)
    BY <1>1, <1>2, <2>1, <2>2 DEF MinOf
  <2>4. MaxOf(1, n + 1 - RecentBars) = n - k + 1
    BY <1>1, <1>2, <2>1, <2>2 DEF MinOf, MaxOf
  <2> QED BY <2>1, <2>2, <2>3, <2>4
<1> HIDE DEF k
<1>4. org = {p \in n - k + 1 .. n : BarDir(g1[p]) = Opposite[BarDir(b)]}
  <2>1. (n + 1) - 1 = n
    BY <1>1
  <2>2. org = {p \in MaxOf(1, (n + 1) - RecentBars) .. (n + 1) - 1 :
                BarDir(g1[p]) = Opposite[BarDir(g1[n + 1])]}
    BY Zenon DEF Org
  <2> HIDE DEF org
  <2>3. MaxOf(1, (n + 1) - RecentBars) = n - k + 1 /\ g1[n + 1] = b
    <3>1. (n + 1) - RecentBars = n + 1 - RecentBars
      BY <1>1, <1>2
    <3> QED BY <1>1, <1>3, <3>1
  <2> QED BY <2>1, <2>2, <2>3, Zenon
<1> HIDE DEF org
<1>5. ASSUME NEW i \in 1 .. k
      PROVE  /\ n - k + i \in n - k + 1 .. n /\ g1[n - k + i] = r[i]
             /\ i \in prevs <=> n - k + i \in org
  <2>1. n - k + i \in n - k + 1 .. n /\ n - k + i \in 1 .. n
    BY <1>1, <1>3
  <2>2. g1[n - k + i] = r[i]
    BY <1>1, <1>3, <2>1
  <2> QED BY <1>0, <1>3, <1>4, <2>1, <2>2
<1>6. ASSUME NEW p \in org PROVE p \in Int /\ p - (n - k) \in prevs /\ n - k + (p - (n - k)) = p
  <2>1. p \in Int /\ p - (n - k) \in 1 .. k /\ n - k + (p - (n - k)) = p
    BY <1>1, <1>3, <1>4
  <2> QED BY <1>5, <2>1
<1>7. prevs \in SUBSET (1 .. k)
  BY <1>0, <1>3
<1>8. prevs = {} <=> org = {}
  BY <1>5, <1>6, <1>7
<1>9. ASSUME prevs # {} PROVE r[Max(prevs)] = g1[Max(org)]
  <2>1. Max(prevs) \in prevs /\ \A i \in prevs : i <= Max(prevs)
    <3>1. prevs \in SUBSET Nat /\ \A i \in prevs : i <= k
      BY <1>3, <1>7
    <3> QED BY <1>3, <1>9, <3>1, MaxOfSet
  <2>2. Max(prevs) \in 1 .. k
    BY <1>7, <2>1
  <2>3. n - k + Max(prevs) \in org /\ g1[n - k + Max(prevs)] = r[Max(prevs)]
    BY <1>5, <2>1, <2>2
  <2>4. \A p \in org : p <= n - k + Max(prevs)
    <3>1. ASSUME NEW p \in org PROVE p <= n - k + Max(prevs)
      <4>1. p \in Int /\ p - (n - k) <= Max(prevs) /\ Max(prevs) \in Int
        BY <1>6, <2>1, <2>2
      <4> QED BY <1>1, <1>3, <4>1
    <3> QED BY <3>1
  <2>5. org \in SUBSET Int
    BY <1>6
  <2>6. Max(org) = n - k + Max(prevs)
    BY <2>3, <2>4, <2>5, MaxIs
  <2> QED BY <2>3, <2>6
<1> QED BY <1>8, <1>9 DEF org

(* The entries of a register are those born on the bars of D.               *)
BornIn(reg, D) == (\A r \in reg : r.born \in D) /\ (\A d \in D : \E r \in reg : r.born = d)

(* A bounded list keeps the entries with fewer than k newer ones.           *)
LEMMA NewestIs ==
  ASSUME NEW reg, NEW D, NEW k, BornIn(reg, D)
  PROVE  Newest(reg, k) = {r \in reg : Cardinality({x \in D : x > r.born}) < k}
<1>1. {ob.born : ob \in reg} = D
  <2>1. \A y : y \in {ob.born : ob \in reg} <=> y \in D
    BY DEF BornIn
  <2> QED BY <2>1
<1> QED BY <1>1 DEF Newest

(* The blocks awaiting an event, and the active ones.                       *)
PendingIs(reg, dir, g, e, n) ==
  reg = {Awaited(g, d) : d \in {x \in 1 .. n : Waits(g, e, dir, x, n)}}
ActiveIs(reg, dir, g, e, n) ==
  \A r : r \in reg <=> \E d \in 1 .. n : \E c \in d .. n :
           Alive(g, e, dir, d, c, n) /\ r = Held(g, d, c, n)

(* A waiting candidate keeps its prices.                                    *)
LEMMA AwaitedSame ==
  ASSUME NEW n \in Nat, NEW g, NEW g1, NEW e, NEW e1, NEW dir, Agree(n, g, g1, e, e1),
         NEW d \in 1 .. n, Waits(g, e, dir, d, n)
  PROVE  Awaited(g1, d) = Awaited(g, d)
<1>1. Cand(g, dir, d)
  BY DEF Waits
<1>2. Blk(g1, d) = Blk(g, d)
  BY <1>1, SamePrefix
<1> QED BY <1>2, Zenon DEF Awaited

(* The register of a direction when bar N has been looked at.               *)
Offered(reg, dir, g, N) ==
  IF Cand(g, dir, N) THEN Newest(reg \cup {Awaited(g, N)}, MaxPending) ELSE reg

(* The pending list, with the new candidate in and the expired out, is the  *)
(* candidates an event of this bar would confirm.                           *)
LEMMA PendingStep ==
  ASSUME NEW n \in Nat, NEW g, NEW g1, NEW e, NEW e1, NEW dir, Agree(n, g, g1, e, e1),
         NEW reg, PendingIs(reg, dir, g, e, n),
         NEW reg1, reg1 = Offered(reg, dir, g1, n + 1)
  PROVE  InTime(reg1, n + 1) =
           {Awaited(g1, d) : d \in {x \in 1 .. n + 1 : Awaitable(g1, e1, dir, x, n + 1)}}
<1> DEFINE W == {x \in 1 .. n : Waits(g, e, dir, x, n)}
           D == W \cup (IF Cand(g1, dir, n + 1) THEN {n + 1} ELSE {})
           reg2 == {Awaited(g1, d) : d \in D}
<1>0. reg1 = IF Cand(g1, dir, n + 1)
             THEN Newest(reg \cup {Awaited(g1, n + 1)}, MaxPending) ELSE reg
  BY DEF Offered
<1>1. /\ \A d \in D : d \in 1 .. n + 1 /\ {x \in D : x > d} = NewerThan(g1, dir, d, n + 1)
      /\ \A d \in D : ~Cand(g1, dir, n + 1) =>
              Cardinality(NewerThan(g1, dir, d, n + 1)) < MaxPending
      /\ \A d \in 1 .. n + 1 : Awaitable(g1, e1, dir, d, n + 1) <=>
              /\ d \in D /\ n + 1 - d <= ConfirmBars
              /\ Cardinality(NewerThan(g1, dir, d, n + 1)) < MaxPending
  <2> HIDE DEF D
  <2>1. D = Awaiting(n, g, g1, e, dir)
    BY DEF D, Awaiting
  <2> QED BY <2>1, ReadyIs
<1>2. \A d \in W : Awaited(g1, d) = Awaited(g, d)
  BY AwaitedSame
<1>3. reg = {Awaited(g1, d) : d \in W}
  <2>1. reg = {Awaited(g, d) : d \in W}
    BY DEF PendingIs
  <2> HIDE DEF W
  <2> QED BY <1>2, <2>1
<1>4. \A d : Awaited(g1, d).born = d
  BY DEF Awaited
<1> HIDE DEF W
<1>5. reg1 = {r \in reg2 : Cardinality(NewerThan(g1, dir, r.born, n + 1)) < MaxPending}
  <2>1. CASE Cand(g1, dir, n + 1)
    <3>1. reg \cup {Awaited(g1, n + 1)} = reg2
      <4>1. D = W \cup {n + 1}
        BY <2>1
      <4> HIDE DEF D
      <4> QED BY <1>3, <4>1
    <3> HIDE DEF D
    <3>2. (\A r \in reg2 : r.born \in D) /\ (\A d \in D : \E r \in reg2 : r.born = d)
      BY <1>4
    <3>3. Newest(reg2, MaxPending) = {r \in reg2 : Cardinality({x \in D : x > r.born}) < MaxPending}
      <4> HIDE DEF reg2
      <4>1. BornIn(reg2, D)
        BY <3>2 DEF BornIn
      <4> QED BY <4>1, NewestIs
    <3>4. \A r \in reg2 : {x \in D : x > r.born} = NewerThan(g1, dir, r.born, n + 1)
      BY <1>1, <3>2
    <3> HIDE DEF reg2
    <3> QED BY <1>0, <2>1, <3>1, <3>3, <3>4
  <2>2. CASE ~Cand(g1, dir, n + 1)
    <3>1. reg1 = reg /\ D = W
      BY <1>0, <2>2
    <3> HIDE DEF D
    <3>2. reg2 = reg
      BY <1>3, <3>1
    <3>3. \A r \in reg2 : r.born \in D
      BY <1>4
    <3> HIDE DEF reg2
    <3> QED BY <1>1, <2>2, <3>1, <3>2, <3>3
  <2> QED BY <2>1, <2>2
<1> HIDE DEF D
<1>6. ASSUME NEW r
      PROVE  r \in InTime(reg1, n + 1) <=>
             \E d \in 1 .. n + 1 : Awaitable(g1, e1, dir, d, n + 1) /\ r = Awaited(g1, d)
  <2>1. ASSUME r \in InTime(reg1, n + 1)
        PROVE  \E d \in 1 .. n + 1 : Awaitable(g1, e1, dir, d, n + 1) /\ r = Awaited(g1, d)
    <3>1. r \in reg1 /\ (n + 1) - r.born <= ConfirmBars
      BY <2>1, Zenon DEF InTime
    <3>2. r \in reg2 /\ Cardinality(NewerThan(g1, dir, r.born, n + 1)) < MaxPending
      BY <1>5, <3>1
    <3>3. PICK d \in D : r = Awaited(g1, d)
      BY <3>2
    <3>4. r.born = d
      BY <1>4, <3>3
    <3> QED BY <1>1, <3>1, <3>2, <3>3, <3>4
  <2>2. ASSUME NEW d \in 1 .. n + 1, Awaitable(g1, e1, dir, d, n + 1), r = Awaited(g1, d)
        PROVE  r \in InTime(reg1, n + 1)
    <3>1. d \in D /\ n + 1 - d <= ConfirmBars
          /\ Cardinality(NewerThan(g1, dir, d, n + 1)) < MaxPending
      BY <1>1, <2>2
    <3>2. r \in reg2 /\ r.born = d
      BY <1>4, <2>2, <3>1
    <3>3. r \in reg1
      BY <1>5, <3>1, <3>2
    <3> QED BY <3>1, <3>2, <3>3 DEF InTime
  <2> QED BY <2>1, <2>2
<1> QED BY <1>6

(* What one more bar makes of a block that is held.                         *)
LEMMA HeldStep ==
  ASSUME NEW n \in Nat, NEW g, NEW g1, NEW e, NEW e1, NEW dir, Agree(n, g, g1, e, e1),
         NEW d \in 1 .. n, NEW c \in d .. n, Cand(g, dir, d)
  PROVE  /\ Held(g1, d, c, n + 1) =
              [Held(g, d, c, n) EXCEPT !.mitigated = @ \/ Touched(Held(g, d, c, n), g1[n + 1])]
         /\ Held(g1, d, c, n + 1).born = d /\ Held(g, d, c, n).born = d
         /\ Kept(g1, dir, d, n + 1) <=>
              /\ (n + 1) - Held(g, d, c, n).born < ExpiryBars
              /\ ~Invalidated(Held(g, d, c, n), dir, g1[n + 1])
<1> DEFINE o == Held(g, d, c, n)
           b == g1[n + 1]
           k == Blk(g, d)
           T0 == \E i \in c + 1 .. n : Touched(k, g[i])
           T1 == \E i \in c + 1 .. n + 1 : Touched(k, g1[i])
<1>1. Blk(g1, d) = k
  BY SamePrefix
<1>2. Touched(o, b) = Touched(k, b) /\ Invalidated(o, dir, b) = Invalidated(k, dir, b)
      /\ o.born = d
  BY DEF Held, Touched, Invalidated
<1>3. T1 = (T0 \/ Touched(k, b))
  <2>1. c + 1 .. n + 1 = (c + 1 .. n) \cup {n + 1}
    OBVIOUS
  <2>2. \A i \in c + 1 .. n : i \in 1 .. n /\ g1[i] = g[i]
    BY DEF Agree
  <2> HIDE DEF k
  <2> QED BY <2>1, <2>2
<1>4. o = [top |-> k.top, bottom |-> k.bottom, born |-> d, mitigated |-> T0]
  BY DEF Held
<1>5. Held(g1, d, c, n + 1) = [top |-> k.top, bottom |-> k.bottom, born |-> d, mitigated |-> T1]
  BY <1>1 DEF Held
<1> HIDE DEF o, k, T0, T1, b
<1>6. [o EXCEPT !.mitigated = @ \/ Touched(o, b)] =
        [top |-> k.top, bottom |-> k.bottom, born |-> d, mitigated |-> (T0 \/ Touched(o, b))]
  BY <1>4
<1>7. Held(g1, d, c, n + 1) = [o EXCEPT !.mitigated = @ \/ Touched(o, b)]
  BY <1>2, <1>3, <1>5, <1>6
<1>8. Kept(g1, dir, d, n + 1) <=> (n + 1) - o.born < ExpiryBars /\ ~Invalidated(o, dir, b)
  BY <1>1, <1>2 DEF Kept, b
<1>9. Held(g1, d, c, n + 1).born = d
  BY <1>5
<1> QED BY <1>2, <1>7, <1>8, <1>9 DEF o, b

(* An entry of the active list that bar n + 1 leaves there.                 *)
Remains(g, g1, e, dir, n, r) ==
  \E d \in 1 .. n : \E c \in d .. n :
    Alive(g, e, dir, d, c, n) /\ Kept(g1, dir, d, n + 1) /\ r = Held(g1, d, c, n + 1)

(* What is left of the active list after a bar: not closed through, not     *)
(* expired, marked when touched.                                            *)
LEMMA SurvivingIs ==
  ASSUME NEW n \in Nat, NEW g, NEW g1, NEW e, NEW e1, NEW dir, Agree(n, g, g1, e, e1),
         NEW reg, ActiveIs(reg, dir, g, e, n)
  PROVE  \A r : r \in Surviving(reg, dir, g1[n + 1], n + 1) <=> Remains(g, g1, e, dir, n, r)
<1> TAKE r
<1> DEFINE b == g1[n + 1]
<1>1. ASSUME NEW d \in 1 .. n, NEW c \in d .. n, Alive(g, e, dir, d, c, n)
      PROVE  /\ Held(g1, d, c, n + 1) =
                  [Held(g, d, c, n) EXCEPT !.mitigated = @ \/ Touched(Held(g, d, c, n), b)]
             /\ Kept(g1, dir, d, n + 1) <=>
                  /\ (n + 1) - Held(g, d, c, n).born < ExpiryBars
                  /\ ~Invalidated(Held(g, d, c, n), dir, b)
  <2>1. Cand(g, dir, d)
    BY <1>1 DEF Alive, Stood, Promoted
  <2> QED BY <2>1, HeldStep
<1> HIDE DEF b
<1>2. r \in Surviving(reg, dir, b, n + 1) <=>
        \E ob \in reg : /\ (n + 1) - ob.born < ExpiryBars /\ ~Invalidated(ob, dir, b)
                        /\ r = [ob EXCEPT !.mitigated = @ \/ Touched(ob, b)]
  BY Zenon DEF Surviving
<1>3. ASSUME r \in Surviving(reg, dir, b, n + 1)
      PROVE  \E d \in 1 .. n : \E c \in d .. n :
             Alive(g, e, dir, d, c, n) /\ Kept(g1, dir, d, n + 1) /\ r = Held(g1, d, c, n + 1)
  <2>1. PICK ob \in reg : /\ (n + 1) - ob.born < ExpiryBars /\ ~Invalidated(ob, dir, b)
                          /\ r = [ob EXCEPT !.mitigated = @ \/ Touched(ob, b)]
    BY <1>2, <1>3
  <2>2. PICK d \in 1 .. n : \E c \in d .. n : Alive(g, e, dir, d, c, n) /\ ob = Held(g, d, c, n)
    BY <2>1 DEF ActiveIs
  <2>3. PICK c \in d .. n : Alive(g, e, dir, d, c, n) /\ ob = Held(g, d, c, n)
    BY <2>2
  <2>4. Kept(g1, dir, d, n + 1) /\ r = Held(g1, d, c, n + 1)
    BY <1>1, <2>1, <2>3, Zenon
  <2> QED BY <2>3, <2>4
<1>4. ASSUME NEW d \in 1 .. n, NEW c \in d .. n, Alive(g, e, dir, d, c, n),
             Kept(g1, dir, d, n + 1), r = Held(g1, d, c, n + 1)
      PROVE  r \in Surviving(reg, dir, b, n + 1)
  <2>1. Held(g, d, c, n) \in reg
    BY <1>4 DEF ActiveIs
  <2>2. /\ (n + 1) - Held(g, d, c, n).born < ExpiryBars
        /\ ~Invalidated(Held(g, d, c, n), dir, b)
        /\ r = [Held(g, d, c, n) EXCEPT !.mitigated = @ \/ Touched(Held(g, d, c, n), b)]
    BY <1>1, <1>4, Zenon
  <2> QED BY <1>2, <2>1, <2>2, Zenon
<1>5. r \in Surviving(reg, dir, b, n + 1) <=> Remains(g, g1, e, dir, n, r)
  BY <1>3, <1>4 DEF Remains
<1> QED BY <1>5 DEF b

(* The active list after a bar, promotions and eviction included, is the    *)
(* blocks alive.                                                            *)
LEMMA ActiveStep ==
  ASSUME NEW n \in Nat, NEW g, NEW g1, NEW e, NEW e1, NEW dir, Agree(n, g, g1, e, e1),
         NEW reg, ActiveIs(reg, dir, g, e, n),
         NEW kept, kept = Surviving(reg, dir, g1[n + 1], n + 1),
         NEW ready,
         ready = {Awaited(g1, d) : d \in {x \in 1 .. n + 1 : Awaitable(g1, e1, dir, x, n + 1)}}
  PROVE  ActiveIs(IF Mark(e1, dir, n + 1) THEN Newest(kept \cup ready, MaxBlocks) ELSE kept,
                  dir, g1, e1, n + 1)
<1> DEFINE R(d, c) == Runs(g, g1, e, e1, dir, d, c, n)
           D == Runners(g, g1, e, e1, dir, n)
           reg1 == IF Mark(e1, dir, n + 1) THEN kept \cup ready ELSE kept
           N == n + 1
<1>1. \A d \in 1 .. N : \A c \in d .. N :
        /\ Alive(g1, e1, dir, d, c, N) <=>
              R(d, c) /\ Cardinality({x \in D : x > d}) < MaxBlocks
        /\ R(d, c) /\ ~Mark(e1, dir, N) => Cardinality({x \in D : x > d}) < MaxBlocks
  BY AliveStep
<1>2. \A r : r \in kept <=> \E d \in 1 .. n : \E c \in d .. n :
             Alive(g, e, dir, d, c, n) /\ Kept(g1, dir, d, N) /\ r = Held(g1, d, c, N)
  <2>1. \A r : r \in kept <=> Remains(g, g1, e, dir, n, r)
    BY SurvivingIs, Zenon
  <2> QED BY <2>1 DEF Remains
<1>3. \A d, c : Held(g1, d, c, N).born = d
  BY DEF Held
<1>4. \A d \in 1 .. N : Held(g1, d, N, N) = Awaited(g1, d)
  <2>1. N + 1 .. N = {}
    OBVIOUS
  <2> QED BY <2>1 DEF Held, Awaited
<1>5. \A d \in 1 .. N : Promoted(g1, e1, dir, d, N) <=>
        Awaitable(g1, e1, dir, d, N) /\ Mark(e1, dir, N)
  BY ReadySplits
<1>6. ASSUME NEW r
      PROVE  r \in reg1 <=> \E d \in 1 .. N : \E c \in d .. N : R(d, c) /\ r = Held(g1, d, c, N)
  <2>1. ASSUME r \in kept
        PROVE  \E d \in 1 .. N : \E c \in d .. N : R(d, c) /\ r = Held(g1, d, c, N)
    <3>1. PICK d \in 1 .. n : \E c \in d .. n :
             Alive(g, e, dir, d, c, n) /\ Kept(g1, dir, d, N) /\ r = Held(g1, d, c, N)
      BY <1>2, <2>1
    <3>2. PICK c \in d .. n :
             Alive(g, e, dir, d, c, n) /\ Kept(g1, dir, d, N) /\ r = Held(g1, d, c, N)
      BY <3>1
    <3>3. d \in 1 .. N /\ c \in d .. N /\ c <= n
      OBVIOUS
    <3> QED BY <3>2, <3>3 DEF Runs
  <2>2. ASSUME Mark(e1, dir, N), r \in ready
        PROVE  \E d \in 1 .. N : \E c \in d .. N : R(d, c) /\ r = Held(g1, d, c, N)
    <3>1. PICK d \in 1 .. N : Awaitable(g1, e1, dir, d, N) /\ r = Awaited(g1, d)
      BY <2>2
    <3>2. N \in d .. N /\ Promoted(g1, e1, dir, d, N) /\ r = Held(g1, d, N, N)
      BY <1>4, <1>5, <2>2, <3>1
    <3> QED BY <3>2 DEF Runs
  <2>3. ASSUME NEW d \in 1 .. N, NEW c \in d .. N, R(d, c), r = Held(g1, d, c, N)
        PROVE  r \in reg1
    <3>1. CASE c = N
      <4>1. Promoted(g1, e1, dir, d, N)
        BY <2>3, <3>1 DEF Runs
      <4>2. Mark(e1, dir, N) /\ Awaitable(g1, e1, dir, d, N) /\ r = Awaited(g1, d)
        BY <1>4, <1>5, <2>3, <3>1, <4>1
      <4>3. r \in ready
        BY <4>2
      <4> QED BY <4>2, <4>3
    <3>2. CASE c # N
      <4>1. Alive(g, e, dir, d, c, n) /\ Kept(g1, dir, d, N) /\ d \in 1 .. n /\ c \in d .. n
        BY <2>3, <3>2 DEF Runs
      <4>2. r \in kept
        BY <1>2, <2>3, <4>1
      <4> QED BY <4>2
    <3> QED BY <3>1, <3>2
  <2> HIDE DEF R, N
  <2>4. r \in reg1 => r \in kept \/ (Mark(e1, dir, N) /\ r \in ready)
    BY DEF N
  <2> HIDE DEF reg1
  <2> QED BY <2>1, <2>2, <2>3, <2>4
<1>7. (\A r \in reg1 : r.born \in D) /\ (\A d \in D : \E r \in reg1 : r.born = d)
  <2>1. D = {d \in 1 .. N : \E c \in d .. N : R(d, c)}
    BY DEF Runners
  <2> HIDE DEF D, R, reg1, N
  <2> QED BY <1>3, <1>6, <2>1
<1> HIDE DEF R, D
<1>8. CASE Mark(e1, dir, n + 1)
  <2>1. reg1 = kept \cup ready
    BY <1>8
  <2> HIDE DEF reg1
  <2>2. Newest(reg1, MaxBlocks) = {r \in reg1 : Cardinality({x \in D : x > r.born}) < MaxBlocks}
    <3>1. BornIn(reg1, D)
      BY <1>7, Zenon DEF BornIn
    <3> QED BY <3>1, NewestIs
  <2> HIDE DEF N
  <2>3. ASSUME NEW r
        PROVE  r \in Newest(reg1, MaxBlocks) <=>
               \E d \in 1 .. N : \E c \in d .. N :
                 Alive(g1, e1, dir, d, c, N) /\ r = Held(g1, d, c, N)
    BY <1>1, <1>3, <1>6, <2>2
  <2>4. ActiveIs(Newest(kept \cup ready, MaxBlocks), dir, g1, e1, N)
    BY <2>1, <2>3 DEF ActiveIs
  <2> QED BY <1>8, <2>4 DEF N
<1>9. CASE ~Mark(e1, dir, n + 1)
  <2>1. reg1 = kept /\ ~Mark(e1, dir, N)
    BY <1>9
  <2> HIDE DEF reg1, N
  <2>2. ASSUME NEW r
        PROVE  r \in kept <=>
               \E d \in 1 .. N : \E c \in d .. N :
                 Alive(g1, e1, dir, d, c, N) /\ r = Held(g1, d, c, N)
    BY <1>1, <1>6, <2>1
  <2>3. ActiveIs(kept, dir, g1, e1, N)
    BY <2>2 DEF ActiveIs
  <2> QED BY <1>9, <2>3 DEF N
<1> QED BY <1>8, <1>9

(* A register has one list for each direction.                              *)
BySide(f) == f = [dir \in Sides |-> f[dir]]

(* What OrderBlockTracker holds after the bars of the history.              *)
BlocksInv ==
  /\ obs.bar = Now /\ RecentIs(obs.recent, hist)
  /\ DOMAIN obs.active = Sides /\ BySide(obs.pending)
  /\ \A dir \in Sides : /\ PendingIs(obs.pending[dir], dir, hist, events, Now)
                        /\ ActiveIs(obs.active[dir], dir, hist, events, Now)

(* The pending lists after OrderBlockTracker has looked at a bar.           *)
LEMMA CandidatesAre ==
  ASSUME NEW g, NEW b, NEW n, NEW g1, Grows(g, b, n, g1), NEW o, RecentIs(o.recent, g), BySide(o.pending)
  PROVE  /\ DOMAIN Candidates(o, b, n + 1) = Sides
         /\ \A d \in Sides : Candidates(o, b, n + 1)[d] = Offered(o.pending[d], d, g1, n + 1)
<1> DEFINE dir == BarDir(b)
           prevs == Prevs(o.recent, b)
           ob == [top |-> o.recent[Max(prevs)].h, bottom |-> o.recent[Max(prevs)].l,
                  mitigated |-> FALSE, born |-> n + 1]
           C == Candidates(o, b, n + 1)
<1>1. g1[n + 1] = b
  BY DEF Grows
<1>2. /\ prevs = {} <=> Org(g1, n + 1) = {}
      /\ prevs # {} => o.recent[Max(prevs)] = g1[Max(Org(g1, n + 1))]
  <2> HIDE DEF prevs
  <2>1. prevs = Prevs(o.recent, b)
    BY DEF prevs
  <2> QED BY <2>1, OriginIs
<1>3. C = IF ~b.disp \/ dir = "none" THEN o.pending
          ELSE IF prevs = {} THEN o.pending
          ELSE [o.pending EXCEPT ![dir] = Newest(@ \cup {ob}, MaxPending)]
  BY Zenon DEF Candidates, Prevs
<1>4. dir \in Sides \cup {"none"} /\ "none" \notin Sides
  BY DEF BarDir, Sides
<1>5. DOMAIN o.pending = Sides
  <2> DEFINE f == [d \in Sides |-> o.pending[d]]
  <2>1. DOMAIN f = Sides
    OBVIOUS
  <2> HIDE DEF f
  <2>2. o.pending = f
    BY DEF f, BySide
  <2> QED BY <2>1, <2>2
<1>6. \A d : Cand(g1, d, n + 1) <=> b.disp /\ dir = d /\ Org(g1, n + 1) # {}
  BY <1>1 DEF Cand
<1>7. prevs # {} => ob = Awaited(g1, n + 1)
  <2>1. SUFFICES ASSUME prevs # {} PROVE ob = Awaited(g1, n + 1)
    OBVIOUS
  <2>2. o.recent[Max(prevs)] = g1[Max(Org(g1, n + 1))]
    BY <1>2, <2>1
  <2> HIDE DEF prevs
  <2> QED BY <2>2 DEF Awaited, Blk
<1> HIDE DEF dir, prevs, ob, C
<1>8. CASE ~b.disp \/ dir = "none" \/ prevs = {}
  <2>1. C = o.pending
    BY <1>3, <1>8
  <2>2. \A d \in Sides : ~Cand(g1, d, n + 1)
    BY <1>2, <1>4, <1>6, <1>8
  <2> QED BY <1>5, <2>1, <2>2 DEF C, Offered
<1>9. CASE ~(~b.disp \/ dir = "none" \/ prevs = {})
  <2>1. C = [o.pending EXCEPT ![dir] = Newest(@ \cup {ob}, MaxPending)]
    BY <1>3, <1>9
  <2>2. \A d \in Sides : Cand(g1, d, n + 1) <=> d = dir
    BY <1>2, <1>6, <1>9
  <2>3. dir \in Sides /\ ob = Awaited(g1, n + 1)
    BY <1>4, <1>7, <1>9
  <2> DEFINE f == o.pending
  <2> HIDE DEF f
  <2>4. DOMAIN f = Sides
    BY <1>5 DEF f
  <2>5. C = [f EXCEPT ![dir] = Newest(f[dir] \cup {ob}, MaxPending)]
    BY <2>1 DEF f
  <2>6. DOMAIN C = Sides /\ \A d \in Sides : C[d] = IF d = dir
          THEN Newest(f[dir] \cup {ob}, MaxPending) ELSE f[d]
    BY <2>3, <2>4, <2>5
  <2>7. \A d \in Sides : C[d] = IF Cand(g1, d, n + 1)
              THEN Newest(f[d] \cup {Awaited(g1, n + 1)}, MaxPending) ELSE f[d]
    BY <2>2, <2>3, <2>6
  <2> QED BY <2>6, <2>7 DEF C, f, Offered
<1> QED BY <1>8, <1>9

(* A step keeps the order blocks' invariant.                                *)
LEMMA BlocksStep ==
  ASSUME StructureInv, BlocksInv, NEW x \in Shapes, Feed(x)
  PROVE  BlocksInv'
<1> DEFINE n == Len(hist)
           b == BarOf(x)
           g1 == Append(hist, b)
           ev == str'.event
           e1 == Append(events, ev)
           P == Candidates(obs, b, n + 1)
           kept(dir) == Surviving(obs.active[dir], dir, b, n + 1)
<1>1. HistOK' /\ HistOK /\ ev \in Marks
  BY HistStep DEF StructureInv
<1>2. /\ b \in Bar /\ hist \in Seq(Bar) /\ n \in Nat /\ hist' = g1 /\ Len(g1) = n + 1
      /\ g1[n + 1] = b /\ events \in Seq(Marks) /\ Len(events) = n /\ events' = e1
      /\ Now = n /\ Now' = n + 1 /\ e1[n + 1] = ev /\ Agree(n, hist, g1, events, e1)
  <2>1. /\ b \in Bar /\ hist \in Seq(Bar) /\ n \in Nat /\ hist' = g1 /\ Now = n
        /\ events \in Seq(Marks) /\ Len(events) = n /\ events' = e1 /\ ev \in Marks
    BY <1>1, FeedIs DEF HistOK, Now, Feed
  <2> HIDE DEF b, ev
  <2> QED BY <2>1 DEF Now, Agree
<1>3. /\ obs.bar = n /\ RecentIs(obs.recent, hist) /\ DOMAIN obs.active = Sides
      /\ BySide(obs.pending)
      /\ \A dir \in Sides : /\ PendingIs(obs.pending[dir], dir, hist, events, n)
                            /\ ActiveIs(obs.active[dir], dir, hist, events, n)
  BY <1>2 DEF BlocksInv
<1>4. /\ DOMAIN P = Sides
      /\ \A d \in Sides : P[d] = Offered(obs.pending[d], d, g1, n + 1)
  <2>1. Grows(hist, b, n, g1) /\ RecentIs(obs.recent, hist) /\ BySide(obs.pending)
    BY <1>2, <1>3 DEF Grows
  <2> HIDE DEF b, n, g1
  <2> QED BY <2>1, CandidatesAre
<1>5. \A dir : (ev # None /\ ev.dir = dir) <=> Mark(e1, dir, n + 1)
  BY <1>2 DEF Mark
<1>6. obs' = [bar |-> n + 1, recent |-> Bounded(Append(obs.recent, b), RecentBars),
              active |-> [dir \in Sides |->
                IF ev # None /\ ev.dir = dir THEN Newest(kept(dir) \cup InTime(P[dir], n + 1), MaxBlocks)
                ELSE kept(dir)],
              pending |-> [dir \in Sides |->
                IF ev # None /\ ev.dir = dir THEN {} ELSE InTime(P[dir], n + 1)]]
  <2>1. obs' = UpdateBlocks(obs, b, ev)
    BY DEF Feed
  <2> HIDE DEF b, ev, n
  <2> QED BY <1>3, <1>4, <2>1 DEF UpdateBlocks
<1> HIDE DEF b, ev, n, P, g1, e1
<1>7. \A dir \in Sides :
        InTime(P[dir], n + 1) =
           {Awaited(g1, d) : d \in {y \in 1 .. n + 1 : Awaitable(g1, e1, dir, y, n + 1)}}
  <2>1. ASSUME NEW dir \in Sides
        PROVE  InTime(P[dir], n + 1) =
           {Awaited(g1, d) : d \in {y \in 1 .. n + 1 : Awaitable(g1, e1, dir, y, n + 1)}}
    <3> DEFINE reg1 == P[dir]
    <3>1. reg1 = Offered(obs.pending[dir], dir, g1, n + 1) /\ n \in Nat
          /\ Agree(n, hist, g1, events, e1) /\ PendingIs(obs.pending[dir], dir, hist, events, n)
      BY <1>2, <1>3, <1>4
    <3> HIDE DEF reg1
    <3>2. InTime(reg1, n + 1) =
           {Awaited(g1, d) : d \in {y \in 1 .. n + 1 : Awaitable(g1, e1, dir, y, n + 1)}}
      BY <3>1, PendingStep
    <3> QED BY <3>2 DEF reg1
  <2> QED BY <2>1
<1>8. \A dir \in Sides : ActiveIs(obs'.active[dir], dir, g1, e1, n + 1)
  <2>1. ASSUME NEW dir \in Sides PROVE ActiveIs(obs'.active[dir], dir, g1, e1, n + 1)
    <3> DEFINE ready == InTime(P[dir], n + 1)
               k == kept(dir)
    <3>1. obs'.active[dir] = IF Mark(e1, dir, n + 1) THEN Newest(k \cup ready, MaxBlocks) ELSE k
      BY <1>5, <1>6
    <3>2. ready = {Awaited(g1, d) : d \in {y \in 1 .. n + 1 : Awaitable(g1, e1, dir, y, n + 1)}}
          /\ k = Surviving(obs.active[dir], dir, g1[n + 1], n + 1)
          /\ ActiveIs(obs.active[dir], dir, hist, events, n)
      BY <1>2, <1>3, <1>7
    <3> HIDE DEF ready, k
    <3>3. ActiveIs(IF Mark(e1, dir, n + 1) THEN Newest(k \cup ready, MaxBlocks) ELSE k,
                   dir, g1, e1, n + 1)
      BY <1>2, <3>2, ActiveStep
    <3> QED BY <3>1, <3>3
  <2> QED BY <2>1
<1>9. \A dir \in Sides : PendingIs(obs'.pending[dir], dir, g1, e1, n + 1)
  <2>1. ASSUME NEW dir \in Sides PROVE PendingIs(obs'.pending[dir], dir, g1, e1, n + 1)
    <3>1. obs'.pending[dir] = IF Mark(e1, dir, n + 1) THEN {} ELSE InTime(P[dir], n + 1)
      BY <1>5, <1>6
    <3>2. \A d \in 1 .. n + 1 : Waits(g1, e1, dir, d, n + 1) <=>
            Awaitable(g1, e1, dir, d, n + 1) /\ ~Mark(e1, dir, n + 1)
      <4>1. n + 1 \in Nat
        BY <1>2
      <4> QED BY <4>1, ReadySplits
    <3>3. CASE Mark(e1, dir, n + 1)
      <4>1. {y \in 1 .. n + 1 : Waits(g1, e1, dir, y, n + 1)} = {}
        BY <3>2, <3>3
      <4> QED BY <3>1, <3>3, <4>1 DEF PendingIs
    <3>4. CASE ~Mark(e1, dir, n + 1)
      <4>1. {y \in 1 .. n + 1 : Waits(g1, e1, dir, y, n + 1)} =
            {y \in 1 .. n + 1 : Awaitable(g1, e1, dir, y, n + 1)}
        BY <3>2, <3>4
      <4>2. obs'.pending[dir] =
              {Awaited(g1, d) : d \in {y \in 1 .. n + 1 : Awaitable(g1, e1, dir, y, n + 1)}}
        BY <1>7, <3>1, <3>4
      <4> QED BY <4>1, <4>2 DEF PendingIs
    <3> QED BY <3>3, <3>4
  <2> QED BY <2>1
<1>10. RecentIs(obs'.recent, g1) /\ obs'.bar = n + 1 /\ DOMAIN obs'.active = Sides
  <2>1. RecentIs(Bounded(Append(obs.recent, b), RecentBars), g1)
    BY <1>2, <1>3, RecentStep DEF g1
  <2> QED BY <1>6, <2>1
<1>11. BySide(obs'.pending)
  <2> DEFINE F(dir) == IF ev # None /\ ev.dir = dir THEN {} ELSE InTime(P[dir], n + 1)
  <2>1. obs'.pending = [dir \in Sides |-> F(dir)]
    BY <1>6
  <2> HIDE DEF F
  <2> QED BY <2>1 DEF BySide
<1> QED BY <1>2, <1>8, <1>9, <1>10, <1>11 DEF BlocksInv

(* The order-block tracker starts empty.                                    *)
LEMMA BlocksInit ==
  ASSUME FeedInit
  PROVE  BlocksInv
<1>1. hist = << >> /\ events = << >> /\ obs = NewOrderBlocks /\ Now = 0
  BY DEF FeedInit, Now
<1>2. /\ obs.bar = 0 /\ obs.recent = << >> /\ DOMAIN obs.active = Sides
      /\ obs.pending = [dir \in Sides |-> {}] /\ obs.active = [dir \in Sides |-> {}]
  BY <1>1 DEF NewOrderBlocks, NoBlocks, Sides
<1>3. RecentIs(obs.recent, hist)
  BY <1>1, <1>2, Constants DEF RecentIs, MinOf
<1>4. 1 .. 0 = {}
  OBVIOUS
<1>5. ASSUME NEW dir \in Sides
      PROVE  /\ PendingIs(obs.pending[dir], dir, hist, events, 0)
             /\ ActiveIs(obs.active[dir], dir, hist, events, 0)
  BY <1>2, <1>4 DEF PendingIs, ActiveIs
<1>6. BySide(obs.pending)
  BY <1>2 DEF BySide
<1> QED BY <1>1, <1>2, <1>3, <1>5, <1>6 DEF BlocksInv

(* A stutter keeps the order blocks' invariant.                             *)
LEMMA BlocksStutter ==
  ASSUME UNCHANGED feedVars
  PROVE  BlocksInv' = BlocksInv
BY DEF feedVars, BlocksInv, Now

(* The chart's own words for a block of direction dir at the bar d.         *)
LEMMA ChartWords ==
  ASSUME HistOK, NEW dir \in Sides, NEW d \in 1 .. Now
  PROVE  /\ IsCandidate(d) /\ BlockDir(d) = dir <=> Cand(hist, dir, d)
         /\ Block(d) = Blk(hist, d)
         /\ BlockDir(d) = dir => \A to : Newer(d, to) = NewerThan(hist, dir, d, to)
         /\ BlockDir(d) = dir => Confirmers(d) = {m \in d .. Now : Mark(events, dir, m)}
<1>1. OriginsOf(d) = Org(hist, d)
  BY DEF OriginsOf, Org, BlockDir
<1>2. Block(d) = Blk(hist, d)
  BY <1>1 DEF Block, Blk
<1>3. \A x : IsCandidate(x) /\ BlockDir(x) = dir <=> Cand(hist, dir, x)
  <2>1. dir # "none"
    BY DEF Sides
  <2> QED BY <2>1 DEF IsCandidate, Cand, BlockDir, OriginsOf, Org
<1>4. ASSUME BlockDir(d) = dir PROVE \A to : Newer(d, to) = NewerThan(hist, dir, d, to)
  BY <1>3, <1>4 DEF Newer, NewerThan
<1>5. BlockDir(d) = dir => Confirmers(d) = {m \in d .. Now : Mark(events, dir, m)}
  BY DEF Confirmers, EventsIn, Mark
<1> QED BY <1>2, <1>3, <1>4, <1>5

(* The chart's first confirmer is the first event of the direction.         *)
LEMMA ConfirmedAt ==
  ASSUME HistOK, NEW dir \in Sides, NEW d \in 1 .. Now, BlockDir(d) = dir, NEW c \in d .. Now
  PROVE  Confirmers(d) # {} /\ Min(Confirmers(d)) = c <=> FirstMark(events, dir, d, c)
<1> DEFINE S == Confirmers(d)
<1>0. Now \in Nat
  BY DEF HistOK, Now
<1>1. S = {m \in d .. Now : Mark(events, dir, m)}
  BY ChartWords
<1> HIDE DEF S
<1>2. S \in SUBSET Nat /\ S \in SUBSET Int
  BY <1>1
<1>3. ASSUME S # {}, Min(S) = c PROVE FirstMark(events, dir, d, c)
  <2>1. c \in S /\ \A m \in S : c <= m
    BY <1>2, <1>3, MinOfSet
  <2>2. \A i \in d .. c - 1 : i \in d .. Now /\ ~(c <= i)
    BY <1>0
  <2> QED BY <1>1, <2>1, <2>2 DEF FirstMark
<1>4. ASSUME FirstMark(events, dir, d, c) PROVE S # {} /\ Min(S) = c
  <2>1. c \in S /\ \A i \in d .. c - 1 : i \notin S
    BY <1>1, <1>4 DEF FirstMark
  <2>2. \A m \in S : c <= m
    BY <1>1, <2>1
  <2> QED BY <1>2, <2>1, <2>2, MinIs
<1> QED BY <1>3, <1>4 DEF S

(* A block stands on the chart when it was promoted and survived since.     *)
LEMMA StandsIs ==
  ASSUME HistOK, NEW dir \in Sides, NEW d \in 1 .. Now, Cand(hist, dir, d), NEW m \in 1 .. Now
  PROVE  /\ Stands(d, m) => /\ Min(Confirmers(d)) \in d .. m
                            /\ Stood(hist, events, dir, d, Min(Confirmers(d)), m)
         /\ \A c \in d .. m : Stood(hist, events, dir, d, c, m) =>
              Stands(d, m) /\ Min(Confirmers(d)) = c
<1> DEFINE S == Confirmers(d)
           f == Min(S)
<1>0. Now \in Nat
  BY DEF HistOK, Now
<1>1. /\ IsCandidate(d) /\ BlockDir(d) = dir /\ Block(d) = Blk(hist, d)
      /\ \A to : Newer(d, to) = NewerThan(hist, dir, d, to)
      /\ S = {k \in d .. Now : Mark(events, dir, k)}
  BY ChartWords
<1>2. \A c \in d .. Now : S # {} /\ f = c <=> FirstMark(events, dir, d, c)
  BY <1>1, ConfirmedAt
<1>3. S # {} => f \in d .. Now
  <2>1. S \in SUBSET Nat
    BY <1>1
  <2> HIDE DEF S
  <2> QED BY <1>1, <2>1, MinOfSet
<1>4. IsConfirmed(d) <=> S # {} /\ Promoted(hist, events, dir, d, f)
  BY <1>1, <1>2, <1>3 DEF IsConfirmed, Promoted
<1>5. \A i : Kept(hist, dir, d, i) <=>
              i - d < ExpiryBars /\ ~Invalidated(Block(d), BlockDir(d), hist[i])
  BY <1>1 DEF Kept
<1>6. Stands(d, m) <=> S # {} /\ f <= m /\ Stood(hist, events, dir, d, f, m)
  BY <1>4, <1>5 DEF Stands, Since, Stood, IsConfirmed
<1> HIDE DEF f, S
<1>7. Stands(d, m) => f \in d .. m /\ Stood(hist, events, dir, d, f, m)
  BY <1>3, <1>6
<1>8. ASSUME NEW c \in d .. m, Stood(hist, events, dir, d, c, m)
      PROVE  Stands(d, m) /\ f = c
  <2>1. FirstMark(events, dir, d, c) /\ c \in d .. Now /\ c <= m
    BY <1>0, <1>8 DEF Stood, Promoted
  <2>2. S # {} /\ f = c
    BY <1>2, <2>1
  <2> QED BY <1>6, <1>8, <2>1, <2>2
<1> QED BY <1>7, <1>8 DEF f, S

(* A block is crowded on the chart when MaxBlocks newer ones stand.         *)
LEMMA CrowdIs ==
  ASSUME HistOK, NEW dir \in Sides, NEW d \in 1 .. Now, Cand(hist, dir, d), NEW m \in 1 .. Now
  PROVE  Crowded(d, m) <=> ~(Cardinality(Above(hist, events, dir, d, m)) < MaxBlocks)
<1> DEFINE A == Above(hist, events, dir, d, m)
           B == {x \in Newer(d, Now) : Stands(x, m)}
<1>0. Now \in Nat
  BY DEF HistOK, Now
<1>1. BlockDir(d) = dir /\ Newer(d, Now) = NewerThan(hist, dir, d, Now)
  BY ChartWords
<1>2. ASSUME NEW x \in B PROVE x \in A
  <2>1. x \in d + 1 .. Now /\ Cand(hist, dir, x) /\ Stands(x, m)
    BY <1>1, <1>2 DEF NewerThan
  <2>2. x \in 1 .. Now /\ x > d
    BY <2>1
  <2>3. /\ Min(Confirmers(x)) \in x .. m
        /\ Stood(hist, events, dir, x, Min(Confirmers(x)), m)
    BY <2>1, <2>2, StandsIs
  <2>4. x \in 1 .. m
    BY <2>2, <2>3
  <2> QED BY <2>2, <2>3, <2>4 DEF Above, Standers
<1>3. ASSUME NEW x \in A PROVE x \in B
  <2>1. x \in 1 .. m /\ x > d /\ \E c \in x .. m : Stood(hist, events, dir, x, c, m)
    BY <1>3 DEF Above, Standers
  <2>2. PICK c \in x .. m : Stood(hist, events, dir, x, c, m)
    BY <2>1
  <2>3. Cand(hist, dir, x)
    BY <2>2 DEF Stood, Promoted
  <2>4. x \in 1 .. Now /\ x \in d + 1 .. Now
    BY <1>0, <2>1
  <2>5. Stands(x, m)
    BY <2>2, <2>3, <2>4, StandsIs
  <2> QED BY <1>1, <2>3, <2>4, <2>5 DEF NewerThan
<1>4. B = A
  BY <1>2, <1>3
<1>5. Cardinality(A) \in Nat
  BY SetsFinite DEF HistOK, Now
<1>6. Crowded(d, m) <=> Cardinality(B) >= MaxBlocks
  BY DEF Crowded
<1> HIDE DEF A, B
<1>7. Crowded(d, m) <=> ~(Cardinality(A) < MaxBlocks)
  BY <1>4, <1>5, <1>6, Constants
<1> QED BY <1>7 DEF A

(* The blocks of the chart are those alive.                                 *)
LEMMA ChartBlocksAre ==
  ASSUME HistOK, NEW dir \in Sides, NEW r
  PROVE  r \in ChartBlocks(dir) <=>
           \E d \in 1 .. Now : \E c \in d .. Now :
             Alive(hist, events, dir, d, c, Now) /\ r = Held(hist, d, c, Now)
<1> DEFINE f(d) == Min(Confirmers(d))
           Shown(d) == /\ IsCandidate(d) /\ BlockDir(d) = dir /\ Stands(d, Now)
                       /\ \A m \in f(d) .. Now : ~Crowded(d, m)
           Drawn(d) == [top |-> Block(d).top, bottom |-> Block(d).bottom, born |-> d,
                        mitigated |-> \E i \in Since(d, Now) : Touched(Block(d), hist[i])]
<1>0. Now \in Nat
  BY DEF HistOK, Now
<1>1. r \in ChartBlocks(dir) <=> \E d \in 1 .. Now : Shown(d) /\ r = Drawn(d)
  BY DEF ChartBlocks
<1>2. ASSUME NEW d \in 1 .. Now
      PROVE  /\ IsCandidate(d) /\ BlockDir(d) = dir <=> Cand(hist, dir, d)
             /\ Drawn(d) = Held(hist, d, f(d), Now)
  <2>1. Block(d) = Blk(hist, d)
    BY ChartWords
  <2>2. Drawn(d) = Held(hist, d, f(d), Now)
    BY <2>1, Zenon DEF Held, Since
  <2> QED BY <2>2, ChartWords
<1>3. ASSUME NEW d \in 1 .. Now, Cand(hist, dir, d), NEW c \in d .. Now
      PROVE  (\A m \in c .. Now : ~Crowded(d, m)) <=>
             \A m \in c .. Now : Cardinality(Above(hist, events, dir, d, m)) < MaxBlocks
  <2>1. \A m \in c .. Now : m \in 1 .. Now
    BY <1>0
  <2>2. \A m \in c .. Now : Crowded(d, m) <=>
             ~(Cardinality(Above(hist, events, dir, d, m)) < MaxBlocks)
    BY <1>3, <2>1, CrowdIs
  <2> QED BY <2>2
<1> HIDE DEF Drawn
<1>4. ASSUME NEW d \in 1 .. Now, Shown(d), r = Drawn(d)
      PROVE  \E c \in d .. Now :
               Alive(hist, events, dir, d, c, Now) /\ r = Held(hist, d, c, Now)
  <2>1. Cand(hist, dir, d) /\ Stands(d, Now) /\ Now \in 1 .. Now
    BY <1>0, <1>2, <1>4
  <2>2. f(d) \in d .. Now /\ Stood(hist, events, dir, d, f(d), Now)
    BY <2>1, StandsIs
  <2>3. Alive(hist, events, dir, d, f(d), Now)
    BY <1>3, <1>4, <2>1, <2>2 DEF Alive
  <2> QED BY <1>2, <1>4, <2>2, <2>3
<1>5. ASSUME NEW d \in 1 .. Now, NEW c \in d .. Now,
             Alive(hist, events, dir, d, c, Now), r = Held(hist, d, c, Now)
      PROVE  Shown(d) /\ r = Drawn(d)
  <2>1. Stood(hist, events, dir, d, c, Now) /\ Cand(hist, dir, d) /\ Now \in 1 .. Now
    BY <1>0, <1>5 DEF Alive, Stood, Promoted
  <2>2. Stands(d, Now) /\ f(d) = c
    BY <2>1, StandsIs
  <2>3. \A m \in c .. Now : ~Crowded(d, m)
    BY <1>3, <1>5, <2>1 DEF Alive
  <2> QED BY <1>2, <1>5, <2>1, <2>2, <2>3
<1> HIDE DEF Shown
<1> QED BY <1>1, <1>4, <1>5

(* The invariant says what the chart shows.                                 *)
LEMMA BlocksAre == HistOK /\ BlocksInv => BlocksAreChart
<1>1. SUFFICES ASSUME HistOK, BlocksInv, NEW dir \in Sides
               PROVE  obs.active[dir] = ChartBlocks(dir)
  BY DEF BlocksInv, BlocksAreChart
<1>2. ActiveIs(obs.active[dir], dir, hist, events, Now)
  BY <1>1 DEF BlocksInv
<1>3. \A r : r \in obs.active[dir] <=> r \in ChartBlocks(dir)
  BY <1>1, <1>2, ChartBlocksAre DEF ActiveIs
<1> QED BY <1>3

(* OrderBlockTracker.update: the blocks held active after every bar are     *)
(* those the chart of all bars shows, for every size of the registers and   *)
(* every bars.                                                              *)
THEOREM BlocksFollowChart == FeedSpec => []BlocksAreChart
<1> DEFINE I == StructureInv /\ BlocksInv
<1>1. FeedInit => I
  BY StructureInit, BlocksInit
<1>2. I /\ [FeedNext]_feedVars => I'
  <2>1. ASSUME I, NEW x \in Shapes, Feed(x) PROVE I'
    BY <2>1, StructureInvStep, BlocksStep
  <2>2. ASSUME I, UNCHANGED feedVars PROVE I'
    BY <2>2, StructureStutters, BlocksStutter
  <2> QED BY <2>1, <2>2 DEF FeedNext
<1>3. I => BlocksAreChart
  BY BlocksAre DEF StructureInv
<1> QED BY <1>1, <1>2, <1>3, PTL DEF FeedSpec

-----------------------------------------------------------------------------
(* Candles of the higher timeframe.                                         *)
LEMMA Division ==
  ASSUME NEW t \in Int, NEW k \in Int, k > 0
  PROVE  /\ t \div k \in Int /\ t % k \in Int /\ 0 <= t % k /\ t % k < k
         /\ t = k * (t \div k) + (t % k)
<1>1. t \div k \in Int /\ t % k \in Int /\ 0 <= t % k /\ t % k < k
  OBVIOUS
<1>2. t % k = t - k * (t \div k)
  BY Z3
<1>3. k * (t \div k) \in Int
  BY <1>1
<1> DEFINE m == k * (t \div k)
           r == t % k
<1> HIDE DEF m, r
<1>4. r = t - m /\ m \in Int
  BY <1>2, <1>3 DEF m, r
<1>5. t = m + r
  BY <1>4
<1>6. t = k * (t \div k) + (t % k)
  BY <1>5, Zenon DEF m, r
<1> QED BY <1>1, <1>6, Zenon

(* A number lies between two neighbouring multiples only.                   *)
LEMMA SameMultiple ==
  ASSUME NEW k \in Int, k > 0, NEW p \in Int, NEW q \in Int, NEW t \in Int,
         k * p <= t, t < k * p + k, k * q <= t, t < k * q + k
  PROVE  p = q
<1>1. ASSUME NEW a \in Int, NEW b \in Int, a < b PROVE k * a + k <= k * b
  <2>1. PICK j \in Nat : b = a + 1 + j
    <3>1. b - a - 1 \in Nat /\ b = a + 1 + (b - a - 1)
      BY <1>1
    <3> QED BY <3>1
  <2>2. k * b = k * a + k + k * j /\ k * j \in Nat
    BY <2>1
  <2>3. k * a \in Int
    OBVIOUS
  <2> DEFINE x == k * a
             y == k * j
             z == k * b
  <2> HIDE DEF x, y, z
  <2>4. z = x + k + y /\ y \in Nat /\ x \in Int
    BY <2>2, <2>3 DEF x, y, z
  <2>5. x + k <= z
    BY <2>4
  <2> QED BY <2>5 DEF x, z
<1> DEFINE x == k * p
           y == k * q
<1>2. x \in Int /\ y \in Int
  OBVIOUS
<1>3. CASE p < q
  <2>1. x + k <= y
    BY <1>1, <1>3
  <2> HIDE DEF x, y
  <2>2. t < x + k /\ y <= t
    BY DEF x, y
  <2> QED BY <1>2, <2>1, <2>2
<1>4. CASE q < p
  <2>1. y + k <= x
    BY <1>1, <1>4
  <2> HIDE DEF x, y
  <2>2. t < y + k /\ x <= t
    BY DEF x, y
  <2> QED BY <1>2, <2>1, <2>2
<1> QED BY <1>3, <1>4

(* A bar between two bars of a bucket is of that bucket.                    *)
LEMMA BucketsConvex ==
  ASSUME NEW s \in Nat, NEW t \in Nat, NEW u \in Nat, s <= t, t <= u,
         BucketOf(s) = BucketOf(u)
  PROVE  BucketOf(t) = BucketOf(s)
<1> DEFINE k == Tf
           K(v) == k * (v \div k)
<1>1. k \in Int /\ k > 0
  BY Constants
<1>2. \A v \in Nat : /\ v \div k \in Int /\ K(v) \in Int /\ K(v) <= v /\ v < K(v) + k
                     /\ BucketOf(v) = K(v)
  <2> TAKE v \in Nat
  <2>1. /\ v \div k \in Int /\ v % k \in Int /\ 0 <= v % k /\ v % k < k
        /\ v = K(v) + (v % k)
    BY <1>1, Division
  <2>2. K(v) \in Int
    BY <1>1, <2>1
  <2>3. BucketOf(v) = v - (v % k)
    BY DEF BucketOf
  <2> DEFINE m == K(v)
             r == v % k
  <2> HIDE DEF m, r
  <2>4. r \in Int /\ 0 <= r /\ r < k /\ v = m + r /\ m \in Int /\ BucketOf(v) = v - r
    BY <2>1, <2>2, <2>3, Zenon DEF m, r
  <2>5. m <= v /\ v < m + k /\ BucketOf(v) = m
    BY <1>1, <2>4
  <2> QED BY <2>1, <2>2, <2>5 DEF m
<1>3. /\ s \div k \in Int /\ t \div k \in Int
      /\ K(s) \in Int /\ K(s) <= s /\ u < K(s) + k /\ BucketOf(s) = K(s)
      /\ K(t) <= t /\ t < K(t) + k /\ BucketOf(t) = K(t)
  BY <1>2, Zenon
<1>4. K(s) <= t /\ t < K(s) + k
  <2> DEFINE m == K(s)
  <2> HIDE DEF m
  <2>1. m \in Int /\ m <= s /\ u < m + k
    BY <1>3 DEF m
  <2>2. m <= t /\ t < m + k
    BY <1>1, <2>1
  <2> QED BY <2>2 DEF m
<1>5. s \div k = t \div k
  <2> DEFINE p == s \div k
             q == t \div k
  <2> HIDE DEF p, q, k
  <2>1. /\ k \in Int /\ k > 0 /\ p \in Int /\ q \in Int /\ t \in Int
        /\ k * p <= t /\ t < k * p + k /\ k * q <= t /\ t < k * q + k
    BY <1>1, <1>3, <1>4 DEF p, q
  <2>2. p = q
    BY <2>1, SameMultiple
  <2> QED BY <2>2 DEF p, q
<1> QED BY <1>3, <1>5

(* Prices of finitely many bars are bounded.                                *)
HighsUpTo(g, j) == \E B \in Nat : \A k \in 1 .. j : g[k].h <= B

(* Every high of a history lies below some number.                          *)
LEMMA HighsBounded ==
  ASSUME NEW g \in Seq(Bar)
  PROVE  HighsUpTo(g, Len(g))
<1> DEFINE n == Len(g)
           T == {j \in 0 .. n : ~HighsUpTo(g, j)}
<1>1. n \in Nat /\ \A k \in 1 .. n : g[k].h \in Nat
  <2>1. n \in Nat /\ \A k \in 1 .. n : g[k] \in Bar
    OBVIOUS
  <2>2. \A b \in Bar : b.h \in Nat
    BY DEF Bar
  <2> QED BY <2>1, <2>2
<1> HIDE DEF n
<1>2. SUFFICES ASSUME T # {} PROVE FALSE
  BY <1>1 DEF n
<1>3. PICK j \in T : \A y \in T : j <= y
  <2>1. T \in SUBSET Nat
    BY <1>1
  <2> HIDE DEF T
  <2> QED BY <1>2, <2>1, MinOfSet
<1>4. j \in 0 .. n /\ ~HighsUpTo(g, j)
  BY <1>3
<1>5. j # 0
  <2>1. \A k \in 1 .. 0 : g[k].h <= 0
    OBVIOUS
  <2> QED BY <1>4, <2>1 DEF HighsUpTo
<1>6. j - 1 \in 0 .. n /\ ~(j <= j - 1) /\ j \in 1 .. n
  BY <1>1, <1>4, <1>5
<1>7. HighsUpTo(g, j - 1)
  BY <1>3, <1>6
<1>8. PICK B \in Nat : \A k \in 1 .. j - 1 : g[k].h <= B
  BY <1>7 DEF HighsUpTo
<1>9. g[j].h \in Nat
  BY <1>1, <1>6
<1> DEFINE M == MaxOf(B, g[j].h)
<1>10. M \in Nat /\ B <= M /\ g[j].h <= M
  BY <1>9 DEF MaxOf
<1> HIDE DEF M
<1>11. ASSUME NEW k \in 1 .. j PROVE g[k].h <= M
  <2>1. CASE k = j
    BY <1>10, <2>1
  <2>2. CASE k # j
    <3>1. k \in 1 .. j - 1 /\ k \in 1 .. n
      BY <1>1, <1>6, <2>2
    <3>2. g[k].h \in Nat /\ g[k].h <= B
      BY <1>1, <1>8, <3>1
    <3> QED BY <1>10, <3>2
  <2> QED BY <2>1, <2>2
<1> QED BY <1>4, <1>10, <1>11 DEF HighsUpTo

(* The extremes of a set with one more number.                              *)
LEMMA MaxAdd ==
  ASSUME NEW S \in SUBSET Nat, S # {}, NEW B \in Nat, \A y \in S : y <= B, NEW x \in Nat
  PROVE  Max(S \cup {x}) = MaxOf(Max(S), x)
<1> DEFINE p == Max(S)
           m == MaxOf(p, x)
<1>1. p \in S /\ \A y \in S : y <= p
  BY MaxOfSet
<1> HIDE DEF p
<1>2. p \in Nat /\ (m = p \/ m = x) /\ p <= m /\ x <= m /\ m \in Int
  BY <1>1 DEF MaxOf
<1> HIDE DEF m
<1>3. \A y \in S : y <= m
  BY <1>1, <1>2
<1>4. S \cup {x} \in SUBSET Int /\ m \in S \cup {x} /\ \A y \in S \cup {x} : y <= m
  BY <1>1, <1>2, <1>3
<1>5. Max(S \cup {x}) = m
  BY <1>4, MaxIs
<1> QED BY <1>5 DEF m, p

(* One more number in a set: its smallest.                                  *)
LEMMA MinAdd ==
  ASSUME NEW S \in SUBSET Nat, S # {}, NEW x \in Nat
  PROVE  Min(S \cup {x}) = MinOf(Min(S), x)
<1> DEFINE p == Min(S)
           m == MinOf(p, x)
<1>1. p \in S /\ \A y \in S : p <= y
  BY MinOfSet
<1> HIDE DEF p
<1>2. p \in Nat /\ (m = p \/ m = x) /\ m <= p /\ m <= x /\ m \in Int
  BY <1>1 DEF MinOf
<1> HIDE DEF m
<1>3. \A y \in S : m <= y
  BY <1>1, <1>2
<1>4. S \cup {x} \in SUBSET Int /\ m \in S \cup {x} /\ \A y \in S \cup {x} : m <= y
  BY <1>1, <1>2, <1>3
<1>5. Min(S \cup {x}) = m
  BY <1>4, MinIs
<1> QED BY <1>5 DEF m, p

(* What the aggregator holds after the bars g.                              *)
InBucket(g, key) == {k \in 1 .. Len(g) : BucketOf(g[k].t) = key}
Folded(g, ks) ==
  [o |-> g[Min(ks)].o, h |-> Max({g[k].h : k \in ks}),
   l |-> Min({g[k].l : k \in ks}), c |-> g[Max(ks)].c]

HasFields(a) == a = [key |-> a.key, candle |-> a.candle, done |-> a.done]

(* The aggregator's invariant.                                              *)
AggInv ==
  HasFields(agg) /\
  IF Now = 0 THEN agg.key = -1 /\ agg.candle = None
  ELSE /\ agg.key = BucketOf(hist[Now].t)
       /\ agg.candle = Folded(hist, InBucket(hist, agg.key))
       /\ CandleIsChart

(* Later bars leave a candle alone.                                         *)
LEMMA FoldSame ==
  ASSUME NEW g, NEW b, NEW n, NEW g1, Grows(g, b, n, g1), NEW ks \in SUBSET (1 .. n), ks # {}
  PROVE  Folded(g1, ks) = Folded(g, ks)
<1>1. n \in Nat /\ \A i \in 1 .. n : g1[i] = g[i]
  BY DEF Grows
<1>2. {g1[k].h : k \in ks} = {g[k].h : k \in ks} /\ {g1[k].l : k \in ks} = {g[k].l : k \in ks}
  BY <1>1
<1>3. Min(ks) \in ks /\ Max(ks) \in ks
  <2>1. ks \in SUBSET Nat /\ \A k \in ks : k <= n
    BY <1>1
  <2> QED BY <1>1, <2>1, MinOfSet, MaxOfSet
<1>4. g1[Min(ks)] = g[Min(ks)] /\ g1[Max(ks)] = g[Max(ks)]
  BY <1>1, <1>3
<1> QED BY <1>2, <1>4, Zenon DEF Folded

(* The candle of a bucket with one more bar.                                *)
LEMMA FoldStep ==
  ASSUME NEW g, NEW b, NEW n, NEW g1, Grows(g, b, n, g1), NEW ks \in SUBSET (1 .. n), ks # {}
  PROVE  Folded(g1, ks \cup {n + 1}) =
           [o |-> Folded(g, ks).o, h |-> MaxOf(Folded(g, ks).h, b.h),
            l |-> MinOf(Folded(g, ks).l, b.l), c |-> b.c]
<1> DEFINE ks1 == ks \cup {n + 1}
           H(s) == {g[k].h : k \in s}
           L(s) == {g[k].l : k \in s}
           H1(s) == {g1[k].h : k \in s}
           L1(s) == {g1[k].l : k \in s}
<1>1. /\ n \in Nat /\ b \in Bar /\ g1[n + 1] = b /\ \A i \in 1 .. n : g1[i] = g[i] /\ g[i] \in Bar
  BY DEF Grows
<1>2. H1(ks) = H(ks) /\ L1(ks) = L(ks)
  BY <1>1
<1>3. H1(ks1) = H(ks) \cup {b.h} /\ L1(ks1) = L(ks) \cup {b.l}
  BY <1>1
<1>4. ks \in SUBSET Nat /\ n + 1 \in Nat /\ b.h \in Nat /\ b.l \in Nat /\ \A k \in ks : k <= n
  BY <1>1 DEF Bar
<1>5. /\ Min(ks) \in ks /\ \A k \in ks : Min(ks) <= k
      /\ Max(ks) \in ks /\ \A k \in ks : k <= Max(ks)
  BY <1>1, <1>4, MinOfSet, MaxOfSet
<1>6. Min(ks1) = Min(ks)
  <2> DEFINE p == Min(ks)
  <2> HIDE DEF p
  <2>1. p \in ks /\ \A k \in ks : p <= k
    BY <1>5 DEF p
  <2>2. p <= n + 1
    BY <1>1, <1>4, <2>1
  <2>3. ks1 \in SUBSET Int /\ p \in ks1 /\ \A y \in ks1 : p <= y
    BY <1>1, <1>4, <2>1, <2>2
  <2> HIDE DEF ks1
  <2> QED BY <2>3, MinIs DEF p
<1>7. Max(ks1) = n + 1
  <2>1. ks1 \in SUBSET Int /\ n + 1 \in ks1 /\ \A y \in ks1 : y <= n + 1
    BY <1>1, <1>4
  <2> HIDE DEF ks1
  <2> QED BY <2>1, MaxIs
<1>9. Max(H(ks) \cup {b.h}) = MaxOf(Max(H(ks)), b.h)
  <2>1. H(ks) \in SUBSET Nat /\ H(ks) # {}
    BY <1>1 DEF Bar
  <2>2. PICK B \in Nat : \A y \in H(ks) : y <= B
    <3>1. g \in Seq(Bar) /\ Len(g) = n
      BY DEF Grows
    <3>2. PICK B \in Nat : \A k \in 1 .. Len(g) : g[k].h <= B
      BY <3>1, HighsBounded DEF HighsUpTo
    <3>3. \A k \in ks : g[k].h <= B
      BY <3>1, <3>2
    <3> QED BY <3>3
  <2> HIDE DEF H
  <2> QED BY <1>4, <2>1, <2>2, MaxAdd
<1>10. Min(L(ks) \cup {b.l}) = MinOf(Min(L(ks)), b.l)
  <2>1. L(ks) \in SUBSET Nat /\ L(ks) # {}
    BY <1>1 DEF Bar
  <2> HIDE DEF L
  <2> QED BY <1>4, <2>1, MinAdd
<1>11. /\ Folded(g, ks).o = g[Min(ks)].o /\ Folded(g, ks).h = Max(H(ks))
       /\ Folded(g, ks).l = Min(L(ks))
  BY DEF Folded
<1>12. Folded(g1, ks1) =
         [o |-> g1[Min(ks1)].o, h |-> Max(H1(ks1)), l |-> Min(L1(ks1)), c |-> g1[Max(ks1)].c]
  BY Zenon DEF Folded
<1>13. g1[Min(ks1)].o = g[Min(ks)].o /\ g1[Max(ks1)] = b
  BY <1>1, <1>5, <1>6, <1>7
<1>14. /\ Max(H1(ks1)) = MaxOf(Folded(g, ks).h, b.h)
       /\ Min(L1(ks1)) = MinOf(Folded(g, ks).l, b.l)
  <2> HIDE DEF H, L, H1, L1, ks1
  <2> QED BY <1>3, <1>9, <1>10, <1>11, Zenon
<1> HIDE DEF H, L, H1, L1, ks1
<1>15. Folded(g1, ks1) =
              [o |-> Folded(g, ks).o, h |-> MaxOf(Folded(g, ks).h, b.h),
               l |-> MinOf(Folded(g, ks).l, b.l), c |-> b.c]
  BY <1>11, <1>12, <1>13, <1>14, Zenon
<1> QED BY <1>15 DEF ks1

(* The candle and the completed candle as operators of the bars g.          *)
CandleOf(g, a) ==
  LET ks == InBucket(g, BucketOf(g[Len(g)].t))
      before == 1 .. Min(ks) - 1
  IN /\ a.candle = Folded(g, ks)
     /\ a.done = IF before = {} \/ Cardinality(ks) > 1 THEN None
                 ELSE Folded(g, InBucket(g, BucketOf(g[Max(before)].t)))

(* A bar of the bucket of the bar before it.                                *)
Widened(a, b) ==
  [a EXCEPT !.done = None,
            !.candle = [o |-> @.o, h |-> MaxOf(@.h, b.h), l |-> MinOf(@.l, b.l), c |-> b.c]]

(* An aggregator that another bar of its bucket reaches.                    *)
Fits(a, g, b, n, key) ==
  /\ n > 0 /\ key = BucketOf(b.t) /\ key = BucketOf(g[n].t) /\ a.key = key
  /\ HasFields(a) /\ a.candle = Folded(g, InBucket(g, key))

(* A bar of the bucket in the making widens its candle.                     *)
LEMMA SameBucket ==
  ASSUME NEW g, NEW b, NEW n, NEW g1, Grows(g, b, n, g1), NEW a, NEW key, Fits(a, g, b, n, key)
  PROVE  CandleOf(g1, Widened(a, b)) /\ HasFields(Widened(a, b)) /\ Widened(a, b).key = key
<1> DEFINE ks == InBucket(g, key)
           ks1 == InBucket(g1, key)
           a1 == Widened(a, b)
           cd == [o |-> a.candle.o, h |-> MaxOf(a.candle.h, b.h), l |-> MinOf(a.candle.l, b.l),
                  c |-> b.c]
<1>z. /\ n > 0 /\ key = BucketOf(b.t) /\ key = BucketOf(g[n].t) /\ a.key = key
      /\ HasFields(a) /\ a.candle = Folded(g, InBucket(g, key))
  BY DEF Fits
<1>0. a1 = [key |-> key, candle |-> cd, done |-> None]
  <2>1. a = [key |-> a.key, candle |-> a.candle, done |-> a.done]
    BY <1>z DEF HasFields
  <2>2. a1 = [a EXCEPT !.done = None, !.candle = cd]
    BY Zenon DEF Widened
  <2> HIDE DEF cd, a1
  <2> QED BY <1>z, <2>1, <2>2
<1>1. /\ n \in Nat /\ Len(g1) = n + 1 /\ g1[n + 1] = b /\ \A i \in 1 .. n : g1[i] = g[i]
      /\ Len(g) = n
  BY DEF Grows
<1>2. ks \in SUBSET (1 .. n) /\ n \in ks
  BY <1>1, <1>z DEF InBucket
<1>3. ks1 = ks \cup {n + 1}
  <2>1. ks1 = {k \in 1 .. n + 1 : BucketOf(g1[k].t) = key}
    BY <1>1 DEF InBucket
  <2>2. ks = {k \in 1 .. n : BucketOf(g1[k].t) = key}
    BY <1>1 DEF InBucket
  <2>3. 1 .. n + 1 = (1 .. n) \cup {n + 1}
    BY <1>1
  <2> HIDE DEF ks, ks1
  <2> QED BY <1>1, <1>z, <2>1, <2>2, <2>3
<1> HIDE DEF ks, ks1
<1>4. Cardinality(ks1) > 1
  <2>1. IsFiniteSet(1 .. n + 1) /\ ks1 \in SUBSET (1 .. n + 1)
    <3>1. 1 \in Int /\ n + 1 \in Int
      BY <1>1
    <3>2. IsFiniteSet(1 .. n + 1)
      BY <3>1, FS_Interval
    <3> QED BY <1>1, <1>2, <1>3, <3>2
  <2>2. IsFiniteSet(ks1) /\ Cardinality(ks1) \in Nat
    BY <2>1, FS_Subset, FS_CardinalityType
  <2>3. {n, n + 1} \subseteq ks1 /\ n # n + 1
    BY <1>1, <1>2, <1>3
  <2>4. Cardinality({n, n + 1}) = 2
    <3>1. IsFiniteSet({n}) /\ Cardinality({n}) = 1 /\ n + 1 \notin {n}
      BY <2>3, FS_Singleton
    <3>2. Cardinality({n} \cup {n + 1}) = 2
      BY <3>1, FS_AddElement
    <3>3. {n} \cup {n + 1} = {n, n + 1}
      OBVIOUS
    <3> QED BY <3>2, <3>3
  <2>5. Cardinality({n, n + 1}) <= Cardinality(ks1)
    BY <2>2, <2>3, FS_Subset
  <2> QED BY <2>2, <2>4, <2>5
<1>5. a1.candle = Folded(g1, ks1) /\ a1.done = None
  <2>1. Folded(g1, ks1) =
              [o |-> Folded(g, ks).o, h |-> MaxOf(Folded(g, ks).h, b.h),
               l |-> MinOf(Folded(g, ks).l, b.l), c |-> b.c]
    BY <1>2, <1>3, FoldStep
  <2>2. a.candle = Folded(g, ks)
    BY <1>z DEF ks
  <2> QED BY <1>0, <2>1, <2>2
<1>a. HasFields(a1) /\ a1.key = key
  <2> HIDE DEF a1, cd
  <2> QED BY <1>0 DEF HasFields
<1> HIDE DEF a1
<1>6. CandleOf(g1, a1)
  <2>1. InBucket(g1, BucketOf(g1[Len(g1)].t)) = ks1
    BY <1>1, <1>z DEF ks1
  <2> QED BY <1>4, <1>5, <2>1, Zenon DEF CandleOf
<1> QED BY <1>6, <1>a DEF a1

(* The first bar of another bucket.                                         *)
LEMMA NextBucket ==
  ASSUME NEW g, NEW b, NEW n, NEW g1, Grows(g, b, n, g1), NEW a, NEW key, key = BucketOf(b.t),
         NEW done,
         \A i \in 1 .. n : BucketOf(g[i].t) # key,
         IF n = 0 THEN done = None
         ELSE done = Folded(g, InBucket(g, BucketOf(g[n].t)))
  PROVE  /\ CandleOf(g1, [key |-> key, candle |-> Ohlc(b), done |-> done])
         /\ Folded(g1, InBucket(g1, key)) = Ohlc(b)
<1> DEFINE ks1 == InBucket(g1, key)
           a1 == [key |-> key, candle |-> Ohlc(b), done |-> done]
<1>1. /\ n \in Nat /\ Len(g1) = n + 1 /\ g1[n + 1] = b /\ \A i \in 1 .. n : g1[i] = g[i]
      /\ Len(g) = n /\ b \in Bar
  BY DEF Grows
<1>2. ks1 = {n + 1}
  BY <1>1 DEF InBucket
<1>3. InBucket(g1, BucketOf(g1[Len(g1)].t)) = ks1
  BY <1>1
<1>4. Min({n + 1}) = n + 1 /\ Max({n + 1}) = n + 1
  <2>1. {n + 1} \in SUBSET Int /\ n + 1 \in {n + 1} /\ \A y \in {n + 1} : y <= n + 1 /\ n + 1 <= y
    BY <1>1
  <2> QED BY <2>1, MinIs, MaxIs
<1>5. Folded(g1, ks1) = Ohlc(b)
  <2>1. b.h \in Int /\ b.l \in Int
    BY <1>1 DEF Bar
  <2>2. Max({b.h}) = b.h /\ Min({b.l}) = b.l
    <3>1. {b.h} \in SUBSET Int /\ b.h \in {b.h} /\ \A y \in {b.h} : y <= b.h
      BY <2>1
    <3>2. {b.l} \in SUBSET Int /\ b.l \in {b.l} /\ \A y \in {b.l} : b.l <= y
      BY <2>1
    <3> QED BY <3>1, <3>2, MinIs, MaxIs
  <2>3. {g1[k].h : k \in {n + 1}} = {b.h} /\ {g1[k].l : k \in {n + 1}} = {b.l}
    BY <1>1
  <2>4. Folded(g1, {n + 1}) = [o |-> b.o, h |-> b.h, l |-> b.l, c |-> b.c]
    <3>1. Folded(g1, {n + 1}) =
            [o |-> g1[Min({n + 1})].o, h |-> Max({g1[k].h : k \in {n + 1}}),
             l |-> Min({g1[k].l : k \in {n + 1}}), c |-> g1[Max({n + 1})].c]
      BY Zenon DEF Folded
    <3> QED BY <1>1, <1>4, <2>2, <2>3, <3>1, Zenon
  <2> HIDE DEF ks1
  <2> QED BY <1>2, <2>4 DEF Ohlc
<1>6. ~(Cardinality(ks1) > 1) /\ 1 .. Min(ks1) - 1 = 1 .. n
  <2>1. Cardinality({n + 1}) = 1
    BY FS_Singleton
  <2>2. 1 .. Min({n + 1}) - 1 = 1 .. n
    BY <1>1, <1>4
  <2> HIDE DEF ks1
  <2> QED BY <1>2, <2>1, <2>2
<1>7. done = IF 1 .. n = {} THEN None
             ELSE Folded(g1, InBucket(g1, BucketOf(g1[Max(1 .. n)].t)))
  <2>1. CASE n = 0
    BY <2>1
  <2>2. CASE n # 0
    <3>1. n \in 1 .. n /\ 1 .. n \in SUBSET Int /\ \A y \in 1 .. n : y <= n
      BY <1>1, <2>2
    <3>2. Max(1 .. n) = n /\ 1 .. n # {}
      BY <3>1, MaxIs
    <3> DEFINE old == BucketOf(g[n].t)
               ks == InBucket(g, old)
    <3>3. BucketOf(g1[n].t) = old /\ old # key
      BY <1>1, <3>1
    <3> HIDE DEF old
    <3>4. InBucket(g1, old) = ks
      BY <1>1, <3>3 DEF InBucket
    <3>5. ks \in SUBSET (1 .. n) /\ ks # {}
      BY <1>1, <3>1 DEF InBucket, old
    <3> HIDE DEF ks
    <3>6. Folded(g1, ks) = Folded(g, ks)
      BY <3>5, FoldSame
    <3>7. done = Folded(g, ks)
      BY <2>2 DEF ks, old
    <3> QED BY <3>2, <3>3, <3>4, <3>6, <3>7
  <2> QED BY <2>1, <2>2
<1>8. a1.candle = Ohlc(b) /\ a1.done = done
  OBVIOUS
<1> HIDE DEF ks1, a1
<1>9. CandleOf(g1, a1)
  BY <1>3, <1>5, <1>6, <1>7, <1>8, Zenon DEF CandleOf
<1> QED BY <1>5, <1>9 DEF ks1, a1

(* A bar outside the last bucket is outside every earlier one.              *)
LEMMA BucketsFollow ==
  ASSUME NEW g \in Seq(Bar), NEW n, n = Len(g), n > 0, NEW b \in Bar,
         \A i, j \in 1 .. n : i < j => g[i].t < g[j].t, g[n].t < b.t,
         BucketOf(b.t) # BucketOf(g[n].t)
  PROVE  \A i \in 1 .. n : BucketOf(g[i].t) # BucketOf(b.t)
<1>0. \A y \in Bar : y.t \in Nat
  BY DEF Bar
<1>1. n \in Nat /\ n \in 1 .. n /\ b.t \in Nat /\ g[n].t \in Nat
  <2>1. n \in Nat /\ n \in 1 .. n /\ g[n] \in Bar
    OBVIOUS
  <2> QED BY <1>0, <2>1
<1>2. SUFFICES ASSUME NEW i \in 1 .. n, BucketOf(g[i].t) = BucketOf(b.t) PROVE FALSE
  OBVIOUS
<1>3. g[i].t \in Nat
  <2>1. g[i] \in Bar
    OBVIOUS
  <2> QED BY <1>0, <2>1
<1>4. g[i].t <= g[n].t
  BY <1>1, <1>3
<1>5. BucketOf(g[n].t) = BucketOf(g[i].t)
  BY <1>1, <1>2, <1>3, <1>4, BucketsConvex
<1> QED BY <1>2, <1>5

(* A bucket starts at a natural time.                                       *)
LEMMA BucketNat ==
  ASSUME NEW t \in Nat
  PROVE  BucketOf(t) \in Nat
<1> DEFINE k == Tf
           q == t \div k
           r == t % k
<1>1. k \in Int /\ k > 0
  BY Constants
<1>2. q \in Nat
  BY <1>1
<1>3. q \in Int /\ r \in Int /\ t = k * q + r
  BY <1>1, Division
<1>4. k * q \in Nat
  <2> HIDE DEF q
  <2> QED BY <1>1, <1>2
<1> DEFINE m == k * q
<1> HIDE DEF r, m
<1>5. m \in Nat /\ r \in Int /\ t = m + r /\ BucketOf(t) = t - r
  BY <1>3, <1>4, Zenon DEF m, r, BucketOf
<1> QED BY <1>5

(* A step keeps the aggregator's invariant.                                 *)
LEMMA CandlesStep ==
  ASSUME StructureInv, AggInv, NEW x \in Shapes, Feed(x)
  PROVE  AggInv'
<1> DEFINE n == Len(hist)
           b == BarOf(x)
           g1 == Append(hist, b)
           key == BucketOf(b.t)
<1>1. HistOK' /\ HistOK
  BY HistStep DEF StructureInv
<1>2. /\ Grows(hist, b, n, g1) /\ hist' = g1 /\ agg' = Aggregate(agg, b) /\ Now = n
      /\ b \in Bar /\ hist \in Seq(Bar)
  BY <1>1, FeedIs DEF HistOK, Now, Feed, Grows
<1> HIDE DEF b
<1>3. /\ n \in Nat /\ Len(g1) = n + 1 /\ g1[n + 1] = b /\ \A i \in 1 .. n : g1[i] = hist[i]
      /\ Now' = n + 1
  BY <1>2 DEF Now
<1>4. \A i, j \in 1 .. n : i < j => hist[i].t < hist[j].t
  BY <1>1, <1>2 DEF HistOK
<1>5. n > 0 => hist[n].t < b.t
  <2>1. \A i, j \in 1 .. n + 1 : i < j => g1[i].t < g1[j].t
    BY <1>1, <1>2, <1>3 DEF HistOK
  <2>2. n > 0 => n \in 1 .. n /\ n \in 1 .. n + 1 /\ n + 1 \in 1 .. n + 1 /\ n < n + 1
    BY <1>3
  <2> HIDE DEF g1, n
  <2> QED BY <1>3, <2>1, <2>2
<1>6. b.t \in Nat /\ key \in Nat
  BY <1>2, BucketNat DEF Bar
<1>7. AggInv' <=> /\ HasFields(agg') /\ agg'.key = key
                  /\ agg'.candle = Folded(g1, InBucket(g1, agg'.key))
                  /\ CandleOf(g1, agg')
  <2>1. CandleIsChart' <=> CandleOf(hist', agg')
    BY Zenon DEF CandleIsChart, CandleOf, BucketBars, InBucket, ChartCandle, Folded, Now
  <2>2. Now' # 0 /\ hist'[Now'] = b /\ hist' = g1
    BY <1>2, <1>3
  <2> HIDE DEF g1
  <2> QED BY <2>1, <2>2 DEF AggInv
<1>8. /\ HasFields(agg)
      /\ n = 0 => agg.key = -1 /\ agg.candle = None
      /\ n > 0 => /\ agg.key = BucketOf(hist[n].t)
                  /\ agg.candle = Folded(hist, InBucket(hist, agg.key))
  BY <1>2, <1>3 DEF AggInv
<1> HIDE DEF n, g1, key
<1>9. CASE key = agg.key
  <2>1. n > 0
    BY <1>3, <1>6, <1>8, <1>9
  <2> DEFINE a1 == Widened(agg, b)
  <2>2. agg' = a1
    BY <1>2, <1>9, Zenon DEF Aggregate, key, Widened
  <2>3. CandleOf(g1, a1) /\ HasFields(a1) /\ a1.key = key
    <3>1. Fits(agg, hist, b, n, key)
      BY <1>8, <1>9, <2>1 DEF key, Fits
    <3> QED BY <1>2, <3>1, SameBucket
  <2> HIDE DEF a1
  <2>5. a1.candle = Folded(g1, InBucket(g1, BucketOf(g1[Len(g1)].t)))
    BY <2>3 DEF CandleOf
  <2> QED BY <1>3, <1>7, <2>2, <2>3, <2>5 DEF key
<1>10. CASE key # agg.key
  <2> DEFINE a1 == [key |-> key, candle |-> Ohlc(b), done |-> agg.candle]
             done == agg.candle
  <2>1. agg' = a1
    BY <1>2, <1>10, Zenon DEF Aggregate, key
  <2>2. \A i \in 1 .. n : BucketOf(hist[i].t) # key
    <3>1. CASE n = 0
      BY <3>1
    <3>2. CASE n > 0
      BY <1>2, <1>4, <1>5, <1>8, <1>10, <3>2, BucketsFollow DEF key, n
    <3> QED BY <1>3, <3>1, <3>2
  <2>3. IF n = 0 THEN done = None
        ELSE done = Folded(hist, InBucket(hist, BucketOf(hist[n].t)))
    BY <1>3, <1>8
  <2> HIDE DEF done
  <2>4. /\ CandleOf(g1, [key |-> key, candle |-> Ohlc(b), done |-> done])
        /\ Folded(g1, InBucket(g1, key)) = Ohlc(b)
    BY <1>2, <2>2, <2>3, NextBucket DEF key
  <2>5. HasFields(a1) /\ a1.key = key /\ a1.candle = Ohlc(b)
    BY DEF HasFields
  <2>6. CandleOf(g1, a1)
    BY <2>4 DEF done
  <2> HIDE DEF a1
  <2> QED BY <1>7, <2>1, <2>4, <2>5, <2>6
<1> QED BY <1>9, <1>10

(* TimeframeAggregator.update: the candle in the making is the fold of      *)
(* exactly the bars of its bucket, and a bar completes the candle before    *)
(* exactly when it is the first of its own, for every timeframe, every bars *)
(* and every gap between them.                                              *)
THEOREM CandlesFollowChart == FeedSpec => [](Now > 0 => CandleIsChart)
<1> DEFINE I == StructureInv /\ AggInv
<1>1. FeedInit => I
  <2>1. ASSUME FeedInit PROVE AggInv
    BY <2>1 DEF FeedInit, AggInv, Now, NewAggregator, HasFields
  <2> QED BY <2>1, StructureInit
<1>2. I /\ [FeedNext]_feedVars => I'
  <2>1. ASSUME I, NEW x \in Shapes, Feed(x) PROVE I'
    BY <2>1, StructureInvStep, CandlesStep
  <2>2. ASSUME I, UNCHANGED feedVars PROVE I'
    <3>1. AggInv' = AggInv
      BY <2>2, Zenon DEF feedVars, AggInv, Now, CandleIsChart, BucketBars, ChartCandle
    <3> QED BY <2>2, <3>1, StructureStutters
  <2> QED BY <2>1, <2>2 DEF FeedNext
<1>3. I => (Now > 0 => CandleIsChart)
  BY DEF AggInv, StructureInv, HistOK, Now
<1> QED BY <1>1, <1>2, <1>3, PTL DEF FeedSpec

-----------------------------------------------------------------------------
(* The clock: dates, times of day and the cycles of the quarters.           *)
DateOf(t) == t \div Day
Minute == 0 .. Day - 1

(* A time is a date and a time of day.                                      *)
LEMMA Dates ==
  ASSUME NEW t \in Nat
  PROVE  /\ TimeOfDay(t) \in Minute /\ DateOf(t) \in Nat
         /\ t = 1440 * (DateOf(t)) + TimeOfDay(t)
BY DEF DateOf, TimeOfDay, Day, Minute

(* A time of day is a natural number.                                       *)
LEMMA MinutesAre == \A m \in Minute : m \in Nat
BY DEF Minute, Day

(* Later times have later dates, or later times of day on the same.         *)
LEMMA DatesGrow ==
  ASSUME NEW s \in Nat, NEW t \in Nat, s < t
  PROVE  /\ DateOf(s) <= DateOf(t)
         /\ DateOf(s) = DateOf(t) => TimeOfDay(s) < TimeOfDay(t)
BY DEF DateOf, TimeOfDay, Day, Minute

(* A slot lies between two bars when the later one is past it and the      *)
(* earlier one, if it is of the same date, is not.                         *)
LEMMA CrossedPair ==
  ASSUME NEW s \in Nat, NEW t \in Nat, s < t, NEW slot \in Minute
  PROVE  Crossed(s, t, slot) <=>
           /\ TimeOfDay(t) >= slot
           /\ DateOf(s) = DateOf(t) => TimeOfDay(s) < slot
BY DEF Crossed, DateOf, TimeOfDay, Day, Minute

(* The first bar of all crosses a slot only on time.                        *)
LEMMA CrossedFirst ==
  ASSUME NEW t \in Nat, NEW slot \in Minute
  PROVE  Crossed(t - 1, t, slot) <=> TimeOfDay(t) = slot
BY DEF Crossed, DateOf, TimeOfDay, Day, Minute

(* New York time follows the time of the bars.                              *)
LEMMA NyGrows ==
  ASSUME NEW b, NEW c, b.t \in Nat, c.t \in Nat
  PROVE  Ny(b) \in Nat /\ (b.t < c.t => Ny(b) < Ny(c))
<1>1. NyStart \in Nat /\ NyStep \in Nat /\ NyStep >= 1
  BY NyAssumption
<1>2. NyStep * b.t \in Nat /\ NyStep * c.t \in Nat
  BY <1>1
<1>3. ASSUME b.t < c.t PROVE NyStep * b.t < NyStep * c.t
  <2> DEFINE s == b.t
             t == c.t
  <2> HIDE DEF s, t
  <2>1. s \in Nat /\ t \in Nat /\ s < t
    BY <1>3 DEF s, t
  <2>2. PICK j \in Nat : t = s + 1 + j
    <3>1. t - s - 1 \in Nat /\ t = s + 1 + (t - s - 1)
      BY <2>1
    <3> QED BY <3>1
  <2>3. NyStep * t = NyStep * s + NyStep + NyStep * j /\ NyStep * j \in Nat
    BY <1>1, <2>1, <2>2
  <2>4. NyStep * s < NyStep * t
    BY <1>1, <2>1, <2>3
  <2> QED BY <2>4 DEF s, t
<1>4. Ny(b) = NyStart + NyStep * b.t /\ Ny(c) = NyStart + NyStep * c.t
  BY DEF Ny
<1> QED BY <1>1, <1>2, <1>3, <1>4

(* The bars of g whose open is a level, and the level after n of them.      *)
Ticks(g, n) == \A i \in 1 .. n : /\ Ny(g[i]) \in Nat /\ g[i].o \in Nat
                                 /\ \A j \in 1 .. n : i < j => Ny(g[i]) < Ny(g[j])
OpensOn(g, k, slot) ==
  /\ IF k = 1 THEN TimeOfDay(Ny(g[k])) = slot ELSE TimeOfDay(Ny(g[k])) >= slot
  /\ \A j \in 1 .. k - 1 :
       DateOf(Ny(g[j])) = DateOf(Ny(g[k])) => TimeOfDay(Ny(g[j])) < slot
OpensIn(g, k, slots, date) ==
  (date = "monday" => Weekday(Ny(g[k])) = 0) /\ \E s \in slots : OpensOn(g, k, s)
Hits(g, slots, date, n) == {k \in 1 .. n : OpensIn(g, k, slots, date)}
LevelOf(g, slots, date, n) ==
  IF Hits(g, slots, date, n) = {} THEN Unset ELSE g[Max(Hits(g, slots, date, n))].o

(* The time TrueOpenTracker compares bar k with.                            *)
Before(g, k) == IF k = 1 THEN Ny(g[k]) - 1 ELSE Ny(g[k - 1])

(* Comparing with the bar before finds the first bar of a date past a slot, *)
(* whatever bars are missing.                                               *)
LEMMA CrossedIs ==
  ASSUME NEW n \in Nat, NEW g, Ticks(g, n), NEW k \in 1 .. n, NEW slot \in Minute
  PROVE  Crossed(Before(g, k), Ny(g[k]), slot) <=> OpensOn(g, k, slot)
<1>1. Ny(g[k]) \in Nat
  BY DEF Ticks
<1>2. CASE k = 1
  <2>1. 1 .. k - 1 = {}
    BY <1>2
  <2> DEFINE t == Ny(g[k])
  <2>2. Before(g, k) = t - 1 /\ (OpensOn(g, k, slot) <=> TimeOfDay(t) = slot)
    BY <1>2, <2>1 DEF Before, OpensOn
  <2> HIDE DEF t
  <2>3. Crossed(t - 1, t, slot) <=> TimeOfDay(t) = slot
    BY <1>1, CrossedFirst, Zenon DEF t
  <2> QED BY <2>2, <2>3 DEF t
<1>3. CASE k # 1
  <2>1. k - 1 \in 1 .. n /\ k - 1 < k /\ k - 1 \in 1 .. k - 1
    BY <1>3
  <2> DEFINE s == Ny(g[k - 1])
             t == Ny(g[k])
  <2>2. s \in Nat /\ t \in Nat /\ s < t
    BY <2>1 DEF Ticks
  <2>3. Crossed(s, t, slot) <=>
           /\ TimeOfDay(t) >= slot
           /\ DateOf(s) = DateOf(t) => TimeOfDay(s) < slot
    <3> HIDE DEF s, t
    <3> QED BY <2>2, CrossedPair, Zenon
  <2>4. ASSUME NEW j \in 1 .. k - 1, DateOf(Ny(g[j])) = DateOf(t)
        PROVE  DateOf(s) = DateOf(t) /\ TimeOfDay(Ny(g[j])) <= TimeOfDay(s)
    <3>1. j \in 1 .. n /\ (j = k - 1 \/ j < k - 1)
      BY <2>1
    <3> DEFINE u == Ny(g[j])
    <3>2. u \in Nat /\ (u = s \/ u < s)
      BY <2>1, <3>1 DEF Ticks
    <3> HIDE DEF u, s, t
    <3>3. DateOf(u) = DateOf(t)
      BY <2>4 DEF u
    <3>4. /\ DateOf(u) \in Nat /\ DateOf(s) \in Nat /\ DateOf(t) \in Nat
          /\ DateOf(s) <= DateOf(t)
          /\ TimeOfDay(u) \in Minute /\ TimeOfDay(s) \in Minute
      BY <2>2, <3>2, Dates, DatesGrow
    <3>5. CASE u = s
      BY <3>3, <3>4, <3>5, MinutesAre DEF u
    <3>6. CASE u < s
      <4>1. /\ DateOf(u) <= DateOf(s)
            /\ DateOf(u) = DateOf(s) => TimeOfDay(u) < TimeOfDay(s)
        BY <2>2, <3>2, <3>6, DatesGrow, Zenon
      <4>2. DateOf(s) = DateOf(t) /\ TimeOfDay(u) <= TimeOfDay(s)
        BY <3>3, <3>4, <4>1, MinutesAre
      <4> QED BY <4>2 DEF u
    <3> QED BY <3>2, <3>5, <3>6
  <2>5. (DateOf(s) = DateOf(t) => TimeOfDay(s) < slot) <=>
        \A j \in 1 .. k - 1 : DateOf(Ny(g[j])) = DateOf(t) => TimeOfDay(Ny(g[j])) < slot
    <3>1. ASSUME DateOf(s) = DateOf(t) => TimeOfDay(s) < slot,
                 NEW j \in 1 .. k - 1, DateOf(Ny(g[j])) = DateOf(t)
          PROVE  TimeOfDay(Ny(g[j])) < slot
      <4> DEFINE u == Ny(g[j])
      <4>1. u \in Nat
        <5>1. j \in 1 .. n
          BY <2>1
        <5> QED BY <5>1 DEF Ticks
      <4>3. TimeOfDay(u) <= TimeOfDay(s) /\ TimeOfDay(s) < slot
        BY <2>4, <3>1
      <4> HIDE DEF u, s
      <4>2. TimeOfDay(u) \in Minute /\ TimeOfDay(s) \in Minute
        BY <2>2, <4>1, Dates
      <4>4. TimeOfDay(u) < slot
        BY <4>2, <4>3, MinutesAre
      <4> QED BY <4>4 DEF u
    <3> QED BY <2>1, <3>1
  <2>6. Before(g, k) = s
    BY <1>3 DEF Before
  <2> QED BY <1>3, <2>3, <2>5, <2>6 DEF OpensOn
<1> QED BY <1>2, <1>3

(* Two histories with the same first n bars.                                *)
SameBars(n, g, g1) == \A i \in 1 .. n : g1[i] = g[i]

(* One more bar: the level is its open if it is the first past a slot.      *)
LEMMA LevelStep ==
  ASSUME NEW n \in Nat, NEW g, NEW g1, SameBars(n, g, g1), NEW slots, NEW date
  PROVE  LevelOf(g1, slots, date, n + 1) =
           IF OpensIn(g1, n + 1, slots, date) THEN g1[n + 1].o
           ELSE LevelOf(g, slots, date, n)
<1> DEFINE H == Hits(g, slots, date, n)
           H1 == Hits(g1, slots, date, n + 1)
<1>0. \A i \in 1 .. n : g1[i] = g[i]
  BY DEF SameBars
<1>1. \A k \in 1 .. n : \A s : OpensOn(g1, k, s) <=> OpensOn(g, k, s)
  <2> TAKE k \in 1 .. n
  <2>1. \A j \in 1 .. k - 1 : j \in 1 .. n
    OBVIOUS
  <2> QED BY <1>0, <2>1 DEF OpensOn
<1>2. \A k \in 1 .. n : OpensIn(g1, k, slots, date) <=> OpensIn(g, k, slots, date)
  BY <1>0, <1>1 DEF OpensIn
<1>3. H1 = H \cup (IF OpensIn(g1, n + 1, slots, date) THEN {n + 1} ELSE {})
  <2>1. 1 .. n + 1 = (1 .. n) \cup {n + 1}
    OBVIOUS
  <2> QED BY <1>2, <2>1 DEF Hits
<1>4. H \in SUBSET (1 .. n)
  BY DEF Hits
<1>5. CASE OpensIn(g1, n + 1, slots, date)
  <2>1. H1 \in SUBSET Int /\ n + 1 \in H1 /\ \A y \in H1 : y <= n + 1
    BY <1>3, <1>4, <1>5
  <2> HIDE DEF H1
  <2>2. Max(H1) = n + 1
    BY <2>1, MaxIs
  <2> QED BY <1>5, <2>1, <2>2 DEF LevelOf, H1
<1>6. CASE ~OpensIn(g1, n + 1, slots, date)
  <2>1. H1 = H
    BY <1>3, <1>6
  <2>2. H # {} => Max(H) \in H
    <3>1. H \in SUBSET Nat /\ \A y \in H : y <= n
      BY <1>4
    <3> HIDE DEF H
    <3> QED BY <3>1, MaxOfSet
  <2>3. H # {} => g1[Max(H)] = g[Max(H)]
    BY <1>0, <1>4, <2>2
  <2> HIDE DEF H, H1
  <2>4. /\ LevelOf(g1, slots, date, n + 1) = IF H1 = {} THEN Unset ELSE g1[Max(H1)].o
        /\ LevelOf(g, slots, date, n) = IF H = {} THEN Unset ELSE g[Max(H)].o
    BY Zenon DEF LevelOf, H, H1
  <2> QED BY <1>6, <2>1, <2>3, <2>4
<1> QED BY <1>5, <1>6

(* Every slot is a time of day.                                             *)
LEMMA SlotsAre ==
  {0} \in SUBSET Minute /\ SessionSlots \in SUBSET Minute /\ CycleSlots \in SUBSET Minute
  /\ {WeekSlot} \in SUBSET Minute
BY DEF Minute, Day, SessionSlots, CycleSlots, WeekSlot

(* TrueOpenTracker finds a slot crossed on exactly such a bar.              *)
LEMMA HitIs ==
  ASSUME NEW n \in Nat, NEW g, Ticks(g, n), NEW k \in 1 .. n, NEW slots \in SUBSET Minute
  PROVE  {x \in slots : Crossed(Before(g, k), Ny(g[k]), x)} # {} <=>
           \E s \in slots : OpensOn(g, k, s)
<1>1. \A x \in slots : Crossed(Before(g, k), Ny(g[k]), x) <=> OpensOn(g, k, x)
  BY CrossedIs
<1> QED BY <1>1

(* What TrueOpenTracker holds after the first n bars of g.                  *)
OpensAre(o, g, n) ==
  /\ o.prev = IF n = 0 THEN Unset ELSE Ny(g[n])
  /\ o.tdo = LevelOf(g, {0}, "any", n) /\ o.session = LevelOf(g, SessionSlots, "any", n)
  /\ o.cycle = LevelOf(g, CycleSlots, "any", n) /\ o.week = LevelOf(g, {WeekSlot}, "monday", n)

(* TrueOpenTracker.update keeps the levels of the history.                  *)
LEMMA OpensStep ==
  ASSUME NEW n \in Nat, NEW g, NEW g1, SameBars(n, g, g1), Ticks(g1, n + 1),
         NEW o, OpensAre(o, g, n), NEW ny, ny = Ny(g1[n + 1])
  PROVE  OpensAre(UpdateOpens(o, ny, g1[n + 1].o), g1, n + 1)
<1> DEFINE N == n + 1
           op == g1[N].o
           prev == IF o.prev = Unset THEN ny - 1 ELSE o.prev
           hit(slots) == {x \in slots : Crossed(prev, ny, x)}
           o1 == UpdateOpens(o, ny, op)
<1>1. N \in Nat /\ N \in 1 .. N /\ N # 0
  OBVIOUS
<1>2. prev = Before(g1, N)
  <2>1. CASE n = 0
    <3>1. o.prev = Unset /\ N = 1
      BY <2>1 DEF OpensAre
    <3> QED BY <3>1 DEF Before
  <2>2. CASE n # 0
    <3>1. o.prev = Ny(g[n]) /\ n \in 1 .. n /\ n \in 1 .. N /\ N - 1 = n /\ N # 1
      BY <2>2 DEF OpensAre
    <3>2. Ny(g1[n]) \in Nat /\ g1[n] = g[n]
      BY <3>1 DEF Ticks, SameBars
    <3>3. o.prev \in Nat /\ o.prev # Unset /\ o.prev = Ny(g1[N - 1])
      BY <3>1, <3>2 DEF Unset
    <3> QED BY <3>1, <3>3 DEF Before
  <2> QED BY <2>1, <2>2
<1>3. ASSUME NEW slots \in SUBSET Minute
      PROVE  hit(slots) # {} <=> \E s \in slots : OpensOn(g1, N, s)
  <2> HIDE DEF prev, N
  <2> QED BY <1>1, <1>2, HitIs DEF N
<1>4. ASSUME NEW slots, NEW date
      PROVE  LevelOf(g1, slots, date, N) =
               IF OpensIn(g1, N, slots, date) THEN op ELSE LevelOf(g, slots, date, n)
  BY LevelStep
<1>5. o1 = [prev |-> ny,
            tdo |-> IF hit({0}) # {} THEN op ELSE o.tdo,
            session |-> IF hit(SessionSlots) # {} THEN op ELSE o.session,
            name |-> IF hit(SessionSlots) # {} THEN Max(hit(SessionSlots)) ELSE o.name,
            cycle |-> IF hit(CycleSlots) # {} THEN op ELSE o.cycle,
            week |-> IF Weekday(ny) = 0
                     THEN IF hit({WeekSlot}) # {} THEN op ELSE o.week ELSE o.week]
  BY Zenon DEF UpdateOpens
<1> HIDE DEF hit, prev, op, o1, N
<1>6. ASSUME NEW slots \in SUBSET Minute
      PROVE  LevelOf(g1, slots, "any", N) =
               IF hit(slots) # {} THEN op ELSE LevelOf(g, slots, "any", n)
  BY <1>3, <1>4 DEF OpensIn
<1>7. LevelOf(g1, {WeekSlot}, "monday", N) =
        IF Weekday(ny) = 0
        THEN IF hit({WeekSlot}) # {} THEN op ELSE LevelOf(g, {WeekSlot}, "monday", n)
        ELSE LevelOf(g, {WeekSlot}, "monday", n)
  <2>1. OpensIn(g1, N, {WeekSlot}, "monday") <=> Weekday(ny) = 0 /\ hit({WeekSlot}) # {}
    <3>1. ny = Ny(g1[N])
      BY DEF N
    <3>2. hit({WeekSlot}) # {} <=> \E s \in {WeekSlot} : OpensOn(g1, N, s)
      BY <1>3, SlotsAre
    <3> QED BY <3>1, <3>2 DEF OpensIn
  <2> QED BY <1>4, <2>1
<1>8. /\ o1.tdo = LevelOf(g1, {0}, "any", N) /\ o1.session = LevelOf(g1, SessionSlots, "any", N)
      /\ o1.cycle = LevelOf(g1, CycleSlots, "any", N)
      /\ o1.week = LevelOf(g1, {WeekSlot}, "monday", N)
  <2>1. /\ o.tdo = LevelOf(g, {0}, "any", n) /\ o.session = LevelOf(g, SessionSlots, "any", n)
        /\ o.cycle = LevelOf(g, CycleSlots, "any", n)
        /\ o.week = LevelOf(g, {WeekSlot}, "monday", n)
    BY DEF OpensAre
  <2>2. /\ o1.tdo = IF hit({0}) # {} THEN op ELSE o.tdo
        /\ o1.session = IF hit(SessionSlots) # {} THEN op ELSE o.session
        /\ o1.cycle = IF hit(CycleSlots) # {} THEN op ELSE o.cycle
        /\ o1.week = IF Weekday(ny) = 0
                     THEN IF hit({WeekSlot}) # {} THEN op ELSE o.week ELSE o.week
    BY <1>5
  <2>3. /\ LevelOf(g1, {0}, "any", N) = IF hit({0}) # {} THEN op ELSE LevelOf(g, {0}, "any", n)
        /\ LevelOf(g1, SessionSlots, "any", N) =
             IF hit(SessionSlots) # {} THEN op ELSE LevelOf(g, SessionSlots, "any", n)
        /\ LevelOf(g1, CycleSlots, "any", N) =
             IF hit(CycleSlots) # {} THEN op ELSE LevelOf(g, CycleSlots, "any", n)
    BY <1>6, SlotsAre
  <2> QED BY <1>7, <2>1, <2>2, <2>3
<1>9. o1.prev = Ny(g1[N])
  BY <1>5 DEF N
<1>10. OpensAre(o1, g1, N)
  BY <1>1, <1>8, <1>9 DEF OpensAre
<1> QED BY <1>10 DEF o1, N, op

(* The levels of the chart.                                                 *)
LEMMA ChartOpens ==
  ASSUME NEW slots, NEW last
  PROVE  /\ ChartOpen(slots, AnyDay, last) = LevelOf(hist, slots, "any", last)
         /\ ChartOpen(slots, Monday, last) = LevelOf(hist, slots, "monday", last)
<1>1. \A k, s : OpensAt(k, s) <=> OpensOn(hist, k, s)
  BY DEF OpensAt, OpensOn, OnDate, DateOf
<1>2. {k \in 1 .. last : AnyDay(Ny(hist[k])) /\ \E s \in slots : OpensAt(k, s)} =
        Hits(hist, slots, "any", last)
  BY <1>1 DEF AnyDay, Hits, OpensIn
<1>3. {k \in 1 .. last : Monday(Ny(hist[k])) /\ \E s \in slots : OpensAt(k, s)} =
        Hits(hist, slots, "monday", last)
  BY <1>1 DEF Monday, Hits, OpensIn
<1> QED BY <1>2, <1>3, Zenon DEF ChartOpen, LevelOf

(* The second quarter of a day begins at the day's true open, that of a     *)
(* session, except in the evening, at the session's.                        *)
LEMMA DayQuarters ==
  ASSUME NEW s \in Nat, NEW t \in Nat, s < t
  PROVE  /\ DayCycle(t) = DayCycle(s) /\ DayQuarter(s) > 1 =>
              DayQuarter(t) > 1 /\ ~Crossed(s, t, 0)
         /\ DayQuarter(t) > 1 /\ ~(DayCycle(t) = DayCycle(s) /\ DayQuarter(s) > 1) =>
              Crossed(s, t, 0)
BY DEF DayCycle, DayQuarter, Crossed, TimeOfDay, Day, Session

(* The same for the sessions of the day, the evening apart.                 *)
LEMMA M90Quarters ==
  ASSUME NEW s \in Nat, NEW t \in Nat, s < t
  PROVE  /\ M90Cycle(t) = M90Cycle(s) /\ M90Quarter(s) > 1 =>
              M90Quarter(t) > 1 /\ \A x \in SessionSlots : ~Crossed(s, t, x)
         /\ M90Quarter(t) > 1 /\ M90Cycle(t) % 4 # 3
              /\ ~(M90Cycle(t) = M90Cycle(s) /\ M90Quarter(s) > 1) =>
              \E x \in SessionSlots : Crossed(s, t, x)
<1>1. ASSUME M90Cycle(t) = M90Cycle(s), M90Quarter(s) > 1
      PROVE  M90Quarter(t) > 1
  BY <1>1 DEF M90Cycle, M90Quarter, Session
<1>2. ASSUME M90Cycle(t) = M90Cycle(s), M90Quarter(s) > 1
      PROVE  ~Crossed(s, t, 90) /\ ~Crossed(s, t, 450) /\ ~Crossed(s, t, 810)
  BY <1>2 DEF M90Cycle, M90Quarter, Crossed, TimeOfDay, Day, Session
<1>3. ASSUME M90Quarter(t) > 1, M90Cycle(t) % 4 # 3,
             ~(M90Cycle(t) = M90Cycle(s) /\ M90Quarter(s) > 1)
      PROVE  Crossed(s, t, 90) \/ Crossed(s, t, 450) \/ Crossed(s, t, 810)
  BY <1>3 DEF M90Cycle, M90Quarter, Crossed, TimeOfDay, Day, Session
<1> QED BY <1>1, <1>2, <1>3 DEF SessionSlots

(* Cycles are numbered from 0, their quarters from 1 to 4.                  *)
LEMMA CyclesAre ==
  ASSUME NEW t \in Nat
  PROVE  /\ DayCycle(t) \in Nat /\ M90Cycle(t) \in Nat
         /\ DayQuarter(t) \in 1 .. 4 /\ M90Quarter(t) \in 1 .. 4
BY DEF DayCycle, M90Cycle, DayQuarter, M90Quarter, Day, Session

(* What QuarterTracker holds after a bar at ny.                             *)
QuartersAre(q, ny) ==
  /\ q.dayId = DayCycle(ny) /\ q.m90Id = M90Cycle(ny)
  /\ q.dayQ2 # Unset <=> DayQuarter(ny) > 1
  /\ q.m90Q2 # Unset <=> M90Quarter(ny) > 1
TrackersAgree(o, q) ==
  /\ Unset \notin {o.tdo, q.dayQ2} => o.tdo = q.dayQ2
  /\ q.m90Id % 4 # 3 /\ Unset \notin {o.session, q.m90Q2} => o.session = q.m90Q2

(* What one bar does to the two trackers.                                   *)
LEMMA UpdatesAre ==
  ASSUME NEW o, NEW q, NEW t, NEW op, NEW prev, prev = IF o.prev = Unset THEN t - 1 ELSE o.prev
  PROVE  /\ UpdateOpens(o, t, op).tdo = IF Crossed(prev, t, 0) THEN op ELSE o.tdo
         /\ UpdateOpens(o, t, op).session =
              IF \E x \in SessionSlots : Crossed(prev, t, x) THEN op ELSE o.session
         /\ UpdateQuarters(q, t, op).dayId = DayCycle(t)
         /\ UpdateQuarters(q, t, op).m90Id = M90Cycle(t)
         /\ UpdateQuarters(q, t, op).dayQ2 =
              Q2Open(q.dayQ2, DayCycle(t) = q.dayId, DayQuarter(t), op)
         /\ UpdateQuarters(q, t, op).m90Q2 =
              Q2Open(q.m90Q2, M90Cycle(t) = q.m90Id, M90Quarter(t), op)
<1>1. {x \in {0} : Crossed(prev, t, x)} # {} <=> Crossed(prev, t, 0)
  OBVIOUS
<1>2. {x \in SessionSlots : Crossed(prev, t, x)} # {} <=>
        \E x \in SessionSlots : Crossed(prev, t, x)
  OBVIOUS
<1>3. /\ UpdateOpens(o, t, op).tdo =
           IF {x \in {0} : Crossed(prev, t, x)} # {} THEN op ELSE o.tdo
      /\ UpdateOpens(o, t, op).session =
           IF {x \in SessionSlots : Crossed(prev, t, x)} # {} THEN op ELSE o.session
  BY DEF UpdateOpens
<1>4. /\ UpdateQuarters(q, t, op).dayId = DayCycle(t)
      /\ UpdateQuarters(q, t, op).m90Id = M90Cycle(t)
      /\ UpdateQuarters(q, t, op).dayQ2 =
              Q2Open(q.dayQ2, DayCycle(t) = q.dayId, DayQuarter(t), op)
      /\ UpdateQuarters(q, t, op).m90Q2 =
              Q2Open(q.m90Q2, M90Cycle(t) = q.m90Id, M90Quarter(t), op)
  BY DEF UpdateQuarters
<1> QED BY <1>1, <1>2, <1>3, <1>4

(* The trackers still agree after a later bar.                              *)
LEMMA QuartersStep ==
  ASSUME NEW s \in Nat, NEW t \in Nat, s < t, NEW op \in Nat, NEW o, NEW q,
         o.prev = s, QuartersAre(q, s), TrackersAgree(o, q)
  PROVE  /\ QuartersAre(UpdateQuarters(q, t, op), t)
         /\ TrackersAgree(UpdateOpens(o, t, op), UpdateQuarters(q, t, op))
<1> DEFINE o1 == UpdateOpens(o, t, op)
           q1 == UpdateQuarters(q, t, op)
           sameDay == DayCycle(t) = DayCycle(s)
           sameM90 == M90Cycle(t) = M90Cycle(s)
           any == \E x \in SessionSlots : Crossed(s, t, x)
<1>1. s = IF o.prev = Unset THEN t - 1 ELSE o.prev
  BY DEF Unset
<1>2. /\ o1.tdo = IF Crossed(s, t, 0) THEN op ELSE o.tdo
      /\ o1.session = IF any THEN op ELSE o.session
      /\ q1.dayId = DayCycle(t) /\ q1.m90Id = M90Cycle(t)
      /\ q1.dayQ2 = Q2Open(q.dayQ2, DayCycle(t) = q.dayId, DayQuarter(t), op)
      /\ q1.m90Q2 = Q2Open(q.m90Q2, M90Cycle(t) = q.m90Id, M90Quarter(t), op)
  BY <1>1, UpdatesAre
<1>3. /\ q.dayId = DayCycle(s) /\ q.m90Id = M90Cycle(s)
      /\ q.dayQ2 # Unset <=> DayQuarter(s) > 1
      /\ q.m90Q2 # Unset <=> M90Quarter(s) > 1
  BY DEF QuartersAre
<1>4. op # Unset
  BY DEF Unset
<1> HIDE DEF o1, q1, any
<1>5. /\ q1.dayQ2 = IF sameDay /\ DayQuarter(s) > 1 THEN q.dayQ2
                    ELSE IF DayQuarter(t) > 1 THEN op ELSE Unset
      /\ q1.m90Q2 = IF sameM90 /\ M90Quarter(s) > 1 THEN q.m90Q2
                    ELSE IF M90Quarter(t) > 1 THEN op ELSE Unset
  BY <1>2, <1>3 DEF Q2Open
<1>6. /\ sameDay /\ DayQuarter(s) > 1 => DayQuarter(t) > 1 /\ ~Crossed(s, t, 0)
      /\ DayQuarter(t) > 1 /\ ~(sameDay /\ DayQuarter(s) > 1) => Crossed(s, t, 0)
  BY DayQuarters
<1>7. /\ sameM90 /\ M90Quarter(s) > 1 => M90Quarter(t) > 1 /\ ~any
      /\ M90Quarter(t) > 1 /\ M90Cycle(t) % 4 # 3 /\ ~(sameM90 /\ M90Quarter(s) > 1) => any
  BY M90Quarters DEF any
<1>8. QuartersAre(q1, t)
  BY <1>2, <1>3, <1>4, <1>5, <1>6, <1>7 DEF QuartersAre
<1>9. o1.tdo # Unset /\ q1.dayQ2 # Unset => o1.tdo = q1.dayQ2
  <2>1. o.tdo # Unset /\ q.dayQ2 # Unset => o.tdo = q.dayQ2
    BY DEF TrackersAgree
  <2> QED BY <1>2, <1>3, <1>5, <1>6, <2>1
<1>10. q1.m90Id % 4 # 3 /\ o1.session # Unset /\ q1.m90Q2 # Unset => o1.session = q1.m90Q2
  <2>1. q.m90Id % 4 # 3 /\ o.session # Unset /\ q.m90Q2 # Unset => o.session = q.m90Q2
    BY DEF TrackersAgree
  <2>2. CASE sameM90 /\ M90Quarter(s) > 1
    BY <1>2, <1>3, <1>5, <1>7, <2>1, <2>2
  <2>3. CASE ~(sameM90 /\ M90Quarter(s) > 1)
    BY <1>2, <1>5, <1>7, <2>3
  <2> QED BY <2>2, <2>3
<1>11. TrackersAgree(o1, q1)
  BY <1>9, <1>10 DEF TrackersAgree
<1> QED BY <1>8, <1>11 DEF o1, q1

(* The trackers agree after the first bar.                                  *)
LEMMA QuartersFirst ==
  ASSUME NEW t \in Nat, NEW op \in Nat, NEW o, NEW q, o = NewOpens, q = NewQuarters
  PROVE  /\ QuartersAre(UpdateQuarters(q, t, op), t)
         /\ TrackersAgree(UpdateOpens(o, t, op), UpdateQuarters(q, t, op))
<1> DEFINE o1 == UpdateOpens(o, t, op)
           q1 == UpdateQuarters(q, t, op)
           any == \E x \in SessionSlots : Crossed(t - 1, t, x)
<1>1. /\ o.prev = Unset /\ o.tdo = Unset /\ o.session = Unset
      /\ q.dayId = Unset /\ q.m90Id = Unset /\ q.dayQ2 = Unset /\ q.m90Q2 = Unset
  BY DEF NewOpens, NewQuarters
<1>2. t - 1 = IF o.prev = Unset THEN t - 1 ELSE o.prev
  BY <1>1
<1>3. /\ o1.tdo = IF Crossed(t - 1, t, 0) THEN op ELSE o.tdo
      /\ o1.session = IF any THEN op ELSE o.session
      /\ q1.dayId = DayCycle(t) /\ q1.m90Id = M90Cycle(t)
      /\ q1.dayQ2 = Q2Open(q.dayQ2, DayCycle(t) = q.dayId, DayQuarter(t), op)
      /\ q1.m90Q2 = Q2Open(q.m90Q2, M90Cycle(t) = q.m90Id, M90Quarter(t), op)
  BY <1>2, UpdatesAre
<1> HIDE DEF o1, q1, any
<1>4. /\ q1.dayQ2 = IF DayQuarter(t) > 1 THEN op ELSE Unset
      /\ q1.m90Q2 = IF M90Quarter(t) > 1 THEN op ELSE Unset
  BY <1>1, <1>3 DEF Q2Open
<1>5. op # Unset
  BY DEF Unset
<1>6. QuartersAre(q1, t)
  BY <1>3, <1>4, <1>5 DEF QuartersAre
<1>7. TrackersAgree(o1, q1)
  BY <1>1, <1>3, <1>4 DEF TrackersAgree
<1> QED BY <1>6, <1>7 DEF o1, q1

(* Above or below every open, the bias and the day's value zone say so too. *)
LEMMA ZonesAgree ==
  ASSUME NEW o, NEW q, TrackersAgree(o, q), NEW c \in Int, NEW z, z = q.dayQ2,
         o.tdo \in Int, o.session \in Int
  PROVE  /\ Zone(o, c) = "premium" =>
              OpenBias(o, c) = "bullish" /\ ValueZone(z, c) # "discount"
         /\ Zone(o, c) = "discount" =>
              OpenBias(o, c) = "bearish" /\ ValueZone(z, c) # "premium"
<1>1. o.tdo # Unset /\ z # Unset => o.tdo = z
  BY DEF TrackersAgree
<1>2. Zone(o, c) \in {"premium", "discount"} =>
        o.tdo # Unset /\ o.session # Unset /\ o.week # Unset
  BY DEF Zone
<1>3. Zone(o, c) = "premium" => c > o.tdo /\ c > o.session
  BY DEF Zone
<1>4. Zone(o, c) = "discount" => c <= o.tdo /\ c <= o.session
  BY DEF Zone
<1>5. ~(c <= o.tdo /\ c > o.tdo) /\ ~(c <= o.session /\ c > o.session)
  OBVIOUS
<1> QED BY <1>1, <1>2, <1>3, <1>4, <1>5 DEF OpenBias, ValueZone

(* The three skips of on_signal in the words of the chart.                  *)
LEMMA DeadZoneIs ==
  ASSUME NEW o, NEW c \in Int, NEW known, known = {o.tdo, o.session, o.week},
         known \subseteq Nat \cup {Unset}
  PROVE  Zone(o, c) # "dead_zone" <=>
           Unset \in known \/ c > Max(known) \/ c <= Min(known)
<1>1. CASE Unset \in known
  BY <1>1 DEF Zone
<1>2. CASE Unset \notin known
  <2>1. known \in SUBSET Nat /\ known # {}
    BY <1>2
  <2>2. PICK m \in Nat : \A x \in known : x <= m
    <3>1. o.tdo \in Nat /\ o.session \in Nat /\ o.week \in Nat
      BY <2>1
    <3>2. o.tdo + o.session + o.week \in Nat
      BY <3>1
    <3>3. \A x \in known : x <= o.tdo + o.session + o.week
      BY <3>1
    <3> QED BY <3>2, <3>3
  <2>3. /\ Max(known) \in known /\ \A x \in known : x <= Max(known)
        /\ Min(known) \in known /\ \A x \in known : Min(known) <= x
    BY <2>1, <2>2, MaxOfSet, MinOfSet
  <2>4. (\A x \in known : c > x) <=> c > Max(known)
    <3> DEFINE p == Max(known)
    <3> HIDE DEF p
    <3>1. p \in known /\ \A x \in known : x <= p
      BY <2>3 DEF p
    <3>2. (\A x \in known : c > x) <=> c > p
      BY <2>1, <3>1
    <3> QED BY <3>2 DEF p
  <2>5. (\A x \in known : c <= x) <=> c <= Min(known)
    <3> DEFINE p == Min(known)
    <3> HIDE DEF p
    <3>1. p \in known /\ \A x \in known : p <= x
      BY <2>3 DEF p
    <3>2. (\A x \in known : c <= x) <=> c <= p
      BY <2>1, <3>1
    <3> QED BY <3>2 DEF p
  <2>6. Zone(o, c) = IF \A x \in known : c > x THEN "premium"
                     ELSE IF \A x \in known : c <= x THEN "discount" ELSE "dead_zone"
    BY <1>2 DEF Zone
  <2> QED BY <1>2, <2>4, <2>5, <2>6
<1> QED BY <1>1, <1>2

(* The quarter filter, by the minutes since 18:00.                          *)
LEMMA QuarterIs ==
  ASSUME NEW t \in Nat
  PROVE  DayQuarter(t) \in AllowedQuarters <=>
           (t + Session) % Day \in UNION {(q - 1) * Session .. q * Session - 1 :
                                           q \in AllowedQuarters}
<1> DEFINE x == (t + Session) % Day
<1>1. AllowedQuarters \subseteq 1 .. 4
  BY TimeAssumption DEF WindowsValid
<1>2. x \in Nat /\ x < 1440
  BY DEF Session, Day
<1>3. DayQuarter(t) = x \div 360 + 1
  BY DEF DayQuarter, Session, Day
<1>4. Session = 360
  BY DEF Session
<1> HIDE DEF x
<1> DEFINE Slot(q) == (q - 1) * 360 .. q * 360 - 1
           d == x \div 360 + 1
<1>5. \A q \in 1 .. 4 : x \in Slot(q) <=> d = q
  <2> SUFFICES ASSUME NEW q \in 1 .. 4 PROVE x \in Slot(q) <=> d = q
    OBVIOUS
  <2>1. CASE q = 1
    <3>1. Slot(q) = 0 .. 359
      BY <2>1
    <3>2. x \in 0 .. 359 <=> d = 1
      BY <1>2
    <3> QED BY <2>1, <3>1, <3>2
  <2>2. CASE q = 2
    <3>1. Slot(q) = 360 .. 719
      BY <2>2
    <3>2. x \in 360 .. 719 <=> d = 2
      BY <1>2
    <3> QED BY <2>2, <3>1, <3>2
  <2>3. CASE q = 3
    <3>1. Slot(q) = 720 .. 1079
      BY <2>3
    <3>2. x \in 720 .. 1079 <=> d = 3
      BY <1>2
    <3> QED BY <2>3, <3>1, <3>2
  <2>4. CASE q = 4
    <3>1. Slot(q) = 1080 .. 1439
      BY <2>4
    <3>2. x \in 1080 .. 1439 <=> d = 4
      BY <1>2
    <3> QED BY <2>4, <3>1, <3>2
  <2>5. q = 1 \/ q = 2 \/ q = 3 \/ q = 4
    OBVIOUS
  <2> QED BY <2>1, <2>2, <2>3, <2>4, <2>5
<1> HIDE DEF Slot, d
<1>6. x \in UNION {Slot(q) : q \in AllowedQuarters} <=>
        \E q \in AllowedQuarters : x \in Slot(q)
  OBVIOUS
<1>7. x \in UNION {Slot(q) : q \in AllowedQuarters} <=> d \in AllowedQuarters
  BY <1>1, <1>5, <1>6
<1> QED BY <1>3, <1>4, <1>7 DEF x, d, Slot

(* A killzone, wrapped or not, is a stretch of the clock from its start.    *)
LEMMA KillzoneIs ==
  ASSUME NEW t \in Nat, NEW w \in Killzones
  PROVE  (IF WindowStart(w) < WindowEnd(w)
          THEN WindowStart(w) <= TimeOfDay(t + UtcOffset) /\ TimeOfDay(t + UtcOffset) < WindowEnd(w)
          ELSE TimeOfDay(t + UtcOffset) >= WindowStart(w) \/ TimeOfDay(t + UtcOffset) < WindowEnd(w))
         <=> (t + UtcOffset - WindowStart(w)) % Day < (WindowEnd(w) - WindowStart(w)) % Day
<1> DEFINE u == t + UtcOffset
           a == WindowStart(w)
           b == WindowEnd(w)
           m == TimeOfDay(u)
<1>1. UtcOffset \in Nat /\ a \in 0 .. Day - 1 /\ b \in 0 .. Day - 1 /\ a # b
  BY TimeAssumption DEF WindowsValid
<1>2. Day = 1440
  BY DEF Day
<1>3. u \in Nat /\ a \in 0 .. 1439 /\ b \in 0 .. 1439 /\ m = u % 1440
  BY <1>1, <1>2 DEF TimeOfDay
<1> HIDE DEF u, a, b
<1>4. m \in 0 .. 1439 /\ (u - a) % 1440 = (m - a) % 1440
  BY <1>3
<1> HIDE DEF m
<1>5. /\ (m - a) % 1440 = IF m >= a THEN m - a ELSE m - a + 1440
      /\ (b - a) % 1440 = IF b >= a THEN b - a ELSE b - a + 1440
  BY <1>3, <1>4
<1>6. (IF a < b THEN a <= m /\ m < b ELSE m >= a \/ m < b) <=>
        (m - a) % 1440 < (b - a) % 1440
  BY <1>1, <1>3, <1>4, <1>5
<1>7. (t + UtcOffset - a) % Day = (u - a) % 1440 /\ (b - a) % Day = (b - a) % 1440
  <2>1. t + UtcOffset - a = u - a
    BY <1>1, <1>3 DEF u
  <2> QED BY <1>2, <2>1
<1> QED BY <1>4, <1>6, <1>7 DEF u, a, b, m

-----------------------------------------------------------------------------
(* The opens and the filters along the history.                             *)

(* A level is unset or the open of a bar.                                   *)
LEMMA LevelsAre ==
  ASSUME NEW n \in Nat, NEW g, Ticks(g, n), NEW slots, NEW date
  PROVE  LevelOf(g, slots, date, n) \in Nat \cup {Unset}
<1> DEFINE H == Hits(g, slots, date, n)
<1>1. H \in SUBSET Nat /\ \A x \in H : x \in 1 .. n
  BY DEF Hits
<1> HIDE DEF H
<1>2. CASE H = {}
  BY <1>2 DEF LevelOf, H
<1>3. CASE H # {}
  <2>1. \A x \in H : x <= n
    BY <1>1
  <2>2. Max(H) \in H
    BY <1>1, <1>3, <2>1, MaxOfSet
  <2>3. Max(H) \in 1 .. n
    BY <1>1, <2>2
  <2>4. g[Max(H)].o \in Nat
    BY <2>3 DEF Ticks
  <2> QED BY <1>3, <2>4 DEF LevelOf, H
<1> QED BY <1>2, <1>3

(* Bars to come do not change a level.                                      *)
LEMMA LevelSame ==
  ASSUME NEW n \in Nat, NEW g, NEW g1, SameBars(n, g, g1), NEW slots, NEW date
  PROVE  LevelOf(g1, slots, date, n) = LevelOf(g, slots, date, n)
<1>1. \A i \in 1 .. n : g1[i] = g[i]
  BY DEF SameBars
<1>2. ASSUME NEW k \in 1 .. n, NEW s
      PROVE  OpensOn(g1, k, s) <=> OpensOn(g, k, s)
  <2>1. \A j \in 1 .. k - 1 : j \in 1 .. n
    OBVIOUS
  <2>2. g1[k] = g[k] /\ \A j \in 1 .. k - 1 : g1[j] = g[j]
    BY <1>1, <2>1
  <2> QED BY <2>2 DEF OpensOn
<1>3. \A k \in 1 .. n : OpensIn(g1, k, slots, date) <=> OpensIn(g, k, slots, date)
  BY <1>1, <1>2 DEF OpensIn
<1> DEFINE H == Hits(g, slots, date, n)
<1>4. Hits(g1, slots, date, n) = H /\ H \in SUBSET Nat /\ \A x \in H : x \in 1 .. n
  BY <1>3 DEF Hits
<1> HIDE DEF H
<1>5. CASE H = {}
  BY <1>4, <1>5 DEF LevelOf, H
<1>6. CASE H # {}
  <2>1. \A x \in H : x <= n
    BY <1>4
  <2>2. Max(H) \in H
    BY <1>4, <1>6, <2>1, MaxOfSet
  <2>3. g1[Max(H)] = g[Max(H)]
    BY <1>1, <1>4, <2>2
  <2> QED BY <1>4, <1>6, <2>3 DEF LevelOf, H
<1> QED BY <1>5, <1>6

(* Where the chart of g has room for an entry on its n-th bar.              *)
KnownOpens(g, n) ==
  {LevelOf(g, {0}, "any", n), LevelOf(g, SessionSlots, "any", n),
   LevelOf(g, {WeekSlot}, "monday", n)}
Outside(known, price) ==
  Unset \in known \/ price > Max(known) \/ price <= Min(known)
QuarterAllows(ny) ==
  (ny + Session) % Day \in UNION {(q - 1) * Session .. q * Session - 1 :
                                    q \in AllowedQuarters}
ZoneAllows(ny) ==
  Killzones = {} \/
    \E w \in Killzones : (ny + UtcOffset - WindowStart(w)) % Day
                           < (WindowEnd(w) - WindowStart(w)) % Day
Room(g, n) ==
  /\ Outside(KnownOpens(g, n - 1), g[n].c)
  /\ QuarterAllows(Ny(g[n])) /\ ZoneAllows(Ny(g[n]))

(* The three skips, asked before the opens see the bar, find that room.     *)
LEMMA RoomStep ==
  ASSUME NEW n \in Nat, NEW g, NEW g1, SameBars(n, g, g1), Ticks(g, n),
         NEW o, OpensAre(o, g, n), NEW ny \in Nat, ny = Ny(g1[n + 1]),
         NEW c \in Int, c = g1[n + 1].c
  PROVE  PassesTime(o, ny, c) <=> Room(g1, n + 1)
<1> DEFINE known == {o.tdo, o.session, o.week}
<1>1. known = KnownOpens(g, n)
  BY DEF OpensAre, KnownOpens
<1>2. KnownOpens(g1, n) = KnownOpens(g, n)
  BY LevelSame DEF KnownOpens
<1>3. known \subseteq Nat \cup {Unset}
  BY <1>1, LevelsAre DEF KnownOpens
<1>4. (n + 1) - 1 = n
  OBVIOUS
<1> HIDE DEF known
<1>5. Zone(o, c) # "dead_zone" <=> Outside(known, c)
  BY <1>3, DeadZoneIs DEF known, Outside
<1>6. DayQuarter(ny) \in AllowedQuarters <=> QuarterAllows(ny)
  BY QuarterIs DEF QuarterAllows
<1>7. InKillzone(ny) <=> ZoneAllows(ny)
  BY KillzoneIs, Zenon DEF InKillzone, ZoneAllows
<1>8. Room(g1, n + 1) <=> Outside(known, c) /\ QuarterAllows(ny) /\ ZoneAllows(ny)
  BY <1>1, <1>2, <1>4, Zenon DEF Room
<1> QED BY <1>5, <1>6, <1>7, <1>8, Zenon DEF PassesTime

(* What both trackers and the last gate hold after the n bars of g.         *)
ClockIs(o, q, v, g, n) ==
  /\ OpensAre(o, g, n)
  /\ n = 0 => o = NewOpens /\ q = NewQuarters
  /\ n > 0 => /\ QuartersAre(q, Ny(g[n])) /\ TrackersAgree(o, q)
              /\ v <=> Room(g, n)
ClockInv == ClockIs(opens, quarters, gate, hist, Now)

(* The bars of a history are in order of New York time.                     *)
LEMMA TicksAre ==
  ASSUME NEW g \in Seq(Bar), NEW n, n = Len(g),
         \A i, j \in 1 .. n : i < j => g[i].t < g[j].t
  PROVE  Ticks(g, n)
<1>1. \A i \in 1 .. n : g[i].t \in Nat /\ g[i].o \in Nat
  <2>1. \A i \in 1 .. n : g[i] \in Bar
    OBVIOUS
  <2> QED BY <2>1 DEF Bar
<1>2. ASSUME NEW i \in 1 .. n
      PROVE  Ny(g[i]) \in Nat /\ \A j \in 1 .. n : i < j => Ny(g[i]) < Ny(g[j])
  BY <1>1, NyGrows
<1> QED BY <1>1, <1>2 DEF Ticks

(* A step keeps the invariant of the opens and the filters.                 *)
LEMMA ClockStep ==
  ASSUME HistOK, ClockInv, NEW x \in Shapes, Feed(x)
  PROVE  ClockInv'
<1> DEFINE n == Len(hist)
           b == BarOf(x)
           g1 == hist'
           ny == Ny(b)
<1>1. /\ n = Now /\ n \in Nat /\ Now' = n + 1 /\ b \in Bar /\ g1 \in Seq(Bar)
      /\ SameBars(n, hist, g1) /\ g1[n + 1] = b /\ Len(g1) = n + 1
      /\ \A i, j \in 1 .. n + 1 : i < j => g1[i].t < g1[j].t
  BY FeedIs DEF Now, SameBars
<1>2. /\ gate' = PassesTime(opens, ny, b.c)
      /\ opens' = UpdateOpens(opens, ny, b.o)
      /\ quarters' = UpdateQuarters(quarters, ny, b.o)
  BY DEF Feed
<1> HIDE DEF b
<1>3. b.o \in Nat /\ b.c \in Nat /\ b.t \in Nat
  BY <1>1 DEF Bar
<1>4. Ticks(hist, n)
  BY <1>1, TicksAre DEF HistOK
<1>5. Ticks(g1, n + 1)
  BY <1>1, TicksAre
<1>6. ny \in Nat /\ ny = Ny(g1[n + 1])
  BY <1>1, <1>3, NyGrows
<1>7. ClockIs(opens, quarters, gate, hist, n)
  BY <1>1 DEF ClockInv
<1> DEFINE o1 == UpdateOpens(opens, ny, b.o)
           q1 == UpdateQuarters(quarters, ny, b.o)
<1> HIDE DEF n, g1, ny
<1>8. OpensAre(o1, g1, n + 1)
  BY <1>1, <1>5, <1>6, <1>7, OpensStep DEF ClockIs
<1>9. QuartersAre(q1, ny) /\ TrackersAgree(o1, q1)
  <2>1. CASE n = 0
    BY <1>3, <1>6, <1>7, <2>1, QuartersFirst DEF ClockIs
  <2>2. CASE n > 0
    <3> DEFINE s == Ny(hist[n])
    <3>1. opens.prev = s /\ QuartersAre(quarters, s) /\ TrackersAgree(opens, quarters)
      BY <1>7, <2>2 DEF ClockIs, OpensAre
    <3>2. s \in Nat /\ s < ny
      <4>1. n \in 1 .. n + 1 /\ n + 1 \in 1 .. n + 1 /\ n < n + 1 /\ n \in 1 .. n
        BY <1>1, <2>2
      <4>2. hist[n] = g1[n]
        BY <1>1, <4>1 DEF SameBars
      <4> QED BY <1>5, <1>6, <4>1, <4>2 DEF Ticks
    <3> HIDE DEF s
    <3> QED BY <1>3, <1>6, <3>1, <3>2, QuartersStep
  <2> QED BY <1>1, <2>1, <2>2
<1>10. PassesTime(opens, ny, b.c) <=> Room(g1, n + 1)
  BY <1>1, <1>3, <1>4, <1>6, <1>7, RoomStep DEF ClockIs
<1> HIDE DEF o1, q1
<1>11. n + 1 # 0 /\ ny = Ny(g1[n + 1])
  BY <1>1, <1>6
<1>12. ClockIs(o1, q1, PassesTime(opens, ny, b.c), g1, n + 1)
  BY <1>8, <1>9, <1>10, <1>11, Zenon DEF ClockIs
<1> QED BY <1>1, <1>2, <1>12, Zenon DEF ClockInv, o1, q1, g1

(* The trackers of the opens start empty.                                   *)
LEMMA ClockInit ==
  ASSUME FeedInit
  PROVE  ClockInv
<1>1. Now = 0 /\ opens = NewOpens /\ quarters = NewQuarters
  BY DEF FeedInit, Now
<1>2. \A slots, date : LevelOf(hist, slots, date, 0) = Unset
  BY DEF LevelOf, Hits
<1>3. OpensAre(NewOpens, hist, 0)
  BY <1>2 DEF OpensAre, NewOpens
<1> QED BY <1>1, <1>3 DEF ClockInv, ClockIs

(* The invariant says what the chart shows of the opens.                    *)
LEMMA OpensFollow ==
  HistOK /\ ClockInv => (Now > 0 => OpensAreChart)
<1> SUFFICES ASSUME HistOK, ClockInv, Now > 0 PROVE OpensAreChart
  OBVIOUS
<1>1. /\ Now \in Nat /\ hist[Now] \in Bar /\ Ticks(hist, Now)
  <2>1. Now \in Nat /\ hist[Now] \in Bar
    BY DEF HistOK, Now
  <2>2. Ticks(hist, Now)
    BY TicksAre DEF HistOK, Now
  <2> QED BY <2>1, <2>2
<1>2. OpensAre(opens, hist, Now) /\ TrackersAgree(opens, quarters)
  BY DEF ClockInv, ClockIs
<1>3. /\ opens.tdo = ChartOpen({0}, AnyDay, Now)
      /\ opens.session = ChartOpen(SessionSlots, AnyDay, Now)
      /\ opens.cycle = ChartOpen(CycleSlots, AnyDay, Now)
      /\ opens.week = ChartOpen({WeekSlot}, Monday, Now)
  BY <1>2, ChartOpens DEF OpensAre
<1> DEFINE c == hist[Now].c
           z == quarters.dayQ2
<1>4. c \in Int
  BY <1>1 DEF Bar
<1>5. opens.tdo \in Int /\ opens.session \in Int
  <2>1. opens.tdo \in Nat \cup {Unset} /\ opens.session \in Nat \cup {Unset}
    BY <1>1, <1>2, LevelsAre DEF OpensAre
  <2> QED BY <2>1 DEF Unset
<1>6. /\ Zone(opens, c) = "premium" =>
           OpenBias(opens, c) = "bullish" /\ ValueZone(z, c) # "discount"
      /\ Zone(opens, c) = "discount" =>
           OpenBias(opens, c) = "bearish" /\ ValueZone(z, c) # "premium"
  <2> HIDE DEF c
  <2> QED BY <1>2, <1>4, <1>5, ZonesAgree
<1> QED BY <1>2, <1>3, <1>6, Zenon DEF OpensAreChart, TrackersAgree

(* The invariant says what the chart shows of the filters.                  *)
LEMMA FiltersFollow ==
  ClockInv => (Now > 0 => FiltersAreChart)
<1> SUFFICES ASSUME ClockInv, Now > 0 PROVE FiltersAreChart
  OBVIOUS
<1>1. gate <=> Room(hist, Now)
  BY DEF ClockInv, ClockIs
<1>2. {ChartOpen({0}, AnyDay, Now - 1), ChartOpen(SessionSlots, AnyDay, Now - 1),
       ChartOpen({WeekSlot}, Monday, Now - 1)} = KnownOpens(hist, Now - 1)
  BY ChartOpens DEF KnownOpens
<1> QED BY <1>1, <1>2, Zenon
        DEF FiltersAreChart, Room, Outside, QuarterAllows, ZoneAllows

(* Candles, opens and filters (TimeframeAggregator.update,                  *)
(* TrueOpenTracker.update, QuarterTracker.update, SessionGate.allows and    *)
(* the skips of on_signal) are those of the chart, for every timeframe,     *)
(* every set of killzones and quarters, every bars and every gap.           *)
THEOREM ClockFollowsChart == FeedSpec => []ClockIsChart
<1> DEFINE I == StructureInv /\ ClockInv
<1>1. FeedInit => I
  BY StructureInit, ClockInit
<1>2. I /\ [FeedNext]_feedVars => I'
  <2>1. ASSUME I, NEW x \in Shapes, Feed(x) PROVE I'
    BY <2>1, StructureInvStep, ClockStep DEF StructureInv
  <2>2. ASSUME I, UNCHANGED feedVars PROVE I'
    <3>1. opens' = opens /\ quarters' = quarters /\ gate' = gate /\ hist' = hist /\ Now' = Now
      BY <2>2 DEF feedVars, Now
    <3>2. ClockInv'
      BY <2>2, <3>1, Zenon DEF ClockInv
    <3> QED BY <2>2, <3>2, StructureStutters
  <2> QED BY <2>1, <2>2 DEF FeedNext
<1>3. I => (Now > 0 => OpensAreChart /\ FiltersAreChart)
  BY OpensFollow, FiltersFollow DEF StructureInv
<1>4. FeedSpec => [](Now > 0 => OpensAreChart /\ FiltersAreChart)
  BY <1>1, <1>2, <1>3, PTL DEF FeedSpec
<1>5. (Now > 0 => OpensAreChart /\ FiltersAreChart) /\ (Now > 0 => CandleIsChart)
        => ClockIsChart
  BY DEF ClockIsChart
<1> QED BY <1>4, <1>5, CandlesFollowChart, PTL
=============================================================================
