--------------------------- MODULE SvpEngineProofs ---------------------------
(***************************************************************************)
(* Proofs about the session-volume-profile engine, for every session       *)
(* geometry, every configuration SvpConfig accepts, all prices and any     *)
(* silences.                                                               *)
(***************************************************************************)
EXTENDS SvpEngine, TLAPS

States == {"IDLE", "RANGE_DEFINED", "BREAKOUT"}
Positions == [dir : Directions, stop : Int] \cup {Flat}

Engine ==
  [st : States, pos : Positions, traded : Nat, fed : 0 .. MinBars,
   prior : [sid : Int, poc : Nat], openPx : Nat, prevClose : Nat,
   sid : Int, last : Time, sig : {"none", "ENTRY", "EXIT"}]

TypeOK ==
  /\ eng \in Engine
  /\ before \in Nat /\ close \in Nat /\ entered \in Nat

(* State, position and session belong together; an engine that never saw a  *)
(* bar is idle.                                                             *)
Sessions(e) ==
  /\ e.prior # NoPrior => e.sid - e.prior.sid \in 1 .. 3
  /\ e.st # "IDLE" => ZoneOf(e.last) \in Active /\ SessionId(e.last) = e.sid
  /\ e.st = "BREAKOUT" <=> e.pos # Flat
  /\ e.sid = NoSession => e.st = "IDLE" /\ e.prior = NoPrior

(* The profile holds no more bars than the session had, up to the last.     *)
Established(e, n) == e.fed <= n + (IF ZoneOf(e.last) \in Active THEN 1 ELSE 0)

Inv ==
  /\ TypeOK /\ Sessions(eng) /\ Established(eng, before)
  /\ eng.traded = entered

-----------------------------------------------------------------------------
(* What the assumptions say of the configuration.                           *)
LEMMA Constants ==
  /\ DayMin \in Nat \ {0} /\ SessionOpen \in 0 .. DayMin - 1 /\ SessionLen \in Nat
  /\ RangeMin = 1 /\ SessionLen >= 2
  /\ Buffer \in Nat /\ MinBars \in Nat \ {0} /\ MaxTrades \in Nat \ {0}
  /\ AtrMult \in Nat /\ BlockOpen \in Nat /\ BlockClose \in Nat
  /\ MaxDay \in Nat /\ Silences \subseteq Nat \ {0}
  /\ Prices \subseteq Nat /\ Atrs \subseteq Nat /\ Atrs # {}
BY SvpAssumption, ClockAssumption DEF SvpValid

(* Prices and readings of the ATR are numbers.                              *)
LEMMA Numbers == (\A p \in Prices : p \in Nat) /\ (\A a \in Atrs : a \in Nat)
BY SvpAssumption

(* The session clock is total: every bar has a session and a zone.          *)
LEMMA ClockTypes ==
  ASSUME NEW t \in Time
  PROVE  /\ SessionId(t) \in Int /\ ZoneOf(t) \in Zones
         /\ SessionId(t) # NoSession
<1>1. t.d \in Nat /\ t.m \in Int
  BY Constants DEF Time
<1>2. QED
  BY <1>1, Constants
  DEF SessionId, ZoneOf, Zones, ZoneWithin, InPrevSession, SinceOpen, SincePrevOpen,
      NoSession

(* In a session, the minutes since its open are those since the last open,  *)
(* which the blackouts are measured by.                                     *)
LEMMA SinceItsOpen ==
  ASSUME NEW t \in Time, ZoneOf(t) \in Active
  PROVE  LET since == Minutes(t, [d |-> SessionId(t), m |-> SessionOpen]) IN
         /\ since = SinceLastOpen(t) /\ since \in Int /\ since < SessionLen
<1>1. /\ t.d \in Nat /\ t.m \in Int /\ 0 <= t.m /\ t.m < DayMin
      /\ SessionOpen \in Int /\ DayMin \in Int /\ SessionLen \in Int
  BY Constants DEF Time
<1>2. CASE InPrevSession(t)
  <2>1. t.d - SessionId(t) = 1 /\ SinceOpen(t) < 0 /\ SincePrevOpen(t) < SessionLen
    BY <1>1, <1>2 DEF SessionId, InPrevSession
  <2>2. QED
    BY <1>1, <2>1 DEF Minutes, SinceLastOpen, SincePrevOpen
<1>3. CASE ~InPrevSession(t)
  <2>1. t.d - SessionId(t) = 0
    BY <1>1, <1>3 DEF SessionId
  <2>2. SinceOpen(t) >= 0 /\ SinceOpen(t) < SessionLen
    BY <1>1, <1>3 DEF ZoneOf, Active, SinceOpen
  <2>3. QED
    BY <1>1, <2>1, <2>2 DEF Minutes, SinceLastOpen, SinceOpen
<1>4. QED
  BY <1>2, <1>3

(* A bar the engine accepts is later than the one before.                   *)
LEMMA TimeForward ==
  ASSUME NEW t \in Time, NEW u \in Time, Minutes(t, u) \in Nat \ {0}
  PROVE  Later(t, u)
<1>1. /\ t.d \in Nat /\ u.d \in Nat /\ t.m \in Nat /\ u.m \in Nat
      /\ t.m < DayMin /\ u.m < DayMin /\ DayMin \in Nat
  BY Constants DEF Time
<1>2. (t.d - u.d) * DayMin + (t.m - u.m) > 0
  BY DEF Minutes
<1>3. ASSUME t.d < u.d PROVE FALSE
  <2> DEFINE j == u.d - t.d - 1
  <2>1. j \in Nat
    BY <1>1, <1>3
  <2>2. j * DayMin \in Nat
    BY <1>1, <2>1
  <2>3. (t.d - u.d) * DayMin = - (j * DayMin) - DayMin
    BY <1>1
  <2>4. QED
    BY <1>1, <1>2, <2>2, <2>3
<1>4. t.d = u.d => t.m > u.m
  <2>1. SUFFICES ASSUME t.d = u.d PROVE t.m > u.m
    OBVIOUS
  <2>2. (t.d - u.d) * DayMin = 0
    BY <1>1, <2>1
  <2>3. QED
    BY <1>1, <1>2, <2>2
<1>5. QED
  BY <1>1, <1>3, <1>4 DEF Later

(* Once a bar of the session itself was seen, no bar lies before it, also   *)
(* when the session crosses midnight.                                       *)
LEMMA NeverBeforeAgain ==
  ASSUME NEW t \in Time, NEW u \in Time, Later(t, u),
         SessionId(t) = SessionId(u), ZoneOf(u) \in Active
  PROVE  ZoneOf(t) # "BEFORE"
<1>1. /\ t.d \in Nat /\ u.d \in Nat
      /\ t.m \in 0 .. DayMin - 1 /\ u.m \in 0 .. DayMin - 1
  BY DEF Time
<1>2. CASE InPrevSession(t)
  BY <1>2 DEF ZoneOf, ZoneWithin
<1>3. CASE ~InPrevSession(t)
  <2>1. SessionId(t) = t.d
    BY <1>3 DEF SessionId
  <2>2. ~InPrevSession(u) /\ u.d = t.d /\ t.m > u.m
    BY <1>1, <2>1 DEF SessionId, Later
  <2>3. SinceOpen(u) >= 0
    BY <1>1, <2>2, Constants DEF ZoneOf, Active, SinceOpen
  <2>4. SinceOpen(t) > 0
    BY <1>1, <2>2, <2>3, Constants DEF SinceOpen
  <2>5. QED
    BY <1>1, <1>3, <2>4, Constants DEF ZoneOf, ZoneWithin, SinceOpen
<1>4. QED
  BY <1>2, <1>3

-----------------------------------------------------------------------------
Behind(s, c) == IF s.dir = "LONG" THEN s.stop < c ELSE s.stop > c
Trade == [dir : Directions, stop : Int]

(* Every setup has its structural stop on the losing side of the close, and *)
(* passes the filters.                                                      *)
LEMMA SetupsOK ==
  ASSUME NEW e \in Engine, NEW k \in Candles, NEW v \in Levels, NEW x,
         NEW s \in Setups(e, k, v, x)
  PROVE  s \in Trade /\ Behind(s, k.c) /\ EntryAllowed(e, s.dir, x)
<1>1. /\ k.h \in Nat /\ k.l \in Nat /\ k.c \in Nat /\ k.l <= k.c /\ k.c <= k.h
      /\ Buffer \in Nat
  BY Constants DEF Candles
<1>2. v.lvn \in Prices \cup {NoPrice} /\ v.area \in Areas \cup {NoArea}
  BY DEF Levels
<1>3. v.lvn \in Nat
  BY <1>2, Numbers DEF NoPrice
<1>10. v.area.val \in Nat /\ v.area.vah \in Nat
  <2>1. CASE v.area \in Areas
    BY <2>1, Constants DEF Areas
  <2>2. CASE v.area = NoArea
    BY <2>2 DEF NoArea, NoPrice
  <2>3. QED
    BY <1>2, <2>1, <2>2
<1>4. EntryAllowed(e, s.dir, x)
  BY DEF Setups
<1>5. \/ s \in EdgeRotation(k, v.area)
      \/ s \in LvnBreak(k, v.lvn, e.prevClose)
      \/ s \in Absorption(k, x.wick)
  BY DEF Setups
<1>6. CASE s \in EdgeRotation(k, v.area)
  BY <1>1, <1>10, <1>4, <1>6 DEF EdgeRotation, Offer, Behind, Trade, Directions
<1>7. CASE s \in LvnBreak(k, v.lvn, e.prevClose)
  BY <1>1, <1>3, <1>4, <1>7 DEF LvnBreak, Offer, Behind, Trade, Directions
<1>8. CASE s \in Absorption(k, x.wick)
  BY <1>1, <1>4, <1>8 DEF Absorption, Offer, Behind, Trade, Directions
<1>9. QED
  BY <1>5, <1>6, <1>7, <1>8

(* The stop of an entry is on the losing side of its close, with an ATR     *)
(* stop, a structural one, or the wider of both.                            *)
LEMMA RiskStopOK ==
  ASSUME NEW k \in Candles, NEW s \in Trade, Behind(s, k.c), NEW atr \in Atrs
  PROVE  LET r == RiskStop(k, s, atr) IN
         r \in Int /\ IF s.dir = "LONG" THEN r < k.c ELSE r > k.c
<1>1. k.c \in Int /\ s.stop \in Int /\ atr \in Nat /\ AtrMult \in Nat
  <2>1. k.c \in Int
    BY Numbers DEF Candles
  <2>2. s.stop \in Int
    BY DEF Trade
  <2>3. QED
    BY <2>1, <2>2, Numbers, Constants
<1> DEFINE away == AtrMult * atr
<1>2. away \in Nat /\ (AtrMult # 0 /\ atr # 0 => away > 0)
  <2>1. away \in Nat
    BY <1>1
  <2>2. ASSUME AtrMult # 0, atr # 0 PROVE away > 0
    <3>1. (AtrMult - 1) * atr \in Nat
      BY <1>1, <2>2
    <3>2. away = (AtrMult - 1) * atr + atr
      BY <1>1
    <3>3. QED
      BY <1>1, <2>2, <3>1, <3>2
  <2>3. QED
    BY <2>1, <2>2
<1>3. RiskStop(k, s, atr) =
        LET stop == IF s.dir = "LONG" THEN k.c - away ELSE k.c + away
        IN IF AtrMult = 0 \/ atr = 0 THEN s.stop
           ELSE IF ~AtrFloor THEN stop
           ELSE IF s.dir = "LONG" THEN MinOf(stop, s.stop) ELSE MaxOf(stop, s.stop)
  BY DEF RiskStop
<1> HIDE DEF away
<1>4. QED
  BY <1>1, <1>2, <1>3 DEF Behind, MinOf, MaxOf

(* What an entry is made of. *)
Entry(e, f, k) ==
  /\ f.sig = "ENTRY" /\ f.st = "BREAKOUT" /\ e.pos = Flat
  /\ f.pos \in Trade /\ Behind(f.pos, k.c)
  /\ e.traded < MaxTrades /\ f.traded = e.traded + 1
  /\ ~InBlackout(e.last)

(* A setup that is detected is a sound one.                                 *)
LEMMA DetectOK ==
  ASSUME NEW e \in Engine, e.sig = "none", e.pos = Flat, e.traded < MaxTrades,
         NEW k \in Candles, NEW v \in Levels, NEW x, x.atr \in Atrs
  PROVE  LET f == DetectSetup(e, k, v, x) IN
         /\ f \in Engine /\ f.fed = e.fed /\ f.prior = e.prior /\ f.sid = e.sid
         /\ f.last = e.last
         /\ f = e \/ Entry(e, f, k)
<1> DEFINE open == Setups(e, k, v, x)
           s == CHOOSE s \in open : TRUE
           r == RiskStop(k, s, x.atr)
           f == DetectSetup(e, k, v, x)
<1>1. CASE open = {}
  BY <1>1 DEF DetectSetup
<1>2. CASE open # {}
  <2>1. s \in open
    BY <1>2
  <2>2. s \in Trade /\ Behind(s, k.c) /\ EntryAllowed(e, s.dir, x)
    BY <2>1, SetupsOK
  <2>3. r \in Int /\ IF s.dir = "LONG" THEN r < k.c ELSE r > k.c
    BY <2>2, RiskStopOK
  <2>4. f = [e EXCEPT !.pos = [dir |-> s.dir, stop |-> r],
                      !.traded = @ + 1, !.st = "BREAKOUT", !.sig = "ENTRY"]
    BY <1>2 DEF DetectSetup
  <2> HIDE DEF r, s, f, open
  <2> DEFINE p == [dir |-> s.dir, stop |-> r]
  <2>5. p \in Trade /\ p \in Positions /\ Behind(p, k.c)
    BY <2>2, <2>3 DEF Trade, Positions, Behind
  <2> DEFINE n == e.traded + 1
  <2>6. f = [e EXCEPT !.pos = p, !.traded = n, !.st = "BREAKOUT", !.sig = "ENTRY"]
    BY <2>4 DEF Engine
  <2>10. n \in Nat
    BY DEF Engine
  <2> HIDE DEF p, n
  <2>7. /\ f \in Engine /\ f.fed = e.fed /\ f.prior = e.prior /\ f.sid = e.sid
        /\ f.last = e.last /\ f.pos = p /\ f.st = "BREAKOUT" /\ f.sig = "ENTRY"
        /\ f.traded = n
    BY <2>5, <2>6, <2>10 DEF Engine, States
  <2>8. ~InBlackout(e.last)
    BY <2>2 DEF EntryAllowed
  <2>9. QED
    BY <2>5, <2>7, <2>8 DEF Entry, f, n
<1>3. QED
  BY <1>1, <1>2

(* One bar of the session the engine works on.                              *)
Fits(e) ==
  /\ e \in Engine /\ (e.st = "BREAKOUT" <=> e.pos # Flat)
  /\ e.st # "IDLE" => ZoneOf(e.last) \in Active

(* An entry that is taken is one the contract allows.                       *)
LEMMA HandleOK ==
  ASSUME NEW e, Fits(e), e.sig = "none", NEW k \in Candles, NEW v, NEW x,
         x.open \in Nat, Reads(e) => v \in Levels /\ x.atr \in Atrs
  PROVE  LET f == Handle(e, k, v, x) IN
         /\ Fits(f) /\ f.sid = e.sid /\ f.last = e.last /\ f.prior = e.prior
         /\ f.fed <= e.fed + (IF ZoneOf(e.last) \in Active THEN 1 ELSE 0)
         /\ \/ f.sig = "none" /\ f.pos = e.pos /\ f.traded = e.traded
            \/ Entry(e, f, k) /\ Reads(e) /\ e.fed >= MinBars
<1> DEFINE fed == Feed(e, x.open)
           act == ZoneOf(e.last) \in Active
<1>1. CASE ~act
  BY <1>1 DEF Handle, Fits, Engine
<1>2. CASE act
  <2>1. k.c \in Nat
    BY Constants DEF Candles
  <2>2. /\ fed \in Engine /\ fed.st = e.st /\ fed.pos = e.pos /\ fed.sid = e.sid
        /\ fed.last = e.last /\ fed.prior = e.prior /\ fed.traded = e.traded
        /\ fed.sig = e.sig /\ fed.fed <= e.fed + 1
    <3>0. e.fed \in 0 .. MinBars /\ e \in Engine /\ e.openPx \in Nat
      BY DEF Fits, Engine
    <3> DEFINE n == MinOf(e.fed + 1, MinBars)
               o == IF e.openPx = NoPrice THEN x.open ELSE e.openPx
    <3>1. n \in 0 .. MinBars /\ n <= e.fed + 1 /\ o \in Nat
      BY <3>0, Constants DEF MinOf
    <3>2. fed = [e EXCEPT !.fed = n, !.openPx = o]
      BY <3>0 DEF Feed, Engine
    <3> HIDE DEF n, o, fed
    <3>3. QED
      BY <3>0, <3>1, <3>2 DEF Engine
  <2> HIDE DEF fed
  <2>3. ASSUME NEW g \in Engine
        PROVE  LET h == [g EXCEPT !.prevClose = k.c] IN
               /\ h \in Engine /\ h.st = g.st /\ h.pos = g.pos /\ h.sid = g.sid
               /\ h.last = g.last /\ h.prior = g.prior /\ h.traded = g.traded
               /\ h.sig = g.sig /\ h.fed = g.fed
    BY <2>1 DEF Engine
  <2>4. CASE e.st = "IDLE"
    <3> DEFINE g == [fed EXCEPT !.st = "RANGE_DEFINED"]
    <3>1. /\ g \in Engine /\ g.st = "RANGE_DEFINED" /\ g.pos = fed.pos
          /\ g.sid = fed.sid /\ g.last = fed.last /\ g.prior = fed.prior
          /\ g.traded = fed.traded /\ g.sig = fed.sig /\ g.fed = fed.fed
      BY <2>2 DEF Engine, States
    <3>2. Handle(e, k, v, x) = [g EXCEPT !.prevClose = k.c]
      BY <1>2, <2>4 DEF Handle, fed
    <3> HIDE DEF g
    <3>3. QED
      BY <1>2, <2>2, <2>3, <2>4, <3>1, <3>2 DEF Fits
  <2>5. CASE e.st = "BREAKOUT" \/ (e.st = "RANGE_DEFINED" /\ ~(e.traded < MaxTrades /\ e.fed >= MinBars))
    <3>1. Handle(e, k, v, x) = [fed EXCEPT !.prevClose = k.c]
      BY <1>2, <2>5 DEF Handle, fed
    <3>2. QED
      BY <1>2, <2>2, <2>3, <2>5, <3>1 DEF Fits
  <2>6. CASE e.st = "RANGE_DEFINED" /\ e.traded < MaxTrades /\ e.fed >= MinBars
    <3> DEFINE g == DetectSetup(fed, k, v, x)
    <3>1. Reads(e)
      BY <2>6, Constants DEF Reads, Fits, Engine
    <3>2. Handle(e, k, v, x) = [g EXCEPT !.prevClose = k.c]
      BY <1>2, <2>6 DEF Handle, fed
    <3>3. fed.pos = Flat
      BY <2>2, <2>6 DEF Fits
    <3>4. /\ g \in Engine /\ g.fed = fed.fed /\ g.prior = fed.prior /\ g.sid = fed.sid
          /\ g.last = fed.last /\ (g = fed \/ Entry(fed, g, k))
      BY <2>2, <2>6, <3>1, <3>3, DetectOK
    <3> HIDE DEF g
    <3>5. CASE g = fed
      BY <1>2, <2>2, <2>3, <2>6, <3>2, <3>4, <3>5 DEF Fits
    <3>6. CASE Entry(fed, g, k)
      <4> DEFINE h == [g EXCEPT !.prevClose = k.c]
      <4>1. /\ h \in Engine /\ h.st = g.st /\ h.pos = g.pos /\ h.sid = g.sid
            /\ h.last = g.last /\ h.prior = g.prior /\ h.traded = g.traded
            /\ h.sig = g.sig /\ h.fed = g.fed
        BY <2>3, <3>4
      <4> HIDE DEF h
      <4>2. Entry(e, h, k)
        BY <2>2, <3>6, <4>1 DEF Entry
      <4>3. h.pos # Flat
        BY <4>2 DEF Entry, Trade, Flat, Directions
      <4>4. QED
        BY <1>2, <2>2, <2>6, <3>1, <3>2, <3>4, <3>6, <4>1, <4>2, <4>3 DEF Fits, Entry, h
    <3>7. QED
      BY <3>4, <3>5, <3>6
  <2>7. QED
    BY <2>4, <2>5, <2>6 DEF Fits, Engine, States
<1>3. QED
  BY <1>1, <1>2

-----------------------------------------------------------------------------
(* The readings of a bar have the types the engine expects.                 *)
LEMMA ReadingTypes ==
  ASSUME NEW e, NEW r \in Readings(e), NEW k \in Candles, NEW o \in Opens(e, k)
  PROVE  /\ r[1] \in Levels
         /\ Test(r, o).open \in Nat /\ Test(r, o).atr \in Atrs
<1>1. PICK a \in Atrs : TRUE
  BY Constants
<1> DEFINE v == [area |-> NoArea, lvn |-> NoPrice]
           x == [wick |-> "none", delta |-> TRUE, swing |-> "none", atr |-> a,
                 open |-> NoPrice]
<1>2. v \in Levels
  BY DEF Levels
<1>3. x \in Tests
  BY <1>1 DEF Tests
<1>4. <<v, x>> \in Levels \X Tests
  BY <1>2, <1>3
<1> HIDE DEF v, x
<1>5. r \in Levels \X Tests
  BY <1>4 DEF Readings
<1>6. r[1] \in Levels /\ r[2] \in Tests
  BY <1>5
<1>7. o \in Nat
  <2>1. k.c \in Nat
    BY Numbers DEF Candles
  <2>2. QED
    BY <2>1, Numbers DEF Opens
<1>8. Test(r, o) = [r[2] EXCEPT !.open = o]
  BY DEF Test
<1>9. Test(r, o).open = o /\ Test(r, o).atr = r[2].atr
  BY <1>6, <1>8 DEF Tests
<1>10. QED
  BY <1>6, <1>7, <1>9 DEF Tests

(* The engine of a bar before it is dispatched.                             *)
LEMMA BeginOK ==
  ASSUME NEW e \in Engine, NEW t \in Time
  PROVE  LET b == Begin(e, t) IN
         /\ b \in Engine /\ b.last = t /\ b.sig = "none" /\ b.st = e.st
         /\ b.pos = e.pos /\ b.traded = e.traded /\ b.fed = e.fed
         /\ b.prior = e.prior /\ b.sid = e.sid
BY DEF Begin, Engine

(* A new session starts with nothing counted.                               *)
LEMMA RollOK ==
  ASSUME NEW e \in Engine, NEW sid \in Int, NEW poc \in Nat
  PROVE  LET f == RollSession(e, sid, poc) IN
         /\ f \in Engine /\ f.sid = sid /\ f.fed = 0 /\ f.st = "IDLE" /\ f.pos = Flat
         /\ f.traded = 0 /\ f.last = e.last /\ f.sig = e.sig
         /\ f.prior # NoPrior => f.sid - f.prior.sid \in 1 .. 3
<1> DEFINE f == RollSession(e, sid, poc)
           p == IF e.fed >= MinBars /\ GapOk(e.sid, sid)
                THEN [sid |-> e.sid, poc |-> poc] ELSE NoPrior
           zero == 0
<1>1. p \in [sid : Int, poc : Nat]
  BY DEF Engine, NoPrior, NoSession, NoPrice
<1>2. p # NoPrior => sid - p.sid \in 1 .. 3
  BY DEF GapOk, Engine
<1>3. f = [e EXCEPT !.prior = p, !.fed = zero, !.openPx = zero, !.prevClose = zero,
                    !.st = "IDLE", !.pos = Flat, !.traded = zero, !.sid = sid]
  BY DEF RollSession, NoPrice
<1>4. zero \in Nat /\ zero \in 0 .. MinBars /\ Flat \in Positions
  BY Constants DEF Positions
<1> HIDE DEF p, f, zero
<1>5. /\ f \in Engine /\ f.sid = sid /\ f.fed = zero /\ f.st = "IDLE" /\ f.pos = Flat
      /\ f.traded = zero /\ f.last = e.last /\ f.sig = e.sig /\ f.prior = p
  BY <1>1, <1>3, <1>4 DEF Engine, States
<1>6. QED
  BY <1>2, <1>5 DEF f, zero

(* force_exit leaves the engine flat.                                       *)
LEMMA ForceExitOK ==
  ASSUME NEW e \in Engine, NEW to \in States
  PROVE  LET f == ForceExit(e, to) IN
         /\ f \in Engine /\ f.sid = e.sid /\ f.fed = e.fed /\ f.st = to /\ f.pos = Flat
         /\ f.traded = e.traded /\ f.last = e.last /\ f.sig = "EXIT"
         /\ f.prior = e.prior
BY DEF ForceExit, Engine, Positions

-----------------------------------------------------------------------------
(* What every call does: the invariant goes on to hold, an entry is sound,  *)
(* and the contract sees one of its steps.                                  *)
StepOK == Inv' /\ SoundEntry' /\ [Contract!CNext]_(Contract!cvars)

(* The initial state satisfies the invariant and the contract.              *)
LEMMA InitOK == Init => Inv /\ SoundEntry /\ Contract!CInit
<1> SUFFICES ASSUME Init PROVE Inv /\ SoundEntry /\ Contract!CInit
  OBVIOUS
<1>1. /\ eng.st = "IDLE" /\ eng.pos = Flat /\ eng.traded = 0 /\ eng.fed = 0
      /\ eng.prior = NoPrior /\ eng.sid = NoSession /\ eng.sig = "none"
      /\ eng.last = [d |-> 0, m |-> 0]
  BY DEF Init, InitEng
<1>2. [d |-> 0, m |-> 0] \in Time
  BY Constants DEF Time
<1>3. eng \in Engine
  BY <1>2, Constants
  DEF Init, InitEng, Engine, States, Positions, NoPrior, NoSession, NoPrice
<1>4. QED
  BY <1>1, <1>3
  DEF Init, Inv, TypeOK, Sessions, Established, SoundEntry, NoPrice, Contract!CInit,
      Contract!NoTrade, Flat

(* A call without a signal that keeps the trade.                            *)
LEMMA Keeps ==
  ASSUME eng.pos \in Positions, eng'.pos = eng.pos, eng'.sig = "none"
  PROVE  Contract!CNext
<1>1. CASE eng.pos = Flat
  BY <1>1 DEF Contract!CNext, Contract!Wait, Contract!NoTrade, Flat
<1>2. CASE eng.pos # Flat
  BY <1>2 DEF Contract!CNext, Contract!Hold, Contract!NoTrade, Flat, Positions, Trade,
              Contract!Trades, Contract!NoLooser, Directions
<1>3. QED
  BY <1>1, <1>2

(* Leaving a position is a step of the contract.                            *)
LEMMA Leaves ==
  ASSUME eng.pos # Flat, eng'.pos = Flat, eng'.sig = "EXIT"
  PROVE  Contract!CNext
BY DEF Contract!CNext, Contract!Leave, Contract!NoTrade, Flat

(* A bar of the session obeys the rules and the contract.                   *)
LEMMA InSessionStep ==
  ASSUME Inv, NEW t \in Timeline, InSession(t)
  PROVE  StepOK
<1>1. t \in Time /\ eng \in Engine /\ eng.last \in Time /\ before \in Nat /\ entered \in Nat
  BY Constants DEF Timeline, Time, Inv, TypeOK, Engine
<1>2. ZoneOf(t) \in Zones /\ eng.sid # NoSession /\ ZoneOf(t) # "AFTER" /\ SessionId(t) = eng.sid
  BY <1>1, ClockTypes DEF InSession
<1>3. Later(t, eng.last)
  BY <1>1, <1>2, TimeForward, Constants DEF InSession, Accepted
<1> DEFINE e == Begin(eng, t)
<1>4. /\ e \in Engine /\ e.last = t /\ e.sig = "none" /\ e.st = eng.st
      /\ e.pos = eng.pos /\ e.traded = eng.traded /\ e.fed = eng.fed
      /\ e.prior = eng.prior /\ e.sid = eng.sid
  BY <1>1, BeginOK
<1>5. PICK k \in Candles, r \in Readings(eng) : \E o \in Opens(eng, k) :
        eng' = Handle(e, k, r[1], Test(r, o)) /\ Record(k, t, FALSE)
  BY DEF InSession
<1>6. PICK o \in Opens(eng, k) :
        eng' = Handle(e, k, r[1], Test(r, o)) /\ Record(k, t, FALSE)
  BY <1>5
<1> HIDE DEF e
<1> DEFINE x == Test(r, o)
<1>7. r[1] \in Levels /\ x.open \in Nat /\ x.atr \in Atrs
  BY ReadingTypes
<1> HIDE DEF x
<1>8. Fits(e)
  <2>1. eng.st # "IDLE" => ZoneOf(t) # "BEFORE"
    BY <1>1, <1>2, <1>3, NeverBeforeAgain DEF Inv, Sessions
  <2>2. QED
    BY <1>2, <1>4, <2>1 DEF Fits, Inv, Sessions, Zones, Active
<1>9. eng' = Handle(e, k, r[1], x)
  BY <1>6 DEF x
<1> DEFINE act == IF ZoneOf(t) \in Active THEN 1 ELSE 0
           entry == Entry(e, eng', k) /\ Reads(e) /\ e.fed >= MinBars
<1>10. /\ Fits(eng') /\ eng'.sid = e.sid /\ eng'.last = t /\ eng'.prior = e.prior
       /\ eng'.fed <= e.fed + act
       /\ (eng'.sig = "none" /\ eng'.pos = e.pos /\ eng'.traded = e.traded) \/ entry
  BY <1>4, <1>7, <1>8, <1>9, HandleOK
<1>11. /\ close' = k.c
       /\ before' = IF ZoneOf(eng.last) \in Active THEN MinOf(before + 1, MinBars) ELSE before
       /\ entered' = entered + (IF eng'.sig = "ENTRY" THEN 1 ELSE 0)
  BY <1>6 DEF Record
<1>12. before' \in Nat /\ close' \in Nat
  BY <1>1, <1>11, Constants, Numbers DEF MinOf, Candles
<1>13. eng' \in Engine /\ eng'.fed \in 0 .. MinBars /\ eng.fed \in 0 .. MinBars
  BY <1>1, <1>10 DEF Fits, Engine
<1>15. Established(eng', before')
  BY <1>1, <1>4, <1>10, <1>11, <1>12, <1>13, Constants
  DEF Inv, Established, MinOf
<1>16. Sessions(eng')
  BY <1>2, <1>4, <1>10 DEF Fits, Inv, Sessions
<1>17. eng'.traded = entered' /\ entered' \in Nat
  BY <1>1, <1>4, <1>10, <1>11 DEF Entry, Inv
<1>18. Inv'
  BY <1>12, <1>13, <1>15, <1>16, <1>17 DEF Inv, TypeOK
<1>19. CASE entry
  <2>1. ZoneOf(t) \in Active
    BY <1>4, <1>8, <1>19 DEF Reads, Fits
  <2>2. Minutes(t, [d |-> eng'.sid, m |-> SessionOpen]) = SinceLastOpen(t)
        /\ SinceLastOpen(t) \in Int /\ SinceLastOpen(t) < SessionLen
    BY <1>1, <1>2, <1>4, <1>10, <2>1, SinceItsOpen
  <2>3. SinceLastOpen(t) >= BlockOpen /\ SessionLen - SinceLastOpen(t) >= BlockClose
    BY <1>4, <1>19, <2>2, Constants DEF Entry, InBlackout
  <2>4. before' >= MinBars
    BY <1>1, <1>4, <1>11, <1>12, <1>13, <1>19, Constants DEF Inv, Established, MinOf
  <2>5. entered' <= MaxTrades
    BY <1>1, <1>4, <1>11, <1>19, Constants DEF Entry, Inv
  <2>6. SoundEntry'
    BY <1>10, <1>11, <1>19, <2>2, <2>3, <2>4, <2>5 DEF SoundEntry, Entry, Behind
  <2>7. Contract!CNext
    BY <1>4, <1>19
    DEF Entry, Contract!CNext, Contract!Enter, Contract!NoTrade, Contract!Trades, Flat,
        Trade, Directions
  <2>8. QED
    BY <1>18, <2>6, <2>7 DEF StepOK
<1>20. CASE ~entry
  BY <1>1, <1>4, <1>10, <1>18, <1>20, Keeps DEF StepOK, SoundEntry, Engine
<1>21. QED
  BY <1>19, <1>20

(* A bar after the session does.                                            *)
LEMMA AfterSessionStep ==
  ASSUME Inv, NEW t \in Timeline, AfterSession(t)
  PROVE  StepOK
<1>1. t \in Time /\ eng \in Engine /\ before \in Nat /\ entered \in Nat /\ eng.pos \in Positions
  BY Constants DEF Timeline, Time, Inv, TypeOK, Engine
<1>2. ZoneOf(t) = "AFTER" /\ SessionId(t) = eng.sid /\ eng.sid # NoSession
  BY <1>1, ClockTypes DEF AfterSession
<1> DEFINE e == Begin(eng, t)
<1>3. /\ e \in Engine /\ e.last = t /\ e.sig = "none" /\ e.st = eng.st
      /\ e.pos = eng.pos /\ e.traded = eng.traded /\ e.fed = eng.fed
      /\ e.prior = eng.prior /\ e.sid = eng.sid
  BY <1>1, BeginOK
<1>4. eng' = IF eng.st = "BREAKOUT" THEN ForceExit(e, "IDLE") ELSE [e EXCEPT !.st = "IDLE"]
  BY DEF AfterSession, OnAfter
<1> HIDE DEF e
<1>5. PICK k \in Candles : Record(k, t, FALSE)
  BY DEF AfterSession
<1>6. /\ eng' \in Engine /\ eng'.last = t /\ eng'.st = "IDLE" /\ eng'.pos = Flat
      /\ eng'.traded = eng.traded /\ eng'.fed = eng.fed /\ eng'.prior = eng.prior
      /\ eng'.sid = eng.sid
      /\ eng'.sig = IF eng.st = "BREAKOUT" THEN "EXIT" ELSE "none"
  <2>1. CASE eng.st = "BREAKOUT"
    BY <1>3, <1>4, <2>1, ForceExitOK DEF States
  <2>2. CASE eng.st # "BREAKOUT"
    <3>1. eng.pos = Flat
      BY <2>2 DEF Inv, Sessions
    <3>2. eng' = [e EXCEPT !.st = "IDLE"]
      BY <1>4, <2>2
    <3>3. QED
      BY <1>3, <2>2, <3>1, <3>2 DEF Engine, States
  <2>3. QED
    BY <2>1, <2>2
<1>7. /\ close' = k.c
      /\ before' = IF ZoneOf(eng.last) \in Active THEN MinOf(before + 1, MinBars) ELSE before
      /\ entered' = entered
  BY <1>1, <1>5, <1>6 DEF Record
<1>8. before' \in Nat /\ close' \in Nat
  BY <1>1, <1>7, Constants, Numbers DEF MinOf, Candles
<1>9. eng.fed \in 0 .. MinBars
  BY <1>1 DEF Engine
<1>10. Established(eng', before')
  BY <1>1, <1>6, <1>7, <1>8, <1>9, Constants DEF Inv, Established, MinOf
<1>11. Inv'
  BY <1>1, <1>2, <1>6, <1>7, <1>8, <1>10 DEF Inv, TypeOK, Sessions
<1>12. Contract!CNext
  BY <1>1, <1>6, Keeps, Leaves DEF Inv, Sessions
<1>13. QED
  BY <1>6, <1>11, <1>12 DEF StepOK, SoundEntry

(* The first bar of a session does.                                         *)
LEMMA NewSessionStep ==
  ASSUME Inv, NEW t \in Timeline, NewSession(t)
  PROVE  StepOK
<1>1. t \in Time /\ eng \in Engine /\ before \in Nat /\ entered \in Nat /\ eng.pos \in Positions
  BY Constants DEF Timeline, Time, Inv, TypeOK, Engine
<1>2. SessionId(t) \in Int /\ SessionId(t) # NoSession
  BY <1>1, ClockTypes
<1>3. PICK k \in Candles, poc \in Prices, r \in Readings(InitEng) : \E o \in Opens(InitEng, k) :
        eng' = OnNewSession(eng, k, r[1], Test(r, o), t, poc) /\ Record(k, t, TRUE)
  BY DEF NewSession
<1>4. PICK o \in Opens(InitEng, k) :
        eng' = OnNewSession(eng, k, r[1], Test(r, o), t, poc) /\ Record(k, t, TRUE)
  BY <1>3
<1> DEFINE b == Begin(eng, t)
           e == RollSession(b, SessionId(t), poc)
           x == Test(r, o)
<1>5. poc \in Nat /\ x.open \in Nat
  BY Numbers, ReadingTypes
<1>6. /\ b \in Engine /\ b.last = t /\ b.sig = "none"
  BY <1>1, BeginOK
<1> HIDE DEF b, x
<1>7. /\ e \in Engine /\ e.sid = SessionId(t) /\ e.fed = 0 /\ e.st = "IDLE"
      /\ e.pos = Flat /\ e.traded = 0 /\ e.last = t /\ e.sig = "none"
      /\ e.prior # NoPrior => e.sid - e.prior.sid \in 1 .. 3
  BY <1>2, <1>5, <1>6, RollOK
<1> HIDE DEF e
<1>8. eng' = IF eng.st = "BREAKOUT" THEN [e EXCEPT !.sig = "EXIT"] ELSE Handle(e, k, r[1], x)
  BY <1>4 DEF OnNewSession, e, b, x
<1>9. /\ close' = k.c /\ before' = 0 /\ entered' = IF eng'.sig = "ENTRY" THEN 1 ELSE 0
      /\ close' \in Nat
  BY <1>4, Numbers DEF Record, Candles
<1>10. CASE eng.st = "BREAKOUT"
  <2>1. /\ eng' \in Engine /\ eng'.sid = SessionId(t) /\ eng'.fed = 0 /\ eng'.st = "IDLE"
        /\ eng'.pos = Flat /\ eng'.traded = 0 /\ eng'.last = t /\ eng'.sig = "EXIT"
        /\ eng'.prior = e.prior
    BY <1>7, <1>8, <1>10 DEF Engine
  <2>2. Inv'
    BY <1>2, <1>7, <1>9, <2>1 DEF Inv, TypeOK, Sessions, Established
  <2>3. Contract!CNext
    BY <1>10, <2>1, Leaves DEF Inv, Sessions
  <2>4. QED
    BY <2>1, <2>2, <2>3 DEF StepOK, SoundEntry
<1>11. CASE eng.st # "BREAKOUT"
  <2>1. Fits(e) /\ ~Reads(e)
    BY <1>7 DEF Fits, Reads
  <2>2. /\ Fits(eng') /\ eng'.sid = e.sid /\ eng'.last = t /\ eng'.prior = e.prior
        /\ eng'.fed <= e.fed + (IF ZoneOf(t) \in Active THEN 1 ELSE 0)
        /\ eng'.sig = "none" /\ eng'.pos = e.pos /\ eng'.traded = e.traded
    BY <1>5, <1>7, <1>8, <1>11, <2>1, HandleOK
  <2>3. Inv'
    BY <1>2, <1>7, <1>9, <2>2 DEF Inv, TypeOK, Sessions, Established, Fits
  <2>4. Contract!CNext
    BY <1>1, <1>7, <1>11, <2>2, Keeps DEF Inv, Sessions
  <2>5. QED
    BY <2>2, <2>3, <2>4 DEF StepOK, SoundEntry
<1>12. QED
  BY <1>10, <1>11

(* An entry the broker rejected does.                                       *)
LEMMA RejectStep ==
  ASSUME Inv, RejectCandle
  PROVE  StepOK
<1>1. eng \in Engine /\ eng' = [eng EXCEPT !.sig = "none"] /\ eng.pos \in Positions
  BY DEF RejectCandle, Inv, TypeOK, Engine
<1>2. /\ eng' \in Engine /\ eng'.sid = eng.sid /\ eng'.fed = eng.fed /\ eng'.st = eng.st
      /\ eng'.pos = eng.pos /\ eng'.traded = eng.traded /\ eng'.last = eng.last
      /\ eng'.sig = "none" /\ eng'.prior = eng.prior
  BY <1>1 DEF Engine
<1>3. Inv'
  BY <1>2 DEF RejectCandle, Inv, TypeOK, Sessions, Established
<1>4. QED
  BY <1>1, <1>2, <1>3, Keeps DEF StepOK, SoundEntry

(* The flattening from outside does.                                        *)
LEMMA ForceFlatStep ==
  ASSUME Inv, ForceFlat
  PROVE  StepOK
<1>1. eng \in Engine /\ eng' = ForceExit(eng, "RANGE_DEFINED") /\ eng.pos # Flat
  BY DEF ForceFlat, Inv, TypeOK
<1>2. /\ eng' \in Engine /\ eng'.sid = eng.sid /\ eng'.fed = eng.fed
      /\ eng'.st = "RANGE_DEFINED" /\ eng'.pos = Flat /\ eng'.traded = eng.traded
      /\ eng'.last = eng.last /\ eng'.sig = "EXIT" /\ eng'.prior = eng.prior
  BY <1>1, ForceExitOK DEF States
<1>3. eng.st = "BREAKOUT"
  BY <1>1 DEF Inv, Sessions
<1>4. Inv'
  BY <1>2, <1>3 DEF ForceFlat, Inv, TypeOK, Sessions, Established
<1>5. QED
  BY <1>1, <1>2, <1>4, Leaves DEF StepOK, SoundEntry

(* Every call of on_candle and force_flat.                                  *)
LEMMA NextStep == Inv /\ Next => StepOK
BY InSessionStep, AfterSessionStep, NewSessionStep, RejectStep, ForceFlatStep
DEF Next, OnCandle

(* A stuttering step does.                                                  *)
LEMMA StutterStep ==
  Inv /\ SoundEntry /\ UNCHANGED vars => StepOK
BY DEF vars, StepOK, Inv, TypeOK, Sessions, Established, SoundEntry, Contract!cvars

-----------------------------------------------------------------------------
(* The invariant holds after every call, and every entry is sound.          *)
THEOREM Invariance == Spec => [](Inv /\ SoundEntry)
<1>1. Inv /\ SoundEntry /\ [Next]_vars => (Inv /\ SoundEntry)'
  BY NextStep, StutterStep DEF StepOK
<1>2. QED
  BY <1>1, InitOK, PTL DEF Spec

(* No look-ahead, no entry in a blackout, the stop on the losing side of    *)
(* the close, and the session's cap (_detect_setup, _enter).                *)
THEOREM Soundness == Spec => []SoundEntry
BY Invariance, PTL

(* The prior profile is a recent other session's, and the engine is armed   *)
(* or in a trade only inside its session (_roll_session, on_candle).        *)
THEOREM Rules == Spec => []SessionRules
<1>1. Inv => SessionRules
  BY DEF Inv, Sessions, SessionRules
<1>2. QED
  BY <1>1, Invariance, PTL

(* The engine implements the contract of the live loop: it starts without a *)
(* trade, and every call is an entry, a hold, an exit or nothing.           *)
THEOREM Refinement == Spec => ImplementsContract
<1>1. Init => Contract!CInit
  BY InitOK
<1>2. Inv /\ SoundEntry /\ [Next]_vars => [Contract!CNext]_(Contract!cvars)
  BY NextStep, StutterStep DEF StepOK
<1>3. QED
  BY <1>1, <1>2, Invariance, PTL DEF Spec, ImplementsContract, Contract!CSpec
=============================================================================
