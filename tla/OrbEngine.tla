------------------------------ MODULE OrbEngine ------------------------------
(***************************************************************************)
(* orb/engine.py: the opening-range-breakout state machine.                *)
(*                                                                         *)
(* The engine is one object driven one bar at a time; its attributes are   *)
(* the fields of the record "eng", each method is an operator from the     *)
(* engine before the call to the engine after it, and the signal a call    *)
(* returns is the field "sig".  What is abstracted:                        *)
(*   - prices are integers;                                                *)
(*   - the three indicators are reset and fed together, so their readiness *)
(*     is one count, "fed", of the bars fed since the last rebuild; the    *)
(*     value of the ATR is any value of Atrs, and whether the momentum     *)
(*     gate passes is any Boolean when the gate is on;                     *)
(*   - _range_hi, _range_lo and _range_bars are always assigned together,  *)
(*     so "no range" is bars = 0;                                          *)
(*   - _last_ts and _session_id are both None until the first bar          *)
(*     (sid = NoSession) and neither is ever None afterwards.              *)
(* The bookkeeping that no decision reads (entry price, excursions,        *)
(* bars_held, transition log) is left out.                                 *)
(***************************************************************************)
EXTENDS SessionClock, PyMath

CONSTANTS
  MaxDay, MaxJump,       \* bounds: last calendar day; longest silence, minutes
  Prices, Atrs,          \* the prices bars are made of; the ATR readings
  BarMin,                \* expected_bar_sec in minutes
  MaxGapBars, OnGapReset,   \* max_gap_bars; on_gap = "reset"
  WarmBars,              \* bars until every enabled indicator is ready
  MomentumGate,          \* use_roc \/ use_rvol
  AllowLong, AllowShort,
  AtrMult, StopMin, StopMax, \* atr_mult; clamp (StopMin = 0: no floor)
  UseTp, TpRrr, TpPartial,   \* tp_rrr set; its value; tp_close_frac < 1
  Intrabar,              \* reentry_on = "intrabar"
  OneTrade, Rearm,       \* one_trade_per_session; rearm_after_exit
  RearmRebuild           \* rearm_range = "rebuild"

ASSUME EngineAssumption ==
  /\ MaxDay \in Nat /\ MaxJump \in Nat
  /\ Prices \subseteq Nat /\ Atrs \subseteq Nat
  /\ BarMin \in Nat \ {0} /\ MaxGapBars \in Nat
  /\ WarmBars \in Nat \ {0}
  /\ AtrMult \in Nat \ {0} /\ StopMin \in Nat /\ StopMax \in Nat \ {0}
  /\ StopMin <= StopMax
  /\ TpRrr \in Nat \ {0}
  /\ {OnGapReset, MomentumGate, AllowLong, AllowShort, UseTp, TpPartial,
      Intrabar, OneTrade, Rearm, RearmRebuild} \subseteq BOOLEAN
  /\ AllowLong \/ AllowShort

VARIABLES
  eng,      \* the engine
  lastClose, \* close of the last bar the engine accepted (history)
  trades    \* entries since the engine was last reset, by a session change
            \* or by a gap (history)

vars == <<eng, lastClose, trades>>

-----------------------------------------------------------------------------
NoSession == -2  \* -1 is the session of the day before day 0
Flat == [dir |-> "none", stop |-> 0, hasTp |-> FALSE, tp |-> 0]
NoSig == [kind |-> "none", dir |-> "none", reason |-> "none"]

States == {"IDLE", "RANGE_DEFINED", "BREAKOUT"}
Directions == {"LONG", "SHORT"}

Signal(kind, dir, reason) == [kind |-> kind, dir |-> dir, reason |-> reason]

(* A bar: high, low, close, and what the indicators say once it is fed. *)
Bars == {b \in [h : Prices, l : Prices, c : Prices, atr : Atrs, mom : BOOLEAN] :
           /\ b.l <= b.c /\ b.c <= b.h
           /\ MomentumGate \/ b.mom}

-----------------------------------------------------------------------------
(* Range helpers *)

ClearRange(e) == [e EXCEPT !.hi = 0, !.lo = 0, !.bars = 0, !.locked = FALSE]

LockRange(e) == [e EXCEPT !.locked = TRUE, !.rebuild = FALSE]

MaybeLock(e) == IF e.bars >= RangeMin THEN LockRange(e) ELSE e

Warm(e) == e.fed >= WarmBars

StopDist(atr) == MaxOf(MinOf(AtrMult * atr, StopMax), StopMin)

-----------------------------------------------------------------------------
(* Exits *)

MutPostExitState(e) == IF e.locked THEN "RANGE_DEFINED" ELSE "IDLE"

PostExitState(e) ==
  IF ~OneTrade /\ Rearm /\ (RearmRebuild \/ e.locked)
  THEN "RANGE_DEFINED" ELSE "IDLE"

RearmAt(e, to) ==
  IF to = "RANGE_DEFINED" /\ RearmRebuild
  THEN [ClearRange(e) EXCEPT !.rebuild = TRUE] ELSE e

Exit(e, reason, to) ==
  RearmAt([e EXCEPT !.st = to, !.pos = Flat,
                    !.sig = Signal("EXIT", e.pos.dir, reason)], to)

RangeReentered(e, b) ==
  IF e.pos.dir = "LONG"
  THEN (IF Intrabar THEN b.l ELSE b.c) <= e.hi
  ELSE (IF Intrabar THEN b.h ELSE b.c) >= e.lo

TpHit(e, b) ==
  /\ e.pos.hasTp
  /\ IF e.pos.dir = "LONG"
     THEN (IF Intrabar THEN b.h ELSE b.c) >= e.pos.tp
     ELSE (IF Intrabar THEN b.l ELSE b.c) <= e.pos.tp

TrailHit(e, b) ==
  IF e.pos.dir = "LONG"
  THEN (IF Intrabar THEN b.l ELSE b.c) <= e.pos.stop
  ELSE (IF Intrabar THEN b.h ELSE b.c) >= e.pos.stop

PartialTp(e) ==
  [e EXCEPT !.sig = Signal("EXIT", e.pos.dir, "take_profit_partial"),
            !.pos = [dir |-> e.pos.dir, stop |-> e.pos.stop,
                     hasTp |-> FALSE, tp |-> 0]]

MutRatchet(e, b) ==
  [e EXCEPT !.pos.stop =
     IF e.pos.dir = "LONG" THEN b.c - StopDist(b.atr) ELSE b.c + StopDist(b.atr)]

Ratchet(e, b) ==
  [e EXCEPT !.pos.stop =
     IF e.pos.dir = "LONG" THEN MaxOf(@, b.c - StopDist(b.atr))
                           ELSE MinOf(@, b.c + StopDist(b.atr))]

(* Precedence: re-entry, then take profit, then trail stop, then ratchet. *)
MutOnBreakout(e, b) ==
  IF TpHit(e, b) THEN IF TpPartial THEN PartialTp(e)
                      ELSE Exit(e, "take_profit", PostExitState(e))
  ELSE IF TrailHit(e, b) THEN Exit(e, "trail_stop", PostExitState(e))
  ELSE Ratchet(e, b)

OnBreakout(e, b) ==
  IF RangeReentered(e, b) THEN Exit(e, "range_reentry", PostExitState(e))
  ELSE IF TpHit(e, b) THEN IF TpPartial THEN PartialTp(e)
                           ELSE Exit(e, "take_profit", PostExitState(e))
  ELSE IF TrailHit(e, b) THEN Exit(e, "trail_stop", PostExitState(e))
  ELSE Ratchet(e, b)

-----------------------------------------------------------------------------
(* Range building and breakout *)

OnIdle(e, b, zone) ==
  IF zone = "IN_RANGE_WINDOW"
  THEN MaybeLock([e EXCEPT !.hi = b.h, !.lo = b.l, !.bars = 1,
                           !.locked = FALSE, !.st = "RANGE_DEFINED"])
  ELSE e

ExtendRange(e, b) ==
  IF e.bars = 0
  THEN [e EXCEPT !.hi = b.h, !.lo = b.l, !.bars = 1]
  ELSE [e EXCEPT !.hi = MaxOf(@, b.h), !.lo = MinOf(@, b.l), !.bars = @ + 1]

BreakoutDir(e, b) ==
  IF b.c > e.hi THEN "LONG" ELSE IF b.c < e.lo THEN "SHORT" ELSE "none"

Allowed(dir) == (dir = "LONG" /\ AllowLong) \/ (dir = "SHORT" /\ AllowShort)

OpenPosition(e, b, dir) ==
  LET dist == StopDist(b.atr)
      away == IF dir = "LONG" THEN dist ELSE 0 - dist
  IN [e EXCEPT !.st = "BREAKOUT", !.traded = TRUE,
               !.pos = [dir |-> dir, stop |-> b.c - away, hasTp |-> UseTp,
                        tp |-> IF UseTp THEN b.c + TpRrr * away ELSE 0],
               !.sig = Signal("ENTRY", dir, "breakout")]

CheckBreakout(e, b) ==
  LET dir == BreakoutDir(e, b) IN
  IF ~Allowed(dir) THEN e
  ELSE IF ~b.mom THEN [e EXCEPT !.sig = Signal("REJECT", dir, "momentum_fail")]
  ELSE OpenPosition(e, b, dir)

OnRangeDefined(e, b, zone) ==
  IF (zone = "IN_RANGE_WINDOW" \/ e.rebuild) /\ ~e.locked
  THEN MaybeLock(ExtendRange(e, b))
  ELSE LET f == IF zone = "IN_SESSION" /\ ~e.locked THEN LockRange(e) ELSE e
       IN IF Warm(f) THEN CheckBreakout(f, b) ELSE f

-----------------------------------------------------------------------------
(* Resets *)

MutHandleGapReset(e, zone) ==
  LET f == IF e.st = "BREAKOUT" THEN Exit(e, "gap_invalidate", "IDLE") ELSE e
      g == [ClearRange(f) EXCEPT !.fed = 0]
  IN [g EXCEPT !.st = "RANGE_DEFINED"]

HandleGapReset(e, zone) ==
  LET f == IF e.st = "BREAKOUT" THEN Exit(e, "gap_invalidate", "IDLE") ELSE e
      g == [ClearRange(f) EXCEPT !.fed = 0]
  IN IF zone \in Active THEN [g EXCEPT !.st = "RANGE_DEFINED", !.rebuild = TRUE]
                        ELSE [g EXCEPT !.st = "IDLE", !.rebuild = FALSE]

ResetForNewSession(e, sid) ==
  [ClearRange(e) EXCEPT !.st = "IDLE", !.pos = Flat, !.rebuild = FALSE,
                        !.traded = FALSE, !.fed = 0, !.sid = sid]

(* Steps 4 and 5 of on_candle: feed the indicators, then dispatch. *)
Dispatch(e, b, zone) ==
  LET f == IF zone \in Active THEN [e EXCEPT !.fed = MinOf(@ + 1, WarmBars)]
                              ELSE e
  IN CASE f.st = "IDLE" -> OnIdle(f, b, zone)
       [] f.st = "RANGE_DEFINED" -> OnRangeDefined(f, b, zone)
       [] f.st = "BREAKOUT" -> OnBreakout(f, b)

(* The engine as on_candle starts on an accepted bar at t. *)
Begin(e, t) == [e EXCEPT !.last = t, !.sig = NoSig]

(* Step 2: a bar of another session. *)
MutNewSession(e, b, t) ==
  Dispatch(ResetForNewSession(Begin(e, t), SessionId(t)), b, ZoneOf(t))

NewSession(e, b, t) ==
  LET f == Begin(e, t) IN
  IF e.st = "BREAKOUT"
  THEN ResetForNewSession(Exit(f, "session_end", "IDLE"), SessionId(t))
  ELSE Dispatch(ResetForNewSession(f, SessionId(t)), b, ZoneOf(t))

(* The same session, past its end. *)
MutAfterClose(e, t) == Begin(e, t)

AfterClose(e, t) ==
  LET f == Begin(e, t) IN
  CASE e.st = "BREAKOUT" -> Exit(f, "session_end", "IDLE")
    [] e.st = "RANGE_DEFINED" -> [ClearRange(f) EXCEPT !.st = "IDLE"]
    [] e.st = "IDLE" -> f

Gap(e, t) == RoundDiv(Minutes(t, e.last), BarMin) - 1

IsReset(e, t) == Gap(e, t) > 0 /\ (Gap(e, t) > MaxGapBars \/ OnGapReset)

(* Step 3: the same session after a hole in the data. *)
GapReset(e, b, t) ==
  LET f == HandleGapReset(Begin(e, t), ZoneOf(t))
  IN IF e.st = "BREAKOUT" THEN f ELSE Dispatch(f, b, ZoneOf(t))

-----------------------------------------------------------------------------
(* force_flat: the broker closed the position; drop it and re-arm. *)
ForceFlatOf(e) ==
  Exit([e EXCEPT !.sig = NoSig], "broker_closed", PostExitState(e))

InitEng ==
  [st |-> "IDLE", hi |-> 0, lo |-> 0, bars |-> 0, locked |-> FALSE,
   rebuild |-> FALSE, pos |-> Flat, traded |-> FALSE, fed |-> 0,
   sid |-> NoSession, last |-> [d |-> 0, m |-> 0], sig |-> NoSig]

Init ==
  /\ eng = InitEng
  /\ lastClose = 0
  /\ trades = 0

Accepted(t) == eng.sid = NoSession \/ Later(t, eng.last)

(* The counter of entries, for the property about trade policy. *)
CountTrades(reset) ==
  trades' = (IF reset THEN 0 ELSE trades)
              + (IF eng'.sig.kind = "ENTRY" THEN 1 ELSE 0)

OnNewSession(b, t) ==
  /\ Accepted(t) /\ SessionId(t) # eng.sid
  /\ eng' = NewSession(eng, b, t)
  /\ lastClose' = b.c
  /\ CountTrades(TRUE)

OnAfterClose(b, t) ==
  /\ Accepted(t) /\ SessionId(t) = eng.sid /\ ZoneOf(t) = "AFTER"
  /\ eng' = AfterClose(eng, t)
  /\ lastClose' = b.c
  /\ CountTrades(FALSE)

OnGap(b, t) ==
  /\ Accepted(t) /\ SessionId(t) = eng.sid /\ ZoneOf(t) # "AFTER"
  /\ IsReset(eng, t)
  /\ eng' = GapReset(eng, b, t)
  /\ lastClose' = b.c
  /\ CountTrades(TRUE)

OnBar(b, t) ==
  /\ Accepted(t) /\ SessionId(t) = eng.sid /\ ZoneOf(t) # "AFTER"
  /\ ~IsReset(eng, t)
  /\ eng' = Dispatch(Begin(eng, t), b, ZoneOf(t))
  /\ lastClose' = b.c
  /\ CountTrades(FALSE)

(* A malformed, late or repeated bar: on_candle raises or drops it. *)
RejectCandle ==
  /\ eng.sid # NoSession
  /\ eng' = [eng EXCEPT !.sig = NoSig]
  /\ UNCHANGED <<lastClose, trades>>

(* The live loop found the position gone at the broker. *)
ForceFlat ==
  /\ eng.pos # Flat
  /\ eng' = ForceFlatOf(eng)
  /\ UNCHANGED <<lastClose, trades>>

(* Timestamps inside the modelled horizon; silence is bounded by MaxJump. *)
InHorizon(t) ==
  /\ t.d <= MaxDay
  /\ eng.sid # NoSession => Minutes(t, eng.last) <= MaxJump

OnCandle(b, t) ==
  OnNewSession(b, t) \/ OnAfterClose(b, t) \/ OnGap(b, t) \/ OnBar(b, t)

Timeline == [d : 0 .. MaxDay, m : 0 .. DayMin - 1]

NextCandle == \E b \in Bars, t \in Timeline : InHorizon(t) /\ OnCandle(b, t)

Next == NextCandle \/ RejectCandle \/ ForceFlat

Spec == Init /\ [][Next]_vars

(* Bars keep arriving until the horizon ends: the feed loop polls for as    *)
(* long as the process runs.  (What WF_vars(NextCandle) says, in a form     *)
(* that is cheap to evaluate.)                                              *)
HorizonEnd == eng.last = [d |-> MaxDay, m |-> DayMin - 1]
BarsArrive == []<>HorizonEnd \/ []<><<eng'.last # eng.last>>_vars

FairSpec == Spec /\ BarsArrive

-----------------------------------------------------------------------------
Position == [dir : Directions \cup {"none"}, stop : Int, hasTp : BOOLEAN, tp : Int]
SigType == [kind : {"none", "ENTRY", "EXIT", "REJECT"},
            dir : Directions \cup {"none"},
            reason : {"none", "breakout", "momentum_fail", "range_reentry",
                      "take_profit", "take_profit_partial", "trail_stop",
                      "session_end", "gap_invalidate", "broker_closed"}]
Engine == [st : States, hi : Nat, lo : Nat, bars : 0 .. RangeMin,
           locked : BOOLEAN, rebuild : BOOLEAN, pos : Position,
           traded : BOOLEAN, fed : 0 .. WarmBars, sid : Int,
           last : Time, sig : SigType]

(* Every attribute keeps its type, and a range never collects more bars     *)
(* than range_minutes: _maybe_lock stops the building in time.              *)
TypeOK ==
  /\ eng \in Engine
  /\ lastClose \in Prices \cup {0}
  /\ trades \in Nat

-----------------------------------------------------------------------------
(* State, position and range agree.  A simulated position exists exactly in *)
(* BREAKOUT; it was opened on a locked range by warm indicators, so every   *)
(* read of _pos, of the range and of the ATR in _on_breakout finds a value. *)
PositionOK(e) ==
  /\ e.st = "BREAKOUT" <=> e.pos # Flat
  /\ e.st = "BREAKOUT" => e.locked /\ Warm(e) /\ Allowed(e.pos.dir)
PositionInv == PositionOK(eng)

(* An armed engine either has a range or is about to build one: the range   *)
(* compared with a close in _check_breakout is never None, whatever order   *)
(* of gaps, session changes and forced exits led here.                      *)
RangeOK(e) ==
  /\ e.locked => e.bars > 0 /\ ~e.rebuild
  /\ ~e.locked => e.bars < RangeMin
  /\ e.bars > 0 => e.lo <= e.hi
  /\ e.st = "RANGE_DEFINED" => e.bars > 0 \/ e.rebuild
RangeInv == RangeOK(eng)

(* The engine is armed or in a trade only while the last bar it accepted    *)
(* lies inside the window of the session it works on, also for a session    *)
(* that crosses midnight.                                                   *)
SessionInv ==
  eng.st # "IDLE" =>
    /\ ZoneOf(eng.last) \in Active
    /\ SessionId(eng.last) = eng.sid

(* The three agree after every call, whatever order of bars, gaps, session  *)
(* changes and forced exits led there: no handler of on_candle meets a      *)
(* missing position, range, indicator or session.                           *)
Coherence == PositionInv /\ RangeInv /\ SessionInv

(* A position never survives a bar that closed back inside the range that   *)
(* was broken (_range_reentered has precedence over every other exit).      *)
OutsideRange(e, c) ==
  e.st = "BREAKOUT" => IF e.pos.dir = "LONG" THEN c > e.hi ELSE c < e.lo
HeldOutsideRange == OutsideRange(eng, lastClose)

(* With exits judged on closes, the stop of a held position is never on the *)
(* wrong side of the last close, nor beyond the take profit.                *)
StopBehind(e, c) ==
  e.st = "BREAKOUT" /\ ~Intrabar =>
    IF e.pos.dir = "LONG"
    THEN e.pos.stop <= c /\ (e.pos.hasTp => e.pos.stop <= e.pos.tp)
    ELSE e.pos.stop >= c /\ (e.pos.hasTp => e.pos.stop >= e.pos.tp)
StopBehindClose == StopBehind(eng, lastClose)

(* What holds of a position after every bar: it lies outside the broken     *)
(* range and in front of its stop (the exits of _on_breakout run before the *)
(* ratchet, and on every bar).                                              *)
HeldTrade == HeldOutsideRange /\ StopBehindClose

(* The trailing stop of a position never loosens, and a position never      *)
(* turns into another one without an exit in between (_on_breakout).        *)
Tightens(e, f) ==
  e.st = "BREAKOUT" /\ f.st = "BREAKOUT" =>
    /\ f.pos.dir = e.pos.dir
    /\ IF e.pos.dir = "LONG" THEN f.pos.stop >= e.pos.stop
                             ELSE f.pos.stop <= e.pos.stop
StopNeverLoosens == [][Tightens(eng, eng')]_vars

(* Whoever acts on the signals can follow the position: it opens exactly    *)
(* with an ENTRY and disappears exactly with a full EXIT.  No reset, gap or *)
(* session change drops a position without telling the broker.              *)
Announced(e, f) ==
  /\ (e.pos = Flat /\ f.pos # Flat) <=> f.sig.kind = "ENTRY"
  /\ (e.pos # Flat /\ f.pos = Flat) <=>
       (f.sig.kind = "EXIT" /\ f.sig.reason # "take_profit_partial")
EveryChangeAnnounced == [][Announced(eng, eng')]_vars

(* The engine keeps the contract the live loop is written against: seen     *)
(* through its position and its signals, every call is a step of            *)
(* EngineContract.                                                          *)
BelievedTrade == [dir |-> eng.pos.dir, stop |-> eng.pos.stop]
SignalKind ==
  IF eng.sig.reason = "take_profit_partial" THEN "PARTIAL" ELSE eng.sig.kind
Contract == INSTANCE EngineContract
              WITH Stops <- Int, cpos <- BelievedTrade, csig <- SignalKind
ImplementsContract == Contract!CSpec

(* With one_trade_per_session the engine enters at most once between two    *)
(* resets, a reset being a session change or an intraday data gap.          *)
OneTradePerReset == OneTrade => trades <= 1

(* As long as bars keep coming, every simulated position is closed again:   *)
(* by an exit rule, by the end of the session or by the next session.       *)
PositionEventuallyCloses == eng.st = "BREAKOUT" ~> eng.st # "BREAKOUT"
=============================================================================
