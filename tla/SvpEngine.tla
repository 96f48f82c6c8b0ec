------------------------------ MODULE SvpEngine ------------------------------
(***************************************************************************)
(* orb/svp/strategy.py: the session-volume-profile entry machine.          *)
(*                                                                         *)
(* A session's bars build a volume profile; a setup is judged against the  *)
(* levels the profile had BEFORE the bar.  Exits belong to the babysitter: *)
(* the engine leaves a position only at the end of the session or when it  *)
(* is told that the broker closed it.                                      *)
(*                                                                         *)
(* What is abstracted: prices are integers; the levels of a profile that   *)
(* is ready are any with val <= poc <= vah (SvpTrackers models how they    *)
(* are found); the swing bias, the volume tests and the ATR read anything. *)
(* A profile is ready after MinBars bars with volume.                      *)
(***************************************************************************)
EXTENDS SessionClock, PyMath

CONSTANTS
  MaxDay, Silences,      \* bounds: last calendar day; minutes between two bars
  Prices, Atrs,          \* prices; readings of the ATR, 0 for "not ready"
  MinBars,               \* min_session_bars
  MaxTrades,             \* max_trades_per_session
  Buffer,                \* stop_buffer_ticks
  EnableEdge, EnableLvn, EnableAbsorption,
  AllowLong, AllowShort,
  BlockOpen, BlockClose, \* block_open_min, block_close_min
  Killzone,              \* minutes of the day inside a killzone; {}: no killzones
  TrendMode, UseDelta,   \* trend_filter_mode, use_delta_confirmation
  AtrMult, AtrFloor      \* atr_stop_mult; atr_stop_floor_structural

(* SvpConfig.__post_init__, as far as the engine reads the fields. *)
SvpValid ==
  /\ Buffer \in Nat /\ MinBars \in Nat \ {0} /\ MaxTrades \in Nat \ {0}
  /\ {EnableEdge, EnableLvn, EnableAbsorption, AllowLong, AllowShort, UseDelta,
      AtrFloor} \subseteq BOOLEAN
  /\ AllowLong \/ AllowShort
  /\ TrendMode \in {"off", "open", "structure", "both", "either"}
  /\ {AtrMult, BlockOpen, BlockClose} \subseteq Nat
  /\ Killzone \subseteq 0 .. DayMin - 1
  /\ SessionLen >= 2

ASSUME SvpAssumption ==
  /\ SvpValid
  /\ RangeMin = 1 /\ MaxDay \in Nat /\ Silences \subseteq Nat \ {0}
  /\ Prices \subseteq Nat \ {0} /\ Atrs \subseteq Nat /\ Atrs # {}

VARIABLES
  eng,     \* the engine
  before,  \* in-session bars fed before the last one (history)
  close,   \* close of the last bar accepted (history)
  entered  \* entries in the session (history)

vars == <<eng, before, close, entered>>

-----------------------------------------------------------------------------
NoSession == -2
NoPrice == 0
Flat == [dir |-> "none", stop |-> 0]
NoPrior == [sid |-> NoSession, poc |-> NoPrice]
Directions == {"LONG", "SHORT"}

Candles == {k \in [h : Prices, l : Prices, c : Prices] : k.l <= k.c /\ k.c <= k.h}

(* Value area of a ready profile, which matters on a balanced day only, and *)
(* the first of its low-volume nodes the bar's close lies beyond, if any.   *)
NoArea == [val |-> NoPrice, vah |-> NoPrice]
Areas == {a \in [val : Prices, vah : Prices] : a.val <= a.vah}
Levels == [area : Areas \cup {NoArea}, lvn : Prices \cup {NoPrice}]

(* What the indicators say of a bar: on which side a rejection wick on      *)
(* heavy volume shows at a high-volume node, whether the delta filter       *)
(* agrees, the swing bias, the ATR, and the bar's open.                     *)
Tests ==
  [wick : {"none"} \cup (IF EnableAbsorption THEN Directions ELSE {}),
   delta : IF UseDelta THEN BOOLEAN ELSE {TRUE},
   swing : {"none"} \cup (IF TrendMode \in {"off", "open"} THEN {} ELSE Directions),
   atr : Atrs, open : {NoPrice}]

-----------------------------------------------------------------------------
(* Setups: what a bar offers of each kind, at most one entry.               *)
Offer(dir, stop) ==
  IF (dir = "LONG" /\ AllowLong) \/ (dir = "SHORT" /\ AllowShort)
  THEN {[dir |-> dir, stop |-> stop]} ELSE {}

(* Fade a value-area edge back towards the POC on a balanced day. *)
EdgeRotation(k, a) ==
  IF ~EnableEdge \/ a = NoArea \/ ~(a.val < k.c /\ k.c < a.vah) THEN {}
  ELSE IF k.h >= a.vah /\ k.l > a.val THEN Offer("SHORT", a.vah + Buffer)
  ELSE IF k.l <= a.val /\ k.h < a.vah THEN Offer("LONG", a.val - Buffer)
  ELSE {}

(* A close through a low-volume node on the way. *)
LvnBreak(k, lvn, prev) ==
  IF ~EnableLvn \/ NoPrice \in {prev, lvn} THEN {}
  ELSE IF prev <= lvn /\ lvn < k.c THEN Offer("LONG", lvn - Buffer)
  ELSE IF prev >= lvn /\ lvn > k.c THEN Offer("SHORT", lvn + Buffer)
  ELSE {}

(* A rejection wick, at least a tick long, at a high-volume node. *)
Absorption(k, wick) ==
  IF wick = "LONG" /\ k.l < k.c THEN Offer("LONG", k.l - Buffer)
  ELSE IF wick = "SHORT" /\ k.c < k.h THEN Offer("SHORT", k.h + Buffer)
  ELSE {}

-----------------------------------------------------------------------------
(* Filters *)

(* _in_blackout finds the last open from the calendar, not from the clock. *)
SinceLastOpen(t) == IF SinceOpen(t) < 0 THEN SincePrevOpen(t) ELSE SinceOpen(t)

InBlackout(t) ==
  \/ SinceLastOpen(t) < BlockOpen
  \/ BlockClose > 0 /\ SessionLen - SinceLastOpen(t) < BlockClose
  \/ Killzone # {} /\ t.m \notin Killzone

(* _bias_open: the session's open against the prior session's POC. *)
BiasOpen(e) ==
  IF e.prior = NoPrior \/ e.openPx \in {NoPrice, e.prior.poc} THEN "none"
  ELSE IF e.openPx > e.prior.poc THEN "LONG" ELSE "SHORT"

TrendOk(e, dir, swing) ==
  CASE TrendMode = "off" -> TRUE
    [] TrendMode = "open" -> BiasOpen(e) = dir
    [] TrendMode = "structure" -> swing = dir
    [] TrendMode = "both" -> BiasOpen(e) = dir /\ swing = dir
    [] TrendMode = "either" -> BiasOpen(e) = dir \/ swing = dir

EntryAllowed(e, dir, x) ==
  ~InBlackout(e.last) /\ TrendOk(e, dir, x.swing) /\ x.delta

(* _risk_stop: an ATR stop, by default never tighter than the structure. *)
RiskStop(k, s, atr) ==
  LET away == AtrMult * atr
      stop == IF s.dir = "LONG" THEN k.c - away ELSE k.c + away
  IN IF AtrMult = 0 \/ atr = 0 THEN s.stop
     ELSE IF ~AtrFloor THEN stop
     ELSE IF s.dir = "LONG" THEN MinOf(stop, s.stop) ELSE MaxOf(stop, s.stop)

(* _detect_setup: the first setup, in this order, the filters let through.  *)
Setups(e, k, v, x) ==
  LET Allowed(offers) == {s \in offers : EntryAllowed(e, s.dir, x)}
      edge == Allowed(EdgeRotation(k, v.area))
      lvn == Allowed(LvnBreak(k, v.lvn, e.prevClose))
  IN IF edge # {} THEN edge ELSE IF lvn # {} THEN lvn ELSE Allowed(Absorption(k, x.wick))

(* _enter *)
DetectSetup(e, k, v, x) ==
  LET open == Setups(e, k, v, x)
      s == CHOOSE s \in open : TRUE
  IN IF open = {} THEN e
     ELSE [e EXCEPT !.pos = [dir |-> s.dir, stop |-> RiskStop(k, s, x.atr)],
                    !.traded = @ + 1, !.st = "BREAKOUT", !.sig = "ENTRY"]

-----------------------------------------------------------------------------
(* Sessions *)
MutGapOk(old, new) == new - old <= 4

GapOk(old, new) == 0 < new - old /\ new - old <= 3

(* _roll_session: carry the finished profile over, start afresh. *)
RollSession(e, sid, poc) ==
  [e EXCEPT !.prior = IF e.fed >= MinBars /\ GapOk(e.sid, sid)
                      THEN [sid |-> e.sid, poc |-> poc] ELSE NoPrior,
            !.fed = 0, !.openPx = NoPrice, !.prevClose = NoPrice,
            !.st = "IDLE", !.pos = Flat, !.traded = 0, !.sid = sid]

ForceExit(e, to) == [e EXCEPT !.pos = Flat, !.st = to, !.sig = "EXIT"]

Begin(e, t) == [e EXCEPT !.last = t, !.sig = "none"]

(* Steps 3 and 4 of on_candle: feed the profile, then dispatch; prevClose   *)
(* and the levels are those from before the bar.                            *)
Feed(e, open) ==
  [e EXCEPT !.fed = MinOf(@ + 1, MinBars),
            !.openPx = IF @ = NoPrice THEN open ELSE @]

MutHandle(e, k, v, x) ==
  LET f == Feed(e, x.open)
      g == CASE e.st = "IDLE" -> [f EXCEPT !.st = "RANGE_DEFINED"]
             [] e.st = "RANGE_DEFINED" ->
                  IF e.traded < MaxTrades /\ f.fed >= MinBars
                  THEN DetectSetup(f, k, v, x) ELSE f
             [] e.st = "BREAKOUT" -> f
  IN IF ZoneOf(e.last) \in Active THEN [g EXCEPT !.prevClose = k.c] ELSE e

Handle(e, k, v, x) ==
  LET f == Feed(e, x.open)
      g == CASE e.st = "IDLE" -> [f EXCEPT !.st = "RANGE_DEFINED"]
             [] e.st = "RANGE_DEFINED" ->
                  IF e.traded < MaxTrades /\ e.fed >= MinBars
                  THEN DetectSetup(f, k, v, x) ELSE f
             [] e.st = "BREAKOUT" -> f
  IN IF ZoneOf(e.last) \in Active THEN [g EXCEPT !.prevClose = k.c] ELSE e

(* The first bar of another session; an open position is exited first, and  *)
(* that bar is then not looked at any further.                              *)
MutOnNewSession(e, k, v, x, t, poc) ==
  Handle(RollSession(Begin(e, t), SessionId(t), poc), k, v, x)

OnNewSession(e, k, v, x, t, poc) ==
  LET rolled == RollSession(Begin(e, t), SessionId(t), poc) IN
  IF e.st = "BREAKOUT" THEN [rolled EXCEPT !.sig = "EXIT"]
  ELSE Handle(rolled, k, v, x)

(* The same session, past its end. *)
OnAfter(e, t) ==
  IF e.st = "BREAKOUT" THEN ForceExit(Begin(e, t), "IDLE")
  ELSE [Begin(e, t) EXCEPT !.st = "IDLE"]

-----------------------------------------------------------------------------
InitEng ==
  [st |-> "IDLE", pos |-> Flat, traded |-> 0, fed |-> 0, prior |-> NoPrior,
   openPx |-> NoPrice, prevClose |-> NoPrice, sid |-> NoSession,
   last |-> [d |-> 0, m |-> 0], sig |-> "none"]

Init == eng = InitEng /\ before = 0 /\ close = NoPrice /\ entered = 0

Accepted(t) ==
  IF eng.sid = NoSession THEN t.d = 0 ELSE Minutes(t, eng.last) \in Silences

(* The bar goes into the history. *)
Record(k, t, fresh) ==
  /\ close' = k.c
  /\ before' = IF fresh THEN 0
               ELSE IF ZoneOf(eng.last) \in Active THEN MinOf(before + 1, MinBars)
               ELSE before
  /\ entered' = (IF fresh THEN 0 ELSE entered) + (IF eng'.sig = "ENTRY" THEN 1 ELSE 0)

(* Levels and tests are read only by an armed engine with a ready profile,  *)
(* the open only of the session's first bar.                                *)
Reads(e) == e.st = "RANGE_DEFINED" /\ e.fed + 1 >= MinBars /\ e.traded < MaxTrades

Readings(e) == IF Reads(e) THEN Levels \X Tests ELSE {CHOOSE r \in Levels \X Tests : TRUE}

Opens(e, k) == IF e.openPx = NoPrice THEN Prices \cap k.l .. k.h ELSE {k.c}

Test(r, open) == [r[2] EXCEPT !.open = open]

NewSession(t) ==
  /\ Accepted(t) /\ SessionId(t) # eng.sid
  /\ \E k \in Candles, poc \in Prices, r \in Readings(InitEng) :
     \E o \in Opens(InitEng, k) :
       /\ eng' = OnNewSession(eng, k, r[1], Test(r, o), t, poc)
       /\ Record(k, t, TRUE)

AfterSession(t) ==
  /\ Accepted(t) /\ SessionId(t) = eng.sid /\ ZoneOf(t) = "AFTER"
  /\ eng' = OnAfter(eng, t)
  /\ \E k \in Candles : Record(k, t, FALSE)

InSession(t) ==
  /\ Accepted(t) /\ SessionId(t) = eng.sid /\ ZoneOf(t) # "AFTER"
  /\ \E k \in Candles, r \in Readings(eng) : \E o \in Opens(eng, k) :
       /\ eng' = Handle(Begin(eng, t), k, r[1], Test(r, o))
       /\ Record(k, t, FALSE)

(* A late, repeated or malformed bar is dropped or raises. *)
RejectCandle ==
  /\ eng.sid # NoSession
  /\ eng' = [eng EXCEPT !.sig = "none"]
  /\ UNCHANGED <<before, close, entered>>

(* force_flat: the broker closed the position; armed for another setup. *)
ForceFlat ==
  /\ eng.pos # Flat
  /\ eng' = ForceExit(eng, "RANGE_DEFINED")
  /\ UNCHANGED <<before, close, entered>>

Timeline == [d : 0 .. MaxDay, m : 0 .. DayMin - 1]

OnCandle(t) == NewSession(t) \/ AfterSession(t) \/ InSession(t)

Next == (\E t \in Timeline : OnCandle(t)) \/ RejectCandle \/ ForceFlat

Spec == Init /\ [][Next]_vars

-----------------------------------------------------------------------------
(* Every entry is made by levels at least MinBars bars of its own session   *)
(* had established before the bar (no look-ahead), outside the blackouts    *)
(* that are measured from the session's own open and close, with its stop   *)
(* on the losing side of the close, and as one of at most                   *)
(* max_trades_per_session in its session, however often the broker closed   *)
(* a position in between.                                                   *)
SoundEntry ==
  eng.sig = "ENTRY" =>
    LET since == Minutes(eng.last, [d |-> eng.sid, m |-> SessionOpen]) IN
    /\ before >= MinBars
    /\ since >= BlockOpen /\ SessionLen - since >= BlockClose
    /\ IF eng.pos.dir = "LONG" THEN eng.pos.stop < close ELSE eng.pos.stop > close
    /\ entered <= MaxTrades

(* A prior profile is never the current session's and never older than      *)
(* three days, and the engine is armed or in a trade only inside the        *)
(* session it works on: after a silence of days, a session end without a    *)
(* bar, or a forced exit, too.                                              *)
SessionRules ==
  /\ eng.prior # NoPrior => eng.sid - eng.prior.sid \in 1 .. 3
  /\ eng.st # "IDLE" => ZoneOf(eng.last) \in Active /\ SessionId(eng.last) = eng.sid
  /\ eng.st = "BREAKOUT" <=> eng.pos # Flat

(* The engine keeps the contract the live loop is written against; no       *)
(* session change drops a position without an EXIT.                         *)
Contract == INSTANCE EngineContract
              WITH Stops <- Int, cpos <- eng.pos, csig <- eng.sig
ImplementsContract == Contract!CSpec
=============================================================================
