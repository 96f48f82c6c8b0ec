------------------------------ MODULE EntryGates ------------------------------
(***************************************************************************)
(* What stands between a bar and an order in orb/cli.py cmd_live: the MT5  *)
(* feed with its warmup, --warmup-gate, the macro guard (mode "guard") fed *)
(* by the macro daemon, and the size an entry may have (svp/sizing.py)     *)
(* under what is left of the day's loss budget (riskguard.py).             *)
(*                                                                         *)
(* Three processes share a clock: the bot, the daemon that writes the      *)
(* state file, and the terminal.  The bot handles a bar in four steps that *)
(* read the outside world at different moments: the gates of on_signal,    *)
(* the breaker, the macro guard and the sync of on_bar.  Time may pass     *)
(* anywhere; only the daemon keeps to its interval.  The account trades    *)
(* within one day.  Gains and partial exits are left out: they only widen  *)
(* the budget or lower the risk.                                           *)
(***************************************************************************)
EXTENDS Mt5Feed, MacroState

CONSTANTS
  Start, Horizon,        \* the process starts at Start; bound: last minute
  Grace,                 \* bar_grace (and signal grace) of the warmup gate
  Balance, MaxDailyLoss, \* at the start of the day; the breaker's cap
  RiskPct, Dists,        \* risk_pct; stop distances of signals
  VolMin, VolMax,        \* in volume steps, of value 1 per price step
  MaxTroubles            \* bound: failed calls, hangs, late or failed writes

ASSUME GatesAssumption ==
  /\ {Start, Horizon, Grace, Balance, VolMax, MaxTroubles} \subseteq Nat
  /\ {RiskPct, MaxDailyLoss, VolMin} \subseteq Nat \ {0}
  /\ Dists \subseteq Nat

VARIABLES
  now,      \* the clock
  feed,     \* locals of stream_candles
  term,     \* the terminal: [up, shows], shows = Never while it is live
  bot,      \* [pc, bar, warm, latch, held]: latch is _macro_ro["on"]
  guard,    \* MacroGuard._cached_state
  acct,     \* [bal, cached, day, base, delta, halted, risk]: day, base (_day_start),
            \* delta, halted of the breaker, day: whether it has begun the day;
            \* risk: what is open loses at its stops (0: nothing is open)
  daemon, file,
  troubles,
  past      \* [order, unseen, stacked]: last order [bar, at], whether one was
            \* sized before the breaker had seen the losses of the day, and
            \* whether one was sent while a position was open (history)

vars == <<now, feed, term, bot, guard, acct, daemon, file, troubles, past>>

Fine == UNCHANGED troubles
Trouble == troubles < MaxTroubles /\ troubles' = troubles + 1
Calm == troubles = 0
Shows == IF term.shows = Never THEN now ELSE term.shows

-----------------------------------------------------------------------------
(* Time, terminal and daemon. *)
Tick ==
  /\ now < Horizon /\ now' = now + 1
  /\ IF WriteDue(daemon, now) THEN Trouble ELSE Fine
  /\ UNCHANGED <<feed, term, bot, guard, acct, daemon, file, past>>

(* The terminal dies, or hangs and shows old bars without an error. *)
TerminalFails ==
  /\ term.up /\ term.shows = Never /\ Trouble
  /\ term' \in {[up |-> FALSE, shows |-> Never], [up |-> TRUE, shows |-> now]}
  /\ UNCHANGED <<now, feed, bot, guard, acct, daemon, file, past>>

(* run: fetch if due, build the state, replace the file; each may fail. *)
DaemonWrite ==
  /\ WriteDue(daemon, now)
  /\ \E fetched, written \in BOOLEAN :
       LET d == Fetch(daemon, fetched, now) IN
       /\ fetched \/ FetchDue(daemon, now)
       /\ IF fetched /\ written THEN Fine ELSE Trouble
       /\ daemon' = [d EXCEPT !.wroteAt = now]
       /\ file' = Replace(file, BuildState(d.known, now), written)
  /\ UNCHANGED <<now, feed, term, bot, guard, acct, past>>

-----------------------------------------------------------------------------
(* The feed. *)
Idle == bot.pc = "idle" /\ feed.alive

Poll ==
  /\ Idle /\ ~feed.batch /\ term.up
  /\ Shows - feed.last > 1 \/ Stale(feed, now)   \* other polls find nothing to do
  /\ feed' = Fetched(feed, Shows, now)
  /\ Fine
  /\ UNCHANGED <<now, term, bot, guard, acct, daemon, file, past>>

Attempt(f) ==
  \/ term' = [up |-> TRUE, shows |-> Never] /\ feed' = Reconnected(f)
  \/ UNCHANGED term /\ feed' = NotReconnected(f)

PollFails ==
  /\ Idle /\ ~feed.batch /\ ~term.up
  /\ LET f == [feed EXCEPT !.fails = MinOf(@ + 1, ReconnectAfter)] IN
     IF f.fails < ReconnectAfter THEN feed' = f /\ UNCHANGED term ELSE Attempt(f)
  /\ UNCHANGED <<now, bot, guard, acct, daemon, file, troubles, past>>

(* The batch is handled: the watchdog looks at the link. *)
EndBatch ==
  /\ Idle /\ feed.batch /\ feed.queue = << >>
  /\ LET f == BatchDone(feed, now) IN
     IF Stale(f, now) THEN Attempt([f EXCEPT !.newBarAt = now])
     ELSE feed' = f /\ UNCHANGED term
  /\ UNCHANGED <<now, bot, guard, acct, daemon, file, troubles, past>>

(* The engine sees the bar, and may signal: an entry when it holds nothing, *)
(* else an exit.                                                            *)
Yield ==
  /\ Idle /\ feed.queue # << >>
  /\ feed' = Yielded(feed, now)
  /\ \E next \in {"breaker", IF bot.held THEN "exit" ELSE "signal"} :
       bot' = [bot EXCEPT !.bar = Head(feed.queue), !.pc = next,
                          !.held = next = "signal" \/ (@ /\ next # "exit")]
  /\ UNCHANGED <<now, term, guard, acct, daemon, file, troubles, past>>

-----------------------------------------------------------------------------
(* on_signal *)
StaleBar(b) == b < Start - Grace

Warming == bot.warm /\ StaleBar(bot.bar)

(* compute_lot: the loss at the stop is risk_pct of the balance, capped to  *)
(* what is left of the day; 0 rather than a lot that would breach it.       *)
MutComputeLot(bal, dist, remaining) ==
  IF dist <= 0 THEN 0 ELSE MinOf(VolMax, (bal * RiskPct) \div (100 * dist))

ComputeLot(bal, dist, remaining) ==
  IF dist <= 0 \/ bal <= 0 \/ remaining <= 0 THEN 0
  ELSE LET lot == MinOf(bal * RiskPct, 100 * remaining) \div (100 * dist) IN
       IF lot < VolMin THEN 0 ELSE MinOf(lot, VolMax)

Remaining == MaxOf(0, MaxDailyLoss + acct.delta)

(* A signal of the replay, a halted day, a macro veto, no size: no order.   *)
(* The other filters (killzones, quarters, spread, streak) may refuse too.  *)
Refuse ==
  /\ bot.pc = "signal"
  /\ bot' = [bot EXCEPT !.pc = "breaker"]
  /\ UNCHANGED <<now, feed, term, guard, acct, daemon, file, troubles, past>>

Order ==
  /\ bot.pc = "signal" /\ ~Warming /\ ~acct.halted
  /\ \E ok \in BOOLEAN, dist \in Dists :
       /\ IF ok THEN Fine ELSE Trouble
       /\ guard' = Read(file, guard, ok)
       /\ ~Vetoes(guard', now)
       /\ LET lot == ComputeLot(acct.bal, dist, Remaining) IN
          /\ lot > 0
          /\ acct' = [acct EXCEPT !.risk = @ + lot * dist]
  /\ past' = [order |-> [bar |-> bot.bar, at |-> now],
              unseen |-> past.unseen \/ acct.bal - Balance # acct.delta,
              stacked |-> past.stacked \/ acct.risk > 0]
  /\ bot' = [bot EXCEPT !.pc = "breaker"]
  /\ UNCHANGED <<now, feed, term, daemon, file>>

(* What is open is closed, at any price up to the stop's, unless a call     *)
(* fails.                                                                   *)
CloseAll(a, works) ==
  IF works THEN {[a EXCEPT !.risk = 0, !.bal = @ - loss] : loss \in {0, a.risk}} ELSE {a}

(* The engine's exit: the engine is flat already, whatever becomes of it.   *)
Exit ==
  /\ bot.pc = "exit" /\ bot' = [bot EXCEPT !.pc = "breaker"]
  /\ \E works \in BOOLEAN :
       /\ IF works THEN Fine ELSE ~Warming /\ Trouble
       /\ acct' \in IF Warming THEN {acct} ELSE CloseAll(acct, works)
  /\ UNCHANGED <<now, feed, term, guard, daemon, file, past>>

(* on_bar: nothing during the replay; then the breaker, on the cached       *)
(* balance, which closes all when it trips.  The first balance it sees is   *)
(* the day's, even if a loss came before.                                   *)
Breaker ==
  /\ bot.pc = "breaker"
  /\ IF Warming THEN bot' = [bot EXCEPT !.pc = "idle"] /\ UNCHANGED <<acct, troubles>>
     ELSE LET base == IF acct.day THEN acct.base ELSE acct.cached
              lost == base - acct.cached
              trips == lost >= MaxDailyLoss /\ ~acct.halted
              a == [acct EXCEPT !.day = TRUE, !.base = base, !.delta = -lost,
                                !.halted = @ \/ trips]
          IN /\ bot' = [bot EXCEPT !.pc = "macro", !.warm = FALSE]
             /\ \E works \in IF trips THEN BOOLEAN ELSE {TRUE} :
                  /\ IF works THEN Fine ELSE Trouble
                  /\ acct' \in IF trips THEN CloseAll(a, works) ELSE {a}
  /\ UNCHANGED <<now, feed, term, guard, daemon, file, past>>

(* Risk-off, when it begins: close all.  The latch is set before, so that   *)
(* a close that fails is not tried again.                                   *)
Macro ==
  /\ bot.pc = "macro"
  /\ \E readable, works \in BOOLEAN :
       /\ IF readable /\ works THEN Fine ELSE Trouble
       /\ guard' = Read(file, guard, readable)
       /\ LET ro == RiskOff(guard', now) IN
          /\ bot' = [bot EXCEPT !.pc = "sync", !.latch = ro]
          /\ acct' \in IF ro /\ ~bot.latch THEN CloseAll(acct, works) ELSE {acct}
  /\ UNCHANGED <<now, feed, term, daemon, file, past>>

(* No position is listed, for want of one or of an answer: the engine is    *)
(* forced flat.                                                             *)
Sync ==
  /\ bot.pc = "sync"
  /\ \E listed \in BOOLEAN :
       /\ IF listed THEN Fine ELSE bot.held /\ Trouble
       /\ bot' = [bot EXCEPT !.pc = "idle", !.held = @ /\ listed /\ acct.risk > 0]
  /\ UNCHANGED <<now, feed, term, guard, acct, daemon, file, past>>

(* The server stops out what is open; the cache reads the balance. *)
StopOut ==
  /\ acct.risk > 0
  /\ acct' = [acct EXCEPT !.bal = @ - acct.risk, !.risk = 0]
  /\ UNCHANGED <<now, feed, term, bot, guard, daemon, file, troubles, past>>

Refresh ==
  /\ acct.cached # acct.bal
  /\ acct' = [acct EXCEPT !.cached = acct.bal]
  /\ UNCHANGED <<now, feed, term, bot, guard, daemon, file, troubles, past>>

Init ==
  /\ now = Start /\ feed = NewFeed(Start) /\ term = [up |-> TRUE, shows |-> Never]
  /\ bot = [pc |-> "idle", bar |-> Never, warm |-> TRUE, latch |-> FALSE, held |-> FALSE]
  /\ guard = NoFile
  /\ acct = [bal |-> Balance, cached |-> Balance, day |-> FALSE, base |-> 0,
             delta |-> 0, halted |-> FALSE, risk |-> 0]
  /\ daemon = NewDaemon /\ file = NoFile
  /\ troubles = 0
  /\ past = [order |-> [bar |-> Never, at |-> Never], unseen |-> FALSE, stacked |-> FALSE]

Next ==
  \/ Tick \/ TerminalFails \/ DaemonWrite
  \/ Poll \/ PollFails \/ EndBatch \/ Yield
  \/ Refuse \/ Order \/ Exit \/ Breaker \/ Macro \/ Sync \/ StopOut \/ Refresh

Spec == Init /\ [][Next]_vars

-----------------------------------------------------------------------------
(* cli.py --warmup-gate: no order for replayed history. *)
NotFromHistory == past.order.at # Never => past.order.bar >= Start - Grace

(* The window of a scheduled event, from the first write inside it on: that *)
(* comes an interval after it begins, or after the daemon does.             *)
Announced(t) ==
  MaxOf(EventAt - PreMin, Start) + WriteInterval <= t /\ t <= EventAt + PostMin

(* macroguard.py: no entry within the announced window. *)
OutsideBlackout == Calm => ~Announced(past.order.at)

(* cli.py on_bar: once a bar has been handled inside the window, no         *)
(* position is open in it.                                                  *)
FlatInBlackout ==
  Calm /\ Announced(now) /\ bot.latch => acct.risk = 0

(* cli.py on_signal and on_bar: no entry is sent while a position is open.  *)
(* An exit that fails, or a sync that is not answered, leaves one behind a  *)
(* flat engine.                                                             *)
OnePosition == Calm => ~past.stacked

(* sizing.py: "never breach risk-per-trade / the daily-loss limit": what is *)
(* lost and what is at risk stay within the cap, whatever fails, as long as *)
(* the breaker has seen the day's losses when an entry is sized and nothing *)
(* else is open then: open risk is not part of what is left of the day.     *)
WithinBudget ==
  past.unseen \/ past.stacked \/ Balance - acct.bal + acct.risk <= MaxDailyLoss

(* Exposure is sound: an order never answers a bar of the replay or falls   *)
(* into an announced blackout, a position does not stay open in one, one    *)
(* position is open at a time, and the day's losses and the open risk stay  *)
(* within the day's budget.                                                 *)
ExposureSound ==
  NotFromHistory /\ OutsideBlackout /\ FlatInBlackout /\ OnePosition /\ WithinBudget

(* mt5feed.py: a closed bar is lost only when the chart advances by more    *)
(* than two bars from one fetch to the next, however often the terminal was *)
(* attached again in between, and however long the replay of the warmup     *)
(* takes: what closes meanwhile is in the enlarged fetch after it.          *)
BarsComplete == feed.lost # {} => feed.worst > 2
=============================================================================
