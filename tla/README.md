# A TLA+ verification of FreqTrading

FreqTrading runs trading strategies on one-minute bars and executes them on a
MetaTrader 5 (MT5) account. What makes it hard is not the strategies alone but
everything that happens around them: two places keep a belief about the same
position (the engine and the server), the account changes by itself (stops,
take profits, limit fills), calls into the terminal fail or do not answer, a
background thread reads the account while the loop acts on it, a daemon writes
a state file the loop trades by, and a keeper restarts the process when it
dies. This directory models that core, checks it with TLC and proves the
central facts with TLAPS.

## The system

| Part | State | Operations | Interacts with | What makes it correct |
|---|---|---|---|---|
| ORB engine (`orb/engine.py`) | state, range, simulated position, session, indicators | `on_candle`, `force_flat` | called by the candle stream and the live loop; returns signals | state, position and range agree; the stop only tightens; every change of the position is announced |
| SMC engine (`orb/smc/strategy.py`) | trends and order blocks of two timeframes, position, trades of the day | `on_candle`, `force_flat` | as ORB | entries follow the trends of their bar; a block backs one entry; the day's cap |
| SVP engine (`orb/svp/strategy.py`) | session profile, prior profile, position, entries | `on_candle`, `force_flat` | as ORB | no look-ahead; blackouts; the prior profile is fresh |
| Trackers (`smc/mtf.py`, `structure.py`, `orderblocks.py`, `svp/profile.py`, `svp/structure.py`) | windows, swings, blocks, histogram | `update` | the engines | what they hold is what the chart shows |
| Indicators and entry filters (`indicators.py`, `trueopen.py`, `quarters.py`, `execguard.py`) | windows, levels | `update`, pure filters | engines, `on_signal` | the same; two trackers of one level agree |
| Session clock (`orb/session.py`) | none | `classify` | ORB, SVP | sessions across midnight |
| Candle stream (`orb/stream.py`) | none | `run` | feed, engine, callbacks | bad bars are skipped, the callbacks run in order |
| Live loop (`orb/cli.py` `cmd_live`) | breaker, guards, engine | `on_signal`, `on_bar` | all of the below | engine and account agree after every bar; halts are final; no ghost trade |
| MT5 adapter (`orb/broker/mt5.py`, `retcodes.py`) | connection, retry policy | open, close, modify, cancel, list | the server | an entry executes once; the retry budget holds; the result is the truth |
| Broker state cache (`orb/brokerstate.py`) | snapshot of balance and positions | refresh in a worker thread, cached reads | breaker, babysitter, ladder | what is decided on a stale snapshot is still right |
| Risk guards (`orb/riskguard.py`) | day, baseline, halt; loss streak; range history | `update`, `on_period`, `record` | live loop | the halt latches and is noticed |
| Babysitter (`orb/babysitter.py`), ladder (`orb/smc/exits.py`) | per-ticket distance and what was done | `on_bar` | cache, adapter | nothing twice, nothing early, the stop only tightens |
| Sizing (`svp/sizing.py`) | none | `compute_lot` | `on_signal`, breaker | losses and risk within the day's budget |
| Macro guard and daemon (`orb/macroguard.py`, `macro/`) | a JSON state file, the guard's last read | daemon writes, guard reads | live loop | no entry and no position in an announced blackout; a torn file is never acted on |
| Copy trade (`orb/broadcast.py`, `leader/`) | queue, spool, event log, sequence numbers | publish, drain, append, poll | adapter hook, followers | no event lost, order kept, numbers increase across restarts |
| MT5 feed (`orb/feeds/mt5feed.py`) | last bar, warmup, back-off | stream closed bars, reconnect | stream | every closed bar once, in order |
| TwelveData feed, MQL5 EA, Pine scripts, scripts | | | | outside the core |

`PROJECT.json` lists every component with its status and, under `hazards`, the
places where the code can go wrong in ways a test would hardly reach.

## The modules

    PyMath          max, min, abs and round() of Python on integers
    EngineContract  what the live loop expects of any engine (abstract)

    SessionClock    session.py
    OrbEngine       engine.py, stream.py          EXTENDS SessionClock, PyMath
    SmcEngine       smc/strategy.py               EXTENDS PyMath
    SvpEngine       svp/strategy.py               EXTENDS SessionClock, PyMath

    SmcTrackers     smc/mtf.py, structure.py, orderblocks.py
    SvpTrackers     svp/profile.py, svp/structure.py
    Indicators      indicators.py, SpikeCancel of riskguard.py
    TimeFilters     trueopen.py, quarters.py, killzones of execguard.py
    BarFed          the four above, fed one history     EXTENDS all four
    MCBarFed        the candles TLC feeds it                  EXTENDS BarFed

    MarketLoop      cli.py on_signal/on_bar, market entries   EXTENDS EngineContract
    Babysitter      babysitter.py
    LimitLoop       cli.py on_signal/on_bar, limit entries    EXTENDS Babysitter
    LadderExits     smc/exits.py
    LadderLoop      cli.py with the ladder                    EXTENDS LadderExits
    MCLadderLoop    the candles TLC runs LadderLoop with      EXTENDS LadderLoop
    Mt5Feed         feeds/mt5feed.py
    MacroState      macroguard.py, the loop of macro/daemon.py
    EntryGates      cli.py: what stands before an order       EXTENDS Mt5Feed, MacroState
    OrderSend       mt5.py _open/_send/_send_with_policy, retcodes.py
    CopyTrade       broadcast.py, leader/store.py, server.py, follower_example.py

    StrategyProofs  theorems about OrbEngine and BarFed
    OrderProofs     theorems about LimitLoop and OrderSend
    SmcEngineProofs, SvpEngineProofs, MarketLoopProofs,
    LadderLoopProofs, EntryGatesProofs, CopyTradeProofs       theorems

Definitions named `Mut...` are faulty variants of the definition that follows
them. They are used by no specification; each shows that the property it is
paired with in `PROJECT.json` would notice that fault.

### The engines

**EngineContract** is the abstraction the loops are built on: one position at a
time, opened by an ENTRY, left by an EXIT, never loosened in between. All three
engines refine it (`ImplementsContract`), with the position and the signal kind
as the refinement mapping, and `MarketLoop` runs on any engine that does.

**OrbEngine.** The engine is one record, `eng`, with a field per attribute;
each method is an operator from the engine before to the engine after, and
`on_candle` is split into its four ways through (`OnNewSession`,
`OnAfterClose`, `OnGap`, `OnBar`) plus `RejectCandle` for a malformed, late or
repeated bar. `ForceFlat` is `force_flat`. Prices are integers. The ATR is any
value of `Atrs`, the momentum gate any Boolean; readiness of the indicators is
counted, since the engine's guards read it. `lastClose` and `trades` are
history variables for the properties.

**SmcEngine.** A bar moves time on; whether a D1, H4 or M15 candle completes
follows from its time and that of the bar before (`Completes`), as in the
aggregators. The updates are made in the order of the code: day, D1, H4, then
the decision on the M15 candle. A completed candle has any shape and a tracker
reports any event and any handling of its blocks; the five read-only checks of
`_confluence` are a count and a swept level. `basis`, `entered` and `backed`
are history variables: what the last entry was decided on, entries per day, and
entries per order block.

**SvpEngine.** As OrbEngine. The developing profile is represented by the
number of its bars and by any levels in order once it is ready; the prior
profile carries the session it is from. `before` counts the session's bars fed
before the last, so that look-ahead is visible.

### What the engines read

**SmcTrackers, SvpTrackers, Indicators and TimeFilters** model the accumulators
as operators from state and bar to state, exactly: the volume of a profile in
units that make each row's share whole, the Wilder average as a fraction,
times as minutes of New York. **BarFed** feeds all of them the same history of
bars and states what each of them holds in terms of the chart, by quantifiers
over the history and without the tracker's own state. The registers of order
blocks are sets: blocks are born in order, at most one a bar, and only whole
registers are promoted, so a `deque(maxlen=n)` of them keeps the `n` newest
(`Newest`). The order within a bar is
that of the live loop: the filters judge an entry (`gate`) before the bar
reaches the opens.

### The loops

**MarketLoop** runs any engine that keeps the contract against an account. A
bar is cut at every call into the terminal (`pc`), because between two calls
the server may close a position (`ServerClose`) and the cache's worker thread
may read (`RefreshRead`). The result of a refresh is stored only when the event
loop is free (`RefreshStore`), as asyncio does it. A list of positions is
worked through one request at a time (`SendOk`, `SendFailed`); a `BrokerError`
ends the loop and the try block around it, and the request may have gone
through all the same. A failed `positions_get` lists nothing, as
`my_positions` turns `None` into an empty list. `Crash` is the death of the
process at any point; the keeper starts a new one that knows nothing. The
filters that refuse an entry without touching this state are one choice
(`SkipEntry`).

**LimitLoop** is the other mode: an ENTRY places two limits, the server fills
them when it likes, the babysitter manages every fill from the cached
snapshot, and spike cancel, breaker and time-to-live pull limits. `Timely`
says whether a refresh completes between two bars: it does with one-minute
bars and a 0.3 s refresh, but not when the feed delivers a batch. What the
sitter asks for on a bar is a function on tickets and kinds (partial close,
stop), sent in the order of the positions, as in LadderLoop.

**LadderLoop** is the loop of the SMC strategy: a market entry in either
direction, then `LadderExitManager` takes rungs off and moves the stop twice,
from cached snapshots and with the candle before as its confirmation. The list
of actions a bar yields is a function on tickets and steps (first rung, second
rung, remainder, stop), and the loop sends the first one left. An order asks
for the tick, a point above or below the close, with its stop at its distance
from that, and fills there or off it (`Fill`). Failing calls, failed listings,
restarts and outdated snapshots share one bound.

**EntryGates** puts the feed, the macro daemon and the bot on one clock. The bot
handles a bar in four steps that read the outside world at different moments
(gates of `on_signal`, breaker, macro guard, sync); time passes between any two
of them. A signal is an entry or, when the engine holds a trade, an exit; the
engine is flat from its exit on, whether the close succeeds or not, and is
forced flat when the sync lists no position, for want of one or of an answer. So
an entry may find a position that was left behind (`past.stacked`). The feed is polled, backs off, reattaches the terminal and replays its
warmup; the daemon fetches the calendar and replaces the state file; the size of
an entry is computed from the balance and from what the breaker last saw.

### Orders and events

**OrderSend** is one order call: all retcodes, the policy loop, the volume
ladder, the double-fill guard; the server may execute a request whose answer is
ambiguous, not execute it, or execute it later (`Arrive`). `_open` goes on to a
smaller volume when the text of an error holds `10019`; the text quotes the
request, so the digits of a price or a stop may do (`Mentions`, and the history
variable `misread`). `guard = FALSE` is the same loop for limits, closes and
stop changes, `policy = FALSE` the single send without a retry policy.

**CopyTrade** is the path of an event from the bot to a follower: `publish` cut
at each queue operation, the worker thread, the spool file, the POST with its
timeout, the leader's log and the polling follower. A request the worker gave
up may still arrive (`LateServe`). Files are sequences of lines; a write that
fails half way leaves a torn line that swallows the next one. The worker sends
an event itself (`"direct"`) or the lines of the spool (`"send"`). It looks at
the spool first, but where that fails `_spool_backlog` answers that there is
none, and the event is sent past the backlog (`Take`). Failures draw on one
budget, and `met` remembers their kinds: each property names the kinds it does
not bear.

## The runs

| Run | Shows |
|---|---|
| `orb_one_trade` | the default engine over two days of gaps, silences, session changes and forced exits: state, range, position and session agree, a held trade lies outside its range and in front of its stop, one trade per reset, the contract, and every position is eventually closed |
| `orb_rearm` | the other branch of every option: rebuilt range, intrabar exits, partial take profit, every gap a reset, a session across midnight |
| `smc_engine` | two days of bars with silences, any events, blocks and forced exits: entries follow the trends of their own bar with a structural stop, a block backs one entry, a day sees no more than its cap, the contract |
| `svp_engine` | six days with missing bars, missing days and forced exits: no look-ahead, blackouts, the session's cap, a fresh prior profile, the contract |
| `bar_fed` | every history of seven bars over five kinds of candle: swings, events and bias (`StructureIsChart`), order blocks (`BlocksAreChart`), candles, opens and filters (`ClockIsChart`), profile and indicators (`SumsAreChart`) are those of the chart |
| `market` | no call fails: engine and account agree after every bar, the server's stop only tightens from the bar after the entry on, a halt leaves the account flat, a loss over the cap is noticed. One failing call or one death of the process: every position carries a stop, a ghost trade lasts at most a bar, the process that halted enters no more that day |
| `limit_faults` | one failing call anywhere: the babysitter only tightens |
| `limit_live` | one partial close per position; every fill comes under management; a ghost is cleared |
| `ladder` | no trouble, with fills on either side of the close: no dust, at most two changes of the stop, nothing before it was earned. One failing call, restart or outdated snapshot: the stop only tightens |
| `gates` | no order for replayed history, none in an announced blackout and no position left in it, one position at a time, losses and open risk within the day's budget with the provisos below; the feed loses a bar only when the chart runs more than two bars ahead |
| `order_send` | all answers, one late execution, one failed read: single execution and, with a policy, a truthful result while the server is prompt; budget and return always |
| `copy_trade` | three failures of any kind: lost events are counted, arrivals keep the order, the follower misses nothing in its window, a working network and disk clear the backlog, numbers increase |

### Where the code and its documents disagree

The modelling met these; the properties above are stated so that they hold of
the code, and each of these is what TLC refutes without the proviso.

* A data gap after the day's trade arms the engine again (`engine.py:518`;
  `_traded_this_session` is never read), against `STATUS.md:877`. Hence
  `OneTradePerReset`.
* The stop anchored to the fill is replaced, on the same bar, by the engine's
  absolute stop (`cli.py:866`), against `DECISIONS.md:769`; when the fill was
  better than the close this loosens it. Hence `ServerStopTightens` speaks of
  the bars after the entry's own.
* A restart on the day of the halt takes the reduced balance as the new baseline
  and trades (`riskguard.py:36`), against `DECISIONS.md:773`. Hence
  `HaltHolds` speaks of the process that halted.
* A limit that fills while the halt closes positions survives it
  (`cli.py:801`).
* Looking up an order block consumes it even when `_enter` then refuses the
  stop (`smc/strategy.py:283`), against its docstring. `EntryLimits` claims
  only that a block never backs two entries.
* The cap of an entry's risk is computed from `day_pnl` of the breaker, which
  `on_bar` updates only later and from a cached balance (`cli.py:632`), against
  `sizing.py` ("never breach ... the daily-loss limit"); and `day_pnl` knows
  nothing of what is still open. An exit that fails (`cli.py:687`) or a
  `positions_get` that fails in the sync (`mt5.py:351`) leaves a position behind
  a flat engine, and the next entry adds its risk to that. `WithinBudget` holds
  as long as the breaker has seen every loss when an entry is sized (`unseen`)
  and no entry was sent over an open position (`stacked`); that it never is
  while no call fails is `OnePosition`.
* The ladder is handed one-minute candles (`cli.py:833`), while
  `smc/exits.py:17-24` speaks of candles of the trigger timeframe. LadderLoop
  models what it is handed.
* The opens an entry is judged by are those before its own bar (`cli.py:582`);
  the model has the order of the code.
* With a cold cache the ladder judges a position on the bar of its entry, and
  the candle that confirms stage 1 is the one before (`smc/exits.py:157`): after
  a fill better than the close the stop may move on a candle in which the
  position did not exist. `Earned` lets that candle count (`lead`); without it
  TLC refutes `Earned`.
* With two troubles the ladder's `OnlyTightens` fails, and after a restart
  `Earned` fails: the distance is relearned from a stop that has moved.
* With `Timely = FALSE` the babysitter's `OnlyTightens` fails: the second bar of
  a batch is judged on the snapshot of the first.
* With a failing call `PartialOnce` fails: one failed `positions_get` makes the
  sitter forget its tickets, and it takes the partial again, although
  `babysitter.py` says "once".
* Without `Prompt` `NeverDouble` fails: a request executed after the positions
  were re-read is sent again. Without a retry policy it fails for a prompt server
  too when the text of another error holds `10019` (`mt5.py:303`): an order at
  10019.5 that is executed and answered 10012 or 10010 is sent again with the
  next volume. `NeverDouble` excludes that case by name (`misread`).
* Where `_spool_backlog` cannot look at the spool (`broadcast.py:149`) an event
  overtakes the backlog, although its comment says that events arrive in the
  order of publication. `ReceivedInOrder` is stated without errors of the disk;
  `BacklogMeansFailure` holds with them.
* When a start of the leader cannot read its log, numbering begins again at 0,
  although `store.py` says "restarts never reuse or reset sequence numbers".
* The spool is drained only when another event is handled, and not, as
  `docs/copytrade_schema.md` says, "when the leader is reachable again";
  `BacklogMeansFailure` states what holds.

### Bounds, and why they are enough

* OrbEngine: a day of 10 or 12 minutes with every zone in it, two calendar days,
  silences of up to 3 bars (0, 1 and 2 bars missing: below, at and above
  `max_gap_bars` = 1), 4 prices and two stop distances, so that a stop can be
  loosened by a wrong ratchet, a close can fall between stop and range, and
  both directions break out. `WarmBars` exceeds the range length, so that an
  armed engine can be cold.
* SmcEngine: timeframes of 2, 3 and 6 minutes, so that every subset of candles
  completes together; silences that skip buckets; two blocks ever and one kept,
  so that blocks are evicted and promoted again; a cap of one trade, with forced
  exits that ask for a second.
* SvpEngine: a session of five minutes a day; silences within it, over its end,
  over a day and over four days (beyond the three a prior profile may be
  carried); a blackout at each end; two readings of the ATR.
* BarFed: windows of one to three bars against histories of seven, so that
  every window fills, slides and is read beyond its end; five candles with and
  without displacement, in both directions, one of them a session's first; two
  and a half hours of New York between bars, which reaches every slot,
  quarter and killzone of a day, and gaps over midnight and over the week's
  open.
* Loops: two tickets in the market and limit loops (one expected and one
  orphan, or entry and add-on), one in the ladder, where tickets share nothing,
  with four candles that pass every stage, rung and target of it; one trouble;
  two days in the market loop; balances within one or two caps of each other;
  every order of the market loop filled one tick above or below the close of
  its signal, so that the stop anchored to the fill is never the engine's; in
  the ladder a tick one point above or below the close and a fill up to one
  point off that, so that fills better and worse than the close occur at a
  distance of three. One fault is enough for
  what is claimed *of* a fault; claims that need no fault are checked without.
* EntryGates: a horizon of five minutes around one event with its window of two
  minutes before and one after, a warmup of two bars, and a replay and polls
  that may take any part of the horizon; a budget that the second loss, or a
  second open position, exceeds; one trouble, which a failed exit or sync needs.
* CopyTrade: four events over a queue of two, a window of three and three
  failures: enough for an overflow with a race, two lost answers and a restart,
  a torn line that swallows an event, and a log longer than the window.
* OrderSend: the code's own budget (3 retries) and ladder (3 volumes), every
  retcode of the table and an unknown one.

Deadlock is checked except in `bar_fed` and `gates`, which stop at the end of
their history and of their clock.

### Fairness

Bars keep arriving and calls return (the loop is fair); the cache refresher
runs on a timer (weak fairness of the read) and its result is stored whenever
the loop is free, which it is again and again (strong fairness of the store).
Nothing is assumed about the server: it need never fill or close anything.
For the engine fairness is "another bar is accepted until the horizon ends".
The macro daemon is not fair but timed: the clock does not pass a moment at
which a write is due, except as one of the bounded troubles.

## The proofs

TLAPS proves, for all values of the constants allowed by the named assumptions.
They are the ranges that `OrbConfig.__post_init__`, `SmcConfig.__post_init__`,
`SvpConfig.__post_init__` and `RetryPolicy` accept, and, for the market loop,
that among the balances considered there is a greatest (`LoopAssumption`) and
that prices are so far from zero that no stop is the 0 which MT5 reads as
"none" (`StopAssumption`); for the entry gates, that the macro daemon writes
within the time a state counts as fresh (`FreshAssumption`, which
`macro/daemon.py:6` asks for). For the ladder, that its levels are whole
multiples of the entry's distance, that spread and commission stay below that
distance, hence below the least stage 2 lock (`LoopAssumption`), and that the
broker takes no order below its minimum volume (`BrokerAssumption`). For the
limit loop, that prices are more than twice the stop distance, so that no price
is 0 (`PriceAssumption`). For the trackers, that windows, limits and timeframes
are positive (`TrackerAssumption`), that bars have natural prices and come later
than those before (`ShapesAssumption`), that New York time advances with them
(`NyAssumption`) and that killzones are what `parse_killzones` accepts
(`TimeAssumption`). Numbers of events, positions, tickets, days, failures
and restarts are arbitrary.

* `StrategyProofs`, of the ORB engine: `Coherent`, `HeldPositions` and `TypeCorrect` (invariants),
  `StopMonotone` and `SignalsComplete` (action properties). None is inductive
  alone: that a position is held outside the range needs the range locked, which
  needs position and state to agree, which needs the indicators warm. The
  inductive invariant `Inv` is their conjunction with the link between the
  engine's session and its last bar (`Invariance`). Every method has a lemma
  about the engine it returns (`StepOK`), so that the proof of a step cites
  methods, as the code calls them. `Refinement` (every step is a step of
  `EngineContract`) needs no more than these. `AtMostOneTrade` does: `TradeInv`
  adds the pace of the session, since nothing in the engine counts trades. A
  range never has more bars than minutes have passed since the open (`Paced`),
  so the first trade comes after the window; an engine that is idle after it
  could be armed again only inside a window, and there is none left before the
  next session. That minutes since the open only grow within a session, across
  midnight too, is `ElapsedGrows`.
* `StrategyProofs`, of the trackers: `StructureFollowsChart`,
  `BlocksFollowChart` and `ClockFollowsChart`, for every window, limit,
  timeframe, killzone and quarter, any bars and any gaps. What a chart shows is a
  function of the whole history, what a tracker holds is a handful of values;
  each proof is an invariant that says which function of the history every one
  of these values is, and a lemma that this function of one bar more is what
  `update` computes from the old value. `StructureInv`: the deque is the last
  bars (`WindowIs`), a reference is the newest swing unless an event of its
  direction came since (`RefOf`), the trend is the last event's (`TrendOf`);
  `SwingsInv`: the last two swings of the session. `BlocksInv`: a candidate
  `Waits` while it is young enough and fewer than `MaxPending` newer ones wait;
  a block is `Alive` while it has not been closed through or expired and was
  never behind `MaxBlocks` newer ones that stood. The tracker counts the
  survivors of earlier evictions, the chart all blocks that stand. The heart is
  that it makes no difference (`AliveStep`): a block that stands and is newer
  than one alive is alive too (`AliveNewer`), because it was confirmed no earlier
  (`FirstMarks`), so what was evicted is older than all that counts.
  `AggInv`: the candle is the fold of its bucket, which is a stretch of bars
  since buckets are intervals of time (`BucketsConvex`).
  `ClockInv`: a bar crosses a slot from the bar before exactly when it is the
  first of its date past it, whatever is missing between (`CrossedIs`); the
  second quarter of a day or session is entered exactly then (`DayQuarters`,
  `M90Quarters`), so the two trackers take the same open; and a killzone that
  wraps is an interval around the clock (`KillzoneIs`).
* `SmcEngineProofs`: `Caps`, `Soundness` and `Refinement` (the engine implements
  `EngineContract`). The caps are not inductive alone, since the engine forgets:
  its trade counter is cleared when a bar's date changes. That the counter is
  the number of the day's entries (`DayCount`) needs time to run forward, which
  the two checks of `on_candle` give; that no block backs two entries needs an
  unmitigated block to have backed none and unused numbers to stay unused
  (`Unspent`). That there is a newest block to enter on follows from the
  well-foundedness of the naturals (`GreatestExists`).
* `SvpEngineProofs`: `Soundness`, `Rules` and `Refinement`. `SoundEntry` speaks
  of the bar just handled only, so it is proved of every step from an invariant
  of its own: the profile holds no more bars than the session had
  (`Established`), which makes "ready before this bar" a fact about the past, and
  the carried profile is of a session one to three days back (`Sessions`).
* `MarketLoopProofs`: `AlwaysProtected`, `Agree`, `GhostsAreBrief` and
  `TypeCorrect` (invariants), `HaltIsFinal` and `StopsTighten` (action
  properties), for any engine that keeps the contract. `InSync` speaks of the
  moment between two bars, when nothing is in progress; the inductive invariant
  says for every point of the loop how account and engine relate there
  (`Agreement`): which positions may remain while a list is being closed, that a
  stop not yet pushed is tighter than the server's, that an order is sent only
  from a flat account. `Protected` needs every order's stop to be one the engine
  gave or a stop distance off the tick, hence that an order in progress belongs
  to an ENTRY (`EntryOK`). A ghost is noticed in time because from the start of
  the bar to the sync no path leads past the check (`GhostInv`), and the halt
  holds because nothing clears the flag while the day does not change
  (`HaltInv`).
* `LadderLoopProofs`: `Limits` and `Deserved` (invariants), `StopsOnlyTighten`
  (an action property) and `TypeCorrect`. The ladder decides on a snapshot, so
  the inductive invariant `Inv` says what a snapshot still tells of the account
  (`CacheInv`): a listed ticket is the same position, and one read since the
  last bar agrees in full. That an outdated snapshot cannot loosen a stop does
  not follow from the check against that snapshot: the stage 1 level lies within
  the distance of the entry and the stage 2 level beyond it, so a stop the
  snapshot does not know of is looser than the one about to be sent, unless the
  ladder remembers having sent it (`StopInv`). With one trouble spent, either
  the snapshot is right or the memory is, which is why a second one breaks
  it. `LadderInv` accounts for every ticket: untouched (`Fresh`), managed
  (`Managed`: volume after the actions still to be sent, stop moves against the
  two flags) or being closed by the final target (`Leaving`). That nothing is
  taken unearned needs the best close seen since the entry to cover the candle
  the stages are judged on (`SightInv`), or, on the bar of the entry, that candle
  to confirm no more than `lead` allows (`Unconfirmed`). A position that closed
  since the snapshot may end the actions of the bar; it ends none of another
  ticket, since without trouble there is one position at a time (`SingleInv`).
* `EntryGatesProofs`: `Exposure`, `NoBarLost` and `TypeCorrect`. Four invariants
  that each speak of one part, together inductive (`Invariance`). That a bar is
  lost only to the chart needs to know how far the feed reaches (`Reaches`): up
  to the last fetch, less what the enlarged fetch after a slow replay will still
  ask for (`CatchUp`). Replayed history is kept out because a gate that was
  lifted was lifted by a bar of the present and bars come in order (`WarmInv`,
  `Waiting`). The blackout needs the age of the state file (`FileFresh`: the
  clock cannot pass a due write) and what a set latch says of it (`LatchFlat`:
  the file was written inside the window, so until the window is over it vetoes
  every entry). The budget needs that what `compute_lot` puts at risk fits into
  what remains (`LotFits`, `BudgetInv`), and that an entry finds no position
  while no call fails: an engine without a trade then means no position, unless
  its exit is on the way (`HeldInv`). An exit that the warmup gate suppresses
  needs no proviso, since nothing is open on a bar of the replay (`WarmInv`).
* `OrderProofs`, of limit orders: `ClosedInPartOnce` (an invariant) and
  `StopsChase` (an action property), from one inductive invariant
  (`Invariance`). The sitter judges a snapshot and sends later, so neither holds
  of a step alone. `TicketInv`: the ticket of an order is one that no snapshot
  and no mark knows, hence a fill starts with a clean account. `StopInv`: only
  the sitter moves a stop, so a snapshot read since the last bar has the
  server's stops wherever it is judged, and what is about to be sent is better
  than what it replaces; failing calls, executed or not, leave that true, in any
  number. `OnceInv`, while no call has failed: such a snapshot lists every
  position under management (`Covers`), so no mark is forgotten, and the partial
  closes sent and still to be sent of a ticket number no more than its mark
  (`Sent`). Everything that only takes orders or positions away is one kind of
  step (`Shrinks`), proved harmless once.
* `OrderProofs`, of one order call: `CallTypeCorrect`; `SendBudget` through
  `Counted` (how many requests each rung and attempt account for);
  `NoDoubleFill` and `TruthfulResult` through `Tracked` (at each point of the
  call, how what the server did relates to the last answer and to the snapshot),
  which holds as long as the server is prompt and, without a policy, no other
  error was taken for a "no money".
* `CopyTradeProofs`: `TypeCorrect`, `NumbersAlwaysIncrease`,
  `BacklogAfterFailure`, `ArrivalsInOrder`, `NoSilentLoss`. The numbers
  increase because the leader stands at or beyond every number in its log
  (`AtOrBeyond`), also after a start, since what it loads is the greatest
  number in the file; that there is one needs the log to be bounded
  (`LogBounded`) and the well-foundedness of the naturals. The order of arrival
  rests on `OrderInv`: spool file, batch in the worker's hands, queue and the
  event in the hand of `publish` form one pipeline in the order of publication,
  everything that arrived lies before it, and a request that was given up is for
  an event that has arrived or for the pipeline's head, so that it overtakes
  nothing when it arrives late. The follower's half is `FollowerInv`: it stands
  at the number of a line of the log and owes nothing up to it. Losses are
  counted by a cardinality (`LossInv`): a step keeps every event in the
  pipeline or the log, or loses one and counts it (`KeptEnough`,
  `PublishLoses`). That a backlog follows a failure is inductive with the point
  of the worker's loop (`Hands`): after a delivery the spool is opened, and then
  emptied or the opening has failed.

Only model-checked: liveness (out of the prover's reach:
`PositionEventuallyCloses`, `HaltFollowsLoss`, `EveryFillManaged`,
`GhostCleared`, `CallReturns`), and `SumsAreChart` of `bar_fed` (a running sum,
an average or a histogram against the sum over the bars of the chart: the sum
over a set is a fold, and what a fold computes takes induction over data).

## Not modelled

* Floating-point arithmetic (tolerances, rounding of prices), the text of orders
  and logs, the parsing of options and of third-party feeds.
* Connecting to MT5, the demo-account guard and the lock of the broker's time
  zone; percent mode of the breaker (only the cap differs).
* The loss-streak guard, the spread gate and `assess_fill`: they refuse an entry
  or not, which every loop lets happen freely; the bias veto and the size factor
  of the macro guard likewise.
* The scoring of texts behind the macro bias, and the collectors.
* The TwelveData feed (used without orders), the MQL5 port of the SMC strategy,
  Pine scripts, backtest and reporting scripts.

## Plan

1. The composition of two of the loops with a detailed engine, to see the
   contract used from both sides at once.
2. The backtest harness (`scripts/sim_realistic.py`), whose fills could be
   compared with those of the live loop.
