----------------------------- MODULE MarketLoop -----------------------------
(***************************************************************************)
(* orb/cli.py cmd_live with --broker mt5 and market entries: one strategy  *)
(* engine, one MT5 account, and the callbacks on_signal and on_bar that    *)
(* keep them in agreement.                                                 *)
(*                                                                         *)
(* A bar goes through on_candle, on_signal (if there is a signal) and      *)
(* on_bar on the event-loop thread.  Each of them stops at every call into *)
(* the terminal, and between two calls the server may close a position     *)
(* (stop loss, take profit, the owner's hand) and the worker thread of     *)
(* BrokerStateCache may read the account.  A call is cut where it reaches  *)
(* the server; "pc" is the point the loop has reached.                     *)
(*                                                                         *)
(* The engine is any engine that keeps EngineContract.  Prices and volumes *)
(* are integers, the balance moves by at most one unit per closed deal.    *)
(* The entry filters that neither read nor write the state modelled here   *)
(* (true-open, quarters, killzones, macro veto, sizing to zero, spread)    *)
(* are one nondeterministic refusal.                                       *)
(***************************************************************************)
EXTENDS EngineContract, FiniteSets, FiniteSetsExt

CONSTANTS
  Closes,       \* closing prices of bars
  Dists,        \* distances of the stop of an entry
  Slips,        \* distances of the tick at order time from the signal's price
  Balances,     \* account balances
  MaxLoss,      \* max_daily_loss
  MaxTickets,   \* bound: positions open at the same time
  MaxDay,       \* bound: last UTC day
  MaxTroubles,  \* bound: failed calls into the terminal, and deaths of the
                \* process (the keeper restarts it), together
  Want, Ladder, PartialLots, \* volume of an entry; of its retry on "no money";
                             \* of a partial exit
  SlippageClose \* slippage_policy = "close"

ASSUME LoopAssumption ==
  /\ Closes \subseteq Int /\ Stops \subseteq Int
  /\ Slips \subseteq Nat /\ Slips # {}
  /\ Dists \subseteq Nat \ {0}
  /\ Balances \subseteq Int /\ \E top \in Balances : \A b \in Balances : b <= top
  /\ MaxLoss \in Nat \ {0}
  /\ {MaxTickets, MaxDay, MaxTroubles} \subseteq Nat
  /\ {Want, Ladder} \subseteq Nat \ {0} /\ PartialLots \in Nat
  /\ SlippageClose \in BOOLEAN

(* Prices are far from zero, which MT5 reads as "no stop", and the stop an  *)
(* order carries at its own tick is one of them.                            *)
ASSUME StopAssumption ==
  /\ 0 \notin Stops
  /\ \A c \in Closes, s \in Slips, d \in Dists :
       {c + s + d, c + s - d, c - s + d, c - s - d} \subseteq Stops

VARIABLES
  close,    \* close of the last bar
  day,      \* UTC day of the last bar
  pc,       \* where the event-loop thread is
  job,      \* the loop over positions in progress: [op, todo, after]
  book,     \* open positions at the server, by ticket
  bal,      \* account balance at the server
  breaker,  \* DailyLossBreaker: [day, start, halted]
  cache,    \* BrokerStateCache: [warm, bal] and the read in flight [busy, read]
  faults, crashes,
  ghost,    \* bars in a row that ended in a believed trade and no position (history)
  haltDay   \* the last day the breaker tripped (history)

loop == <<pc, job>>
broker == <<book, bal>>
budget == <<faults, crashes>>
vars == <<cpos, csig, close, day, pc, job, book, bal, breaker, cache,
          faults, crashes, ghost, haltDay>>

-----------------------------------------------------------------------------
Tickets == 1 .. MaxTickets
NoDay == -1
NoJob == [op |-> "none", todo |-> {}, after |-> "bar"]

Tks == DOMAIN book

Without(t) == [u \in Tks \ {t} |-> book[u]]
With(t, p) == [u \in Tks \cup {t} |-> IF u = t THEN p ELSE book[u]]

(* dist on the losing side of price. *)
Behind(dir, price, dist) == IF dir = "LONG" THEN price - dist ELSE price + dist

NoFault == UNCHANGED budget
Fault == faults + crashes < MaxTroubles /\ faults' = faults + 1 /\ UNCHANGED crashes

(* A deal that closes volume moves the balance. *)
Settle == bal' \in Balances \cap (bal - 1 .. bal + 1)

(* on_bar returns. *)
EndBar(trade) ==
  /\ pc' = "bar" /\ job' = NoJob
  /\ ghost' = IF trade # NoTrade /\ Tks = {} THEN ghost + 1 ELSE 0

Goto(label) == pc' = label /\ UNCHANGED <<job, ghost>>

(* my_positions: what the terminal lists, or nothing when the call failed. *)
Listed(seen) == (seen = Tks /\ NoFault) \/ (seen = {} /\ Tks # {} /\ Fault)

(* Start a loop over the positions seen. *)
Iterate(op, seen, after) ==
  /\ pc' = "send" /\ job' = [op |-> op, todo |-> seen, after |-> after]
  /\ UNCHANGED ghost

-----------------------------------------------------------------------------
(* CandleStream.run: the next bar goes to the engine. *)
EngineStep(c) ==
  /\ CNext
  /\ csig' = "ENTRY" =>
       \E d \in Dists : cpos'.stop = Behind(cpos'.dir, c, d)
  /\ cpos' # NoTrade =>
       IF cpos'.dir = "LONG" THEN cpos'.stop <= c ELSE cpos'.stop >= c

Bar(c, d) ==
  /\ pc = "bar"
  /\ d \in {day, day + 1} \cap (0 .. MaxDay)
  /\ EngineStep(c)
  /\ close' = c /\ day' = d
  /\ Goto(IF csig' = "none" THEN "breaker" ELSE "signal")
  /\ UNCHANGED <<broker, breaker, cache, budget, haltDay>>

-----------------------------------------------------------------------------
(* on_signal *)
(* A gate refuses the entry, or the signal is a REJECT. *)
SkipEntry ==
  /\ pc = "signal" /\ csig \in {"ENTRY", "REJECT"}
  /\ Goto("breaker") /\ NoFault
  /\ UNCHANGED <<cpos, csig, close, day, broker, breaker, cache, haltDay>>

PassGates ==
  /\ pc = "signal" /\ csig = "ENTRY" /\ ~breaker.halted
  /\ Tks # Tickets   \* the bound on positions
  /\ Goto("open") /\ NoFault
  /\ UNCHANGED <<cpos, csig, close, day, broker, breaker, cache, haltDay>>

(* Mt5Broker._open: the stop is re-anchored to the order price, keeping the *)
(* signal's risk distance; on "no money" the order is retried smaller.      *)
SignalRisk == IF cpos.dir = "LONG" THEN close - cpos.stop ELSE cpos.stop - close

NewPosition(price, vol) ==
  [dir |-> cpos.dir, vol |-> vol,
   sl |-> Behind(cpos.dir, price, SignalRisk)]

Ticks == {close + s : s \in Slips} \cup {close - s : s \in Slips}

Opened ==
  \E t \in Tickets \ Tks, price \in Ticks, vol \in {Want, Ladder} :
    /\ t = Min(Tickets \ Tks)
    /\ book' = With(t, NewPosition(price, vol))

OpenDone ==
  /\ pc = "open"
  /\ Opened /\ Goto("assess") /\ NoFault
  /\ UNCHANGED <<cpos, csig, close, day, bal, breaker, cache, haltDay>>

(* No tick, a rejection, or no answer to an order that went through. *)
OpenFailed ==
  /\ pc = "open" /\ Fault
  /\ Opened \/ UNCHANGED book
  /\ Goto("breaker")
  /\ UNCHANGED <<cpos, csig, close, day, bal, breaker, cache, haltDay>>

(* assess_fill, and slippage_policy. *)
KeepFill ==
  /\ pc = "assess" /\ Goto("breaker") /\ NoFault
  /\ UNCHANGED <<cpos, csig, close, day, broker, breaker, cache, haltDay>>

AbortFill ==
  /\ pc = "assess" /\ SlippageClose
  /\ \E seen \in SUBSET Tks : Listed(seen) /\ Iterate("close", seen, "breaker")
  /\ UNCHANGED <<cpos, csig, close, day, broker, breaker, cache, haltDay>>

(* Mt5Broker._close: the positions listed are closed, in part or whole. *)
ExitSignal ==
  /\ pc = "signal" /\ csig \in {"EXIT", "PARTIAL"}
  /\ \E seen \in SUBSET Tks :
       /\ Listed(seen)
       /\ IF csig = "EXIT" THEN Iterate("close", seen, "breaker")
          ELSE Iterate("partial", IF PartialLots = 0 THEN {} ELSE seen, "breaker")
  /\ UNCHANGED <<cpos, csig, close, day, broker, breaker, cache, haltDay>>

-----------------------------------------------------------------------------
(* One request of a loop over positions. *)
Current == Min(job.todo)
Raise == pc' = job.after /\ job' = NoJob /\ UNCHANGED ghost
Proceed == job' = [job EXCEPT !.todo = @ \ {Current}] /\ UNCHANGED <<pc, ghost>>

MutClosedVolume(p) == IF job.op = "partial" THEN PartialLots ELSE p.vol

(* What the server does with the request for the current position. *)
ClosedVolume(p) ==
  IF job.op = "partial" /\ PartialLots < p.vol THEN PartialLots ELSE p.vol

Execute(t) ==
  IF job.op = "push"
  THEN /\ book' = [book EXCEPT ![t].sl = cpos.stop] /\ UNCHANGED bal
  ELSE /\ Settle
       /\ book' = IF ClosedVolume(book[t]) = book[t].vol THEN Without(t)
                  ELSE [book EXCEPT ![t].vol = @ - ClosedVolume(book[t])]

(* A position that is gone, or a stop on the wrong side, is refused. *)
Refused(t) == t \notin Tks \/ (job.op = "push" /\ book[t].dir # cpos.dir)

SendOk ==
  /\ pc = "send" /\ job.todo # {} /\ ~Refused(Current)
  /\ Execute(Current)
  /\ Proceed /\ NoFault
  /\ UNCHANGED <<cpos, csig, close, day, breaker, cache, haltDay>>

(* BrokerError ends the loop; the request may have gone through all the same. *)
SendFailed ==
  /\ pc = "send" /\ job.todo # {}
  /\ IF Refused(Current) THEN NoFault /\ UNCHANGED broker
     ELSE Fault /\ (Execute(Current) \/ UNCHANGED broker)
  /\ Raise
  /\ UNCHANGED <<cpos, csig, close, day, breaker, cache, haltDay>>

SendEnd ==
  /\ pc = "send" /\ job.todo = {}
  /\ IF job.after = "bar" THEN EndBar(cpos) ELSE Raise
  /\ NoFault
  /\ UNCHANGED <<cpos, csig, close, day, broker, breaker, cache, haltDay>>

-----------------------------------------------------------------------------
(* on_bar: the daily loss breaker. *)
MutUpdateBreaker(b, value) ==
  LET fresh == [day |-> day, start |-> value, halted |-> b.halted]
      c == IF day # b.day THEN fresh ELSE b
  IN [c EXCEPT !.halted = c.start - value >= MaxLoss]

UpdateBreaker(b, value) ==
  LET fresh == [day |-> day, start |-> value, halted |-> FALSE]
      c == IF day # b.day THEN fresh ELSE b
  IN [c EXCEPT !.halted = @ \/ c.start - value >= MaxLoss]

(* BrokerStateCache.balance: the snapshot once there is one. *)
CachedBalance == IF cache.warm THEN cache.bal ELSE bal

(* The update, and on the bar that trips it the closing of every position. *)
BreakerUpdate ==
  /\ pc = "breaker"
  /\ breaker' = UpdateBreaker(breaker, CachedBalance)
  /\ IF breaker'.halted /\ ~breaker.halted
     THEN /\ \E seen \in SUBSET Tks : Listed(seen) /\ Iterate("close", seen, "sync")
          /\ haltDay' = day
     ELSE Goto("sync") /\ NoFault /\ UNCHANGED haltDay
  /\ UNCHANGED <<cpos, csig, close, day, broker, cache>>

(* A cold cache reads the account itself, and the read fails. *)
BreakerFailed ==
  /\ pc = "breaker" /\ ~cache.warm /\ Fault
  /\ Goto("sync")
  /\ UNCHANGED <<cpos, csig, close, day, broker, breaker, cache, haltDay>>

-----------------------------------------------------------------------------
(* on_bar: engine against broker. *)
NothingToSync ==
  /\ pc = "sync" /\ cpos = NoTrade
  /\ EndBar(cpos) /\ NoFault
  /\ UNCHANGED <<cpos, csig, close, day, broker, breaker, cache, haltDay>>

MutSyncFlat ==
  /\ pc = "sync" /\ cpos # NoTrade
  /\ Listed({})
  /\ EndBar(cpos)
  /\ UNCHANGED <<cpos, csig, close, day, broker, breaker, cache, haltDay>>

(* has_position is False: engine.force_flat, a Leave of the contract. *)
SyncFlat ==
  /\ pc = "sync" /\ Leave
  /\ Listed({})
  /\ EndBar(NoTrade)
  /\ UNCHANGED <<close, day, broker, breaker, cache, haltDay>>

SyncHeld ==
  /\ pc = "sync" /\ cpos # NoTrade
  /\ Tks # {}
  /\ Goto("push") /\ NoFault
  /\ UNCHANGED <<cpos, csig, close, day, broker, breaker, cache, haltDay>>

MutPushStop ==
  /\ pc = "push"
  /\ EndBar(cpos) /\ NoFault
  /\ UNCHANGED <<cpos, csig, close, day, broker, breaker, cache, haltDay>>

MutPushStopLater ==
  /\ pc = "push"
  /\ IF csig = "ENTRY" THEN EndBar(cpos) /\ NoFault
     ELSE \E seen \in SUBSET Tks :
            /\ Listed(seen)
            /\ Iterate("push", {t \in seen : book[t].sl # cpos.stop}, "bar")
  /\ UNCHANGED <<cpos, csig, close, day, broker, breaker, cache, haltDay>>

(* update_stop: the positions whose stop differs from the engine's. *)
PushStop ==
  /\ pc = "push"
  /\ \E seen \in SUBSET Tks :
       /\ Listed(seen)
       /\ Iterate("push", {t \in seen : book[t].sl # cpos.stop}, "bar")
  /\ UNCHANGED <<cpos, csig, close, day, broker, breaker, cache, haltDay>>

-----------------------------------------------------------------------------
(* BrokerStateCache._refresh_once: a worker thread reads the account at any *)
(* time; the result is stored when the event loop is free, between bars.    *)
RefreshRead ==
  /\ ~cache.busy
  /\ cache' = [cache EXCEPT !.busy = TRUE, !.read = bal]
  /\ UNCHANGED <<cpos, csig, close, day, loop, broker, breaker, budget, ghost, haltDay>>

MutRefreshStore ==
  /\ pc = "bar" /\ cache.busy
  /\ cache' = [warm |-> TRUE, bal |-> IF cache.warm THEN cache.bal ELSE cache.read,
               busy |-> FALSE, read |-> 0]
  /\ UNCHANGED <<cpos, csig, close, day, loop, broker, breaker, budget, ghost, haltDay>>

RefreshStore ==
  /\ pc = "bar" /\ cache.busy
  /\ cache' = [warm |-> TRUE, bal |-> cache.read, busy |-> FALSE, read |-> 0]
  /\ UNCHANGED <<cpos, csig, close, day, loop, broker, breaker, budget, ghost, haltDay>>

(* The refresh raised: nothing is stored, the next one starts over. *)
RefreshFailed ==
  /\ cache.busy /\ Fault
  /\ cache' = [cache EXCEPT !.busy = FALSE, !.read = 0]
  /\ UNCHANGED <<cpos, csig, close, day, loop, broker, breaker, ghost, haltDay>>

(* The server closes a position: stop loss, take profit, or by hand. *)
ServerClose ==
  /\ \E t \in Tks : book' = Without(t)
  /\ Settle
  /\ UNCHANGED <<cpos, csig, close, day, loop, breaker, cache, budget, ghost, haltDay>>

(* The process dies and the keeper starts it again: a new engine, breaker   *)
(* and cache; the positions stay at the server.                             *)
ColdCache == [warm |-> FALSE, bal |-> 0, busy |-> FALSE, read |-> 0]
NewBreaker == [day |-> NoDay, start |-> 0, halted |-> FALSE]

Crash ==
  /\ faults + crashes < MaxTroubles /\ crashes' = crashes + 1
  /\ cpos' = NoTrade /\ csig' = "none"
  /\ pc' = "bar" /\ job' = NoJob
  /\ breaker' = NewBreaker /\ cache' = ColdCache
  /\ ghost' = 0
  /\ UNCHANGED <<close, day, broker, faults, haltDay>>

-----------------------------------------------------------------------------
Init ==
  /\ CInit
  /\ close \in Closes /\ day = 0
  /\ pc = "bar" /\ job = NoJob
  /\ book = << >> /\ bal = Max(Balances)
  /\ breaker = NewBreaker /\ cache = ColdCache
  /\ faults = 0 /\ crashes = 0
  /\ ghost = 0 /\ haltDay = NoDay

NextBar == \E c \in Closes, d \in 0 .. MaxDay : Bar(c, d)

OnSignal ==
  \/ SkipEntry \/ PassGates \/ OpenDone \/ OpenFailed
  \/ KeepFill \/ AbortFill \/ ExitSignal

Send == SendOk \/ SendFailed \/ SendEnd

OnBar ==
  \/ BreakerUpdate \/ BreakerFailed
  \/ NothingToSync \/ SyncFlat \/ SyncHeld \/ PushStop

Loop == NextBar \/ OnSignal \/ Send \/ OnBar

Next ==
  \/ Loop \/ RefreshRead \/ RefreshStore \/ RefreshFailed
  \/ ServerClose \/ Crash

Spec == Init /\ [][Next]_vars

(* The feed keeps delivering bars and every call returns; the refresher     *)
(* runs on a timer, and its result is stored whenever the loop is free.     *)
FairSpec ==
  Spec /\ WF_vars(Loop) /\ WF_vars(RefreshRead) /\ SF_vars(RefreshStore)

-----------------------------------------------------------------------------
OpenPositions ==
  [dir : {"LONG", "SHORT"}, vol : Nat \ {0}, sl : Int]

TypeOK ==
  /\ cpos \in Trades \cup {NoTrade}
  /\ csig \in {"none", "ENTRY", "EXIT", "PARTIAL", "REJECT"}
  /\ close \in Closes /\ day \in 0 .. MaxDay
  /\ pc \in {"bar", "signal", "open", "assess", "send", "breaker", "sync", "push"}
  /\ job \in [op : {"none", "close", "partial", "push"}, todo : SUBSET Tickets,
              after : {"bar", "breaker", "sync"}]
  /\ Tks \subseteq Tickets /\ \A t \in Tks : book[t] \in OpenPositions
  /\ bal \in Balances
  /\ breaker \in [day : 0 .. MaxDay \cup {NoDay}, start : Int, halted : BOOLEAN]
  /\ cache \in [warm : BOOLEAN, bal : Int, busy : BOOLEAN, read : Int]
  /\ faults \in 0 .. MaxTroubles /\ crashes \in 0 .. MaxTroubles
  /\ ghost \in Nat /\ haltDay \in 0 .. MaxDay \cup {NoDay}

(* No call has failed and the process has not died. *)
Untroubled == budget = <<0, 0>>

(* Between two bars the account holds exactly what the engine believes in,  *)
(* or less: at most one position, in the engine's direction, with the       *)
(* engine's stop ("the tightened stop is real", on_bar), and none the       *)
(* engine has left; whenever the server closes it, in part or whole.  Once  *)
(* the breaker has tripped and its close_all is done the account is flat.   *)
InSync ==
  Untroubled =>
    /\ breaker.halted /\ pc # "send" => Tks = {}
    /\ pc = "bar" =>
         /\ Cardinality(Tks) <= 1
         /\ \A t \in Tks : /\ cpos # NoTrade
                           /\ book[t].dir = cpos.dir /\ book[t].sl = cpos.stop

(* Whatever fails, and whenever the process dies, every position at the     *)
(* server carries a stop some engine computed for its direction (0 is "no   *)
(* stop"): the entry order itself carries one, and a push only replaces it; *)
(* and no partial exit takes more off a position than is left of it.        *)
Protected ==
  TypeOK /\ \A t \in Tks : book[t].sl # 0 /\ book[t].sl \in Stops /\ book[t].vol > 0

(* A ghost trade - the engine believes in a position the server no longer   *)
(* has - does not outlive the next bar, whichever calls fail.               *)
GhostAtMostOneBar == ghost <= 1

(* The process that halted lets no entry through for the rest of the day,   *)
(* whatever it wins back and whichever calls fail.                          *)
HaltHolds == [][day = haltDay /\ crashes = 0 => DOMAIN book' \subseteq Tks]_vars

(* From the bar after its entry on, the stop of a position at the server    *)
(* only ever tightens; on the entry's own bar the stop anchored to the fill *)
(* gives way to the engine's.  (No call fails: an orphan of a failed close  *)
(* may be handed a looser stop.)                                            *)
ServerStopTightens ==
  [][Untroubled /\ csig # "ENTRY" => \A t \in Tks \cap DOMAIN book' :
       IF book[t].dir = "LONG" THEN book'[t].sl >= book[t].sl
                               ELSE book'[t].sl <= book[t].sl]_vars

(* A loss beyond the cap is noticed, although the breaker only ever sees    *)
(* the cached balance: the breaker trips, the loss is won back, or the day  *)
(* ends first.  (No call fails and the process does not die.)               *)
LossOverCap ==
  breaker.day = day /\ breaker.start - bal >= MaxLoss /\ ~breaker.halted
HaltFollowsLoss == LossOverCap ~> ~LossOverCap \/ ~Untroubled
=============================================================================
