------------------------------- MODULE Mt5Feed -------------------------------
(***************************************************************************)
(* orb/feeds/mt5feed.py stream_candles, as operators on the generator's    *)
(* locals.  Bar k opens at minute k and is closed at minute k + 1; a bar   *)
(* is its index.  "shows" is the minute up to which the terminal shows     *)
(* bars: the present, or an earlier one while it hangs.  (TwelveData polls *)
(* in the same way, with five bars and without reconnection.)              *)
(***************************************************************************)
EXTENDS PyMath, Sequences, FiniteSets, FiniteSetsExt

CONSTANTS
  WarmupBars,        \* warmup_bars
  ReconnectAfter,    \* RECONNECT_AFTER
  MaxReconnects,     \* max_reconnect_attempts
  StaleAfter,        \* stale_reconnect_sec, in minutes (0: off)
  ClosedAfter        \* STALE_MARKET_CLOSED_SEC, in minutes

ASSUME FeedAssumption ==
  /\ {WarmupBars, StaleAfter, ClosedAfter} \subseteq Nat
  /\ {ReconnectAfter, MaxReconnects} \subseteq Nat \ {0}

Never == -1

NewFeed(now) ==
  [alive |-> TRUE, last |-> Never, queue |-> << >>, pending |-> WarmupBars,
   started |-> Never, caughtUp |-> FALSE, fails |-> 0, reconnectFails |-> 0,
   newBarAt |-> now, batch |-> FALSE,
   since |-> Never, worst |-> 0, lost |-> {}]   \* history: see Fetched

(* copy_rates_from_pos(.., 0, count): the forming bar and those before it. *)
Rates(f, shows) ==
  LET count == (IF f.pending > 0 THEN f.pending ELSE 0) + 3 IN
  MaxOf(0, shows - count + 1) .. shows

InOrder(S) == [i \in 1 .. Cardinality(S) |-> Min(S) + i - 1]

MutFetched(f, shows, now) ==
  LET closed == {k \in Rates([f EXCEPT !.pending = 0], shows) : k < shows}
      fresh == {k \in closed : k > f.last}
  IN [f EXCEPT !.fails = 0, !.queue = InOrder(fresh), !.pending = 0, !.batch = TRUE,
               !.started = IF f.pending > 0 /\ ~f.caughtUp THEN now ELSE @,
               !.caughtUp = @ \/ f.pending > 0,
               !.worst = IF f.since = Never THEN 0 ELSE MaxOf(@, shows - f.since),
               !.since = shows,
               !.lost = @ \cup IF f.last = Never THEN {}
                               ELSE {k \in f.last + 1 .. shows - 1 : k \notin closed}]

(* A successful fetch: the closed bars that are newer than last_emitted.    *)
(* History: bars that were closed and are in no batch, and the most that    *)
(* the terminal's chart advanced from one fetch to the next (not counting   *)
(* the time that the replay of the warmup took).                            *)
Fetched(f, shows, now) ==
  LET closed == {k \in Rates(f, shows) : k < shows}
      fresh == {k \in closed : k > f.last}
  IN [f EXCEPT !.fails = 0, !.queue = InOrder(fresh), !.pending = 0, !.batch = TRUE,
               !.started = IF f.pending > 0 /\ ~f.caughtUp THEN now ELSE @,
               !.caughtUp = @ \/ f.pending > 0,
               !.worst = IF f.since = Never THEN 0 ELSE MaxOf(@, shows - f.since),
               !.since = shows,
               !.lost = @ \cup IF f.last = Never THEN {}
                               ELSE {k \in f.last + 1 .. shows - 1 : k \notin closed}]

Yielded(f, now) ==
  [f EXCEPT !.queue = Tail(@), !.last = Head(f.queue),
            !.newBarAt = IF StaleAfter > 0 THEN now ELSE @]

(* A reconnection that succeeds clears the counters; the last permitted     *)
(* failure raises Mt5FeedError, which ends the process.                     *)
Reconnected(f) == [f EXCEPT !.fails = 0, !.reconnectFails = 0]
NotReconnected(f) ==
  [f EXCEPT !.reconnectFails = @ + 1, !.alive = f.reconnectFails + 1 < MaxReconnects]

(* After the batch: a slow warmup replay enlarges the next fetch, once.     *)
BatchDone(f, now) ==
  LET slow == f.started # Never /\ now > f.started IN
  [f EXCEPT !.batch = FALSE, !.started = Never,
            !.pending = IF slow THEN now - f.started + 1 ELSE @,
            !.since = IF slow THEN @ + (now - f.started) ELSE @]

(* The watchdog: no new bar for a while although the market is open. *)
Stale(f, now) ==
  /\ StaleAfter > 0 /\ f.last # Never
  /\ now - f.newBarAt > StaleAfter /\ now - f.last <= ClosedAfter
=============================================================================
