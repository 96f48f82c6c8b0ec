------------------------------ MODULE LadderLoop ------------------------------
(***************************************************************************)
(* orb/cli.py cmd_live with --strategy smc: a market entry, then the       *)
(* ladder manages the position from the snapshots of BrokerStateCache and  *)
(* the engine is forced flat once the account is.                          *)
(*                                                                         *)
(* As in MarketLoop the loop is cut at its calls into the terminal.  The   *)
(* troubles a behaviour may meet are bounded together: a call that fails,  *)
(* executed or not; a restart of the process; a bar judged on a snapshot   *)
(* that is older than the bar before it.                                   *)
(***************************************************************************)
EXTENDS LadderExits

CONSTANTS
  Dirs,           \* directions the engine trades
  Candles,        \* candles of bars, [h, l, c]
  Dist, Lots,     \* stop distance and volume of an entry
  Quotes,         \* the tick an entry asks for, relative to the close
  Slips,          \* the price it gets, relative to that tick
  CostSet,        \* spread and commission, as _stage1_level may find them
  MaxTickets,     \* bound: positions alive or remembered at the same time
  MaxTroubles     \* bound

ASSUME LoopAssumption ==
  /\ Dirs \subseteq {"LONG", "SHORT"} /\ Candles \subseteq [h : Nat, l : Nat, c : Nat]
  /\ {Dist, Lots} \subseteq Nat \ {0}
  /\ Quotes \subseteq Int /\ Slips \subseteq Int /\ CostSet \subseteq Nat
  /\ Slips # {} /\ CostSet # {}
  /\ {MaxTickets, MaxTroubles} \subseteq Nat

(* The broker takes no order below its minimum volume, a fill within the    *)
(* deviation and the costs leave some of the stop distance, and prices are  *)
(* far from the 0 that MT5 reads as "no stop".                              *)
ASSUME BrokerAssumption ==
  /\ VolMin <= Lots
  /\ \A slip \in Slips, costs \in CostSet : costs + slip < Dist /\ costs - slip < Dist
  /\ \A k \in Candles, quote \in Quotes : k.c + quote > Dist

VARIABLES
  held,      \* the direction of the engine's trade, or "none"
  candle,    \* the bar being handled
  pc,        \* where the event-loop thread is
  acts,      \* ladder actions still to be sent
  book,      \* open positions at the server, by ticket
  trades,    \* LadderExitManager._trades
  prev,      \* LadderExitManager._prev_candle
  cache,     \* [warm, snap], the read in flight [busy, read], and whether
             \* they were read since the last bar: current, readNow (history)
  troubles,
  past       \* per ticket: the distance it was entered with, its best gain at
             \* a close (that of its entry bar first), the gain a close before
             \* the entry showed to a ladder that judged it, and stop moves (history)

vars == <<held, candle, pc, acts, book, trades, prev, cache, troubles, past>>

Tickets == 1 .. MaxTickets
Tks == DOMAIN book

Put(f, t, v) == [u \in DOMAIN f \cup {t} |-> IF u = t THEN v ELSE f[u]]
Drop(f, t) == [u \in DOMAIN f \ {t} |-> f[u]]
FreeTickets == Tickets \ (Tks \cup DOMAIN trades \cup DOMAIN cache.snap \cup DOMAIN cache.read)

Fine == UNCHANGED troubles
Trouble == troubles < MaxTroubles /\ troubles' = troubles + 1

(* positions_get: a failed call lists nothing. *)
Listed(seen) == (seen = Tks /\ Fine) \/ (seen = {} /\ Tks # {} /\ Trouble)

GainAt(p, price) == IF p.dir = "LONG" THEN price - p.open ELSE p.open - price

-----------------------------------------------------------------------------
(* The engine enters when it holds nothing; most bars bring no signal. *)
Bar(c) ==
  /\ pc = "bar"
  /\ IF ~cache.warm \/ cache.current THEN Fine ELSE Trouble
  /\ candle' = c
  /\ cache' = [cache EXCEPT !.current = FALSE, !.readNow = FALSE]
  /\ past' = [t \in Tickets |->
                IF t \in Tks THEN [past[t] EXCEPT !.best = MaxOf(@, GainAt(book[t], c.c))]
                ELSE past[t]]
  /\ \/ /\ held = "none" /\ FreeTickets # {} /\ held' \in Dirs /\ pc' = "entry"
     \/ UNCHANGED held /\ pc' = "sit"
  /\ UNCHANGED <<acts, book, trades, prev>>

(* Mt5Broker._open: the order asks for the tick, on either side of the      *)
(* close, with the stop at its distance from that; the fill may differ.     *)
Fill(quote, slip) ==
  LET sign == IF held = "LONG" THEN 1 ELSE -1
      price == candle.c + quote
  IN [dir |-> held, open |-> price + slip, sl |-> price - sign * Dist, vol |-> Lots]

(* A ladder with a cold cache sees the position at once.  It judges it on   *)
(* the candle before, but moves the stop only if the bar closed in profit.  *)
Lead(p) ==
  IF ~cache.warm /\ prev # NoCandle /\ GainAt(p, candle.c) > 0
  THEN GainAt(p, prev.c) ELSE 0

NewPast(p) ==
  [d |-> AbsDiff(p.open, p.sl), best |-> GainAt(p, candle.c), lead |-> Lead(p), moves |-> 0]

Opened(t) ==
  \E quote \in Quotes, slip \in Slips :
    LET p == Fill(quote, slip) IN
    book' = Put(book, t, p) /\ past' = [past EXCEPT ![t] = NewPast(p)]

Enter ==
  /\ pc = "entry" /\ pc' = "sit"
  /\ \/ (\E t \in FreeTickets : Opened(t)) /\ (Fine \/ Trouble)
     \/ UNCHANGED <<book, past>> /\ Trouble
  /\ UNCHANGED <<held, candle, acts, trades, prev, cache>>

(* A gate refuses the entry. *)
SkipEntry ==
  /\ pc = "entry" /\ pc' = "sit"
  /\ UNCHANGED <<held, candle, acts, book, trades, prev, cache, troubles, past>>

-----------------------------------------------------------------------------
(* on_bar of the ladder, on the snapshot or, while cold, on a direct read. *)
Sit ==
  /\ pc = "sit" /\ pc' = "act"
  /\ \E seen \in SUBSET Tks, costs \in CostSet :
       /\ IF cache.warm THEN seen = {} /\ Fine ELSE Listed(seen)
       /\ LET snap == IF cache.warm THEN cache.snap ELSE [t \in seen |-> book[t]] IN
          /\ acts' = Actions(trades, snap, candle.c, prev, costs)
          /\ trades' = Remember(trades, snap, candle.c, prev, costs)
  /\ prev' = candle
  /\ UNCHANGED <<held, candle, book, cache, past>>

(* close_ticket takes no more than there is; modify_sl sets the stop. *)
ApplyAct(t, k) ==
  IF k \in Parts
  THEN /\ book' = IF acts[<<t, k>>] >= book[t].vol THEN Drop(book, t)
                  ELSE [book EXCEPT ![t].vol = @ - acts[<<t, k>>]]
       /\ UNCHANGED past
  ELSE /\ book' = [book EXCEPT ![t].sl = acts[<<t, k>>]]
       /\ past' = [past EXCEPT ![t].moves = @ + 1]

(* The first action left.  A position that is not listed, because it is     *)
(* gone or the listing failed, is passed over; a call that fails, executed  *)
(* or not, or finds the position gone since, abandons the actions behind.   *)
ActNext ==
  /\ pc = "act"
  /\ \E a \in DOMAIN acts :
       /\ \A b \in DOMAIN acts : Before(a, b)
       /\ \/ /\ a[1] \in Tks /\ ApplyAct(a[1], a[2]) /\ Fine
             /\ acts' = Drop(acts, a)
          \/ /\ a[1] \in Tks /\ Trouble
             /\ ApplyAct(a[1], a[2]) \/ UNCHANGED <<book, past>>
             /\ acts' = << >>
          \/ /\ a[1] \in Tks /\ Trouble
             /\ acts' = Drop(acts, a) /\ UNCHANGED <<book, past>>
          \/ /\ a[1] \notin Tks /\ Fine
             /\ acts' \in {Drop(acts, a), << >>} /\ UNCHANGED <<book, past>>
  /\ UNCHANGED <<held, candle, pc, trades, prev, cache>>

(* The sync: with no position (and, in market mode, no order) the engine is *)
(* forced flat.                                                             *)
Sync ==
  /\ pc = "act" /\ acts = << >> /\ pc' = "bar"
  /\ \E seen \in SUBSET Tks :
       /\ IF held = "none" THEN seen = {} /\ Fine ELSE Listed(seen)
       /\ held' = IF seen = {} THEN "none" ELSE held
  /\ UNCHANGED <<candle, acts, book, trades, prev, cache, past>>

-----------------------------------------------------------------------------
RefreshRead ==
  /\ ~cache.busy
  /\ \E seen \in SUBSET Tks :
       /\ Listed(seen)
       /\ cache' = [cache EXCEPT !.busy = TRUE, !.readNow = (pc = "bar"),
                                !.read = [t \in seen |-> book[t]]]
  /\ UNCHANGED <<held, candle, pc, acts, book, trades, prev, past>>

RefreshStore ==
  /\ pc = "bar" /\ cache.busy
  /\ cache' = [warm |-> TRUE, snap |-> cache.read, busy |-> FALSE, read |-> << >>,
               current |-> cache.readNow, readNow |-> FALSE]
  /\ UNCHANGED <<held, candle, pc, acts, book, trades, prev, troubles, past>>

ServerClose ==
  /\ \E t \in Tks : book' = Drop(book, t)
  /\ UNCHANGED <<held, candle, pc, acts, trades, prev, cache, troubles, past>>

Cold == [warm |-> FALSE, snap |-> << >>, busy |-> FALSE, read |-> << >>,
         current |-> FALSE, readNow |-> FALSE]

(* The process dies and is started again: everything in memory is lost. *)
Restart ==
  /\ Trouble
  /\ held' = "none" /\ pc' = "bar" /\ acts' = << >>
  /\ trades' = << >> /\ prev' = NoCandle /\ cache' = Cold
  /\ UNCHANGED <<candle, book, past>>

Init ==
  /\ held = "none" /\ candle \in Candles
  /\ pc = "bar" /\ acts = << >> /\ book = << >>
  /\ trades = << >> /\ prev = NoCandle /\ cache = Cold
  /\ troubles = 0
  /\ past = [t \in Tickets |-> [d |-> Dist, best |-> 0, lead |-> 0, moves |-> 0]]

NextBar == \E c \in Candles : Bar(c)

Next ==
  \/ NextBar \/ Enter \/ SkipEntry \/ Sit \/ ActNext \/ Sync
  \/ RefreshRead \/ RefreshStore \/ ServerClose \/ Restart

Spec == Init /\ [][Next]_vars

-----------------------------------------------------------------------------
(* exits.py: stop changes are "both tighten-only".  The check is made       *)
(* against the stop of a snapshot; it holds at the server all the same, on  *)
(* an outdated snapshot, over a restart and whichever call fails (one of    *)
(* these), because a second level is never behind the first.                *)
OnlyTightens ==
  [][troubles' <= 1 =>
       \A t \in Tks \cap DOMAIN book' :
         IF book[t].dir = "LONG" THEN book'[t].sl >= book[t].sl
                                 ELSE book'[t].sl <= book[t].sl]_vars

Untroubled == troubles = 0

(* exits.py: "max 2 modifications per position lifetime", and no rung       *)
(* leaves less than vol_min, although volume and stop are read from a       *)
(* snapshot and the volumes of one bar add up.                              *)
WithinLadder ==
  Untroubled => \A t \in Tks : past[t].moves <= 2 /\ book[t].vol >= VolMin

(* What the ladder took or locked was earned: volume came off only if the   *)
(* entry bar or a bar since closed at the first rung, and the stop left its *)
(* place only if one closed stage1_at_r beyond the fill, in multiples of    *)
(* the distance the trade was filled with - not of a stop that has moved    *)
(* since.  For a stop the bar before the entry may stand in, where a cold   *)
(* cache let the ladder judge a fill better than the close at once.         *)
Earned ==
  Untroubled =>
    \A t \in Tks :
      /\ past[t].moves > 0 => MaxOf(past[t].best, past[t].lead) >= Stage1R * past[t].d
      /\ book[t].vol < Lots => past[t].best >= Rung1R * past[t].d
=============================================================================
