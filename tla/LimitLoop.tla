------------------------------ MODULE LimitLoop ------------------------------
(***************************************************************************)
(* orb/cli.py cmd_live with --entry limit: an ENTRY places two limit       *)
(* orders, the server fills them when it likes, and the babysitter manages *)
(* every fill from the snapshots of BrokerStateCache.                      *)
(*                                                                         *)
(* As in MarketLoop, the loop is cut at its calls into the terminal: a     *)
(* limit may fill, a stop may be hit, and the cache's worker thread may    *)
(* read, between any two of them.  Of the engine only the direction it     *)
(* believes in is kept: in limit mode its exits do not reach the broker.   *)
(* MarketLoop has the arithmetic of the breaker; here it trips at will.    *)
(***************************************************************************)
EXTENDS Babysitter, FiniteSets, FiniteSetsExt

CONSTANTS
  Dirs,          \* directions the engine trades
  Closes,        \* closing prices of bars
  Dist,          \* the signal's stop distance d
  AddonTenths,   \* addon_frac in tenths
  Lots,          \* volume of each limit, in lot steps
  SpareAge,      \* age in bars from which a spike cancels a limit
  Ttl,           \* limit_ttl in bars (0: none)
  Timely,        \* a cache refresh completes between two bars
  MaxTickets,    \* bound: orders and positions alive at the same time
  MaxFaults      \* bound: failed calls into the terminal

ASSUME LimitAssumption ==
  /\ Dirs \subseteq {"LONG", "SHORT"} /\ Closes \subseteq Nat
  /\ Dist \in Nat \ {0} /\ AddonTenths \in 1 .. 9 /\ Lots \in Nat \ {0}
  /\ {SpareAge, Ttl, MaxTickets, MaxFaults} \subseteq Nat
  /\ Timely \in BOOLEAN

(* Prices are far from the 0 that MT5 reads as "no stop".                   *)
ASSUME PriceAssumption == \A c \in Closes : c > 2 * Dist

VARIABLES
  held,     \* the direction of the engine's BREAKOUT, or "none"
  close,    \* close of the last bar
  pc,       \* where the event-loop thread is
  job,      \* tickets still to close or to cancel, and where to go then
  acts,     \* babysitter actions still to be sent
  pend,     \* limit orders at the server, by ticket
  book,     \* open positions at the server, by ticket
  halted,   \* breaker.halted
  trades,   \* Babysitter._trades
  cache,    \* [warm, snap] and the positions read in flight [busy, read];
            \* readNow, current: read since the last bar (history)
  faults,
  partials  \* partial closes sent so far, by ticket (history)

vars == <<held, close, pc, job, acts, pend, book, halted, trades, cache,
          faults, partials>>
server == <<pend, book>>

-----------------------------------------------------------------------------
Tickets == 1 .. MaxTickets
NoJob == [todo |-> {}, after |-> "bar"]

Orders == DOMAIN pend
Tks == DOMAIN book

Put(f, t, v) == [u \in DOMAIN f \cup {t} |-> IF u = t THEN v ELSE f[u]]
Drop(f, S) == [u \in DOMAIN f \ S |-> f[u]]

NoFault == UNCHANGED faults
Fault == faults < MaxFaults /\ faults' = faults + 1
Goto(label) == pc' = label /\ UNCHANGED <<job, acts>>

(* positions_get and orders_get: a failed call lists nothing. *)
Listed(seen, S) == (seen = S /\ NoFault) \/ (seen = {} /\ S # {} /\ Fault)

(* MT5 never reuses a ticket: a new one is one that nobody remembers. *)
FreeTickets ==
  Tickets \ (Orders \cup Tks \cup DOMAIN trades
             \cup DOMAIN cache.snap \cup DOMAIN cache.read)

(* The stored snapshot was read after the last bar was done with. *)
SnapshotCurrent == ~cache.warm \/ cache.current

-----------------------------------------------------------------------------
(* The engine and on_signal.  Every bar ages the pending orders. *)
Aged == [t \in Orders |-> [pend[t] EXCEPT !.age = MinOf(@ + 1, MaxOf(SpareAge, Ttl))]]

Bar(c) ==
  /\ pc = "bar"
  /\ Timely => SnapshotCurrent
  /\ close' = c
  /\ pend' = Aged
  /\ cache' = [cache EXCEPT !.readNow = FALSE, !.current = FALSE]
  /\ \/ /\ held = "none" /\ held' \in Dirs
        /\ Cardinality(FreeTickets) >= 2
        /\ Goto(IF halted THEN "spike" ELSE "entry")
     \/ /\ held' \in {held, "none"}
        /\ Goto("spike")
  /\ UNCHANGED <<book, halted, trades, faults, partials>>

(* A gate refuses the entry. *)
SkipEntry ==
  /\ pc = "entry" /\ Goto("spike")
  /\ UNCHANGED <<held, close, server, halted, trades, cache, faults, partials>>

(* _open_limit: the limits L1 = close -/+ d and, deeper, L2; one stop. *)
Away(x) == IF held = "LONG" THEN close - x ELSE close + x

Limit(dist) ==
  [dir |-> held, price |-> Away(dist), sl |-> Away(2 * Dist), age |-> 0]

Place(label, dist, next) ==
  /\ pc = label
  /\ \E t \in FreeTickets :
       /\ \A u \in FreeTickets : t <= u
       /\ LET placed == Put(pend, t, Limit(dist)) IN
          \/ pend' = placed /\ Goto(next) /\ NoFault
          \/ pend' \in {pend, placed} /\ Goto("spike") /\ Fault
  /\ UNCHANGED <<held, close, book, halted, trades, cache, partials>>

PlaceEntry == Place("entry", Dist, "addon")
PlaceAddon == Place("addon", Dist + (AddonTenths * Dist) \div 10, "spike")

-----------------------------------------------------------------------------
(* Loops over positions (close_all) and orders (cancel_pending, ...): the   *)
(* first request the server refuses ends the loop, and with it the rest of  *)
(* the try block it stands in.                                              *)
Iterate(label, seen, after) ==
  pc' = label /\ job' = [todo |-> seen, after |-> after] /\ UNCHANGED acts

Current == Min(job.todo)

Loop(label, alive, handled, onRaise) ==
  /\ pc = label
  /\ \/ /\ job.todo # {} /\ Current \in alive /\ handled
        /\ job' = [job EXCEPT !.todo = @ \ {Current}]
        /\ NoFault /\ UNCHANGED pc
     \/ /\ job.todo # {} /\ Current \in alive /\ Fault
        /\ handled \/ UNCHANGED server
        /\ pc' = onRaise /\ job' = NoJob
     \/ /\ job.todo # {} /\ Current \notin alive /\ NoFault
        /\ pc' = onRaise /\ job' = NoJob /\ UNCHANGED server
     \/ /\ job.todo = {}
        /\ pc' = job.after /\ job' = NoJob
        /\ NoFault /\ UNCHANGED server
  /\ UNCHANGED <<held, close, acts, halted, trades, cache, partials>>

CloseNext ==
  Loop("closing", Tks,
       book' = Drop(book, {Current}) /\ UNCHANGED pend,
       "ttl")

CancelNext ==
  Loop("cancelling", Orders,
       pend' = Drop(pend, {Current}) /\ UNCHANGED book,
       job.after)

-----------------------------------------------------------------------------
(* on_bar: an abnormal bar pulls the limits that are old enough; without a  *)
(* tick their age is unknown and all of them go.                            *)
SpikeCancel ==
  /\ pc = "spike"
  /\ \/ Goto("breaker") /\ NoFault
     \/ \E seen \in SUBSET Orders :
          /\ Orders # {} /\ Listed(seen, Orders)
          /\ Iterate("cancelling", {t \in seen : pend[t].age >= SpareAge}, "breaker")
     \/ Orders # {} /\ Fault /\ Iterate("cancelling", Orders, "breaker")
  /\ UNCHANGED <<held, close, server, halted, trades, cache, partials>>

(* The daily loss breaker: on the bar that trips it, close_all and then     *)
(* cancel_pending; the first bar of a new day resets it.                    *)
BreakerQuiet ==
  /\ pc = "breaker"
  /\ halted' \in {halted, FALSE}
  /\ Goto("ttl")
  /\ UNCHANGED <<held, close, server, trades, cache, faults, partials>>

BreakerTrips ==
  /\ pc = "breaker" /\ ~halted
  /\ halted' = TRUE
  /\ \E seen \in SUBSET Tks : Listed(seen, Tks) /\ Iterate("closing", seen, "pull")
  /\ UNCHANGED <<held, close, server, trades, cache, partials>>

PullLimits ==
  /\ pc = "pull"
  /\ \E seen \in SUBSET Orders :
       Listed(seen, Orders) /\ Iterate("cancelling", seen, "ttl")
  /\ UNCHANGED <<held, close, server, halted, trades, cache, partials>>

(* limit_ttl: cancel_expired. *)
CancelExpired ==
  /\ pc = "ttl"
  /\ \E seen \in SUBSET Orders :
       /\ Listed(seen, Orders)
       /\ Iterate("cancelling", {t \in seen : Ttl > 0 /\ pend[t].age >= Ttl}, "sit")
  /\ UNCHANGED <<held, close, server, halted, trades, cache, partials>>

-----------------------------------------------------------------------------
MutSit ==
  /\ pc = "sit"
  /\ IF held = "none" THEN acts' = << >> /\ UNCHANGED trades
     ELSE /\ acts' = Actions(trades, cache.snap, close)
          /\ trades' = Remember(trades, cache.snap, close)
  /\ pc' = "act" /\ UNCHANGED job
  /\ UNCHANGED <<held, close, server, halted, cache, faults, partials>>

(* The babysitter works on the snapshot, or on a direct read while cold. *)
Sit ==
  /\ pc = "sit"
  /\ \E seen \in SUBSET Tks :
       /\ IF cache.warm THEN seen = {} /\ NoFault ELSE Listed(seen, Tks)
       /\ LET snap == IF cache.warm THEN cache.snap ELSE [t \in seen |-> book[t]] IN
          /\ acts' = Actions(trades, snap, close)
          /\ trades' = Remember(trades, snap, close)
  /\ pc' = "act" /\ UNCHANGED job
  /\ UNCHANGED <<held, close, server, halted, cache, partials>>

(* close_ticket rounds the volume to the lot step, halves up; modify_sl     *)
(* skips a stop that is there already.                                      *)
Volume(t, tenths) == (MinOf(tenths, 10 * book[t].vol) + 5) \div 10

ApplyAct(t, k) ==
  IF k = 2
  THEN book' = [book EXCEPT ![t].sl = acts[<<t, k>>]] /\ UNCHANGED partials
  ELSE LET v == Volume(t, acts[<<t, k>>]) IN
       IF v = 0 THEN UNCHANGED <<book, partials>>
       ELSE /\ partials' = [partials EXCEPT ![t] = @ + 1]
            /\ book' = IF v = book[t].vol THEN Drop(book, {t})
                       ELSE [book EXCEPT ![t].vol = @ - v]

(* The first action left.  A ticket that is not listed is passed over; a    *)
(* request that fails, executed or not, abandons the actions behind it.     *)
ActNext ==
  /\ pc = "act"
  /\ \E a \in DOMAIN acts :
       /\ \A b \in DOMAIN acts : Before(a, b)
       /\ \/ /\ a[1] \in Tks /\ ApplyAct(a[1], a[2]) /\ NoFault
             /\ acts' = Drop(acts, {a})
          \/ /\ a[1] \in Tks /\ Fault
             /\ ApplyAct(a[1], a[2]) \/ UNCHANGED <<book, partials>>
             /\ acts' = << >>
          \/ /\ IF a[1] \in Tks THEN Fault ELSE NoFault
             /\ acts' \in {Drop(acts, {a}), << >>}
             /\ UNCHANGED <<book, partials>>
  /\ UNCHANGED <<held, close, pc, job, pend, halted, trades, cache>>

ActEnd ==
  /\ pc = "act" /\ acts = << >>
  /\ Goto(IF held = "none" THEN "bar" ELSE "look")
  /\ UNCHANGED <<held, close, server, halted, trades, cache, faults, partials>>

(* has_position, then has_pending: with neither, the engine is forced flat. *)
HasPosition ==
  /\ pc = "look"
  /\ \E seen \in SUBSET Tks :
       Listed(seen, Tks) /\ Goto(IF seen # {} THEN "bar" ELSE "lookpend")
  /\ UNCHANGED <<held, close, server, halted, trades, cache, partials>>

MutHasPending ==
  /\ pc = "lookpend"
  /\ Goto("bar")
  /\ UNCHANGED <<held, close, server, halted, trades, cache, faults, partials>>

HasPending ==
  /\ pc = "lookpend"
  /\ \E seen \in SUBSET Orders :
       Listed(seen, Orders) /\ held' = IF seen # {} THEN held ELSE "none"
  /\ Goto("bar")
  /\ UNCHANGED <<close, server, halted, trades, cache, partials>>

-----------------------------------------------------------------------------
(* The cache: read by a worker thread, stored when the loop is free. *)
RefreshRead ==
  /\ ~cache.busy
  /\ \E seen \in SUBSET Tks :
       /\ Listed(seen, Tks)
       /\ cache' = [cache EXCEPT !.busy = TRUE, !.readNow = (pc = "bar"),
                                !.read = [t \in seen |-> book[t]]]
  /\ UNCHANGED <<held, close, pc, job, acts, server, halted, trades, partials>>

RefreshStore ==
  /\ pc = "bar" /\ cache.busy
  /\ cache' = [warm |-> TRUE, snap |-> cache.read, busy |-> FALSE, read |-> << >>,
               current |-> cache.readNow, readNow |-> FALSE]
  /\ UNCHANGED <<held, close, pc, job, acts, server, halted, trades, faults, partials>>

(* The refresh raised: nothing is stored. *)
RefreshFailed ==
  /\ cache.busy /\ Fault
  /\ cache' = [cache EXCEPT !.busy = FALSE, !.read = << >>, !.readNow = FALSE]
  /\ UNCHANGED <<held, close, pc, job, acts, server, halted, trades, partials>>

(* The server fills a limit, or closes a position at its stop. *)
Fill ==
  /\ \E t \in Orders :
       /\ pend' = Drop(pend, {t})
       /\ book' = Put(book, t, [dir |-> pend[t].dir, open |-> pend[t].price,
                                sl |-> pend[t].sl, vol |-> Lots])
       /\ partials' = [partials EXCEPT ![t] = 0]
  /\ UNCHANGED <<held, close, pc, job, acts, halted, trades, cache, faults>>

ServerClose ==
  /\ \E t \in Tks : book' = Drop(book, {t})
  /\ UNCHANGED <<held, close, pc, job, acts, pend, halted, trades, cache, faults, partials>>

Init ==
  /\ held = "none" /\ close \in Closes
  /\ pc = "bar" /\ job = NoJob /\ acts = << >>
  /\ pend = << >> /\ book = << >> /\ halted = FALSE
  /\ trades = << >>
  /\ cache = [warm |-> FALSE, snap |-> << >>, busy |-> FALSE, read |-> << >>,
              current |-> FALSE, readNow |-> FALSE]
  /\ faults = 0 /\ partials = [t \in Tickets |-> 0]

NextBar == \E c \in Closes : Bar(c)

OnSignal == SkipEntry \/ PlaceEntry \/ PlaceAddon

OnBar ==
  \/ SpikeCancel \/ BreakerQuiet \/ BreakerTrips \/ PullLimits \/ CancelExpired
  \/ CloseNext \/ CancelNext
  \/ Sit \/ ActNext \/ ActEnd \/ HasPosition \/ HasPending

LoopStep == NextBar \/ OnSignal \/ OnBar
Next ==
  LoopStep \/ RefreshRead \/ RefreshStore \/ RefreshFailed \/ Fill \/ ServerClose

Spec == Init /\ [][Next]_vars

(* Bars keep coming, every call returns, and the refresher runs on a timer. *)
FairSpec ==
  Spec /\ WF_vars(LoopStep) /\ WF_vars(RefreshRead) /\ SF_vars(RefreshStore)

-----------------------------------------------------------------------------
LimitOrder == [dir : Dirs, price : Int, sl : Int, age : Nat]
OpenPosition == [dir : Dirs, open : Int, sl : Int, vol : 1 .. Lots]
IsSnapshot(f) ==
  DOMAIN f \subseteq Tickets /\ \A t \in DOMAIN f : f[t] \in OpenPosition

Labels == {"bar", "entry", "addon", "spike", "breaker", "closing", "pull",
           "cancelling", "ttl", "sit", "act", "look", "lookpend"}

LoopOK ==
  /\ held \in Dirs \cup {"none"} /\ close \in Closes /\ pc \in Labels
  /\ job \in [todo : SUBSET Tickets, after : Labels]
  /\ halted \in BOOLEAN /\ faults \in 0 .. MaxFaults

ServerOK ==
  /\ Orders \subseteq Tickets /\ \A t \in Orders : pend[t] \in LimitOrder
  /\ IsSnapshot(book) /\ Orders \cap Tks = {}
  /\ partials \in [Tickets -> Nat]

SitterOK ==
  /\ IsSnapshot(cache.snap) /\ IsSnapshot(cache.read)
  /\ DOMAIN trades \subseteq Tickets
  /\ \A t \in DOMAIN trades : trades[t] \in [d : Nat, done : BOOLEAN]
  /\ DOMAIN acts \subseteq (DOMAIN trades) \X {1, 2}
  /\ \A a \in DOMAIN acts : acts[a] \in Nat

(* A ticket is an order or a position, and only what may be listed is       *)
(* remembered and acted upon.                                               *)
TypeOK == LoopOK /\ ServerOK /\ SitterOK

(* babysitter.py: the stop is "only ever tightening", at the server and     *)
(* whichever calls fail, while a refresh completes between two bars.        *)
OnlyTightens ==
  [][Timely => \A t \in Tks \cap DOMAIN book' :
       IF book[t].dir = "LONG" THEN book'[t].sl >= book[t].sl
                               ELSE book'[t].sl <= book[t].sl]_vars

(* babysitter.py: at +2R part of the volume is closed "once", while no call *)
(* fails and a refresh completes between two bars; meanwhile a ticket is an *)
(* order or a position, and nothing unlisted is remembered.                 *)
PartialOnce ==
  TypeOK /\ (Timely /\ faults = 0 => \A t \in Tickets : partials[t] <= 1)

(* Every fill comes under the babysitter's care, or is over before.         *)
EveryFillManaged ==
  \A t \in Tickets : (t \in Tks) ~> (t \in DOMAIN trades \/ t \notin Tks)

(* The engine does not stay in a trade that has neither a position nor a    *)
(* limit order.                                                             *)
Ghost == held # "none" /\ Tks = {} /\ Orders = {}
GhostCleared == Ghost ~> ~Ghost
=============================================================================
