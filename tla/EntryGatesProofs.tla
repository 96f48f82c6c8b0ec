-------------------------- MODULE EntryGatesProofs --------------------------
(***************************************************************************)
(* Proofs about what stands before an order: the feed, the warmup gate,    *)
(* the macro guard and the size of an entry, for every warmup, poll,       *)
(* back-off, interval, budget and any number of troubles.                  *)
(***************************************************************************)
EXTENDS EntryGates, FiniteSetTheorems, TLAPS

Minutes == Nat \cup {Never}

Feed ==
  [alive : BOOLEAN, last : Minutes, queue : Seq(Nat), pending : Nat,
   started : Minutes, caughtUp : BOOLEAN, fails : Nat, reconnectFails : Nat,
   newBarAt : Nat, batch : BOOLEAN, since : Minutes, worst : Nat, lost : SUBSET Nat]

Bot ==
  [pc : {"idle", "signal", "exit", "breaker", "macro", "sync"}, bar : Minutes,
   warm : BOOLEAN, latch : BOOLEAN, held : BOOLEAN]

Account ==
  [bal : Int, cached : Int, day : BOOLEAN, base : Int, delta : Int, halted : BOOLEAN,
   risk : Nat]

ClockOK == now \in Nat /\ now >= Start /\ troubles \in Nat
TermOK == term \in [up : BOOLEAN, shows : Minutes]
BotOK == bot \in Bot
AcctOK == acct \in Account
PastOK ==
  past \in [order : [bar : Minutes, at : Minutes], unseen : BOOLEAN, stacked : BOOLEAN]

DaemonOK == daemon \in [known : BOOLEAN, fetchedAt : Minutes, wroteAt : Minutes]

FilesOK ==
  /\ guard \in [at : Minutes, active : BOOLEAN]
  /\ file \in [at : Minutes, active : BOOLEAN]

TypeOK ==
  /\ ClockOK /\ TermOK /\ BotOK /\ AcctOK /\ PastOK /\ DaemonOK /\ FilesOK
  /\ feed \in Feed

(* The bars that wait come in order, and after those that were yielded.     *)
Waiting(f) ==
  /\ \A i \in DOMAIN f.queue : f.queue[i] > f.last
  /\ \A i, j \in DOMAIN f.queue : i < j => f.queue[i] < f.queue[j]

(* The last bar of the batch, or the last one yielded.                      *)
End(f) == IF f.queue = << >> THEN f.last ELSE f.queue[Len(f.queue)]

(* How much of what a slow replay missed the next fetch will still ask for. *)
CatchUp(f) == IF f.pending > 0 THEN f.pending - 1 ELSE 0

(* What is yielded or waits reaches up to the last fetch, but for what the  *)
(* next one will ask for: that is why only an advance of the chart loses a  *)
(* bar.                                                                     *)
Reaches(f) ==
  /\ ~f.batch => f.queue = << >>
  /\ f.batch => f.pending = 0 /\ f.since # Never
  /\ f.since = Never => f.last = Never /\ f.lost = {}
  /\ f.since # Never => End(f) + 1 >= f.since - CatchUp(f)
  /\ f.lost # {} => f.worst > 2

FeedInv == Waiting(feed) /\ Reaches(feed)

(* The gate of the warmup is lifted by a bar of the present, and all bars   *)
(* after it are later; what is open was opened by one of them.              *)
WarmInv ==
  /\ bot.bar = feed.last
  /\ ~bot.warm => bot.bar >= Start - Grace
  /\ acct.risk > 0 => bot.bar >= Start - Grace
  /\ NotFromHistory

(* While nothing goes wrong the state file is the daemon's last, a write    *)
(* interval old at most, and it knows the event.                            *)
FileFresh ==
  IF daemon.wroteAt = -1
  THEN daemon = NewDaemon /\ file = NoFile /\ now = Start
  ELSE /\ daemon.wroteAt \in Nat /\ daemon.known
       /\ daemon.wroteAt <= now /\ now <= daemon.wroteAt + WriteInterval
       /\ file = BuildState(TRUE, daemon.wroteAt)

(* A latch that is set was set on a file of the window; from then on nothing *)
(* is opened until the window is over.                                       *)
LatchFlat ==
  bot.latch =>
    /\ daemon.wroteAt # -1 /\ daemon.wroteAt >= EventAt - PreMin
    /\ now <= EventAt + PostMin => acct.risk = 0

MacroInv == Calm => FileFresh /\ LatchFlat /\ ~Announced(past.order.at)

(* While nothing goes wrong the engine holds a trade when there is a        *)
(* position, unless its exit is on the way, and an entry finds none.        *)
HeldInv ==
  /\ ~bot.held /\ bot.pc # "exit" => acct.risk = 0
  /\ bot.pc = "signal" => acct.risk = 0
  /\ ~past.stacked

BudgetInv ==
  /\ bot.pc = "signal" => bot.held
  /\ Calm => HeldInv
  /\ WithinBudget

Inv == TypeOK /\ FeedInv /\ WarmInv /\ MacroInv /\ BudgetInv

-----------------------------------------------------------------------------
(* What the assumptions say of the constants.                               *)
LEMMA Constants ==
  /\ {Start, Horizon, Grace, Balance, VolMax, MaxTroubles} \subseteq Nat
  /\ {RiskPct, MaxDailyLoss, VolMin} \subseteq Nat \ {0} /\ Dists \subseteq Nat
  /\ {EventAt, PreMin, PostMin, Ttl} \subseteq Nat
  /\ {FetchInterval, WriteInterval} \subseteq Nat \ {0} /\ WriteInterval <= Ttl
  /\ {WarmupBars, StaleAfter, ClosedAfter} \subseteq Nat
  /\ {ReconnectAfter, MaxReconnects} \subseteq Nat \ {0}
BY GatesAssumption, MacroAssumption, FreshAssumption, FeedAssumption

(* An interval, in order.                                                   *)
LEMMA Interval ==
  ASSUME NEW a \in Nat, NEW b \in Int
  PROVE  LET q == InOrder(a .. b) IN
         /\ q \in Seq(Nat) /\ Len(q) = IF a > b THEN 0 ELSE b - a + 1
         /\ \A i \in DOMAIN q : q[i] = a + i - 1
<1> DEFINE S == a .. b
           n == Cardinality(S)
<1>1. n = IF a > b THEN 0 ELSE b - a + 1
  BY FS_Interval
<1>2. CASE a > b
  <2>1. InOrder(S) = [i \in 1 .. 0 |-> Min(S) + i - 1]
    BY <1>1, <1>2 DEF InOrder
  <2>2. InOrder(S) = << >>
    BY <2>1
  <2>3. << >> \in Seq(Nat) /\ Len(<< >>) = 0 /\ DOMAIN << >> = {}
    OBVIOUS
  <2>4. InOrder(S) \in Seq(Nat) /\ Len(InOrder(S)) = 0
    BY <2>2, <2>3
  <2>5. \A i \in DOMAIN InOrder(S) : InOrder(S)[i] = a + i - 1
    BY <2>2, <2>3
  <2>6. QED
    BY <2>4, <2>5, <1>2
<1>3. CASE a <= b
  <2>1. Min(S) = a
    <3>1. a \in S /\ \A y \in S : a <= y
      BY <1>3
    <3>2. \A x \in S : (\A y \in S : x <= y) => x = a
      BY <3>1
    <3>3. QED
      BY <3>1, <3>2 DEF Min
  <2>2. n \in Nat /\ n = b - a + 1
    BY <1>1, <1>3
  <2>3. InOrder(S) = [i \in 1 .. n |-> a + i - 1]
    BY <2>1 DEF InOrder
  <2> HIDE DEF n
  <2>4. \A i \in 1 .. n : a + i - 1 \in Nat
    BY <2>2
  <2>5. InOrder(S) \in [1 .. n -> Nat]
    BY <2>3, <2>4
  <2>6. InOrder(S) \in Seq(Nat) /\ Len(InOrder(S)) = n
    BY <2>2, <2>5
  <2>7. QED
    BY <1>3, <2>2, <2>3, <2>5, <2>6
<1>4. QED
  BY <1>2, <1>3

-----------------------------------------------------------------------------
(* The feed.                                                                *)

(* The bars of a fetch are an interval that ends with the last closed bar.  *)
LEMMA FetchIs ==
  ASSUME NEW f \in Feed, NEW shows \in Nat
  PROVE  LET count == f.pending + 3
             from == MaxOf(MaxOf(0, shows - count + 1), f.last + 1)
         IN /\ from \in Nat
            /\ {k \in {j \in Rates(f, shows) : j < shows} : k > f.last} = from .. shows - 1
            /\ \A k \in Nat : k < shows /\ k \notin {j \in Rates(f, shows) : j < shows}
                                => k < shows - count + 1
<1>1. f.pending \in Nat /\ f.last \in Int /\ f.last >= -1
  BY DEF Feed, Minutes, Never
<1>2. Rates(f, shows) = MaxOf(0, shows - (f.pending + 3) + 1) .. shows
  BY <1>1 DEF Rates
<1> DEFINE closed == {j \in Rates(f, shows) : j < shows}
           from == MaxOf(MaxOf(0, shows - (f.pending + 3) + 1), f.last + 1)
<1>3. from \in Nat
  BY <1>1 DEF MaxOf
<1>4. \A k : k \in closed <=>
              k \in Int /\ k >= 0 /\ k >= shows - (f.pending + 3) + 1 /\ k < shows
  BY <1>1, <1>2 DEF MaxOf
<1> HIDE DEF closed
<1>5. ASSUME NEW k PROVE k \in closed /\ k > f.last <=> k \in from .. shows - 1
  BY <1>1, <1>3, <1>4 DEF MaxOf
<1>6. {k \in closed : k > f.last} = from .. shows - 1
  <2> HIDE DEF from
  <2>1. QED
    BY <1>5
<1>7. \A k \in Nat : k < shows /\ k \notin closed => k < shows - (f.pending + 3) + 1
  BY <1>1, <1>4
<1>8. QED
  BY <1>3, <1>6, <1>7 DEF closed

(* A fetch keeps the order of the bars and loses one only to the chart.     *)
LEMMA FetchKeeps ==
  ASSUME NEW f \in Feed, Waiting(f), Reaches(f), ~f.batch, NEW shows \in Nat, NEW t \in Nat
  PROVE  LET g == Fetched(f, shows, t) IN g \in Feed /\ Waiting(g) /\ Reaches(g)
<1> DEFINE closed == {k \in Rates(f, shows) : k < shows}
           fresh == {k \in closed : k > f.last}
           from == MaxOf(MaxOf(0, shows - (f.pending + 3) + 1), f.last + 1)
           g == Fetched(f, shows, t)
           q == InOrder(fresh)
           gone == IF f.last = Never THEN {} ELSE {k \in f.last + 1 .. shows - 1 : k \notin closed}
           worst == IF f.since = Never THEN 0 ELSE MaxOf(f.worst, shows - f.since)
<1>1. /\ f.pending \in Nat /\ f.last \in Int /\ f.last >= -1 /\ f.since \in Int
      /\ f.since >= -1 /\ f.worst \in Nat /\ f.lost \subseteq Nat /\ f.queue = << >>
      /\ f.started \in Minutes /\ f.caughtUp \in BOOLEAN
  BY DEF Feed, Minutes, Never, Reaches
<1>2. /\ from \in Nat /\ fresh = from .. shows - 1
      /\ \A k \in Nat : k < shows /\ k \notin closed => k < shows - (f.pending + 3) + 1
  BY FetchIs
<1>3. /\ q \in Seq(Nat) /\ Len(q) = IF from > shows - 1 THEN 0 ELSE shows - from
      /\ \A i \in DOMAIN q : q[i] = from + i - 1
  <2> HIDE DEF from, fresh
  <2>1. q = InOrder(from .. shows - 1) /\ shows - 1 \in Int
    BY <1>2
  <2>2. shows - 1 - from + 1 = shows - from
    BY <1>2
  <2>3. QED
    BY <1>2, <2>1, <2>2, Interval
<1>4. gone \subseteq Nat /\ (gone # {} => f.last # Never /\ f.since # Never /\ shows - f.since > 2)
  <2>1. ASSUME NEW k \in gone
        PROVE  k \in Nat /\ f.last # Never /\ f.since # Never /\ shows - f.since > 2
    <3>1. f.last # Never /\ f.last + 1 <= k /\ k < shows /\ k \notin closed /\ k \in Int
      BY <1>1, <2>1
    <3>2. k \in Nat
      BY <1>1, <3>1 DEF Never
    <3>3. k < shows - (f.pending + 3) + 1
      BY <1>2, <3>1, <3>2
    <3>4. f.since # Never /\ f.last + 1 >= f.since - CatchUp(f)
      BY <1>1, <3>1 DEF Reaches, End
    <3>5. CatchUp(f) <= f.pending /\ CatchUp(f) \in Nat
      BY <1>1 DEF CatchUp
    <3>6. f.pending \in Nat /\ f.last \in Int /\ f.since \in Int
      BY <1>1
    <3>7. shows - f.since > 2
      BY <3>1, <3>3, <3>4, <3>5, <3>6
    <3>8. QED
      BY <3>1, <3>2, <3>4, <3>7
  <2>2. QED
    BY <2>1
<1>5. worst \in Nat /\ (gone # {} => worst > 2) /\ (f.lost # {} => worst > 2)
  <2> HIDE DEF gone
  <2>1. CASE f.since = Never
    BY <1>4, <2>1 DEF Reaches
  <2>2. CASE f.since # Never
    BY <1>1, <1>4, <2>2 DEF MaxOf, Reaches
  <2>3. QED
    BY <2>1, <2>2
<1> DEFINE went == IF f.pending > 0 /\ ~f.caughtUp THEN t ELSE f.started
           caught == f.caughtUp \/ f.pending > 0
<1>6. went \in Minutes /\ caught \in BOOLEAN
  BY <1>1 DEF Minutes
<1>7. g = [f EXCEPT !.fails = 0, !.queue = q, !.pending = 0, !.batch = TRUE,
                    !.started = went, !.caughtUp = caught, !.worst = worst,
                    !.since = shows, !.lost = f.lost \cup gone]
  BY Zenon DEF Fetched
<1> HIDE DEF closed, fresh, from, q, gone, worst, went, caught
<1>8. g \in Feed
  <2>1. shows \in Minutes /\ f.lost \cup gone \in SUBSET Nat
    BY <1>1, <1>4 DEF Minutes
  <2> HIDE DEF g
  <2>2. QED
    BY <1>3, <1>5, <1>6, <1>7, <2>1 DEF Feed
<1>9. /\ g.queue = q /\ g.pending = 0 /\ g.batch /\ g.since = shows /\ g.worst = worst
      /\ g.lost = f.lost \cup gone /\ g.last = f.last
  BY <1>7 DEF Feed
<1> HIDE DEF g
<1>f. from > f.last /\ (from <= shows - 1 \/ f.last >= shows - 1)
  BY <1>1 DEF from, MaxOf
<1>10. Waiting(g)
  <2>1. \A i \in DOMAIN q : i \in Int /\ i >= 1
    BY <1>3
  <2>2. \A i \in DOMAIN q : q[i] > f.last
    BY <1>1, <1>2, <1>3, <1>f, <2>1
  <2>3. \A i, j \in DOMAIN q : i < j => q[i] < q[j]
    BY <1>2, <1>3, <2>1
  <2>4. QED
    BY <1>9, <2>2, <2>3 DEF Waiting
<1>11. End(g) + 1 >= shows
  <2>1. CASE from <= shows - 1
    <3>1. Len(q) = shows - from /\ Len(q) \in DOMAIN q /\ q # << >>
      BY <1>2, <1>3, <2>1
    <3>2. q[Len(q)] = shows - 1
      BY <1>2, <1>3, <3>1
    <3>3. QED
      BY <1>9, <3>1, <3>2 DEF End
  <2>2. CASE from > shows - 1
    <3>1. q = << >>
      BY <1>2, <1>3, <2>2
    <3>2. QED
      BY <1>1, <1>2, <1>9, <1>f, <2>2, <3>1 DEF End
  <2>3. QED
    BY <1>2, <2>1, <2>2
<1>12. Reaches(g)
  <2>1. CatchUp(g) = 0 /\ g.since # Never
    BY <1>9 DEF CatchUp, Never
  <2>2. End(g) + 1 >= g.since - CatchUp(g)
    BY <1>9, <1>11, <2>1
  <2>3. QED
    BY <1>5, <1>9, <2>1, <2>2 DEF Reaches
<1>13. QED
  BY <1>8, <1>10, <1>12 DEF g

(* A yielded bar is the first of those that wait.                           *)
LEMMA YieldKeeps ==
  ASSUME NEW f \in Feed, Waiting(f), Reaches(f), f.queue # << >>, NEW t \in Nat
  PROVE  LET g == Yielded(f, t) IN
         /\ g \in Feed /\ Waiting(g) /\ Reaches(g)
         /\ g.last = Head(f.queue) /\ g.last \in Nat /\ g.last > f.last
<1> DEFINE g == Yielded(f, t)
           q == f.queue
           n == Len(q)
           at == IF StaleAfter > 0 THEN t ELSE f.newBarAt
<1>1. q \in Seq(Nat) /\ q # << >> /\ f.last \in Int /\ f.newBarAt \in Nat
  BY DEF Feed, Minutes, Never
<1> HIDE DEF q
<1>2. /\ n \in Nat /\ n >= 1 /\ DOMAIN q = 1 .. n /\ Head(q) = q[1] /\ q[1] \in Nat
      /\ Tail(q) \in Seq(Nat) /\ Len(Tail(q)) = n - 1
      /\ \A i \in 1 .. n - 1 : Tail(q)[i] = q[i + 1]
  BY <1>1
<1>3. at \in Nat
  BY <1>1
<1>4. g = [f EXCEPT !.queue = Tail(q), !.last = Head(q), !.newBarAt = at]
  BY DEF Yielded, q
<1> HIDE DEF at
<1>5. g \in Feed
  <2>1. Head(q) \in Minutes
    BY <1>2 DEF Minutes
  <2> HIDE DEF g
  <2>2. QED
    BY <1>2, <1>3, <1>4, <2>1 DEF Feed
<1>6. /\ g.queue = Tail(q) /\ g.last = q[1] /\ g.batch = f.batch /\ g.pending = f.pending
      /\ g.since = f.since /\ g.worst = f.worst /\ g.lost = f.lost
  BY <1>2, <1>4 DEF Feed
<1> HIDE DEF g
<1>7. /\ \A i \in 1 .. n : q[i] > f.last
      /\ \A i, j \in 1 .. n : i < j => q[i] < q[j]
  BY <1>2 DEF Waiting, q
<1> HIDE DEF n
<1>8. Waiting(g)
  <2>1. DOMAIN Tail(q) = 1 .. n - 1
    BY <1>2
  <2>2. \A i \in 1 .. n - 1 : i + 1 \in 1 .. n /\ 1 < i + 1 /\ 1 \in 1 .. n
    BY <1>2
  <2>3. \A i \in 1 .. n - 1 : Tail(q)[i] > q[1]
    <3>1. TAKE i \in 1 .. n - 1
    <3>2. q[1] < q[i + 1] /\ q[i + 1] \in Nat
      BY <1>1, <1>2, <1>7, <2>2
    <3>3. QED
      BY <1>2, <3>2
  <2>4. \A i, j \in 1 .. n - 1 : i < j => Tail(q)[i] < Tail(q)[j]
    BY <1>2, <1>7, <2>2
  <2>5. QED
    BY <1>6, <2>1, <2>3, <2>4 DEF Waiting
<1>9. End(g) = End(f)
  <2>1. End(f) = q[n]
    BY <1>1 DEF End, q, n
  <2>e. Tail(q) = << >> <=> n = 1
    <3> DEFINE rest == Tail(q)
    <3>1. \A u \in Seq(Nat) : u = << >> <=> Len(u) = 0
      OBVIOUS
    <3>2. rest \in Seq(Nat) /\ Len(rest) = n - 1
      BY <1>2
    <3> HIDE DEF rest
    <3>3. rest = << >> <=> n = 1
      BY <1>2, <3>1, <3>2
    <3>4. QED
      BY <3>3 DEF rest
  <2>2. CASE n = 1
    <3>1. Tail(q) = << >>
      BY <2>e, <2>2
    <3>2. QED
      BY <1>6, <2>1, <2>2, <3>1 DEF End
  <2>3. CASE n > 1
    <3>1. Tail(q) # << >> /\ n - 1 \in 1 .. n - 1
      BY <1>2, <2>e, <2>3
    <3>2. Tail(q)[n - 1] = q[n]
      BY <1>2, <3>1
    <3>3. QED
      BY <1>2, <1>6, <2>1, <3>1, <3>2 DEF End
  <2>4. QED
    BY <1>2, <2>2, <2>3
<1>10. Reaches(g)
  <2>1. f.batch /\ f.since # Never
    BY DEF Reaches
  <2>2. CatchUp(g) = CatchUp(f)
    BY <1>6 DEF CatchUp
  <2>3. QED
    BY <1>6, <1>9, <2>1, <2>2 DEF Reaches
<1>11. g.last > f.last
  BY <1>2, <1>6, <1>7
<1>12. QED
  BY <1>2, <1>5, <1>6, <1>8, <1>10, <1>11 DEF g, q

(* The end of a batch: a slow replay of the warmup moves the point the next *)
(* fetch has to reach back to, and asks for as many bars more.              *)
LEMMA BatchKeeps ==
  ASSUME NEW f \in Feed, Waiting(f), Reaches(f), f.batch, f.queue = << >>, NEW t \in Nat
  PROVE  LET g == BatchDone(f, t) IN
         g \in Feed /\ Waiting(g) /\ Reaches(g) /\ g.last = f.last
<1> DEFINE g == BatchDone(f, t)
           slow == f.started # Never /\ t > f.started
           asks == IF slow THEN t - f.started + 1 ELSE f.pending
           since == IF slow THEN f.since + (t - f.started) ELSE f.since
           never == Never
<1>1. /\ f.started \in Int /\ f.started >= -1 /\ f.pending = 0 /\ f.since \in Nat
      /\ f.last \in Int /\ f.last >= -1
  BY DEF Feed, Minutes, Never, Reaches
<1>2. asks \in Nat /\ since \in Nat
  BY <1>1
<1>3. g = [f EXCEPT !.batch = FALSE, !.started = never, !.pending = asks, !.since = since]
  BY DEF BatchDone
<1>4. never \in Minutes /\ since \in Minutes
  BY <1>2 DEF Minutes
<1>5. since - (IF asks > 0 THEN asks - 1 ELSE 0) = f.since
  BY <1>1
<1> HIDE DEF asks, since, never, slow
<1>6. g \in Feed
  <2> HIDE DEF g
  <2>1. QED
    BY <1>2, <1>3, <1>4 DEF Feed
<1>7. /\ g.queue = << >> /\ g.last = f.last /\ ~g.batch /\ g.pending = asks
      /\ g.since = since /\ g.worst = f.worst /\ g.lost = f.lost
  BY <1>3 DEF Feed
<1> HIDE DEF g
<1>8. Waiting(g)
  BY <1>7 DEF Waiting
<1>9. Reaches(g)
  <2>1. since # Never
    BY <1>2 DEF Never
  <2>2. f.last + 1 >= f.since
    BY <1>1 DEF Reaches, End, CatchUp, Never
  <2>3. g.since - CatchUp(g) = f.since
    BY <1>5, <1>7 DEF CatchUp
  <2>4. End(g) = f.last
    BY <1>7 DEF End
  <2>5. QED
    BY <1>7, <2>1, <2>2, <2>3, <2>4 DEF Reaches
<1>10. QED
  BY <1>6, <1>7, <1>8, <1>9 DEF g

(* Back-off, reconnection and watchdog touch no bar.                        *)
LEMMA LinkKeeps ==
  ASSUME NEW f \in Feed, Waiting(f), Reaches(f), NEW t \in Nat,
         NEW g \in {[f EXCEPT !.fails = MinOf(f.fails + 1, ReconnectAfter)],
                    [f EXCEPT !.newBarAt = t], Reconnected(f), NotReconnected(f)}
  PROVE  g \in Feed /\ Waiting(g) /\ Reaches(g) /\ g.last = f.last
<1> DEFINE tries == MinOf(f.fails + 1, ReconnectAfter)
           more == f.reconnectFails + 1
           goes == more < MaxReconnects
<1>1. tries \in Nat /\ more \in Nat /\ goes \in BOOLEAN /\ 0 \in Nat
  <2>1. f.fails \in Nat /\ f.reconnectFails \in Nat
    BY DEF Feed
  <2>2. ReconnectAfter \in Nat /\ MaxReconnects \in Nat
    BY Constants
  <2>3. QED
    BY <2>1, <2>2 DEF MinOf
<1>2. g \in {[f EXCEPT !.fails = tries], [f EXCEPT !.newBarAt = t],
             [f EXCEPT !.fails = 0, !.reconnectFails = 0],
             [f EXCEPT !.reconnectFails = more, !.alive = goes]}
  BY DEF Reconnected, NotReconnected
<1> HIDE DEF tries, more, goes
<1>3. g \in Feed
  BY <1>1, <1>2 DEF Feed
<1>4. /\ g.queue = f.queue /\ g.last = f.last /\ g.batch = f.batch /\ g.pending = f.pending
      /\ g.since = f.since /\ g.worst = f.worst /\ g.lost = f.lost
  BY <1>2 DEF Feed
<1>5. Waiting(g)
  BY <1>4 DEF Waiting
<1>6. Reaches(g)
  BY <1>4 DEF Reaches, End, CatchUp
<1>7. QED
  BY <1>3, <1>4, <1>5, <1>6

(* Every step keeps the order of the bars and what the feed reaches back    *)
(* to; a yield hands the bot a bar after the last one.                      *)
LEMMA FeedStep ==
  ASSUME TypeOK, FeedInv, Next
  PROVE  /\ feed' \in Feed /\ FeedInv'
         /\ \/ /\ Yield /\ bot'.bar = feed'.last
               /\ feed'.last \in Nat /\ feed'.last > feed.last
            \/ feed'.last = feed.last /\ bot'.bar = bot.bar
<1>1. /\ feed \in Feed /\ Waiting(feed) /\ Reaches(feed) /\ now \in Nat /\ Shows \in Nat
  <2>1. now \in Nat /\ term.shows \in Minutes
    BY DEF TypeOK, ClockOK, TermOK
  <2>2. QED
    BY <2>1 DEF TypeOK, FeedInv, Shows, Minutes
<1>b. bot \in Bot
  BY DEF TypeOK, BotOK
<1>2. CASE Poll
  <2>1. feed' = Fetched(feed, Shows, now) /\ ~feed.batch /\ bot' = bot
    BY <1>2 DEF Poll
  <2>2. feed'.last = feed.last
    BY <1>1, <2>1 DEF Fetched, Feed
  <2>3. QED
    BY <1>1, <2>1, <2>2, FetchKeeps DEF FeedInv
<1>3. CASE Yield
  <2>1. /\ feed' = Yielded(feed, now) /\ feed.queue # << >>
        /\ bot'.bar = Head(feed.queue)
    BY <1>3, <1>b DEF Yield, Bot
  <2>2. QED
    BY <1>1, <1>3, <2>1, YieldKeeps DEF FeedInv
<1>4. CASE EndBatch
  <2> DEFINE f == BatchDone(feed, now)
             g == [f EXCEPT !.newBarAt = now]
  <2>1. feed.batch /\ feed.queue = << >> /\ bot' = bot
    BY <1>4 DEF EndBatch
  <2>2. f \in Feed /\ Waiting(f) /\ Reaches(f) /\ f.last = feed.last
    BY <1>1, <2>1, BatchKeeps
  <2>3. feed' \in {f, Reconnected(g), NotReconnected(g)}
    BY <1>4 DEF EndBatch, Attempt
  <2> HIDE DEF f
  <2>4. g \in Feed /\ Waiting(g) /\ Reaches(g) /\ g.last = f.last
    BY <1>1, <2>2, LinkKeeps
  <2> HIDE DEF g
  <2>5. feed' \in Feed /\ Waiting(feed') /\ Reaches(feed') /\ feed'.last = f.last
    BY <1>1, <2>2, <2>3, <2>4, LinkKeeps
  <2>6. QED
    BY <2>1, <2>2, <2>5 DEF FeedInv
<1>5. CASE PollFails
  <2> DEFINE f == [feed EXCEPT !.fails = MinOf(feed.fails + 1, ReconnectAfter)]
  <2>1. bot' = bot /\ feed' \in {f, Reconnected(f), NotReconnected(f)}
    BY <1>5 DEF PollFails, Attempt
  <2>2. f \in Feed /\ Waiting(f) /\ Reaches(f) /\ f.last = feed.last
    BY <1>1, LinkKeeps
  <2> HIDE DEF f
  <2>3. feed' \in Feed /\ Waiting(feed') /\ Reaches(feed') /\ feed'.last = f.last
    BY <1>1, <2>1, <2>2, LinkKeeps
  <2>4. QED
    BY <2>1, <2>2, <2>3 DEF FeedInv
<1>6. CASE \/ Tick \/ TerminalFails \/ DaemonWrite \/ Refuse \/ Order \/ Exit
           \/ Breaker \/ Macro \/ Sync \/ StopOut \/ Refresh
  <2>1. feed' = feed /\ bot'.bar = bot.bar
    BY <1>6, <1>b DEF Tick, TerminalFails, DaemonWrite, Refuse, Order, Exit, Breaker,
       Macro, Sync, StopOut, Refresh, Bot
  <2>2. QED
    BY <1>1, <2>1 DEF FeedInv
<1>7. QED
  BY <1>2, <1>3, <1>4, <1>5, <1>6 DEF Next

-----------------------------------------------------------------------------
(* The account.                                                             *)

(* compute_lot: what is lost at the stop fits into what remains of the day. *)
LEMMA LotFits ==
  ASSUME NEW bal \in Int, NEW dist \in Nat, NEW remaining \in Nat
  PROVE  LET lot == ComputeLot(bal, dist, remaining) IN
         lot \in Nat /\ lot * dist \in Nat /\ lot * dist <= remaining
<1> DEFINE lot == ComputeLot(bal, dist, remaining)
           want == MinOf(bal * RiskPct, 100 * remaining)
           unit == 100 * dist
           full == want \div unit
<1>1. RiskPct \in Nat /\ VolMin \in Nat \ {0} /\ VolMax \in Nat
  BY Constants
<1>2. CASE lot = 0
  BY <1>2
<1>3. CASE lot # 0
  <2>1. dist > 0 /\ bal > 0 /\ remaining > 0 /\ full >= VolMin /\ lot = MinOf(full, VolMax)
    BY <1>1, <1>3 DEF ComputeLot, MinOf
  <2>2. bal * RiskPct \in Nat
    BY <1>1, <2>1
  <2>3. want \in Nat /\ want <= 100 * remaining /\ unit \in Nat /\ unit > 0
    BY <2>1, <2>2 DEF MinOf
  <2> HIDE DEF want, unit
  <2>4. full \in Nat /\ unit * full <= want
    BY <2>3
  <2> HIDE DEF full
  <2> HIDE DEF lot
  <2>5. lot \in Nat /\ lot <= full
    BY <1>1, <2>1, <2>4 DEF MinOf
  <2>6. lot * dist \in Nat /\ full * dist \in Nat
    BY <2>4, <2>5
  <2>7. lot * dist <= full * dist
    BY <2>4, <2>5
  <2>8. unit * full = 100 * (full * dist)
    BY <2>4 DEF unit
  <2>9. lot * dist <= remaining
    BY <2>3, <2>4, <2>6, <2>7, <2>8
  <2>10. QED
    BY <2>5, <2>6, <2>9 DEF lot
<1>4. QED
  BY <1>2, <1>3

(* Closing leaves no risk, or all of it, and loses no more than was at risk. *)
Settles(a, b) ==
  /\ b \in Account
  /\ b.risk \in {0, a.risk} /\ b.risk - b.bal <= a.risk - a.bal

LEMMA CloseAllSettles ==
  ASSUME NEW a \in Account,
         NEW works \in BOOLEAN, NEW b \in CloseAll(a, works)
  PROVE  Settles(a, b) /\ (works => b.risk = 0)
<1>1. CASE works
  <2>1. PICK loss \in {0, a.risk} : b = [a EXCEPT !.risk = 0, !.bal = @ - loss]
    BY <1>1 DEF CloseAll
  <2> DEFINE left == a.bal - loss
             zero == 0
  <2>2. left \in Int /\ a.risk \in Nat /\ zero \in Nat /\ loss <= a.risk /\ loss \in Nat
    BY <2>1 DEF Account
  <2>3. b = [a EXCEPT !.risk = zero, !.bal = left]
    BY <2>1
  <2> HIDE DEF left, zero
  <2>4. b \in Account /\ b.risk = zero /\ b.bal = left
    BY <2>2, <2>3 DEF Account
  <2>5. QED
    BY <2>2, <2>4 DEF Settles, Account, left, zero
<1>2. CASE ~works
  BY <1>2 DEF CloseAll, Settles, Account
<1>3. QED
  BY <1>1, <1>2

(* An order adds what its lot loses at the stop, and that fits into what    *)
(* remains of the day.                                                      *)
LEMMA OrderAdds ==
  ASSUME TypeOK, Order
  PROVE  \E loss \in Nat : /\ acct' = [acct EXCEPT !.risk = acct.risk + loss]
                           /\ loss <= Remaining
                           /\ loss > 0 => Remaining = MaxDailyLoss + acct.delta
<1> DEFINE lot(d) == ComputeLot(acct.bal, d, Remaining)
<1>1. PICK dist \in Dists : acct' = [acct EXCEPT !.risk = @ + lot(dist) * dist]
  BY DEF Order
<1>2. /\ dist \in Nat /\ acct.bal \in Int /\ acct.risk \in Nat /\ acct.delta \in Int
      /\ MaxDailyLoss \in Nat
  BY Constants DEF TypeOK, AcctOK, Account
<1>3. Remaining \in Nat /\ (Remaining > 0 => Remaining = MaxDailyLoss + acct.delta)
  BY <1>2 DEF Remaining, MaxOf
<1>4. lot(dist) * dist \in Nat /\ lot(dist) * dist <= Remaining
  BY <1>2, <1>3, LotFits
<1> HIDE DEF lot
<1>5. QED
  BY <1>1, <1>3, <1>4

(* Whatever is not an order leaves the account as it is, settles it, or     *)
(* only looks at it.                                                        *)
LEMMA SettleStep ==
  ASSUME TypeOK,
         \/ Tick \/ TerminalFails \/ DaemonWrite \/ Poll \/ PollFails \/ EndBatch \/ Yield
         \/ Refuse \/ Exit \/ Breaker \/ Macro \/ Sync \/ StopOut \/ Refresh
  PROVE  Settles(acct, acct')
<1>1. acct \in Account /\ Settles(acct, acct)
  BY DEF TypeOK, AcctOK, Settles, Account
<1>2. CASE Exit
  <2>1. PICK works \in BOOLEAN : acct' \in CloseAll(acct, works) \cup {acct}
    BY <1>2 DEF Exit
  <2>2. QED
    BY <1>1, <2>1, CloseAllSettles
<1>3. CASE Breaker
  <2>1. CASE Warming
    BY <1>1, <1>3, <2>1 DEF Breaker
  <2>2. CASE ~Warming
    <3> DEFINE base == IF acct.day THEN acct.base ELSE acct.cached
               lost == base - acct.cached
               trips == lost >= MaxDailyLoss /\ ~acct.halted
               delta == -lost
               halted == acct.halted \/ trips
               a == [acct EXCEPT !.day = TRUE, !.base = base, !.delta = delta,
                                 !.halted = halted]
    <3>1. PICK works \in BOOLEAN : acct' \in IF trips THEN CloseAll(a, works) ELSE {a}
      BY <1>3, <2>2, Zenon DEF Breaker
    <3>2. base \in Int /\ delta \in Int /\ halted \in BOOLEAN
      <4>1. acct.base \in Int /\ acct.cached \in Int /\ acct.halted \in BOOLEAN
        BY <1>1 DEF Account
      <4>2. QED
        BY <4>1
    <3> HIDE DEF base, delta, halted, trips
    <3>3. a \in Account /\ a.risk = acct.risk /\ a.bal = acct.bal
      BY <1>1, <3>2 DEF Account
    <3> HIDE DEF a
    <3>s. Settles(a, a)
      BY <3>3 DEF Settles, Account
    <3>4. Settles(a, acct')
      BY <3>1, <3>3, <3>s, CloseAllSettles
    <3>5. QED
      BY <3>3, <3>4 DEF Settles
  <2>3. QED
    BY <2>1, <2>2
<1>4. CASE Macro
  <2>1. PICK works \in BOOLEAN : acct' \in CloseAll(acct, works) \cup {acct}
    BY <1>4 DEF Macro
  <2>2. QED
    BY <1>1, <2>1, CloseAllSettles
<1>5. CASE StopOut
  <2> DEFINE left == acct.bal - acct.risk
             zero == 0
  <2>1. left \in Int /\ zero \in Nat /\ acct' = [acct EXCEPT !.bal = left, !.risk = zero]
    BY <1>1, <1>5 DEF StopOut, Account
  <2>2. zero - left <= acct.risk - acct.bal /\ zero = 0
    BY <1>1 DEF Account
  <2> HIDE DEF left, zero
  <2>3. acct' \in Account /\ acct'.risk = zero /\ acct'.bal = left
    BY <1>1, <2>1 DEF Account
  <2>4. QED
    BY <2>2, <2>3 DEF Settles
<1>6. CASE Refresh
  <2>1. acct' = [acct EXCEPT !.cached = acct.bal] /\ acct.bal \in Int
    BY <1>1, <1>6 DEF Refresh, Account
  <2>2. acct' \in Account /\ acct'.risk = acct.risk /\ acct'.bal = acct.bal
    BY <1>1, <2>1 DEF Account
  <2>3. QED
    BY <1>1, <2>2 DEF Settles, Account
<1>7. CASE \/ Tick \/ TerminalFails \/ DaemonWrite \/ Poll \/ PollFails \/ EndBatch
           \/ Yield \/ Refuse \/ Sync
  <2>1. acct' = acct
    BY <1>7 DEF Tick, TerminalFails, DaemonWrite, Poll, PollFails, EndBatch, Yield,
       Refuse, Sync
  <2>2. QED
    BY <1>1, <2>1 DEF Settles
<1>8. QED
  BY <1>2, <1>3, <1>4, <1>5, <1>6, <1>7

-----------------------------------------------------------------------------
(* Types.                                                                   *)
LEMMA TypeStep ==
  ASSUME TypeOK, FeedInv, Next
  PROVE  TypeOK'
<1>1. feed' \in Feed
  BY FeedStep
<1>2. AcctOK'
  <2>1. CASE Order
    <3>1. PICK loss \in Nat : acct' = [acct EXCEPT !.risk = acct.risk + loss]
      BY <2>1, OrderAdds
    <3> DEFINE risk == acct.risk + loss
    <3>2. risk \in Nat /\ acct' = [acct EXCEPT !.risk = risk]
      BY <3>1 DEF TypeOK, AcctOK, Account
    <3> HIDE DEF risk
    <3>3. QED
      BY <3>2 DEF TypeOK, AcctOK, Account
  <2>2. QED
    BY <2>1, SettleStep DEF Next, Settles, AcctOK
<1>3. ClockOK'
  <2>1. now' \in {now, now + 1} /\ troubles' \in {troubles, troubles + 1}
    BY DEF Next, Tick, TerminalFails, DaemonWrite, Poll, PollFails, EndBatch, Yield,
       Refuse, Order, Exit, Breaker, Macro, Sync, StopOut, Refresh, Fine, Trouble
  <2>2. QED
    BY <2>1, Constants DEF TypeOK, ClockOK
<1>4. TermOK'
  <2>1. term' \in {term, [up |-> FALSE, shows |-> Never], [up |-> TRUE, shows |-> Never],
                    [up |-> TRUE, shows |-> now]}
    BY DEF Next, Tick, TerminalFails, DaemonWrite, Poll, PollFails, EndBatch, Yield,
       Refuse, Order, Exit, Breaker, Macro, Sync, StopOut, Refresh, Attempt
  <2>2. now \in Minutes /\ Never \in Minutes
    BY DEF TypeOK, ClockOK, Minutes
  <2>3. \A u \in BOOLEAN, m \in Minutes :
          [up |-> u, shows |-> m] \in [up : BOOLEAN, shows : Minutes]
    OBVIOUS
  <2>4. QED
    BY <2>1, <2>2, <2>3 DEF TypeOK, TermOK
<1>5. BotOK'
  <2>1. bot \in Bot
    BY DEF TypeOK, BotOK
  <2>2. CASE Yield
    <3>1. PICK next \in {"breaker", "exit", "signal"} :
            bot' = [bot EXCEPT !.bar = Head(feed.queue), !.pc = next,
                               !.held = next = "signal" \/ (@ /\ next # "exit")]
      BY <2>2 DEF Yield
    <3> DEFINE held == next = "signal" \/ (bot.held /\ next # "exit")
               bar == Head(feed.queue)
    <3>2. bar \in Minutes
      BY <2>2, YieldKeeps DEF Yield, TypeOK, FeedInv, ClockOK, Minutes, Yielded, Feed
    <3>3. held \in BOOLEAN
      BY <2>1
    <3>4. bot' = [bot EXCEPT !.bar = bar, !.pc = next, !.held = held]
      BY <3>1
    <3> HIDE DEF held, bar
    <3>5. QED
      BY <2>1, <3>1, <3>2, <3>3, <3>4 DEF BotOK, Bot
  <2>3. CASE Macro
    <3>1. PICK ro : bot' = [bot EXCEPT !.pc = "sync", !.latch = ro] /\ ro \in BOOLEAN
      BY <2>3 DEF Macro, RiskOff
    <3>2. QED
      BY <2>1, <3>1 DEF BotOK, Bot
  <2>4. CASE Sync
    <3>1. PICK listed \in BOOLEAN :
            bot' = [bot EXCEPT !.pc = "idle", !.held = @ /\ listed /\ acct.risk > 0]
      BY <2>4 DEF Sync
    <3> DEFINE held == bot.held /\ listed /\ acct.risk > 0
    <3>2. held \in BOOLEAN /\ bot' = [bot EXCEPT !.pc = "idle", !.held = held]
      BY <3>1
    <3> HIDE DEF held
    <3>3. QED
      BY <2>1, <3>2 DEF BotOK, Bot
  <2>5. CASE Breaker
    BY <2>1, <2>5 DEF Breaker, BotOK, Bot
  <2>6. CASE Refuse \/ Order \/ Exit
    BY <2>1, <2>6 DEF Refuse, Order, Exit, BotOK, Bot
  <2>7. CASE \/ Tick \/ TerminalFails \/ DaemonWrite \/ Poll \/ PollFails \/ EndBatch
             \/ StopOut \/ Refresh
    BY <2>1, <2>7 DEF Tick, TerminalFails, DaemonWrite, Poll, PollFails, EndBatch,
       StopOut, Refresh, BotOK
  <2>8. QED
    BY <2>2, <2>3, <2>4, <2>5, <2>6, <2>7 DEF Next
<1>6. PastOK'
  <2>1. CASE Order
    <3> DEFINE unseen == past.unseen \/ acct.bal - Balance # acct.delta
               stacked == past.stacked \/ acct.risk > 0
    <3>1. past' = [order |-> [bar |-> bot.bar, at |-> now], unseen |-> unseen,
                   stacked |-> stacked]
      BY <2>1 DEF Order
    <3>2. unseen \in BOOLEAN /\ stacked \in BOOLEAN /\ bot.bar \in Minutes /\ now \in Minutes
      BY DEF TypeOK, PastOK, BotOK, Bot, ClockOK, Minutes
    <3> HIDE DEF unseen, stacked
    <3>3. QED
      BY <3>1, <3>2 DEF PastOK
  <2>2. CASE ~Order
    BY <2>2 DEF Next, Tick, TerminalFails, DaemonWrite, Poll, PollFails, EndBatch, Yield,
       Refuse, Exit, Breaker, Macro, Sync, StopOut, Refresh, TypeOK, PastOK
  <2>3. QED
    BY <2>1, <2>2
<1>7. DaemonOK'
  <2>1. CASE DaemonWrite
    <3>1. PICK ok \in BOOLEAN : daemon' = [Fetch(daemon, ok, now) EXCEPT !.wroteAt = now]
      BY <2>1 DEF DaemonWrite
    <3>2. Fetch(daemon, ok, now) \in [known : BOOLEAN, fetchedAt : Minutes, wroteAt : Minutes]
      <4> DEFINE known == daemon.known \/ ok
                 at == IF ok \/ daemon.fetchedAt = -1 THEN now ELSE daemon.fetchedAt
      <4>1. known \in BOOLEAN /\ at \in Minutes
        BY DEF TypeOK, DaemonOK, ClockOK, Minutes
      <4>2. Fetch(daemon, ok, now) \in {daemon, [daemon EXCEPT !.known = known, !.fetchedAt = at]}
        BY DEF Fetch
      <4> HIDE DEF known, at
      <4>3. QED
        BY <4>1, <4>2 DEF TypeOK, DaemonOK
    <3>3. now \in Minutes
      BY DEF TypeOK, ClockOK, Minutes
    <3>4. QED
      BY <3>1, <3>2, <3>3 DEF DaemonOK
  <2>2. CASE ~DaemonWrite
    BY <2>2 DEF Next, Tick, TerminalFails, Poll, PollFails, EndBatch, Yield,
       Refuse, Order, Exit, Breaker, Macro, Sync, StopOut, Refresh, TypeOK, DaemonOK
  <2>3. QED
    BY <2>1, <2>2
<1>8. FilesOK'
  <2> DEFINE State == [at : Minutes, active : BOOLEAN]
  <2>1. guard \in State /\ file \in State /\ NoFile \in State
    BY DEF TypeOK, FilesOK, NoFile, Minutes, Never
  <2>2. guard' \in State
    <3>1. guard' \in {guard, file, NoFile}
      BY DEF Next, Tick, TerminalFails, DaemonWrite, Poll, PollFails, EndBatch, Yield,
         Refuse, Order, Exit, Breaker, Macro, Sync, StopOut, Refresh, Read
    <3>2. QED
      BY <2>1, <3>1
  <2>3. file' \in State
    <3>1. CASE DaemonWrite
      <4>1. PICK known, written : file' = Replace(file, BuildState(known, now), written)
        BY <3>1 DEF DaemonWrite
      <4>2. (known /\ InWindow(now)) \in BOOLEAN /\ now \in Minutes
        BY DEF TypeOK, ClockOK, Minutes
      <4>3. BuildState(known, now) \in State
        BY <4>2 DEF BuildState
      <4>4. QED
        BY <2>1, <4>1, <4>3 DEF Replace
    <3>2. CASE ~DaemonWrite
      BY <2>1, <3>2 DEF Next, Tick, TerminalFails, Poll, PollFails, EndBatch, Yield,
         Refuse, Order, Exit, Breaker, Macro, Sync, StopOut, Refresh
    <3>3. QED
      BY <3>1, <3>2
  <2>4. QED
    BY <2>2, <2>3 DEF FilesOK
<1>9. QED
  BY <1>1, <1>2, <1>3, <1>4, <1>5, <1>6, <1>7, <1>8 DEF TypeOK

-----------------------------------------------------------------------------
(* Replayed history.                                                        *)

(* The gate opens for a bar that is not of the replay, and bars only become *)
(* later.                                                                   *)
LEMMA WarmStep ==
  ASSUME TypeOK, FeedInv, WarmInv, Next
  PROVE  WarmInv'
<1>1. /\ Start \in Nat /\ Grace \in Nat /\ feed.last \in Int /\ bot.bar \in Int
      /\ bot.bar = feed.last /\ bot.warm \in BOOLEAN
      /\ bot \in Bot
  BY Constants DEF TypeOK, BotOK, Bot, Feed, Minutes, Never, WarmInv
<1>2. bot'.bar = feed'.last /\ bot'.bar \in Int /\ bot'.bar >= bot.bar
  BY <1>1, FeedStep
<1>3. ~bot'.warm => bot'.bar >= Start - Grace
  <2>1. CASE Breaker
    <3>1. ~bot'.warm => ~bot.warm \/ bot.bar >= Start - Grace
      <4>1. CASE Warming
        <5>1. bot' = [bot EXCEPT !.pc = "idle"]
          BY <2>1, <4>1 DEF Breaker
        <5>2. QED
          BY <1>1, <5>1 DEF Bot
      <4>2. CASE ~Warming
        BY <1>1, <4>2 DEF Warming, StaleBar
      <4>3. QED
        BY <4>1, <4>2
    <3>2. QED
      BY <1>1, <1>2, <3>1 DEF WarmInv
  <2>2. CASE ~Breaker
    <3>1. bot'.warm = bot.warm
      BY <1>1, <2>2 DEF Next, Tick, TerminalFails, DaemonWrite, Poll, PollFails, EndBatch,
         Yield, Refuse, Order, Exit, Macro, Sync, StopOut, Refresh, Bot
    <3>2. QED
      BY <1>1, <1>2, <3>1 DEF WarmInv
  <2>3. QED
    BY <2>1, <2>2
<1>4. NotFromHistory'
  <2>1. CASE Order
    <3>1. past'.order.bar = bot.bar /\ (~bot.warm \/ bot.bar >= Start - Grace)
      BY <1>1, <2>1 DEF Order, Warming, StaleBar
    <3>2. QED
      BY <3>1 DEF WarmInv, NotFromHistory
  <2>2. CASE ~Order
    <3>1. past' = past
      BY <2>2 DEF Next, Tick, TerminalFails, DaemonWrite, Poll, PollFails, EndBatch, Yield,
         Refuse, Exit, Breaker, Macro, Sync, StopOut, Refresh
    <3>2. QED
      BY <3>1 DEF WarmInv, NotFromHistory
  <2>3. QED
    BY <2>1, <2>2
<1>5. acct'.risk > 0 => bot'.bar >= Start - Grace
  <2>1. CASE Order
    <3>1. ~bot.warm \/ bot.bar >= Start - Grace
      BY <1>1, <2>1 DEF Order, Warming, StaleBar
    <3>2. QED
      BY <1>1, <1>2, <3>1 DEF WarmInv
  <2>2. CASE ~Order
    <3>1. acct'.risk \in {0, acct.risk}
      BY <2>2, SettleStep DEF Next, Settles
    <3>2. QED
      BY <1>1, <1>2, <3>1 DEF WarmInv
  <2>3. QED
    BY <2>1, <2>2
<1>6. QED
  BY <1>2, <1>3, <1>4, <1>5 DEF WarmInv

-----------------------------------------------------------------------------
(* The announced window.                                                    *)

(* The two cases of FileFresh, before and after the first write.            *)
LEMMA FreshIs ==
  ASSUME FileFresh
  PROVE  /\ daemon.wroteAt = -1 => daemon = NewDaemon /\ file = NoFile /\ now = Start
         /\ daemon.wroteAt # -1 =>
              /\ daemon.wroteAt \in Nat /\ daemon.known
              /\ daemon.wroteAt <= now /\ now <= daemon.wroteAt + WriteInterval
              /\ file = BuildState(TRUE, daemon.wroteAt)
BY Zenon DEF FileFresh

(* A file that was written inside the window vetoes and means risk-off      *)
(* until the window is over; before that it does not.                       *)
LEMMA InForce ==
  ASSUME TypeOK, FileFresh
  PROVE  /\ daemon.wroteAt # -1 /\ daemon.wroteAt >= EventAt - PreMin
            /\ now <= EventAt + PostMin => Vetoes(file, now)
         /\ RiskOff(file, now) => daemon.wroteAt # -1 /\ daemon.wroteAt >= EventAt - PreMin
<1>1. /\ now \in Nat /\ EventAt \in Nat /\ PreMin \in Nat /\ PostMin \in Nat
      /\ Ttl \in Nat /\ WriteInterval \in Nat \ {0} /\ WriteInterval <= Ttl
  BY Constants DEF TypeOK, ClockOK
<1> DEFINE at == daemon.wroteAt
<1>2. CASE at = -1
  BY <1>2 DEF FileFresh, RiskOff, NoFile
<1>3. CASE at # -1
  <2> DEFINE w == InWindow(at)
  <2>1. at \in Nat /\ at <= now /\ now <= at + WriteInterval /\ file = BuildState(TRUE, at)
    BY <1>3, FreshIs
  <2>b. file = [at |-> at, active |-> w]
    <3>1. (TRUE /\ w) = w
      BY DEF InWindow
    <3>2. QED
      BY <2>1, <3>1, Zenon DEF BuildState
  <2> HIDE DEF at
  <2>a. file.at = at
    BY <2>b
  <2>2. file.active = w
    BY <2>b
  <2>3. file # NoFile
    <3>1. NoFile.at = -1
      BY DEF NoFile
    <3>2. at # -1
      BY <2>1
    <3>3. QED
      BY <2>a, <3>1, <3>2, Zenon
  <2>4. ~IsStale(file, now)
    <3>1. ~(Ttl = 0 \/ now - at > Ttl)
      <4>1. at \in Nat /\ now <= at + WriteInterval
        BY <2>1
      <4> HIDE DEF at
      <4>2. QED
        BY <1>1, <4>1
    <3>2. QED
      BY <2>a, <3>1, Zenon DEF IsStale
  <2>5. Vetoes(file, now) <=> w
    BY <2>2, <2>3, <2>4, Zenon DEF Vetoes
  <2>6. RiskOff(file, now) => w
    BY <2>2, Zenon DEF RiskOff
  <2>7. w <=> EventAt - PreMin <= at /\ at <= EventAt + PostMin
    BY DEF InWindow
  <2> HIDE DEF w
  <2>8. at # -1 /\ at >= EventAt - PreMin /\ now <= EventAt + PostMin => w
    BY <1>1, <2>1, <2>7
  <2>9. w => at # -1 /\ at >= EventAt - PreMin
    BY <1>1, <2>1, <2>7
  <2>10. QED
    BY <2>5, <2>6, <2>8, <2>9, Zenon DEF at
<1>4. QED
  BY <1>2, <1>3

(* The macro guard reads the file when nothing goes wrong.                  *)
LEMMA ReadIs == \A f, c : Read(f, c, TRUE) = f
BY DEF Read

(* Where nothing has gone wrong, nothing had before.                        *)
LEMMA CalmStep ==
  ASSUME TypeOK, Next, Calm'
  PROVE  Calm /\ ~Trouble
<1>1. troubles \in Nat
  BY DEF TypeOK, ClockOK
<1>2. troubles' = 0 /\ troubles' \in {troubles, troubles + 1}
  BY DEF Calm, Next, Tick, TerminalFails, DaemonWrite, Poll, PollFails, EndBatch, Yield,
     Refuse, Order, Exit, Breaker, Macro, Sync, StopOut, Refresh, Fine, Trouble
<1>3. QED
  BY <1>1, <1>2 DEF Calm, Trouble

(* Where an order may fall and what a set latch means.                      *)
LEMMA MacroStep ==
  ASSUME TypeOK, MacroInv, Next
  PROVE  MacroInv'
<1> SUFFICES ASSUME Calm'
             PROVE  FileFresh' /\ LatchFlat' /\ ~Announced(past.order.at)'
  BY DEF MacroInv
<1>1. /\ now \in Nat /\ now >= Start /\ Start \in Nat /\ EventAt \in Nat /\ PreMin \in Nat
      /\ PostMin \in Nat /\ WriteInterval \in Nat \ {0} /\ troubles \in Nat
      /\ acct.risk \in Nat
  BY Constants DEF TypeOK, ClockOK, AcctOK, Account
<1>2. Calm /\ ~Trouble
  BY CalmStep
<1>3. FileFresh /\ LatchFlat /\ ~Announced(past.order.at)
  BY <1>2 DEF MacroInv
<1>b. /\ bot \in Bot
      /\ daemon \in [known : BOOLEAN, fetchedAt : Minutes, wroteAt : Minutes]
      /\ daemon.wroteAt \in Int
  BY DEF TypeOK, BotOK, DaemonOK, Minutes, Never
<1>4. CASE Tick
  <2>1. /\ now' = now + 1 /\ UNCHANGED <<daemon, file, bot, acct, past>>
        /\ ~WriteDue(daemon, now)
    BY <1>2, <1>4 DEF Tick
  <2>2. daemon.wroteAt # -1 /\ now - daemon.wroteAt < WriteInterval
    BY <1>1, <1>b, <2>1 DEF WriteDue
  <2>3. FileFresh'
    BY <1>1, <1>3, <1>b, <2>1, <2>2 DEF FileFresh
  <2>4. LatchFlat'
    BY <1>1, <1>3, <2>1 DEF LatchFlat
  <2>5. QED
    BY <1>3, <2>1, <2>3, <2>4 DEF Announced
<1>5. CASE DaemonWrite
  <2>1. /\ daemon' = [Fetch(daemon, TRUE, now) EXCEPT !.wroteAt = now]
        /\ file' = BuildState(Fetch(daemon, TRUE, now).known, now)
        /\ UNCHANGED <<now, bot, acct, past>>
    BY <1>2, <1>5 DEF DaemonWrite, Replace
  <2>2. Fetch(daemon, TRUE, now).known /\ Fetch(daemon, TRUE, now).known = TRUE
    <3>1. daemon.known \/ daemon.fetchedAt = -1
      <4>1. CASE daemon.wroteAt = -1
        <5>1. daemon = NewDaemon
          BY <1>3, <4>1, FreshIs, Zenon
        <5>2. QED
          BY <5>1 DEF NewDaemon
      <4>2. CASE daemon.wroteAt # -1
        BY <1>3, <4>2, FreshIs, Zenon
      <4>3. QED
        BY <4>1, <4>2
    <3>2. daemon.fetchedAt = -1 => FetchDue(daemon, now)
      BY DEF FetchDue
    <3>3. CASE FetchDue(daemon, now)
      BY <1>b, <3>3 DEF Fetch
    <3>4. CASE ~FetchDue(daemon, now)
      BY <1>b, <3>1, <3>2, <3>4 DEF Fetch
    <3>5. QED
      BY <3>3, <3>4
  <2>3. daemon'.wroteAt = now /\ daemon'.known
    BY <1>b, <2>1, <2>2 DEF Fetch
  <2>4. FileFresh'
    <3>1. file' = BuildState(TRUE, now)
      BY <2>1, <2>2, Zenon
    <3>2. now # -1 /\ now <= now /\ now <= now + WriteInterval
      BY <1>1
    <3>3. QED
      BY <1>1, <2>1, <2>3, <3>1, <3>2, Zenon DEF FileFresh
  <2>5. LatchFlat'
    BY <1>1, <1>3, <1>b, <2>1, <2>3, <2>4 DEF LatchFlat, FileFresh
  <2>6. QED
    BY <1>3, <2>1, <2>4, <2>5 DEF Announced
<1>6. CASE Order
  <2>1. /\ UNCHANGED <<now, daemon, file>> /\ bot'.latch = bot.latch
        /\ past'.order.at = now /\ ~Vetoes(file, now)
    <3>1. PICK ok \in BOOLEAN : /\ IF ok THEN Fine ELSE Trouble
                               /\ guard' = Read(file, guard, ok) /\ ~Vetoes(guard', now)
      BY <1>6 DEF Order
    <3>2. guard' = file
      BY <1>2, <3>1, ReadIs
    <3>3. QED
      BY <1>6, <1>b, <3>1, <3>2 DEF Order, Bot
  <2>2. ~(daemon.wroteAt # -1 /\ daemon.wroteAt >= EventAt - PreMin /\ now <= EventAt + PostMin)
    BY <1>3, <2>1, InForce
  <2>3. FileFresh' /\ LatchFlat'
    BY <1>3, <2>1, <2>2 DEF FileFresh, LatchFlat
  <2>4. ~Announced(now)
    <3>1. SUFFICES ASSUME Announced(now) PROVE FALSE
      OBVIOUS
    <3>2. now > Start /\ now >= EventAt - PreMin + WriteInterval /\ now <= EventAt + PostMin
      BY <1>1, <3>1 DEF Announced, MaxOf
    <3>3. daemon.wroteAt # -1 /\ now <= daemon.wroteAt + WriteInterval
      <4>1. daemon.wroteAt # -1
        BY <1>1, <1>3, <3>2, FreshIs
      <4>2. QED
        BY <1>3, <4>1, FreshIs
    <3>4. QED
      BY <1>1, <1>b, <2>2, <3>2, <3>3
  <2>5. QED
    BY <2>1, <2>3, <2>4 DEF Announced
<1>7. CASE Macro
  <2>1. PICK readable \in BOOLEAN, works \in BOOLEAN :
          /\ IF readable /\ works THEN Fine ELSE Trouble
          /\ guard' = Read(file, guard, readable)
          /\ bot' = [bot EXCEPT !.pc = "sync", !.latch = RiskOff(guard', now)]
          /\ acct' \in IF RiskOff(guard', now) /\ ~bot.latch THEN CloseAll(acct, works)
                       ELSE {acct}
    BY <1>7 DEF Macro
  <2>2. readable /\ works /\ guard' = file
    BY <1>2, <2>1, ReadIs
  <2>3. UNCHANGED <<now, daemon, file, past>>
    BY <1>7 DEF Macro
  <2>4. bot'.latch = RiskOff(file, now)
    BY <1>b, <2>1, <2>2 DEF Bot
  <2>5. bot'.latch /\ ~bot.latch => acct'.risk = 0
    BY <2>1, <2>2, <2>4, CloseAllSettles DEF TypeOK, AcctOK
  <2>6. bot'.latch /\ bot.latch => acct' = acct
    BY <2>1, <2>2, <2>4
  <2>7. FileFresh'
    BY <1>3, <2>3 DEF FileFresh
  <2>8. LatchFlat'
    BY <1>3, <2>3, <2>4, <2>5, <2>6, InForce DEF LatchFlat
  <2>9. QED
    BY <1>3, <2>3, <2>7, <2>8 DEF Announced
<1>8. CASE \/ Poll \/ PollFails \/ EndBatch \/ Yield \/ Refuse \/ Exit \/ Breaker
           \/ Sync \/ StopOut \/ Refresh
  <2>1. UNCHANGED <<now, daemon, file, past>> /\ bot'.latch = bot.latch
    BY <1>8, <1>b DEF Poll, PollFails, EndBatch, Yield, Refuse, Exit, Breaker, Sync,
       StopOut, Refresh, Bot
  <2>2. acct'.risk \in {0, acct.risk}
    BY <1>8, SettleStep DEF Settles
  <2>3. FileFresh' /\ LatchFlat'
    BY <1>3, <2>1, <2>2 DEF FileFresh, LatchFlat
  <2>4. QED
    BY <1>3, <2>1, <2>3 DEF Announced
<1>9. CASE TerminalFails
  BY <1>2, <1>9 DEF TerminalFails
<1>10. QED
  BY <1>4, <1>5, <1>6, <1>7, <1>8, <1>9 DEF Next

-----------------------------------------------------------------------------
(* The day's budget.                                                        *)

(* An engine without a trade means no position, while nothing goes wrong.   *)
LEMMA HeldStep ==
  ASSUME TypeOK, WarmInv, BudgetInv, Next, Calm'
  PROVE  HeldInv'
<1>1. Calm /\ ~Trouble /\ HeldInv
  BY CalmStep DEF BudgetInv
<1>2. bot \in Bot /\ acct.risk \in Nat /\ past.stacked = FALSE
  BY <1>1 DEF TypeOK, BotOK, AcctOK, Account, PastOK, HeldInv
<1>3. CASE Order
  <2>1. /\ bot.pc = "signal" /\ bot' = [bot EXCEPT !.pc = "breaker"]
        /\ past'.stacked = (past.stacked \/ acct.risk > 0)
    BY <1>3 DEF Order
  <2>2. bot'.pc = "breaker" /\ bot'.held = bot.held
    BY <1>2, <2>1 DEF Bot
  <2>3. bot.held /\ acct.risk = 0
    BY <1>1, <2>1 DEF BudgetInv, HeldInv
  <2>4. ~past'.stacked
    <3>1. ~(acct.risk > 0)
      BY <2>3
    <3>2. QED
      BY <1>2, <2>1, <3>1, Zenon
  <2>5. QED
    BY <2>2, <2>3, <2>4 DEF HeldInv
<1>4. CASE ~Order
  <2>1. acct'.risk \in {0, acct.risk}
    BY <1>4, SettleStep DEF Next, Settles
  <2>2. ~past'.stacked
    BY <1>2, <1>4 DEF Next, Tick, TerminalFails, DaemonWrite, Poll, PollFails, EndBatch,
       Yield, Refuse, Exit, Breaker, Macro, Sync, StopOut, Refresh
  <2>3. CASE Yield
    <3>1. PICK next \in {"breaker", IF bot.held THEN "exit" ELSE "signal"} :
            bot' = [bot EXCEPT !.bar = Head(feed.queue), !.pc = next,
                               !.held = next = "signal" \/ (@ /\ next # "exit")]
      BY <2>3 DEF Yield
    <3>2. bot'.pc = next /\ bot'.held = (next = "signal" \/ (bot.held /\ next # "exit"))
      BY <1>2, <3>1 DEF Bot
    <3>3. ~bot.held => acct.risk = 0
      BY <1>1, <2>3 DEF Yield, Idle, HeldInv
    <3>4. next = "signal" => acct.risk = 0
      BY <3>1, <3>3
    <3>5. CASE bot.held
      <4>1. next \in {"breaker", "exit"}
        BY <3>1, <3>5
      <4>2. QED
        BY <2>2, <3>2, <3>5, <4>1 DEF HeldInv
    <3>6. CASE ~bot.held
      BY <2>1, <2>2, <3>3, <3>6 DEF HeldInv
    <3>7. QED
      BY <3>5, <3>6
  <2>4. CASE Exit
    <3>1. PICK works \in BOOLEAN :
            /\ IF works THEN Fine ELSE ~Warming /\ Trouble
            /\ acct' \in IF Warming THEN {acct} ELSE CloseAll(acct, works)
      BY <2>4 DEF Exit
    <3>2. works = TRUE
      BY <1>1, <3>1
    <3>3. acct'.risk = 0
      <4>1. CASE Warming
        <5>1. bot.bar \in Int /\ Start \in Int /\ Grace \in Int
          BY <1>2, Constants DEF Bot, Minutes, Never
        <5>2. ~(acct.risk > 0)
          BY <4>1, <5>1 DEF Warming, StaleBar, WarmInv
        <5>3. QED
          BY <1>2, <3>1, <4>1, <5>2
      <4>2. CASE ~Warming
        BY <3>1, <3>2, <4>2, CloseAllSettles DEF TypeOK, AcctOK
      <4>3. QED
        BY <4>1, <4>2
    <3>4. QED
      BY <2>2, <3>3 DEF HeldInv
  <2>5. CASE Sync
    <3>1. PICK listed \in BOOLEAN :
            /\ IF listed THEN Fine ELSE bot.held /\ Trouble
            /\ bot' = [bot EXCEPT !.pc = "idle", !.held = @ /\ listed /\ acct.risk > 0]
      BY <2>5 DEF Sync
    <3>2. listed = TRUE /\ acct' = acct /\ bot.pc = "sync"
      BY <1>1, <2>5, <3>1 DEF Sync
    <3>3. bot'.pc = "idle" /\ bot'.held = (bot.held /\ listed /\ acct.risk > 0)
      BY <1>2, <3>1 DEF Bot
    <3>4. ~bot.held => acct.risk = 0
      BY <1>1, <3>2 DEF HeldInv
    <3>5. ~bot'.held => acct.risk = 0
      <4>1. bot.held /\ acct.risk > 0 => bot'.held
        BY <3>2, <3>3, Zenon
      <4>2. acct.risk = 0 \/ acct.risk > 0
        BY <1>2
      <4>3. QED
        BY <3>4, <4>1, <4>2, Zenon
    <3>6. QED
      BY <2>2, <3>2, <3>3, <3>5 DEF HeldInv
  <2>6. CASE Refuse \/ Breaker \/ Macro
    <3>1. /\ bot'.held = bot.held /\ bot'.pc \notin {"signal", "exit"}
          /\ bot.pc # "exit"
      BY <1>2, <2>6 DEF Refuse, Breaker, Macro, Bot
    <3>2. ~bot.held => acct.risk = 0
      BY <1>1, <3>1 DEF HeldInv
    <3>3. QED
      BY <2>1, <2>2, <3>1, <3>2 DEF HeldInv
  <2>7. CASE \/ Tick \/ TerminalFails \/ DaemonWrite \/ Poll \/ PollFails \/ EndBatch
             \/ StopOut \/ Refresh
    <3>1. bot' = bot
      BY <2>7 DEF Tick, TerminalFails, DaemonWrite, Poll, PollFails, EndBatch, StopOut,
         Refresh
    <3>2. QED
      BY <1>1, <2>1, <2>2, <3>1 DEF HeldInv
  <2>8. QED
    BY <1>4, <2>3, <2>4, <2>5, <2>6, <2>7 DEF Next
<1>5. QED
  BY <1>3, <1>4

(* An entry is sized to what is left; whatever else happens only settles    *)
(* what was at risk.                                                        *)
LEMMA BudgetStep ==
  ASSUME TypeOK, WarmInv, BudgetInv, Next
  PROVE  BudgetInv'
<1>1. /\ Balance \in Nat /\ MaxDailyLoss \in Nat /\ acct.bal \in Int /\ acct.risk \in Nat
      /\ acct.delta \in Int /\ past.unseen \in BOOLEAN /\ past.stacked \in BOOLEAN
      /\ acct \in Account /\ bot \in Bot
  BY Constants DEF TypeOK, AcctOK, Account, PastOK, BotOK
<1>2. bot'.pc = "signal" => bot'.held
  <2>1. CASE Yield
    <3>1. PICK next \in {"breaker", "exit", "signal"} :
            bot' = [bot EXCEPT !.bar = Head(feed.queue), !.pc = next,
                               !.held = next = "signal" \/ (@ /\ next # "exit")]
      BY <2>1 DEF Yield
    <3>2. QED
      BY <1>1, <3>1 DEF Bot
  <2>2. CASE ~Yield
    <3>1. bot' = bot \/ bot'.pc # "signal"
      BY <1>1, <2>2 DEF Next, Tick, TerminalFails, DaemonWrite, Poll, PollFails, EndBatch,
         Refuse, Order, Exit, Breaker, Macro, Sync, StopOut, Refresh, Bot
    <3>2. QED
      BY <3>1 DEF BudgetInv
  <2>3. QED
    BY <2>1, <2>2
<1>3. CASE Order
  <2>1. PICK loss \in Nat : /\ acct' = [acct EXCEPT !.risk = acct.risk + loss]
                            /\ loss <= Remaining
                            /\ loss > 0 => Remaining = MaxDailyLoss + acct.delta
    BY <1>3, OrderAdds
  <2>2. /\ past'.unseen = (past.unseen \/ acct.bal - Balance # acct.delta)
        /\ past'.stacked = (past.stacked \/ acct.risk > 0)
    BY <1>3 DEF Order
  <2>3. acct'.risk = acct.risk + loss /\ acct'.bal = acct.bal
    BY <1>1, <2>1 DEF Account
  <2>4. ASSUME ~past'.unseen, ~past'.stacked
        PROVE  Balance - acct'.bal + acct'.risk <= MaxDailyLoss
    <3>s. ~past.unseen /\ acct.delta = acct.bal - Balance /\ ~past.stacked
          /\ ~(acct.risk > 0)
      BY <2>2, <2>4, Zenon
    <3>1. ~past.unseen /\ acct.delta = acct.bal - Balance /\ ~past.stacked /\ acct.risk = 0
      BY <1>1, <3>s
    <3>2. Balance - acct.bal <= MaxDailyLoss
      BY <1>1, <3>1 DEF BudgetInv, WithinBudget
    <3>3. CASE loss = 0
      BY <1>1, <2>3, <3>1, <3>2, <3>3
    <3>4. CASE loss > 0
      <4>1. loss <= MaxDailyLoss + (acct.bal - Balance)
        BY <2>1, <3>1, <3>4
      <4>2. QED
        BY <1>1, <2>3, <3>1, <4>1
    <3>5. QED
      BY <3>3, <3>4
  <2>5. WithinBudget'
    BY <2>4 DEF WithinBudget
  <2>6. QED
    BY <1>2, <2>5, HeldStep DEF BudgetInv
<1>4. CASE ~Order
  <2>1. Settles(acct, acct')
    BY <1>4, SettleStep DEF Next
  <2>2. past' = past
    BY <1>4 DEF Next, Tick, TerminalFails, DaemonWrite, Poll, PollFails, EndBatch, Yield,
       Refuse, Exit, Breaker, Macro, Sync, StopOut, Refresh
  <2>3. /\ acct'.bal \in Int /\ acct'.risk \in Nat
        /\ acct'.risk - acct'.bal <= acct.risk - acct.bal
    BY <2>1 DEF Settles, Account
  <2>4. ASSUME Balance - acct.bal + acct.risk <= MaxDailyLoss
        PROVE  Balance - acct'.bal + acct'.risk <= MaxDailyLoss
    BY <1>1, <2>3, <2>4
  <2>5. WithinBudget'
    BY <2>2, <2>4 DEF BudgetInv, WithinBudget
  <2>6. QED
    BY <1>2, <2>5, HeldStep DEF BudgetInv
<1>5. QED
  BY <1>3, <1>4

-----------------------------------------------------------------------------
(* The process starts without bars, state file or position.                 *)
LEMMA InitInv == Init => Inv
<1> SUFFICES ASSUME Init PROVE Inv
  OBVIOUS
<1>1. /\ Start \in Nat /\ Balance \in Nat /\ MaxDailyLoss \in Nat /\ WarmupBars \in Nat
      /\ Never \in Minutes /\ Never = -1
  BY Constants DEF Minutes, Never
<1> USE DEF Init
<1>2. ClockOK /\ TermOK /\ BotOK
  BY <1>1 DEF ClockOK, TermOK, BotOK, Bot
<1>3. AcctOK
  BY <1>1 DEF AcctOK, Account
<1>4. PastOK /\ DaemonOK
  BY <1>1 DEF PastOK, DaemonOK, NewDaemon
<1>f. FilesOK
  BY <1>1 DEF FilesOK, NoFile
<1>5. feed = NewFeed(Start) /\ << >> \in Seq(Nat) /\ {} \in SUBSET Nat /\ 0 \in Nat
  OBVIOUS
<1>6. feed \in Feed
  BY <1>1, <1>5 DEF NewFeed, Feed
<1>7. /\ feed.queue = << >> /\ feed.last = Never /\ feed.since = Never /\ feed.lost = {}
      /\ feed.batch = FALSE
  BY <1>5 DEF NewFeed
<1>8. FeedInv
  BY <1>7 DEF FeedInv, Waiting, Reaches
<1>9. WarmInv
  BY <1>7 DEF WarmInv, NotFromHistory
<1>10. MacroInv
  <2>1. FileFresh
    BY DEF FileFresh, NewDaemon
  <2>2. LatchFlat
    BY DEF LatchFlat
  <2>3. ~Announced(past.order.at)
    BY <1>1, Constants DEF Announced, MaxOf
  <2>4. QED
    BY <2>1, <2>2, <2>3 DEF MacroInv
<1>11. BudgetInv
  BY <1>1 DEF BudgetInv, HeldInv, WithinBudget
<1>12. QED
  BY <1>2, <1>3, <1>4, <1>f, <1>6, <1>8, <1>9, <1>10, <1>11 DEF Inv, TypeOK

(* The parts hold each other up: one inductive invariant.                   *)
THEOREM Invariance == Spec => []Inv
<1>1. ASSUME Inv, [Next]_vars PROVE Inv'
  <2>1. CASE Next
    BY <1>1, <2>1, TypeStep, FeedStep, WarmStep, MacroStep, BudgetStep DEF Inv
  <2>2. CASE UNCHANGED vars
    <3>1. /\ now' = now /\ feed' = feed /\ term' = term /\ bot' = bot /\ guard' = guard
          /\ acct' = acct /\ daemon' = daemon /\ file' = file /\ troubles' = troubles
          /\ past' = past
      BY <2>2 DEF vars
    <3>2. TypeOK'
      BY <1>1, <3>1 DEF Inv, TypeOK, ClockOK, TermOK, BotOK, AcctOK, PastOK, DaemonOK, FilesOK
    <3>3. FeedInv' /\ WarmInv' /\ BudgetInv'
      BY <1>1, <3>1 DEF Inv, FeedInv, WarmInv, NotFromHistory, BudgetInv, HeldInv,
         Calm, WithinBudget
    <3>4. MacroInv'
      <4>1. (Calm' <=> Calm) /\ (FileFresh' <=> FileFresh) /\ (LatchFlat' <=> LatchFlat)
        BY <3>1, Zenon DEF Calm, FileFresh, LatchFlat
      <4>2. Announced(past.order.at)' <=> Announced(past.order.at)
        BY <3>1, Zenon DEF Announced
      <4>3. MacroInv
        BY <1>1 DEF Inv
      <4>4. QED
        BY <4>1, <4>2, <4>3, Zenon DEF MacroInv
    <3>5. QED
      BY <3>2, <3>3, <3>4 DEF Inv
  <2>3. QED
    BY <1>1, <2>1, <2>2
<1>2. QED
  BY <1>1, InitInv, PTL DEF Spec

(* cmd_live: the clock, the feed's locals, the gates' flags, the account,   *)
(* the daemon's memory, its state file and the guard's copy of it keep      *)
(* their types.                                                             *)
THEOREM TypeCorrect == Spec => []TypeOK
<1>1. Inv => TypeOK
  BY DEF Inv
<1>2. QED
  BY <1>1, Invariance, PTL

(* on_signal and on_bar of cmd_live, compute_lot: no order answers a bar of *)
(* the replayed history; while no call fails, none falls into an announced  *)
(* blackout, no position stays open in one, and none is opened while one    *)
(* is open; and what is lost and at risk stays within the daily cap, unless *)
(* an entry was sized before the breaker had seen a loss, or sent while a   *)
(* position that an exit or the sync had missed was still open.             *)
THEOREM Exposure == Spec => []ExposureSound
<1>1. Inv => ExposureSound
  <2> SUFFICES ASSUME Inv PROVE ExposureSound
    OBVIOUS
  <2>1. NotFromHistory /\ OutsideBlackout /\ OnePosition /\ WithinBudget
    BY DEF Inv, WarmInv, MacroInv, OutsideBlackout, BudgetInv, HeldInv, OnePosition
  <2>2. FlatInBlackout
    <3> SUFFICES ASSUME Calm, Announced(now), bot.latch PROVE acct.risk = 0
      BY DEF FlatInBlackout
    <3>1. LatchFlat /\ now <= EventAt + PostMin
      BY DEF Inv, MacroInv, Announced
    <3>2. QED
      BY <3>1 DEF LatchFlat
  <2>3. QED
    BY <2>1, <2>2 DEF ExposureSound
<1>2. QED
  BY <1>1, Invariance, PTL

(* stream_candles: a closed bar is missing from the stream only when the    *)
(* chart advanced by more than two bars from one fetch to the next.         *)
THEOREM NoBarLost == Spec => []BarsComplete
<1>1. Inv => BarsComplete
  BY DEF Inv, FeedInv, Reaches, BarsComplete
<1>2. QED
  BY <1>1, Invariance, PTL
=============================================================================
