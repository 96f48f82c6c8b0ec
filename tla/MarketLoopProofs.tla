-------------------------- MODULE MarketLoopProofs --------------------------
(***************************************************************************)
(* Proofs about the live loop with market entries, for every engine that   *)
(* keeps the contract, all prices and balances, any number of failing      *)
(* calls, deaths of the process, days and positions.                       *)
(***************************************************************************)
EXTENDS MarketLoop, FiniteSetTheorems, TLAPS

AtMostOne(S) == \A t, u \in S : t = u

(* A loop over positions: what it does, and where it goes on afterwards. *)
JobOK ==
  pc = "send" => /\ job.op \in {"close", "partial", "push"}
                 /\ job.op = "push" <=> job.after = "bar"

(* The call that opens a position belongs to an ENTRY, whose stop is a      *)
(* stop distance away from the close the order is judged by.                *)
EntryOK ==
  /\ pc \in {"open", "assess"} => csig = "ENTRY"
  /\ pc \in {"signal", "open"} /\ csig = "ENTRY" =>
       cpos \in Trades /\ \E d \in Dists : cpos.stop = Behind(cpos.dir, close, d)
  /\ pc = "push" \/ (pc = "send" /\ job.op = "push") => cpos \in Trades

Stopped == \A t \in Tks : book[t].sl \in Stops

ProtectedInv == TypeOK /\ JobOK /\ EntryOK /\ Stopped

(* The positions are the engine's, and carry its stop.                      *)
Follows(S) == \A t \in S : cpos # NoTrade /\ book[t].dir = cpos.dir
Synced(S) == Follows(S) /\ \A t \in S : book[t].sl = cpos.stop

(* A stop the engine has moved since it was pushed has been tightened.      *)
Tighter ==
  csig # "ENTRY" /\ cpos # NoTrade =>
    \A t \in Tks : IF cpos.dir = "LONG" THEN book[t].sl <= cpos.stop
                                       ELSE book[t].sl >= cpos.stop

(* How account and engine relate at each point of the loop. *)
Agreement ==
  /\ AtMostOne(Tks)
  /\ breaker.halted /\ (pc = "send" => job.op # "close") => Tks = {}
  /\ pc = "bar" => Synced(Tks)
  /\ pc = "signal" =>
       CASE csig = "PARTIAL" -> Synced(Tks)
         [] csig = "EXIT" -> TRUE
         [] OTHER -> Tks = {}
  /\ pc = "open" => Tks = {} /\ ~breaker.halted
  /\ pc = "assess" => ~breaker.halted
  /\ pc \in {"assess", "breaker", "sync", "push"} => Follows(Tks) /\ Tighter
  /\ pc = "send" =>
       IF job.op = "close" THEN Tks \subseteq job.todo /\ AtMostOne(job.todo)
       ELSE /\ Follows(Tks) /\ Tighter /\ AtMostOne(job.todo)
            /\ job.op = "push" => Synced(Tks \ job.todo)

SyncInv == Untroubled => Agreement

(* The breaker that has tripped today stays tripped.                        *)
HaltInv ==
  /\ haltDay <= day
  /\ crashes = 0 /\ haltDay = day => breaker.halted /\ breaker.day = day
  /\ pc = "open" => ~breaker.halted

(* A ghost is a trade at the start of the next bar, and there is no way to  *)
(* the stop update before it is noticed.                                    *)
GhostInv ==
  ghost # 0 =>
    /\ ghost = 1 /\ Tks = {}
    /\ pc = "bar" => cpos # NoTrade
    /\ pc = "signal" => csig # "ENTRY"
    /\ pc \notin {"open", "assess", "push"}
    /\ pc = "send" => job.op # "push"

-----------------------------------------------------------------------------
(* What the provers need to know of absolute value.                         *)
LEMMA Arithmetic ==
  /\ Closes \subseteq Int /\ Stops \subseteq Int /\ Balances \subseteq Int
  /\ Slips \subseteq Nat /\ Dists \subseteq Nat /\ 0 \notin Stops
  /\ MaxTickets \in Nat /\ MaxDay \in Nat /\ MaxTroubles \in Nat
  /\ Want \in Nat \ {0} /\ Ladder \in Nat \ {0} /\ PartialLots \in Nat
BY LoopAssumption, StopAssumption

(* The greatest balance is a balance.                                       *)
LEMMA MaxBalance == Max(Balances) \in Balances
BY LoopAssumption DEF Max

(* The initial state has its types.                                         *)
LEMMA InitType == Init => TypeOK
<1> SUFFICES ASSUME Init PROVE TypeOK
  OBVIOUS
<1>1. bal \in Balances
  BY MaxBalance DEF Init
<1>2. Tks = {}
  BY DEF Init, Tks
<1>3. day = 0 /\ 0 \in 0 .. MaxDay
  BY Arithmetic DEF Init
<1>4. QED
  BY <1>1, <1>2, <1>3, Arithmetic
  DEF Init, CInit, TypeOK, NoJob, NewBreaker, ColdCache

(* Opening, shrinking and removing a position keeps the book well formed.   *)
BookOK(b) == DOMAIN b \subseteq Tickets /\ \A t \in DOMAIN b : b[t] \in OpenPositions

(* A book without one of its tickets is a book.                             *)
LEMMA WithoutBook ==
  ASSUME BookOK(book), NEW t
  PROVE  /\ BookOK(Without(t)) /\ DOMAIN Without(t) = Tks \ {t}
         /\ \A u \in Tks \ {t} : Without(t)[u] = book[u]
BY DEF BookOK, Without, Tks

(* A book with the filled order is a book.                                  *)
LEMMA ExecuteBook ==
  ASSUME BookOK(book), NEW t \in Tks, Execute(t), TypeOK,
         job.op = "push" => cpos \in Trades
  PROVE  /\ BookOK(book') /\ bal' \in Balances
         /\ DOMAIN book' = Tks \/ (DOMAIN book' = Tks \ {t} /\ job.op # "push")
         /\ job.op = "close" => DOMAIN book' = Tks \ {t}
         /\ \A u \in DOMAIN book' : /\ book'[u].dir = book[u].dir
                                    /\ book'[u].sl = IF job.op = "push" /\ u = t
                                                     THEN cpos.stop ELSE book[u].sl
<1> DEFINE p == book[t]
<1>1. p \in OpenPositions /\ p.vol \in Nat /\ p.vol > 0
  BY DEF BookOK, OpenPositions, Tks
<1>2. CASE job.op = "push"
  <2>1. cpos.stop \in Int
    BY <1>2, Arithmetic DEF Trades
  <2>2. book' = [book EXCEPT ![t].sl = cpos.stop] /\ bal' = bal
    BY <1>2 DEF Execute
  <2>3. DOMAIN book' = Tks
    BY <2>2 DEF Tks
  <2>4. \A u \in Tks : book'[u] = IF u = t THEN [book[u] EXCEPT !.sl = cpos.stop] ELSE book[u]
    BY <2>2 DEF Tks
  <2>5. \A u \in Tks : book[u] \in OpenPositions
    BY DEF BookOK, Tks
  <2>6. \A u \in Tks : /\ book'[u] \in OpenPositions /\ book'[u].dir = book[u].dir
                       /\ book'[u].sl = IF u = t THEN cpos.stop ELSE book[u].sl
    BY <2>1, <2>4, <2>5 DEF OpenPositions
  <2>7. QED
    BY <1>2, <2>2, <2>3, <2>6 DEF BookOK, TypeOK, Tks
<1>3. CASE job.op # "push"
  <2> DEFINE v == ClosedVolume(p)
  <2>1. Settle /\ book' = IF v = p.vol THEN Without(t) ELSE [book EXCEPT ![t].vol = @ - v]
    BY <1>3 DEF Execute
  <2>2. bal' \in Balances
    BY <2>1 DEF Settle
  <2>3. v \in Nat /\ v <= p.vol /\ (job.op # "partial" => v = p.vol)
    BY <1>1, Arithmetic DEF ClosedVolume
  <2>4. CASE v = p.vol
    BY <1>3, <2>1, <2>2, <2>4, WithoutBook
  <2>5. CASE v # p.vol
    <3> HIDE DEF v
    <3>1. book' = [book EXCEPT ![t].vol = @ - v]
      BY <2>1, <2>5
    <3>2. DOMAIN book' = Tks
      BY <3>1 DEF Tks
    <3>3. \A u \in Tks : book'[u] = IF u = t THEN [book[u] EXCEPT !.vol = @ - v] ELSE book[u]
      BY <3>1 DEF Tks
    <3>4. \A u \in Tks : book[u] \in OpenPositions
      BY DEF BookOK, Tks
    <3>5. p.vol - v \in Nat \ {0}
      BY <1>1, <2>3, <2>5
    <3>6. \A u \in Tks : /\ book'[u] \in OpenPositions /\ book'[u].dir = book[u].dir
                         /\ book'[u].sl = book[u].sl
      BY <3>3, <3>4, <3>5 DEF OpenPositions
    <3>7. QED
      BY <1>3, <2>2, <2>3, <2>5, <3>2, <3>6 DEF BookOK, Tks
  <2>6. QED
    BY <2>4, <2>5
<1>4. QED
  BY <1>2, <1>3

(* A bar of the engine keeps the types.                                     *)
LEMMA EngineStepOK ==
  ASSUME cpos \in Trades \cup {NoTrade}, CNext
  PROVE  /\ cpos' \in Trades \cup {NoTrade}
         /\ csig' \in {"none", "ENTRY", "EXIT", "PARTIAL", "REJECT"}
         /\ csig' = "ENTRY" => cpos = NoTrade /\ cpos' \in Trades
         /\ csig' = "EXIT" => cpos' = NoTrade
         /\ csig' = "PARTIAL" => cpos' = cpos /\ cpos # NoTrade
         /\ csig' = "REJECT" => cpos = NoTrade /\ cpos' = NoTrade
         /\ csig' = "none" => IF cpos = NoTrade THEN cpos' = NoTrade
                              ELSE cpos' \in Trades /\ NoLooser(cpos, cpos')
<1>1. CASE Enter
  BY <1>1 DEF Enter
<1>2. CASE Hold
  BY <1>2 DEF Hold
<1>3. CASE PartialExit
  BY <1>3 DEF PartialExit
<1>4. CASE Leave
  BY <1>4 DEF Leave
<1>5. CASE Wait
  BY <1>5 DEF Wait
<1>6. QED
  BY <1>1, <1>2, <1>3, <1>4, <1>5 DEF CNext

(* A new position stands one stop distance of its ENTRY away from its tick. *)
LEMMA OpenedBook ==
  ASSUME ProtectedInv, pc = "open", Opened
  PROVE  /\ BookOK(book')
         /\ \E t \in Tickets \ Tks : /\ DOMAIN book' = Tks \cup {t}
                                     /\ book'[t].dir = cpos.dir
                                     /\ book'[t].sl \in Stops
         /\ \A u \in Tks : book'[u] = book[u]
<1>1. PICK t \in Tickets \ Tks, price \in Ticks, vol \in {Want, Ladder} :
        book' = With(t, NewPosition(price, vol))
  BY DEF Opened
<1>2. /\ cpos \in Trades /\ cpos.dir \in {"LONG", "SHORT"} /\ cpos.stop \in Int
      /\ close \in Closes /\ close \in Int
  BY Arithmetic DEF ProtectedInv, EntryOK, TypeOK, Trades
<1>3. PICK d \in Dists : cpos.stop = Behind(cpos.dir, close, d)
  BY DEF ProtectedInv, EntryOK
<1>4. PICK s \in Slips : price = close + s \/ price = close - s
  BY DEF Ticks
<1>5. d \in Int /\ s \in Int
  BY Arithmetic
<1>6. SignalRisk = d
  BY <1>2, <1>3, <1>5 DEF SignalRisk, Behind
<1>7. {close + s + d, close + s - d, close - s + d, close - s - d} \subseteq Stops
  BY <1>2, StopAssumption
<1>8. Behind(cpos.dir, price, d) \in Stops
  BY <1>2, <1>4, <1>5, <1>7 DEF Behind
<1> DEFINE p == NewPosition(price, vol)
<1>9. p \in OpenPositions /\ p.dir = cpos.dir /\ p.sl \in Stops
  BY <1>2, <1>6, <1>8, Arithmetic DEF NewPosition, OpenPositions
<1> HIDE DEF p
<1>10. book' = [u \in Tks \cup {t} |-> IF u = t THEN p ELSE book[u]]
  BY <1>1 DEF With, p
<1>11. DOMAIN book' = Tks \cup {t} /\ book'[t] = p /\ \A u \in Tks : book'[u] = book[u]
  BY <1>10
<1>12. BookOK(book')
  BY <1>9, <1>11 DEF BookOK, ProtectedInv, TypeOK
<1>13. QED
  BY <1>9, <1>11, <1>12

(* Before the first order there is nothing to protect.                      *)
LEMMA InitProtected == Init => ProtectedInv
BY InitType DEF Init, ProtectedInv, JobOK, EntryOK, Stopped, Tks, NoJob

(* The book is a function from its tickets to positions.                    *)
LEMMA BookIs == TypeOK => BookOK(book) /\ Tks = DOMAIN book
BY DEF TypeOK, BookOK, Tks

(* The steps that touch no position and need no lemma about the engine.     *)
LEMMA SimpleProtected ==
  ASSUME ProtectedInv,
            \/ SkipEntry
            \/ PassGates
            \/ KeepFill
            \/ AbortFill
            \/ ExitSignal
            \/ SendEnd
            \/ BreakerFailed
            \/ NothingToSync
            \/ SyncFlat
            \/ SyncHeld
            \/ PushStop
            \/ RefreshStore
            \/ Crash
  PROVE  ProtectedInv'
<1> USE Arithmetic
        DEF TypeOK, ProtectedInv, JobOK, EntryOK, Stopped, Tks, NoFault, Fault, budget,
            broker, loop
<1>1. CASE SkipEntry
  BY <1>1 DEF SkipEntry, Goto
<1>2. CASE PassGates
  BY <1>2 DEF PassGates, Goto
<1>3. CASE KeepFill
  BY <1>3 DEF KeepFill, Goto
<1>4. CASE AbortFill
  BY <1>4 DEF AbortFill, Iterate, Listed
<1>5. CASE ExitSignal
  BY <1>5 DEF ExitSignal, Iterate, Listed
<1>6. CASE SendEnd
  BY <1>6 DEF SendEnd, EndBar, Raise, NoJob, NoTrade
<1>7. CASE BreakerFailed
  BY <1>7 DEF BreakerFailed, Goto
<1>8. CASE NothingToSync
  BY <1>8 DEF NothingToSync, EndBar, NoJob
<1>9. CASE SyncFlat
  BY <1>9 DEF SyncFlat, EndBar, NoJob, Leave, Listed
<1>10. CASE SyncHeld
  BY <1>10 DEF SyncHeld, Goto
<1>11. CASE PushStop
  BY <1>11 DEF PushStop, Iterate, Listed
<1>12. CASE RefreshStore
  BY <1>12 DEF RefreshStore
<1>13. CASE Crash
  BY <1>13 DEF Crash, NoJob, NewBreaker, ColdCache, NoTrade
<1>14. QED
  BY <1>1, <1>2, <1>3, <1>4, <1>5, <1>6, <1>7, <1>8, <1>9, <1>10, <1>11, <1>12, <1>13

(* The breaker's update changes no position and no stop.                    *)
LEMMA BreakerUpdateProtected ==
  ASSUME ProtectedInv, BreakerUpdate
  PROVE  ProtectedInv'
<1> DEFINE b == UpdateBreaker(breaker, CachedBalance)
<1>1. day \in 0 .. MaxDay /\ CachedBalance \in Int
  BY Arithmetic DEF ProtectedInv, TypeOK, CachedBalance
<1>2. b \in [day : 0 .. MaxDay \cup {NoDay}, start : Int, halted : BOOLEAN]
  <2> DEFINE v == CachedBalance
             c == IF day # breaker.day
                  THEN [day |-> day, start |-> v, halted |-> FALSE] ELSE breaker
             h == c.halted \/ c.start - v >= MaxLoss
  <2>1. v \in Int
    BY <1>1
  <2> HIDE DEF v
  <2>2. c \in [day : 0 .. MaxDay \cup {NoDay}, start : Int, halted : BOOLEAN]
    BY <1>1, <2>1 DEF ProtectedInv, TypeOK
  <2>3. b = [c EXCEPT !.halted = h]
    BY DEF UpdateBreaker, v
  <2> HIDE DEF c, b
  <2>4. h \in BOOLEAN
    BY <2>2
  <2> HIDE DEF h
  <2>5. QED
    BY <2>2, <2>3, <2>4
<1> HIDE DEF b
<1>3. breaker' = b
  BY DEF BreakerUpdate, b
<1>4. QED
  BY <1>1, <1>2, <1>3, Arithmetic
  DEF BreakerUpdate, ProtectedInv, TypeOK, JobOK, EntryOK, Stopped, Tks, Iterate, Listed,
      Goto, NoFault, Fault, budget, broker

(* Reading the broker changes no position and no stop.                      *)
LEMMA ReadProtected ==
  ASSUME ProtectedInv, RefreshRead
  PROVE  ProtectedInv'
<1>1. cache' = [cache EXCEPT !.busy = TRUE, !.read = bal] /\ bal \in Int
  BY Arithmetic DEF RefreshRead, ProtectedInv, TypeOK
<1>2. cache' \in [warm : BOOLEAN, bal : Int, busy : BOOLEAN, read : Int]
  BY <1>1 DEF ProtectedInv, TypeOK
<1>3. QED
  BY <1>2 DEF RefreshRead, ProtectedInv, TypeOK, JobOK, EntryOK, Stopped, Tks, budget,
              broker, loop

(* A read that failed changes no position and no stop.                      *)
LEMMA RFailedProtected ==
  ASSUME ProtectedInv, RefreshFailed
  PROVE  ProtectedInv'
<1> DEFINE nothing == 0
<1>1. cache' = [cache EXCEPT !.busy = FALSE, !.read = nothing] /\ nothing \in Int
  BY DEF RefreshFailed
<1> HIDE DEF nothing
<1>2. cache' \in [warm : BOOLEAN, bal : Int, busy : BOOLEAN, read : Int]
  BY <1>1 DEF ProtectedInv, TypeOK
<1>3. QED
  BY <1>2, Arithmetic
  DEF RefreshFailed, ProtectedInv, TypeOK, JobOK, EntryOK, Stopped, Tks, Fault, broker,
      loop

(* A bar moves stops and closes, and leaves none without a stop.            *)
LEMMA BarProtected ==
  ASSUME ProtectedInv, NEW c \in Closes, NEW d \in 0 .. MaxDay, Bar(c, d)
  PROVE  ProtectedInv'
<1>1. cpos \in Trades \cup {NoTrade} /\ CNext
  BY DEF Bar, EngineStep, ProtectedInv, TypeOK
<1>2. /\ cpos' \in Trades \cup {NoTrade}
      /\ csig' \in {"none", "ENTRY", "EXIT", "PARTIAL", "REJECT"}
      /\ csig' = "ENTRY" => cpos' \in Trades
  BY <1>1, EngineStepOK
<1>3. csig' = "ENTRY" => \E x \in Dists : cpos'.stop = Behind(cpos'.dir, close', x)
  BY DEF Bar, EngineStep
<1>4. QED
  BY <1>2, <1>3, Arithmetic
  DEF Bar, Goto, ProtectedInv, TypeOK, JobOK, EntryOK, Stopped, Tks, broker, budget,
      Behind

(* A fill carries its stop.                                                 *)
LEMMA OpenProtected ==
  ASSUME ProtectedInv, OpenDone \/ OpenFailed
  PROVE  ProtectedInv'
<1>1. CASE UNCHANGED book
  BY <1>1, Arithmetic
  DEF OpenDone, OpenFailed, Goto, NoFault, Fault, budget, ProtectedInv, TypeOK, JobOK,
      EntryOK, Stopped, Tks
<1>2. CASE Opened
  <2>1. /\ BookOK(book')
        /\ \E t \in Tickets \ Tks : DOMAIN book' = Tks \cup {t} /\ book'[t].sl \in Stops
        /\ \A u \in Tks : book'[u] = book[u]
    BY <1>2, OpenedBook DEF OpenDone, OpenFailed
  <2>2. Stopped'
    BY <2>1 DEF Stopped, Tks, ProtectedInv
  <2>3. QED
    BY <2>1, <2>2, Arithmetic
    DEF OpenDone, OpenFailed, Goto, NoFault, Fault, budget, ProtectedInv, TypeOK, JobOK,
        EntryOK, BookOK, Tks
<1>3. QED
  BY <1>1, <1>2 DEF OpenDone, OpenFailed

(* An entry that was sent, filled or not, carries its stop.                 *)
LEMMA SendProtected ==
  ASSUME ProtectedInv, SendOk \/ SendFailed
  PROVE  ProtectedInv'
<1>1. CASE UNCHANGED broker
  BY <1>1, Arithmetic
  DEF SendOk, SendFailed, Proceed, Raise, NoJob, NoFault, Fault, budget, broker,
      ProtectedInv, TypeOK, JobOK, EntryOK, Stopped, Tks
<1>2. CASE Execute(Current) /\ ~Refused(Current)
  <2>1. Current \in Tks /\ BookOK(book) /\ TypeOK
    BY <1>2, BookIs DEF Refused, ProtectedInv
  <2>2. job.op = "push" => cpos \in Trades /\ cpos.stop \in Stops
    BY DEF SendOk, SendFailed, ProtectedInv, EntryOK, Trades
  <2>3. /\ BookOK(book') /\ bal' \in Balances /\ DOMAIN book' \subseteq Tks
        /\ \A u \in DOMAIN book' : book'[u].sl = IF job.op = "push" /\ u = Current
                                                 THEN cpos.stop ELSE book[u].sl
    BY <1>2, <2>1, <2>2, ExecuteBook
  <2>4. Stopped'
    BY <2>2, <2>3 DEF Stopped, Tks, ProtectedInv
  <2> HIDE DEF Current
  <2>5. QED
    BY <2>3, <2>4, Arithmetic
    DEF SendOk, SendFailed, Proceed, Raise, NoJob, NoFault, Fault, budget,
        ProtectedInv, TypeOK, JobOK, EntryOK, BookOK, Tks
<1>3. QED
  BY <1>1, <1>2 DEF SendOk, SendFailed, broker

(* A position closed by the server leaves the rest protected.               *)
LEMMA ServerCloseProtected ==
  ASSUME ProtectedInv, ServerClose
  PROVE  ProtectedInv'
<1>1. PICK t \in Tks : book' = Without(t)
  BY DEF ServerClose
<1>2. BookOK(book') /\ DOMAIN book' = Tks \ {t} /\ \A u \in Tks \ {t} : book'[u] = book[u]
  BY <1>1, WithoutBook, BookIs DEF ProtectedInv
<1>3. QED
  BY <1>2
  DEF ServerClose, Settle, ProtectedInv, TypeOK, JobOK, EntryOK, Stopped, BookOK, Tks,
      loop, budget

(* A stuttering step.                                                       *)
LEMMA StutterProtected ==
  ASSUME ProtectedInv, UNCHANGED vars
  PROVE  ProtectedInv'
BY DEF vars, ProtectedInv, TypeOK, JobOK, EntryOK, Stopped, Tks

-----------------------------------------------------------------------------
(* Nothing has failed after a step only if nothing had failed before it.    *)
LEMMA TroublesLast ==
  ASSUME TypeOK, Next \/ UNCHANGED vars, Untroubled'
  PROVE  Untroubled /\ UNCHANGED budget /\ ~Fault
<1>1. faults \in Nat /\ crashes \in Nat
  BY Arithmetic DEF TypeOK
<1>2. UNCHANGED budget \/ Fault \/ crashes' = crashes + 1
  BY DEF Next, Loop, NextBar, OnSignal, Send, OnBar, Bar, SkipEntry, PassGates, OpenDone,
         OpenFailed, KeepFill, AbortFill, ExitSignal, SendOk, SendFailed, SendEnd,
         BreakerUpdate, BreakerFailed, NothingToSync, SyncFlat, SyncHeld, PushStop,
         RefreshRead, RefreshStore, RefreshFailed, ServerClose, Crash, Listed, NoFault,
         vars, budget
<1>3. QED
  BY <1>1, <1>2 DEF Untroubled, Fault, budget

(* No trade is not a trade.                                                 *)
LEMMA NoTradeIs == NoTrade \notin Trades
BY DEF NoTrade, Trades

(* The steps that touch no position, when no call fails.                    *)
LEMMA SimpleAgrees ==
  ASSUME ProtectedInv, Agreement, Untroubled, UNCHANGED budget, ~Fault,
            \/ SkipEntry
            \/ PassGates
            \/ KeepFill
            \/ AbortFill
            \/ SendEnd
            \/ BreakerUpdate
            \/ BreakerFailed
            \/ NothingToSync
            \/ SyncFlat
            \/ SyncHeld
            \/ PushStop
            \/ RefreshRead \/ RefreshStore \/ RefreshFailed
            \/ Crash
            \/ UNCHANGED vars
  PROVE  Agreement'
<1> USE Arithmetic, NoTradeIs
        DEF Agreement, AtMostOne, Follows, Synced, Tighter, Tks, Untroubled, NoFault, Fault,
            budget, broker, loop, ProtectedInv, TypeOK, JobOK, EntryOK
<1>1. CASE SkipEntry
  BY <1>1 DEF SkipEntry, Goto
<1>2. CASE PassGates
  BY <1>2 DEF PassGates, Goto
<1>3. CASE KeepFill
  BY <1>3 DEF KeepFill, Goto
<1>4. CASE AbortFill
  BY <1>4 DEF AbortFill, Iterate, Listed
<1>5. CASE SendEnd
  BY <1>5 DEF SendEnd, EndBar, Raise, NoJob
<1>6. CASE BreakerUpdate
  BY <1>6 DEF BreakerUpdate, Iterate, Listed, Goto, UpdateBreaker
<1>7. CASE BreakerFailed
  BY <1>7 DEF BreakerFailed, Goto
<1>8. CASE NothingToSync
  BY <1>8 DEF NothingToSync, EndBar, NoJob
<1>9. CASE SyncFlat
  BY <1>9 DEF SyncFlat, EndBar, NoJob, Leave, Listed
<1>10. CASE SyncHeld
  BY <1>10 DEF SyncHeld, Goto
<1>11. CASE PushStop
  BY <1>11 DEF PushStop, Iterate, Listed
<1>12. CASE RefreshRead \/ RefreshStore \/ RefreshFailed
  BY <1>12 DEF RefreshRead, RefreshStore, RefreshFailed
<1>13. CASE Crash
  BY <1>13 DEF Crash
<1>14. CASE UNCHANGED vars
  BY <1>14 DEF vars
<1>15. QED
  BY <1>1, <1>2, <1>3, <1>4, <1>5, <1>6, <1>7, <1>8, <1>9, <1>10, <1>11, <1>12, <1>13, <1>14

(* After an exit the engine and the broker still agree.                     *)
LEMMA ExitAgrees ==
  ASSUME ProtectedInv, Agreement, Untroubled, UNCHANGED budget, ~Fault, ExitSignal
  PROVE  Agreement'
<1> USE DEF Agreement, AtMostOne, Follows, Synced, Tighter, Tks, ExitSignal, Iterate,
            Listed
<1>1. cpos = cpos' /\ csig = csig' /\ book = book' /\ breaker = breaker' /\ pc = "signal"
  BY DEF broker
<1>2. CASE csig = "EXIT"
  BY <1>1, <1>2
<1>3. CASE csig = "PARTIAL"
  <2>1. Synced(Tks)
    BY <1>1, <1>3
  <2>2. cpos # NoTrade => \A t \in Tks : book[t].sl = cpos.stop /\ cpos.stop \in Int
    BY <2>1, Arithmetic DEF ProtectedInv, TypeOK, Trades
  <2>3. Follows(Tks) /\ Tighter
    BY <2>1, <2>2
  <2>4. job'.op = "partial" /\ job'.todo \subseteq Tks /\ pc' = "send"
    BY <1>1, <1>3
  <2>5. QED
    BY <1>1, <2>3, <2>4
<1>4. QED
  BY <1>2, <1>3

(* The loop over at most one position is at that position.                  *)
LEMMA CurrentIs ==
  ASSUME TypeOK, AtMostOne(job.todo), job.todo # {}
  PROVE  job.todo = {Current}
<1>1. PICK t \in job.todo : TRUE
  OBVIOUS
<1>2. job.todo = {t} /\ t \in Int
  BY <1>1, Arithmetic DEF AtMostOne, TypeOK, Tickets
<1>3. QED
  BY <1>2 DEF Current, Min

(* After a bar they do.                                                     *)
LEMMA BarAgrees ==
  ASSUME ProtectedInv, Agreement, Untroubled, UNCHANGED budget, ~Fault,
         NEW c \in Closes, NEW d \in 0 .. MaxDay, Bar(c, d)
  PROVE  Agreement'
<1>1. cpos \in Trades \cup {NoTrade} /\ CNext
  BY DEF Bar, EngineStep, ProtectedInv, TypeOK
<1>2. Synced(Tks) /\ AtMostOne(Tks) /\ pc = "bar"
  BY DEF Agreement, Bar
<1>3. /\ pc' = IF csig' = "none" THEN "breaker" ELSE "signal"
      /\ book' = book /\ breaker' = breaker /\ job' = job
  BY DEF Bar, Goto, broker
<1>4. breaker.halted => Tks = {}
  BY <1>2 DEF Agreement
<1>5. cpos = NoTrade => Tks = {}
  BY <1>2 DEF Synced, Follows
<1>6. CASE csig' = "none"
  <2>1. cpos # NoTrade => cpos' \in Trades /\ NoLooser(cpos, cpos')
    BY <1>1, <1>6, EngineStepOK
  <2>2. \A t \in Tks : /\ cpos' # NoTrade /\ cpos'.dir = book[t].dir
                       /\ IF cpos'.dir = "LONG" THEN book[t].sl <= cpos'.stop
                                                ELSE book[t].sl >= cpos'.stop
    BY <1>2, <1>5, <2>1, NoTradeIs DEF Synced, Follows, NoLooser
  <2>3. QED
    BY <1>2, <1>3, <1>4, <1>6, <2>2 DEF Agreement, AtMostOne, Follows, Tighter, Tks
<1>7. CASE csig' = "PARTIAL"
  <2>1. cpos' = cpos
    BY <1>1, <1>7, EngineStepOK
  <2>2. QED
    BY <1>2, <1>3, <1>4, <1>7, <2>1 DEF Agreement, AtMostOne, Follows, Synced, Tks
<1>8. CASE csig' \in {"ENTRY", "REJECT"}
  <2>1. cpos = NoTrade
    BY <1>1, <1>8, EngineStepOK
  <2>2. QED
    BY <1>3, <1>5, <1>8, <2>1 DEF Agreement, AtMostOne, Tks
<1>9. CASE csig' = "EXIT"
  BY <1>2, <1>3, <1>4, <1>9 DEF Agreement, AtMostOne, Tks
<1>10. QED
  BY <1>1, <1>6, <1>7, <1>8, <1>9, EngineStepOK

(* After an order they do.                                                  *)
LEMMA OpenAgrees ==
  ASSUME ProtectedInv, Agreement, Untroubled, UNCHANGED budget, ~Fault,
         OpenDone \/ OpenFailed
  PROVE  Agreement'
<1>1. OpenDone /\ pc = "open" /\ Tks = {} /\ ~breaker.halted
  BY DEF OpenDone, OpenFailed, Agreement
<1>2. PICK t \in Tickets \ Tks : DOMAIN book' = Tks \cup {t} /\ book'[t].dir = cpos.dir
  BY <1>1, OpenedBook DEF OpenDone
<1>3. csig = "ENTRY" /\ cpos \in Trades
  BY <1>1 DEF ProtectedInv, EntryOK
<1>4. QED
  BY <1>1, <1>2, <1>3, NoTradeIs
  DEF OpenDone, Goto, Agreement, AtMostOne, Follows, Tighter, Tks

(* After a close by the server the next read tells the engine.              *)
LEMMA ServerCloseAgrees ==
  ASSUME ProtectedInv, Agreement, Untroubled, UNCHANGED budget, ~Fault, ServerClose
  PROVE  Agreement'
<1>1. PICK t \in Tks : book' = Without(t)
  BY DEF ServerClose
<1>2. DOMAIN book' = Tks \ {t} /\ \A u \in Tks \ {t} : book'[u] = book[u]
  BY <1>1, WithoutBook, BookIs DEF ProtectedInv
<1>3. QED
  BY <1>2 DEF ServerClose, loop, Agreement, AtMostOne, Follows, Synced, Tighter, Tks

(* After a signal was handled they do.                                      *)
LEMMA SendAgrees ==
  ASSUME ProtectedInv, Agreement, Untroubled, UNCHANGED budget, ~Fault,
         SendOk \/ SendFailed
  PROVE  Agreement'
<1>1. pc = "send" /\ job.todo # {} /\ AtMostOne(job.todo) /\ AtMostOne(Tks)
  BY DEF SendOk, SendFailed, Agreement
<1>2. job.todo = {Current}
  BY <1>1, CurrentIs DEF ProtectedInv
<1>3. CASE Refused(Current)
  <2>1. SendFailed /\ UNCHANGED <<book, breaker, cpos, csig>>
    BY <1>3 DEF SendOk, SendFailed, broker
  <2>2. Current \in Tks => job.op # "push" \/ ~Follows(Tks)
    BY <1>3 DEF Refused, Follows
  <2>3. CASE job.op = "close"
    <3>1. Current \notin Tks
      BY <1>3, <2>3 DEF Refused
    <3>2. Tks = {}
      BY <1>1, <1>2, <2>3, <3>1 DEF Agreement
    <3>3. QED
      BY <2>1, <3>2, Arithmetic
      DEF ProtectedInv, JobOK, TypeOK, SendFailed, Raise, NoJob, Agreement, AtMostOne,
          Follows, Synced, Tighter, Tks
  <2>4. CASE job.op = "partial"
    BY <1>1, <2>1, <2>4
    DEF ProtectedInv, JobOK, TypeOK, SendFailed, Raise, NoJob, Agreement, AtMostOne,
        Follows, Synced, Tighter, Tks
  <2>5. CASE job.op = "push"
    <3>1. Current \notin Tks
      BY <1>1, <2>2, <2>5 DEF Agreement
    <3>2. Synced(Tks)
      BY <1>1, <1>2, <2>5, <3>1 DEF Agreement, Synced, Follows
    <3>3. pc' = "bar"
      BY <1>1, <2>1, <2>5 DEF ProtectedInv, JobOK, SendFailed, Raise
    <3>4. QED
      BY <1>1, <2>1, <2>5, <3>2, <3>3
      DEF Agreement, AtMostOne, Follows, Synced, Tks
  <2>6. QED
    BY <1>1, <2>3, <2>4, <2>5 DEF ProtectedInv, JobOK
<1>4. CASE ~Refused(Current)
  <2>1. SendOk /\ Execute(Current) /\ Current \in Tks
    BY <1>4 DEF SendOk, SendFailed, Refused
  <2>2. job.op = "push" => cpos \in Trades
    BY <1>1 DEF ProtectedInv, EntryOK
  <2>3. /\ DOMAIN book' = Tks \/ (DOMAIN book' = Tks \ {Current} /\ job.op # "push")
        /\ job.op = "close" => DOMAIN book' = Tks \ {Current}
        /\ \A u \in DOMAIN book' : /\ book'[u].dir = book[u].dir
                                   /\ book'[u].sl = IF job.op = "push" /\ u = Current
                                                    THEN cpos.stop ELSE book[u].sl
    BY <2>1, <2>2, ExecuteBook, BookIs DEF ProtectedInv
  <2>4. /\ pc' = "send" /\ job'.op = job.op /\ job'.todo = {}
        /\ UNCHANGED <<breaker, cpos, csig>>
    BY <1>1, <1>2, <2>1 DEF SendOk, Proceed, ProtectedInv, TypeOK
  <2>5. cpos # NoTrade => cpos.stop \in Int
    BY Arithmetic DEF ProtectedInv, TypeOK, Trades
  <2>6. CASE job.op = "close"
    <3>1. DOMAIN book' = {}
      BY <1>1, <1>2, <2>3, <2>6 DEF Agreement
    <3>2. QED
      BY <2>4, <2>6, <3>1 DEF Agreement, AtMostOne, Tks
  <2>7. CASE job.op # "close"
    <3>1. Follows(Tks) /\ Tighter /\ (breaker.halted => Tks = {})
      BY <1>1, <2>7 DEF Agreement
    <3>2. DOMAIN book' \subseteq Tks
      BY <2>3
    <3>3. Follows(Tks)'
      BY <2>3, <2>4, <3>1, <3>2 DEF Follows, Tks
    <3>4. Tighter'
      BY <2>3, <2>4, <2>5, <3>1, <3>2 DEF Tighter, Tks
    <3>5. job.op = "push" => \A t \in DOMAIN book' : book'[t].sl = cpos.stop
      <4> SUFFICES ASSUME job.op = "push", NEW t \in DOMAIN book', t # Current
                   PROVE  book'[t].sl = cpos.stop
        BY <2>3
      <4>1. t \in Tks \ job.todo
        BY <1>2, <3>2
      <4>2. QED
        BY <1>1, <2>3, <4>1 DEF Agreement, Synced
    <3>6. QED
      BY <1>1, <2>4, <2>7, <3>1, <3>2, <3>3, <3>4, <3>5
      DEF Agreement, AtMostOne, Synced, Tks
  <2>8. QED
    BY <2>6, <2>7
<1>5. QED
  BY <1>3, <1>4

(* Every step keeps the agreement.                                          *)
LEMMA AgreementIs == ProtectedInv /\ SyncInv /\ [Next]_vars => SyncInv'
<1> SUFFICES ASSUME ProtectedInv, SyncInv, Next \/ UNCHANGED vars, Untroubled'
             PROVE  Agreement'
  BY DEF SyncInv
<1>1. Untroubled /\ UNCHANGED budget /\ ~Fault
  BY TroublesLast DEF ProtectedInv
<1>2. Agreement
  BY <1>1 DEF SyncInv
<1>3. QED
  BY <1>1, <1>2, SimpleAgrees, ExitAgrees, BarAgrees, OpenAgrees, ServerCloseAgrees,
     SendAgrees
  DEF Next, Loop, NextBar, OnSignal, Send, OnBar

-----------------------------------------------------------------------------
(* Every step keeps the reason of a halt.                                   *)
LEMMA HaltStep == ProtectedInv /\ HaltInv /\ [Next]_vars => HaltInv'
<1> SUFFICES ASSUME ProtectedInv, HaltInv, Next \/ UNCHANGED vars PROVE HaltInv'
  OBVIOUS
<1> USE Arithmetic DEF HaltInv, Goto
<1>0. /\ day \in Nat /\ haltDay \in Nat \cup {-1} /\ crashes \in Nat
      /\ breaker = [day |-> breaker.day, start |-> breaker.start, halted |-> breaker.halted]
  BY DEF ProtectedInv, TypeOK, NoDay
<1>1. CASE NextBar
  BY <1>0, <1>1 DEF NextBar, Bar, budget
<1>2. CASE PassGates
  BY <1>0, <1>2 DEF PassGates, NoFault, budget
<1>3. CASE BreakerUpdate
  <2>1. day' = day /\ crashes' = crashes /\ pc' # "open"
    BY <1>3 DEF BreakerUpdate, Iterate, Listed, NoFault, Fault, budget
  <2>2. CASE breaker'.halted /\ ~breaker.halted
    <3>1. haltDay' = day
      BY <1>3, <2>2 DEF BreakerUpdate
    <3>2. breaker'.day = day
      BY <1>0, <1>3 DEF BreakerUpdate, UpdateBreaker
    <3>3. QED
      BY <1>0, <2>1, <2>2, <3>1, <3>2
  <2>3. CASE ~(breaker'.halted /\ ~breaker.halted)
    <3>1. haltDay' = haltDay
      BY <1>3, <2>3 DEF BreakerUpdate
    <3>2. breaker.halted /\ breaker.day = day => breaker'.halted /\ breaker'.day = day
      BY <1>0, <1>3 DEF BreakerUpdate, UpdateBreaker
    <3>3. QED
      BY <1>0, <2>1, <3>1, <3>2
  <2>4. QED
    BY <2>2, <2>3
<1>4. CASE Crash
  BY <1>0, <1>4 DEF Crash, NoJob
<1>5. CASE \/ SkipEntry \/ OpenDone \/ OpenFailed \/ KeepFill \/ AbortFill \/ ExitSignal
           \/ Send \/ BreakerFailed \/ NothingToSync \/ SyncFlat \/ SyncHeld \/ PushStop
           \/ RefreshRead \/ RefreshStore \/ RefreshFailed \/ ServerClose
           \/ UNCHANGED vars
  <2>1. UNCHANGED <<day, haltDay, breaker, crashes>>
    BY <1>5 DEF SkipEntry, OpenDone, OpenFailed, KeepFill, AbortFill, ExitSignal, Send,
       SendOk, SendFailed, SendEnd, BreakerFailed, NothingToSync, SyncFlat, SyncHeld,
       PushStop, RefreshRead, RefreshStore, RefreshFailed, ServerClose, vars, Listed,
       NoFault, Fault, budget
  <2>2. pc' # "open" \/ pc' = pc
    BY <1>5 DEF SkipEntry, OpenDone, OpenFailed, KeepFill, AbortFill, ExitSignal, Send,
       SendOk, SendFailed, SendEnd, BreakerFailed, NothingToSync, SyncFlat, SyncHeld,
       PushStop, RefreshRead, RefreshStore, RefreshFailed, ServerClose, vars, EndBar,
       Iterate, Raise, Proceed, loop, ProtectedInv, TypeOK
  <2>3. QED
    BY <2>1, <2>2
<1>6. QED
  BY <1>1, <1>2, <1>3, <1>4, <1>5 DEF Next, Loop, OnSignal, OnBar

(* Every step keeps the age of a ghost below its bound.                     *)
LEMMA GhostStep == ProtectedInv /\ GhostInv /\ [Next]_vars => GhostInv'
<1> SUFFICES ASSUME ProtectedInv, GhostInv, Next \/ UNCHANGED vars, ghost' # 0
             PROVE  /\ ghost' = 1 /\ Tks' = {}
                    /\ pc' = "bar" => cpos' # NoTrade
                    /\ pc' = "signal" => csig' # "ENTRY"
                    /\ pc' \notin {"open", "assess", "push"}
                    /\ pc' = "send" => job'.op # "push"
  BY DEF GhostInv
<1> USE DEF GhostInv, Goto, Tks
<1>1. CASE NextBar
  <2>1. PICK c \in Closes, d \in 0 .. MaxDay : Bar(c, d)
    BY <1>1 DEF NextBar
  <2>2. ghost = 1 /\ Tks = {} /\ cpos # NoTrade /\ book' = book /\ ghost' = ghost
    BY <2>1 DEF Bar, broker
  <2>3. csig' # "ENTRY"
    BY <2>1, <2>2, EngineStepOK DEF Bar, EngineStep, ProtectedInv, TypeOK
  <2>4. QED
    BY <2>1, <2>2, <2>3 DEF Bar
<1>2. CASE SendEnd
  BY <1>2 DEF SendEnd, EndBar, Raise, NoJob, ProtectedInv, JobOK, broker, TypeOK
<1>3. CASE SendOk \/ SendFailed
  <2>1. pc = "send" /\ ghost' = ghost
    BY <1>3 DEF SendOk, SendFailed, Raise, Proceed
  <2>2. Current \notin Tks
    BY <2>1
  <2>3. Raise /\ UNCHANGED broker
    BY <1>3, <2>2 DEF SendOk, SendFailed, Refused
  <2>4. job.after \in {"breaker", "sync"}
    BY <2>1 DEF ProtectedInv, JobOK, TypeOK
  <2>5. QED
    BY <2>1, <2>3, <2>4 DEF Raise, broker
<1>4. CASE OpenDone \/ OpenFailed
  BY <1>4 DEF OpenDone, OpenFailed
<1>5. CASE ServerClose
  BY <1>5 DEF ServerClose
<1>6. CASE BreakerUpdate
  BY <1>6 DEF BreakerUpdate, Iterate, broker
<1>7. CASE AbortFill \/ ExitSignal \/ PushStop
  BY <1>7 DEF AbortFill, ExitSignal, PushStop, Iterate, broker
<1>8. CASE SyncFlat \/ NothingToSync
  BY <1>8 DEF SyncFlat, NothingToSync, EndBar
<1>9. CASE SyncHeld \/ SkipEntry \/ PassGates \/ KeepFill \/ BreakerFailed
  BY <1>9 DEF SyncHeld, SkipEntry, PassGates, KeepFill, BreakerFailed, broker
<1>10. CASE Crash
  BY <1>10 DEF Crash
<1>11. CASE RefreshRead \/ RefreshStore \/ RefreshFailed \/ UNCHANGED vars
  BY <1>11 DEF RefreshRead, RefreshStore, RefreshFailed, vars, broker, loop
<1>12. QED
  BY <1>1, <1>2, <1>3, <1>4, <1>5, <1>6, <1>7, <1>8, <1>9, <1>10, <1>11
  DEF Next, Loop, OnSignal, Send, OnBar

(* Every step keeps every position protected.                               *)
LEMMA ProtectedStep == ProtectedInv /\ [Next]_vars => ProtectedInv'
BY SimpleProtected, BreakerUpdateProtected, ReadProtected, RFailedProtected, BarProtected,
   OpenProtected, SendProtected, ServerCloseProtected, StutterProtected
DEF Next, Loop, NextBar, OnSignal, Send, OnBar

(* The other three invariants hold initially.                               *)
LEMMA InitAll == Init => SyncInv /\ HaltInv /\ GhostInv
<1> SUFFICES ASSUME Init PROVE SyncInv /\ HaltInv /\ GhostInv
  OBVIOUS
<1>1. Tks = {} /\ pc = "bar" /\ ghost = 0 /\ haltDay = -1 /\ day = 0
  BY DEF Init, Tks, NoDay
<1>2. QED
  BY <1>1 DEF SyncInv, Agreement, AtMostOne, Synced, Follows, HaltInv, GhostInv

-----------------------------------------------------------------------------
Inv == ProtectedInv /\ SyncInv /\ HaltInv /\ GhostInv

(* The four invariants hold after every step of the loop, its environment   *)
(* and its keeper.                                                          *)
THEOREM Invariance == Spec => []Inv
<1>1. Init => Inv
  BY InitProtected, InitAll DEF Inv
<1>2. Inv /\ [Next]_vars => Inv'
  BY ProtectedStep, AgreementIs, HaltStep, GhostStep DEF Inv
<1>3. QED
  BY <1>1, <1>2, PTL DEF Spec

(* The state keeps its type, however many calls fail.                       *)
THEOREM TypeCorrect == Spec => []TypeOK
<1>1. Inv => TypeOK
  BY DEF Inv, ProtectedInv
<1>2. QED
  BY <1>1, Invariance, PTL

(* Every position at the server carries a stop and a positive volume,       *)
(* whatever fails and whenever the process dies (_open, update_stop,        *)
(* _close_position).                                                        *)
THEOREM AlwaysProtected == Spec => []Protected
<1>1. Inv => Protected
  BY Arithmetic DEF Inv, ProtectedInv, Stopped, TypeOK, OpenPositions, Protected
<1>2. QED
  BY <1>1, Invariance, PTL

(* While no call fails, the account holds exactly what the engine believes  *)
(* in between two bars, or nothing (on_signal, on_bar of cmd_live).         *)
THEOREM Agree == Spec => []InSync
<1>1. Inv => InSync
  <2> SUFFICES ASSUME Inv, Untroubled PROVE InSync
    BY DEF InSync
  <2>1. Agreement
    BY DEF Inv, SyncInv
  <2>2. AtMostOne(Tks)
    BY <2>1 DEF Agreement
  <2>3. Cardinality(Tks) <= 1
    <3>1. CASE Tks = {}
      BY <3>1, FS_EmptySet
    <3>2. CASE Tks # {}
      <4>1. PICK t \in Tks : Tks = {t}
        BY <2>2, <3>2 DEF AtMostOne
      <4>2. QED
        BY <4>1, FS_Singleton
    <3>3. QED
      BY <3>1, <3>2
  <2>4. QED
    BY <2>1, <2>3 DEF InSync, Agreement, Synced, Follows
<1>2. QED
  BY <1>1, Invariance, PTL

(* A trade the server has closed is noticed by the next bar's on_bar,       *)
(* whichever calls fail.                                                    *)
THEOREM GhostsAreBrief == Spec => []GhostAtMostOneBar
<1>1. Inv => GhostAtMostOneBar
  BY DEF Inv, GhostInv, GhostAtMostOneBar
<1>2. QED
  BY <1>1, Invariance, PTL

(* The process that halted opens nothing for the rest of the day            *)
(* (DailyLossBreaker.update, the halt gate of on_signal).                   *)
THEOREM HaltIsFinal == Spec => HaltHolds
<1>1. Inv /\ [Next]_vars => [day = haltDay /\ crashes = 0 => DOMAIN book' \subseteq Tks]_vars
  <2> SUFFICES ASSUME Inv, Next, day = haltDay, crashes = 0
               PROVE  DOMAIN book' \subseteq Tks
    OBVIOUS
  <2>1. pc # "open"
    BY DEF Inv, HaltInv
  <2>2. CASE SendOk \/ SendFailed
    <3>1. UNCHANGED book \/ (Execute(Current) /\ Current \in Tks)
      BY <2>2 DEF SendOk, SendFailed, broker, Refused
    <3>2. CASE Execute(Current) /\ Current \in Tks
      <4>1. job.op = "push" => cpos \in Trades
        BY <2>2 DEF SendOk, SendFailed, Inv, ProtectedInv, EntryOK
      <4>2. QED
        BY <3>2, <4>1, ExecuteBook, BookIs DEF Inv, ProtectedInv
    <3>3. QED
      BY <3>1, <3>2 DEF Tks
  <2>3. CASE ServerClose
    BY <2>3, WithoutBook, BookIs DEF ServerClose, Inv, ProtectedInv
  <2>4. CASE OpenDone \/ OpenFailed
    BY <2>1, <2>4 DEF OpenDone, OpenFailed
  <2>5. CASE Next /\ ~(\/ SendOk \/ SendFailed \/ ServerClose \/ OpenDone \/ OpenFailed)
    <3>1. UNCHANGED book
      BY <2>5 DEF Next, Loop, NextBar, OnSignal, Send, OnBar, Bar, SkipEntry, PassGates,
         KeepFill, AbortFill, ExitSignal, SendEnd, BreakerUpdate, BreakerFailed,
         NothingToSync, SyncFlat, SyncHeld, PushStop, RefreshRead, RefreshStore,
         RefreshFailed, Crash, broker
    <3>2. QED
      BY <3>1 DEF Tks
  <2>6. QED
    BY <2>2, <2>3, <2>4, <2>5
<1>2. QED
  BY <1>1, Invariance, PTL DEF Spec, HaltHolds

(* From the bar after its entry on, the stop at the server only tightens    *)
(* (update_stop is handed the engine's stop, which never loosens).          *)
THEOREM StopsTighten == Spec => ServerStopTightens
<1> DEFINE A == Untroubled /\ csig # "ENTRY" => \A t \in Tks \cap DOMAIN book' :
                  IF book[t].dir = "LONG" THEN book'[t].sl >= book[t].sl
                                          ELSE book'[t].sl <= book[t].sl
<1>1. Inv /\ [Next]_vars => [A]_vars
  <2> SUFFICES ASSUME Inv, Next, Untroubled, csig # "ENTRY",
                      NEW t \in Tks \cap DOMAIN book'
               PROVE  IF book[t].dir = "LONG" THEN book'[t].sl >= book[t].sl
                                              ELSE book'[t].sl <= book[t].sl
    OBVIOUS
  <2>0. Agreement /\ ProtectedInv /\ TypeOK /\ BookOK(book) /\ book[t].sl \in Int
    BY BookIs DEF Inv, SyncInv, ProtectedInv, TypeOK, OpenPositions
  <2>1. CASE book'[t].sl = book[t].sl
    BY <2>0, <2>1
  <2>2. CASE (SendOk \/ SendFailed) /\ ~UNCHANGED book
    <3>1. Execute(Current) /\ Current \in Tks /\ pc = "send"
      BY <2>2 DEF SendOk, SendFailed, broker, Refused
    <3>2. job.op = "push" => cpos \in Trades
      BY <3>1, <2>0 DEF ProtectedInv, EntryOK
    <3>3. book'[t].sl = IF job.op = "push" /\ t = Current THEN cpos.stop ELSE book[t].sl
      BY <2>0, <3>1, <3>2, ExecuteBook
    <3>4. CASE job.op = "push" /\ t = Current
      <4>1. Follows(Tks) /\ Tighter
        BY <2>0, <3>1, <3>4 DEF Agreement
      <4>2. QED
        BY <3>2, <3>3, <3>4, <4>1, NoTradeIs DEF Follows, Tighter
    <3>5. QED
      BY <2>0, <3>3, <3>4
  <2>3. CASE ServerClose
    <3>1. book'[t] = book[t]
      BY <2>0, <2>3, WithoutBook DEF ServerClose
    <3>2. QED
      BY <2>1, <3>1
  <2>4. CASE OpenDone \/ OpenFailed
    <3>1. book'[t] = book[t]
      BY <2>0, <2>4, OpenedBook DEF OpenDone, OpenFailed
    <3>2. QED
      BY <2>1, <3>1
  <2>5. CASE Next /\ ~(\/ SendOk \/ SendFailed \/ ServerClose \/ OpenDone \/ OpenFailed)
    <3>1. UNCHANGED book
      BY <2>5 DEF Next, Loop, NextBar, OnSignal, Send, OnBar, Bar, SkipEntry, PassGates,
         KeepFill, AbortFill, ExitSignal, SendEnd, BreakerUpdate, BreakerFailed,
         NothingToSync, SyncFlat, SyncHeld, PushStop, RefreshRead, RefreshStore,
         RefreshFailed, Crash, broker
    <3>2. QED
      BY <2>1, <3>1
  <2>6. QED
    BY <2>1, <2>2, <2>3, <2>4, <2>5
<1>2. QED
  BY <1>1, Invariance, PTL DEF Spec, ServerStopTightens
=============================================================================
