----------------------------- MODULE OrderProofs -----------------------------
(***************************************************************************)
(* Proofs about orders: the limit orders of a session with the sitter of   *)
(* their fills (LimitLoop), and one order call (OrderSend).                *)
(***************************************************************************)
EXTENDS LimitLoop, OrderSend, TLAPS

(***************************************************************************)
(* The limit orders, for every price, distance, lifetime and number of     *)
(* failing calls.                                                          *)
(*                                                                         *)
(* What the sitter sends is judged on a snapshot, while the server moves   *)
(* on.  StopInv says why that is safe for stops: only the sitter moves     *)
(* them, so a snapshot read since the last bar still agrees.  OnceInv says *)
(* why the mark "done" is not lost: such a snapshot lists every position   *)
(* under management, so none is forgotten and met again.  Both rest on     *)
(* TicketInv, that no snapshot and no mark is older than its ticket.       *)
(***************************************************************************)

(* The labels from the bar's arrival to the sitter. *)
BeforeSit == Labels \ {"bar", "act", "look", "lookpend"}

(* What holds of the program counter and the data it guards. *)
CacheOK ==
  /\ DOMAIN cache = {"warm", "snap", "busy", "read", "current", "readNow"}
  /\ pc # "bar" => ~cache.current /\ ~cache.readNow
JobOK == pc \in {"closing", "cancelling"} => job.after \in {"breaker", "pull", "ttl", "sit"}
ActsOK == pc # "act" => acts = << >>
EntryOK == pc \in {"entry", "addon"} => held # "none"
ControlInv == CacheOK /\ JobOK /\ ActsOK /\ EntryOK

(* No price is the 0 that reads as "no stop". *)
Priced(f) == \A t \in DOMAIN f : f[t].open > 0 /\ f[t].sl > 0
PriceInv ==
  /\ Priced(book) /\ Priced(cache.snap) /\ Priced(cache.read)
  /\ \A t \in Orders : pend[t].price > 0 /\ pend[t].sl > 0
  /\ \A a \in DOMAIN acts : a[2] = 2 => acts[a] > 0

(* An order's ticket is one that neither sitter nor snapshot has seen. *)
TicketInv == Orders \cap (DOMAIN trades \cup DOMAIN cache.snap \cup DOMAIN cache.read) = {}

(* A snapshot that is still to be judged, or was just judged, has the       *)
(* server's stops, so that what is to be sent is better than they are.      *)
Agrees(f) == \A t \in Tks \cap DOMAIN f : f[t].dir = book[t].dir /\ f[t].sl = book[t].sl
BetterStop(p, x) == IF p.dir = "LONG" THEN x > p.sl ELSE x < p.sl
StopInv ==
  Timely =>
    /\ pc = "bar" /\ cache.busy /\ cache.readNow => Agrees(cache.read)
    /\ pc = "bar" /\ cache.current => Agrees(cache.snap)
    /\ pc \in BeforeSit /\ cache.warm => Agrees(cache.snap)
    /\ \A t \in Tks : <<t, 2>> \in DOMAIN acts => BetterStop(book[t], acts[<<t, 2>>])

(* While no call fails such a snapshot lists every managed position, and    *)
(* partial closes sent and to be sent are accounted for by the mark.        *)
Covers(f) == DOMAIN trades \cap Tks \subseteq DOMAIN f
Sent(t) == partials[t] + (IF <<t, 1>> \in DOMAIN acts THEN 1 ELSE 0)
OnceInv ==
  Timely /\ faults = 0 =>
    /\ pc = "bar" /\ cache.busy /\ cache.readNow => Covers(cache.read)
    /\ pc = "bar" /\ cache.current => Covers(cache.snap)
    /\ pc \in BeforeSit /\ cache.warm => Covers(cache.snap)
    /\ \A t \in Tickets : partials[t] <= 1
    /\ \A t \in Tks : Sent(t) <= IF t \in DOMAIN trades /\ trades[t].done THEN 1 ELSE 0

Inv == TypeOK /\ ControlInv /\ PriceInv /\ TicketInv /\ StopInv /\ OnceInv

-----------------------------------------------------------------------------
(* What the assumptions say of the constants.                               *)
LEMMA Constants ==
  /\ Dirs \subseteq {"LONG", "SHORT"} /\ Closes \subseteq Nat
  /\ Dist \in Nat \ {0} /\ AddonTenths \in 1 .. 9 /\ Lots \in Nat \ {0}
  /\ SpareAge \in Nat /\ Ttl \in Nat /\ MaxTickets \in Nat /\ MaxFaults \in Nat
  /\ Timely \in BOOLEAN
  /\ PartialAtR \in Nat \ {0} /\ PartialTenths \in 1 .. 9
  /\ BreakevenAtR \in Nat /\ DefaultD \in Nat \ {0}
  /\ \A c \in Closes : c \in Nat /\ c > 2 * Dist
BY LimitAssumption, SitterAssumption, PriceAssumption

(* Failed calls are counted and never forgotten.                            *)
LEMMA FaultsGrow ==
  ASSUME faults \in 0 .. MaxFaults, NoFault \/ Fault
  PROVE  faults' \in 0 .. MaxFaults /\ faults' >= faults
BY Constants DEF NoFault, Fault

(* A listing is complete unless the call failed.                            *)
LEMMA ListedIs ==
  ASSUME NEW S, NEW seen, Listed(seen, S)
  PROVE  (NoFault \/ Fault) /\ seen \subseteq S /\ (faults' = 0 /\ faults \in Nat => seen = S)
BY DEF Listed, NoFault, Fault

(* A step that starts nothing: orders and positions may go, the loop moves  *)
(* on without passing the sitter, and all else stays.                       *)
Shrinks ==
  /\ DOMAIN book' \subseteq DOMAIN book /\ \A t \in DOMAIN book' : book'[t] = book[t]
  /\ DOMAIN pend' \subseteq DOMAIN pend /\ \A t \in DOMAIN pend' : pend'[t] = pend[t]
  /\ UNCHANGED <<acts, trades, cache, partials>>
  /\ faults' >= faults
  /\ \/ pc' = pc
     \/ pc \in BeforeSit /\ pc' \in BeforeSit
     \/ pc \in {"act", "look", "lookpend"} /\ pc' \in {"bar", "look", "lookpend"} /\ acts = << >>

Moves == UNCHANGED <<pend, book, acts, trades, cache, partials>> /\ faults' >= faults

(* Moving from label to label starts nothing.                               *)
LEMMA MovesShrinks ==
  ASSUME Moves, pc \in BeforeSit, pc' \in BeforeSit
  PROVE  Shrinks
BY DEF Moves, Shrinks

(* on_bar until the sitter: limits are pulled, positions closed.            *)
LEMMA EarlyShrinks ==
  ASSUME LoopOK, JobOK,
         SkipEntry \/ SpikeCancel \/ BreakerQuiet \/ BreakerTrips \/ PullLimits \/ CancelExpired
  PROVE  Shrinks
<1>1. faults \in 0 .. MaxFaults
  BY DEF LoopOK
<1>2. CASE SkipEntry
  BY <1>1, <1>2, MovesShrinks DEF SkipEntry, Goto, Moves, server, BeforeSit, Labels
<1>3. CASE SpikeCancel
  <2>1. NoFault \/ Fault
    BY <1>3, ListedIs DEF SpikeCancel
  <2>2. pc \in BeforeSit /\ pc' \in BeforeSit /\ UNCHANGED <<pend, book, acts, trades, cache, partials>>
    BY <1>3 DEF SpikeCancel, Goto, Iterate, server, BeforeSit, Labels
  <2> QED BY <1>1, <2>1, <2>2, MovesShrinks, FaultsGrow DEF Moves
<1>4. CASE BreakerQuiet
  BY <1>1, <1>4, MovesShrinks DEF BreakerQuiet, Goto, Moves, server, BeforeSit, Labels
<1>5. CASE BreakerTrips
  <2>1. NoFault \/ Fault
    BY <1>5, ListedIs DEF BreakerTrips
  <2>2. pc \in BeforeSit /\ pc' \in BeforeSit /\ UNCHANGED <<pend, book, acts, trades, cache, partials>>
    BY <1>5 DEF BreakerTrips, Iterate, server, BeforeSit, Labels
  <2> QED BY <1>1, <2>1, <2>2, MovesShrinks, FaultsGrow DEF Moves
<1>6. CASE PullLimits
  <2>1. NoFault \/ Fault
    BY <1>6, ListedIs DEF PullLimits
  <2>2. pc \in BeforeSit /\ pc' \in BeforeSit /\ UNCHANGED <<pend, book, acts, trades, cache, partials>>
    BY <1>6 DEF PullLimits, Iterate, server, BeforeSit, Labels
  <2> QED BY <1>1, <2>1, <2>2, MovesShrinks, FaultsGrow DEF Moves
<1>7. CASE CancelExpired
  <2>1. NoFault \/ Fault
    BY <1>7, ListedIs DEF CancelExpired
  <2>2. pc \in BeforeSit /\ pc' \in BeforeSit /\ UNCHANGED <<pend, book, acts, trades, cache, partials>>
    BY <1>7 DEF CancelExpired, Iterate, server, BeforeSit, Labels
  <2> QED BY <1>1, <2>1, <2>2, MovesShrinks, FaultsGrow DEF Moves
<1> QED BY <1>2, <1>3, <1>4, <1>5, <1>6, <1>7

(* close_all, cancel_pending and cancel_expired.                            *)
LEMMA LoopShrinks ==
  ASSUME LoopOK, JobOK, CloseNext \/ CancelNext
  PROVE  Shrinks
<1>1. faults \in 0 .. MaxFaults /\ (pc \in {"closing", "cancelling"} => job.after \in BeforeSit)
  BY DEF LoopOK, JobOK, BeforeSit, Labels
<1>2. CASE CloseNext
  <2>1. pc = "closing" /\ pc' \in BeforeSit /\ UNCHANGED <<acts, trades, cache, partials>>
    BY <1>1, <1>2 DEF CloseNext, Loop, BeforeSit, Labels
  <2>2. NoFault \/ Fault
    BY <1>2 DEF CloseNext, Loop
  <2>3. UNCHANGED pend /\ (book' = book \/ book' = Drop(book, {Current}))
    BY <1>2 DEF CloseNext, Loop, server
  <2>4. DOMAIN book' \subseteq DOMAIN book /\ \A t \in DOMAIN book' : book'[t] = book[t]
    BY <2>3 DEF Drop
  <2>5. pc \in BeforeSit /\ faults' >= faults
    BY <1>1, <2>1, <2>2, FaultsGrow DEF BeforeSit, Labels
  <2> QED BY <2>1, <2>3, <2>4, <2>5 DEF Shrinks
<1>3. CASE CancelNext
  <2>1. pc = "cancelling" /\ pc' \in BeforeSit /\ UNCHANGED <<acts, trades, cache, partials>>
    BY <1>1, <1>3 DEF CancelNext, Loop, BeforeSit, Labels
  <2>2. NoFault \/ Fault
    BY <1>3 DEF CancelNext, Loop
  <2>3. UNCHANGED book /\ (pend' = pend \/ pend' = Drop(pend, {Current}))
    BY <1>3 DEF CancelNext, Loop, server
  <2>4. DOMAIN pend' \subseteq DOMAIN pend /\ \A t \in DOMAIN pend' : pend'[t] = pend[t]
    BY <2>3 DEF Drop
  <2>5. pc \in BeforeSit /\ faults' >= faults
    BY <1>1, <2>1, <2>2, FaultsGrow DEF BeforeSit, Labels
  <2> QED BY <2>1, <2>3, <2>4, <2>5 DEF Shrinks
<1> QED BY <1>2, <1>3

(* The end of on_bar, the server closing a position, and no step at all.    *)
LEMMA LateShrinks ==
  ASSUME LoopOK, ActEnd \/ HasPosition \/ HasPending \/ ServerClose \/ UNCHANGED vars,
         ActsOK
  PROVE  Shrinks
<1>1. faults \in 0 .. MaxFaults
  BY DEF LoopOK
<1>2. CASE ActEnd
  BY <1>1, <1>2 DEF ActEnd, Goto, Shrinks, server
<1>3. CASE HasPosition
  <2>1. NoFault \/ Fault
    BY <1>3, ListedIs DEF HasPosition
  <2>2. pc = "look" /\ pc' \in {"bar", "lookpend"} /\ UNCHANGED <<pend, book, acts, trades, cache, partials>>
    BY <1>3 DEF HasPosition, Goto, server
  <2>3. faults' >= faults /\ acts = << >>
    BY <1>1, <2>1, <2>2, FaultsGrow DEF ActsOK
  <2> QED BY <2>2, <2>3 DEF Shrinks
<1>4. CASE HasPending
  <2>1. NoFault \/ Fault
    BY <1>4, ListedIs DEF HasPending
  <2>2. pc = "lookpend" /\ pc' = "bar" /\ UNCHANGED <<pend, book, acts, trades, cache, partials>>
    BY <1>4 DEF HasPending, Goto, server
  <2>3. faults' >= faults /\ acts = << >>
    BY <1>1, <2>1, <2>2, FaultsGrow DEF ActsOK
  <2> QED BY <2>2, <2>3 DEF Shrinks
<1>5. CASE ServerClose
  <2>1. PICK t \in Tks : book' = Drop(book, {t})
    BY <1>5 DEF ServerClose
  <2>2. DOMAIN book' \subseteq DOMAIN book /\ \A u \in DOMAIN book' : book'[u] = book[u]
    BY <2>1 DEF Drop
  <2> QED BY <1>1, <1>5, <2>2 DEF ServerClose, Shrinks
<1>6. CASE UNCHANGED vars
  BY <1>1, <1>6 DEF vars, Shrinks
<1> QED BY <1>2, <1>3, <1>4, <1>5, <1>6

-----------------------------------------------------------------------------
(* The loop: its labels and what it iterates over.                          *)

(* A loop over tickets comes back to a label before the sitter.             *)
LEMMA LoopControl ==
  ASSUME LoopOK, JobOK, CloseNext \/ CancelNext
  PROVE  pc' \in Labels /\ job' \in [todo : SUBSET Tickets, after : Labels] /\ JobOK'
<1>1. /\ pc \in {"closing", "cancelling"} => job.after \in {"breaker", "pull", "ttl", "sit"}
      /\ job.after \in Labels /\ job.todo \in SUBSET Tickets
      /\ job = [todo |-> job.todo, after |-> job.after]
      /\ NoJob \in [todo : SUBSET Tickets, after : Labels]
  BY DEF LoopOK, JobOK, NoJob, Labels
<1>2. PICK label \in {"closing", "cancelling"} : pc = label
      /\ \/ pc' = pc /\ job' = [job EXCEPT !.todo = @ \ {Current}]
         \/ pc' \in {"ttl", job.after} /\ job' = NoJob
  BY DEF CloseNext, CancelNext, Loop
<1>3. CASE pc' = pc /\ job' = [job EXCEPT !.todo = @ \ {Current}]
  <2>1. job' = [todo |-> job.todo \ {Current}, after |-> job.after]
    BY <1>1, <1>3
  <2> QED BY <1>1, <1>2, <1>3, <2>1 DEF JobOK, Labels
<1>4. CASE pc' \in {"ttl", job.after} /\ job' = NoJob
  BY <1>1, <1>2, <1>4 DEF JobOK, Labels
<1> QED BY <1>2, <1>3, <1>4

(* Every step keeps the types of the loop.                                  *)
LEMMA LoopStepOK ==
  ASSUME LoopOK, ServerOK, JobOK, [Next]_vars
  PROVE  LoopOK' /\ JobOK'
<1>1. /\ held \in Dirs \cup {"none"} /\ close \in Closes /\ pc \in Labels
      /\ job \in [todo : SUBSET Tickets, after : Labels]
      /\ halted \in BOOLEAN /\ faults \in 0 .. MaxFaults
      /\ Orders \in SUBSET Tickets /\ Tks \in SUBSET Tickets
  BY DEF LoopOK, ServerOK, IsSnapshot, Tks
<1>2. ASSUME NEW label, NEW seen \in SUBSET Tickets,
             NEW after \in {"breaker", "pull", "ttl", "sit"},
             label \in {"closing", "cancelling"}, Iterate(label, seen, after)
      PROVE  pc' \in Labels /\ job' \in [todo : SUBSET Tickets, after : Labels] /\ JobOK'
  BY <1>2 DEF Iterate, Labels, JobOK
<1>3. ASSUME NEW label \in Labels \ {"closing", "cancelling"}, Goto(label)
      PROVE  pc' \in Labels /\ job' \in [todo : SUBSET Tickets, after : Labels] /\ JobOK'
  BY <1>1, <1>3 DEF Goto, JobOK
<1>4. ASSUME UNCHANGED <<pc, job>>
      PROVE  pc' \in Labels /\ job' \in [todo : SUBSET Tickets, after : Labels] /\ JobOK'
  BY <1>1, <1>4 DEF JobOK
<1>5. CASE NextBar
  <2>1. PICK c \in Closes : Bar(c)
    BY <1>5 DEF NextBar
  <2>2. \E label \in Labels \ {"closing", "cancelling"} : Goto(label)
    BY <2>1 DEF Bar, Labels
  <2>3. held' \in Dirs \cup {"none"} /\ close' \in Closes /\ halted' = halted /\ faults' = faults
    BY <1>1, <2>1 DEF Bar
  <2> QED BY <1>1, <1>3, <2>2, <2>3 DEF LoopOK
<1>6. CASE SkipEntry
  <2>1. Goto("spike") /\ "spike" \in Labels \ {"closing", "cancelling"}
    BY <1>6 DEF SkipEntry, Labels
  <2> QED BY <1>1, <1>3, <1>6, <2>1 DEF SkipEntry, LoopOK
<1>7. CASE PlaceEntry \/ PlaceAddon
  <2>1. \E label \in Labels \ {"closing", "cancelling"} : Goto(label)
    BY <1>7 DEF PlaceEntry, PlaceAddon, Place, Labels
  <2>2. NoFault \/ Fault
    BY <1>7 DEF PlaceEntry, PlaceAddon, Place
  <2>3. held' = held /\ close' = close /\ halted' = halted
    BY <1>7 DEF PlaceEntry, PlaceAddon, Place
  <2> QED BY <1>1, <1>3, <2>1, <2>2, <2>3, FaultsGrow DEF LoopOK
<1>8. CASE SpikeCancel
  <2>1. NoFault \/ Fault
    BY <1>8, ListedIs DEF SpikeCancel
  <2>2. \/ Goto("breaker")
        \/ \E seen \in SUBSET Orders : Iterate("cancelling", seen, "breaker")
    <3>1. ASSUME NEW seen \in SUBSET Orders
          PROVE {t \in seen : pend[t].age >= SpareAge} \in SUBSET Orders
      OBVIOUS
    <3> QED BY <1>8, <3>1 DEF SpikeCancel
  <2>3. held' = held /\ close' = close /\ halted' = halted
    BY <1>8 DEF SpikeCancel
  <2>4. pc' \in Labels /\ job' \in [todo : SUBSET Tickets, after : Labels] /\ JobOK'
    BY <1>1, <1>2, <1>3, <2>2 DEF Labels
  <2> QED BY <1>1, <2>1, <2>3, <2>4, FaultsGrow DEF LoopOK
<1>9. CASE BreakerQuiet
  <2>1. Goto("ttl") /\ "ttl" \in Labels \ {"closing", "cancelling"}
    BY <1>9 DEF BreakerQuiet, Labels
  <2>2. halted' \in BOOLEAN
    BY <1>1, <1>9, Zenon DEF BreakerQuiet
  <2> QED BY <1>1, <1>3, <1>9, <2>1, <2>2 DEF BreakerQuiet, LoopOK
<1>10. CASE BreakerTrips
  <2>1. PICK seen \in SUBSET Tks : Listed(seen, Tks) /\ Iterate("closing", seen, "pull")
    BY <1>10 DEF BreakerTrips
  <2>2. held' = held /\ close' = close /\ halted' = TRUE
    BY <1>10 DEF BreakerTrips
  <2>3. halted' \in BOOLEAN
    BY <2>2, Zenon
  <2>4. pc' \in Labels /\ job' \in [todo : SUBSET Tickets, after : Labels] /\ JobOK'
    BY <1>1, <1>2, <2>1
  <2> QED BY <1>1, <2>1, <2>2, <2>3, <2>4, ListedIs, FaultsGrow DEF LoopOK
<1>11. CASE PullLimits
  <2>1. PICK seen \in SUBSET Orders : Listed(seen, Orders) /\ Iterate("cancelling", seen, "ttl")
    BY <1>11 DEF PullLimits
  <2>2. held' = held /\ close' = close /\ halted' = halted
    BY <1>11 DEF PullLimits
  <2>4. pc' \in Labels /\ job' \in [todo : SUBSET Tickets, after : Labels] /\ JobOK'
    BY <1>1, <1>2, <2>1
  <2> QED BY <1>1, <2>1, <2>2, <2>4, ListedIs, FaultsGrow DEF LoopOK
<1>12. CASE CancelExpired
  <2>1. PICK seen \in SUBSET Orders :
          /\ Listed(seen, Orders)
          /\ Iterate("cancelling", {t \in seen : Ttl > 0 /\ pend[t].age >= Ttl}, "sit")
    BY <1>12 DEF CancelExpired
  <2>2. held' = held /\ close' = close /\ halted' = halted
    BY <1>12 DEF CancelExpired
  <2>3. {t \in seen : Ttl > 0 /\ pend[t].age >= Ttl} \in SUBSET Tickets
    BY <1>1
  <2>4. pc' \in Labels /\ job' \in [todo : SUBSET Tickets, after : Labels] /\ JobOK'
    BY <1>2, <2>1, <2>3
  <2> QED BY <1>1, <2>1, <2>2, <2>4, ListedIs, FaultsGrow DEF LoopOK
<1>13. CASE CloseNext \/ CancelNext
  <2>1. NoFault \/ Fault
    BY <1>13 DEF CloseNext, CancelNext, Loop
  <2>2. held' = held /\ close' = close /\ halted' = halted
    BY <1>13 DEF CloseNext, CancelNext, Loop
  <2> QED BY <1>1, <1>13, <2>1, <2>2, LoopControl, FaultsGrow DEF LoopOK
<1>14. CASE Sit
  <2>1. NoFault \/ Fault
    BY <1>14, ListedIs DEF Sit
  <2>2. held' = held /\ close' = close /\ halted' = halted /\ pc' = "act" /\ job' = job
    BY <1>14 DEF Sit
  <2> QED BY <1>1, <2>1, <2>2, FaultsGrow DEF LoopOK, JobOK, Labels
<1>15. CASE ActNext
  <2>1. NoFault \/ Fault
    BY <1>15 DEF ActNext
  <2>2. held' = held /\ close' = close /\ halted' = halted /\ UNCHANGED <<pc, job>>
    BY <1>15 DEF ActNext
  <2> QED BY <1>1, <1>4, <2>1, <2>2, FaultsGrow DEF LoopOK
<1>16. CASE ActEnd
  <2>1. \E label \in Labels \ {"closing", "cancelling"} : Goto(label)
    BY <1>16 DEF ActEnd, Labels
  <2> QED BY <1>1, <1>3, <1>16, <2>1 DEF ActEnd, LoopOK
<1>17. CASE HasPosition
  <2>1. PICK seen \in SUBSET Tks :
          Listed(seen, Tks) /\ Goto(IF seen # {} THEN "bar" ELSE "lookpend")
    BY <1>17 DEF HasPosition
  <2>2. held' = held /\ close' = close /\ halted' = halted
    BY <1>17 DEF HasPosition
  <2>3. \E label \in Labels \ {"closing", "cancelling"} : Goto(label)
    BY <2>1 DEF Labels
  <2> QED BY <1>1, <1>3, <2>1, <2>2, <2>3, ListedIs, FaultsGrow DEF LoopOK
<1>18. CASE HasPending
  <2>1. PICK seen \in SUBSET Orders :
          Listed(seen, Orders) /\ held' = IF seen # {} THEN held ELSE "none"
    BY <1>18 DEF HasPending
  <2>2. held' \in Dirs \cup {"none"} /\ close' = close /\ halted' = halted
    BY <1>1, <1>18, <2>1 DEF HasPending
  <2>3. \E label \in Labels \ {"closing", "cancelling"} : Goto(label)
    BY <1>18 DEF HasPending, Labels
  <2> QED BY <1>1, <1>3, <2>1, <2>2, <2>3, ListedIs, FaultsGrow DEF LoopOK
<1>19. CASE RefreshRead
  <2>1. NoFault \/ Fault
    BY <1>19, ListedIs DEF RefreshRead
  <2> QED BY <1>1, <1>4, <1>19, <2>1, FaultsGrow DEF RefreshRead, LoopOK
<1>20. CASE RefreshStore
  BY <1>1, <1>4, <1>20 DEF RefreshStore, LoopOK
<1>21. CASE RefreshFailed
  BY <1>1, <1>4, <1>21, FaultsGrow DEF RefreshFailed, LoopOK
<1>22. CASE Fill
  BY <1>1, <1>4, <1>22 DEF Fill, LoopOK
<1>23. CASE ServerClose
  BY <1>1, <1>4, <1>23 DEF ServerClose, LoopOK
<1>24. CASE UNCHANGED vars
  BY <1>1, <1>4, <1>24 DEF vars, LoopOK
<1> QED
  BY <1>5, <1>6, <1>7, <1>8, <1>9, <1>10, <1>11, <1>12, <1>13, <1>14, <1>15, <1>16, <1>17,
     <1>18, <1>19, <1>20, <1>21, <1>22, <1>23, <1>24
  DEF Next, LoopStep, OnSignal, OnBar

-----------------------------------------------------------------------------
(* Account, sitter and snapshots: one lemma per kind of step.               *)
Rest == ServerOK /\ SitterOK /\ CacheOK /\ ActsOK /\ PriceInv /\ TicketInv /\ StopInv /\ OnceInv

(* A step that only takes away keeps everything.                            *)
LEMMA ShrinksKeeps ==
  ASSUME LoopOK, Rest, Shrinks
  PROVE  Rest'
<1>1. /\ DOMAIN book' \subseteq DOMAIN book /\ \A t \in DOMAIN book' : book'[t] = book[t]
      /\ DOMAIN pend' \subseteq DOMAIN pend /\ \A t \in DOMAIN pend' : pend'[t] = pend[t]
      /\ acts' = acts /\ trades' = trades /\ cache' = cache /\ partials' = partials
      /\ faults' >= faults /\ faults \in Nat
  BY Constants DEF Shrinks, LoopOK
<1>2. \/ pc' = pc
      \/ pc \in BeforeSit /\ pc' \in BeforeSit
      \/ pc \in {"act", "look", "lookpend"} /\ pc' \in {"bar", "look", "lookpend"} /\ acts = << >>
  BY DEF Shrinks
<1>3. ServerOK' /\ SitterOK'
  BY <1>1 DEF Rest, ServerOK, SitterOK, IsSnapshot, Orders, Tks
<1>4. CacheOK' /\ ActsOK'
  BY <1>1, <1>2 DEF Rest, CacheOK, ActsOK, BeforeSit, Labels
<1>5. PriceInv' /\ TicketInv'
  BY <1>1 DEF Rest, PriceInv, Priced, TicketInv, Orders
<1>6. pc' = "bar" => pc = "bar" \/ (~cache.current /\ ~cache.readNow)
  BY <1>2 DEF Rest, CacheOK, BeforeSit, Labels
<1>7. pc' \in BeforeSit => pc \in BeforeSit
  BY <1>2 DEF BeforeSit, Labels
<1>8. StopInv'
  BY <1>1, <1>6, <1>7 DEF Rest, StopInv, Agrees, BetterStop, Tks
<1>9. OnceInv'
  <2>1. faults' = 0 => faults = 0
    BY <1>1
  <2> QED BY <1>1, <1>6, <1>7, <2>1 DEF Rest, OnceInv, Covers, Sent, Tks, Tickets
<1> QED BY <1>3, <1>4, <1>5, <1>8, <1>9 DEF Rest

(* A new bar: a snapshot the bar is judged on was read since the last.      *)
LEMMA BarKeeps ==
  ASSUME LoopOK, Rest, NEW c \in Closes, Bar(c)
  PROVE  Rest'
<1>1. /\ book' = book /\ acts' = acts /\ trades' = trades /\ partials' = partials
      /\ faults' = faults /\ pc = "bar" /\ pc' \in {"entry", "spike"}
      /\ Timely => ~cache.warm \/ cache.current
  BY DEF Bar, Goto, SnapshotCurrent
<1>2. /\ DOMAIN cache' = {"warm", "snap", "busy", "read", "current", "readNow"}
      /\ cache'.snap = cache.snap /\ cache'.read = cache.read /\ cache'.warm = cache.warm
      /\ cache'.current = FALSE /\ cache'.readNow = FALSE
  BY DEF Bar, Rest, CacheOK
<1>3. /\ Orders' = Orders
      /\ \A t \in Orders : pend'[t] = [pend[t] EXCEPT !.age = MinOf(@ + 1, MaxOf(SpareAge, Ttl))]
  BY DEF Bar, Aged, Orders
<1>4. \A t \in Orders : /\ pend'[t] \in LimitOrder
                        /\ pend'[t].price = pend[t].price /\ pend'[t].sl = pend[t].sl
  <2>1. ASSUME NEW t \in Orders
        PROVE  /\ pend'[t] \in LimitOrder
               /\ pend'[t].price = pend[t].price /\ pend'[t].sl = pend[t].sl
    <3>1. pend[t] \in LimitOrder
      BY <2>1 DEF Rest, ServerOK
    <3>2. MinOf(pend[t].age + 1, MaxOf(SpareAge, Ttl)) \in Nat
      BY <3>1, Constants DEF LimitOrder, MinOf, MaxOf
    <3> QED BY <1>3, <2>1, <3>1, <3>2 DEF LimitOrder
  <2> QED BY <2>1
<1>5. ServerOK' /\ SitterOK'
  BY <1>1, <1>2, <1>3, <1>4 DEF Rest, ServerOK, SitterOK, IsSnapshot, Tks
<1>6. CacheOK' /\ ActsOK'
  BY <1>1, <1>2 DEF Rest, CacheOK, ActsOK
<1>7. PriceInv' /\ TicketInv'
  BY <1>1, <1>2, <1>3, <1>4 DEF Rest, PriceInv, Priced, TicketInv
<1>8. StopInv'
  BY <1>1, <1>2 DEF Rest, StopInv, Agrees, BetterStop, Tks
<1>9. OnceInv'
  BY <1>1, <1>2 DEF Rest, OnceInv, Covers, Sent, Tks, Tickets
<1> QED BY <1>5, <1>6, <1>7, <1>8, <1>9 DEF Rest

(* The volume of the tenths, and where the limits lie.                      *)
LEMMA LimitIs ==
  ASSUME LoopOK, held # "none", NEW dist \in Nat, dist < 2 * Dist
  PROVE  Limit(dist) \in LimitOrder /\ Limit(dist).price > 0 /\ Limit(dist).sl > 0
<1>1. close \in Nat /\ close > 2 * Dist /\ Dist \in Nat /\ held \in Dirs
  BY Constants DEF LoopOK
<1>2. Away(dist) \in Int /\ Away(dist) > 0 /\ Away(2 * Dist) \in Int /\ Away(2 * Dist) > 0
  BY <1>1 DEF Away
<1> QED BY <1>1, <1>2 DEF Limit, LimitOrder

(* The second limit lies deeper than the first, and above the stop.         *)
LEMMA AddonDepth == /\ Dist + (AddonTenths * Dist) \div 10 \in Nat
                    /\ Dist + (AddonTenths * Dist) \div 10 < 2 * Dist
                    /\ Dist \in Nat /\ Dist < 2 * Dist
<1>1. Dist \in Nat /\ Dist >= 1 /\ AddonTenths \in 1 .. 9
  BY Constants
<1>2. AddonTenths * Dist \in Nat /\ AddonTenths * Dist <= 9 * Dist
  <2>1. AddonTenths \in {1, 2, 3, 4, 5, 6, 7, 8, 9}
    BY <1>1
  <2> QED BY <1>1, <2>1
<1>3. (AddonTenths * Dist) \div 10 \in Nat /\ (AddonTenths * Dist) \div 10 < Dist
  BY <1>1, <1>2
<1> QED BY <1>1, <1>3

(* An order is placed only while the engine holds a direction.              *)
LEMMA EntryStep ==
  ASSUME LoopOK, JobOK, EntryOK, [Next]_vars
  PROVE  EntryOK'
<1>1. pc \in Labels /\ (pc \in {"closing", "cancelling"} => job.after \in {"breaker", "pull", "ttl", "sit"})
  BY DEF LoopOK, JobOK
<1>2. "none" \notin Dirs
  BY Constants
<1>3. CASE NextBar
  BY <1>2, <1>3 DEF NextBar, Bar, Goto, EntryOK
<1>4. CASE OnSignal
  BY <1>4 DEF OnSignal, SkipEntry, PlaceEntry, PlaceAddon, Place, Goto, EntryOK
<1>5. CASE SpikeCancel \/ BreakerQuiet \/ BreakerTrips \/ PullLimits \/ CancelExpired
  BY <1>5 DEF SpikeCancel, BreakerQuiet, BreakerTrips, PullLimits, CancelExpired, Goto, Iterate,
              EntryOK
<1>6. CASE CloseNext \/ CancelNext
  BY <1>1, <1>6 DEF CloseNext, CancelNext, Loop, EntryOK
<1>7. CASE Sit \/ ActNext \/ ActEnd \/ HasPosition \/ HasPending
  BY <1>7 DEF Sit, ActNext, ActEnd, HasPosition, HasPending, Goto, EntryOK
<1>8. CASE RefreshRead \/ RefreshStore \/ RefreshFailed \/ Fill \/ ServerClose \/ UNCHANGED vars
  BY <1>8 DEF RefreshRead, RefreshStore, RefreshFailed, Fill, ServerClose, vars, EntryOK
<1> QED BY <1>3, <1>4, <1>5, <1>6, <1>7, <1>8 DEF Next, LoopStep, OnBar

(* A limit order takes a ticket nobody remembers.                           *)
LEMMA PlaceKeeps ==
  ASSUME LoopOK, EntryOK, Rest, PlaceEntry \/ PlaceAddon
  PROVE  Rest'
<1>1. /\ book' = book /\ acts' = acts /\ trades' = trades /\ partials' = partials
      /\ cache' = cache /\ pc \in {"entry", "addon"} /\ pc' \in {"addon", "spike"}
  BY DEF PlaceEntry, PlaceAddon, Place, Goto
<1>2. faults' >= faults /\ faults \in Nat
  <2>1. NoFault \/ Fault
    BY DEF PlaceEntry, PlaceAddon, Place
  <2> QED BY <2>1, FaultsGrow, Constants DEF LoopOK
<1>3. PICK dist \in {Dist, Dist + (AddonTenths * Dist) \div 10}, t \in FreeTickets :
        pend' = pend \/ pend' = Put(pend, t, Limit(dist))
  BY DEF PlaceEntry, PlaceAddon, Place
<1>4. Limit(dist) \in LimitOrder /\ Limit(dist).price > 0 /\ Limit(dist).sl > 0
  BY <1>1, <1>3, LimitIs, AddonDepth DEF EntryOK
<1>5. t \in Tickets /\ t \notin Tks \cup DOMAIN trades \cup DOMAIN cache.snap \cup DOMAIN cache.read
  BY <1>3 DEF FreeTickets
<1>6. /\ Orders' \subseteq Orders \cup {t}
      /\ \A u \in Orders' : pend'[u] = Limit(dist) \/ (u \in Orders /\ pend'[u] = pend[u])
  BY <1>3 DEF Orders, Put
<1>7. ServerOK' /\ SitterOK'
  BY <1>1, <1>4, <1>5, <1>6 DEF Rest, ServerOK, SitterOK, IsSnapshot, Tks
<1>8. CacheOK' /\ ActsOK'
  BY <1>1 DEF Rest, CacheOK, ActsOK
<1>9. PriceInv' /\ TicketInv'
  BY <1>1, <1>4, <1>5, <1>6 DEF Rest, PriceInv, Priced, TicketInv
<1>10. pc \in BeforeSit /\ pc' # "bar"
  BY <1>1 DEF BeforeSit, Labels
<1>11. StopInv'
  BY <1>1, <1>10 DEF Rest, StopInv, Agrees, BetterStop, Tks
<1>12. OnceInv'
  BY <1>1, <1>2, <1>10 DEF Rest, OnceInv, Covers, Sent, Tks, Tickets
<1> QED BY <1>7, <1>8, <1>9, <1>11, <1>12 DEF Rest

(* A fill is a position nobody has seen yet.                                *)
LEMMA FillKeeps ==
  ASSUME LoopOK, Rest, Fill
  PROVE  Rest'
<1>1. /\ acts' = acts /\ trades' = trades /\ cache' = cache /\ pc' = pc /\ faults' = faults
  BY DEF Fill
<1>2. PICK t \in Orders :
        /\ pend' = Drop(pend, {t})
        /\ book' = Put(book, t, [dir |-> pend[t].dir, open |-> pend[t].price,
                                 sl |-> pend[t].sl, vol |-> Lots])
        /\ partials' = [partials EXCEPT ![t] = 0]
  BY DEF Fill
<1>3. /\ Orders' = Orders \ {t} /\ Tks' = Tks \cup {t}
      /\ \A u \in Orders' : pend'[u] = pend[u]
      /\ \A u \in Tks : u # t => book'[u] = book[u]
      /\ book'[t] = [dir |-> pend[t].dir, open |-> pend[t].price, sl |-> pend[t].sl, vol |-> Lots]
  BY <1>2 DEF Orders, Tks, Put, Drop
<1>4. /\ t \in Tickets /\ pend[t] \in LimitOrder /\ t \notin Tks
      /\ t \notin DOMAIN trades \cup DOMAIN cache.snap \cup DOMAIN cache.read
      /\ pend[t].price > 0 /\ pend[t].sl > 0
  BY <1>2 DEF Rest, ServerOK, TicketInv, PriceInv
<1>5. book'[t] \in OpenPosition /\ book'[t].open > 0 /\ book'[t].sl > 0
  BY <1>3, <1>4, Constants DEF LimitOrder, OpenPosition
<1>6. /\ partials' \in [Tickets -> Nat] /\ partials'[t] = 0
      /\ \A u \in Tickets : u # t => partials'[u] = partials[u]
  BY <1>2, <1>4 DEF Rest, ServerOK
<1>7. ServerOK' /\ SitterOK'
  <2>1. \A u \in Tks : u # t /\ book[u] \in OpenPosition /\ book'[u] = book[u]
    BY <1>3, <1>4 DEF Rest, ServerOK, IsSnapshot, Tks
  <2>2. IsSnapshot(book)' /\ Orders' \cap Tks' = {}
    BY <1>3, <1>4, <1>5, <2>1 DEF Rest, ServerOK, IsSnapshot, Tks
  <2>3. Orders' \subseteq Tickets /\ \A u \in Orders' : pend'[u] \in LimitOrder
    BY <1>3 DEF Rest, ServerOK
  <2> QED BY <1>1, <1>6, <2>2, <2>3 DEF Rest, ServerOK, SitterOK, IsSnapshot
<1>8. CacheOK' /\ ActsOK'
  BY <1>1 DEF Rest, CacheOK, ActsOK
<1>9. PriceInv' /\ TicketInv'
  <2>1. Priced(book)'
    BY <1>3, <1>5 DEF Rest, PriceInv, Priced, Tks
  <2> QED BY <1>1, <1>3, <2>1 DEF Rest, PriceInv, Priced, TicketInv
<1>10. \A k \in {1, 2} : <<t, k>> \notin DOMAIN acts
  BY <1>4 DEF Rest, SitterOK
<1>11. StopInv'
  BY <1>1, <1>3, <1>4, <1>10 DEF Rest, StopInv, Agrees, BetterStop
<1>12. OnceInv'
  <2>1. SUFFICES ASSUME Timely, faults = 0
                 PROVE  OnceInv'
    BY <1>1 DEF OnceInv
  <2>2. DOMAIN trades \cap Tks' = DOMAIN trades \cap Tks
    BY <1>3, <1>4
  <2>3. \A u \in Tickets : partials'[u] <= 1
    BY <1>6, <2>1 DEF Rest, OnceInv
  <2>4. ASSUME NEW u \in Tks'
        PROVE  Sent(u)' <= IF u \in DOMAIN trades' /\ trades'[u].done THEN 1 ELSE 0
    <3>1. CASE u = t
      BY <1>1, <1>4, <1>6, <1>10, <3>1 DEF Sent
    <3>2. CASE u # t
      <4>1. u \in Tks /\ u \in Tickets
        BY <1>3, <3>2, <2>4 DEF Rest, ServerOK, IsSnapshot, Tks
      <4>2. Sent(u)' = Sent(u)
        BY <1>1, <1>6, <3>2, <4>1 DEF Sent
      <4> QED BY <1>1, <2>1, <4>1, <4>2 DEF Rest, OnceInv
    <3> QED BY <3>1, <3>2
  <2> QED BY <1>1, <2>1, <2>2, <2>3, <2>4 DEF Rest, OnceInv, Covers
<1> QED BY <1>7, <1>8, <1>9, <1>11, <1>12 DEF Rest

(* A refresh that starts, is stored, or raises.                             *)
LEMMA RefreshKeeps ==
  ASSUME LoopOK, Rest, RefreshRead \/ RefreshStore \/ RefreshFailed
  PROVE  Rest'
<1>1. /\ acts' = acts /\ trades' = trades /\ pend' = pend /\ book' = book /\ pc' = pc
      /\ partials' = partials /\ faults \in Nat /\ faults' >= faults
  <2>1. acts' = acts /\ trades' = trades /\ pend' = pend /\ book' = book /\ pc' = pc
        /\ partials' = partials
    BY DEF RefreshRead, RefreshStore, RefreshFailed, server
  <2>2. NoFault \/ Fault
    BY ListedIs DEF RefreshRead, RefreshStore, RefreshFailed, NoFault
  <2> QED BY <2>1, <2>2, FaultsGrow, Constants DEF LoopOK
<1>2. ServerOK' /\ ActsOK'
  BY <1>1 DEF Rest, ServerOK, ActsOK, IsSnapshot, Orders, Tks
<1>3. CASE RefreshRead
  <2>1. PICK seen \in SUBSET Tks :
          /\ Listed(seen, Tks)
          /\ cache' = [cache EXCEPT !.busy = TRUE, !.readNow = (pc = "bar"),
                                   !.read = [t \in seen |-> book[t]]]
    BY <1>3 DEF RefreshRead
  <2>2. /\ DOMAIN cache' = {"warm", "snap", "busy", "read", "current", "readNow"}
        /\ cache'.snap = cache.snap /\ cache'.read = [t \in seen |-> book[t]]
        /\ cache'.warm = cache.warm /\ cache'.current = cache.current
        /\ cache'.readNow = (pc = "bar")
    BY <2>1 DEF Rest, CacheOK
  <2>3. /\ DOMAIN cache'.read = seen /\ \A t \in seen : cache'.read[t] = book[t]
        /\ faults' = 0 => seen = Tks
    BY <1>1, <2>1, <2>2, ListedIs
  <2>4. SitterOK'
    BY <1>1, <2>2, <2>3 DEF Rest, SitterOK, ServerOK, IsSnapshot, Tks
  <2>5. CacheOK'
    BY <1>1, <2>2 DEF Rest, CacheOK
  <2>6. PriceInv'
    BY <1>1, <2>2, <2>3 DEF Rest, PriceInv, Priced, Orders, Tks
  <2>7. TicketInv'
    BY <1>1, <2>2, <2>3 DEF Rest, TicketInv, ServerOK, Orders
  <2>8. StopInv'
    BY <1>1, <2>2, <2>3 DEF Rest, StopInv, Agrees, BetterStop, Tks
  <2>9. OnceInv'
    <3>1. faults' = 0 => faults = 0
      BY <1>1
    <3> QED BY <1>1, <2>2, <2>3, <3>1 DEF Rest, OnceInv, Covers, Sent, Tks, Tickets
  <2> QED BY <1>2, <2>4, <2>5, <2>6, <2>7, <2>8, <2>9 DEF Rest
<1>4. CASE RefreshStore
  <2>1. /\ DOMAIN cache' = {"warm", "snap", "busy", "read", "current", "readNow"}
        /\ cache'.snap = cache.read /\ DOMAIN cache'.read = {} /\ cache'.busy = FALSE
        /\ cache'.current = cache.readNow /\ cache'.readNow = FALSE
        /\ pc = "bar" /\ cache.busy /\ faults' = faults
    BY <1>4 DEF RefreshStore
  <2>2. SitterOK' /\ CacheOK'
    BY <1>1, <2>1 DEF Rest, SitterOK, CacheOK, IsSnapshot
  <2>3. PriceInv' /\ TicketInv'
    BY <1>1, <2>1 DEF Rest, PriceInv, Priced, TicketInv, Orders
  <2>4. pc \notin BeforeSit
    BY <2>1 DEF BeforeSit
  <2>5. StopInv'
    BY <1>1, <2>1, <2>4 DEF Rest, StopInv, Agrees, BetterStop, Tks
  <2>6. OnceInv'
    BY <1>1, <2>1, <2>4 DEF Rest, OnceInv, Covers, Sent, Tks, Tickets
  <2> QED BY <1>2, <2>2, <2>3, <2>5, <2>6 DEF Rest
<1>5. CASE RefreshFailed
  <2>1. /\ DOMAIN cache' = {"warm", "snap", "busy", "read", "current", "readNow"}
        /\ cache'.snap = cache.snap /\ DOMAIN cache'.read = {} /\ cache'.busy = FALSE
        /\ cache'.current = cache.current /\ cache'.readNow = FALSE /\ cache'.warm = cache.warm
    BY <1>5 DEF RefreshFailed, Rest, CacheOK
  <2>2. SitterOK' /\ CacheOK'
    BY <1>1, <2>1 DEF Rest, SitterOK, CacheOK, IsSnapshot
  <2>3. PriceInv' /\ TicketInv'
    BY <1>1, <2>1 DEF Rest, PriceInv, Priced, TicketInv, Orders
  <2>4. StopInv'
    BY <1>1, <2>1 DEF Rest, StopInv, Agrees, BetterStop, Tks
  <2>5. OnceInv'
    BY <1>5, <1>1 DEF OnceInv, RefreshFailed, Fault
  <2> QED BY <1>2, <2>2, <2>3, <2>4, <2>5 DEF Rest
<1> QED BY <1>3, <1>4, <1>5

-----------------------------------------------------------------------------
(* Babysitter.on_bar, on any snapshot.                                      *)

(* What the sitter knows of a position it manages or meets.                 *)
LEMMA StateIs ==
  ASSUME \A t \in DOMAIN trades : trades[t] \in [d : Nat, done : BOOLEAN],
         NEW t, NEW p \in OpenPosition
  PROVE  TradeState(trades, t, p) \in [d : Nat, done : BOOLEAN]
<1>1. InitialDistance(p) \in Nat
  BY Constants DEF InitialDistance, AbsDiff, OpenPosition
<1> QED BY <1>1 DEF TradeState

(* A stop the sitter sends is a price, and tighter than the snapshot's.     *)
LEMMA ChaseIs ==
  ASSUME NEW st \in [d : Nat, done : BOOLEAN], NEW p \in OpenPosition, NEW c \in Closes,
         p.open > 0, p.sl > 0, Tighter(p, Target(st, p, c))
  PROVE  /\ Target(st, p, c) \in Nat /\ Target(st, p, c) > 0
         /\ BetterStop(p, Target(st, p, c))
<1>1. /\ p.open \in Int /\ p.sl \in Int /\ p.dir \in {"LONG", "SHORT"} /\ st.d \in Nat
      /\ c \in Nat /\ c > 0
  <2>1. c \in Nat /\ c > 2 * Dist /\ Dist \in Nat
    BY Constants
  <2>2. c > 0
    BY <2>1
  <2>3. p.dir \in Dirs /\ p.open \in Int /\ p.sl \in Int
    BY DEF OpenPosition
  <2>4. p.dir \in {"LONG", "SHORT"}
    BY <2>3, Constants
  <2>5. st.d \in Nat
    OBVIOUS
  <2> QED BY <2>1, <2>2, <2>3, <2>4, <2>5
<1>2. Target(st, p, c) \in {c - st.d, c + st.d, p.open}
  BY <1>1 DEF Target, MaxOf, MinOf
<1>3. p.dir = "SHORT" => Target(st, p, c) \in {c + st.d, p.open}
  BY <1>1 DEF Target, MinOf
<1>4. IF p.dir = "LONG" THEN Target(st, p, c) > p.sl ELSE Target(st, p, c) < p.sl
  BY <1>1 DEF Tighter
<1>5. Target(st, p, c) \in Int
  BY <1>1, <1>2
<1>6. Target(st, p, c) > 0
  <2>1. CASE p.dir = "LONG"
    BY <1>1, <1>4, <1>5, <2>1
  <2>2. CASE p.dir = "SHORT"
    BY <1>1, <1>3, <2>2
  <2> QED BY <1>1, <2>1, <2>2
<1> QED BY <1>4, <1>5, <1>6 DEF BetterStop

(* on_bar remembers what it was shown and acts on it only.                  *)
LEMMA OnBarIs ==
  ASSUME LoopOK, SitterOK, NEW f, IsSnapshot(f), Priced(f)
  PROVE  /\ DOMAIN Remember(trades, f, close) = DOMAIN f
         /\ \A t \in DOMAIN f : Remember(trades, f, close)[t] \in [d : Nat, done : BOOLEAN]
         /\ DOMAIN Actions(trades, f, close) \subseteq (DOMAIN f) \X {1, 2}
         /\ \A a \in DOMAIN Actions(trades, f, close) :
              /\ Actions(trades, f, close)[a] \in Nat
              /\ a[2] = 2 => /\ Actions(trades, f, close)[a] > 0
                             /\ BetterStop(f[a[1]], Actions(trades, f, close)[a])
<1> DEFINE st(t) == TradeState(trades, t, f[t])
           A == Actions(trades, f, close)
<1>1. \A t \in DOMAIN f : /\ f[t] \in OpenPosition /\ st(t) \in [d : Nat, done : BOOLEAN]
                          /\ f[t].open > 0 /\ f[t].sl > 0
  BY StateIs DEF SitterOK, IsSnapshot, Priced
<1>2. close \in Closes
  BY DEF LoopOK
<1>3. /\ DOMAIN Remember(trades, f, close) = DOMAIN f
      /\ \A t \in DOMAIN f : Remember(trades, f, close)[t]
                               = [st(t) EXCEPT !.done = @ \/ PartialDue(st(t), f[t], close)]
  BY DEF Remember
<1>4. \A t \in DOMAIN f : Remember(trades, f, close)[t] \in [d : Nat, done : BOOLEAN]
  <2>1. ASSUME NEW t \in DOMAIN f
        PROVE  Remember(trades, f, close)[t] \in [d : Nat, done : BOOLEAN]
    <3>1. (st(t).done \/ PartialDue(st(t), f[t], close)) \in BOOLEAN
      OBVIOUS
    <3> HIDE DEF st
    <3>2. st(t) \in [d : Nat, done : BOOLEAN]
      BY <1>1
    <3>3. \A b \in BOOLEAN : [st(t) EXCEPT !.done = b] \in [d : Nat, done : BOOLEAN]
      BY <3>2, Zenon
    <3> QED BY <1>3, <3>1, <3>3, Zenon
  <2> QED BY <2>1
<1>5. /\ DOMAIN A = Partials(trades, f, close) \X {1} \cup StopMoves(trades, f, close) \X {2}
      /\ \A a \in DOMAIN A : A[a] = IF a[2] = 1 THEN PartialTenths * f[a[1]].vol
                                    ELSE Chase(trades, f, close, a[1])
  BY DEF Actions
<1>6. /\ Partials(trades, f, close) \subseteq DOMAIN f
      /\ StopMoves(trades, f, close) \subseteq DOMAIN f
      /\ \A t \in StopMoves(trades, f, close) : Tighter(f[t], Chase(trades, f, close, t))
  BY DEF Partials, StopMoves
<1>7. ASSUME NEW a \in DOMAIN A
      PROVE  A[a] \in Nat /\ (a[2] = 2 => A[a] > 0 /\ BetterStop(f[a[1]], A[a]))
  <2>1. CASE a \in Partials(trades, f, close) \X {1}
    <3>1. a[1] \in DOMAIN f /\ a[2] = 1
      BY <1>6, <2>1
    <3>2. f[a[1]].vol \in Nat /\ PartialTenths \in Nat
      BY <1>1, <3>1, Constants DEF OpenPosition
    <3> QED BY <1>5, <3>1, <3>2
  <2>2. CASE a \in StopMoves(trades, f, close) \X {2}
    <3>1. a[1] \in DOMAIN f /\ a[2] = 2 /\ Tighter(f[a[1]], Chase(trades, f, close, a[1]))
      BY <1>6, <2>2
    <3>2. A[a] = Target(st(a[1]), f[a[1]], close)
      BY <1>5, <3>1 DEF Chase
    <3>3. Tighter(f[a[1]], Target(st(a[1]), f[a[1]], close))
      BY <3>1 DEF Chase
    <3> QED BY <1>1, <1>2, <3>1, <3>2, <3>3, ChaseIs
  <2> QED BY <1>5, <1>7, <2>1, <2>2
<1>8. DOMAIN A \subseteq (DOMAIN f) \X {1, 2}
  BY <1>5, <1>6
<1> QED BY <1>3, <1>4, <1>7, <1>8

(* A partial close is asked for exactly when it is marked done.             *)
LEMMA PartialMarked ==
  ASSUME NEW f, NEW t \in DOMAIN f, NEW st, st = TradeState(trades, t, f[t]),
         st \in [d : Nat, done : BOOLEAN]
  PROVE  /\ <<t, 1>> \in DOMAIN Actions(trades, f, close) =>
              ~st.done /\ Remember(trades, f, close)[t].done
         /\ st.done => Remember(trades, f, close)[t].done
<1>1. Remember(trades, f, close)[t]
        = [st EXCEPT !.done = st.done \/ PartialDue(st, f[t], close)]
  BY DEF Remember
<1>2. Remember(trades, f, close)[t].done = (st.done \/ PartialDue(st, f[t], close))
  BY <1>1
<1>3. <<t, 1>> \in DOMAIN Actions(trades, f, close) => PartialDue(st, f[t], close)
  BY DEF Actions, Partials
<1> QED BY <1>2, <1>3 DEF PartialDue

(* The sitter runs, on the snapshot or on a direct read.                    *)
LEMMA SitKeeps ==
  ASSUME LoopOK, Rest, Sit
  PROVE  Rest'
<1>1. PICK seen \in SUBSET Tks :
        /\ IF cache.warm THEN seen = {} /\ NoFault ELSE Listed(seen, Tks)
        /\ LET snap == IF cache.warm THEN cache.snap ELSE [t \in seen |-> book[t]] IN
           /\ acts' = Actions(trades, snap, close)
           /\ trades' = Remember(trades, snap, close)
  BY DEF Sit
<1> DEFINE f == IF cache.warm THEN cache.snap ELSE [t \in seen |-> book[t]]
<1>2. /\ acts' = Actions(trades, f, close) /\ trades' = Remember(trades, f, close)
      /\ pend' = pend /\ book' = book /\ cache' = cache /\ partials' = partials
      /\ pc = "sit" /\ pc' = "act"
  BY <1>1 DEF Sit, server
<1>3. /\ faults \in Nat /\ faults' >= faults
      /\ ~cache.warm /\ faults' = 0 => seen = Tks
  <2>1. NoFault \/ Fault
    BY <1>1, ListedIs
  <2> QED BY <1>1, <2>1, ListedIs, FaultsGrow, Constants DEF LoopOK
<1>4. IsSnapshot(f) /\ Priced(f) /\ DOMAIN f \cap Orders = {}
  <2>1. CASE cache.warm
    BY <2>1 DEF Rest, SitterOK, PriceInv, TicketInv
  <2>2. CASE ~cache.warm
    <3>1. DOMAIN f = seen /\ \A t \in seen : f[t] = book[t]
      BY <2>2
    <3> QED BY <3>1 DEF Rest, ServerOK, IsSnapshot, Priced, PriceInv, Tks
  <2> QED BY <2>1, <2>2
<1>5. Timely => Agrees(f)
  <2>1. CASE cache.warm
    BY <1>2, <2>1 DEF Rest, StopInv, BeforeSit, Labels
  <2>2. CASE ~cache.warm
    BY <2>2 DEF Agrees
  <2> QED BY <2>1, <2>2
<1>6. Timely /\ faults' = 0 => faults = 0 /\ Covers(f)
  <2>1. CASE cache.warm
    BY <1>2, <1>3, <2>1 DEF Rest, OnceInv, BeforeSit, Labels
  <2>2. CASE ~cache.warm
    BY <1>3, <2>2 DEF Covers
  <2> QED BY <2>1, <2>2
<1>7. SitterOK
  BY DEF Rest
<1> HIDE DEF f
<1>8. /\ DOMAIN trades' = DOMAIN f
      /\ \A t \in DOMAIN f : trades'[t] \in [d : Nat, done : BOOLEAN]
      /\ DOMAIN acts' \subseteq (DOMAIN f) \X {1, 2}
      /\ \A a \in DOMAIN acts' :
           acts'[a] \in Nat /\ (a[2] = 2 => acts'[a] > 0 /\ BetterStop(f[a[1]], acts'[a]))
  BY <1>2, <1>4, <1>7, OnBarIs
<1>9. ServerOK' /\ SitterOK'
  BY <1>2, <1>4, <1>8 DEF Rest, ServerOK, SitterOK, IsSnapshot, Orders, Tks
<1>10. CacheOK' /\ ActsOK'
  BY <1>2 DEF Rest, CacheOK, ActsOK
<1>11. PriceInv' /\ TicketInv'
  BY <1>2, <1>4, <1>8 DEF Rest, PriceInv, Priced, TicketInv, Orders
<1>12. StopInv'
  <2>1. SUFFICES ASSUME Timely, NEW t \in Tks, <<t, 2>> \in DOMAIN acts'
                 PROVE  BetterStop(book[t], acts'[<<t, 2>>])
    BY <1>2 DEF StopInv, BetterStop, Tks, BeforeSit
  <2>2. t \in DOMAIN f /\ BetterStop(f[t], acts'[<<t, 2>>])
    BY <1>8, <2>1
  <2>3. f[t].dir = book[t].dir /\ f[t].sl = book[t].sl
    BY <1>5, <2>1, <2>2 DEF Agrees
  <2> QED BY <2>2, <2>3 DEF BetterStop
<1>13. OnceInv'
  <2>1. SUFFICES ASSUME Timely, faults' = 0, NEW t \in Tks
                 PROVE  Sent(t)' <= IF t \in DOMAIN trades' /\ trades'[t].done THEN 1 ELSE 0
    <3>1. Timely /\ faults' = 0 => \A t \in Tickets : partials[t] <= 1
      BY <1>6 DEF Rest, OnceInv
    <3> QED BY <1>2, <3>1 DEF OnceInv, Tks, BeforeSit, Tickets
  <2>2. /\ Sent(t) <= IF t \in DOMAIN trades /\ trades[t].done THEN 1 ELSE 0
        /\ acts = << >>
    BY <1>2, <1>6, <2>1 DEF Rest, OnceInv, ActsOK
  <2>3. t \in Tickets /\ partials[t] \in Nat /\ Sent(t) = partials[t]
    BY <2>2, <2>1 DEF Rest, ServerOK, IsSnapshot, Tks, Sent
  <2>4. CASE t \notin DOMAIN f
    <3>1. t \notin DOMAIN trades
      BY <1>6, <2>1, <2>4 DEF Covers
    <3>2. <<t, 1>> \notin DOMAIN acts'
      BY <1>8, <2>4
    <3> QED BY <1>2, <1>8, <2>2, <2>3, <2>4, <3>1, <3>2 DEF Sent
  <2>5. CASE t \in DOMAIN f
    <3> DEFINE st == TradeState(trades, t, f[t])
    <3>1. st \in [d : Nat, done : BOOLEAN]
      BY <1>4, <2>5, StateIs DEF Rest, SitterOK, IsSnapshot
    <3>2. /\ <<t, 1>> \in DOMAIN acts' => ~st.done /\ trades'[t].done
          /\ st.done => trades'[t].done
      BY <1>2, <2>5, <3>1, PartialMarked
    <3>3. partials[t] <= IF st.done THEN 1 ELSE 0
      BY <2>2, <2>3 DEF TradeState
    <3> HIDE DEF st
    <3> QED BY <1>2, <1>8, <2>3, <2>5, <3>1, <3>2, <3>3 DEF Sent
  <2> QED BY <2>4, <2>5
<1> QED BY <1>9, <1>10, <1>11, <1>12, <1>13 DEF Rest

-----------------------------------------------------------------------------
(* close_ticket and modify_sl.                                              *)

(* close_ticket closes no more than there is.                               *)
LEMMA VolumeIs ==
  ASSUME NEW t, NEW tenths \in Nat, book[t].vol \in Nat
  PROVE  Volume(t, tenths) \in Nat /\ Volume(t, tenths) <= book[t].vol
<1>1. MinOf(tenths, 10 * book[t].vol) \in Nat /\ MinOf(tenths, 10 * book[t].vol) <= 10 * book[t].vol
  BY DEF MinOf
<1> DEFINE m == MinOf(tenths, 10 * book[t].vol)
<1> HIDE DEF m
<1>2. m \in Nat /\ m <= 10 * book[t].vol
  BY <1>1 DEF m
<1>3. (m + 5) \div 10 \in Nat /\ (m + 5) \div 10 <= book[t].vol
  BY <1>2
<1> QED BY <1>3 DEF Volume, m

(* What one action does to the account and to the list.                     *)
StopSet(t) == book' = [book EXCEPT ![t].sl = acts[<<t, 2>>]] /\ partials' = partials
PartClosed(t) ==
  /\ partials' = [partials EXCEPT ![t] = @ + 1]
  /\ \/ book' = Drop(book, {t})
     \/ \E v \in 1 .. book[t].vol - 1 : book' = [book EXCEPT ![t].vol = @ - v]
Left(a) == /\ DOMAIN acts' \subseteq DOMAIN acts \ {a}
           /\ \A b \in DOMAIN acts' : acts'[b] = acts[b]

(* A request of the sitter sets one stop, closes part of one position, or   *)
(* does nothing; it is off the list either way.                             *)
LEMMA ActIs ==
  ASSUME LoopOK, ServerOK, SitterOK, ActNext
  PROVE  \E t \in Tickets, k \in {1, 2} :
           /\ <<t, k>> \in DOMAIN acts /\ Left(<<t, k>>)
           /\ \/ UNCHANGED <<book, partials>>
              \/ k = 2 /\ t \in Tks /\ StopSet(t)
              \/ k = 1 /\ t \in Tks /\ PartClosed(t)
<1>1. PICK a \in DOMAIN acts :
        /\ acts' \in {Drop(acts, {a}), << >>}
        /\ UNCHANGED <<book, partials>> \/ (a[1] \in Tks /\ ApplyAct(a[1], a[2]))
  BY DEF ActNext
<1>2. PICK t \in DOMAIN trades, k \in {1, 2} : a = <<t, k>>
  BY <1>1 DEF SitterOK
<1>3. t \in Tickets /\ acts[<<t, k>>] \in Nat /\ a[1] = t /\ a[2] = k
  BY <1>1, <1>2 DEF SitterOK
<1>4. Left(<<t, k>>)
  BY <1>1, <1>2 DEF Left, Drop
<1>5. ASSUME t \in Tks, ApplyAct(t, k)
      PROVE  \/ UNCHANGED <<book, partials>> \/ (k = 2 /\ StopSet(t)) \/ (k = 1 /\ PartClosed(t))
  <2>1. CASE k = 2
    BY <1>5, <2>1 DEF ApplyAct, StopSet
  <2>2. CASE k = 1
    <3> DEFINE v == Volume(t, acts[<<t, k>>])
    <3>1. book[t].vol \in Nat
      BY <1>5 DEF ServerOK, IsSnapshot, OpenPosition, Tks
    <3>2. v \in Nat /\ v <= book[t].vol
      BY <1>3, <3>1, VolumeIs
    <3>3. IF v = 0 THEN UNCHANGED <<book, partials>>
          ELSE /\ partials' = [partials EXCEPT ![t] = @ + 1]
               /\ book' = IF v = book[t].vol THEN Drop(book, {t})
                          ELSE [book EXCEPT ![t].vol = @ - v]
      BY <1>5, <2>2 DEF ApplyAct
    <3> HIDE DEF v
    <3>4. v # 0 /\ v # book[t].vol => v \in 1 .. book[t].vol - 1
      BY <3>1, <3>2
    <3> QED BY <2>2, <3>3, <3>4 DEF PartClosed
  <2> QED BY <2>1, <2>2
<1>6. UNCHANGED <<book, partials>> \/ (t \in Tks /\ ApplyAct(t, k))
  BY <1>1, <1>3
<1> QED BY <1>1, <1>2, <1>3, <1>4, <1>5, <1>6

(* One action of the sitter is carried out, passed over or fails.           *)
LEMMA ActKeeps ==
  ASSUME LoopOK, Rest, ActNext
  PROVE  Rest'
<1>1. /\ pc = "act" /\ pc' = "act" /\ pend' = pend /\ trades' = trades /\ cache' = cache
      /\ faults \in Nat /\ faults' >= faults
  <2>1. NoFault \/ Fault
    BY DEF ActNext
  <2> QED BY <2>1, FaultsGrow, Constants DEF ActNext, LoopOK
<1>2. ServerOK /\ SitterOK
  BY DEF Rest
<1>3. PICK t \in Tickets, k \in {1, 2} :
           /\ <<t, k>> \in DOMAIN acts /\ Left(<<t, k>>)
           /\ \/ UNCHANGED <<book, partials>>
              \/ k = 2 /\ t \in Tks /\ StopSet(t)
              \/ k = 1 /\ t \in Tks /\ PartClosed(t)
  BY <1>2, ActIs
<1>4. t \in Tks => book[t] \in OpenPosition
  BY <1>2 DEF ServerOK, IsSnapshot, Tks
<1>5. k = 2 => acts[<<t, k>>] \in Nat /\ acts[<<t, k>>] > 0
  BY <1>3 DEF Rest, SitterOK, PriceInv
<1>6. /\ Tks' \subseteq Tks
      /\ \A u \in Tks' : /\ book'[u] \in OpenPosition
                         /\ book'[u].open = book[u].open /\ book'[u].dir = book[u].dir
                         /\ book'[u].sl = book[u].sl \/ (u = t /\ k = 2 /\ book'[u].sl = acts[<<t, 2>>])
  <2>1. CASE UNCHANGED <<book, partials>>
    BY <1>2, <2>1 DEF ServerOK, IsSnapshot, Tks
  <2>2. CASE k = 2 /\ t \in Tks /\ StopSet(t)
    <3>1. Tks' = Tks /\ \A u \in Tks : u # t => book'[u] = book[u]
      BY <2>2 DEF StopSet, Tks
    <3>2. book'[t] = [book[t] EXCEPT !.sl = acts[<<t, 2>>]]
      BY <2>2 DEF StopSet, Tks
    <3>3. /\ book'[t] \in OpenPosition /\ book'[t].sl = acts[<<t, 2>>]
          /\ book'[t].open = book[t].open /\ book'[t].dir = book[t].dir
      BY <1>4, <1>5, <2>2, <3>2 DEF OpenPosition
    <3> QED BY <1>2, <2>2, <3>1, <3>3 DEF ServerOK, IsSnapshot, Tks
  <2>3. CASE k = 1 /\ t \in Tks /\ PartClosed(t)
    <3>1. CASE book' = Drop(book, {t})
      <4>1. Tks' \subseteq Tks /\ \A u \in Tks' : book'[u] = book[u]
        BY <3>1 DEF Drop, Tks
      <4> QED BY <1>2, <4>1 DEF ServerOK, IsSnapshot, Tks
    <3>2. CASE \E v \in 1 .. book[t].vol - 1 : book' = [book EXCEPT ![t].vol = @ - v]
      <4>1. PICK v \in 1 .. book[t].vol - 1 : book' = [book EXCEPT ![t].vol = @ - v]
        BY <3>2
      <4>2. Tks' = Tks /\ \A u \in Tks : u # t => book'[u] = book[u]
        BY <4>1 DEF Tks
      <4>3. book'[t] = [book[t] EXCEPT !.vol = @ - v]
        BY <2>3, <4>1 DEF Tks
      <4>4. book[t].vol - v \in 1 .. Lots
        BY <1>4, <2>3, <4>1, Constants DEF OpenPosition
      <4>5. /\ book'[t] \in OpenPosition /\ book'[t].sl = book[t].sl
            /\ book'[t].open = book[t].open /\ book'[t].dir = book[t].dir
        BY <1>4, <2>3, <4>3, <4>4 DEF OpenPosition
      <4> QED BY <1>2, <2>3, <4>2, <4>5 DEF ServerOK, IsSnapshot, Tks
    <3> QED BY <2>3, <3>1, <3>2 DEF PartClosed
  <2> QED BY <1>3, <2>1, <2>2, <2>3
<1>7. /\ partials' \in [Tickets -> Nat]
      /\ \A u \in Tickets : partials'[u] = partials[u] \/ (u = t /\ k = 1 /\ t \in Tks /\ partials'[u] = partials[u] + 1)
  <2>1. partials \in [Tickets -> Nat]
    BY <1>2 DEF ServerOK
  <2>2. CASE partials' = partials
    BY <2>1, <2>2
  <2>3. CASE k = 1 /\ t \in Tks /\ partials' = [partials EXCEPT ![t] = @ + 1]
    BY <2>1, <2>3
  <2> QED BY <1>3, <2>2, <2>3 DEF StopSet, PartClosed
<1>8. /\ DOMAIN acts' \subseteq DOMAIN acts \ {<<t, k>>}
      /\ \A b \in DOMAIN acts' : acts'[b] = acts[b]
  BY <1>3 DEF Left
<1>9. ServerOK' /\ SitterOK'
  <2>1. IsSnapshot(book)'
    BY <1>2, <1>6 DEF ServerOK, IsSnapshot, Tks
  <2> QED BY <1>1, <1>2, <1>6, <1>7, <1>8, <2>1 DEF ServerOK, SitterOK, IsSnapshot, Orders
<1>10. CacheOK' /\ ActsOK'
  BY <1>1 DEF Rest, CacheOK, ActsOK
<1>11. PriceInv' /\ TicketInv'
  <2>1. Priced(book)'
    BY <1>5, <1>6 DEF Rest, PriceInv, Priced, Tks
  <2> QED BY <1>1, <1>8, <2>1 DEF Rest, PriceInv, Priced, TicketInv, Orders
<1>12. StopInv'
  <2>1. SUFFICES ASSUME Timely, NEW u \in Tks', <<u, 2>> \in DOMAIN acts'
                 PROVE  BetterStop(book[u], acts[<<u, 2>>]) /\ book'[u].sl = book[u].sl
    BY <1>1, <1>6, <1>8 DEF StopInv, BetterStop, BeforeSit
  <2>2. ~(u = t /\ k = 2)
    BY <1>8, <2>1
  <2>3. u \in Tks /\ <<u, 2>> \in DOMAIN acts
    BY <1>6, <1>8, <2>1
  <2> QED BY <1>6, <2>1, <2>2, <2>3 DEF Rest, StopInv
<1>13. OnceInv'
  <2>1. SUFFICES ASSUME Timely, faults' = 0
                 PROVE  /\ \A u \in Tickets : partials'[u] <= 1
                        /\ \A u \in Tks' : Sent(u)' <= IF u \in DOMAIN trades /\ trades[u].done THEN 1 ELSE 0
    BY <1>1 DEF OnceInv, BeforeSit
  <2>2. /\ \A u \in Tickets : partials[u] <= 1 /\ partials[u] \in Nat
        /\ \A u \in Tks : Sent(u) <= IF u \in DOMAIN trades /\ trades[u].done THEN 1 ELSE 0
    BY <1>1, <1>2, <2>1 DEF Rest, OnceInv, ServerOK
  <2>3. ASSUME NEW u \in Tickets
        PROVE  Sent(u)' <= Sent(u) /\ Sent(u) \in Nat
    <3>1. <<u, 1>> \in DOMAIN acts' => <<u, 1>> \in DOMAIN acts /\ <<u, 1>> # <<t, k>>
      BY <1>8
    <3>2. partials'[u] = partials[u] + 1 => <<u, 1>> = <<t, k>> \/ partials'[u] = partials[u]
      BY <1>7
    <3>3. partials'[u] = partials[u] \/ (<<u, 1>> = <<t, k>> /\ partials'[u] = partials[u] + 1)
      BY <1>7
    <3>4. partials[u] \in Nat /\ <<t, k>> \in DOMAIN acts
      BY <1>3, <2>2
    <3> QED BY <3>1, <3>3, <3>4 DEF Sent
  <2>4. ASSUME NEW u \in Tickets
        PROVE  partials'[u] <= 1
    <3>1. CASE partials'[u] = partials[u]
      BY <2>2, <3>1
    <3>2. CASE u = t /\ k = 1 /\ t \in Tks /\ partials'[u] = partials[u] + 1
      <4>1. Sent(u) = partials[u] + 1 /\ Sent(u) <= 1
        BY <1>3, <2>2, <3>2 DEF Sent
      <4> QED BY <2>2, <3>2, <4>1
    <3> QED BY <1>7, <3>1, <3>2
  <2>5. ASSUME NEW u \in Tks'
        PROVE  Sent(u)' <= IF u \in DOMAIN trades /\ trades[u].done THEN 1 ELSE 0
    <3>1. u \in Tks /\ u \in Tickets
      BY <1>2, <1>6, <2>5 DEF ServerOK, IsSnapshot, Tks
    <3>2. Sent(u)' \in Int
      BY <1>7, <3>1 DEF Sent
    <3> QED BY <2>2, <2>3, <3>1, <3>2
  <2> QED BY <2>4, <2>5
<1> QED BY <1>9, <1>10, <1>11, <1>12, <1>13 DEF Rest

-----------------------------------------------------------------------------
(* The program keeps the inductive invariant.                               *)
THEOREM Invariance == Spec => []Inv
<1>1. Init => Inv
  <2> SUFFICES ASSUME Init PROVE Inv
    OBVIOUS
  <2>1. /\ held = "none" /\ close \in Closes /\ pc = "bar" /\ job = NoJob /\ acts = << >>
        /\ halted = FALSE /\ faults = 0 /\ partials = [t \in Tickets |-> 0]
        /\ Orders = {} /\ Tks = {} /\ DOMAIN trades = {} /\ DOMAIN acts = {} /\ DOMAIN book = {}
    BY DEF Init, Orders, Tks
  <2>2. /\ DOMAIN cache = {"warm", "snap", "busy", "read", "current", "readNow"}
        /\ DOMAIN cache.snap = {} /\ DOMAIN cache.read = {} /\ ~cache.current /\ ~cache.readNow
    BY DEF Init
  <2>3. LoopOK
    <3>1. halted \in BOOLEAN
      BY <2>1
    <3>2. held \in Dirs \cup {"none"} /\ close \in Closes /\ pc \in Labels
      BY <2>1 DEF Labels
    <3>3. job \in [todo : SUBSET Tickets, after : Labels]
      BY <2>1 DEF NoJob, Labels
    <3>4. faults \in 0 .. MaxFaults
      BY <2>1, Constants
    <3> QED BY <3>1, <3>2, <3>3, <3>4 DEF LoopOK
  <2>4. ServerOK /\ SitterOK
    BY <2>1, <2>2 DEF ServerOK, SitterOK, IsSnapshot
  <2>5. ControlInv /\ PriceInv /\ TicketInv
    BY <2>1, <2>2 DEF ControlInv, CacheOK, JobOK, ActsOK, EntryOK, PriceInv, Priced, TicketInv
  <2>6. StopInv /\ OnceInv
    BY <2>1, <2>2 DEF StopInv, OnceInv, BeforeSit
  <2> QED BY <2>3, <2>4, <2>5, <2>6 DEF Inv, TypeOK
<1>2. Inv /\ [Next]_vars => Inv'
  <2> SUFFICES ASSUME Inv, [Next]_vars PROVE Inv'
    OBVIOUS
  <2>1. LoopOK /\ JobOK /\ ActsOK /\ EntryOK /\ Rest /\ ServerOK
    BY DEF Inv, TypeOK, ControlInv, Rest
  <2>2. LoopOK' /\ JobOK' /\ EntryOK'
    BY <2>1, LoopStepOK, EntryStep
  <2>3. Rest'
    <3>1. CASE NextBar
      BY <2>1, <3>1, BarKeeps DEF NextBar
    <3>2. CASE PlaceEntry \/ PlaceAddon
      BY <2>1, <3>2, PlaceKeeps
    <3>3. CASE Sit
      BY <2>1, <3>3, SitKeeps
    <3>4. CASE ActNext
      BY <2>1, <3>4, ActKeeps
    <3>5. CASE Fill
      BY <2>1, <3>5, FillKeeps
    <3>6. CASE RefreshRead \/ RefreshStore \/ RefreshFailed
      BY <2>1, <3>6, RefreshKeeps
    <3>7. CASE SkipEntry \/ SpikeCancel \/ BreakerQuiet \/ BreakerTrips \/ PullLimits \/ CancelExpired
      BY <2>1, <3>7, EarlyShrinks, ShrinksKeeps
    <3>8. CASE CloseNext \/ CancelNext
      BY <2>1, <3>8, LoopShrinks, ShrinksKeeps
    <3>9. CASE ActEnd \/ HasPosition \/ HasPending \/ ServerClose \/ UNCHANGED vars
      BY <2>1, <3>9, LateShrinks, ShrinksKeeps
    <3> QED
      BY <3>1, <3>2, <3>3, <3>4, <3>5, <3>6, <3>7, <3>8, <3>9
      DEF Next, LoopStep, OnSignal, OnBar
  <2> QED BY <2>2, <2>3 DEF Inv, TypeOK, ControlInv, Rest
<1> QED BY <1>1, <1>2, PTL DEF Spec

(* babysitter.py: part of a position is closed once, although the sitter    *)
(* marks it on a snapshot, before the call; a ticket is an order or a       *)
(* position and the sitter remembers nothing that was never listed.         *)
THEOREM ClosedInPartOnce == Spec => []PartialOnce
<1>1. Inv => PartialOnce
  BY DEF Inv, OnceInv, PartialOnce
<1> QED BY <1>1, Invariance, PTL

(* babysitter.py: the chasing stop only tightens, whichever calls fail.     *)
THEOREM StopsChase == Spec => OnlyTightens
<1> DEFINE Tightens ==
             Timely => \A t \in Tks \cap DOMAIN book' :
               IF book[t].dir = "LONG" THEN book'[t].sl >= book[t].sl
                                       ELSE book'[t].sl <= book[t].sl
<1>1. Inv /\ [Next]_vars => [Tightens]_vars
  <2> SUFFICES ASSUME Inv, [Next]_vars, Timely, NEW t \in Tks, t \in DOMAIN book'
               PROVE  IF book[t].dir = "LONG" THEN book'[t].sl >= book[t].sl
                                              ELSE book'[t].sl <= book[t].sl
    OBVIOUS
  <2>1. LoopOK /\ JobOK /\ ActsOK /\ ServerOK /\ SitterOK /\ TicketInv /\ StopInv
    BY DEF Inv, TypeOK, ControlInv
  <2>2. book[t].sl \in Int
    BY <2>1 DEF ServerOK, IsSnapshot, OpenPosition, Tks
  <2>3. book'[t].sl = book[t].sl \/ (BetterStop(book[t], book'[t].sl) /\ book'[t].sl \in Int)
    <3>1. CASE NextBar \/ PlaceEntry \/ PlaceAddon \/ Sit \/ RefreshRead \/ RefreshStore \/ RefreshFailed
      BY <3>1 DEF NextBar, Bar, PlaceEntry, PlaceAddon, Place, Sit, RefreshRead, RefreshStore,
                  RefreshFailed, server
    <3>2. CASE Fill
      <4>1. PICK u \in Orders : \E p : book' = Put(book, u, p)
        BY <3>2 DEF Fill
      <4>2. u # t
        BY <2>1, <4>1 DEF ServerOK
      <4> QED BY <4>1, <4>2 DEF Put, Tks
    <3>3. CASE ActNext
      <4>1. PICK u \in Tickets, k \in {1, 2} :
             /\ <<u, k>> \in DOMAIN acts /\ Left(<<u, k>>)
             /\ \/ UNCHANGED <<book, partials>>
                \/ k = 2 /\ u \in Tks /\ StopSet(u)
                \/ k = 1 /\ u \in Tks /\ PartClosed(u)
        BY <2>1, <3>3, ActIs
      <4>2. CASE UNCHANGED <<book, partials>>
        BY <4>2
      <4>3. CASE k = 2 /\ u \in Tks /\ StopSet(u)
        <5>1. CASE t = u
          <6>1. book'[t].sl = acts[<<t, 2>>] /\ <<t, 2>> \in DOMAIN acts /\ acts[<<t, 2>>] \in Int
            BY <2>1, <4>1, <4>3, <5>1 DEF StopSet, Tks, ServerOK, IsSnapshot, OpenPosition, SitterOK
          <6> QED BY <2>1, <6>1 DEF StopInv
        <5>2. CASE t # u
          BY <4>3, <5>2 DEF StopSet, Tks
        <5> QED BY <5>1, <5>2
      <4>4. CASE k = 1 /\ u \in Tks /\ PartClosed(u)
        <5>1. book[u] \in OpenPosition
          BY <2>1, <4>4 DEF ServerOK, IsSnapshot, Tks
        <5>2. CASE book' = Drop(book, {u})
          BY <5>2 DEF Drop, Tks
        <5>3. CASE \E v \in 1 .. book[u].vol - 1 : book' = [book EXCEPT ![u].vol = @ - v]
          BY <5>1, <5>3 DEF Tks, OpenPosition
        <5> QED BY <4>4, <5>2, <5>3 DEF PartClosed
      <4> QED BY <4>1, <4>2, <4>3, <4>4
    <3>4. CASE Shrinks
      BY <3>4 DEF Shrinks
    <3> QED
      BY <2>1, <3>1, <3>2, <3>3, <3>4, EarlyShrinks, LoopShrinks, LateShrinks
      DEF Next, LoopStep, OnSignal, OnBar
  <2> QED BY <2>2, <2>3 DEF BetterStop
<1> QED BY <1>1, Invariance, PTL DEF Spec, OnlyTightens

-----------------------------------------------------------------------------
(***************************************************************************)
(* One order call, for every retry budget and every volume ladder.         *)
(*                                                                         *)
(* The truth of the result needs to know, at every point of the call, how  *)
(* what the server did relates to the last answer and to the snapshot:     *)
(* that is Tracked.  The send budget needs to know how many sends each     *)
(* rung and each attempt account for: that is Counted.                     *)
(***************************************************************************)

(* The initial state has its types.                                         *)
LEMMA CallTypeInit == CallInit => CallTypeOK
<1> SUFFICES ASSUME CallInit PROVE CallTypeOK
  OBVIOUS
<1>1. before \in [old : Nat, done : Nat]
  BY DEF CallInit, NoSnapshot
<1>2. rc \in Retcodes
  BY DEF CallInit, Retcodes, Ambiguous
<1>3. guard \in BOOLEAN /\ policy \in BOOLEAN /\ rotated \in BOOLEAN /\ misread \in BOOLEAN
  BY Zenon DEF CallInit
<1> QED BY <1>1, <1>2, <1>3, SendAssumption DEF CallInit, CallTypeOK

(* Returning a result keeps the types.                                      *)
LEMMA ReturnType ==
  ASSUME CallTypeOK, NEW r \in {"ok", "recovered", "error"}, Return(r)
  PROVE  /\ step' \in 1 .. LadderLen /\ attempt' \in 0 .. MaxRetries
         /\ rotated' \in BOOLEAN /\ misread' \in BOOLEAN
         /\ stage' = "done" /\ result' = r
BY DEF CallTypeOK, Return

(* Raising keeps the types.                                                 *)
LEMMA RaiseType ==
  ASSUME CallTypeOK, Raise
  PROVE  /\ step' \in 1 .. LadderLen /\ attempt' \in 0 .. MaxRetries
         /\ rotated' \in BOOLEAN /\ misread' \in BOOLEAN
         /\ stage' \in {"snapshot", "done"}
         /\ result' \in {"none", "ok", "recovered", "error"}
<1>1. misread' \in BOOLEAN /\ rotated' \in BOOLEAN
  BY Zenon DEF CallTypeOK, Raise, Return
<1> QED BY <1>1, SendAssumption DEF CallTypeOK, Raise, Return

(* A retry keeps the types.                                                 *)
LEMMA RetryType ==
  ASSUME CallTypeOK, RaiseOrRetry
  PROVE  /\ step' \in 1 .. LadderLen /\ attempt' \in 0 .. MaxRetries
         /\ rotated' \in BOOLEAN /\ misread' \in BOOLEAN
         /\ stage' \in {"snapshot", "send", "done"}
         /\ result' \in {"none", "ok", "recovered", "error"}
<1>1. CASE Permanent
  BY <1>1, RaiseType DEF RaiseOrRetry
<1>2. CASE ~Permanent
  <2>1. attempt < MaxRetries
    BY <1>2, SendAssumption DEF Permanent, CallTypeOK
  <2>2. Retry
    BY <1>2 DEF RaiseOrRetry
  <2> QED BY <2>1, <2>2, SendAssumption DEF Retry, CallTypeOK
<1> QED BY <1>1, <1>2

(* Every step keeps the types.                                              *)
LEMMA CallTypeStep == CallTypeOK /\ [CallNext]_callVars => CallTypeOK'
<1> SUFFICES ASSUME CallTypeOK, [CallNext]_callVars PROVE CallTypeOK'
  OBVIOUS
<1>1. CASE Snapshot
  <2>1. before' \in [old : Nat, done : Nat]
    BY <1>1, SendAssumption DEF Snapshot, CallTypeOK, NoSnapshot
  <2>2. failedReads' \in 0 .. MaxFailedReads
    BY <1>1, SendAssumption DEF Snapshot, CallTypeOK, ReadFails
  <2>3. rotated' \in BOOLEAN /\ guard' \in BOOLEAN /\ policy' \in BOOLEAN
        /\ misread' \in BOOLEAN
    BY <1>1, Zenon DEF Snapshot, CallTypeOK
  <2> QED BY <1>1, <2>1, <2>2, <2>3, SendAssumption DEF Snapshot, CallTypeOK
<1>2. CASE Send
  BY <1>2, SendAssumption DEF Send, CallTypeOK
<1>3. CASE JudgeOnce
  BY <1>3, ReturnType, RaiseType DEF JudgeOnce, Request, CallTypeOK
<1>4. CASE Judge
  <2>1. CASE Return("ok")
    BY <1>4, <2>1, ReturnType DEF Judge, Request, CallTypeOK
  <2>2. CASE stage' = "query" /\ UNCHANGED <<step, attempt, rotated, misread, result>>
    BY <1>4, <2>2 DEF Judge, Request, CallTypeOK
  <2>3. CASE RaiseOrRetry
    BY <1>4, <2>3, RetryType DEF Judge, Request, CallTypeOK
  <2> QED BY <1>4, <2>1, <2>2, <2>3 DEF Judge
<1>5. CASE Query
  <2>1. failedReads' \in 0 .. MaxFailedReads
    BY <1>5, SendAssumption DEF Query, ReadFails, CallTypeOK
  <2>2. Return("recovered") \/ RaiseOrRetry
    BY <1>5 DEF Query
  <2> QED BY <1>5, <2>1, <2>2, ReturnType, RetryType DEF Query, CallTypeOK
<1>6. CASE Arrive
  BY <1>6 DEF Arrive, CallTypeOK
<1>7. CASE Finished \/ UNCHANGED callVars
  BY <1>7 DEF Finished, callVars, CallTypeOK
<1> QED BY <1>1, <1>2, <1>3, <1>4, <1>5, <1>6, <1>7 DEF CallNext, Call

(* Every attribute of a call keeps its type. *)
THEOREM CallTypeCorrect == CallSpec => []CallTypeOK
BY CallTypeInit, CallTypeStep, PTL DEF CallSpec

-----------------------------------------------------------------------------
(* The send budget *)

Rungs(n) == (n - 1) * (MaxRetries + 1)

Counted ==
  /\ stage = "snapshot" => sends <= Rungs(step)
  /\ stage = "send" => sends <= Rungs(step) + attempt
  /\ stage \in {"judge", "query", "done"} => sends <= Rungs(step) + attempt + 1

(* Every rung of the ladder has max_retries + 1 sends.                      *)
LEMMA RungsNext ==
  ASSUME NEW n \in Nat
  PROVE  Rungs(n + 1) = Rungs(n) + MaxRetries + 1
BY SendAssumption DEF Rungs

(* The budget of the rungs before is a number.                              *)
LEMMA RungsInt ==
  ASSUME NEW n \in Nat
  PROVE  Rungs(n) \in Int
BY SendAssumption DEF Rungs

(* A retry or the next rung stays within the budget.                        *)
LEMMA CountedRetry ==
  ASSUME CallTypeOK, Counted, stage \in {"judge", "query"}, UNCHANGED sends,
         RaiseOrRetry \/ Raise
  PROVE  Counted'
<1> step \in Nat /\ attempt \in Nat /\ attempt <= MaxRetries /\ sends \in Nat
  BY SendAssumption DEF CallTypeOK
<1> Rungs(step) \in Int /\ MaxRetries \in Nat
  BY RungsInt, SendAssumption
<1>0. sends <= Rungs(step) + attempt + 1
  BY DEF Counted
<1>1. CASE Raise
  <2>1. CASE step' = step + 1 /\ stage' = "snapshot"
    BY <1>0, <2>1, RungsNext DEF Counted
  <2>2. CASE Return("error")
    BY <1>0, <2>2 DEF Counted, Return
  <2> QED BY <1>1, <2>1, <2>2 DEF Raise
<1>2. CASE Retry
  BY <1>0, <1>2 DEF Counted, Retry
<1> QED BY <1>1, <1>2 DEF RaiseOrRetry

(* Every step stays within the budget of its rung and attempt.              *)
LEMMA CountedStep == CallTypeOK /\ Counted /\ [CallNext]_callVars => Counted'
<1> SUFFICES ASSUME CallTypeOK, Counted, [CallNext]_callVars PROVE Counted'
  OBVIOUS
<1> step \in Nat /\ attempt \in Nat /\ sends \in Nat /\ Rungs(step) \in Int
  BY SendAssumption, RungsInt DEF CallTypeOK
<1>1. CASE Snapshot
  BY <1>1 DEF Snapshot, Counted
<1>2. CASE Send
  BY <1>2 DEF Send, Counted
<1>3. CASE JudgeOnce
  <2>1. CASE Return("ok")
    BY <1>3, <2>1 DEF JudgeOnce, Return, Request, Counted
  <2>2. CASE Raise
    BY <1>3, <2>2, CountedRetry DEF JudgeOnce, Request
  <2> QED BY <1>3, <2>1, <2>2 DEF JudgeOnce
<1>4. CASE Judge
  <2>1. CASE Return("ok")
    BY <1>4, <2>1 DEF Judge, Return, Request, Counted
  <2>2. CASE stage' = "query" /\ UNCHANGED <<step, attempt, rotated, misread, result>>
    BY <1>4, <2>2 DEF Judge, Request, Counted
  <2>3. CASE RaiseOrRetry
    BY <1>4, <2>3, CountedRetry DEF Judge, Request
  <2> QED BY <1>4, <2>1, <2>2, <2>3 DEF Judge
<1>5. CASE Query
  <2>1. CASE Return("recovered")
    BY <1>5, <2>1 DEF Query, Return, Counted
  <2>2. CASE RaiseOrRetry
    BY <1>5, <2>2, CountedRetry DEF Query
  <2> QED BY <1>5, <2>1, <2>2 DEF Query
<1>6. CASE Arrive \/ Finished \/ UNCHANGED callVars
  BY <1>6 DEF Arrive, Finished, callVars, Counted
<1> QED BY <1>1, <1>2, <1>3, <1>4, <1>5, <1>6 DEF CallNext, Call

(* The budgets of the rungs add up to that of the call.                     *)
LEMMA CountedBound == CallTypeOK /\ Counted => BoundedSends
<1> SUFFICES ASSUME CallTypeOK, Counted PROVE BoundedSends
  OBVIOUS
<1> DEFINE M == MaxRetries + 1
<1>1. M \in Nat /\ step \in 1 .. LadderLen /\ attempt + 1 <= M /\ sends \in Nat
  BY SendAssumption DEF CallTypeOK
<1>2. sends <= Rungs(step) + M
  BY <1>1, RungsInt, SendAssumption DEF Counted, CallTypeOK
<1>3. Rungs(step) + M = step * M
  BY <1>1, SendAssumption DEF Rungs
<1>4. step * M <= LadderLen * M
  <2> HIDE DEF M
  <2> QED BY <1>1, SendAssumption
<1>5. step * M \in Int /\ LadderLen * M \in Int
  BY <1>1, SendAssumption
<1> QED BY <1>1, <1>2, <1>3, <1>4, <1>5 DEF BoundedSends

(* However the server answers, an order call sends at most max_retries + 1  *)
(* requests per rung of the volume ladder (_send_with_policy, _open).       *)
THEOREM SendBudget == CallSpec => []BoundedSends
<1>1. CallInit => Counted
  BY SendAssumption DEF CallInit, Counted, Rungs
<1> QED BY <1>1, CallTypeInit, CallTypeStep, CountedStep, CountedBound, PTL DEF CallSpec

-----------------------------------------------------------------------------
(* What the server did, at every point of the call of an entry *)

Snapped == before.old = OldPositions /\ before.done = 0

(* An entry that got this far on answers the ladder may take as they are. *)
Sure == guard /\ (policy \/ ~misread)

Tracked ==
  Sure =>
    /\ stage = "snapshot" => done = 0
    /\ stage = "send" => done = 0 /\ Snapped
    /\ stage = "judge" =>
         /\ Snapped /\ done \in {0, 1}
         /\ done = 1 => Executes(rc) \/ rc \in Ambiguous
         /\ Executes(rc) => done = 1
    /\ stage = "query" => policy /\ Snapped /\ done \in {0, 1} /\ rc \in Ambiguous
    /\ stage = "done" =>
         /\ done \in {0, 1}
         /\ policy /\ result \in {"ok", "recovered"} => done = 1
         /\ policy /\ result = "error" => done = 0
    /\ stage # "done" => result = "none"

Quiet == flight = 0 /\ late = 0 /\ failedReads = 0

(* classify: what each class of answers says about the request.             *)
LEMMA Classes ==
  ASSUME NEW code \in Retcodes
  PROVE  /\ classify(code) \in {"SUCCESS", "SUCCESS_PARTIAL"} <=> Executes(code)
         /\ classify(code) = "AMBIGUOUS" <=> code \in Ambiguous
         /\ classify(code) = "DEFER_LADDER" => code \notin Ambiguous /\ ~Executes(code)
BY DEF classify, Executes, Retcodes, Success, SuccessPartial, RetryFreshPrice,
       RetryBackoff, Ambiguous, DeferLadder, RotateFilling, Abort, AbortAlert,
       Done, NoAnswer, Unknown

Promptly == Prompt => Quiet /\ Tracked

(* A step after which the server is still prompt was taken by a prompt one. *)
LEMMA PromptBefore ==
  ASSUME CallTypeOK, [CallNext]_callVars, Prompt'
  PROVE  Prompt
BY DEF Prompt, CallTypeOK, CallNext, callVars, Call, Snapshot, Send,
   JudgeOnce, Judge, Query, Arrive, Finished, ReadFails, Request

(* While the server is prompt, nothing is under way and no read fails.      *)
LEMMA QuietStep ==
  ASSUME CallTypeOK, Quiet, [CallNext]_callVars, Prompt'
  PROVE  Quiet' /\ ~Arrive /\ ~ReadFails
BY DEF Prompt, CallTypeOK, Quiet, CallNext, callVars, Call, Snapshot, Send,
   JudgeOnce, Judge, Query, Arrive, Finished, ReadFails, Request

(* Raising or retrying with nothing executed keeps the account straight. *)
LEMMA TrackedRetry ==
  ASSUME CallTypeOK, Tracked, Sure, stage \in {"judge", "query"}, Snapped, done = 0,
         UNCHANGED <<guard, policy, before, rc, done>>, RaiseOrRetry \/ Raise
  PROVE  Tracked'
<1>0. Snapped' /\ done' = 0 /\ result = "none"
  BY DEF Snapped, Tracked
<1>1. CASE Raise
  BY <1>0, <1>1 DEF Raise, Return, Tracked
<1>2. CASE Retry
  BY <1>0, <1>2 DEF Retry, Tracked
<1> QED BY <1>1, <1>2 DEF RaiseOrRetry

(* What was taken for a "no money" once is never forgotten.                 *)
LEMMA UnsureStays ==
  ASSUME CallTypeOK, ~Sure, [CallNext]_callVars
  PROVE  ~Sure'
<1>1. UNCHANGED <<guard, policy>>
  BY DEF CallNext, callVars, Call, Snapshot, Send, JudgeOnce, Judge, Query, Arrive,
         Finished, Request
<1>2. misread => misread'
  BY Zenon DEF CallNext, callVars, Call, Snapshot, Send, JudgeOnce, Judge, Query, Arrive,
         Finished, Return, Raise, Retry, RaiseOrRetry
<1> QED BY <1>1, <1>2 DEF Sure

(* Every step of an entry on a prompt server keeps the account.             *)
LEMMA TrackedStep ==
  ASSUME CallTypeOK, Quiet, Tracked, [CallNext]_callVars, Prompt'
  PROVE  Tracked'
<1> USE DEF Tracked
<1>0. CASE ~Sure
  BY <1>0, UnsureStays
<1> SUFFICES ASSUME Sure PROVE Tracked'
  BY <1>0
<1>1. CASE Snapshot
  <2>1. before' = [old |-> OldPositions, done |-> done] /\ done = 0
    BY <1>1, QuietStep DEF Snapshot
  <2>2. Snapped'
    BY <2>1 DEF Snapped
  <2> QED BY <1>1, <2>1, <2>2 DEF Snapshot
<1>2. CASE Send
  <2>1. rc' \in Retcodes /\ UNCHANGED <<guard, before, result>> /\ stage' = "judge"
    BY <1>2 DEF Send
  <2>2. Snapped' /\ done = 0 /\ result = "none"
    BY <1>2, <2>1 DEF Send, Snapped
  <2>3. late' # late + 1
    BY DEF Prompt, CallTypeOK
  <2>4. \/ done' = (IF Executes(rc') THEN done + 1 ELSE done)
        \/ rc' \in Ambiguous /\ done' = done + 1
    BY <1>2, <2>3 DEF Send
  <2>5. \A code \in Retcodes : ~(Executes(code) /\ code \in Ambiguous)
    BY DEF Executes, Success, SuccessPartial, Ambiguous, Done, NoAnswer
  <2>6. /\ done' \in {0, 1}
        /\ done' = 1 => Executes(rc') \/ rc' \in Ambiguous
        /\ Executes(rc') => done' = 1
    BY <2>1, <2>2, <2>4, <2>5
  <2> QED BY <2>1, <2>2, <2>6 DEF Executes
<1>3. CASE JudgeOnce
  <2>1. UNCHANGED <<guard, policy, before, rc, done>> /\ ~policy /\ stage = "judge"
    BY <1>3 DEF JudgeOnce, Request
  <2>2. rc \in Retcodes
    BY DEF CallTypeOK
  <2>3. CASE Return("ok") \/ Return("error")
    BY <2>1, <2>3 DEF Return
  <2>4. CASE /\ step' = step + 1 /\ stage' = "snapshot" /\ UNCHANGED result
             /\ misread' = (misread \/ classify(rc) # "DEFER_LADDER")
    <3>1. CASE classify(rc) = "DEFER_LADDER"
      <4>1. done = 0
        BY <2>1, <2>2, <3>1, Classes
      <4> QED BY <2>1, <2>4, <4>1
    <3>2. CASE classify(rc) # "DEFER_LADDER"
      <4>1. ~Sure'
        BY <2>1, <2>4, <3>2 DEF Sure
      <4> QED BY <4>1
    <3> QED BY <3>1, <3>2
  <2> QED BY <1>3, <2>3, <2>4 DEF JudgeOnce, Raise
<1>4. CASE Judge
  <2>1. UNCHANGED <<guard, policy, before, rc, done>> /\ policy /\ stage = "judge"
    BY <1>4 DEF Judge, Request
  <2>2. rc \in Retcodes /\ Snapped
    BY <2>1 DEF CallTypeOK
  <2>3. CASE Executes(rc)
    <3>1. Return("ok") /\ done = 1
      BY <1>4, <2>1, <2>2, <2>3, Classes DEF Judge
    <3> QED BY <2>1, <3>1 DEF Return
  <2>4. CASE rc \in Ambiguous
    <3>1. ~Executes(rc)
      BY <2>4 DEF Executes, Success, SuccessPartial, Ambiguous, Done, NoAnswer
    <3>2. stage' = "query" /\ UNCHANGED <<step, attempt, rotated, misread, result>>
      BY <1>4, <2>1, <2>2, <2>4, <3>1, Classes DEF Judge, Sure
    <3>3. Snapped'
      BY <2>1, <2>2 DEF Snapped
    <3> QED BY <2>1, <2>4, <3>2, <3>3
  <2>5. CASE ~Executes(rc) /\ rc \notin Ambiguous
    <3>1. RaiseOrRetry
      BY <1>4, <2>1, <2>2, <2>5, Classes DEF Judge
    <3>2. done = 0
      BY <2>1, <2>5
    <3> QED BY <2>1, <2>2, <3>1, <3>2, TrackedRetry
  <2> QED BY <2>3, <2>4, <2>5
<1>5. CASE Query
  <2>1. UNCHANGED <<guard, policy, before, rc, done>> /\ stage = "query"
    BY <1>5 DEF Query
  <2>2. Snapped /\ policy /\ done \in {0, 1}
    BY <2>1
  <2>3. IF NewTicket THEN Return("recovered") ELSE RaiseOrRetry
    BY <1>5, QuietStep DEF Query
  <2>4. NewTicket <=> done = 1
    BY <2>2, SendAssumption DEF NewTicket, Snapped
  <2>5. CASE done = 1
    BY <2>1, <2>3, <2>4, <2>5 DEF Return
  <2>6. CASE done = 0
    <3>1. RaiseOrRetry
      BY <2>3, <2>4, <2>6
    <3> QED BY <2>1, <2>2, <2>6, <3>1, TrackedRetry
  <2> QED BY <2>2, <2>5, <2>6
<1>6. CASE Finished \/ UNCHANGED callVars
  BY <1>6 DEF Finished, callVars, Snapped, Sure
<1> QED BY <1>1, <1>2, <1>3, <1>4, <1>5, <1>6, QuietStep DEF CallNext, Call

(* The account is kept as long as the server is prompt.                     *)
LEMMA PromptlyStep == CallTypeOK /\ Promptly /\ [CallNext]_callVars => Promptly'
<1> SUFFICES ASSUME CallTypeOK, Promptly, [CallNext]_callVars, Prompt' PROVE Quiet' /\ Tracked'
  BY DEF Promptly
<1>1. Quiet /\ Tracked
  BY PromptBefore DEF Promptly
<1> QED BY <1>1, QuietStep, TrackedStep

(* It starts empty.                                                         *)
LEMMA PromptlyInit == CallInit => Promptly
BY DEF CallInit, Promptly, Quiet, Tracked

(* The account says what the result means and how often an entry ran.       *)
LEMMA PromptTruth == CallTypeOK /\ Promptly => NeverDouble /\ ResultIsTruth
BY DEF CallTypeOK, Promptly, Tracked, Sure, NeverDouble, ResultIsTruth

(* An entry is executed at most once over all resends and rungs, for every  *)
(* retry budget and ladder, as long as no request is executed after its     *)
(* answer and no read fails (the double-fill guard of _send_with_policy).   *)
(* Without the policy this also takes that _open never took another error   *)
(* for a "no money".                                                        *)
THEOREM NoDoubleFill == CallSpec => []NeverDouble
BY CallTypeInit, CallTypeStep, PromptlyInit, PromptlyStep, PromptTruth, PTL DEF CallSpec

(* Under the same proviso the result of an entry is the truth: a returned   *)
(* or recovered order was executed exactly once, a failed one never.        *)
THEOREM TruthfulResult == CallSpec => []ResultIsTruth
BY CallTypeInit, CallTypeStep, PromptlyInit, PromptlyStep, PromptTruth, PTL DEF CallSpec
=============================================================================
