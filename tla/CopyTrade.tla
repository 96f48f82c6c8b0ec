----------------------------- MODULE CopyTrade -----------------------------
(***************************************************************************)
(* The copy-trade path: broadcast.py in the bot (queue, worker thread and  *)
(* disk spool), the leader node (server.py, store.py) and the follower     *)
(* that polls it (follower_example.py).  An event is its place in the      *)
(* order of publication; signing, timestamps and the ZeroMQ fan-out carry  *)
(* no state and are left out.                                              *)
(*                                                                         *)
(* Every way a part can fail draws on one budget, and "met" remembers      *)
(* which kinds of failure a behaviour has met:                             *)
(*   net     a request or its answer is late or lost                       *)
(*   spool   an OSError on the spool file     store  one on the event log  *)
(*   load    the event log cannot be read when the leader starts           *)
(*   crash   the bot dies                     leader the leader dies       *)
(***************************************************************************)
EXTENDS Naturals, Sequences, FiniteSets

CONSTANTS
  MaxQueue,   \* maxsize of the queue
  Window,     \* n of GET /events/latest
  MaxEvents,  \* bound: events published
  MaxFaults   \* bound: failures

ASSUME CopyAssumption ==
  MaxQueue \in Nat \ {0} /\ Window \in Nat \ {0}
  /\ MaxEvents \in Nat /\ MaxFaults \in Nat

VARIABLES
  published, hand, q, dropped, stop,  \* the publishing side
  pc, lines, req, spool,              \* the worker: what it is sending
  flight,                             \* requests the worker has given up
  up, seqno, store,                   \* the leader
  last_seq, printed,                  \* the follower; log lines it printed
  met, faults,                        \* failures so far
  arrived, lastOk                     \* history: first arrivals; the last _send
                                      \* or reading of the spool worked

producer == <<published, hand, q, dropped, stop>>
worker == <<pc, lines, req, spool>>
leader == <<up, seqno, store>>
follower == <<last_seq, printed>>
failures == <<met, faults>>
history == <<arrived, lastOk>>
vars == <<producer, worker, flight, leader, follower, failures, history>>

Events == 1 .. MaxEvents
Kinds == {"net", "spool", "store", "load", "crash", "leader"}

NoFault == UNCHANGED failures
Fault(kind) ==
  faults < MaxFaults /\ faults' = faults + 1 /\ met' = met \cup {kind}

-----------------------------------------------------------------------------
(* A JSONL file.  A write that fails half way leaves a line without its     *)
(* end; the next write continues that line, and neither can be read.        *)
Corrupt == [ev |-> 0, seq |-> 0]
Readable(l) == l.ev # 0
Line(e) == [ev |-> e, seq |-> 0]
EmptyFile == [lines |-> << >>, torn |-> FALSE]

Write(f, l) ==
  [lines |-> IF f.torn THEN [f.lines EXCEPT ![Len(f.lines)] = Corrupt]
                       ELSE Append(f.lines, l),
   torn |-> FALSE]

TornWrite(f) ==
  [lines |-> IF f.torn THEN f.lines ELSE Append(f.lines, Corrupt), torn |-> TRUE]

(* Several lines, to a file that is not torn. *)
WriteAll(f, ls) == [lines |-> f.lines \o ls, torn |-> FALSE]

FailedWrites(f) == {f, TornWrite(f)}

-----------------------------------------------------------------------------
(* publish: put_nowait; on queue.Full get_nowait, count, put_nowait.  The   *)
(* worker may take from the queue between any two of them.                  *)
Publish ==
  /\ pc # "down" /\ ~stop /\ hand = "idle" /\ published < MaxEvents
  /\ published' = published + 1
  /\ \/ Len(q) < MaxQueue /\ q' = Append(q, published') /\ UNCHANGED hand
     \/ Len(q) = MaxQueue /\ hand' = "full" /\ UNCHANGED q
  /\ UNCHANGED <<dropped, stop, worker, flight, leader, follower, failures, history>>

MutDropOldest ==
  /\ hand = "full"
  /\ hand' = "put" /\ UNCHANGED dropped
  /\ q' = IF q = << >> THEN q ELSE Tail(q)
  /\ UNCHANGED <<published, stop, worker, flight, leader, follower, failures, history>>

DropOldest ==
  /\ hand = "full"
  /\ hand' = "put" /\ dropped' = dropped + 1
  /\ q' = IF q = << >> THEN q ELSE Tail(q)
  /\ UNCHANGED <<published, stop, worker, flight, leader, follower, failures, history>>

PutAgain ==
  /\ hand = "put" /\ hand' = "idle"
  /\ IF Len(q) < MaxQueue
     THEN q' = Append(q, published) /\ UNCHANGED dropped
     ELSE dropped' = dropped + 1 /\ UNCHANGED q
  /\ UNCHANGED <<published, stop, worker, flight, leader, follower, failures, history>>

(* close: no event is published any more. *)
Close ==
  /\ pc # "down" /\ ~stop /\ hand = "idle"
  /\ stop' = TRUE
  /\ UNCHANGED <<published, hand, q, dropped, worker, flight, leader, follower,
                 failures, history>>

-----------------------------------------------------------------------------
(* _run: the next event, or the end once the queue is empty. *)
WorkerEnd ==
  /\ pc = "get" /\ stop /\ q = << >>
  /\ pc' = "down"
  /\ UNCHANGED <<producer, lines, req, spool, flight, leader, follower, failures,
                 history>>

MutTake ==
  /\ pc = "get" /\ q # << >>
  /\ q' = Tail(q) /\ lines' = <<Line(Head(q))>>
  /\ pc' = "direct" /\ NoFault
  /\ UNCHANGED <<published, hand, dropped, stop, req, spool, flight, leader,
                 follower, failures, history>>

(* _run and _handle: an event goes straight to the leader, unless there is  *)
(* a backlog; then it goes behind the backlog.  Where _spool_backlog cannot *)
(* look at the file, it says that there is none.                            *)
Take ==
  /\ pc = "get" /\ q # << >>
  /\ q' = Tail(q) /\ lines' = <<Line(Head(q))>>
  /\ \/ pc' = (IF spool.lines # << >> THEN "spool" ELSE "direct") /\ NoFault
     \/ spool.lines # << >> /\ pc' = "direct" /\ Fault("spool")
  /\ UNCHANGED <<published, hand, dropped, stop, req, spool, flight, leader,
                 follower, history>>

(* _spool *)
Spool(l) ==
  \/ NoFault /\ spool' = Write(spool, l)
  \/ Fault("spool") /\ spool' \in FailedWrites(spool)

(* An event joins the backlog. *)
SpoolBehind ==
  /\ pc = "spool" /\ Spool(lines[1])
  /\ lines' = << >> /\ pc' = "open"
  /\ UNCHANGED <<producer, req, flight, leader, follower, history>>

(* _drain_spool: the file is read and removed before anything is sent.      *)
(* Where that fails the file stays as it is.                                *)
OpenSpool ==
  /\ pc = "open"
  /\ \/ /\ NoFault /\ lines' = spool.lines /\ spool' = EmptyFile /\ pc' = "send"
        /\ UNCHANGED lastOk
     \/ /\ Fault("spool") /\ spool.lines # << >> /\ pc' = "get" /\ lastOk' = FALSE
        /\ UNCHANGED <<lines, spool>>
  /\ UNCHANGED <<producer, req, flight, leader, follower, arrived>>

(* The next request: the event itself, or the next line of the spool, which *)
(* may be corrupt (dropped); or none is left.                               *)
NextLine ==
  /\ pc \in {"direct", "send"} /\ req = "none"
  /\ \/ lines = << >> /\ pc' = "get" /\ UNCHANGED <<lines, req>>
     \/ /\ lines # << >> /\ ~Readable(lines[1])
        /\ lines' = Tail(lines) /\ UNCHANGED <<pc, req>>
     \/ /\ lines # << >> /\ Readable(lines[1])
        /\ req' = "sent" /\ UNCHANGED <<pc, lines>>
  /\ UNCHANGED <<producer, spool, flight, leader, follower, failures, history>>

(* _send returns True: on to the spool after an event, or to the next line. *)
Answered ==
  /\ req = "ok" /\ req' = "none"
  /\ lines' = Tail(lines) /\ lastOk' = TRUE
  /\ pc' = IF pc = "direct" THEN "open" ELSE "send"
  /\ UNCHANGED <<producer, spool, flight, leader, follower, failures, arrived>>

(* _send returns False because the timeout came first.  The request itself  *)
(* may still reach the leader.                                              *)
TimedOut ==
  /\ req \in {"sent", "ok"} /\ Fault("net")
  /\ req' = "bad"
  /\ flight' = IF req = "sent" THEN [flight EXCEPT ![lines[1].ev] = @ + 1] ELSE flight
  /\ UNCHANGED <<producer, pc, lines, spool, leader, follower, history>>

MutRespool ==
  /\ req = "bad" /\ req' = "none" /\ pc' = "send" /\ lastOk' = FALSE
  /\ spool' = Write(spool, lines[1]) /\ NoFault
  /\ lines' = Tail(lines)
  /\ UNCHANGED <<producer, flight, leader, follower, arrived>>

(* _spool of an event, or what is left of the spool after a failed drain:   *)
(* everything that is not delivered goes back, oldest first.                *)
Respool ==
  /\ req = "bad" /\ req' = "none" /\ pc' = "get" /\ lastOk' = FALSE
  /\ \/ pc = "direct" /\ Spool(lines[1])
     \/ pc = "send" /\ spool' = WriteAll(spool, lines) /\ NoFault
     \/ /\ pc = "send" /\ Fault("spool")
        /\ \E k \in 0 .. Len(lines) - 1 :
             spool' \in FailedWrites(WriteAll(spool, SubSeq(lines, 1, k)))
  /\ lines' = << >>
  /\ UNCHANGED <<producer, flight, leader, follower, arrived>>

-----------------------------------------------------------------------------
(* LeaderStore.append, the body of do_POST.  The number is taken before the *)
(* line is written.                                                         *)
Stored(e) ==
  /\ seqno' = seqno + 1
  /\ store' = Write(store, [ev |-> e, seq |-> seqno']) /\ NoFault

NotStored ==
  /\ seqno' = seqno + 1
  /\ store' \in FailedWrites(store) /\ Fault("store")

Arrival(e) ==
  arrived' = IF \E i \in DOMAIN arrived : arrived[i] = e THEN arrived
             ELSE Append(arrived, e)

Serve ==
  /\ req = "sent" /\ up
  /\ \/ Stored(lines[1].ev) /\ req' = "ok"
     \/ NotStored /\ req' = "bad"
  /\ Arrival(lines[1].ev)
  /\ UNCHANGED <<producer, pc, lines, spool, flight, up, follower, lastOk>>

(* A request the worker gave up is handled by a server thread of its own. *)
LateServe ==
  /\ up
  /\ \E e \in Events :
       /\ flight[e] > 0 /\ flight' = [flight EXCEPT ![e] = @ - 1]
       /\ Stored(e) \/ NotStored
       /\ Arrival(e)
  /\ UNCHANGED <<producer, worker, up, follower, lastOk>>

Refused ==
  /\ req = "sent" /\ ~up /\ req' = "bad"
  /\ UNCHANGED <<producer, pc, lines, spool, flight, leader, follower, failures,
                 history>>

LeaderCrash ==
  /\ up /\ Fault("leader")
  /\ up' = FALSE /\ flight' = [e \in Events |-> 0]
  /\ UNCHANGED <<producer, worker, seqno, store, follower, history>>

-----------------------------------------------------------------------------
Numbers == {l.seq : l \in {store.lines[i] : i \in DOMAIN store.lines}} \cup {0}
Greatest(S) == CHOOSE n \in S : \A m \in S : m <= n

(* _load_last_seq: the greatest number that can be read. *)
MutLoadLastSeq == Cardinality({i \in DOMAIN store.lines : Readable(store.lines[i])})
LoadLastSeq == Greatest(Numbers)

LeaderStart ==
  /\ ~up /\ up' = TRUE
  /\ \/ seqno' = LoadLastSeq /\ NoFault
     \/ seqno' = 0 /\ Fault("load")
  /\ UNCHANGED <<producer, worker, flight, store, follower, history>>

-----------------------------------------------------------------------------
(* The follower polls latest(n) and prints each line whose number exceeds   *)
(* all it has seen.                                                         *)
InWindow(i) == i + Window > Len(store.lines)

IsNew(i) ==
  /\ InWindow(i) /\ Readable(store.lines[i])
  /\ store.lines[i].seq > last_seq
  /\ \A j \in 1 .. i - 1 :
       InWindow(j) /\ Readable(store.lines[j]) =>
         store.lines[j].seq < store.lines[i].seq

Poll ==
  LET new == {i \in DOMAIN store.lines : IsNew(i)} IN
  /\ up /\ new # {}
  /\ printed' = printed \cup new
  /\ last_seq' = store.lines[Greatest(new)].seq
  /\ UNCHANGED <<producer, worker, flight, leader, failures, history>>

-----------------------------------------------------------------------------
(* The bot dies, or its exit does not wait for the worker any longer (close *)
(* waits drain_sec): the queue and what the worker holds are gone.  Where   *)
(* it was about to read the spool, it did not.                              *)
Crash ==
  /\ pc # "down" /\ Fault("crash")
  /\ pc' = "down" /\ hand' = "idle" /\ q' = << >> /\ lines' = << >> /\ req' = "none"
  /\ flight' = IF req = "sent" THEN [flight EXCEPT ![lines[1].ev] = @ + 1] ELSE flight
  /\ lastOk' = (lastOk /\ pc # "open")
  /\ UNCHANGED <<published, dropped, stop, spool, leader, follower, arrived>>

Start ==
  /\ pc = "down" /\ pc' = "get" /\ stop' = FALSE
  /\ UNCHANGED <<published, hand, q, dropped, lines, req, spool, flight, leader,
                 follower, failures, history>>

Init ==
  /\ published = 0 /\ hand = "idle" /\ q = << >> /\ dropped = 0 /\ stop = FALSE
  /\ pc = "get" /\ lines = << >> /\ req = "none" /\ spool = EmptyFile
  /\ flight = [e \in Events |-> 0]
  /\ up = TRUE /\ seqno = 0 /\ store = EmptyFile
  /\ last_seq = 0 /\ printed = {}
  /\ met = {} /\ faults = 0
  /\ arrived = << >> /\ lastOk = TRUE

Producer == Publish \/ DropOldest \/ PutAgain \/ Close
Worker ==
  \/ WorkerEnd \/ Take \/ SpoolBehind \/ OpenSpool \/ NextLine
  \/ Answered \/ Refused \/ TimedOut \/ Respool
Leader == Serve \/ LateServe \/ LeaderCrash \/ LeaderStart

Next == Producer \/ Worker \/ Leader \/ Poll \/ Crash \/ Start

Spec == Init /\ [][Next]_vars

-----------------------------------------------------------------------------
LogLine == [ev : Events \cup {0}, seq : Nat]
File == [lines : Seq(LogLine), torn : BOOLEAN]
IsFile(f) == f \in File /\ (f.torn => f.lines # << >>)

ProducerOK ==
  /\ published \in 0 .. MaxEvents /\ hand \in {"idle", "full", "put"}
  /\ (hand # "idle" => published > 0)
  /\ q \in Seq(Events) /\ Len(q) <= MaxQueue
  /\ dropped \in Nat /\ stop \in BOOLEAN

WorkerOK ==
  /\ pc \in {"get", "spool", "direct", "open", "send", "down"}
  /\ req \in {"none", "sent", "ok", "bad"}
  /\ lines \in Seq(LogLine) /\ (pc = "spool" => lines # << >>)
  /\ (pc = "direct" => Len(lines) = 1 /\ Readable(lines[1]))
  /\ (req # "none" => pc \in {"direct", "send"} /\ lines # << >> /\ Readable(lines[1]))
  /\ IsFile(spool)
  /\ (pc = "send" => spool = EmptyFile)
  /\ (pc = "direct" /\ "spool" \notin met => spool = EmptyFile)

LeaderOK == up \in BOOLEAN /\ seqno \in Nat /\ IsFile(store)

(* The types, and what the worker holds at each point: while it sends what  *)
(* was spooled, and as long as the spool can be looked at also while it     *)
(* sends an event, the spool is empty.                                      *)
TypeOK ==
  /\ ProducerOK /\ WorkerOK /\ LeaderOK
  /\ flight \in [Events -> Nat]
  /\ last_seq \in Nat /\ printed \subseteq Nat
  /\ met \subseteq Kinds /\ faults \in 0 .. MaxFaults
  /\ arrived \in Seq(Events) /\ lastOk \in BOOLEAN

EventsOf(ls) == {ls[i].ev : i \in DOMAIN ls}

(* broadcast.py: an event is dropped on overflow and counted; every other   *)
(* one is on its way or at the leader, whatever the network does, whenever  *)
(* the leader restarts, and over any number of orderly ends of the bot.     *)
Lost ==
  {e \in 1 .. published :
     /\ \A i \in DOMAIN q : q[i] # e
     /\ e \notin EventsOf(lines) \cup EventsOf(spool.lines) \cup EventsOf(store.lines)
     /\ hand # "idle" => e # published}
NothingLostSilently ==
  met \cap {"crash", "spool", "store"} = {} => Cardinality(Lost) <= dropped

(* follower_example.py: while the log fits into the window, the follower    *)
(* has printed every line up to the number it stands at.                    *)
FollowerInStep ==
  "load" \notin met /\ Len(store.lines) <= Window =>
    printed = {i \in DOMAIN store.lines :
                 Readable(store.lines[i]) /\ store.lines[i].seq <= last_seq}

(* broadcast.py: "the leader receives events in original publish order".    *)
(* A retry may repeat an event, but no event overtakes one that was never   *)
(* received, even with requests that arrive after the worker gave them up;  *)
(* and the follower behind the leader never steps over a line of its        *)
(* window, over torn lines, repeated events and restarts.                   *)
ReceivedInOrder ==
  /\ met \cap {"crash", "spool"} = {} =>
       \A i, j \in DOMAIN arrived : i < j => arrived[i] < arrived[j]
  /\ FollowerInStep

(* A backlog outlives the handling of an event only if the last delivery or *)
(* the last reading of the spool failed (or the bot died before it): a      *)
(* working network and disk clear all of it, also where an event was sent   *)
(* past a backlog that could not be seen.                                   *)
BacklogMeansFailure == pc = "get" /\ spool.lines # << >> => ~lastOk

(* store.py: "restarts never reuse or reset sequence numbers".  Numbers in  *)
(* the log increase, over failed and torn writes and over restarts, unless  *)
(* the log could not be read at a start.                                    *)
NumbersIncrease ==
  "load" \notin met =>
    \A i, j \in DOMAIN store.lines :
      i < j /\ Readable(store.lines[i]) /\ Readable(store.lines[j]) =>
        store.lines[i].seq < store.lines[j].seq
=============================================================================
