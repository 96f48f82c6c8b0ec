--------------------------- MODULE CopyTradeProofs ---------------------------
(***************************************************************************)
(* Proofs about CopyTrade, for every queue length, window and number of    *)
(* events and failures.                                                    *)
(*                                                                         *)
(* Five inductive invariants, each on top of the typing: the numbers of    *)
(* the log stay below the counter (NumberInv), the follower has printed    *)
(* what it stands at (FollowerInv), the delivery thread's own record of a  *)
(* failure matches the backlog it kept (Hands), the pipeline -- backlog,   *)
(* batch, queue, hand -- is in the order of publication and arrivals are   *)
(* behind none of it (OrderInv), and what is neither kept nor logged is    *)
(* counted (LossInv).                                                      *)
(***************************************************************************)
EXTENDS CopyTrade, FiniteSetTheorems, WellFoundedInduction, TLAPS

-----------------------------------------------------------------------------
(* Operators.                                                               *)

(* A bounded, non-empty set of naturals has a greatest element, and that is *)
(* what _load_last_seq and the follower compute.                            *)
LEMMA GreatestIs ==
  ASSUME NEW S \in SUBSET Nat, S # {}, NEW b \in Nat, \A m \in S : m <= b
  PROVE  Greatest(S) \in S /\ \A m \in S : m <= Greatest(S)
<1> DEFINE T == {n \in Nat : \A m \in S : m <= n}
<1>1. PICK t \in T : \A y \in T : ~(<<y, t>> \in OpToRel(<, Nat))
  <2>1. T \subseteq Nat /\ T # {}
    OBVIOUS
  <2> QED BY <2>1, NatLessThanWellFounded, WFMin
<1>2. \A y \in T : ~(y < t)
  BY <1>1 DEF OpToRel
<1>b. t \in Nat /\ \A m \in S : m \in Nat /\ m <= t
  OBVIOUS
<1>3. t \in S
  <2>1. SUFFICES ASSUME t \notin S PROVE FALSE
    OBVIOUS
  <2>2. PICK s \in S : TRUE
    OBVIOUS
  <2>3. \A m \in S : m <= t - 1 /\ m # t
    <3> HIDE DEF T
    <3> QED BY <2>1, <1>b
  <2>4. t - 1 \in Nat
    <3> HIDE DEF T
    <3> QED BY <2>2, <2>3, <1>b
  <2>5. t - 1 \in T
    BY <2>3, <2>4
  <2> QED BY <2>5, <1>2, <1>b
<1>4. \E n \in S : \A m \in S : m <= n
  BY <1>b, <1>3
<1> QED BY <1>4, Zenon DEF Greatest

(* A write leaves a file whose last line is complete.                       *)
LEMMA WriteIsFile ==
  ASSUME NEW f, IsFile(f), NEW l \in LogLine
  PROVE  IsFile(Write(f, l)) /\ ~Write(f, l).torn
<1>1. Corrupt \in LogLine
  BY DEF Corrupt, LogLine
<1>2. CASE f.torn
  BY <1>1, <1>2 DEF IsFile, File, Write
<1>3. CASE ~f.torn
  BY <1>3 DEF IsFile, File, Write
<1> QED BY <1>2, <1>3

(* A write that failed leaves a file, perhaps with a torn last line.        *)
LEMMA FailedWriteIsFile ==
  ASSUME NEW f, IsFile(f), NEW g \in FailedWrites(f)
  PROVE  IsFile(g)
<1>1. Corrupt \in LogLine
  BY DEF Corrupt, LogLine
<1>2. IsFile(TornWrite(f))
  <2>1. CASE f.torn
    <3>1. TornWrite(f) = [lines |-> f.lines, torn |-> TRUE]
      BY <2>1, Zenon DEF TornWrite
    <3>2. f.lines \in Seq(LogLine) /\ f.lines # << >>
      BY <2>1 DEF IsFile, File
    <3> QED BY <3>1, <3>2 DEF IsFile, File
  <2>2. CASE ~f.torn
    <3>1. TornWrite(f) = [lines |-> Append(f.lines, Corrupt), torn |-> TRUE]
      BY <2>2, Zenon DEF TornWrite
    <3>2. f.lines \in Seq(LogLine)
      BY DEF IsFile, File
    <3>3. Append(f.lines, Corrupt) \in Seq(LogLine) /\ Append(f.lines, Corrupt) # << >>
      BY <1>1, <3>2
    <3> QED BY <3>1, <3>3 DEF IsFile, File
  <2> QED BY <2>1, <2>2
<1> QED BY <1>2 DEF FailedWrites

(* The empty file is one.                                                   *)
LEMMA EmptyIsFile == IsFile(EmptyFile)
BY DEF EmptyFile, IsFile, File

-----------------------------------------------------------------------------
(* Types.                                                                   *)

(* What is first in the queue is an event.                                  *)
LEMMA HeadIsEvent ==
  ASSUME WorkerOK, req # "none"
  PROVE  lines # << >> /\ lines[1].ev \in Events
<1>1. lines # << >> /\ Readable(lines[1]) /\ lines \in Seq(LogLine)
  BY DEF WorkerOK
<1>2. lines[1] \in LogLine
  BY <1>1
<1> QED BY <1>1, <1>2 DEF Readable, LogLine

(* The initial state has its types.                                         *)
LEMMA TypeInit == Init => TypeOK
<1> SUFFICES ASSUME Init PROVE TypeOK
  OBVIOUS
<1>1. ProducerOK
  <2>1. stop \in BOOLEAN
    BY Zenon DEF Init
  <2> QED BY <2>1, CopyAssumption DEF Init, ProducerOK
<1>2. WorkerOK
  BY EmptyIsFile DEF Init, WorkerOK
<1>3. LeaderOK
  BY EmptyIsFile DEF Init, LeaderOK
<1>4. flight \in [Events -> Nat] /\ arrived \in Seq(Events)
  BY DEF Init
<1>5. met \subseteq Kinds /\ faults \in 0 .. MaxFaults /\ last_seq \in Nat /\ printed \subseteq Nat
  BY CopyAssumption DEF Init
<1>6. lastOk \in BOOLEAN
  BY Zenon DEF Init
<1> QED BY <1>1, <1>2, <1>3, <1>4, <1>5, <1>6 DEF TypeOK

(* Failures stay within the budget. *)
FailuresOK == met \subseteq Kinds /\ faults \in 0 .. MaxFaults

(* Recording a fault keeps what was recorded before.                        *)
LEMMA FaultOK ==
  ASSUME FailuresOK, NoFault \/ \E k \in Kinds : Fault(k)
  PROVE  FailuresOK' /\ met \subseteq met'
<1>1. CASE NoFault
  BY <1>1 DEF NoFault, failures, FailuresOK
<1>2. CASE \E k \in Kinds : Fault(k)
  BY <1>2, CopyAssumption DEF Fault, FailuresOK
<1> QED BY <1>1, <1>2

(* A step of publish keeps the types.                                       *)
LEMMA ProducerStep ==
  ASSUME TypeOK, Next
  PROVE  ProducerOK'
<1> USE CopyAssumption
<1>0. ProducerOK
  BY DEF TypeOK
<1>1. CASE Publish
  <2>1. published + 1 \in Events
    BY <1>0, <1>1 DEF Publish, ProducerOK, Events
  <2> QED BY <1>0, <1>1, <2>1 DEF Publish, ProducerOK
<1>2. CASE DropOldest
  BY <1>0, <1>2 DEF DropOldest, ProducerOK
<1>3. CASE PutAgain
  <2>1. published \in Events
    BY <1>0, <1>3 DEF PutAgain, ProducerOK, Events
  <2> QED BY <1>0, <1>3, <2>1 DEF PutAgain, ProducerOK
<1>4. CASE Close
  BY <1>0, <1>4 DEF Close, ProducerOK
<1>5. CASE Take
  BY <1>0, <1>5 DEF Take, ProducerOK
<1>6. CASE Crash
  BY <1>0, <1>6 DEF Crash, ProducerOK
<1>7. CASE Start
  BY <1>0, <1>7 DEF Start, ProducerOK
<1>8. CASE UNCHANGED producer
  BY <1>0, <1>8 DEF producer, ProducerOK
<1>9. \/ Publish \/ DropOldest \/ PutAgain \/ Close \/ Take \/ Crash \/ Start
      \/ UNCHANGED producer
  BY DEF Next, Producer, Worker, Leader, WorkerEnd, SpoolBehind, OpenSpool, NextLine,
     Answered, Refused, TimedOut, Respool, Serve, LateServe, LeaderCrash,
     LeaderStart, Poll
<1> QED BY <1>1, <1>2, <1>3, <1>4, <1>5, <1>6, <1>7, <1>8, <1>9

(* Every action meets at most one failure, of a known kind. *)
LEMMA OneFailure ==
  ASSUME Next
  PROVE  NoFault \/ \E k \in Kinds : Fault(k)
<1>1. CASE Producer
  BY <1>1 DEF Producer, Publish, DropOldest, PutAgain, Close, NoFault
<1>2. CASE Worker
  BY <1>2 DEF Worker, WorkerEnd, Take, SpoolBehind, OpenSpool, NextLine, Answered,
     Refused, TimedOut, Respool, Spool, NoFault, Kinds
<1>3. CASE Leader
  BY <1>3 DEF Leader, Serve, LateServe, LeaderCrash, LeaderStart, Stored, NotStored,
     Kinds
<1>4. CASE Poll \/ Crash \/ Start
  BY <1>4 DEF Poll, Crash, Start, NoFault, Kinds
<1> QED BY <1>1, <1>2, <1>3, <1>4 DEF Next

(* What a behaviour has met it has met for good.                            *)
LEMMA MetGrows ==
  ASSUME TypeOK, Next
  PROVE  met \subseteq met'
BY OneFailure, FaultOK DEF TypeOK, FailuresOK

(* A step of the delivery thread keeps the types.                           *)
LEMMA WorkerStep ==
  ASSUME TypeOK, Next
  PROVE  WorkerOK'
<1>0. WorkerOK /\ ProducerOK
  BY DEF TypeOK
<1>1. CASE Take
  <2>0. Head(q) \in Events /\ lines' = <<Line(Head(q))>>
    BY <1>0, <1>1 DEF Take, ProducerOK
  <2>a. Line(Head(q)) \in LogLine /\ Readable(Line(Head(q)))
    BY <2>0 DEF Line, LogLine, Readable, Events
  <2>1. lines' \in Seq(LogLine) /\ Len(lines') = 1 /\ lines' # << >> /\ Readable(lines'[1])
    BY <2>0, <2>a
  <2>2. /\ pc' \in {"spool", "direct"}
        /\ pc' = "direct" /\ "spool" \notin met' => spool.lines = << >>
    BY <1>1 DEF Take, Fault
  <2>3. spool.lines = << >> => spool = EmptyFile
    BY <1>0 DEF WorkerOK, IsFile, File, EmptyFile
  <2>4. req' = "none" /\ UNCHANGED spool
    BY <1>0, <1>1 DEF Take, WorkerOK
  <2> QED BY <1>0, <2>1, <2>2, <2>3, <2>4 DEF WorkerOK
<1>2. CASE SpoolBehind
  <2>1. lines[1] \in LogLine
    BY <1>0, <1>2 DEF SpoolBehind, WorkerOK
  <2>2. IsFile(spool')
    BY <1>0, <1>2, <2>1, WriteIsFile, FailedWriteIsFile DEF SpoolBehind, Spool, WorkerOK
  <2>3. req = "none"
    BY <1>0, <1>2 DEF SpoolBehind, WorkerOK
  <2> QED BY <1>0, <1>2, <2>2, <2>3 DEF SpoolBehind, WorkerOK
<1>3. CASE OpenSpool
  <2>1. req = "none"
    BY <1>0, <1>3 DEF OpenSpool, WorkerOK
  <2>2. spool.lines \in Seq(LogLine)
    BY <1>0 DEF WorkerOK, IsFile, File
  <2> QED BY <1>0, <1>3, <2>1, <2>2, EmptyIsFile DEF OpenSpool, WorkerOK
<1>m. met \subseteq met'
  BY MetGrows
<1>4. CASE NextLine
  BY <1>0, <1>4, <1>m DEF NextLine, WorkerOK
<1>5. CASE Answered
  <2>1. /\ pc' \in {"open", "send"} /\ req' = "none" /\ UNCHANGED spool
        /\ pc' = "send" => pc = "send"
        /\ lines # << >> /\ lines' = Tail(lines)
    BY <1>0, <1>5 DEF Answered, WorkerOK
  <2>2. lines' \in Seq(LogLine)
    BY <1>0, <2>1 DEF WorkerOK
  <2> QED BY <1>0, <2>1, <2>2 DEF WorkerOK
<1>6. CASE Refused \/ TimedOut
  BY <1>0, <1>6, <1>m DEF Refused, TimedOut, WorkerOK
<1>7. CASE Respool
  <2>l. lines \in Seq(LogLine) /\ lines[1] \in LogLine /\ IsFile(spool)
    BY <1>0, <1>7 DEF Respool, WorkerOK
  <2>d. CASE pc = "direct" /\ Spool(lines[1])
    <3>1. IsFile(spool')
      BY <2>d, <2>l, WriteIsFile, FailedWriteIsFile DEF Spool
    <3> QED BY <1>7, <3>1 DEF Respool, WorkerOK
  <2> SUFFICES ASSUME pc = "send" PROVE WorkerOK'
    BY <1>7, <2>d DEF Respool
  <2>1. spool = EmptyFile /\ lines \in Seq(LogLine)
    BY <1>0, <1>7 DEF Respool, WorkerOK
  <2>2. \A ls \in Seq(LogLine) : IsFile(WriteAll(spool, ls))
    <3> SUFFICES ASSUME NEW ls \in Seq(LogLine) PROVE IsFile(WriteAll(spool, ls))
      OBVIOUS
    <3>1. spool.lines \o ls \in Seq(LogLine)
      BY <2>1 DEF EmptyFile
    <3> QED BY <3>1 DEF WriteAll, IsFile, File
  <2>3. \A k \in 0 .. Len(lines) - 1 : SubSeq(lines, 1, k) \in Seq(LogLine)
    BY <2>1
  <2>4. IsFile(spool')
    BY <1>7, <2>1, <2>2, <2>3, FailedWriteIsFile DEF Respool
  <2> QED BY <1>7, <2>4 DEF Respool, WorkerOK
<1>8. CASE Serve
  BY <1>0, <1>8, <1>m DEF Serve, WorkerOK
<1>9. CASE WorkerEnd \/ Start
  BY <1>0, <1>9 DEF WorkerEnd, Start, WorkerOK
<1>10. CASE Crash
  BY <1>0, <1>10 DEF Crash, WorkerOK
<1>11. CASE UNCHANGED worker
  BY <1>0, <1>11, <1>m DEF worker, WorkerOK
<1>12. \/ Take \/ SpoolBehind \/ OpenSpool \/ NextLine \/ Answered
       \/ Refused \/ TimedOut \/ Respool \/ Serve
       \/ WorkerEnd \/ Start \/ Crash \/ UNCHANGED worker
  BY DEF Next, Producer, Worker, Leader, Publish, DropOldest, PutAgain, Close,
     LateServe, LeaderCrash, LeaderStart, Poll
<1> QED BY <1>1, <1>2, <1>3, <1>4, <1>5, <1>6, <1>7, <1>8, <1>9, <1>10, <1>11, <1>12

(* An append changes the number and the log together, and only an append,   *)
(* a start and a death change the leader.                                   *)
LEMMA LeaderSteps ==
  ASSUME TypeOK, Next
  PROVE  \/ UNCHANGED up /\ \E e \in Events : Stored(e) \/ NotStored
         \/ LeaderStart
         \/ UNCHANGED <<seqno, store>> /\ (up' = FALSE \/ UNCHANGED up)
<1>1. CASE Serve
  <2>1. lines[1].ev \in Events
    BY <1>1, HeadIsEvent DEF Serve, TypeOK
  <2> QED BY <1>1, <2>1 DEF Serve
<1>2. CASE LateServe
  BY <1>2 DEF LateServe
<1>3. CASE LeaderCrash
  BY <1>3 DEF LeaderCrash
<1>4. CASE LeaderStart
  BY <1>4
<1>5. CASE UNCHANGED leader
  BY <1>5 DEF leader
<1>6. Serve \/ LateServe \/ LeaderCrash \/ LeaderStart \/ UNCHANGED leader
  BY DEF Next, Producer, Worker, Leader, Publish, DropOldest, PutAgain, Close,
     WorkerEnd, Take, SpoolBehind, OpenSpool, NextLine, Answered, Refused, TimedOut,
     Respool, Poll, Crash, Start
<1> QED BY <1>1, <1>2, <1>3, <1>4, <1>5, <1>6

(* The numbers in the log are bounded, so that there is a greatest one.     *)
LogBounded == \E b \in Nat : \A i \in DOMAIN store.lines : store.lines[i].seq <= b

(* What an append does to the log: lines are kept or become unreadable, and *)
(* one line is new.                                                         *)
LEMMA LogTyped ==
  ASSUME LeaderOK
  PROVE  /\ store.lines \in Seq(LogLine)
         /\ \A i \in DOMAIN store.lines :
              store.lines[i] \in LogLine /\ store.lines[i].seq \in Nat
<1>1. store.lines \in Seq(LogLine)
  BY DEF LeaderOK, IsFile, File
<1>2. \A i \in DOMAIN store.lines : store.lines[i] \in LogLine
  BY <1>1
<1> QED BY <1>1, <1>2 DEF LogLine

(* What _load counts to is the greatest number in the file.                 *)
LEMMA LoadIsGreatest ==
  ASSUME LeaderOK, LogBounded
  PROVE  /\ LoadLastSeq \in Nat
         /\ \A i \in DOMAIN store.lines : store.lines[i].seq <= LoadLastSeq
<1>1. PICK b \in Nat : \A i \in DOMAIN store.lines : store.lines[i].seq <= b
  BY DEF LogBounded
<1>2. Numbers \subseteq Nat /\ 0 \in Numbers
  BY LogTyped DEF Numbers
<1>3. \A m \in Numbers : m <= b
  BY <1>1 DEF Numbers
<1>4. LoadLastSeq \in Numbers /\ \A m \in Numbers : m <= LoadLastSeq
  BY <1>2, <1>3, GreatestIs DEF LoadLastSeq
<1>5. \A i \in DOMAIN store.lines : store.lines[i].seq \in Numbers
  BY DEF Numbers
<1> QED BY <1>2, <1>4, <1>5

(* The lines of a file after a write.                                       *)
LEMMA WriteLines ==
  ASSUME NEW f, IsFile(f), NEW l \in LogLine, NEW g \in {Write(f, l)} \cup FailedWrites(f)
  PROVE  /\ Len(f.lines) \in Nat /\ DOMAIN f.lines = 1 .. Len(f.lines)
         /\ Len(g.lines) \in Nat /\ DOMAIN g.lines = 1 .. Len(g.lines)
         /\ Len(g.lines) \in {Len(f.lines), Len(f.lines) + 1}
         /\ \A i \in DOMAIN g.lines :
              \/ g.lines[i] = Corrupt
              \/ i <= Len(f.lines) /\ g.lines[i] = f.lines[i]
              \/ i = Len(f.lines) + 1 /\ g.lines[i] = l
<1>1. f.lines \in Seq(LogLine) /\ (f.torn => f.lines # << >>)
  BY DEF IsFile, File
<1>2. g = Write(f, l) \/ g = f \/ g = TornWrite(f)
  BY DEF FailedWrites
<1>3. Corrupt \in LogLine
  BY DEF Corrupt, LogLine
<1>4. \/ g.lines = f.lines
      \/ g.lines = Append(f.lines, l)
      \/ g.lines = Append(f.lines, Corrupt)
      \/ f.lines # << >> /\ g.lines = [f.lines EXCEPT ![Len(f.lines)] = Corrupt]
  <2>1. CASE f.torn
    <3>1. Write(f, l).lines = [f.lines EXCEPT ![Len(f.lines)] = Corrupt]
      BY <2>1 DEF Write
    <3>2. TornWrite(f).lines = f.lines
      BY <2>1 DEF TornWrite
    <3> QED BY <1>1, <1>2, <2>1, <3>1, <3>2
  <2>2. CASE ~f.torn
    <3>1. Write(f, l).lines = Append(f.lines, l)
      BY <2>2 DEF Write
    <3>2. TornWrite(f).lines = Append(f.lines, Corrupt)
      BY <2>2 DEF TornWrite
    <3> QED BY <1>2, <3>1, <3>2
  <2> QED BY <2>1, <2>2
<1> HIDE DEF Corrupt
<1>5. CASE g.lines = f.lines
  BY <1>1, <1>5
<1>6. CASE g.lines = Append(f.lines, l)
  BY <1>1, <1>6
<1>7. CASE g.lines = Append(f.lines, Corrupt)
  BY <1>1, <1>3, <1>7
<1>8. CASE f.lines # << >> /\ g.lines = [f.lines EXCEPT ![Len(f.lines)] = Corrupt]
  BY <1>1, <1>3, <1>8
<1> QED BY <1>4, <1>5, <1>6, <1>7, <1>8

(* EventStore.append keeps the types and the bound of the log.              *)
LEMMA AppendOK ==
  ASSUME TypeOK, LogBounded, NEW e \in Events, Stored(e) \/ NotStored
  PROVE  /\ seqno' \in Nat /\ IsFile(store') /\ LogBounded'
         /\ [ev |-> e, seq |-> seqno'] \in LogLine
         /\ store' \in {Write(store, [ev |-> e, seq |-> seqno'])} \cup FailedWrites(store)
<1>0. LeaderOK
  BY DEF TypeOK
<1>1. seqno' = seqno + 1 /\ seqno' \in Nat
  BY <1>0 DEF Stored, NotStored, LeaderOK
<1> DEFINE l == [ev |-> e, seq |-> seqno']
<1>2. l \in LogLine
  BY <1>1 DEF LogLine
<1>3. store' \in {Write(store, l)} \cup FailedWrites(store)
  BY DEF Stored, NotStored
<1>4. IsFile(store) /\ IsFile(store')
  BY <1>0, <1>2, <1>3, WriteIsFile, FailedWriteIsFile DEF LeaderOK
<1>5. LogBounded'
  <2>1. PICK b \in Nat : \A i \in DOMAIN store.lines : store.lines[i].seq <= b
    BY DEF LogBounded
  <2>2. b + seqno' \in Nat
    BY <1>1
  <2>3. ASSUME NEW i \in DOMAIN (store'.lines)
        PROVE  store'.lines[i].seq <= b + seqno'
    <3>1. \/ store'.lines[i] = Corrupt
          \/ i \in DOMAIN store.lines /\ store'.lines[i] = store.lines[i]
          \/ store'.lines[i] = l
      BY <1>2, <1>3, <1>4, <2>3, WriteLines
    <3>2. CASE store'.lines[i] = Corrupt
      BY <3>2, <1>1 DEF Corrupt
    <3>3. CASE i \in DOMAIN store.lines /\ store'.lines[i] = store.lines[i]
      BY <3>3, <1>0, <1>1, <2>1, LogTyped
    <3>4. CASE store'.lines[i] = l
      BY <3>4, <1>1
    <3> QED BY <3>1, <3>2, <3>3, <3>4
  <2> QED BY <2>2, <2>3 DEF LogBounded
<1> QED BY <1>1, <1>2, <1>3, <1>4, <1>5

(* A step of the leader service keeps the types.                            *)
LEMMA LeaderStep ==
  ASSUME TypeOK, LogBounded, Next
  PROVE  LeaderOK' /\ LogBounded'
<1>0. LeaderOK
  BY DEF TypeOK
<1>1. CASE UNCHANGED up /\ \E e \in Events : Stored(e) \/ NotStored
  BY <1>0, <1>1, AppendOK DEF LeaderOK
<1>2. CASE LeaderStart
  <2>1. UNCHANGED store /\ seqno' \in Nat
    BY <1>0, <1>2, LoadIsGreatest DEF LeaderStart
  <2>2. up' \in BOOLEAN
    BY <1>2 DEF LeaderStart
  <2> QED BY <1>0, <2>1, <2>2 DEF LeaderOK, LogBounded
<1>3. CASE UNCHANGED <<seqno, store>> /\ (up' = FALSE \/ UNCHANGED up)
  <2>1. up' \in BOOLEAN
    BY <1>0, <1>3 DEF LeaderOK
  <2> QED BY <1>0, <1>3, <2>1 DEF LeaderOK, LogBounded
<1> QED BY <1>1, <1>2, <1>3, LeaderSteps

(* A poll keeps the types.                                                  *)
LEMMA PollOK ==
  ASSUME TypeOK, Poll
  PROVE  last_seq' \in Nat /\ printed' \subseteq Nat
<1> DEFINE new == {i \in DOMAIN store.lines : IsNew(i)}
<1>0. LeaderOK /\ printed \subseteq Nat
  BY DEF TypeOK
<1>1. /\ new # {} /\ printed' = printed \cup new
      /\ last_seq' = store.lines[Greatest(new)].seq
  BY DEF Poll
<1>2. /\ Len(store.lines) \in Nat /\ DOMAIN store.lines = 1 .. Len(store.lines)
  BY <1>0, LogTyped
<1>3. new \in SUBSET Nat /\ \A m \in new : m <= Len(store.lines)
  BY <1>2
<1>4. Greatest(new) \in new
  BY <1>1, <1>2, <1>3, GreatestIs
<1>5. Greatest(new) \in DOMAIN store.lines
  BY <1>4
<1> QED BY <1>0, <1>1, <1>3, <1>5, LogTyped

(* Every step keeps the types of the history: flight, arrived and lastOk.   *)
LEMMA HistoryStep ==
  ASSUME TypeOK, Next
  PROVE  /\ flight' \in [Events -> Nat]
         /\ arrived' \in Seq(Events) /\ lastOk' \in BOOLEAN
<1>0. flight \in [Events -> Nat] /\ arrived \in Seq(Events) /\ lastOk \in BOOLEAN
  BY DEF TypeOK
<1>1. CASE Serve
  <2>1. lines[1].ev \in Events
    BY <1>1, HeadIsEvent DEF Serve, TypeOK
  <2> QED BY <1>0, <1>1, <2>1 DEF Serve, Arrival
<1>2. CASE LateServe
  BY <1>0, <1>2 DEF LateServe, Arrival
<1>3. CASE TimedOut \/ Crash
  <2>1. req # "none" => lines[1].ev \in Events
    BY HeadIsEvent DEF TypeOK
  <2>2. flight' \in [Events -> Nat] /\ UNCHANGED arrived
    BY <1>0, <1>3, <2>1 DEF TimedOut, Crash, history
  <2>3. lastOk' = lastOk \/ lastOk' = (lastOk /\ pc # "open")
    BY <1>3 DEF TimedOut, Crash, history
  <2>4. lastOk' \in BOOLEAN
    BY <1>0, <2>3, Zenon
  <2> QED BY <1>0, <2>2, <2>4
<1>4. CASE LeaderCrash
  BY <1>0, <1>4 DEF LeaderCrash, history
<1>5. CASE Answered \/ Respool \/ OpenSpool
  <2>1. UNCHANGED <<flight, arrived>>
    BY <1>5 DEF Answered, Respool, OpenSpool
  <2>2. lastOk' \in BOOLEAN
    BY <1>0, <1>5 DEF Answered, Respool, OpenSpool
  <2> QED BY <1>0, <2>1, <2>2
<1>6. CASE UNCHANGED <<flight, history>>
  BY <1>0, <1>6 DEF history
<1>7. \/ Serve \/ LateServe \/ TimedOut \/ Crash \/ LeaderCrash \/ Answered \/ Respool
      \/ OpenSpool \/ UNCHANGED <<flight, history>>
  BY DEF Next, Producer, Worker, Leader, Publish, DropOldest, PutAgain, Close,
     WorkerEnd, Take, SpoolBehind, NextLine, Refused, LeaderStart,
     Poll, Start
<1> QED BY <1>1, <1>2, <1>3, <1>4, <1>5, <1>6, <1>7

(* A step of the follower keeps the types.                                  *)
LEMMA FollowerStep ==
  ASSUME TypeOK, Next
  PROVE  last_seq' \in Nat /\ printed' \subseteq Nat
<1>1. Poll \/ UNCHANGED follower
  BY DEF Next, Producer, Worker, Leader, Publish, DropOldest, PutAgain, Close,
     WorkerEnd, Take, SpoolBehind, OpenSpool, NextLine, Answered, Refused, TimedOut,
     Respool, Serve, LateServe, LeaderCrash, LeaderStart, Crash, Start
<1>2. CASE UNCHANGED follower
  BY <1>2 DEF follower, TypeOK
<1> QED BY <1>1, <1>2, PollOK

(* Every step keeps the types and the bound of the log.                     *)
LEMMA TypeStep == TypeOK /\ LogBounded /\ [Next]_vars => TypeOK' /\ LogBounded'
<1> SUFFICES ASSUME TypeOK, LogBounded, [Next]_vars PROVE TypeOK' /\ LogBounded'
  OBVIOUS
<1>1. CASE Next
  <2>1. FailuresOK'
    BY <1>1, OneFailure, FaultOK DEF TypeOK, FailuresOK
  <2> QED BY <1>1, <2>1, ProducerStep, WorkerStep, LeaderStep, HistoryStep, FollowerStep
          DEF TypeOK, FailuresOK
<1>2. CASE UNCHANGED vars
  <2>1. UNCHANGED <<producer, worker, leader, met>>
    BY <1>2 DEF vars, failures
  <2>2. ProducerOK' /\ WorkerOK' /\ LeaderOK' /\ LogBounded'
    BY <2>1 DEF TypeOK, producer, worker, leader, ProducerOK, WorkerOK, LeaderOK, LogBounded
  <2> QED BY <1>2, <2>2 DEF TypeOK, vars, follower, failures, history
<1> QED BY <1>1, <1>2

(* The empty log is within its bound.                                       *)
LEMMA BoundedInit == Init => LogBounded
BY DEF Init, LogBounded, EmptyFile

(* TypeOK is an invariant: while the worker sends what was spooled, the     *)
(* spool is empty, and what it sends is an event; the leader's log is a     *)
(* log.                                                                     *)
THEOREM TypeCorrect == Spec => []TypeOK
<1>1. Spec => [](TypeOK /\ LogBounded)
  BY TypeInit, BoundedInit, TypeStep, PTL DEF Spec
<1> QED BY <1>1, PTL

-----------------------------------------------------------------------------
(* Sequence numbers.                                                        *)

(* Unless a start could not read the log, the leader stands at or beyond    *)
(* every number in it; so the next one is new and the greatest.             *)
AtOrBeyond ==
  "load" \notin met => \A i \in DOMAIN store.lines : store.lines[i].seq <= seqno

NumberInv == TypeOK /\ LogBounded /\ AtOrBeyond /\ NumbersIncrease

(* append writes a number above every number of the log.                    *)
LEMMA NumberAppend ==
  ASSUME NumberInv, "load" \notin met, NEW e \in Events, Stored(e) \/ NotStored
  PROVE  /\ \A i \in DOMAIN (store'.lines) : store'.lines[i].seq <= seqno'
         /\ \A i, j \in DOMAIN (store'.lines) :
              i < j /\ Readable(store'.lines[i]) /\ Readable(store'.lines[j]) =>
                store'.lines[i].seq < store'.lines[j].seq
<1> DEFINE l == [ev |-> e, seq |-> seqno']
<1>0. LeaderOK /\ IsFile(store)
  BY DEF NumberInv, TypeOK, LeaderOK
<1>1. seqno' = seqno + 1 /\ seqno \in Nat
  BY <1>0 DEF Stored, NotStored, LeaderOK
<1>2. l \in LogLine /\ store' \in {Write(store, l)} \cup FailedWrites(store)
  BY AppendOK DEF NumberInv
<1>3. /\ DOMAIN store.lines = 1 .. Len(store.lines) /\ Len(store.lines) \in Nat
      /\ DOMAIN (store'.lines) \subseteq Nat
      /\ \A i \in DOMAIN (store'.lines) :
           \/ store'.lines[i] = Corrupt
           \/ i \in DOMAIN store.lines /\ store'.lines[i] = store.lines[i]
           \/ i = Len(store.lines) + 1 /\ store'.lines[i] = l
  BY <1>0, <1>2, WriteLines
<1>4. \A i \in DOMAIN store.lines :
        store.lines[i].seq \in Nat /\ store.lines[i].seq <= seqno
  BY <1>0, LogTyped DEF NumberInv, AtOrBeyond
<1>5. ASSUME NEW i \in DOMAIN (store'.lines) PROVE store'.lines[i].seq <= seqno'
  BY <1>1, <1>3, <1>4, <1>5 DEF Corrupt
<1>6. ASSUME NEW i \in DOMAIN (store'.lines), NEW j \in DOMAIN (store'.lines), i < j,
             Readable(store'.lines[i]), Readable(store'.lines[j])
      PROVE  store'.lines[i].seq < store'.lines[j].seq
  <2>1. i \in DOMAIN store.lines /\ store'.lines[i] = store.lines[i]
    <3>1. store'.lines[i] # Corrupt /\ store'.lines[j] # Corrupt
      BY <1>6 DEF Readable, Corrupt
    <3>2. j <= Len(store.lines) + 1
      BY <1>3, <3>1
    <3> QED BY <1>3, <1>6, <3>1, <3>2
  <2>2. CASE j \in DOMAIN store.lines /\ store'.lines[j] = store.lines[j]
    BY <1>6, <2>1, <2>2 DEF NumberInv, NumbersIncrease
  <2>3. CASE store'.lines[j] = l
    BY <1>1, <1>4, <2>1, <2>3
  <2>4. store'.lines[j] # Corrupt
    BY <1>6 DEF Readable, Corrupt
  <2> QED BY <1>3, <2>2, <2>3, <2>4
<1> QED BY <1>5, <1>6

(* Every step keeps the numbering.                                          *)
LEMMA NumberStep == NumberInv /\ [Next]_vars => NumberInv'
<1> SUFFICES ASSUME NumberInv, [Next]_vars PROVE NumberInv'
  OBVIOUS
<1>0. TypeOK' /\ LogBounded'
  BY TypeStep DEF NumberInv
<1>1. CASE Next
  <2> SUFFICES ASSUME "load" \notin met' PROVE AtOrBeyond' /\ NumbersIncrease'
    BY <1>0 DEF NumberInv, AtOrBeyond, NumbersIncrease
  <2>1. "load" \notin met
    BY <1>1, OneFailure, FaultOK DEF NumberInv, TypeOK, FailuresOK
  <2>2. CASE \E e \in Events : Stored(e) \/ NotStored
    BY <2>1, <2>2, NumberAppend DEF AtOrBeyond, NumbersIncrease
  <2>3. CASE LeaderStart
    <3>1. UNCHANGED store /\ seqno' = LoadLastSeq
      BY <2>3 DEF LeaderStart, Fault
    <3> QED BY <2>1, <3>1, LoadIsGreatest
            DEF NumberInv, TypeOK, AtOrBeyond, NumbersIncrease
  <2>4. CASE UNCHANGED <<seqno, store>>
    BY <2>1, <2>4 DEF NumberInv, AtOrBeyond, NumbersIncrease
  <2> QED BY <1>1, <2>2, <2>3, <2>4, LeaderSteps DEF NumberInv
<1>2. CASE UNCHANGED vars
  BY <1>0, <1>2 DEF NumberInv, AtOrBeyond, NumbersIncrease, vars, leader, failures
<1> QED BY <1>1, <1>2

(* The numbers in the leader's log increase, for any number of failed and   *)
(* torn writes, deaths and restarts, unless a start could not read the log. *)
THEOREM NumbersAlwaysIncrease == Spec => []NumbersIncrease
<1>1. Init => NumberInv
  BY TypeInit, BoundedInit DEF NumberInv, AtOrBeyond, NumbersIncrease, Init, EmptyFile
<1> QED BY <1>1, NumberStep, PTL DEF Spec, NumberInv

-----------------------------------------------------------------------------
(* What the worker holds between two steps.                                 *)

(* The worker has an event in its hands only while it spools or sends; a    *)
(* backlog exists only after a failed attempt to deliver or to read it,     *)
(* unless it is about to be read; and an event is spooled behind one only   *)
(* where there is one.                                                      *)
Hands ==
  /\ pc \in {"get", "open", "down"} => lines = << >>
  /\ pc = "spool" => Len(lines) = 1 /\ spool.lines # << >>
  /\ spool.lines # << >> => ~lastOk \/ pc = "open"

(* Every step keeps the hands of the two threads consistent.                *)
LEMMA HandsStep ==
  ASSUME TypeOK, Hands, [Next]_vars
  PROVE  Hands'
<1>0. WorkerOK /\ lines \in Seq(LogLine) /\ spool.lines \in Seq(LogLine)
  BY DEF TypeOK, WorkerOK, IsFile, File
<1>1. CASE Take
  <2>1. /\ lines' = <<Line(Head(q))>> /\ UNCHANGED <<spool, lastOk>>
        /\ pc = "get" /\ pc' \in {"spool", "direct"}
        /\ pc' = "spool" => spool.lines # << >>
    BY <1>1 DEF Take, history
  <2>2. Len(lines') = 1
    BY <2>1
  <2> QED BY <2>1, <2>2 DEF Hands
<1>2. CASE SpoolBehind
  <2>1. pc' = "open" /\ lines' = << >>
    BY <1>2 DEF SpoolBehind
  <2> QED BY <2>1 DEF Hands
<1>3. CASE OpenSpool
  BY <1>3 DEF OpenSpool, Hands, history, EmptyFile
<1>4. CASE NextLine
  BY <1>0, <1>4 DEF NextLine, WorkerOK, Hands, history
<1>5. CASE Answered
  <2>1. CASE pc = "send"
    <3>1. pc' = "send" /\ spool' = EmptyFile
      BY <1>0, <1>5, <2>1 DEF Answered, WorkerOK
    <3> QED BY <3>1 DEF Hands, EmptyFile
  <2>2. CASE pc = "direct"
    <3>1. pc' = "open" /\ lines' = Tail(lines) /\ Len(lines) = 1
      BY <1>0, <1>5, <2>2 DEF Answered, WorkerOK
    <3>2. lines' = << >>
      BY <1>0, <3>1
    <3> QED BY <3>1, <3>2 DEF Hands
  <2> QED BY <1>0, <1>5, <2>1, <2>2 DEF Answered, WorkerOK
<1>6. CASE Respool
  <2>1. pc' = "get" /\ lines' = << >> /\ ~lastOk'
    BY <1>6 DEF Respool
  <2> QED BY <2>1 DEF Hands
<1>7. CASE WorkerEnd \/ Start
  BY <1>7 DEF WorkerEnd, Start, Hands, history
<1>c. CASE Crash
  <2>1. pc' = "down" /\ lines' = << >> /\ UNCHANGED spool
    BY <1>c DEF Crash
  <2>2. ~lastOk \/ pc = "open" => ~lastOk'
    BY <1>c, Zenon DEF Crash
  <2> QED BY <2>1, <2>2 DEF Hands
<1>8. CASE UNCHANGED <<pc, lines, spool, lastOk>>
  BY <1>8 DEF Hands
<1>9. \/ Take \/ SpoolBehind \/ OpenSpool \/ NextLine \/ Answered \/ Respool
      \/ WorkerEnd \/ Start \/ Crash \/ UNCHANGED <<pc, lines, spool, lastOk>>
  BY DEF Next, Producer, Worker, Leader, Publish, DropOldest, PutAgain, Close,
     Refused, TimedOut, Serve, LateServe, LeaderCrash, LeaderStart, Poll, worker,
     history, vars
<1> QED BY <1>1, <1>2, <1>3, <1>4, <1>5, <1>6, <1>7, <1>c, <1>8, <1>9

(* A backlog that is left when the worker turns to the next event follows a *)
(* failed delivery or a failed reading of the spool, in every reachable     *)
(* state; also where _spool_backlog could not look and an event was sent    *)
(* past the backlog.                                                        *)
THEOREM BacklogAfterFailure == Spec => []BacklogMeansFailure
<1>1. Init => Hands
  BY DEF Init, Hands, EmptyFile
<1>2. Hands => BacklogMeansFailure
  BY DEF Hands, BacklogMeansFailure
<1>3. TypeOK /\ Hands /\ [Next]_vars => Hands'
  BY HandsStep
<1> QED BY <1>1, <1>2, <1>3, TypeCorrect, PTL DEF Spec

-----------------------------------------------------------------------------
(* The follower.                                                            *)

(* A torn file ends in an unreadable line. *)
TornEnd(f) == f.torn => ~Readable(f.lines[Len(f.lines)])

(* No write, whole, torn or failed, takes a readable line away; at most the *)
(* line written becomes a new readable one, at the end.                     *)
LEMMA ReadableStay ==
  ASSUME NEW f, IsFile(f), TornEnd(f), NEW l \in LogLine,
         NEW g \in {Write(f, l)} \cup FailedWrites(f)
  PROVE  /\ TornEnd(g)
         /\ \A i \in DOMAIN f.lines : Readable(f.lines[i]) =>
              i \in DOMAIN g.lines /\ g.lines[i] = f.lines[i]
         /\ \A i \in DOMAIN g.lines : Readable(g.lines[i]) =>
              \/ i \in DOMAIN f.lines /\ g.lines[i] = f.lines[i]
              \/ i = Len(f.lines) + 1 /\ g.lines[i] = l
<1>1. f.lines \in Seq(LogLine) /\ (f.torn => f.lines # << >>)
  BY DEF IsFile, File
<1>2. Corrupt \in LogLine /\ ~Readable(Corrupt)
  BY DEF Corrupt, LogLine, Readable
<1>3. g = Write(f, l) \/ g = f \/ g = TornWrite(f)
  BY DEF FailedWrites
<1> HIDE DEF Corrupt
<1>4. \/ g.lines = f.lines /\ g.torn = f.torn
      \/ g.lines = f.lines /\ f.torn
      \/ g.lines = Append(f.lines, l) /\ ~g.torn
      \/ g.lines = Append(f.lines, Corrupt)
      \/ /\ f.lines # << >> /\ f.torn /\ ~g.torn
         /\ g.lines = [f.lines EXCEPT ![Len(f.lines)] = Corrupt]
  <2>1. CASE f.torn
    <3>1. /\ Write(f, l).lines = [f.lines EXCEPT ![Len(f.lines)] = Corrupt]
          /\ ~Write(f, l).torn
      BY <2>1 DEF Write
    <3>2. TornWrite(f).lines = f.lines
      BY <2>1 DEF TornWrite
    <3> QED BY <1>1, <1>3, <2>1, <3>1, <3>2
  <2>2. CASE ~f.torn
    <3>1. Write(f, l).lines = Append(f.lines, l) /\ ~Write(f, l).torn
      BY <2>2 DEF Write
    <3>2. TornWrite(f).lines = Append(f.lines, Corrupt)
      BY <2>2 DEF TornWrite
    <3> QED BY <1>3, <3>1, <3>2
  <2> QED BY <2>1, <2>2
<1>5. CASE g.lines = f.lines /\ (g.torn = f.torn \/ f.torn)
  BY <1>1, <1>5 DEF TornEnd
<1>6. CASE g.lines = Append(f.lines, l) /\ ~g.torn
  BY <1>1, <1>6 DEF TornEnd
<1>7. CASE g.lines = Append(f.lines, Corrupt)
  BY <1>1, <1>2, <1>7 DEF TornEnd
<1>8. CASE /\ f.lines # << >> /\ f.torn /\ ~g.torn
           /\ g.lines = [f.lines EXCEPT ![Len(f.lines)] = Corrupt]
  BY <1>1, <1>2, <1>8 DEF TornEnd
<1> QED BY <1>4, <1>5, <1>6, <1>7, <1>8

(* The lines the follower owes its reader when it stands at number n. *)
UpTo(n) == {i \in DOMAIN store.lines : Readable(store.lines[i]) /\ store.lines[i].seq <= n}

(* The follower stands at the number of a line in the log, and behind the   *)
(* leader; while the log fits into its window it has printed what it owes.  *)
FollowerInv ==
  /\ TornEnd(store)
  /\ \A i \in DOMAIN store.lines : Readable(store.lines[i]) => store.lines[i].seq > 0
  /\ \/ last_seq = 0
     \/ \E i \in DOMAIN store.lines :
          Readable(store.lines[i]) /\ store.lines[i].seq = last_seq
  /\ FollowerInStep

(* append keeps the invariant of the follower.                              *)
LEMMA FollowerAppend ==
  ASSUME NumberInv, FollowerInv, NEW e \in Events, Stored(e) \/ NotStored,
         UNCHANGED follower, met \subseteq met'
  PROVE  FollowerInv'
<1> DEFINE l == [ev |-> e, seq |-> seqno']
<1>0. LeaderOK /\ IsFile(store) /\ TypeOK /\ LogBounded /\ last_seq \in Nat
  BY DEF NumberInv, TypeOK, LeaderOK
<1>1. seqno' = seqno + 1 /\ seqno \in Nat
  BY <1>0 DEF Stored, NotStored, LeaderOK
<1>2. l \in LogLine /\ store' \in {Write(store, l)} \cup FailedWrites(store)
  BY <1>0, AppendOK
<1>3. /\ TornEnd(store')
      /\ \A i \in DOMAIN store.lines : Readable(store.lines[i]) =>
           i \in DOMAIN (store'.lines) /\ store'.lines[i] = store.lines[i]
      /\ \A i \in DOMAIN (store'.lines) : Readable(store'.lines[i]) =>
           \/ i \in DOMAIN store.lines /\ store'.lines[i] = store.lines[i]
           \/ i = Len(store.lines) + 1 /\ store'.lines[i] = l
  BY <1>0, <1>2, ReadableStay DEF FollowerInv
<1>4. /\ Len(store.lines) \in Nat /\ Len(store'.lines) \in Nat
      /\ Len(store.lines) <= Len(store'.lines)
  BY <1>0, <1>2, WriteLines
<1>5. l.seq > 0 /\ l.seq = seqno + 1
  BY <1>1
<1> HIDE DEF l
<1>6. \A i \in DOMAIN (store'.lines) :
        Readable(store'.lines[i]) => store'.lines[i].seq > 0
  BY <1>3, <1>5 DEF FollowerInv
<1>7. last_seq' = last_seq /\ printed' = printed
  BY DEF follower
<1>8. \/ last_seq' = 0
      \/ \E i \in DOMAIN (store'.lines) :
           Readable(store'.lines[i]) /\ store'.lines[i].seq = last_seq'
  BY <1>3, <1>7 DEF FollowerInv
<1>9. ASSUME "load" \notin met', Len(store'.lines) <= Window
      PROVE  printed' = {i \in DOMAIN (store'.lines) :
               Readable(store'.lines[i]) /\ store'.lines[i].seq <= last_seq'}
  <2>1. "load" \notin met /\ Len(store.lines) <= Window
    BY <1>4, <1>9, CopyAssumption
  <2>2. last_seq <= seqno
    BY <1>0, <1>1, <2>1 DEF FollowerInv, NumberInv, AtOrBeyond
  <2>3. printed = UpTo(last_seq)
    BY <2>1 DEF FollowerInv, FollowerInStep, UpTo
  <2>4. \A i : i \in DOMAIN (store'.lines) /\ Readable(store'.lines[i])
                 /\ store'.lines[i].seq <= last_seq
               <=> i \in UpTo(last_seq)
    BY <1>0, <1>1, <1>3, <1>5, <2>2 DEF UpTo
  <2>5. QED
    BY <1>7, <2>3, <2>4
<1> QED BY <1>3, <1>6, <1>8, <1>9 DEF FollowerInv, FollowerInStep

(* A poll keeps the invariant of the follower.                              *)
LEMMA FollowerPoll ==
  ASSUME NumberInv, FollowerInv, Poll
  PROVE  FollowerInv'
<1> DEFINE new == {i \in DOMAIN store.lines : IsNew(i)}
           last == Greatest(new)
<1>0. LeaderOK /\ last_seq \in Nat
  BY DEF NumberInv, TypeOK
<1>1. /\ new # {} /\ printed' = printed \cup new
      /\ last_seq' = store.lines[last].seq /\ UNCHANGED <<store, met>>
  BY DEF Poll, leader, failures
<1>2. Len(store.lines) \in Nat /\ DOMAIN store.lines = 1 .. Len(store.lines)
  BY <1>0, LogTyped
<1>3. new \in SUBSET Nat /\ \A m \in new : m <= Len(store.lines)
  BY <1>2
<1>4. last \in new /\ \A m \in new : m <= last
  BY <1>1, <1>2, <1>3, GreatestIs
<1>5. \A i \in new : /\ i \in DOMAIN store.lines /\ Readable(store.lines[i])
                     /\ store.lines[i].seq > last_seq
  BY DEF IsNew
<1>6. ASSUME "load" \notin met, Len(store.lines) <= Window
      PROVE  printed' = {i \in DOMAIN store.lines :
                           Readable(store.lines[i]) /\ store.lines[i].seq <= last_seq'}
  <2>1. printed = UpTo(last_seq)
    BY <1>6 DEF FollowerInv, FollowerInStep, UpTo
  <2>2. \A i \in DOMAIN store.lines : store.lines[i].seq \in Nat /\ i \in Nat
    BY <1>0, <1>2, LogTyped
  <2>3. \A i, j \in DOMAIN store.lines :
          i < j /\ Readable(store.lines[i]) /\ Readable(store.lines[j]) =>
            store.lines[i].seq < store.lines[j].seq
    BY <1>6 DEF NumberInv, NumbersIncrease
  <2>4. \A i \in DOMAIN store.lines :
          Readable(store.lines[i]) /\ store.lines[i].seq > last_seq => i \in new
    BY <1>2, <1>6, <2>3, CopyAssumption DEF IsNew, InWindow
  <2> HIDE DEF new, last
  <2>5. \A i \in new : store.lines[i].seq <= last_seq'
    BY <1>1, <1>4, <1>5, <2>2, <2>3
  <2>6. ASSUME NEW i \in DOMAIN store.lines
        PROVE  i \in UpTo(last_seq) \cup new <=>
                 Readable(store.lines[i]) /\ store.lines[i].seq <= last_seq'
    <3>1. last_seq' > last_seq /\ last_seq' \in Nat
      BY <1>1, <1>4, <1>5, <2>2
    <3> QED BY <1>0, <1>5, <2>2, <2>4, <2>5, <3>1 DEF UpTo
  <2>7. UpTo(last_seq) \cup new \subseteq DOMAIN store.lines
    BY <1>5 DEF UpTo
  <2> QED BY <1>1, <2>1, <2>6, <2>7
<1>7. \E i \in DOMAIN store.lines :
        Readable(store.lines[i]) /\ store.lines[i].seq = last_seq'
  BY <1>1, <1>4, <1>5
<1> QED BY <1>1, <1>6, <1>7 DEF FollowerInv, FollowerInStep

(* Every step keeps the invariant of the follower.                          *)
LEMMA FollowerInvStep ==
  NumberInv /\ FollowerInv /\ [Next]_vars => FollowerInv'
<1> SUFFICES ASSUME NumberInv, FollowerInv, [Next]_vars PROVE FollowerInv'
  OBVIOUS
<1>1. UNCHANGED vars \/ Next
  OBVIOUS
<1>2. met \subseteq met'
  BY <1>1, OneFailure, FaultOK
  DEF NumberInv, TypeOK, FailuresOK, vars, failures
<1>3. CASE Poll
  BY <1>3, FollowerPoll
<1>4. CASE UNCHANGED <<follower, store>>
  BY <1>2, <1>4 DEF FollowerInv, FollowerInStep, follower
<1>5. CASE Next /\ ~UNCHANGED store
  <2>1. \E e \in Events : Stored(e) \/ NotStored
    BY <1>5, LeaderSteps DEF NumberInv, LeaderStart
  <2>2. UNCHANGED follower
    BY <1>5 DEF Next, Producer, Worker, Leader, Publish, DropOldest, PutAgain, Close,
      WorkerEnd, Take, SpoolBehind, OpenSpool, NextLine, Answered, Refused, TimedOut,
      Respool, Serve, LateServe, LeaderCrash, LeaderStart, Crash, Start, Poll, leader
  <2> QED BY <1>2, <2>1, <2>2, FollowerAppend
<1>6. Poll \/ UNCHANGED follower
  BY <1>1 DEF Next, Producer, Worker, Leader, Publish, DropOldest, PutAgain, Close,
     WorkerEnd, Take, SpoolBehind, OpenSpool, NextLine, Answered, Refused, TimedOut,
     Respool, Serve, LateServe, LeaderCrash, LeaderStart, Crash, Start, vars
<1>7. UNCHANGED vars => UNCHANGED store
  BY DEF vars, leader
<1> QED BY <1>1, <1>3, <1>4, <1>5, <1>6, <1>7

-----------------------------------------------------------------------------
(* The order of arrival.                                                    *)

Elems(s) == {s[i] : i \in DOMAIN s}
Sorted(s) == \A i, j \in DOMAIN s : i < j => s[i] < s[j]
InOrder(ls) == \A i, j \in DOMAIN ls : i < j => ls[i].ev < ls[j].ev
Whole(ls) == \A i \in DOMAIN ls : Readable(ls[i])

(* The events the worker holds, and those that publish has already passed.  *)
Held == EventsOf(lines) \cup EventsOf(spool.lines)
Ahead(x) == x <= published /\ (hand # "idle" => x # published)

(* The pipeline is in the order of publication: backlog, then what is being *)
(* sent, then the queue, then the event in the hand of publish; and nothing *)
(* that arrived is ahead of it.  A request that was given up is for an      *)
(* event that arrived or for the head of the pipeline: that is why a late   *)
(* arrival overtakes nothing.                                               *)
Queued ==
  /\ Sorted(q)
  /\ \A x \in Held \cup Elems(arrived), y \in Elems(q) : x < y
  /\ \A x \in Held \cup Elems(arrived) \cup Elems(q) : Ahead(x)

InHand ==
  /\ ~spool.torn /\ Whole(spool.lines) /\ Whole(lines)
  /\ InOrder(lines) /\ InOrder(spool.lines)
  /\ \A x \in EventsOf(spool.lines), y \in EventsOf(lines) : x < y

Sending == pc \in {"direct", "send"}

Late ==
  /\ Sorted(arrived)
  /\ \A a \in Elems(arrived), x \in Held : a <= x
  /\ req = "ok" => lines[1].ev \in Elems(arrived)
  /\ \A e \in Events : flight[e] > 0 =>
       \/ e \in Elems(arrived)
       \/ Sending /\ lines # << >> /\ e = lines[1].ev
       \/ spool.lines # << >> /\ e = spool.lines[1].ev

Pipeline == Queued /\ InHand /\ Late
Trusted == met \cap {"crash", "spool"} = {}
OrderInv == Trusted => Pipeline

(* As long as the spool can be looked at, it is empty while the worker      *)
(* sends.                                                                   *)
LEMMA SendingAlone ==
  ASSUME WorkerOK, Sending, "spool" \notin met
  PROVE  spool = EmptyFile
BY DEF WorkerOK, Sending

(* What is in the pipeline are published events.                            *)
LEMMA PipelineTypes ==
  ASSUME TypeOK, InHand
  PROVE  /\ lines \in Seq(LogLine) /\ spool.lines \in Seq(LogLine)
         /\ Held \subseteq Events /\ Elems(arrived) \subseteq Events
         /\ Elems(q) \subseteq Events /\ published \in Nat
         /\ q \in Seq(Events) /\ arrived \in Seq(Events)
         /\ \A e \in Events : e \in Nat /\ e > 0
<1>1. lines \in Seq(LogLine) /\ spool.lines \in Seq(LogLine)
  BY DEF TypeOK, WorkerOK, IsFile, File
<1>2. \A ls \in Seq(LogLine) : Whole(ls) => EventsOf(ls) \subseteq Events
  <2> SUFFICES ASSUME NEW ls \in Seq(LogLine), Whole(ls), NEW i \in DOMAIN ls
               PROVE  ls[i].ev \in Events
    BY DEF EventsOf
  <2>1. ls[i] \in LogLine /\ ls[i].ev # 0
    BY DEF Whole, Readable
  <2> QED BY <2>1 DEF LogLine
<1>3. Held \subseteq Events
  BY <1>1, <1>2 DEF InHand, Held
<1>4. q \in Seq(Events) /\ arrived \in Seq(Events) /\ published \in Nat
  BY DEF TypeOK, ProducerOK
<1>5. Elems(q) \subseteq Events /\ Elems(arrived) \subseteq Events
  BY <1>4 DEF Elems
<1>6. \A e \in Events : e \in Nat /\ e > 0
  BY CopyAssumption DEF Events
<1> QED BY <1>1, <1>3, <1>4, <1>5, <1>6

(* What the two ends of a queue hold.                                       *)
LEMMA TailQueue ==
  ASSUME NEW s \in Seq(Events), s # << >>
  PROVE  /\ Tail(s) \in Seq(Events) /\ Head(s) \in Elems(s)
         /\ Elems(Tail(s)) \subseteq Elems(s)
         /\ Sorted(s) => Sorted(Tail(s)) /\ \A y \in Elems(Tail(s)) : Head(s) < y
<1>1. /\ Tail(s) \in Seq(Events) /\ Len(Tail(s)) = Len(s) - 1
      /\ \A i \in 1 .. Len(s) - 1 : Tail(s)[i] = s[i + 1]
      /\ Head(s) = s[1] /\ 1 \in DOMAIN s /\ Len(s) \in Nat
  OBVIOUS
<1>2. /\ DOMAIN Tail(s) = 1 .. Len(s) - 1 /\ DOMAIN s = 1 .. Len(s)
  BY <1>1
<1>3. \A i \in DOMAIN Tail(s) : i + 1 \in DOMAIN s /\ Tail(s)[i] = s[i + 1] /\ 1 < i + 1
  BY <1>1, <1>2
<1>4. Elems(Tail(s)) \subseteq Elems(s) /\ Head(s) \in Elems(s)
  BY <1>1, <1>3 DEF Elems
<1>5. ASSUME Sorted(s)
      PROVE  Sorted(Tail(s)) /\ \A y \in Elems(Tail(s)) : Head(s) < y
  <2>1. \A y \in Elems(Tail(s)) : Head(s) < y
    BY <1>1, <1>3, <1>5 DEF Elems, Sorted
  <2>2. ASSUME NEW i \in DOMAIN Tail(s), NEW j \in DOMAIN Tail(s), i < j
        PROVE  Tail(s)[i] < Tail(s)[j]
    <3>1. i + 1 < j + 1
      BY <1>2, <2>2
    <3> QED BY <1>3, <1>5, <3>1 DEF Sorted
  <2> QED BY <2>1, <2>2 DEF Sorted
<1> QED BY <1>1, <1>4, <1>5

(* A queue with an element appended: its elements and its order.            *)
LEMMA AppendQueue ==
  ASSUME NEW s \in Seq(Events), NEW e \in Events
  PROVE  /\ Elems(Append(s, e)) = Elems(s) \cup {e}
         /\ Sorted(s) /\ (\A x \in Elems(s) : x < e) => Sorted(Append(s, e))
<1> DEFINE a == Append(s, e)
<1>1. /\ DOMAIN a = 1 .. Len(s) + 1 /\ DOMAIN s = 1 .. Len(s) /\ Len(s) \in Nat
      /\ \A i \in DOMAIN s : a[i] = s[i]
      /\ a[Len(s) + 1] = e
  OBVIOUS
<1> HIDE DEF a
<1>2. \A i \in DOMAIN a : i \in DOMAIN s \/ i = Len(s) + 1
  BY <1>1
<1>3. Elems(a) = Elems(s) \cup {e}
  BY <1>1, <1>2 DEF Elems
<1>4. ASSUME Sorted(s), \A x \in Elems(s) : x < e
      PROVE  Sorted(a)
  <2> SUFFICES ASSUME NEW i \in DOMAIN a, NEW j \in DOMAIN a, i < j
               PROVE  a[i] < a[j]
    BY DEF Sorted
  <2>1. i \in DOMAIN s
    BY <1>1, <1>2
  <2>2. CASE j \in DOMAIN s
    BY <1>1, <1>4, <2>1, <2>2 DEF Sorted
  <2>3. CASE j = Len(s) + 1
    BY <1>1, <1>4, <2>1, <2>3 DEF Elems
  <2> QED BY <1>2, <2>2, <2>3
<1> QED BY <1>3, <1>4 DEF a

(* Every element of a queue is its head or in its tail.                     *)
LEMMA QueueSplit ==
  ASSUME NEW s \in Seq(Events), s # << >>
  PROVE  \A i \in DOMAIN s : i = 1 \/ s[i] \in Elems(Tail(s))
<1> SUFFICES ASSUME NEW i \in DOMAIN s, i # 1 PROVE s[i] \in Elems(Tail(s))
  OBVIOUS
<1>1. /\ DOMAIN Tail(s) = 1 .. Len(s) - 1 /\ DOMAIN s = 1 .. Len(s) /\ Len(s) \in Nat
      /\ \A j \in 1 .. Len(s) - 1 : Tail(s)[j] = s[j + 1]
  OBVIOUS
<1>2. i - 1 \in 1 .. Len(s) - 1 /\ (i - 1) + 1 = i
  BY <1>1
<1> QED BY <1>1, <1>2 DEF Elems

(* The same for lines: the head of a list in order is its least event.      *)
LEMMA TailLines ==
  ASSUME NEW ls \in Seq(LogLine), ls # << >>
  PROVE  /\ ls[1].ev \in EventsOf(ls) /\ Tail(ls) \in Seq(LogLine)
         /\ EventsOf(Tail(ls)) \subseteq EventsOf(ls)
         /\ EventsOf(ls) = EventsOf(Tail(ls)) \cup {ls[1].ev}
         /\ Whole(ls) => Whole(Tail(ls))
         /\ InOrder(ls) => /\ InOrder(Tail(ls))
                           /\ \A x \in EventsOf(Tail(ls)) : ls[1].ev < x
<1>1. /\ Tail(ls) \in Seq(LogLine) /\ Len(Tail(ls)) = Len(ls) - 1
      /\ \A i \in 1 .. Len(ls) - 1 : Tail(ls)[i] = ls[i + 1]
      /\ 1 \in DOMAIN ls /\ Len(ls) \in Nat
  OBVIOUS
<1>2. DOMAIN Tail(ls) = 1 .. Len(ls) - 1 /\ DOMAIN ls = 1 .. Len(ls)
  BY <1>1
<1>3. \A i \in DOMAIN Tail(ls) :
        i + 1 \in DOMAIN ls /\ Tail(ls)[i] = ls[i + 1] /\ 1 < i + 1
  BY <1>1, <1>2
<1>t. ASSUME NEW i \in DOMAIN ls, i # 1
      PROVE  i - 1 \in DOMAIN Tail(ls) /\ Tail(ls)[i - 1] = ls[i]
  <2>1. i - 1 \in 1 .. Len(ls) - 1 /\ (i - 1) + 1 = i
    BY <1>1, <1>2, <1>t
  <2> QED BY <1>1, <1>2, <2>1
<1>4. /\ ls[1].ev \in EventsOf(ls) /\ EventsOf(Tail(ls)) \subseteq EventsOf(ls)
      /\ EventsOf(ls) = EventsOf(Tail(ls)) \cup {ls[1].ev}
  <2>1. ls[1].ev \in EventsOf(ls) /\ EventsOf(Tail(ls)) \subseteq EventsOf(ls)
    BY <1>1, <1>3 DEF EventsOf
  <2>2. ASSUME NEW i \in DOMAIN ls
        PROVE  ls[i].ev \in EventsOf(Tail(ls)) \cup {ls[1].ev}
    BY <1>t DEF EventsOf
  <2>3. EventsOf(ls) \subseteq EventsOf(Tail(ls)) \cup {ls[1].ev}
    BY <2>2 DEF EventsOf
  <2> QED BY <2>1, <2>3
<1>5. Whole(ls) => Whole(Tail(ls))
  BY <1>3 DEF Whole
<1>6. ASSUME InOrder(ls)
      PROVE  InOrder(Tail(ls)) /\ \A x \in EventsOf(Tail(ls)) : ls[1].ev < x
  <2>1. \A x \in EventsOf(Tail(ls)) : ls[1].ev < x
    BY <1>1, <1>3, <1>6 DEF EventsOf, InOrder
  <2>2. ASSUME NEW i \in DOMAIN Tail(ls), NEW j \in DOMAIN Tail(ls), i < j
        PROVE  Tail(ls)[i].ev < Tail(ls)[j].ev
    <3>1. i + 1 < j + 1
      BY <1>2, <2>2
    <3> QED BY <1>3, <1>6, <3>1 DEF InOrder
  <2> QED BY <2>1, <2>2 DEF InOrder
<1> QED BY <1>1, <1>4, <1>5, <1>6

(* A file with a line appended: its events and their order.                 *)
LEMMA AppendLines ==
  ASSUME NEW ls \in Seq(LogLine), NEW l \in LogLine
  PROVE  /\ EventsOf(Append(ls, l)) = EventsOf(ls) \cup {l.ev}
         /\ Whole(ls) /\ Readable(l) => Whole(Append(ls, l))
         /\ InOrder(ls) /\ (\A x \in EventsOf(ls) : x < l.ev) => InOrder(Append(ls, l))
<1> DEFINE a == Append(ls, l)
<1>1. /\ DOMAIN a = 1 .. Len(ls) + 1 /\ DOMAIN ls = 1 .. Len(ls) /\ Len(ls) \in Nat
      /\ \A i \in DOMAIN ls : a[i] = ls[i]
      /\ a[Len(ls) + 1] = l
  OBVIOUS
<1> HIDE DEF a
<1>2. \A i \in DOMAIN a : i \in DOMAIN ls \/ i = Len(ls) + 1
  BY <1>1
<1>3. EventsOf(a) = EventsOf(ls) \cup {l.ev}
  BY <1>1, <1>2 DEF EventsOf
<1>4. Whole(ls) /\ Readable(l) => Whole(a)
  BY <1>1, <1>2 DEF Whole
<1>5. ASSUME InOrder(ls), \A x \in EventsOf(ls) : x < l.ev
      PROVE  InOrder(a)
  <2> SUFFICES ASSUME NEW i \in DOMAIN a, NEW j \in DOMAIN a, i < j
               PROVE  a[i].ev < a[j].ev
    BY DEF InOrder
  <2>1. i \in DOMAIN ls
    BY <1>1, <1>2
  <2>2. CASE j \in DOMAIN ls
    BY <1>1, <1>5, <2>1, <2>2 DEF InOrder
  <2>3. CASE j = Len(ls) + 1
    BY <1>1, <1>5, <2>1, <2>3 DEF EventsOf
  <2> QED BY <1>2, <2>2, <2>3
<1> QED BY <1>3, <1>4, <1>5 DEF a

(* publish: what it appends is newer than everything.                       *)
LEMMA PublishKeepsOrder ==
  ASSUME TypeOK, Pipeline, Producer
  PROVE  Pipeline'
<1>0. /\ Queued /\ InHand /\ Late /\ ProducerOK /\ q \in Seq(Events)
      /\ published \in Nat /\ Held \subseteq Events
      /\ Elems(arrived) \subseteq Events /\ Elems(q) \subseteq Events
      /\ \A e \in Events : e \in Nat
  BY PipelineTypes DEF Pipeline, TypeOK
<1>1. UNCHANGED <<pc, lines, req, spool, flight, arrived>>
  BY DEF Producer, Publish, DropOldest, PutAgain, Close, worker, history
<1>2. Held' = Held /\ Elems(arrived)' = Elems(arrived)
  BY <1>1 DEF Held, Elems, EventsOf
<1>3. InHand' /\ Late'
  BY <1>0, <1>1, <1>2 DEF InHand, Late, Sending, InOrder, Whole, Sorted, EventsOf, Elems
<1>4. CASE Publish
  <2>1. hand = "idle" /\ published' = published + 1 /\ published' \in Events
    BY <1>0, <1>4, CopyAssumption DEF Publish, Events, ProducerOK
  <2>2. \A x \in Held \cup Elems(arrived) \cup Elems(q) : x < published'
    BY <1>0, <2>1 DEF Queued, Ahead
  <2>3. CASE q' = Append(q, published') /\ UNCHANGED hand
    <3>1. Elems(q)' = Elems(q) \cup {published'} /\ Sorted(q)'
      BY <1>0, <2>1, <2>2, <2>3, AppendQueue DEF Queued, Elems, Sorted
    <3>2. \A x \in Held \cup Elems(arrived), y \in Elems(q)' : x < y
      BY <1>0, <2>2, <3>1 DEF Queued
    <3>3. \A x \in Held \cup Elems(arrived) \cup Elems(q)' : Ahead(x)'
      BY <1>0, <2>1, <2>2, <2>3, <3>1 DEF Ahead
    <3> QED BY <1>2, <1>3, <3>1, <3>2, <3>3 DEF Pipeline, Queued
  <2>4. CASE UNCHANGED q
    <3>1. Elems(q)' = Elems(q) /\ Sorted(q)'
      BY <1>0, <2>4 DEF Queued, Elems, Sorted
    <3>2. \A x \in Held \cup Elems(arrived) \cup Elems(q) : Ahead(x)'
      BY <1>0, <2>1, <2>2 DEF Ahead
    <3> QED BY <1>0, <1>2, <1>3, <3>1, <3>2 DEF Pipeline, Queued
  <2> QED BY <1>4, <2>3, <2>4 DEF Publish
<1>5. CASE DropOldest
  <2>1. q' = q \/ (q # << >> /\ q' = Tail(q))
    BY <1>5 DEF DropOldest
  <2>2. Elems(q)' \subseteq Elems(q) /\ Sorted(q)'
    BY <1>0, <2>1, TailQueue DEF Queued, Elems, Sorted
  <2>3. hand # "idle" /\ hand' # "idle" /\ UNCHANGED published
    BY <1>5 DEF DropOldest
  <2>4. \A x \in Held \cup Elems(arrived) \cup Elems(q)' : Ahead(x)'
    BY <1>0, <2>2, <2>3 DEF Queued, Ahead
  <2>5. \A x \in Held \cup Elems(arrived), y \in Elems(q)' : x < y
    BY <1>0, <2>2 DEF Queued
  <2> QED BY <1>2, <1>3, <2>2, <2>4, <2>5 DEF Pipeline, Queued
<1>6. CASE PutAgain
  <2>1. hand # "idle" /\ hand' = "idle" /\ UNCHANGED published /\ published \in Events
    BY <1>0, <1>6 DEF PutAgain, ProducerOK, Events
  <2>2. \A x \in Held \cup Elems(arrived) \cup Elems(q) : x < published
    BY <1>0, <2>1 DEF Queued, Ahead
  <2>3. CASE q' = Append(q, published)
    <3>a. \A x \in Elems(q) : x < published
      BY <2>2
    <3>b. Elems(q') = Elems(q) \cup {published} /\ Sorted(q')
      BY <1>0, <2>1, <2>3, <3>a, AppendQueue DEF Queued
    <3>1. Elems(q)' = Elems(q) \cup {published} /\ Sorted(q)'
      BY <3>b DEF Elems, Sorted
    <3>2. \A x \in Held \cup Elems(arrived), y \in Elems(q)' : x < y
      BY <1>0, <2>2, <3>1 DEF Queued
    <3>3. \A x \in Held \cup Elems(arrived) \cup Elems(q)' : Ahead(x)'
      BY <1>0, <2>1, <2>2, <3>1 DEF Ahead
    <3> QED BY <1>2, <1>3, <3>1, <3>2, <3>3 DEF Pipeline, Queued
  <2>4. CASE UNCHANGED q
    <3>1. Elems(q)' = Elems(q) /\ Sorted(q)'
      BY <1>0, <2>4 DEF Queued, Elems, Sorted
    <3>2. \A x \in Held \cup Elems(arrived) \cup Elems(q) : Ahead(x)'
      BY <1>0, <2>1, <2>2 DEF Ahead
    <3> QED BY <1>0, <1>2, <1>3, <3>1, <3>2 DEF Pipeline, Queued
  <2> QED BY <1>6, <2>3, <2>4 DEF PutAgain
<1>7. CASE Close
  <2>1. UNCHANGED <<q, published, hand>>
    BY <1>7 DEF Close
  <2>2. Elems(q)' = Elems(q) /\ Sorted(q)'
    BY <1>0, <2>1 DEF Queued, Elems, Sorted
  <2> QED BY <1>0, <1>2, <1>3, <2>1, <2>2 DEF Pipeline, Queued, Ahead
<1> QED BY <1>4, <1>5, <1>6, <1>7 DEF Producer

(* Steps that leave the queue alone keep it behind what they hold.          *)
LEMMA QueueBehind ==
  ASSUME Queued, UNCHANGED <<q, published, hand>>,
         Held' \cup Elems(arrived)' \subseteq Held \cup Elems(arrived)
  PROVE  Queued'
<1>1. Elems(q)' = Elems(q) /\ Sorted(q)'
  BY DEF Queued, Elems, Sorted
<1> QED BY <1>1 DEF Queued, Ahead

(* _run: the head of the queue goes behind the backlog, or is sent.         *)
LEMMA TakeKeepsOrder ==
  ASSUME TypeOK, Hands, Pipeline, Take
  PROVE  Pipeline'
<1> DEFINE h == Head(q)
<1>0. /\ Queued /\ InHand /\ Late /\ q \in Seq(Events) /\ spool.lines \in Seq(LogLine)
      /\ Held \subseteq Events /\ Elems(arrived) \subseteq Events
      /\ Elems(q) \subseteq Events /\ \A e \in Events : e \in Nat /\ e > 0
  BY PipelineTypes DEF Pipeline
<1>1. /\ q # << >> /\ q' = Tail(q) /\ lines = << >> /\ req = "none"
      /\ lines' = <<Line(h)>>
      /\ UNCHANGED <<published, hand, req, spool, flight, arrived>>
  BY DEF Take, Hands, TypeOK, WorkerOK, history
<1>2. /\ h \in Elems(q) /\ Elems(q)' \subseteq Elems(q) /\ Sorted(q)'
      /\ \A y \in Elems(q)' : h < y
  BY <1>0, <1>1, TailQueue DEF Queued, Elems, Sorted
<1> HIDE DEF h
<1>3. /\ EventsOf(lines') = {h} /\ DOMAIN lines' = {1} /\ lines'[1].ev = h
      /\ EventsOf(lines) = {}
  BY <1>1 DEF EventsOf, Line
<1>4. /\ EventsOf(spool.lines)' = EventsOf(spool.lines)
      /\ Held' = Held \cup {h} /\ Elems(arrived)' = Elems(arrived)
  BY <1>1, <1>3 DEF Held, EventsOf, Elems
<1>5. Queued'
  <2>1. \A x \in Held' \cup Elems(arrived)', y \in Elems(q)' : x < y
    BY <1>0, <1>2, <1>4 DEF Queued
  <2>2. \A x \in Held' \cup Elems(arrived)' \cup Elems(q)' : Ahead(x)'
    BY <1>0, <1>1, <1>2, <1>4 DEF Queued, Ahead
  <2> QED BY <1>2, <2>1, <2>2 DEF Queued
<1>6. InHand'
  <2>1. ~spool'.torn /\ Whole(spool'.lines) /\ InOrder(spool'.lines)
    BY <1>0, <1>1 DEF InHand
  <2>2. Whole(lines') /\ InOrder(lines')
    BY <1>0, <1>2, <1>3 DEF Whole, Readable, InOrder
  <2>3. \A x \in EventsOf(spool.lines)', y \in EventsOf(lines)' : x < y
    BY <1>0, <1>2, <1>3, <1>4 DEF Queued, Held
  <2> QED BY <2>1, <2>2, <2>3 DEF InHand
<1>7. Late'
  <2>1. \A a \in Elems(arrived)', x \in Held' : a <= x
    <3>1. \A a \in Elems(arrived) : a < h /\ a \in Nat /\ h \in Nat
      BY <1>0, <1>2 DEF Queued
    <3> QED BY <1>0, <1>4, <3>1 DEF Late
  <2>2. \A e \in Events : flight'[e] > 0 =>
          e \in Elems(arrived)' \/ (spool'.lines # << >> /\ e = spool'.lines[1].ev)
    <3>1. \A e \in Events : flight[e] > 0 =>
            e \in Elems(arrived) \/ (spool.lines # << >> /\ e = spool.lines[1].ev)
      <4>1. Late /\ lines = << >>
        BY <1>0, <1>1
      <4> QED BY <4>1 DEF Late
    <3> QED BY <1>1, <1>4, <3>1
  <2>3. Sorted(arrived)' /\ req' # "ok"
    BY <1>0, <1>1 DEF Late, Sorted
  <2> QED BY <2>1, <2>2, <2>3 DEF Late
<1> QED BY <1>5, <1>6, <1>7 DEF Pipeline

(* _spool behind a backlog, _drain_spool, and the backlog put back: lines   *)
(* move between the worker and the file, in their order.                    *)
LEMMA SpoolingKeepsOrder ==
  ASSUME TypeOK, Hands, Pipeline, "spool" \notin met, "spool" \notin met',
         SpoolBehind \/ OpenSpool \/ Respool
  PROVE  Pipeline' /\ Held' = Held
<1>0. /\ Queued /\ InHand /\ Late /\ spool.lines \in Seq(LogLine)
      /\ lines \in Seq(LogLine)
      /\ Held \subseteq Events /\ \A e \in Events : e \in Nat /\ e > 0
  BY PipelineTypes DEF Pipeline
<1>1. UNCHANGED <<q, published, hand, flight, arrived>>
  BY DEF SpoolBehind, OpenSpool, Respool, producer, history
<1>2. ~Fault("spool")
  BY DEF Fault
<1>3. Elems(arrived)' = Elems(arrived) /\ Sorted(arrived)'
  BY <1>0, <1>1 DEF Elems, Late, Sorted
<1>4. ASSUME Held' = Held, InHand', req' # "ok",
             \A e \in Events :
               \/ Sending /\ lines # << >> /\ e = lines[1].ev
               \/ spool.lines # << >> /\ e = spool.lines[1].ev
               => \/ Sending' /\ lines' # << >> /\ e = lines'[1].ev
                  \/ spool'.lines # << >> /\ e = spool'.lines[1].ev
      PROVE  Pipeline' /\ Held' = Held
  <2>1. Queued'
    BY <1>0, <1>1, <1>3, <1>4, QueueBehind
  <2>2. Late'
    BY <1>0, <1>1, <1>3, <1>4 DEF Late
  <2> QED BY <1>4, <2>1, <2>2 DEF Pipeline
<1> USE DEF Sending
<1>5. CASE SpoolBehind
  <2>1. /\ pc = "spool" /\ lines' = << >> /\ pc' = "open" /\ req' = req /\ req = "none"
        /\ spool' = Write(spool, lines[1]) /\ Len(lines) = 1 /\ spool.lines # << >>
    BY <1>2, <1>5 DEF SpoolBehind, Spool, Hands, TypeOK, WorkerOK
  <2>2. /\ spool'.lines = Append(spool.lines, lines[1]) /\ ~spool'.torn
        /\ lines[1] \in LogLine /\ 1 \in DOMAIN lines
    <3>0. lines \in Seq(LogLine) /\ Len(lines) = 1
      BY <1>0, <2>1
    <3>1. 1 \in DOMAIN lines /\ lines[1] \in LogLine
      BY <3>0
    <3>2. ~spool.torn
      BY <1>0 DEF InHand
    <3>3. Write(spool, lines[1]) = [lines |-> Append(spool.lines, lines[1]), torn |-> FALSE]
      BY <3>2, Zenon DEF Write
    <3> QED BY <2>1, <3>1, <3>3
  <2>3. EventsOf(lines) = {lines[1].ev} /\ EventsOf(lines') = {}
    <3>1. DOMAIN lines = {1}
      BY <1>0, <2>1
    <3> QED BY <2>1, <3>1 DEF EventsOf
  <2>4. /\ EventsOf(spool'.lines) = EventsOf(spool.lines) \cup {lines[1].ev}
        /\ Whole(spool'.lines) /\ InOrder(spool'.lines)
    BY <1>0, <2>2, <2>3, AppendLines DEF InHand, Whole
  <2>5. Held' = Held
    BY <2>3, <2>4 DEF Held
  <2>6. InHand'
    BY <2>1, <2>2, <2>3, <2>4 DEF InHand, Whole, InOrder
  <2>7. spool'.lines # << >> /\ spool'.lines[1] = spool.lines[1]
    BY <1>0, <2>1, <2>2
  <2> QED BY <1>4, <2>1, <2>5, <2>6, <2>7
<1>6. CASE OpenSpool
  <2>1. /\ pc = "open" /\ lines' = spool.lines /\ spool' = EmptyFile /\ pc' = "send"
        /\ lines = << >> /\ req' = req /\ req = "none"
    BY <1>2, <1>6 DEF OpenSpool, Hands, TypeOK, WorkerOK
  <2>2. /\ EventsOf(lines') = EventsOf(spool.lines) /\ EventsOf(spool'.lines) = {}
        /\ EventsOf(lines) = {} /\ ~spool'.torn
    BY <2>1 DEF EventsOf, EmptyFile
  <2>3. Held' = Held
    BY <2>2 DEF Held
  <2>4. InHand'
    BY <1>0, <2>1, <2>2 DEF InHand, Whole, InOrder, EmptyFile
  <2> QED BY <1>4, <2>1, <2>3, <2>4
<1>7. CASE Respool
  <2>1. /\ Sending /\ spool = EmptyFile /\ lines # << >> /\ lines' = << >> /\ req' = "none"
        /\ pc' = "get"
    BY <1>7, SendingAlone DEF Respool, TypeOK, WorkerOK
  <2>2. spool'.lines = lines /\ ~spool'.torn
    <3>1. CASE pc = "direct"
      <4>1. spool' = Write(spool, lines[1]) /\ Len(lines) = 1
        BY <1>2, <1>7, <3>1 DEF Respool, Spool, TypeOK, WorkerOK
      <4>2. Write(EmptyFile, lines[1]) = [lines |-> Append(<< >>, lines[1]), torn |-> FALSE]
        BY Zenon DEF Write, EmptyFile
      <4>3. Append(<< >>, lines[1]) = lines
        BY <1>0, <4>1
      <4> QED BY <2>1, <4>1, <4>2, <4>3
    <3>2. CASE pc = "send"
      <4>1. spool' = WriteAll(spool, lines)
        BY <1>2, <1>7, <3>2 DEF Respool
      <4> QED BY <1>0, <2>1, <4>1 DEF WriteAll, EmptyFile
    <3> QED BY <2>1, <3>1, <3>2
  <2>3. /\ EventsOf(spool'.lines) = EventsOf(lines) /\ EventsOf(spool.lines) = {}
        /\ EventsOf(lines') = {} /\ spool.lines = << >>
    BY <2>1, <2>2 DEF EventsOf, EmptyFile
  <2>4. Held' = Held
    BY <2>3 DEF Held
  <2>5. InHand'
    BY <1>0, <2>1, <2>2, <2>3 DEF InHand, Whole, InOrder
  <2> QED BY <1>4, <2>1, <2>2, <2>3, <2>4, <2>5
<1> QED BY <1>5, <1>6, <1>7

(* _send and the rest of the worker: an answered line leaves, a request     *)
(* that is given up is for the line that stays at the head.                 *)
LEMMA SendingKeepsOrder ==
  ASSUME TypeOK, Hands, Pipeline, "spool" \notin met,
         NextLine \/ Answered \/ Refused \/ TimedOut \/ WorkerEnd \/ Start
  PROVE  Pipeline'
<1>0. /\ Queued /\ InHand /\ Late /\ lines \in Seq(LogLine) /\ WorkerOK
      /\ flight \in [Events -> Nat]
      /\ Held \subseteq Events /\ \A e \in Events : e \in Nat /\ e > 0
  BY PipelineTypes DEF Pipeline, TypeOK
<1>1. UNCHANGED <<q, published, hand, spool, arrived>>
  BY DEF NextLine, Answered, Refused, TimedOut, WorkerEnd, Start, producer, history
<1>2. /\ Elems(arrived)' = Elems(arrived) /\ Sorted(arrived)'
      /\ EventsOf(spool.lines)' = EventsOf(spool.lines)
  BY <1>0, <1>1 DEF Elems, Late, Sorted, EventsOf
<1>3. ASSUME UNCHANGED lines,
             req' = "ok" => req = "ok",
             \A e \in Events : flight'[e] > 0 =>
               \/ flight[e] > 0
               \/ Sending /\ lines # << >> /\ e = lines[1].ev,
             lines # << >> => UNCHANGED pc
      PROVE  Pipeline'
  <2>1. Held' = Held
    BY <1>2, <1>3 DEF Held, EventsOf
  <2>2. Queued'
    BY <1>0, <1>1, <1>2, <2>1, QueueBehind
  <2>3. InHand'
    BY <1>0, <1>1, <1>3 DEF InHand, Whole, InOrder, EventsOf
  <2>4. \A e \in Events : flight'[e] > 0 =>
          \/ e \in Elems(arrived)
          \/ Sending /\ lines # << >> /\ e = lines[1].ev
          \/ spool.lines # << >> /\ e = spool.lines[1].ev
    BY <1>0, <1>3 DEF Late
  <2>5. Late'
    BY <1>0, <1>1, <1>2, <1>3, <2>1, <2>4 DEF Late, Sending
  <2> QED BY <2>2, <2>3, <2>5 DEF Pipeline
<1>4. CASE NextLine
  <2>1. \A i \in DOMAIN lines : Readable(lines[i])
    BY <1>0 DEF InHand, Whole
  <2>2. lines # << >> => Readable(lines[1])
    BY <1>0, <2>1
  <2>3. UNCHANGED <<lines, flight>> /\ req' # "ok" /\ (lines # << >> => UNCHANGED pc)
    BY <1>4, <2>2 DEF NextLine
  <2> QED BY <1>3, <2>3
<1>5. CASE Refused
  BY <1>3, <1>5 DEF Refused
<1>6. CASE TimedOut
  <2>1. /\ Sending /\ lines # << >> /\ UNCHANGED <<pc, lines>> /\ req' = "bad"
        /\ flight' = IF req = "sent" THEN [flight EXCEPT ![lines[1].ev] = @ + 1] ELSE flight
    BY <1>0, <1>6 DEF TimedOut, WorkerOK, Sending
  <2>2. \A e \in Events : flight'[e] > 0 => flight[e] > 0 \/ e = lines[1].ev
    BY <1>0, <2>1
  <2> QED BY <1>3, <2>1, <2>2
<1>7. CASE WorkerEnd \/ Start
  <2>1. lines = << >> /\ UNCHANGED <<lines, req, flight>>
    BY <1>7 DEF WorkerEnd, Start, Hands
  <2> QED BY <1>3, <2>1
<1>8. CASE Answered
  <2>1. /\ Sending /\ lines # << >> /\ spool = EmptyFile /\ req = "ok"
        /\ lines' = Tail(lines) /\ req' = "none" /\ UNCHANGED flight
    BY <1>0, <1>8, SendingAlone DEF Answered, WorkerOK, Sending
  <2> DEFINE h == lines[1].ev
  <2>2. /\ h \in EventsOf(lines) /\ EventsOf(lines') \subseteq EventsOf(lines)
        /\ Whole(lines') /\ InOrder(lines') /\ \A x \in EventsOf(lines') : h < x
    BY <1>0, <2>1, TailLines DEF InHand
  <2>3. h \in Elems(arrived)
    BY <1>0, <2>1 DEF Late
  <2>4. EventsOf(spool.lines) = {} /\ spool.lines = << >>
    BY <2>1 DEF EventsOf, EmptyFile
  <2>5. Held' \subseteq Held
    BY <1>2, <2>2 DEF Held
  <2>6. Queued'
    BY <1>0, <1>1, <1>2, <2>5, QueueBehind
  <2>7. InHand'
    BY <1>0, <1>1, <1>2, <2>2, <2>4 DEF InHand
  <2>8. \A e \in Events : flight'[e] > 0 => e \in Elems(arrived)
    BY <1>0, <2>1, <2>3, <2>4 DEF Late
  <2>9. Late'
    BY <1>0, <1>2, <2>1, <2>5, <2>8 DEF Late
  <2> QED BY <2>6, <2>7, <2>9 DEF Pipeline
<1> QED BY <1>4, <1>5, <1>6, <1>7, <1>8

(* The leader receives the event being sent, or one whose sender gave up:   *)
(* either it is known already, or it is the head of the pipeline.           *)
LEMMA ArrivalKeepsOrder ==
  ASSUME TypeOK, Pipeline, NEW e \in Events, Arrival(e),
         UNCHANGED <<q, published, hand, pc, lines, spool>>, "spool" \notin met,
         \/ flight[e] > 0 /\ UNCHANGED req
         \/ Sending /\ lines # << >> /\ e = lines[1].ev,
         req' = "ok" => req = "ok" \/ e = lines[1].ev,
         \A x \in Events : flight'[x] > 0 => flight[x] > 0
  PROVE  Pipeline'
<1>0. /\ Queued /\ InHand /\ Late /\ lines \in Seq(LogLine)
      /\ spool.lines \in Seq(LogLine) /\ WorkerOK
      /\ arrived \in Seq(Events) /\ Held \subseteq Events
      /\ Elems(arrived) \subseteq Events /\ Elems(q) \subseteq Events
      /\ \A x \in Events : x \in Nat /\ x > 0
  BY PipelineTypes DEF Pipeline, TypeOK
<1>1. Held' = Held /\ InHand' /\ Elems(q)' = Elems(q) /\ Sorted(q)'
  BY <1>0 DEF Held, EventsOf, InHand, Whole, InOrder, Elems, Queued, Sorted
<1>2. /\ Elems(arrived)' = Elems(arrived) \cup {e}
      /\ e \in Elems(arrived) => arrived' = arrived
      /\ e \notin Elems(arrived) => arrived' = Append(arrived, e)
  <2>1. e \in Elems(arrived) <=> \E i \in DOMAIN arrived : arrived[i] = e
    BY DEF Elems
  <2>2. CASE e \in Elems(arrived)
    <3>1. arrived' = arrived
      BY <2>1, <2>2 DEF Arrival
    <3> QED BY <2>2, <3>1 DEF Elems
  <2>3. CASE e \notin Elems(arrived)
    <3>1. arrived' = Append(arrived, e)
      BY <2>1, <2>3 DEF Arrival
    <3>2. Elems(arrived') = Elems(arrived) \cup {e}
      BY <1>0, <3>1, AppendQueue
    <3> QED BY <2>3, <3>1, <3>2 DEF Elems
  <2> QED BY <2>2, <2>3
<1>3. e \in Elems(arrived) \/ (e \in Held /\ \A x \in Held : e <= x)
  <2>1. ASSUME lines # << >>, e = lines[1].ev, Sending
        PROVE  e \in Held /\ \A x \in Held : e <= x
    <3>1. spool.lines = << >> /\ EventsOf(spool.lines) = {}
      BY <1>0, <2>1, SendingAlone DEF EmptyFile, EventsOf
    <3>2. /\ e \in EventsOf(lines) /\ EventsOf(lines) = EventsOf(Tail(lines)) \cup {e}
          /\ \A x \in EventsOf(Tail(lines)) : e < x
      BY <1>0, <2>1, TailLines DEF InHand
    <3>3. Held = EventsOf(Tail(lines)) \cup {e}
      BY <3>1, <3>2 DEF Held
    <3> QED BY <1>0, <3>2, <3>3
  <2>2. ASSUME spool.lines # << >>, e = spool.lines[1].ev
        PROVE  e \in Held /\ \A x \in Held : e <= x
    <3>1. /\ e \in EventsOf(spool.lines)
          /\ EventsOf(spool.lines) = EventsOf(Tail(spool.lines)) \cup {e}
          /\ \A x \in EventsOf(Tail(spool.lines)) : e < x
      BY <1>0, <2>2, TailLines DEF InHand
    <3>2. \A x \in EventsOf(lines) : e < x
      BY <1>0, <3>1 DEF InHand
    <3>3. Held = EventsOf(lines) \cup EventsOf(Tail(spool.lines)) \cup {e}
      BY <3>1 DEF Held
    <3> QED BY <1>0, <3>1, <3>2, <3>3
  <2>3. flight[e] > 0 =>
          \/ e \in Elems(arrived)
          \/ Sending /\ lines # << >> /\ e = lines[1].ev
          \/ spool.lines # << >> /\ e = spool.lines[1].ev
    BY <1>0 DEF Late
  <2> QED BY <2>1, <2>2, <2>3
<1>4. Sorted(arrived)'
  <2>1. CASE e \in Elems(arrived)
    BY <1>0, <1>2, <2>1 DEF Late, Sorted
  <2>2. CASE e \notin Elems(arrived)
    <3>1. \A x \in Elems(arrived) : x < e
      <4> SUFFICES ASSUME NEW x \in Elems(arrived) PROVE x < e
        OBVIOUS
      <4>1. e \in Held
        BY <1>3, <2>2
      <4>2. x <= e
        BY <1>0, <4>1 DEF Late
      <4>3. x # e /\ x \in Nat /\ e \in Nat
        BY <1>0, <2>2
      <4> QED BY <4>2, <4>3
    <3>2. Sorted(arrived')
      BY <1>0, <1>2, <2>2, <3>1, AppendQueue DEF Late
    <3> QED BY <3>2 DEF Sorted
  <2> QED BY <2>1, <2>2
<1>5. Queued'
  <2>1. Held \cup Elems(arrived)' \subseteq Held \cup Elems(arrived)
    BY <1>2, <1>3
  <2> QED BY <1>0, <1>1, <2>1, QueueBehind
<1>6. Late'
  <2>1. \A a \in Elems(arrived)', x \in Held' : a <= x
    BY <1>0, <1>1, <1>2, <1>3 DEF Late
  <2>2. req' = "ok" => lines'[1].ev \in Elems(arrived)'
    BY <1>0, <1>2 DEF Late
  <2>3. \A x \in Events : flight'[x] > 0 =>
          \/ x \in Elems(arrived)'
          \/ Sending' /\ lines' # << >> /\ x = lines'[1].ev
          \/ spool'.lines # << >> /\ x = spool'.lines[1].ev
    BY <1>0, <1>2 DEF Late, Sending
  <2> QED BY <1>4, <2>1, <2>2, <2>3 DEF Late
<1> QED BY <1>1, <1>5, <1>6 DEF Pipeline

(* Answering a request or reading the log moves no event.                   *)
LEMMA ServingKeepsOrder ==
  ASSUME TypeOK, Pipeline, "spool" \notin met, Serve \/ LateServe
  PROVE  Pipeline'
<1>0. WorkerOK /\ flight \in [Events -> Nat]
  BY DEF TypeOK
<1>1. CASE Serve
  <2>1. /\ req = "sent" /\ Arrival(lines[1].ev)
        /\ UNCHANGED <<q, published, hand, pc, lines, spool, flight>>
    BY <1>1 DEF Serve, producer
  <2>2. Sending /\ lines # << >> /\ lines[1].ev \in Events
    BY <1>0, <2>1, HeadIsEvent DEF WorkerOK, Sending
  <2> QED BY <2>1, <2>2, ArrivalKeepsOrder
<1>2. CASE LateServe
  <2>1. PICK e \in Events : /\ flight[e] > 0 /\ Arrival(e)
                            /\ flight' = [flight EXCEPT ![e] = @ - 1]
    BY <1>2 DEF LateServe
  <2>2. UNCHANGED <<q, published, hand, pc, lines, spool, req>>
    BY <1>2 DEF LateServe, producer, worker
  <2>3. \A x \in Events : flight'[x] > 0 => flight[x] > 0
    BY <1>0, <2>1
  <2> QED BY <2>1, <2>2, <2>3, ArrivalKeepsOrder
<1> QED BY <1>1, <1>2

(* Every step keeps the pipeline in order.                                  *)
LEMMA OrderStep == TypeOK /\ Hands /\ OrderInv /\ [Next]_vars => OrderInv'
<1> SUFFICES ASSUME TypeOK, Hands, OrderInv, [Next]_vars, Trusted'
             PROVE  Pipeline'
  BY DEF OrderInv
<1>1. Next \/ UNCHANGED vars
  OBVIOUS
<1>2. met \subseteq met'
  BY <1>1, OneFailure, FaultOK DEF TypeOK, FailuresOK, vars, failures
<1>3. Pipeline /\ "spool" \notin met /\ "spool" \notin met' /\ "crash" \notin met'
  BY <1>2 DEF OrderInv, Trusted
<1>4. CASE Crash
  BY <1>3, <1>4 DEF Crash, Fault
<1>5. CASE UNCHANGED <<q, published, hand, pc, lines, req, spool, arrived>>
           /\ (UNCHANGED flight \/ LeaderCrash)
  <2>1. \A e \in Events : flight'[e] > 0 => flight[e] > 0
    BY <1>5 DEF LeaderCrash
  <2>2. Held' = Held /\ Elems(arrived)' = Elems(arrived) /\ Elems(q)' = Elems(q)
    BY <1>5 DEF Held, EventsOf, Elems
  <2>3. InHand'
    BY <1>3, <1>5 DEF Pipeline, InHand, Whole, InOrder, EventsOf
  <2>4. Queued'
    BY <1>3, <1>5, <2>2, QueueBehind DEF Pipeline
  <2>5. Late'
    BY <1>3, <1>5, <2>1, <2>2 DEF Pipeline, Late, Sending, Sorted
  <2> QED BY <2>3, <2>4, <2>5 DEF Pipeline
<1>6. CASE LeaderCrash \/ LeaderStart \/ Poll \/ UNCHANGED vars
  BY <1>5, <1>6 DEF LeaderCrash, LeaderStart, Poll, vars, producer, worker, history
<1> QED BY <1>1, <1>3, <1>4, <1>6, PublishKeepsOrder, TakeKeepsOrder, SpoolingKeepsOrder,
           SendingKeepsOrder, ServingKeepsOrder DEF Next, Worker, Leader

(* The empty pipeline satisfies the four invariants.                        *)
LEMMA OrderInit == Init => OrderInv /\ Hands /\ FollowerInv /\ NumberInv
<1> SUFFICES ASSUME Init PROVE OrderInv /\ Hands /\ FollowerInv /\ NumberInv
  OBVIOUS
<1>1. /\ lines = << >> /\ spool = EmptyFile /\ q = << >> /\ arrived = << >>
      /\ store = EmptyFile /\ req = "none" /\ pc = "get" /\ last_seq = 0
      /\ printed = {} /\ flight = [e \in Events |-> 0]
  BY DEF Init
<1>2. Elems(q) = {} /\ Elems(arrived) = {} /\ Held = {}
  BY <1>1 DEF Elems, Held, EventsOf, EmptyFile
<1>3. Pipeline
  <2>1. Queued
    BY <1>1, <1>2 DEF Queued, Sorted
  <2>2. InHand
    BY <1>1 DEF InHand, Whole, InOrder, EventsOf, EmptyFile
  <2>3. Late
    BY <1>1, <1>2 DEF Late, Sorted
  <2> QED BY <2>1, <2>2, <2>3 DEF Pipeline
<1>4. Hands
  BY <1>1 DEF Hands, EmptyFile
<1>5. FollowerInv
  BY <1>1 DEF FollowerInv, TornEnd, FollowerInStep, EmptyFile
<1>6. NumberInv
  BY <1>1, TypeInit, BoundedInit DEF NumberInv, AtOrBeyond, NumbersIncrease, EmptyFile
<1> QED BY <1>3, <1>4, <1>5, <1>6 DEF OrderInv

(* The leader receives the events in the order they were published, each    *)
(* for the first time after all before it, with any number of retries,      *)
(* late requests and restarts of the leader; and a follower whose window    *)
(* holds the log has printed every line up to the number it stands at.      *)
THEOREM ArrivalsInOrder == Spec => []ReceivedInOrder
<1>1. OrderInv /\ FollowerInv => ReceivedInOrder
  BY DEF OrderInv, Trusted, Pipeline, Late, Sorted, FollowerInv, ReceivedInOrder
<1>2. /\ TypeOK /\ Hands /\ [Next]_vars => Hands'
      /\ TypeOK /\ Hands /\ OrderInv /\ [Next]_vars => OrderInv'
      /\ NumberInv /\ FollowerInv /\ [Next]_vars => FollowerInv'
  BY HandsStep, OrderStep, FollowerInvStep
<1> QED BY <1>1, <1>2, OrderInit, TypeCorrect, NumberStep, PTL DEF Spec

-----------------------------------------------------------------------------
(* Nothing is lost silently.                                                *)

(* Where an event that was published may be. *)
Kept ==
  Elems(q) \cup Held \cup EventsOf(store.lines)
    \cup (IF hand = "idle" THEN {} ELSE {published})

Lossless == met \cap {"crash", "spool", "store"} = {}

LossInv ==
  Lossless =>
    /\ Cardinality(Lost) <= dropped
    /\ ~store.torn
    /\ req = "ok" => lines[1].ev \in EventsOf(store.lines)

(* What is lost is what was published and is kept nowhere.                  *)
LEMMA LostIs == Lost = (1 .. published) \ Kept
<1> SUFFICES ASSUME NEW e PROVE e \in Lost <=> e \in (1 .. published) \ Kept
  OBVIOUS
<1>1. (\A i \in DOMAIN q : q[i] # e) <=> e \notin Elems(q)
  BY DEF Elems
<1>2. (hand # "idle" => e # published)
        <=> e \notin (IF hand = "idle" THEN {} ELSE {published})
  OBVIOUS
<1> QED BY <1>1, <1>2 DEF Lost, Kept, Held

(* The same of the next state.                                              *)
LEMMA LostIsNext == Lost' = (1 .. published') \ Kept'
<1> SUFFICES ASSUME NEW e
             PROVE  e \in Lost' <=> e \in (1 .. published') \ Kept'
  OBVIOUS
<1>1. (\A i \in DOMAIN q' : q'[i] # e) <=> e \notin Elems(q')
  BY DEF Elems
<1>2. (hand' # "idle" => e # published')
        <=> e \notin (IF hand' = "idle" THEN {} ELSE {published'})
  OBVIOUS
<1>3. Elems(q)' = Elems(q')
  BY DEF Elems
<1>4. Kept' = Elems(q') \cup Held' \cup EventsOf(store.lines)'
               \cup (IF hand' = "idle" THEN {} ELSE {published'})
  BY <1>3 DEF Kept
<1> QED BY <1>1, <1>2, <1>4 DEF Lost, Held

(* What is lost is finite: it can be counted.                               *)
LEMMA LostFinite ==
  ASSUME TypeOK
  PROVE  IsFiniteSet(Lost) /\ Cardinality(Lost) \in Nat
<1>1. published \in Int
  BY DEF TypeOK, ProducerOK
<1>2. IsFiniteSet(1 .. published)
  BY <1>1, FS_Interval
<1>3. Lost \in SUBSET (1 .. published)
  BY LostIs
<1> QED BY <1>2, <1>3, FS_Subset, FS_CardinalityType

(* A step that keeps all but one event, and that one counted, is fine.      *)
LEMMA KeptEnough ==
  ASSUME TypeOK, TypeOK', Cardinality(Lost) <= dropped, NEW x,
         (1 .. published') \subseteq (1 .. published) \cup Kept',
         \/ Kept \subseteq Kept' /\ dropped' = dropped
         \/ Kept \subseteq Kept' \cup {x} /\ dropped' = dropped + 1
  PROVE  Cardinality(Lost') <= dropped'
<1>0. dropped \in Nat /\ dropped' \in Nat
  BY DEF TypeOK, ProducerOK
<1>1. Lost = (1 .. published) \ Kept /\ Lost' = (1 .. published') \ Kept'
  BY LostIs, LostIsNext
<1>2. /\ IsFiniteSet(Lost) /\ Cardinality(Lost) \in Nat
      /\ IsFiniteSet(Lost') /\ Cardinality(Lost') \in Nat
  <2>1. published' \in Int
    BY DEF TypeOK, ProducerOK
  <2>2. IsFiniteSet(1 .. published')
    BY <2>1, FS_Interval
  <2>3. Lost' \in SUBSET (1 .. published')
    BY LostIsNext
  <2> QED BY <2>2, <2>3, LostFinite, FS_Subset, FS_CardinalityType
<1>3. CASE Kept \subseteq Kept' /\ dropped' = dropped
  <2>1. Lost' \in SUBSET Lost
    BY <1>1, <1>3
  <2>2. Cardinality(Lost') <= Cardinality(Lost)
    BY <1>2, <2>1, FS_Subset
  <2> QED BY <1>0, <1>2, <1>3, <2>2
<1>4. CASE Kept \subseteq Kept' \cup {x} /\ dropped' = dropped + 1
  <2>1. Lost' \in SUBSET (Lost \cup {x})
    BY <1>1, <1>4
  <2>2. /\ IsFiniteSet(Lost \cup {x})
        /\ Cardinality(Lost \cup {x}) <= Cardinality(Lost) + 1
        /\ Cardinality(Lost \cup {x}) \in Nat
    BY <1>2, FS_AddElement
  <2>3. Cardinality(Lost') <= Cardinality(Lost \cup {x})
    BY <2>1, <2>2, FS_Subset
  <2> QED BY <1>0, <1>2, <1>4, <2>2, <2>3
<1> QED BY <1>3, <1>4

(* publish loses what it counts: the oldest of the queue, or the event      *)
(* itself when the queue is full again.                                     *)
LEMMA PublishLoses ==
  ASSUME TypeOK, Producer
  PROVE  /\ (1 .. published') \subseteq (1 .. published) \cup Kept'
         /\ \/ Kept \subseteq Kept' /\ dropped' = dropped
            \/ \E x : Kept \subseteq Kept' \cup {x} /\ dropped' = dropped + 1
<1>0. q \in Seq(Events) /\ published \in Nat
  BY DEF TypeOK, ProducerOK
<1>1. UNCHANGED <<lines, spool, store>>
  BY DEF Producer, Publish, DropOldest, PutAgain, Close, worker, leader
<1>2. Held' = Held /\ EventsOf(store.lines)' = EventsOf(store.lines)
  BY <1>1 DEF Held, EventsOf
<1>3. CASE Publish
  <2>1. hand = "idle" /\ published' = published + 1 /\ dropped' = dropped
        /\ published' \in Events
    BY <1>0, <1>3, CopyAssumption DEF Publish, Events
  <2>2. Elems(q) \subseteq Elems(q') /\ (hand' = "idle" => published' \in Elems(q'))
    BY <1>0, <1>3, <2>1, AppendQueue DEF Publish
  <2>3. Elems(q') = Elems(q)'
    BY DEF Elems
  <2>4. Kept \subseteq Kept' /\ published' \in Kept'
    BY <1>2, <2>1, <2>2, <2>3 DEF Kept
  <2>5. (1 .. published') = (1 .. published) \cup {published'}
    BY <1>0, <2>1
  <2> QED BY <2>1, <2>4, <2>5
<1>4. CASE DropOldest
  <2>1. UNCHANGED published /\ hand # "idle" /\ hand' # "idle" /\ dropped' = dropped + 1
    BY <1>4 DEF DropOldest
  <2>2. \E x : Elems(q) \subseteq Elems(q') \cup {x}
    <3>1. CASE q = << >>
      BY <1>4, <3>1 DEF DropOldest
    <3>2. CASE q # << >>
      <4>1. q' = Tail(q)
        BY <1>4, <3>2 DEF DropOldest
      <4>2. \A i \in DOMAIN q : i = 1 \/ q[i] \in Elems(Tail(q))
        BY <1>0, <3>2, QueueSplit
      <4>3. Elems(q) \subseteq Elems(q') \cup {q[1]}
        BY <4>1, <4>2 DEF Elems
      <4> QED BY <4>3
    <3> QED BY <3>1, <3>2
  <2>3. Elems(q') = Elems(q)'
    BY DEF Elems
  <2>4. \E x : Kept \subseteq Kept' \cup {x}
    BY <1>2, <2>1, <2>2, <2>3 DEF Kept
  <2> QED BY <2>1, <2>4
<1>5. CASE PutAgain
  <2>1. UNCHANGED published /\ hand # "idle" /\ hand' = "idle"
    BY <1>5 DEF PutAgain
  <2>2. Elems(q') = Elems(q)'
    BY DEF Elems
  <2>3. CASE q' = Append(q, published) /\ UNCHANGED dropped
    <3>1. published \in Events
      BY <2>1, CopyAssumption DEF TypeOK, ProducerOK, Events
    <3>2. Elems(q') = Elems(q) \cup {published}
      BY <1>0, <2>3, <3>1, AppendQueue
    <3>3. Kept \subseteq Kept'
      BY <1>2, <2>1, <2>2, <3>2 DEF Kept
    <3> QED BY <2>1, <2>3, <3>3
  <2>4. CASE UNCHANGED q /\ dropped' = dropped + 1
    <3>1. Kept \subseteq Kept' \cup {published}
      BY <1>2, <2>1, <2>2, <2>4 DEF Kept
    <3> QED BY <2>1, <2>4, <3>1
  <2> QED BY <1>5, <2>3, <2>4 DEF PutAgain
<1>6. CASE Close
  <2>1. UNCHANGED <<q, published, hand, dropped>>
    BY <1>6 DEF Close
  <2>2. Kept' = Kept
    BY <1>2, <2>1 DEF Kept, Elems
  <2> QED BY <2>1, <2>2
<1> QED BY <1>3, <1>4, <1>5, <1>6 DEF Producer

(* The worker hands an event on before it lets go of it, and lets go of a   *)
(* line only when the log has it.                                           *)
LEMMA WorkerKeeps ==
  ASSUME TypeOK, Hands, Pipeline, Worker \/ Start,
         "spool" \notin met, "spool" \notin met',
         req = "ok" => lines[1].ev \in EventsOf(store.lines)
  PROVE  /\ Kept \subseteq Kept' /\ UNCHANGED <<published, dropped, store>>
         /\ req' = "ok" => lines'[1].ev \in EventsOf(store.lines)'
<1>0. /\ q \in Seq(Events) /\ lines \in Seq(LogLine) /\ WorkerOK /\ InHand
  BY PipelineTypes DEF Pipeline, TypeOK
<1>1. UNCHANGED <<published, dropped, store, hand>>
  BY DEF Worker, Start, WorkerEnd, Take, SpoolBehind, OpenSpool, NextLine, Answered,
     Refused, TimedOut, Respool, producer, leader
<1>2. EventsOf(store.lines)' = EventsOf(store.lines)
  BY <1>1 DEF EventsOf
<1>3. CASE Take
  <2>1. /\ q # << >> /\ q' = Tail(q) /\ lines = << >> /\ req' # "ok"
        /\ lines' = <<Line(Head(q))>> /\ UNCHANGED spool
    BY <1>0, <1>3 DEF Take, Hands, WorkerOK
  <2>2. EventsOf(lines') = {Head(q)} /\ EventsOf(lines) = {}
    BY <2>1 DEF EventsOf, Line
  <2>3. Elems(q) \subseteq Elems(q') \cup {Head(q)}
    <3>1. \A i \in DOMAIN q : i = 1 \/ q[i] \in Elems(Tail(q))
      BY <1>0, <2>1, QueueSplit
    <3>2. Head(q) = q[1]
      BY <1>0, <2>1
    <3> QED BY <2>1, <3>1, <3>2 DEF Elems
  <2>4. Held' = Held \cup {Head(q)} /\ Elems(q)' = Elems(q')
    BY <2>1, <2>2 DEF Held, EventsOf, Elems
  <2> QED BY <1>1, <1>2, <2>1, <2>3, <2>4 DEF Kept
<1>4. CASE SpoolBehind \/ OpenSpool \/ Respool
  <2>1. Held' = Held /\ UNCHANGED q
    BY <1>4, SpoolingKeepsOrder DEF SpoolBehind, OpenSpool, Respool, producer
  <2>2. req' # "ok"
    BY <1>0, <1>4 DEF SpoolBehind, OpenSpool, Respool, WorkerOK
  <2> QED BY <1>1, <1>2, <2>1, <2>2 DEF Kept, Elems
<1>5. CASE Answered
  <2>1. /\ lines # << >> /\ lines' = Tail(lines) /\ req' = "none" /\ UNCHANGED <<q, spool>>
        /\ lines[1].ev \in EventsOf(store.lines)
    BY <1>0, <1>5 DEF Answered, WorkerOK, producer
  <2>2. EventsOf(lines) = EventsOf(lines') \cup {lines[1].ev}
    BY <1>0, <2>1, TailLines
  <2>3. EventsOf(lines)' = EventsOf(lines') /\ EventsOf(spool.lines)' = EventsOf(spool.lines)
        /\ Elems(q)' = Elems(q)
    BY <2>1 DEF EventsOf, Elems
  <2> QED BY <1>1, <1>2, <2>1, <2>2, <2>3 DEF Kept, Held
<1>6. CASE NextLine \/ Refused \/ TimedOut \/ WorkerEnd \/ Start
  <2>1. lines # << >> => Readable(lines[1])
    <3>1. lines # << >> => 1 \in DOMAIN lines
      BY <1>0
    <3> QED BY <1>0, <3>1 DEF InHand, Whole
  <2>2. UNCHANGED <<q, lines, spool>> /\ (req' = "ok" => req = "ok")
    BY <1>6, <2>1 DEF NextLine, Refused, TimedOut, WorkerEnd, Start, producer
  <2>3. Kept' = Kept
    BY <1>1, <1>2, <2>2 DEF Kept, Held, EventsOf, Elems
  <2> QED BY <1>1, <1>2, <2>2, <2>3
<1> QED BY <1>3, <1>4, <1>5, <1>6 DEF Worker

(* The leader's log, as long as no write to it fails, only grows.           *)
LEMMA LogGrows ==
  ASSUME TypeOK, LogBounded, ~store.torn, NEW e \in Events, Stored(e)
  PROVE  /\ ~store'.torn
         /\ EventsOf(store'.lines) = EventsOf(store.lines) \cup {e}
<1> DEFINE l == [ev |-> e, seq |-> seqno']
<1>1. l \in LogLine /\ store.lines \in Seq(LogLine)
  BY AppendOK, LogTyped DEF TypeOK
<1>2. Write(store, l) = [lines |-> Append(store.lines, l), torn |-> FALSE]
  BY Zenon DEF Write
<1>3. store' = Write(store, l)
  BY DEF Stored
<1>4. l.ev = e
  OBVIOUS
<1> HIDE DEF l
<1>5. EventsOf(Append(store.lines, l)) = EventsOf(store.lines) \cup {e}
  BY <1>1, <1>4, AppendLines
<1> QED BY <1>2, <1>3, <1>5

(* The leader service and the follower lose no event.                       *)
LEMMA LeaderKeeps ==
  ASSUME TypeOK, LogBounded, ~store.torn, Leader \/ Poll, "store" \notin met',
         req = "ok" => lines[1].ev \in EventsOf(store.lines)
  PROVE  /\ Kept \subseteq Kept' /\ UNCHANGED <<published, dropped>> /\ ~store'.torn
         /\ req' = "ok" => lines'[1].ev \in EventsOf(store.lines)'
<1>0. WorkerOK
  BY DEF TypeOK
<1>1. UNCHANGED <<published, dropped, hand, q, lines, spool>>
  BY DEF Leader, Serve, LateServe, LeaderCrash, LeaderStart, Poll, producer, worker
<1>2. Held' = Held /\ Elems(q)' = Elems(q)
  BY <1>1 DEF Held, EventsOf, Elems
<1>3. ~Fault("store")
  BY DEF Fault
<1>4. ASSUME NEW e \in Events, Stored(e),
             req' = "ok" => req = "ok" \/ e = lines[1].ev
      PROVE  /\ Kept \subseteq Kept' /\ ~store'.torn
             /\ req' = "ok" => lines'[1].ev \in EventsOf(store.lines)'
  <2>1. ~store'.torn /\ EventsOf(store'.lines) = EventsOf(store.lines) \cup {e}
    BY <1>4, LogGrows
  <2>2. EventsOf(store.lines)' = EventsOf(store'.lines)
    BY DEF EventsOf
  <2> QED BY <1>1, <1>2, <1>4, <2>1, <2>2 DEF Kept
<1>5. CASE Serve
  <2>1. lines[1].ev \in Events /\ Stored(lines[1].ev)
    BY <1>0, <1>3, <1>5, HeadIsEvent DEF Serve, NotStored
  <2> QED BY <1>1, <1>4, <2>1
<1>6. CASE LateServe
  <2>1. PICK e \in Events : Stored(e)
    BY <1>3, <1>6 DEF LateServe, NotStored
  <2>2. UNCHANGED req
    BY <1>6 DEF LateServe, worker
  <2> QED BY <1>1, <1>4, <2>1, <2>2
<1>7. CASE LeaderCrash \/ LeaderStart \/ Poll
  <2>1. UNCHANGED <<store, req>>
    BY <1>7 DEF LeaderCrash, LeaderStart, Poll, worker, leader
  <2>2. EventsOf(store.lines)' = EventsOf(store.lines)
    BY <2>1 DEF EventsOf
  <2> QED BY <1>1, <1>2, <2>1, <2>2 DEF Kept
<1> QED BY <1>5, <1>6, <1>7 DEF Leader

(* Every step keeps the count of the lost.                                  *)
LEMMA LossStep ==
  ASSUME TypeOK, TypeOK', LogBounded, Hands, OrderInv, LossInv, [Next]_vars
  PROVE  LossInv'
<1> SUFFICES ASSUME Lossless'
             PROVE  /\ Cardinality(Lost') <= dropped' /\ ~store'.torn
                    /\ req' = "ok" => lines'[1].ev \in EventsOf(store.lines)'
  BY DEF LossInv
<1>1. Next \/ UNCHANGED vars
  OBVIOUS
<1>2. met \subseteq met'
  BY <1>1, OneFailure, FaultOK DEF TypeOK, FailuresOK, vars, failures
<1>3. /\ Pipeline /\ met' \cap {"crash", "spool", "store"} = {}
      /\ Cardinality(Lost) <= dropped /\ ~store.torn
      /\ req = "ok" => lines[1].ev \in EventsOf(store.lines)
  BY <1>2 DEF OrderInv, Trusted, LossInv, Lossless
<1>4. CASE Producer
  <2>1. Cardinality(Lost') <= dropped'
    BY <1>3, <1>4, PublishLoses, KeptEnough
  <2>2. UNCHANGED <<store, req, lines>>
    BY <1>4 DEF Producer, Publish, DropOldest, PutAgain, Close, worker, leader
  <2> QED BY <1>3, <2>1, <2>2 DEF EventsOf
<1>5. CASE Worker \/ Start
  <2>1. /\ Kept \subseteq Kept' /\ UNCHANGED <<published, dropped, store>>
        /\ req' = "ok" => lines'[1].ev \in EventsOf(store.lines)'
    BY <1>2, <1>3, <1>5, WorkerKeeps
  <2>2. Cardinality(Lost') <= dropped'
    BY <1>3, <2>1, KeptEnough
  <2> QED BY <1>3, <2>1, <2>2
<1>6. CASE Leader \/ Poll
  <2>1. /\ Kept \subseteq Kept' /\ UNCHANGED <<published, dropped>> /\ ~store'.torn
        /\ req' = "ok" => lines'[1].ev \in EventsOf(store.lines)'
    BY <1>3, <1>6, LeaderKeeps
  <2>2. Cardinality(Lost') <= dropped'
    BY <1>3, <2>1, KeptEnough
  <2> QED BY <2>1, <2>2
<1>7. CASE Crash
  BY <1>3, <1>7 DEF Crash, Fault
<1>8. CASE UNCHANGED vars
  <2>1. UNCHANGED <<published, dropped, hand, q, lines, spool, store, req>>
    BY <1>8 DEF vars, producer, worker, leader
  <2>2. Kept' = Kept
    BY <2>1 DEF Kept, Held, EventsOf, Elems
  <2>3. Cardinality(Lost') <= dropped'
    BY <1>3, <2>1, <2>2, KeptEnough
  <2> QED BY <1>3, <2>1, <2>3 DEF EventsOf
<1> QED BY <1>1, <1>4, <1>5, <1>6, <1>7, <1>8 DEF Next

(* Every event that was published is in the queue, in the worker's hands,   *)
(* in its backlog or in the leader's log, or it is one of those counted as  *)
(* dropped: whatever the network does, whenever the leader restarts, and    *)
(* over any number of orderly ends of the bot.                              *)
THEOREM NoSilentLoss == Spec => []NothingLostSilently
<1>1. Init => LossInv
  <2> SUFFICES ASSUME Init PROVE LossInv
    OBVIOUS
  <2>1. published = 0 /\ dropped = 0 /\ store = EmptyFile /\ req = "none"
    BY DEF Init
  <2>2. Lost = {}
    BY <2>1, LostIs
  <2>3. Cardinality(Lost) <= dropped
    BY <2>1, <2>2, FS_EmptySet
  <2>4. ~store.torn
    BY <2>1 DEF EmptyFile
  <2> QED BY <2>1, <2>3, <2>4 DEF LossInv
<1>2. LossInv => NothingLostSilently
  BY DEF LossInv, Lossless, NothingLostSilently
<1>3. /\ TypeOK /\ Hands /\ [Next]_vars => Hands'
      /\ TypeOK /\ Hands /\ OrderInv /\ [Next]_vars => OrderInv'
      /\ TypeOK /\ TypeOK' /\ LogBounded /\ Hands /\ OrderInv /\ LossInv /\ [Next]_vars
           => LossInv'
  BY HandsStep, OrderStep, LossStep
<1> QED BY <1>1, <1>2, <1>3, OrderInit, NumberStep, PTL DEF Spec, NumberInv
=============================================================================
