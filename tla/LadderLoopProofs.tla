--------------------------- MODULE LadderLoopProofs ---------------------------
(***************************************************************************)
(* Proofs about the ladder in the live loop, for every ladder SmcConfig    *)
(* accepts whose levels are whole multiples of the entry's distance, and   *)
(* any number of positions, bars and troubles.                             *)
(***************************************************************************)
EXTENDS LadderLoop, TLAPS

Position == [dir : {"LONG", "SHORT"}, open : Int, sl : Nat \ {0}, vol : Nat \ {0}]
PosMemory == [entry : Int, d : Nat \ {0}, vol0 : Nat \ {0}, filled : SUBSET {1, 2},
              s1 : BOOLEAN, s2 : BOOLEAN]
Steps == 1 .. 4

(* A distance that the costs leave some of. *)
Distances == {d \in Nat \ {0} : \A costs \in CostSet : costs < d}
History == [d : Distances, best : Int, lead : Int, moves : Nat]

Snapshot(f) == DOMAIN f \subseteq Tickets /\ \A t \in DOMAIN f : f[t] \in Position

BookOK == Snapshot(book)
TradesOK == DOMAIN trades \subseteq Tickets /\ \A t \in DOMAIN trades : trades[t] \in PosMemory
CacheOK ==
  /\ Snapshot(cache.snap) /\ Snapshot(cache.read)
  /\ {cache.warm, cache.busy, cache.current, cache.readNow} \subseteq BOOLEAN
  /\ DOMAIN cache = {"warm", "snap", "busy", "read", "current", "readNow"}
ActsOK ==
  /\ DOMAIN acts \subseteq Tickets \X Steps
  /\ \A a \in DOMAIN acts : acts[a] \in Nat \ {0}
  /\ pc # "act" => acts = << >>
LoopOK ==
  /\ held \in {"LONG", "SHORT", "none"} /\ pc \in {"bar", "entry", "sit", "act"}
  /\ pc = "entry" => held # "none"
  /\ candle \in Candles /\ prev \in Candles \cup {NoCandle} /\ troubles \in Nat
PastOK == past \in [Tickets -> History]

TypeOK == BookOK /\ TradesOK /\ CacheOK /\ ActsOK /\ LoopOK /\ PastOK

Lock(t) == GainAt(book[t], book[t].sl)
Risk(t) == past[t].d

(* A snapshot may be outdated, but a ticket in it is the same position.     *)
SameTicket(f) == \A t \in Tks \cap DOMAIN f : f[t].dir = book[t].dir /\ f[t].open = book[t].open
Agrees(f) == \A t \in Tks \cap DOMAIN f : f[t] = book[t]
Lists(f) == Tks \subseteq DOMAIN f

CacheInv ==
  /\ SameTicket(cache.snap) /\ SameTicket(cache.read)
  /\ pc # "bar" => ~cache.current /\ ~cache.readNow
  /\ pc = "bar" /\ cache.current => Agrees(cache.snap) /\ (Untroubled => Lists(cache.snap))
  /\ pc = "bar" /\ cache.busy /\ cache.readNow =>
       Agrees(cache.read) /\ (Untroubled => Lists(cache.read))
  /\ pc \in {"entry", "sit"} /\ cache.warm /\ Untroubled =>
       /\ Agrees(cache.snap)
       /\ \A t \in Tks : t \in DOMAIN cache.snap \/ t \notin DOMAIN trades

Remembered(t, st) ==
  /\ st.entry = book[t].open /\ st.d = Risk(t)
  /\ ~st.s1 => Lock(t) = -Risk(t)
  /\ ~st.s2 => Lock(t) < Risk(t)

StopKnown(t) == IF t \in DOMAIN trades THEN Remembered(t, trades[t]) ELSE Lock(t) = -Risk(t)

StopInv ==
  /\ pc \in {"entry", "sit"} /\ troubles <= 1 =>
       ~cache.warm \/ Agrees(cache.snap) \/ \A t \in Tks : StopKnown(t)
  /\ pc = "act" /\ troubles <= 1 =>
       \A t \in Tks : <<t, 4>> \in DOMAIN acts => GainAt(book[t], acts[<<t, 4>>]) > Lock(t)

Seen(t, price) == GainAt(book[t], price) <= past[t].best

(* The candle before the entry confirms nothing that is not in lead: the    *)
(* entry bar closed at a loss, or the snapshot does not show the position.  *)
Unconfirmed(t) ==
  \/ GainAt(book[t], candle.c) <= 0
  \/ GainAt(book[t], prev.c) <= past[t].lead
  \/ cache.warm /\ t \notin DOMAIN cache.snap

SightInv ==
  \A t \in Tks :
    /\ Seen(t, candle.c)
    /\ prev # NoCandle => Seen(t, prev.c) \/ (pc = "sit" /\ Unconfirmed(t))

(* Without trouble there is one position at a time, so the actions of a bar *)
(* are all on one ticket.                                                   *)
One(S) == \A t, u \in S : t = u
Acting == {a[1] : a \in DOMAIN acts}

SingleInv ==
  Untroubled =>
    /\ One(Tks) /\ One(DOMAIN cache.snap) /\ One(DOMAIN cache.read) /\ One(Acting)
    /\ held = "none" \/ pc = "entry" => Tks = {}

Amount(t, k) == IF <<t, k>> \in DOMAIN acts THEN acts[<<t, k>>] ELSE 0
Due4(t) == Amount(t, 1) + Amount(t, 2) + Amount(t, 3)
Marks(st) == (IF st.s1 THEN 1 ELSE 0) + (IF st.s2 THEN 1 ELSE 0)
Sends(t) == past[t].moves + IF <<t, 4>> \in DOMAIN acts THEN 1 ELSE 0

Fresh(t) ==
  /\ Lock(t) = -Risk(t) /\ book[t].vol = Lots /\ past[t].moves = 0
  /\ \A k \in Steps : <<t, k>> \notin DOMAIN acts

Managed(t, st) ==
  /\ st.vol0 = Lots
  /\ Sends(t) <= Marks(st)
  /\ <<t, 4>> \in DOMAIN acts =>
       st.s1 /\ (~st.s2 => GainAt(book[t], acts[<<t, 4>>]) < Risk(t))
  /\ book[t].vol - Due4(t) >= VolMin

Leaving(t) ==
  /\ past[t].moves <= 2 /\ <<t, 4>> \notin DOMAIN acts
  /\ Due4(t) = book[t].vol
  /\ \A k \in Parts : <<t, k>> \in DOMAIN acts => acts[<<t, k>>] >= VolMin

EarnedAll(t) ==
  /\ Sends(t) > 0 => past[t].best >= Stage1R * Risk(t) \/ past[t].lead >= Stage1R * Risk(t)
  /\ book[t].vol < Lots \/ Due4(t) > 0 => past[t].best >= Rung1R * Risk(t)

OnLadder(t) ==
  /\ EarnedAll(t)
  /\ IF t \in DOMAIN trades THEN Managed(t, trades[t]) /\ Remembered(t, trades[t])
     ELSE Fresh(t) \/ (pc = "act" /\ Leaving(t))

LadderInv == Untroubled => \A t \in Tks : OnLadder(t)

Inv == TypeOK /\ CacheInv /\ SingleInv /\ StopInv /\ SightInv /\ LadderInv

-----------------------------------------------------------------------------
(* What the assumptions say of the constants.                               *)
LEMMA Constants ==
  /\ {Rung1R, Stage1R, MinLockR, VolMin, DefaultD, Dist, Lots} \subseteq Nat \ {0}
  /\ {Rung2R, Stage2R, FinalR, Buffer, MaxTickets, MaxTroubles} \subseteq Nat
  /\ Rung2R > Rung1R /\ Stage2R > Stage1R /\ (FinalR = 0 \/ FinalR > Rung2R)
  /\ Rung1Pct \in 1 .. 99 /\ Rung2Pct \in 1 .. 99
  /\ Dirs \subseteq {"LONG", "SHORT"}
  /\ Slips \subseteq Int /\ Quotes \subseteq Int /\ CostSet \subseteq Nat
  /\ VolMin <= Lots
  /\ \A c \in Candles : /\ c \in [h : Nat, l : Nat, c : Nat]
                        /\ \A quote \in Quotes : c.c + quote > Dist
BY LoopAssumption, BrokerAssumption, LadderAssumption DEF LadderValid

(* The distance of a fill is one.                                           *)
LEMMA FillDistances ==
  Dist \in Distances /\ \A slip \in Slips : {Dist + slip, Dist - slip} \subseteq Distances
<1>1. SUFFICES ASSUME NEW slip \in Slips
               PROVE  Dist \in Distances /\ {Dist + slip, Dist - slip} \subseteq Distances
  BY LoopAssumption
<1>2. slip \in Int /\ Dist \in Nat \ {0} /\ CostSet \subseteq Nat
  BY Constants
<1>3. \A costs \in CostSet : costs \in Nat /\ costs + slip < Dist /\ costs - slip < Dist
  BY <1>2, BrokerAssumption
<1>4. \A costs \in CostSet : costs < Dist - slip /\ costs < Dist + slip /\ costs < Dist
  BY <1>2, <1>3
<1>5. Dist + slip \in Nat \ {0} /\ Dist - slip \in Nat \ {0}
  <2>1. PICK costs \in CostSet : TRUE
    BY LoopAssumption
  <2>2. QED
    BY <1>2, <1>3, <1>4, <2>1
<1>6. QED
  BY <1>2, <1>4, <1>5 DEF Distances

(* Multiples of a distance.                                                 *)
LEMMA Multiples ==
  \A a, b, d \in Nat : /\ a * d \in Nat
                       /\ a <= b => a * d <= b * d
                       /\ a >= 1 => a * d >= d
<1>1. SUFFICES ASSUME NEW a \in Nat, NEW b \in Nat, NEW d \in Nat
               PROVE  /\ a * d \in Nat
                      /\ a <= b => a * d <= b * d
                      /\ a >= 1 => a * d >= d
  OBVIOUS
<1>2. ASSUME a <= b PROVE a * d <= b * d
  <2>1. b - a \in Nat /\ b = a + (b - a)
    BY <1>2
  <2>2. (b - a) * d \in Nat /\ b * d = a * d + (b - a) * d
    BY <2>1
  <2>3. QED
    BY <2>2
<1>3. ASSUME a >= 1 PROVE a * d >= d
  <2>1. a - 1 \in Nat
    BY <1>3
  <2>2. (a - 1) * d \in Nat /\ a * d = (a - 1) * d + d
    BY <2>1
  <2>3. QED
    BY <2>2
<1>4. QED
  BY <1>2, <1>3

-----------------------------------------------------------------------------
(* The exit manager.                                                        *)

(* What the manager knows of a ticket has its type; of a ticket it does not *)
(* know, it learns entry, distance and volume from the snapshot.            *)
LEMMA StateIs ==
  ASSUME NEW m, \A u \in DOMAIN m : m[u] \in PosMemory, NEW t, NEW p \in Position
  PROVE  LET st == StateOf(m, t, p) IN
         /\ st \in PosMemory
         /\ t \in DOMAIN m => st = m[t]
         /\ t \notin DOMAIN m =>
              /\ st.entry = p.open /\ st.vol0 = p.vol /\ st.filled = {} /\ ~st.s1 /\ ~st.s2
              /\ \A d \in Nat \ {0} : GainAt(p, p.sl) = -d => st.d = d
<1>1. p.open \in Int /\ p.sl \in Nat \ {0} /\ p.vol \in Nat \ {0} /\ p.dir \in {"LONG", "SHORT"}
  BY DEF Position
<1>2. InitialDistance(p) \in Nat \ {0}
  BY <1>1, Constants DEF InitialDistance, AbsDiff
<1>3. \A d \in Nat \ {0} : GainAt(p, p.sl) = -d => InitialDistance(p) = d
  BY <1>1 DEF InitialDistance, AbsDiff, GainAt
<1>4. CASE t \in DOMAIN m
  BY <1>4 DEF StateOf
<1>5. CASE t \notin DOMAIN m
  <2>1. StateOf(m, t, p) = PosState(p)
    BY <1>5 DEF StateOf
  <2> DEFINE dist == InitialDistance(p)
  <2>2. PosState(p) = [entry |-> p.open, d |-> dist, vol0 |-> p.vol,
                       filled |-> {}, s1 |-> FALSE, s2 |-> FALSE]
    BY DEF PosState
  <2>3. dist \in Nat \ {0} /\ \A d \in Nat \ {0} : GainAt(p, p.sl) = -d => dist = d
    BY <1>2, <1>3
  <2> HIDE DEF dist
  <2>4. PosState(p) \in PosMemory
    BY <1>1, <2>2, <2>3 DEF PosMemory
  <2>5. QED
    BY <1>5, <2>1, <2>2, <2>3, <2>4
<1>6. QED
  BY <1>4, <1>5

(* The rungs leave a position that the broker accepts, or take nothing; the *)
(* final target takes exactly what they leave.                              *)
LEMMA VolumesFit ==
  ASSUME NEW p \in Position, NEW st \in PosMemory, NEW close
  PROVE  LET one == First(p, st, close)
             two == Second(p, st, close)
             rest == Remainder(p, st, close)
         IN /\ one \in Nat /\ two \in Nat /\ rest \in Nat
            /\ one > 0 => one >= VolMin /\ Reached(p, st, close, Rung1R)
            /\ two > 0 => two >= VolMin /\ Reached(p, st, close, Rung2R)
            /\ one + two > 0 => p.vol - one - two >= VolMin
            /\ Final(p, st, close) => one + two + rest = p.vol
            /\ ~Final(p, st, close) => rest = 0
<1> DEFINE one == First(p, st, close)
           two == Second(p, st, close)
           rest == Remainder(p, st, close)
<1>1. /\ p.vol \in Nat \ {0} /\ st.vol0 \in Nat /\ VolMin \in Nat \ {0}
      /\ Rung1Pct \in Nat /\ Rung2Pct \in Nat
  BY Constants DEF Position, PosMemory
<1>2. \A k \in {1, 2} : RungVolume(st, k) \in Int
  BY <1>1 DEF RungVolume, RungPct
<1>3. \A k \in {1, 2}, left \in Int :
        LET v == Rung(k, p, st, close, left) IN
        /\ v \in Nat
        /\ v > 0 => v >= VolMin /\ left - v >= VolMin /\ Reached(p, st, close, RungR(k))
  BY <1>1, <1>2 DEF Rung, Due
<1>4. /\ one \in Nat
      /\ one > 0 => one >= VolMin /\ p.vol - one >= VolMin /\ Reached(p, st, close, Rung1R)
  BY <1>1, <1>3 DEF First, RungR
<1>5. two = Rung(2, p, st, close, p.vol - one) /\ p.vol - one \in Int
  BY <1>1, <1>4 DEF Second
<1> HIDE DEF one
<1>6. /\ two \in Nat
      /\ two > 0 => two >= VolMin /\ p.vol - one - two >= VolMin
                      /\ Reached(p, st, close, Rung2R)
  BY <1>3, <1>5 DEF RungR
<1>7. rest = IF Final(p, st, close) THEN p.vol - one - two ELSE 0
  BY DEF Remainder, one
<1> HIDE DEF two, rest
<1>8. one + two > 0 => p.vol - one - two >= VolMin
  BY <1>1, <1>4, <1>6
<1>9. rest \in Nat
  BY <1>1, <1>4, <1>6, <1>7, <1>8
<1>10. QED
  BY <1>1, <1>4, <1>6, <1>7, <1>8, <1>9 DEF one, two, rest

(* A stop that is moved goes beyond the snapshot's and stays behind the     *)
(* price: by the costs at the first stage, by the lock at the second.       *)
LEMMA MoveIs ==
  ASSUME NEW p \in Position, NEW st \in PosMemory, NEW close \in Nat,
         NEW cand \in Candles \cup {NoCandle}, NEW costs \in CostSet,
         Moves(p, st, close, cand, costs) > 0
  PROVE  LET stage == Moves(p, st, close, cand, costs)
             level == Level(p, st, cand, stage, costs)
         IN /\ stage \in {1, 2} /\ level \in Nat \ {0}
            /\ cand \in Candles /\ ~st.s2
            /\ Gain(p, st, level) \in Nat
            /\ Gain(p, st, level) < Gain(p, st, close)
            /\ Gain(p, st, level) > Gain(p, st, p.sl)
            /\ Reached(p, st, cand.c, Stage1R)
            /\ stage = 1 => ~st.s1 /\ \A d \in Distances : Gain(p, st, level) < d
            /\ stage = 2 => Gain(p, st, level) >= st.d
<1> DEFINE stage == Moves(p, st, close, cand, costs)
           level == Level(p, st, cand, stage, costs)
<1>1. /\ st.entry \in Int /\ st.d \in Nat \ {0} /\ p.sl \in Nat \ {0}
      /\ p.dir \in {"LONG", "SHORT"} /\ st.s1 \in BOOLEAN /\ st.s2 \in BOOLEAN
      /\ costs \in Nat /\ Buffer \in Nat /\ \A d \in Distances : costs < d
  BY Constants DEF Position, PosMemory, Distances
<1>2. stage = Stage(p, st, cand) /\ stage > 0 /\ Allowed(p, level, close)
  BY DEF Moves
<1>3. /\ stage \in {1, 2} /\ cand # NoCandle /\ ~st.s2
      /\ stage = 1 => ~st.s1 /\ Reached(p, st, cand.c, Stage1R)
      /\ stage = 2 => Reached(p, st, cand.c, Stage2R)
  BY <1>2 DEF Stage
<1>4. cand \in Candles /\ cand.h \in Nat /\ cand.l \in Nat /\ cand.c \in Nat
  BY <1>3, Constants
<1> DEFINE lock == MinLockR * st.d
<1>5. /\ lock \in Nat /\ lock >= st.d
      /\ Stage1R * st.d <= Stage2R * st.d /\ Stage1R * st.d \in Nat /\ Stage2R * st.d \in Nat
  BY <1>1, Constants, Multiples
<1> DEFINE target == IF p.dir = "LONG" THEN MaxOf(cand.l - Buffer, st.entry + lock)
                     ELSE MinOf(cand.h + Buffer, st.entry - lock)
<1>6. level = IF stage = 1 THEN IF p.dir = "LONG" THEN st.entry + costs ELSE st.entry - costs
              ELSE target
  BY DEF Level
<1> HIDE DEF lock, stage
<1>7. /\ target \in Int
      /\ p.dir = "LONG" => target - st.entry >= lock
      /\ p.dir # "LONG" => st.entry - target >= lock
  BY <1>1, <1>4, <1>5 DEF MaxOf, MinOf
<1> HIDE DEF target
<1>8. level \in Int
  BY <1>1, <1>6, <1>7
<1>9. /\ stage = 1 => Gain(p, st, level) = costs
      /\ stage = 2 => Gain(p, st, level) >= lock /\ Gain(p, st, level) \in Int
  BY <1>1, <1>6, <1>7 DEF Gain
<1> HIDE DEF level
<1>10. /\ level \in Nat \ {0}
       /\ Gain(p, st, level) < Gain(p, st, close)
       /\ Gain(p, st, level) > Gain(p, st, p.sl)
  BY <1>1, <1>2, <1>8 DEF Allowed, Gain
<1>11. Reached(p, st, cand.c, Stage1R)
  <2>1. Gain(p, st, cand.c) \in Int
    BY <1>1, <1>4 DEF Gain
  <2>2. QED
    BY <1>3, <1>5, <2>1 DEF Reached
<1>12. QED
  BY <1>1, <1>3, <1>4, <1>5, <1>9, <1>10, <1>11 DEF stage, level

(* The actions are of tickets in the snapshot.                              *)
LEMMA ActionsAre ==
  ASSUME NEW m, \A u \in DOMAIN m : m[u] \in PosMemory, NEW f, Snapshot(f),
         NEW close \in Nat, NEW cand \in Candles \cup {NoCandle}, NEW costs \in CostSet
  PROVE  LET list == Actions(m, f, close, cand, costs) IN
         /\ DOMAIN list \subseteq (DOMAIN f) \X Steps
         /\ \A a \in DOMAIN list : list[a] \in Nat \ {0}
<1> DEFINE list == Actions(m, f, close, cand, costs)
           St(t) == StateOf(m, t, f[t])
           stage(t) == Moves(f[t], St(t), close, cand, costs)
           parts == Closes(m, f, close)
           moves == StopMoves(m, f, close, cand, costs)
<1>1. /\ DOMAIN list = parts \cup moves \X {4}
      /\ \A a \in DOMAIN list :
           list[a] = IF a[2] = 4 THEN Level(f[a[1]], St(a[1]), cand, stage(a[1]), costs)
                     ELSE Volume(a[2], f[a[1]], St(a[1]), close)
  BY DEF Actions
<1>2. /\ parts \subseteq (DOMAIN f) \X Parts /\ moves \subseteq DOMAIN f
      /\ \A a \in (DOMAIN f) \X Parts :
           a \in parts <=> Volume(a[2], f[a[1]], St(a[1]), close) > 0
      /\ \A t \in DOMAIN f : t \in moves <=> ~Final(f[t], St(t), close) /\ stage(t) > 0
  BY DEF Closes, StopMoves
<1>3. \A t \in DOMAIN f : f[t] \in Position /\ St(t) \in PosMemory
  BY StateIs DEF Snapshot
<1>4. \A t \in DOMAIN f, k \in Parts : Volume(k, f[t], St(t), close) \in Nat
  <2>1. SUFFICES ASSUME NEW t \in DOMAIN f, NEW k \in Parts
                 PROVE  Volume(k, f[t], St(t), close) \in Nat
    OBVIOUS
  <2>2. /\ First(f[t], St(t), close) \in Nat /\ Second(f[t], St(t), close) \in Nat
        /\ Remainder(f[t], St(t), close) \in Nat
    BY <1>3, VolumesFit
  <2>3. k = 1 \/ k = 2 \/ k = 3
    BY DEF Parts
  <2>4. QED
    BY <2>2, <2>3 DEF Volume
<1>5. \A t \in moves : Level(f[t], St(t), cand, stage(t), costs) \in Nat \ {0}
  BY <1>2, <1>3, MoveIs
<1> HIDE DEF list, St, stage, parts, moves
<1>6. /\ DOMAIN list \subseteq (DOMAIN f) \X Steps
      /\ \A a \in DOMAIN list : list[a] \in Nat \ {0}
  <2>1. Parts \subseteq Steps /\ 4 \in Steps /\ 4 \notin Parts
    BY DEF Parts, Steps
  <2>2. ASSUME NEW a \in DOMAIN list
        PROVE  a \in (DOMAIN f) \X Steps /\ list[a] \in Nat \ {0}
    <3>1. CASE a \in parts
      <4>1. a \in (DOMAIN f) \X Parts /\ a[2] # 4 /\ a[1] \in DOMAIN f /\ a[2] \in Parts
        BY <1>2, <2>1, <3>1
      <4>2. list[a] = Volume(a[2], f[a[1]], St(a[1]), close) /\ list[a] > 0
        BY <1>1, <1>2, <3>1, <4>1
      <4>3. list[a] \in Nat
        BY <1>4, <4>1, <4>2
      <4>4. QED
        BY <2>1, <4>1, <4>2, <4>3
    <3>2. CASE a \in moves \X {4}
      <4>1. a[1] \in moves /\ a[2] = 4 /\ a \in (DOMAIN f) \X Steps
        BY <1>2, <2>1, <3>2
      <4>2. QED
        BY <1>1, <1>5, <4>1
    <3>3. QED
      BY <1>1, <3>1, <3>2
  <2>3. QED
    BY <2>2
<1>7. QED
  BY <1>6 DEF list

(* They are the volumes and the stop of every ticket that it lists.         *)
LEMMA ActionsOn ==
  ASSUME NEW m, NEW f, NEW close, NEW cand, NEW costs, NEW t \in DOMAIN f,
         NEW list, list = Actions(m, f, close, cand, costs),
         NEW st, st = StateOf(m, t, f[t]),
         NEW stage, stage = Moves(f[t], st, close, cand, costs)
  PROVE  /\ \A k \in Parts :
              /\ <<t, k>> \in DOMAIN list <=> Volume(k, f[t], st, close) > 0
              /\ <<t, k>> \in DOMAIN list => list[<<t, k>>] = Volume(k, f[t], st, close)
         /\ <<t, 4>> \in DOMAIN list <=> ~Final(f[t], st, close) /\ stage > 0
         /\ <<t, 4>> \in DOMAIN list =>
              list[<<t, 4>>] = Level(f[t], st, cand, stage, costs)
<1> DEFINE St(u) == StateOf(m, u, f[u])
           stageOf(u) == Moves(f[u], St(u), close, cand, costs)
           parts == Closes(m, f, close)
           moves == StopMoves(m, f, close, cand, costs)
<1>1. /\ DOMAIN list = parts \cup moves \X {4}
      /\ \A a \in DOMAIN list :
           list[a] = IF a[2] = 4 THEN Level(f[a[1]], St(a[1]), cand, stageOf(a[1]), costs)
                     ELSE Volume(a[2], f[a[1]], St(a[1]), close)
  BY DEF Actions
<1>2. /\ parts \subseteq (DOMAIN f) \X Parts /\ moves \subseteq DOMAIN f
      /\ \A a \in (DOMAIN f) \X Parts :
           a \in parts <=> Volume(a[2], f[a[1]], St(a[1]), close) > 0
      /\ \A u \in DOMAIN f : u \in moves <=> ~Final(f[u], St(u), close) /\ stageOf(u) > 0
  BY DEF Closes, StopMoves
<1>3. St(t) = st /\ stageOf(t) = stage
  OBVIOUS
<1> HIDE DEF St, stageOf, parts, moves
<1>4. ASSUME NEW k \in Parts
      PROVE  /\ <<t, k>> \in DOMAIN list <=> Volume(k, f[t], st, close) > 0
             /\ <<t, k>> \in DOMAIN list => list[<<t, k>>] = Volume(k, f[t], st, close)
  <2>1. k # 4 /\ <<t, k>> \in (DOMAIN f) \X Parts /\ <<t, k>> \notin moves \X {4}
    BY DEF Parts
  <2>2. <<t, k>> \in DOMAIN list <=> <<t, k>> \in parts
    BY <1>1, <2>1
  <2>3. QED
    BY <1>1, <1>2, <1>3, <2>1, <2>2
<1>5. /\ <<t, 4>> \in DOMAIN list <=> ~Final(f[t], st, close) /\ stage > 0
      /\ <<t, 4>> \in DOMAIN list => list[<<t, 4>>] = Level(f[t], st, cand, stage, costs)
  <2>1. <<t, 4>> \notin parts
    BY <1>2 DEF Parts
  <2>2. <<t, 4>> \in DOMAIN list <=> t \in moves
    BY <1>1, <2>1
  <2>3. QED
    BY <1>1, <1>2, <1>3, <2>2
<1>6. QED
  BY <1>4, <1>5

(* What is remembered of a ticket the snapshot lists: the marks advance     *)
(* with the stop, the rest stays.  What reached the final target, and what  *)
(* is not listed, is forgotten.                                             *)
LEMMA RemembersAre ==
  ASSUME NEW m, \A u \in DOMAIN m : m[u] \in PosMemory, NEW f, Snapshot(f),
         NEW close, NEW cand, NEW costs
  PROVE  LET next == Remember(m, f, close, cand, costs) IN
         /\ DOMAIN next \subseteq DOMAIN f
         /\ \A t \in DOMAIN f : LET st == StateOf(m, t, f[t])
                                    stage == Moves(f[t], st, close, cand, costs)
                                IN
              /\ t \in DOMAIN next <=> ~Final(f[t], st, close)
              /\ t \in DOMAIN next =>
                   /\ next[t] \in PosMemory
                   /\ next[t].entry = st.entry /\ next[t].d = st.d /\ next[t].vol0 = st.vol0
                   /\ next[t].s1 <=> st.s1 \/ stage > 0
                   /\ next[t].s2 <=> st.s2 \/ stage = 2
<1> DEFINE next == Remember(m, f, close, cand, costs)
<1>1. DOMAIN next = {u \in DOMAIN f : ~Final(f[u], StateOf(m, u, f[u]), close)}
  BY DEF Remember
<1>2. ASSUME NEW t \in DOMAIN f, t \in DOMAIN next
      PROVE  LET st == StateOf(m, t, f[t])
                 stage == Moves(f[t], st, close, cand, costs)
             IN /\ next[t] \in PosMemory
                /\ next[t].entry = st.entry /\ next[t].d = st.d /\ next[t].vol0 = st.vol0
                /\ next[t].s1 <=> st.s1 \/ stage > 0
                /\ next[t].s2 <=> st.s2 \/ stage = 2
  <2> DEFINE st == StateOf(m, t, f[t])
             stage == Moves(f[t], st, close, cand, costs)
             due == st.filled \cup {k \in {1, 2} : Due(k, f[t], st, close)}
             one == st.s1 \/ stage > 0
             two == st.s2 \/ stage = 2
  <2>1. next[t] = [st EXCEPT !.filled = due, !.s1 = one, !.s2 = two]
    BY <1>1, <1>2 DEF Remember
  <2>2. st \in PosMemory
    BY StateIs DEF Snapshot
  <2>3. due \in SUBSET {1, 2} /\ one \in BOOLEAN /\ two \in BOOLEAN
    BY <2>2 DEF PosMemory
  <2>4. (one <=> st.s1 \/ stage > 0) /\ (two <=> st.s2 \/ stage = 2)
    OBVIOUS
  <2> HIDE DEF st, stage, due, one, two
  <2>5. /\ next[t] \in PosMemory
        /\ next[t].entry = st.entry /\ next[t].d = st.d /\ next[t].vol0 = st.vol0
        /\ next[t].s1 = one /\ next[t].s2 = two
    BY <2>1, <2>2, <2>3 DEF PosMemory
  <2>6. QED
    BY <2>4, <2>5 DEF st, stage
<1>3. QED
  BY <1>1, <1>2

-----------------------------------------------------------------------------
(* What the steps do to the account.                                        *)

(* An entry opens nothing, or a position under a new ticket, its stop at    *)
(* its distance and its entry bar as the first it has seen.                 *)
Entered(t) ==
  /\ Tks' = Tks \cup {t} /\ \A u \in Tks : u # t /\ book'[u] = book[u]
  /\ book'[t] \in Position /\ Lock(t)' = -past'[t].d /\ book'[t].vol = Lots
  /\ past'[t].best = GainAt(book'[t], candle.c) /\ past'[t].moves = 0
  /\ past'[t].lead = IF ~cache.warm /\ prev # NoCandle /\ GainAt(book'[t], candle.c) > 0
                     THEN GainAt(book'[t], prev.c) ELSE 0
  /\ PastOK' /\ \A u \in Tickets : u # t => past'[u] = past[u]

LEMMA EnterIs ==
  ASSUME TypeOK, Enter
  PROVE  UNCHANGED <<book, past>> \/ \E t \in FreeTickets : Entered(t)
<1>1. CASE UNCHANGED <<book, past>>
  BY <1>1
<1>2. CASE \E t \in FreeTickets : Opened(t)
  <2>1. PICK t \in FreeTickets, quote \in Quotes, slip \in Slips :
          /\ book' = Put(book, t, Fill(quote, slip))
          /\ past' = [past EXCEPT ![t] = NewPast(Fill(quote, slip))]
    BY <1>2 DEF Opened
  <2>2. t \in Tickets /\ t \notin Tks
    BY <2>1 DEF FreeTickets
  <2>3. /\ held \in {"LONG", "SHORT"} /\ candle \in Candles
        /\ prev \in Candles \cup {NoCandle} /\ past \in [Tickets -> History]
    BY DEF TypeOK, LoopOK, Enter, PastOK
  <2>4. /\ candle.c \in Nat /\ quote \in Int /\ slip \in Int /\ candle.c + quote > Dist
        /\ Dist \in Nat \ {0} /\ Lots \in Nat \ {0}
        /\ Dist + slip \in Distances /\ Dist - slip \in Distances
        /\ prev # NoCandle => prev.c \in Nat
    BY <2>1, <2>3, Constants, FillDistances
  <2> DEFINE price == candle.c + quote
             open == price + slip
             sign == IF held = "LONG" THEN 1 ELSE -1
             sl == price - sign * Dist
             risk == AbsDiff(open, sl)
             pos == [dir |-> held, open |-> open, sl |-> sl, vol |-> Lots]
  <2>5. /\ open \in Int /\ sl \in Nat \ {0} /\ risk \in Distances
        /\ held = "LONG" => sl - open = -risk
        /\ held # "LONG" => open - sl = -risk
    <3>1. price \in Int /\ price > Dist /\ open \in Int
      BY <2>4
    <3>2. Dist + slip \in Nat \ {0} /\ Dist - slip \in Nat \ {0}
      BY <2>4 DEF Distances
    <3>3. CASE held = "LONG"
      <4>1. sl = price - Dist
        BY <2>4, <3>1, <3>3
      <4> HIDE DEF price, sl
      <4>2. sl \in Nat \ {0} /\ AbsDiff(open, sl) = Dist + slip /\ sl - open = -(Dist + slip)
        BY <2>4, <3>1, <3>2, <4>1 DEF AbsDiff
      <4>3. QED
        BY <2>4, <3>1, <3>3, <4>2
    <3>4. CASE held # "LONG"
      <4>1. sl = price + Dist
        BY <2>4, <3>1, <3>4
      <4> HIDE DEF price, sl
      <4>2. sl \in Nat \ {0} /\ AbsDiff(open, sl) = Dist - slip /\ open - sl = -(Dist - slip)
        BY <2>4, <3>1, <3>2, <4>1 DEF AbsDiff
      <4>3. QED
        BY <2>4, <3>1, <3>4, <4>2
    <3>5. QED
      BY <3>1, <3>3, <3>4
  <2>6. Fill(quote, slip) = pos
    BY DEF Fill
  <2> DEFINE lead == IF ~cache.warm /\ prev # NoCandle /\ GainAt(pos, candle.c) > 0
                     THEN GainAt(pos, prev.c) ELSE 0
             best == GainAt(pos, candle.c)
             rec == [d |-> risk, best |-> best, lead |-> lead, moves |-> 0]
  <2>7. NewPast(pos) = rec
    BY DEF NewPast, Lead
  <2> HIDE DEF open, sl, risk
  <2>8. pos \in Position /\ GainAt(pos, pos.sl) = -risk /\ pos.vol = Lots
    BY <2>3, <2>4, <2>5 DEF Position, GainAt
  <2>9. best \in Int /\ lead \in Int
    BY <2>4, <2>5 DEF GainAt
  <2>10. /\ best = GainAt(pos, candle.c)
         /\ lead = IF ~cache.warm /\ prev # NoCandle /\ GainAt(pos, candle.c) > 0
                   THEN GainAt(pos, prev.c) ELSE 0
    OBVIOUS
  <2> HIDE DEF pos, best, lead
  <2>11. /\ rec \in History /\ rec.d = risk /\ rec.best = best
         /\ rec.lead = lead /\ rec.moves = 0
    BY <2>5, <2>9 DEF History
  <2> HIDE DEF rec
  <2>12. /\ Tks' = Tks \cup {t} /\ book'[t] = pos
         /\ \A u \in Tks : u # t /\ book'[u] = book[u]
    <3>1. book' = [u \in Tks \cup {t} |-> IF u = t THEN pos ELSE book[u]]
      BY <2>1, <2>6 DEF Put, Tks
    <3>2. QED
      BY <2>2, <3>1 DEF Tks
  <2>13. /\ past'[t] = rec /\ past' \in [Tickets -> History]
         /\ \A u \in Tickets : u # t => past'[u] = past[u]
    BY <2>1, <2>2, <2>3, <2>6, <2>7, <2>11
  <2>14. Lock(t)' = -past'[t].d
    BY <2>8, <2>11, <2>12, <2>13 DEF Lock
  <2>15. Entered(t)
    BY <2>8, <2>10, <2>11, <2>12, <2>13, <2>14 DEF Entered, PastOK
  <2>16. QED
    BY <2>1, <2>15
<1>3. QED
  BY <1>1, <1>2 DEF Enter

(* What an action does to its own position: nothing, for want of the        *)
(* position or of an answer; it closes it, takes volume off it, or sets     *)
(* its stop.                                                                *)
Nothing(t) == UNCHANGED <<book, past>> /\ (t \in Tks => Trouble)
Closed(t, a) ==
  t \in Tks /\ a[2] \in Parts /\ acts[a] >= book[t].vol /\ Tks' = Tks \ {t} /\ past' = past
Reduced(t, a) ==
  /\ t \in Tks /\ a[2] \in Parts /\ acts[a] < book[t].vol /\ Tks' = Tks /\ past' = past
  /\ book'[t].sl = book[t].sl /\ book'[t].vol = book[t].vol - acts[a]
StopSet(t, a) ==
  /\ t \in Tks /\ a[2] = 4 /\ Tks' = Tks
  /\ book'[t].sl = acts[a] /\ book'[t].vol = book[t].vol
  /\ past'[t].moves = past[t].moves + 1

(* The rest of the account is left alone.                                   *)
OnlyOf(t) ==
  /\ Tks' \subseteq Tks /\ BookOK' /\ PastOK'
  /\ \A u \in Tks' :
       /\ book'[u].dir = book[u].dir /\ book'[u].open = book[u].open
       /\ past'[u].d = past[u].d /\ past'[u].best = past[u].best /\ past'[u].lead = past[u].lead
       /\ u # t => book'[u] = book[u] /\ past'[u] = past[u]

LEMMA ApplyIs ==
  ASSUME TypeOK, NEW t \in Tks, NEW k \in Steps, <<t, k>> \in DOMAIN acts, ApplyAct(t, k)
  PROVE  /\ OnlyOf(t)
         /\ Closed(t, <<t, k>>) \/ Reduced(t, <<t, k>>) \/ StopSet(t, <<t, k>>)
<1> DEFINE a == <<t, k>>
           amount == acts[a]
<1>1. /\ Tks \subseteq Tickets /\ \A u \in Tks : book[u] \in Position
      /\ past \in [Tickets -> History]
      /\ amount \in Nat \ {0}
  BY DEF TypeOK, BookOK, Snapshot, Tks, PastOK, ActsOK
<1>2. /\ book[t].vol \in Nat \ {0} /\ t \in Tickets
      /\ past[t] \in History /\ past[t].moves \in Nat
  BY <1>1 DEF Position, History
<1>3. a[1] = t /\ a[2] = k /\ amount = acts[a]
  OBVIOUS
<1>4. CASE k \in Parts /\ amount >= book[t].vol
  <2>1. book' = Drop(book, t) /\ past' = past
    BY <1>4 DEF ApplyAct
  <2>2. Tks' = Tks \ {t} /\ \A u \in Tks' : book'[u] = book[u]
    BY <2>1 DEF Drop, Tks
  <2>3. OnlyOf(t)
    BY <1>1, <2>1, <2>2 DEF OnlyOf, BookOK, Snapshot, Tks, PastOK
  <2>4. QED
    BY <1>3, <1>4, <2>1, <2>2, <2>3 DEF Closed
<1>5. CASE k \in Parts /\ amount < book[t].vol
  <2> DEFINE vol == book[t].vol - amount
             pos == [book[t] EXCEPT !.vol = vol]
  <2>1. book' = [book EXCEPT ![t].vol = @ - amount] /\ past' = past
    BY <1>1, <1>2, <1>5 DEF ApplyAct
  <2>2. book' = [book EXCEPT ![t] = pos]
    BY <2>1
  <2>3. vol \in Nat \ {0} /\ vol = book[t].vol - amount
    BY <1>1, <1>2, <1>5
  <2> HIDE DEF vol, amount
  <2>4. /\ pos \in Position /\ pos.vol = vol /\ pos.sl = book[t].sl
        /\ pos.dir = book[t].dir /\ pos.open = book[t].open
    BY <1>1, <2>3 DEF Position
  <2> HIDE DEF pos
  <2>5. Tks' = Tks /\ book'[t] = pos /\ \A u \in Tks : u # t => book'[u] = book[u]
    BY <2>2 DEF Tks
  <2>6. OnlyOf(t)
    <3>1. BookOK' /\ PastOK'
      BY <1>1, <2>1, <2>4, <2>5 DEF BookOK, Snapshot, Tks, PastOK
    <3>2. QED
      BY <2>1, <2>4, <2>5, <3>1 DEF OnlyOf
  <2>7. Reduced(t, a)
    BY <1>3, <1>5, <2>1, <2>3, <2>4, <2>5 DEF Reduced
  <2>8. QED
    BY <2>6, <2>7
<1>6. CASE k \notin Parts
  <2> DEFINE pos == [book[t] EXCEPT !.sl = amount]
             more == past[t].moves + 1
             rec == [past[t] EXCEPT !.moves = more]
  <2>1. book' = [book EXCEPT ![t].sl = amount] /\ past' = [past EXCEPT ![t].moves = @ + 1]
    BY <1>6 DEF ApplyAct
  <2>2. book' = [book EXCEPT ![t] = pos] /\ past' = [past EXCEPT ![t] = rec] /\ k = 4
    BY <1>6, <2>1 DEF Steps, Parts
  <2>3. more \in Nat /\ more = past[t].moves + 1
    BY <1>2
  <2> HIDE DEF more, amount
  <2>4. /\ pos \in Position /\ pos.sl = amount /\ pos.vol = book[t].vol
        /\ pos.dir = book[t].dir /\ pos.open = book[t].open
    BY <1>1 DEF Position
  <2>5. /\ rec \in History /\ rec.moves = more
        /\ rec.d = past[t].d /\ rec.best = past[t].best /\ rec.lead = past[t].lead
    BY <1>2, <2>3 DEF History
  <2> HIDE DEF pos, rec
  <2>6. /\ Tks' = Tks /\ book'[t] = pos /\ \A u \in Tks : u # t => book'[u] = book[u]
    BY <2>2 DEF Tks
  <2>7. /\ past'[t] = rec /\ \A u \in Tickets : u # t => past'[u] = past[u]
        /\ past' \in [Tickets -> History]
    BY <1>1, <1>2, <2>2, <2>5
  <2>8. OnlyOf(t)
    <3>1. BookOK' /\ PastOK'
      BY <1>1, <2>4, <2>6, <2>7 DEF BookOK, Snapshot, Tks, PastOK
    <3>2. QED
      BY <1>1, <2>4, <2>5, <2>6, <2>7, <3>1 DEF OnlyOf
  <2>9. StopSet(t, a)
    BY <1>3, <2>2, <2>3, <2>4, <2>5, <2>6, <2>7 DEF StopSet
  <2>10. QED
    BY <2>8, <2>9
<1>7. QED
  BY <1>1, <1>2, <1>4, <1>5, <1>6

LEMMA ActIs ==
  ASSUME TypeOK, ActNext
  PROVE  \E t \in Tickets, k \in Steps :
           /\ <<t, k>> \in DOMAIN acts
           /\ acts' = Drop(acts, <<t, k>>) \/ (acts' = << >> /\ (Trouble \/ t \notin Tks))
           /\ Fine \/ Trouble
           /\ OnlyOf(t)
           /\ Nothing(t) \/ Closed(t, <<t, k>>) \/ Reduced(t, <<t, k>>) \/ StopSet(t, <<t, k>>)
<1>1. PICK a \in DOMAIN acts :
        \/ /\ a[1] \in Tks /\ ApplyAct(a[1], a[2]) /\ Fine
           /\ acts' = Drop(acts, a)
        \/ /\ a[1] \in Tks /\ Trouble
           /\ ApplyAct(a[1], a[2]) \/ UNCHANGED <<book, past>>
           /\ acts' = << >>
        \/ /\ a[1] \in Tks /\ Trouble
           /\ acts' = Drop(acts, a) /\ UNCHANGED <<book, past>>
        \/ /\ a[1] \notin Tks /\ Fine
           /\ acts' \in {Drop(acts, a), << >>} /\ UNCHANGED <<book, past>>
  BY DEF ActNext
<1>2. PICK t \in Tickets, k \in Steps : a = <<t, k>>
  BY DEF TypeOK, ActsOK
<1>3. a[1] = t /\ a[2] = k
  BY <1>2
<1>4. UNCHANGED <<book, past>> => OnlyOf(t)
  BY DEF OnlyOf, TypeOK, BookOK, PastOK, Snapshot, Tks
<1>5. t \in Tks /\ ApplyAct(t, k) =>
        /\ OnlyOf(t)
        /\ Closed(t, <<t, k>>) \/ Reduced(t, <<t, k>>) \/ StopSet(t, <<t, k>>)
  BY <1>2, ApplyIs
<1>6. /\ OnlyOf(t)
      /\ Nothing(t) \/ Closed(t, <<t, k>>) \/ Reduced(t, <<t, k>>) \/ StopSet(t, <<t, k>>)
  BY <1>1, <1>3, <1>4, <1>5 DEF Nothing
<1>7. acts' = Drop(acts, <<t, k>>) \/ (acts' = << >> /\ (Trouble \/ t \notin Tks))
  BY <1>1, <1>2, <1>3
<1>8. Fine \/ Trouble
  BY <1>1
<1>9. QED
  BY <1>2, <1>6, <1>7, <1>8
(* A bar: each position remembers the best close it has seen.               *)
LEMMA BarIs ==
  ASSUME TypeOK, NEW c \in Candles, Bar(c)
  PROVE  /\ PastOK' /\ c.c \in Nat
         /\ \A t \in Tks : /\ GainAt(book[t], c.c) \in Int /\ past[t].best \in Int
                           /\ past'[t].best = MaxOf(past[t].best, GainAt(book[t], c.c))
                           /\ past'[t].moves = past[t].moves
                           /\ past'[t].d = past[t].d /\ past'[t].lead = past[t].lead
<1>1. /\ Tks \subseteq Tickets /\ \A t \in Tks : book[t] \in Position
      /\ past \in [Tickets -> History]
  BY DEF TypeOK, BookOK, Snapshot, PastOK, Tks
<1>2. c.c \in Nat
  BY Constants
<1> DEFINE best(t) == MaxOf(past[t].best, GainAt(book[t], c.c))
           rec(t) == [past[t] EXCEPT !.best = best(t)]
<1>3. past' = [t \in Tickets |-> IF t \in Tks THEN rec(t) ELSE past[t]]
  BY DEF Bar
<1>4. ASSUME NEW t \in Tks
      PROVE  /\ GainAt(book[t], c.c) \in Int /\ past[t].best \in Int
             /\ best(t) \in Int
  <2>1. book[t].open \in Int /\ past[t].best \in Int
    BY <1>1 DEF Position, History
  <2>2. GainAt(book[t], c.c) \in Int
    BY <1>2, <2>1 DEF GainAt
  <2>3. QED
    BY <2>1, <2>2 DEF MaxOf
<1>5. \A t \in Tks : best(t) = MaxOf(past[t].best, GainAt(book[t], c.c))
  OBVIOUS
<1> HIDE DEF best
<1>6. \A t \in Tks : /\ rec(t) \in History
                     /\ rec(t).best = best(t) /\ rec(t).moves = past[t].moves
                     /\ rec(t).d = past[t].d /\ rec(t).lead = past[t].lead
  BY <1>1, <1>4 DEF History
<1> HIDE DEF rec
<1>7. PastOK'
  BY <1>1, <1>3, <1>6 DEF PastOK
<1>8. \A t \in Tks : past'[t] = rec(t)
  BY <1>1, <1>3
<1>9. QED
  BY <1>2, <1>4, <1>5, <1>6, <1>7, <1>8

(* The ladder's bar: it works on the snapshot, or on a read of its own that *)
(* lists every position or, failing, none.                                  *)
LEMMA SitIs ==
  ASSUME TypeOK, Sit
  PROVE  \E f, costs :
           /\ Snapshot(f) /\ costs \in CostSet
           /\ cache.warm => f = cache.snap /\ Fine
           /\ ~cache.warm => /\ \A t \in DOMAIN f : t \in Tks /\ f[t] = book[t]
                             /\ (DOMAIN f = Tks /\ Fine) \/ Trouble
           /\ acts' = Actions(trades, f, candle.c, prev, costs)
           /\ trades' = Remember(trades, f, candle.c, prev, costs)
<1>1. PICK seen \in SUBSET Tks, costs \in CostSet :
        /\ IF cache.warm THEN seen = {} /\ Fine ELSE Listed(seen)
        /\ LET snap == IF cache.warm THEN cache.snap ELSE [t \in seen |-> book[t]] IN
           /\ acts' = Actions(trades, snap, candle.c, prev, costs)
           /\ trades' = Remember(trades, snap, candle.c, prev, costs)
  BY DEF Sit
<1> DEFINE f == IF cache.warm THEN cache.snap ELSE [t \in seen |-> book[t]]
<1>2. /\ acts' = Actions(trades, f, candle.c, prev, costs)
      /\ trades' = Remember(trades, f, candle.c, prev, costs)
  BY <1>1
<1>3. Snapshot(f)
  BY DEF TypeOK, CacheOK, BookOK, Snapshot, Tks
<1>4. cache.warm => f = cache.snap /\ Fine
  BY <1>1
<1>5. ~cache.warm => /\ \A t \in DOMAIN f : t \in Tks /\ f[t] = book[t]
                     /\ (DOMAIN f = Tks /\ Fine) \/ Trouble
  BY <1>1 DEF Listed
<1> HIDE DEF f
<1>6. QED
  BY <1>2, <1>3, <1>4, <1>5

-----------------------------------------------------------------------------
(* Types.                                                                   *)
LEMMA TypeStep ==
  ASSUME TypeOK, [Next]_vars
  PROVE  TypeOK'
<1>1. /\ BookOK /\ TradesOK /\ CacheOK /\ ActsOK /\ LoopOK /\ PastOK
  BY DEF TypeOK
<1>2. CASE NextBar
  <2>1. PICK c \in Candles : Bar(c)
    BY <1>2 DEF NextBar
  <2>2. PastOK'
    BY <2>1, BarIs
  <2>3. /\ UNCHANGED <<acts, book, trades, prev>> /\ candle' = c /\ pc = "bar"
        /\ Fine \/ Trouble
        /\ (held' \in Dirs /\ pc' = "entry") \/ (held' = held /\ pc' = "sit")
        /\ cache' = [cache EXCEPT !.current = FALSE, !.readNow = FALSE]
    BY <2>1 DEF Bar
  <2>4. BookOK' /\ TradesOK' /\ ActsOK'
    BY <1>1, <2>3 DEF BookOK, TradesOK, ActsOK, Snapshot
  <2>5. LoopOK'
    BY <1>1, <2>3, Constants DEF LoopOK, Fine, Trouble
  <2>6. CacheOK'
    BY <1>1, <2>3 DEF CacheOK, Snapshot
  <2>7. QED
    BY <2>2, <2>4, <2>5, <2>6 DEF TypeOK
<1>3. CASE Enter \/ SkipEntry
  <2>1. /\ UNCHANGED <<held, candle, acts, trades, prev, cache>> /\ pc = "entry" /\ pc' = "sit"
        /\ Fine \/ Trouble
    BY <1>3 DEF Enter, SkipEntry, Fine
  <2>2. BookOK' /\ PastOK'
    <3>1. CASE UNCHANGED <<book, past>>
      BY <1>1, <3>1 DEF BookOK, PastOK, Snapshot
    <3>2. CASE Enter /\ ~UNCHANGED <<book, past>>
      <4>1. PICK t \in FreeTickets :
              /\ Tks' = Tks \cup {t} /\ \A u \in Tks : u # t /\ book'[u] = book[u]
              /\ book'[t] \in Position /\ PastOK'
        BY <3>2, EnterIs DEF Entered
      <4>2. t \in Tickets
        BY DEF FreeTickets
      <4>3. QED
        BY <1>1, <4>1, <4>2 DEF BookOK, Snapshot, Tks
    <3>3. QED
      BY <1>3, <3>1, <3>2 DEF SkipEntry
  <2>3. TradesOK' /\ ActsOK' /\ CacheOK'
    BY <1>1, <2>1 DEF TradesOK, ActsOK, CacheOK, Snapshot
  <2>4. LoopOK'
    BY <1>1, <2>1 DEF LoopOK, Fine, Trouble
  <2>5. QED
    BY <2>2, <2>3, <2>4 DEF TypeOK
<1>4. CASE Sit
  <2>1. /\ pc = "sit" /\ pc' = "act" /\ prev' = candle
        /\ UNCHANGED <<held, candle, book, cache, past>>
    BY <1>4 DEF Sit
  <2>2. PICK f, costs :
          /\ Snapshot(f) /\ costs \in CostSet
          /\ Fine \/ Trouble
          /\ acts' = Actions(trades, f, candle.c, prev, costs)
          /\ trades' = Remember(trades, f, candle.c, prev, costs)
    BY <1>4, SitIs
  <2>3. /\ candle.c \in Nat /\ prev \in Candles \cup {NoCandle}
        /\ \A u \in DOMAIN trades : trades[u] \in PosMemory
        /\ DOMAIN f \subseteq Tickets
    BY <1>1, <2>2, Constants DEF LoopOK, TradesOK, Snapshot
  <2>4. /\ DOMAIN acts' \subseteq (DOMAIN f) \X Steps
        /\ \A a \in DOMAIN acts' : acts'[a] \in Nat \ {0}
    BY <2>2, <2>3, ActionsAre
  <2>5. ActsOK'
    BY <2>1, <2>3, <2>4 DEF ActsOK
  <2>6. TradesOK'
    <3>1. /\ DOMAIN trades' \subseteq DOMAIN f
          /\ \A t \in DOMAIN trades' : trades'[t] \in PosMemory
      BY <2>2, <2>3, RemembersAre
    <3>2. QED
      BY <2>3, <3>1 DEF TradesOK
  <2>7. BookOK' /\ CacheOK' /\ PastOK'
    BY <1>1, <2>1 DEF BookOK, CacheOK, PastOK, Snapshot
  <2>8. LoopOK'
    BY <1>1, <2>1, <2>2 DEF LoopOK, Fine, Trouble
  <2>9. QED
    BY <2>5, <2>6, <2>7, <2>8 DEF TypeOK
<1>5. CASE ActNext
  <2>1. PICK t \in Tickets, k \in Steps :
          /\ <<t, k>> \in DOMAIN acts
          /\ acts' = Drop(acts, <<t, k>>) \/ (acts' = << >> /\ (Trouble \/ t \notin Tks))
          /\ Fine \/ Trouble
          /\ OnlyOf(t)
    BY <1>5, ActIs
  <2>2. UNCHANGED <<held, candle, pc, trades, prev, cache>> /\ pc = "act"
    BY <1>5 DEF ActNext
  <2>3. BookOK' /\ PastOK'
    BY <2>1 DEF OnlyOf
  <2>4. ActsOK'
    BY <1>1, <2>1, <2>2 DEF ActsOK, Drop
  <2>5. TradesOK' /\ CacheOK'
    BY <1>1, <2>2 DEF TradesOK, CacheOK, Snapshot
  <2>6. LoopOK'
    BY <1>1, <2>1, <2>2 DEF LoopOK, Fine, Trouble
  <2>7. QED
    BY <2>3, <2>4, <2>5, <2>6 DEF TypeOK
<1>6. CASE Sync
  <2>1. /\ UNCHANGED <<candle, acts, book, trades, prev, cache, past>>
        /\ acts = << >> /\ pc' = "bar" /\ held' \in {"none", held}
        /\ Fine \/ Trouble
    BY <1>6 DEF Sync, Listed
  <2>2. BookOK' /\ TradesOK' /\ CacheOK' /\ PastOK'
    BY <1>1, <2>1 DEF BookOK, TradesOK, CacheOK, PastOK, Snapshot
  <2>5. ActsOK'
    BY <2>1 DEF ActsOK
  <2>3. LoopOK'
    BY <1>1, <2>1 DEF LoopOK, Fine, Trouble
  <2>4. QED
    BY <2>2, <2>3, <2>5 DEF TypeOK
<1>7. CASE RefreshRead
  <2>1. PICK seen \in SUBSET Tks :
          /\ Fine \/ Trouble
          /\ cache' = [cache EXCEPT !.busy = TRUE, !.readNow = (pc = "bar"),
                                    !.read = [t \in seen |-> book[t]]]
    BY <1>7 DEF RefreshRead, Listed
  <2>2. UNCHANGED <<held, candle, pc, acts, book, trades, prev, past>>
    BY <1>7 DEF RefreshRead
  <2>3. Snapshot([t \in seen |-> book[t]])
    BY <1>1 DEF BookOK, Snapshot, Tks
  <2>4. CacheOK'
    <3> DEFINE read == [t \in seen |-> book[t]]
               now == (pc = "bar")
    <3>1. Snapshot(read) /\ now \in BOOLEAN
      BY <2>3
    <3>2. cache' = [cache EXCEPT !.busy = TRUE, !.readNow = now, !.read = read]
      BY <2>1
    <3> HIDE DEF read, now
    <3>3. /\ cache'.snap = cache.snap /\ cache'.read = read /\ cache'.warm = cache.warm
          /\ cache'.busy = TRUE /\ cache'.readNow = now /\ cache'.current = cache.current
          /\ DOMAIN cache' = DOMAIN cache
      BY <1>1, <3>2 DEF CacheOK
    <3>4. QED
      BY <1>1, <3>1, <3>3 DEF CacheOK, Snapshot
  <2>5. BookOK' /\ TradesOK' /\ ActsOK' /\ PastOK'
    BY <1>1, <2>2 DEF BookOK, TradesOK, ActsOK, PastOK, Snapshot
  <2>6. LoopOK'
    BY <1>1, <2>1, <2>2 DEF LoopOK, Fine, Trouble
  <2>7. QED
    BY <2>4, <2>5, <2>6 DEF TypeOK
<1>8. CASE RefreshStore
  <2>1. /\ UNCHANGED <<held, candle, pc, acts, book, trades, prev, troubles, past>>
        /\ cache' = [warm |-> TRUE, snap |-> cache.read, busy |-> FALSE, read |-> << >>,
                     current |-> cache.readNow, readNow |-> FALSE]
    BY <1>8 DEF RefreshStore
  <2>2. CacheOK'
    BY <1>1, <2>1 DEF CacheOK, Snapshot
  <2>3. BookOK' /\ TradesOK' /\ ActsOK' /\ PastOK'
    BY <1>1, <2>1 DEF BookOK, TradesOK, ActsOK, PastOK, Snapshot
  <2>4. LoopOK'
    BY <1>1, <2>1 DEF LoopOK
  <2>5. QED
    BY <2>2, <2>3, <2>4 DEF TypeOK
<1>9. CASE ServerClose
  <2>1. PICK t \in Tks : book' = Drop(book, t)
    BY <1>9 DEF ServerClose
  <2>2. UNCHANGED <<held, candle, pc, acts, trades, prev, cache, troubles, past>>
    BY <1>9 DEF ServerClose
  <2>3. BookOK'
    BY <1>1, <2>1 DEF BookOK, Snapshot, Drop
  <2>4. TradesOK' /\ CacheOK' /\ ActsOK' /\ PastOK'
    BY <1>1, <2>2 DEF TradesOK, CacheOK, ActsOK, PastOK, Snapshot
  <2>5. LoopOK'
    BY <1>1, <2>2 DEF LoopOK
  <2>6. QED
    BY <2>3, <2>4, <2>5 DEF TypeOK
<1>10. CASE Restart
  <2>1. /\ held' = "none" /\ pc' = "bar" /\ acts' = << >> /\ Trouble
        /\ trades' = << >> /\ prev' = NoCandle /\ cache' = Cold
        /\ UNCHANGED <<candle, book, past>>
    BY <1>10 DEF Restart
  <2>2. BookOK' /\ PastOK'
    BY <1>1, <2>1 DEF BookOK, PastOK, Snapshot
  <2>3. TradesOK' /\ CacheOK' /\ ActsOK'
    BY <2>1 DEF TradesOK, CacheOK, ActsOK, Snapshot, Cold
  <2>4. LoopOK'
    BY <1>1, <2>1 DEF LoopOK, Trouble
  <2>5. QED
    BY <2>2, <2>3, <2>4 DEF TypeOK
<1>11. CASE UNCHANGED vars
  BY <1>1, <1>11 DEF vars, TypeOK, BookOK, TradesOK, CacheOK, ActsOK, LoopOK, PastOK, Snapshot
<1>12. QED
  BY <1>2, <1>3, <1>4, <1>5, <1>6, <1>7, <1>8, <1>9, <1>10, <1>11 DEF Next
-----------------------------------------------------------------------------
(* The account and the snapshots of it.                                     *)

(* Positions come from entries only, and none but the ladder's calls change *)
(* one; what a step leaves open is the same position.                       *)
LEMMA BookKeeps ==
  ASSUME TypeOK, [Next]_vars
  PROVE  /\ \A t \in Tks' : t \in Tks \/ (t \in FreeTickets /\ pc = "entry" /\ pc' = "sit")
         /\ \A t \in Tks \cap Tks' :
              /\ book'[t].dir = book[t].dir /\ book'[t].open = book[t].open
              /\ pc # "act" => book'[t] = book[t]
         /\ troubles' \in {troubles, troubles + 1} /\ troubles \in Nat
<1>1. troubles \in Nat
  BY DEF TypeOK, LoopOK
<1>2. CASE Enter
  <2>1. pc = "entry" /\ pc' = "sit" /\ troubles' \in {troubles, troubles + 1}
    BY <1>2 DEF Enter, Fine, Trouble
  <2>2. \/ UNCHANGED <<book, past>>
        \/ \E t \in FreeTickets :
             Tks' = Tks \cup {t} /\ \A u \in Tks : u # t /\ book'[u] = book[u]
    BY <1>2, EnterIs DEF Entered
  <2>3. QED
    BY <1>1, <2>1, <2>2 DEF Tks
<1>3. CASE ActNext
  <2>1. pc = "act" /\ \E t \in Tickets : OnlyOf(t) /\ (Fine \/ Trouble)
    BY <1>3, ActIs DEF ActNext
  <2>2. PICK t \in Tickets : OnlyOf(t)
    BY <2>1
  <2>3. /\ Tks' \subseteq Tks
        /\ \A u \in Tks' : book'[u].dir = book[u].dir /\ book'[u].open = book[u].open
    BY <2>2 DEF OnlyOf
  <2>4. QED
    BY <1>1, <2>1, <2>3 DEF Fine, Trouble
<1>4. CASE ServerClose
  <2>1. PICK t \in Tks : book' = Drop(book, t)
    BY <1>4 DEF ServerClose
  <2>2. Tks' = Tks \ {t} /\ \A u \in Tks' : book'[u] = book[u]
    BY <2>1 DEF Drop, Tks
  <2>3. troubles' = troubles
    BY <1>4 DEF ServerClose
  <2>4. QED
    BY <1>1, <2>2, <2>3
<1>5. ASSUME book' = book, troubles' \in {troubles, troubles + 1}
      PROVE  /\ \A t \in Tks' : t \in Tks \/ (t \in FreeTickets /\ pc = "entry" /\ pc' = "sit")
             /\ \A t \in Tks \cap Tks' :
                  /\ book'[t].dir = book[t].dir /\ book'[t].open = book[t].open
                  /\ pc # "act" => book'[t] = book[t]
             /\ troubles' \in {troubles, troubles + 1} /\ troubles \in Nat
  BY <1>1, <1>5 DEF Tks
<1>6. CASE NextBar
  <2>1. book' = book /\ troubles' \in {troubles, troubles + 1}
    BY <1>6 DEF NextBar, Bar, Fine, Trouble
  <2>2. QED
    BY <1>5, <2>1
<1>7. CASE Sit
  <2>1. book' = book
    BY <1>7 DEF Sit
  <2>2. troubles' \in {troubles, troubles + 1}
    BY <1>7, SitIs DEF Fine, Trouble
  <2>3. QED
    BY <1>5, <2>1, <2>2
<1>8. CASE SkipEntry \/ Sync \/ RefreshRead \/ RefreshStore \/ Restart \/ UNCHANGED vars
  <2>1. book' = book
    BY <1>8 DEF SkipEntry, Sync, RefreshRead, RefreshStore, Restart, vars
  <2>2. troubles' \in {troubles, troubles + 1}
    BY <1>8
    DEF SkipEntry, Sync, RefreshRead, RefreshStore, Restart, vars, Listed, Fine, Trouble
  <2>3. QED
    BY <1>5, <2>1, <2>2
<1>9. QED
  BY <1>2, <1>3, <1>4, <1>6, <1>7, <1>8 DEF Next

LEMMA CacheStep ==
  ASSUME TypeOK, CacheInv, [Next]_vars
  PROVE  CacheInv'
<1>1. /\ \A t \in Tks' : t \in Tks \/ (t \in FreeTickets /\ pc = "entry" /\ pc' = "sit")
      /\ \A t \in Tks \cap Tks' :
           /\ book'[t].dir = book[t].dir /\ book'[t].open = book[t].open
           /\ pc # "act" => book'[t] = book[t]
      /\ Untroubled' => Untroubled
  BY BookKeeps DEF Untroubled
<1>2. \A f : SameTicket(f) /\ (FreeTickets \cap DOMAIN f = {}) =>
               \A t \in Tks' \cap DOMAIN f :
                 f[t].dir = book'[t].dir /\ f[t].open = book'[t].open
  BY <1>1 DEF SameTicket
<1>3. \A f : pc = "bar" /\ Agrees(f) => \A t \in Tks' \cap DOMAIN f : f[t] = book'[t]
  BY <1>1 DEF Agrees
<1>4. \A f : pc = "bar" /\ Lists(f) => Tks' \subseteq DOMAIN f
  BY <1>1 DEF Lists
<1>5. FreeTickets \cap DOMAIN cache.snap = {} /\ FreeTickets \cap DOMAIN cache.read = {}
  BY DEF FreeTickets
<1>6. CASE cache' = cache /\ pc = "bar" /\ pc' = "bar" /\ trades' = trades
  BY <1>1, <1>2, <1>3, <1>4, <1>5, <1>6 DEF CacheInv, SameTicket, Agrees, Lists
<1>7. CASE cache' = cache /\ pc # "bar" /\ pc' \in {"bar", "act"}
  BY <1>1, <1>2, <1>5, <1>7 DEF CacheInv, SameTicket
<1>8. CASE /\ cache' = cache /\ trades' = trades
           /\ pc \in {"entry", "sit"} /\ pc' \in {"entry", "sit"}
  <2>1. cache.warm /\ Untroubled => \A t \in Tks' \cap DOMAIN cache.snap : cache.snap[t] = book'[t]
    BY <1>1, <1>5, <1>8 DEF CacheInv, Agrees
  <2>2. cache.warm /\ Untroubled =>
          \A t \in Tks' : t \in DOMAIN cache.snap \/ t \notin DOMAIN trades
    BY <1>1, <1>8 DEF CacheInv, FreeTickets
  <2>3. QED
    BY <1>1, <1>2, <1>5, <1>8, <2>1, <2>2 DEF CacheInv, SameTicket, Agrees
<1>9. CASE NextBar
  <2>1. /\ pc = "bar" /\ pc' \in {"entry", "sit"} /\ trades' = trades
        /\ cache' = [cache EXCEPT !.current = FALSE, !.readNow = FALSE]
        /\ ~cache.warm \/ cache.current \/ Trouble
    BY <1>9 DEF NextBar, Bar
  <2>2. /\ cache'.snap = cache.snap /\ cache'.read = cache.read /\ cache'.warm = cache.warm
        /\ ~cache'.current /\ ~cache'.readNow
    BY <2>1 DEF TypeOK, CacheOK
  <2>3. Untroubled' /\ cache.warm => cache.current
    BY <2>1 DEF Untroubled, Trouble, TypeOK, LoopOK
  <2>4. Untroubled' /\ cache.warm =>
          /\ \A t \in Tks' \cap DOMAIN cache.snap : cache.snap[t] = book'[t]
          /\ Tks' \subseteq DOMAIN cache.snap
    BY <1>1, <1>3, <1>4, <2>1, <2>3 DEF CacheInv
  <2>5. QED
    BY <1>2, <1>5, <2>1, <2>2, <2>4 DEF CacheInv, SameTicket, Agrees
<1>10. CASE RefreshRead
  <2>1. PICK seen \in SUBSET Tks :
          /\ Listed(seen)
          /\ cache' = [cache EXCEPT !.busy = TRUE, !.readNow = (pc = "bar"),
                                    !.read = [t \in seen |-> book[t]]]
    BY <1>10 DEF RefreshRead
  <2> DEFINE read == [t \in seen |-> book[t]]
             now == (pc = "bar")
  <2>2. cache' = [cache EXCEPT !.busy = TRUE, !.readNow = now, !.read = read]
    BY <2>1
  <2>3. DOMAIN read = seen /\ \A t \in seen : read[t] = book[t]
    OBVIOUS
  <2>4. now <=> pc = "bar"
    OBVIOUS
  <2> HIDE DEF read, now
  <2>5. /\ cache'.snap = cache.snap /\ cache'.warm = cache.warm
        /\ cache'.current = cache.current
        /\ cache'.read = read /\ cache'.readNow = now
    BY <2>2 DEF TypeOK, CacheOK
  <2>6. book' = book /\ pc' = pc /\ trades' = trades
    BY <1>10 DEF RefreshRead
  <2>7. Untroubled' => Tks \subseteq seen
    BY <2>1 DEF Listed, Trouble, Untroubled, TypeOK, LoopOK
  <2>8. /\ SameTicket(cache.snap)' /\ SameTicket(cache.read)'
        /\ Agrees(cache.read)' /\ (Untroubled' => Lists(cache.read)')
    BY <2>3, <2>5, <2>6, <2>7 DEF CacheInv, SameTicket, Agrees, Lists, Tks
  <2>9. Agrees(cache.snap) <=> Agrees(cache.snap)'
    BY <2>5, <2>6 DEF Agrees, Tks
  <2>10. Lists(cache.snap) <=> Lists(cache.snap)'
    BY <2>5, <2>6 DEF Lists, Tks
  <2>11. Tks' = Tks
    BY <2>6 DEF Tks
  <2>12. QED
    BY <1>1, <2>4, <2>5, <2>6, <2>8, <2>9, <2>10, <2>11 DEF CacheInv
<1>11. CASE RefreshStore
  <2>1. /\ pc = "bar" /\ pc' = "bar" /\ cache.busy
        /\ cache' = [warm |-> TRUE, snap |-> cache.read, busy |-> FALSE, read |-> << >>,
                     current |-> cache.readNow, readNow |-> FALSE]
    BY <1>11 DEF RefreshStore
  <2>2. /\ cache'.snap = cache.read /\ cache'.current = cache.readNow
        /\ ~cache'.busy /\ DOMAIN cache'.read = {} /\ ~cache'.readNow
    BY <2>1
  <2>3. SameTicket(cache.snap)' /\ SameTicket(cache.read)'
    BY <1>2, <1>5, <2>2 DEF CacheInv, SameTicket
  <2>4. cache.readNow => Agrees(cache.snap)' /\ (Untroubled' => Lists(cache.snap)')
    BY <1>1, <1>3, <1>4, <2>1, <2>2 DEF CacheInv, Agrees, Lists
  <2>5. QED
    BY <2>1, <2>2, <2>3, <2>4 DEF CacheInv
<1>12. CASE Restart
  <2>1. pc' = "bar" /\ cache' = Cold
    BY <1>12 DEF Restart
  <2>2. /\ DOMAIN cache'.snap = {} /\ DOMAIN cache'.read = {}
        /\ ~cache'.current /\ ~cache'.readNow
    BY <2>1 DEF Cold
  <2>3. QED
    BY <2>1, <2>2 DEF CacheInv, SameTicket
<1>13. CASE Enter \/ SkipEntry
  <2>1. cache' = cache /\ trades' = trades /\ pc = "entry" /\ pc' = "sit"
    BY <1>13 DEF Enter, SkipEntry
  <2>2. QED
    BY <1>8, <2>1
<1>14. CASE Sit \/ ActNext \/ Sync
  <2>1. cache' = cache /\ pc \in {"sit", "act"} /\ pc' \in {"bar", "act"}
    BY <1>14 DEF Sit, ActNext, Sync
  <2>2. QED
    BY <1>7, <2>1
<1>15. CASE ServerClose \/ UNCHANGED vars
  <2>1. cache' = cache /\ trades' = trades /\ pc' = pc
    BY <1>15 DEF ServerClose, vars
  <2>2. pc \in {"bar", "entry", "sit", "act"}
    BY DEF TypeOK, LoopOK
  <2>3. QED
    BY <1>6, <1>7, <1>8, <2>1, <2>2
<1>16. QED
  BY <1>9, <1>10, <1>11, <1>12, <1>13, <1>14, <1>15 DEF Next
-----------------------------------------------------------------------------
(* One position at a time.                                                  *)
LEMMA SingleStep ==
  ASSUME TypeOK, SingleInv, [Next]_vars
  PROVE  SingleInv'
<1>1. SUFFICES ASSUME Untroubled' PROVE SingleInv'
  BY DEF SingleInv
<1>2. Untroubled /\ ~Trouble
  BY <1>1, BookKeeps DEF Untroubled, Trouble
<1>3. /\ One(Tks) /\ One(DOMAIN cache.snap) /\ One(DOMAIN cache.read) /\ One(Acting)
      /\ held = "none" \/ pc = "entry" => Tks = {}
  BY <1>2 DEF SingleInv
<1>4. DOMAIN acts = {} => Acting = {}
  BY DEF Acting
<1>5. pc # "act" => DOMAIN acts = {}
  BY DEF TypeOK, ActsOK
<1>6. CASE NextBar
  <2>1. /\ UNCHANGED <<acts, book>> /\ cache'.snap = cache.snap /\ cache'.read = cache.read
        /\ (held = "none" /\ pc' = "entry") \/ (held' = held /\ pc' = "sit")
    BY <1>6 DEF NextBar, Bar, TypeOK, CacheOK
  <2>2. held' = "none" \/ pc' = "entry" => Tks' = {}
    BY <1>3, <2>1 DEF Tks
  <2>3. QED
    BY <1>3, <2>1, <2>2 DEF SingleInv, One, Acting, Tks
<1>7. CASE Enter \/ SkipEntry
  <2>1. /\ UNCHANGED <<held, acts, cache>> /\ pc = "entry" /\ pc' = "sit"
    BY <1>7 DEF Enter, SkipEntry
  <2>2. Tks = {} /\ held' # "none"
    BY <1>3, <2>1 DEF TypeOK, LoopOK
  <2>3. One(Tks')
    <3>1. CASE Enter
      BY <2>2, <3>1, EnterIs DEF Entered, One, Tks
    <3>2. CASE SkipEntry
      BY <2>2, <3>2 DEF SkipEntry, One, Tks
    <3>3. QED
      BY <1>7, <3>1, <3>2
  <2>4. QED
    BY <1>3, <2>1, <2>2, <2>3 DEF SingleInv, One, Acting
<1>8. CASE Sit
  <2>1. UNCHANGED <<held, book, cache>> /\ pc' = "act"
    BY <1>8 DEF Sit
  <2>2. PICK f, costs :
          /\ Snapshot(f) /\ costs \in CostSet
          /\ DOMAIN f = DOMAIN cache.snap \/ DOMAIN f = Tks
          /\ acts' = Actions(trades, f, candle.c, prev, costs)
    BY <1>2, <1>8, SitIs
  <2>3. /\ candle.c \in Nat /\ prev \in Candles \cup {NoCandle}
        /\ \A u \in DOMAIN trades : trades[u] \in PosMemory
    BY Constants DEF TypeOK, LoopOK, TradesOK
  <2>4. DOMAIN acts' \subseteq (DOMAIN f) \X Steps
    BY <2>2, <2>3, ActionsAre
  <2>5. Acting' \subseteq DOMAIN f
    BY <2>4 DEF Acting
  <2>6. One(Acting')
    BY <1>3, <2>2, <2>5 DEF One
  <2>7. QED
    BY <1>3, <2>1, <2>6 DEF SingleInv, One, Tks
<1>9. CASE ActNext
  <2>1. UNCHANGED <<held, cache, pc>> /\ pc = "act"
    BY <1>9 DEF ActNext
  <2>2. PICK t \in Tickets, k \in Steps :
          /\ OnlyOf(t)
          /\ acts' = Drop(acts, <<t, k>>) \/ acts' = << >>
    BY <1>9, ActIs
  <2>3. Tks' \subseteq Tks /\ DOMAIN acts' \subseteq DOMAIN acts
    BY <2>2 DEF OnlyOf, Drop
  <2>4. Acting' \subseteq Acting
    BY <2>3 DEF Acting
  <2>5. QED
    BY <1>3, <2>1, <2>3, <2>4 DEF SingleInv, One
<1>10. CASE Sync
  <2>1. UNCHANGED <<acts, book, cache>> /\ pc' = "bar"
    BY <1>10 DEF Sync
  <2>2. held' = "none" => Tks' = {}
    BY <1>2, <1>3, <1>10 DEF Sync, Listed, Tks
  <2>3. QED
    BY <1>3, <2>1, <2>2 DEF SingleInv, One, Acting, Tks
<1>11. CASE RefreshRead
  <2>1. UNCHANGED <<held, pc, acts, book>>
    BY <1>11 DEF RefreshRead
  <2>2. cache'.snap = cache.snap /\ DOMAIN cache'.read = Tks
    <3>1. PICK seen \in SUBSET Tks :
            /\ Listed(seen)
            /\ cache' = [cache EXCEPT !.busy = TRUE, !.readNow = (pc = "bar"),
                                      !.read = [t \in seen |-> book[t]]]
      BY <1>11 DEF RefreshRead
    <3> DEFINE read == [t \in seen |-> book[t]]
               now == (pc = "bar")
    <3>2. /\ cache' = [cache EXCEPT !.busy = TRUE, !.readNow = now, !.read = read]
          /\ DOMAIN read = seen /\ seen = Tks
      BY <1>2, <3>1 DEF Listed
    <3> HIDE DEF read, now
    <3>3. QED
      BY <3>2 DEF TypeOK, CacheOK
  <2>3. QED
    BY <1>3, <2>1, <2>2 DEF SingleInv, One, Acting, Tks
<1>12. CASE RefreshStore
  <2>1. UNCHANGED <<held, pc, acts, book>>
    BY <1>12 DEF RefreshStore
  <2>2. cache'.snap = cache.read /\ DOMAIN cache'.read = {}
    BY <1>12 DEF RefreshStore
  <2>3. QED
    BY <1>3, <2>1, <2>2 DEF SingleInv, One, Acting, Tks
<1>13. CASE ServerClose
  <2>1. UNCHANGED <<held, pc, acts, cache>> /\ Tks' \subseteq Tks
    BY <1>13 DEF ServerClose, Drop, Tks
  <2>2. QED
    BY <1>3, <2>1 DEF SingleInv, One, Acting
<1>14. CASE UNCHANGED vars
  BY <1>3, <1>14 DEF vars, SingleInv, One, Acting, Tks
<1>15. CASE Restart
  BY <1>2, <1>15 DEF Restart
<1>16. QED
  BY <1>6, <1>7, <1>8, <1>9, <1>10, <1>11, <1>12, <1>13, <1>14, <1>15 DEF Next
-----------------------------------------------------------------------------
(* What the positions have seen.                                            *)

(* A position that stays open measures its gain as before.                  *)
LEMMA GainKept ==
  ASSUME TypeOK, [Next]_vars
  PROVE  \A t \in Tks \cap Tks', x \in Int :
           GainAt(book[t], x) \in Int /\ GainAt(book'[t], x) = GainAt(book[t], x)
<1>1. \A t \in Tks \cap Tks' : book'[t].dir = book[t].dir /\ book'[t].open = book[t].open
  BY BookKeeps
<1>2. \A t \in Tks : book[t].open \in Int
  BY DEF TypeOK, BookOK, Snapshot, Position, Tks
<1>3. QED
  BY <1>1, <1>2 DEF GainAt

LEMMA SightStep ==
  ASSUME TypeOK, SightInv, [Next]_vars
  PROVE  SightInv'
<1>1. /\ candle.c \in Nat /\ (prev # NoCandle => prev.c \in Nat)
      /\ pc \in {"bar", "entry", "sit", "act"}
  BY Constants DEF TypeOK, LoopOK
<1>2. /\ Tks \subseteq Tickets /\ \A t \in Tickets : past[t].best \in Int
  BY DEF TypeOK, BookOK, Snapshot, PastOK, History, Tks
<1>3. \A t \in Tks \cap Tks', x \in Nat :
        GainAt(book[t], x) \in Int /\ GainAt(book'[t], x) = GainAt(book[t], x)
  BY GainKept
<1>4. ASSUME Tks' \subseteq Tks, candle' = candle,
             \A t \in Tks' : past'[t].best = past[t].best /\ past'[t].lead = past[t].lead,
             \/ prev' = candle
             \/ prev' = NoCandle
             \/ prev' = prev /\ pc # "sit"
             \/ /\ prev' = prev /\ pc' = pc
                /\ cache'.warm = cache.warm /\ cache'.snap = cache.snap
      PROVE  SightInv'
  <2>1. SUFFICES ASSUME NEW t \in Tks'
                 PROVE  /\ Seen(t, candle.c)'
                        /\ prev' # NoCandle =>
                             \/ Seen(t, prev.c)'
                             \/ pc' = "sit" /\ Unconfirmed(t)'
    BY DEF SightInv
  <2>2. t \in Tks /\ past'[t].best = past[t].best /\ past'[t].lead = past[t].lead
    BY <1>4
  <2>3. /\ Seen(t, candle.c)
        /\ prev # NoCandle => Seen(t, prev.c) \/ (pc = "sit" /\ Unconfirmed(t))
    BY <2>2 DEF SightInv
  <2>4. \A x \in Nat : GainAt(book'[t], x) = GainAt(book[t], x)
    BY <1>3, <2>2
  <2>5. GainAt(book'[t], candle'.c) = GainAt(book[t], candle.c)
    BY <1>1, <1>4, <2>4
  <2>6. Seen(t, candle.c)'
    BY <2>2, <2>3, <2>5 DEF Seen
  <2>7. CASE prev' = candle
    BY <1>4, <2>2, <2>3, <2>5, <2>6, <2>7 DEF Seen
  <2>8. CASE prev' = NoCandle
    BY <2>6, <2>8
  <2>9. CASE /\ prev' = prev /\ prev # NoCandle
             /\ \/ pc # "sit"
                \/ pc' = pc /\ cache'.warm = cache.warm /\ cache'.snap = cache.snap
    <3>1. GainAt(book'[t], prev'.c) = GainAt(book[t], prev.c)
      BY <1>1, <2>4, <2>9
    <3>2. Seen(t, prev.c) => Seen(t, prev.c)'
      BY <2>2, <3>1 DEF Seen
    <3>3. pc = "sit" /\ Unconfirmed(t) => pc' = "sit" /\ Unconfirmed(t)'
      BY <2>2, <2>5, <2>9, <3>1 DEF Unconfirmed
    <3>4. QED
      BY <2>3, <2>6, <2>9, <3>2, <3>3
  <2>10. QED
    BY <1>4, <2>6, <2>7, <2>8, <2>9
<1>5. CASE NextBar
  <2>1. PICK c \in Candles : Bar(c)
    BY <1>5 DEF NextBar
  <2>2. candle' = c /\ prev' = prev /\ book' = book /\ pc = "bar"
    BY <2>1 DEF Bar
  <2>3. \A t \in Tks : /\ GainAt(book[t], c.c) \in Int /\ past[t].best \in Int
                       /\ past'[t].best = MaxOf(past[t].best, GainAt(book[t], c.c))
    BY <2>1, BarIs
  <2>4. SUFFICES ASSUME NEW t \in Tks
                 PROVE  Seen(t, candle.c)' /\ (prev # NoCandle => Seen(t, prev.c)')
    BY <2>2 DEF SightInv, Tks
  <2>5. Seen(t, candle.c)'
    BY <2>2, <2>3 DEF Seen, MaxOf
  <2>6. ASSUME prev # NoCandle PROVE Seen(t, prev.c)'
    <3>1. Seen(t, prev.c) /\ GainAt(book[t], prev.c) \in Int
      BY <1>1, <1>3, <2>2, <2>6 DEF SightInv, Tks
    <3>2. QED
      BY <2>2, <2>3, <3>1 DEF Seen, MaxOf
  <2>7. QED
    BY <2>5, <2>6
<1>6. CASE Enter /\ ~UNCHANGED <<book, past>>
  <2>1. PICK t \in FreeTickets : Entered(t)
    BY <1>6, EnterIs
  <2>2. /\ candle' = candle /\ prev' = prev /\ pc = "entry" /\ pc' = "sit"
        /\ cache' = cache
    BY <1>6 DEF Enter
  <2>3. \A u \in Tks : Seen(u, candle.c)' /\ (prev # NoCandle => Seen(u, prev.c)')
    BY <1>2, <2>1, <2>2 DEF SightInv, Seen, Entered
  <2>4. Seen(t, candle.c)'
    <3>1. past'[t].best = GainAt(book'[t], candle'.c) /\ book'[t].open \in Int
      BY <2>1, <2>2 DEF Entered, Position
    <3>2. GainAt(book'[t], candle'.c) \in Int
      BY <1>1, <2>2, <3>1 DEF GainAt
    <3>3. QED
      BY <3>1, <3>2 DEF Seen
  <2>5. ASSUME prev # NoCandle PROVE Unconfirmed(t)'
    <3>1. book'[t].open \in Int
      BY <2>1 DEF Entered, Position
    <3>2. GainAt(book'[t], candle.c) \in Int /\ GainAt(book'[t], prev.c) \in Int
      BY <1>1, <2>5, <3>1 DEF GainAt
    <3>3. CASE cache.warm
      <4>1. t \notin DOMAIN cache.snap
        BY DEF FreeTickets
      <4>2. QED
        BY <2>2, <3>3, <4>1 DEF Unconfirmed
    <3>4. CASE ~cache.warm
      <4>1. GainAt(book'[t], candle.c) <= 0 \/ past'[t].lead = GainAt(book'[t], prev.c)
        BY <2>1, <2>5, <3>2, <3>4 DEF Entered
      <4>2. QED
        BY <2>2, <3>2, <4>1 DEF Unconfirmed
    <3>5. QED
      BY <3>3, <3>4
  <2>6. \A u \in Tks' : u \in Tks \/ u = t
    BY <2>1 DEF Entered
  <2>7. QED
    BY <2>2, <2>3, <2>4, <2>5, <2>6 DEF SightInv
<1>7. CASE (Enter /\ UNCHANGED <<book, past>>) \/ SkipEntry
  <2>1. Tks' = Tks /\ candle' = candle /\ past' = past /\ prev' = prev /\ pc # "sit"
    BY <1>7 DEF Enter, SkipEntry, Tks
  <2>2. QED
    BY <1>4, <2>1
<1>8. CASE Sit
  <2>1. Tks' = Tks /\ candle' = candle /\ past' = past /\ prev' = candle
    BY <1>8 DEF Sit, Tks
  <2>2. QED
    BY <1>4, <2>1
<1>9. CASE ActNext
  <2>1. \E t \in Tickets : OnlyOf(t)
    BY <1>9, ActIs
  <2>2. /\ Tks' \subseteq Tks
        /\ \A t \in Tks' : past'[t].best = past[t].best /\ past'[t].lead = past[t].lead
    BY <2>1 DEF OnlyOf
  <2>3. candle' = candle /\ prev' = prev /\ pc # "sit"
    BY <1>9 DEF ActNext
  <2>4. QED
    BY <1>4, <2>2, <2>3
<1>10. CASE Sync \/ Restart \/ RefreshRead \/ RefreshStore \/ UNCHANGED vars
  <2>1. Tks' = Tks /\ candle' = candle /\ past' = past
    BY <1>10 DEF Sync, Restart, RefreshRead, RefreshStore, vars, Tks
  <2>2. \/ prev' = NoCandle
        \/ prev' = prev /\ pc # "sit"
        \/ prev' = prev /\ pc' = pc /\ cache'.warm = cache.warm /\ cache'.snap = cache.snap
    BY <1>10 DEF Sync, Restart, RefreshRead, RefreshStore, vars, TypeOK, CacheOK
  <2>3. QED
    BY <1>4, <2>1, <2>2
<1>11. CASE ServerClose
  <2>1. candle' = candle /\ past' = past /\ prev' = prev /\ pc' = pc /\ cache' = cache
    BY <1>11 DEF ServerClose
  <2>2. Tks' \subseteq Tks
    BY <1>11 DEF ServerClose, Drop, Tks
  <2>3. QED
    BY <1>4, <2>1, <2>2
<1>12. QED
  BY <1>5, <1>6, <1>7, <1>8, <1>9, <1>10, <1>11 DEF Next
-----------------------------------------------------------------------------
(* The stops.                                                               *)

(* A stop that tightens the snapshot's tightens the server's: where the     *)
(* snapshot agrees, because the ladder compared the two; where it may not,  *)
(* because what the ladder remembers puts the new level beyond the old.     *)
LEMMA MoveTightens ==
  ASSUME TypeOK, NEW f, Snapshot(f), NEW costs \in CostSet,
         NEW t \in Tks, t \in DOMAIN f,
         f[t] = book[t] \/ (/\ f[t].dir = book[t].dir /\ f[t].open = book[t].open
                           /\ StopKnown(t)),
         LET st == StateOf(trades, t, f[t]) IN Moves(f[t], st, candle.c, prev, costs) > 0
  PROVE  LET st == StateOf(trades, t, f[t])
             stage == Moves(f[t], st, candle.c, prev, costs)
         IN GainAt(book[t], Level(f[t], st, prev, stage, costs)) > Lock(t)
<1> DEFINE p == f[t]
           st == StateOf(trades, t, p)
           stage == Moves(p, st, candle.c, prev, costs)
           level == Level(p, st, prev, stage, costs)
<1>1. /\ \A u \in DOMAIN trades : trades[u] \in PosMemory
      /\ candle.c \in Nat /\ prev \in Candles \cup {NoCandle} /\ Risk(t) \in Nat \ {0}
  BY Constants DEF TypeOK, LoopOK, TradesOK, BookOK, Snapshot, PastOK, Tks, Risk, History, Distances
<1>2. p \in Position /\ book[t] \in Position /\ t \in Tks
  BY DEF Snapshot, TypeOK, BookOK, Tks
<1>3. /\ st \in PosMemory
      /\ t \in DOMAIN trades => st = trades[t]
      /\ t \notin DOMAIN trades => st.entry = p.open /\ ~st.s1 /\ ~st.s2
  BY <1>1, <1>2, StateIs
<1>4. /\ stage \in {1, 2} /\ level \in Nat \ {0} /\ ~st.s2
      /\ Gain(p, st, level) \in Nat
      /\ Gain(p, st, level) > Gain(p, st, p.sl)
      /\ stage = 1 => ~st.s1
      /\ stage = 2 => Gain(p, st, level) >= st.d
  BY <1>1, <1>2, <1>3, MoveIs
<1> HIDE DEF p, st, stage, level
<1>5. /\ st.entry \in Int /\ st.d \in Nat
      /\ p.sl \in Int /\ p.open \in Int /\ book[t].open \in Int /\ book[t].sl \in Int
  BY <1>2, <1>3 DEF Position, PosMemory
<1>6. CASE p = book[t]
  <2>1. GainAt(p, level) > GainAt(p, p.sl)
    BY <1>4, <1>5 DEF Gain, GainAt
  <2>2. QED
    BY <1>6, <2>1 DEF Lock, p, st, stage, level
<1>7. CASE p.dir = book[t].dir /\ p.open = book[t].open /\ StopKnown(t)
  <2>1. st.entry = book[t].open
    BY <1>3, <1>7 DEF StopKnown, Remembered
  <2>2. GainAt(book[t], level) = Gain(p, st, level)
    BY <1>7, <2>1 DEF Gain, GainAt
  <2>3. CASE t \in DOMAIN trades
    <3>1. st.d = Risk(t) /\ (~st.s1 => Lock(t) = -Risk(t)) /\ Lock(t) < Risk(t)
      BY <1>3, <1>4, <1>7, <2>3 DEF StopKnown, Remembered
    <3>2. GainAt(book[t], level) > Lock(t)
      <4>1. Lock(t) \in Int
        BY <1>5 DEF Lock, GainAt
      <4>2. CASE stage = 1
        BY <1>1, <1>4, <2>2, <3>1, <4>1, <4>2
      <4>3. CASE stage = 2
        BY <1>1, <1>4, <1>5, <2>2, <3>1, <4>1, <4>3
      <4>4. QED
        BY <1>4, <4>2, <4>3
    <3>3. QED
      BY <3>2 DEF p, st, stage, level
  <2>4. CASE t \notin DOMAIN trades
    <3>1. Lock(t) = -Risk(t)
      BY <1>7, <2>4 DEF StopKnown
    <3>2. GainAt(book[t], level) > Lock(t)
      BY <1>1, <1>4, <2>2, <3>1
    <3>3. QED
      BY <3>2 DEF p, st, stage, level
  <2>5. QED
    BY <2>3, <2>4
<1>8. QED
  BY <1>6, <1>7 DEF p

LEMMA StopStep ==
  ASSUME TypeOK, CacheInv, StopInv, LadderInv, [Next]_vars
  PROVE  StopInv'
<1>1. /\ troubles \in Nat /\ troubles' \in {troubles, troubles + 1}
      /\ pc \in {"bar", "entry", "sit", "act"}
  BY BookKeeps DEF TypeOK, LoopOK
<1>2. /\ \A t \in Tks' : t \in Tks \/ (t \in FreeTickets /\ pc = "entry" /\ pc' = "sit")
      /\ \A t \in Tks \cap Tks' : pc # "act" => book'[t] = book[t]
  BY BookKeeps
<1> DEFINE known == ~cache.warm \/ Agrees(cache.snap) \/ \A t \in Tks : StopKnown(t)
           tight == \A t \in Tks : <<t, 4>> \in DOMAIN acts =>
                                     GainAt(book[t], acts[<<t, 4>>]) > Lock(t)
<1>3. /\ pc \in {"entry", "sit"} /\ troubles <= 1 => known
      /\ pc = "act" /\ troubles <= 1 => tight
  BY DEF StopInv
<1>4. troubles' <= 1 => troubles <= 1
  BY <1>1
<1>5. ASSUME pc' = "bar" \/ (pc' \in {"entry", "sit"} /\ (troubles' <= 1 => known'))
                         \/ (pc' = "act" /\ (troubles' <= 1 => tight'))
      PROVE  StopInv'
  BY <1>5 DEF StopInv
<1> HIDE DEF known, tight
<1>6. CASE NextBar
  <2>1. /\ pc = "bar" /\ pc' \in {"entry", "sit"}
        /\ cache' = [cache EXCEPT !.current = FALSE, !.readNow = FALSE]
        /\ ~cache.warm \/ cache.current \/ Trouble
        /\ UNCHANGED <<acts, book, trades>>
        /\ \A t \in Tks : Risk(t)' = Risk(t)
    BY <1>6, BarIs DEF NextBar, Bar, Risk
  <2>2. cache'.snap = cache.snap /\ cache'.warm = cache.warm
    BY <2>1 DEF TypeOK, CacheOK
  <2>3. CASE ~cache.warm
    BY <1>5, <2>1, <2>2, <2>3 DEF known
  <2>4. CASE cache.current
    <3>1. Agrees(cache.snap)
      BY <2>1, <2>4 DEF CacheInv
    <3>2. Agrees(cache.snap)'
      BY <2>1, <2>2, <3>1 DEF Agrees, Tks
    <3>3. QED
      BY <1>5, <2>1, <3>2 DEF known
  <2>5. CASE Trouble
    <3>1. troubles' <= 1 => Untroubled
      BY <1>1, <2>5 DEF Trouble, Untroubled
    <3>2. Untroubled => \A t \in Tks : StopKnown(t)
      BY <2>1 DEF LadderInv, OnLadder, StopKnown, Fresh
    <3>3. (\A t \in Tks : StopKnown(t)) => (\A t \in Tks : StopKnown(t))'
      BY <2>1 DEF StopKnown, Remembered, Lock, Tks
    <3>4. QED
      BY <1>5, <2>1, <3>1, <3>2, <3>3 DEF known
  <2>6. QED
    BY <2>1, <2>3, <2>4, <2>5
<1>7. CASE Enter
  <2>1. /\ pc = "entry" /\ pc' = "sit" /\ cache' = cache /\ trades' = trades
    BY <1>7 DEF Enter
  <2>2. \A t \in Tks' : IF t \in Tks THEN Risk(t)' = Risk(t)
                        ELSE t \in FreeTickets /\ Lock(t)' = -Risk(t)'
    <3>1. CASE UNCHANGED <<book, past>>
      BY <3>1 DEF Tks, Risk
    <3>2. CASE \E t \in FreeTickets : Entered(t)
      BY <3>2 DEF Entered, Risk, TypeOK, BookOK, Snapshot, Tks
    <3>3. QED
      BY <1>7, <3>1, <3>2, EnterIs
  <2>3. ASSUME Agrees(cache.snap) PROVE Agrees(cache.snap)'
    BY <1>2, <2>1, <2>2, <2>3 DEF Agrees, FreeTickets
  <2>4. ASSUME \A t \in Tks : StopKnown(t) PROVE \A t \in Tks' : StopKnown(t)'
    <3>1. ASSUME NEW t \in Tks', t \in Tks PROVE StopKnown(t)'
      <4>1. StopKnown(t) /\ book'[t] = book[t] /\ Risk(t)' = Risk(t)
        BY <1>2, <2>1, <2>2, <2>4, <3>1
      <4>2. QED
        BY <2>1, <4>1 DEF StopKnown, Remembered, Lock
    <3>2. ASSUME NEW t \in Tks', t \notin Tks PROVE StopKnown(t)'
      BY <2>1, <2>2, <3>2 DEF StopKnown, FreeTickets
    <3>3. QED
      BY <3>1, <3>2
  <2>5. known => known'
    BY <2>1, <2>3, <2>4 DEF known
  <2>6. QED
    BY <1>3, <1>4, <1>5, <2>1, <2>5
<1>8. CASE Sit
  <2>1. pc = "sit" /\ pc' = "act" /\ book' = book /\ cache' = cache
    BY <1>8 DEF Sit
  <2>2. PICK f, costs :
          /\ Snapshot(f) /\ costs \in CostSet
          /\ cache.warm => f = cache.snap /\ Fine
          /\ ~cache.warm => \A t \in DOMAIN f : t \in Tks /\ f[t] = book[t]
          /\ acts' = Actions(trades, f, candle.c, prev, costs)
    BY <1>8, SitIs
  <2>3. /\ \A u \in DOMAIN trades : trades[u] \in PosMemory
        /\ candle.c \in Nat /\ prev \in Candles \cup {NoCandle}
    BY Constants DEF TypeOK, LoopOK, TradesOK
  <2>4. ASSUME troubles' <= 1, NEW t \in Tks, <<t, 4>> \in DOMAIN acts'
        PROVE  GainAt(book[t], acts'[<<t, 4>>]) > Lock(t)
    <3> DEFINE st == StateOf(trades, t, f[t])
               stage == Moves(f[t], st, candle.c, prev, costs)
    <3>1. DOMAIN acts' \subseteq (DOMAIN f) \X Steps
      BY <2>2, <2>3, ActionsAre
    <3>2. t \in DOMAIN f
      BY <2>4, <3>1
    <3>3. stage > 0 /\ acts'[<<t, 4>>] = Level(f[t], st, prev, stage, costs)
      <4> DEFINE list == Actions(trades, f, candle.c, prev, costs)
      <4>4. list = Actions(trades, f, candle.c, prev, costs) /\ st = StateOf(trades, t, f[t])
            /\ stage = Moves(f[t], st, candle.c, prev, costs)
        OBVIOUS
      <4> HIDE DEF list, stage, st
      <4>1. /\ <<t, 4>> \in DOMAIN list <=> ~Final(f[t], st, candle.c) /\ stage > 0
            /\ <<t, 4>> \in DOMAIN list => list[<<t, 4>>] = Level(f[t], st, prev, stage, costs)
        BY <3>2, <4>4, ActionsOn
      <4>2. acts' = list
        BY <2>2 DEF list
      <4>3. QED
        BY <2>4, <4>1, <4>2
    <3>4. \/ f[t] = book[t]
          \/ f[t].dir = book[t].dir /\ f[t].open = book[t].open /\ StopKnown(t)
      <4>1. CASE ~cache.warm
        BY <2>2, <3>2, <4>1
      <4>2. CASE cache.warm
        <5>1. known
          BY <1>3, <1>4, <2>1, <2>4
        <5>2. f = cache.snap /\ SameTicket(cache.snap)
          BY <2>2, <4>2 DEF CacheInv
        <5>3. QED
          BY <3>2, <4>2, <5>1, <5>2 DEF known, Agrees, SameTicket
      <4>3. QED
        BY <4>1, <4>2
    <3>5. QED
      BY <2>2, <3>2, <3>3, <3>4, MoveTightens
  <2>5. troubles' <= 1 => tight'
    BY <2>1, <2>4 DEF tight, Tks, Lock
  <2>6. QED
    BY <1>5, <2>1, <2>5
<1>9. CASE ActNext
  <2>1. PICK t \in Tickets, k \in Steps :
          /\ <<t, k>> \in DOMAIN acts
          /\ acts' = Drop(acts, <<t, k>>) \/ (acts' = << >> /\ (Trouble \/ t \notin Tks))
          /\ OnlyOf(t)
          /\ Nothing(t) \/ Closed(t, <<t, k>>) \/ Reduced(t, <<t, k>>) \/ StopSet(t, <<t, k>>)
    BY <1>9, ActIs
  <2>2. pc = "act" /\ pc' = "act"
    BY <1>9 DEF ActNext
  <2>3. /\ DOMAIN acts' \subseteq DOMAIN acts \ {<<t, k>>} \/ DOMAIN acts' = {}
        /\ \A a \in DOMAIN acts' : acts'[a] = acts[a]
    BY <2>1 DEF Drop
  <2>4. ASSUME tight, NEW u \in Tks', <<u, 4>> \in DOMAIN acts'
        PROVE  GainAt(book'[u], acts'[<<u, 4>>]) > Lock(u)'
    <3>1. /\ <<u, 4>> \in DOMAIN acts /\ <<u, 4>> # <<t, k>>
          /\ acts'[<<u, 4>>] = acts[<<u, 4>>] /\ u \in Tks
      BY <2>1, <2>3, <2>4 DEF OnlyOf
    <3>2. GainAt(book[u], acts[<<u, 4>>]) > GainAt(book[u], book[u].sl)
      BY <2>4, <3>1 DEF tight, Lock
    <3>3. book'[u].dir = book[u].dir /\ book'[u].open = book[u].open
      BY <2>1 DEF OnlyOf
    <3>4. book'[u].sl = book[u].sl
      <4>1. CASE u # t
        BY <2>1, <4>1 DEF OnlyOf
      <4>2. CASE u = t
        BY <2>1, <2>4, <3>1, <4>2 DEF Nothing, Closed, Reduced, StopSet
      <4>3. QED
        BY <4>1, <4>2
    <3>5. QED
      BY <3>1, <3>2, <3>3, <3>4 DEF Lock, GainAt
  <2>5. tight => tight'
    BY <2>4 DEF tight
  <2>6. QED
    BY <1>3, <1>4, <1>5, <2>2, <2>5
<1>10. CASE Sync \/ RefreshStore \/ Restart
  <2>1. pc' = "bar"
    BY <1>10 DEF Sync, RefreshStore, Restart
  <2>2. QED
    BY <1>5, <2>1
<1>11. CASE SkipEntry \/ RefreshRead \/ ServerClose \/ UNCHANGED vars
  <2>1. /\ cache'.snap = cache.snap /\ cache'.warm = cache.warm
        /\ trades' = trades /\ acts' = acts
    BY <1>11 DEF SkipEntry, RefreshRead, ServerClose, vars, TypeOK, CacheOK
  <2>2. pc' = pc \/ (pc = "entry" /\ pc' = "sit")
    BY <1>11 DEF SkipEntry, RefreshRead, ServerClose, vars
  <2>3. Tks' \subseteq Tks /\ \A t \in Tks' : book'[t] = book[t] /\ Risk(t)' = Risk(t)
    BY <1>11 DEF SkipEntry, RefreshRead, ServerClose, vars, Drop, Tks, Risk
  <2>4. ASSUME known PROVE known'
    <3>1. Agrees(cache.snap) => Agrees(cache.snap)'
      BY <2>1, <2>3 DEF Agrees
    <3>2. (\A t \in Tks : StopKnown(t)) => \A t \in Tks' : StopKnown(t)'
      BY <2>1, <2>3 DEF StopKnown, Remembered, Lock
    <3>3. QED
      BY <2>1, <2>4, <3>1, <3>2 DEF known
  <2>5. ASSUME tight PROVE tight'
    BY <2>1, <2>3, <2>5 DEF tight, Lock
  <2>6. QED
    BY <1>1, <1>3, <1>4, <1>5, <2>2, <2>4, <2>5
<1>12. QED
  BY <1>6, <1>7, <1>8, <1>9, <1>10, <1>11 DEF Next
-----------------------------------------------------------------------------
(* The rungs of an untroubled ladder.                                       *)

LEMMA AmountsAre ==
  ASSUME TypeOK
  PROVE  /\ \A t, k : Amount(t, k) \in Nat
         /\ \A t : Due4(t) \in Nat
         /\ pc # "act" => \A t : (\A k : <<t, k>> \notin DOMAIN acts) /\ Due4(t) = 0
<1>1. \A t, k : Amount(t, k) \in Nat
  BY DEF Amount, TypeOK, ActsOK
<1>2. \A t : Due4(t) \in Nat
  BY <1>1 DEF Due4
<1>3. pc # "act" => DOMAIN acts = {}
  BY DEF TypeOK, ActsOK
<1>4. pc # "act" => \A t, k : <<t, k>> \notin DOMAIN acts /\ Amount(t, k) = 0
  BY <1>3 DEF Amount
<1>5. ASSUME pc # "act", NEW t PROVE Due4(t) = 0
  <2>1. Amount(t, 1) = 0 /\ Amount(t, 2) = 0 /\ Amount(t, 3) = 0
    BY <1>4, <1>5
  <2>2. QED
    BY <2>1 DEF Due4
<1>6. QED
  BY <1>1, <1>2, <1>4, <1>5

(* What the ladder works from on a ticket that its snapshot lists.          *)
LEMMA Known ==
  ASSUME TypeOK, pc = "sit", NEW t \in Tks, OnLadder(t), NEW st, st = StateOf(trades, t, book[t])
  PROVE  /\ st \in PosMemory /\ st.vol0 = Lots /\ past[t].moves <= Marks(st)
         /\ Remembered(t, st) /\ book[t].vol >= VolMin
<1>1. /\ \A u \in DOMAIN trades : trades[u] \in PosMemory
      /\ book[t] \in Position /\ t \in Tickets
      /\ past[t].moves \in Nat /\ Risk(t) \in Nat \ {0}
  BY DEF TypeOK, TradesOK, BookOK, Snapshot, PastOK, History, Distances, Risk, Tks
<1>2. /\ st \in PosMemory
      /\ t \in DOMAIN trades => st = trades[t]
      /\ t \notin DOMAIN trades =>
           /\ st.entry = book[t].open /\ st.vol0 = book[t].vol /\ ~st.s1 /\ ~st.s2
           /\ \A d \in Nat \ {0} : Lock(t) = -d => st.d = d
  BY <1>1, StateIs DEF Lock
<1>3. /\ <<t, 4>> \notin DOMAIN acts /\ Due4(t) = 0
      /\ Lots \in Nat /\ VolMin \in Nat /\ VolMin <= Lots
  BY AmountsAre, Constants
<1>4. CASE t \in DOMAIN trades
  <2>1. Managed(t, st) /\ Remembered(t, st)
    BY <1>2, <1>4 DEF OnLadder
  <2>2. past[t].moves <= Marks(st)
    BY <1>1, <1>3, <2>1 DEF Managed, Sends
  <2>3. book[t].vol >= VolMin
    BY <1>1, <1>3, <2>1 DEF Managed, Position
  <2>4. QED
    BY <1>2, <2>1, <2>2, <2>3 DEF Managed
<1>5. CASE t \notin DOMAIN trades
  <2>1. Fresh(t)
    BY <1>5 DEF OnLadder
  <2>2. st.d = Risk(t)
    BY <1>1, <1>2, <1>5, <2>1 DEF Fresh
  <2>3. Remembered(t, st)
    BY <1>1, <1>2, <1>5, <2>1, <2>2 DEF Remembered, Fresh
  <2>4. past[t].moves <= Marks(st)
    BY <1>2, <1>5, <2>1 DEF Fresh, Marks
  <2>5. QED
    BY <1>2, <1>3, <1>5, <2>1, <2>3, <2>4 DEF Fresh
<1>6. QED
  BY <1>4, <1>5

(* What the rungs take was earned by the best close.                        *)
LEMMA TakenIsEarned ==
  ASSUME TypeOK, NEW t \in Tks, Seen(t, candle.c),
         NEW st \in PosMemory, Remembered(t, st),
         \/ First(book[t], st, candle.c) > 0
         \/ Second(book[t], st, candle.c) > 0
         \/ Remainder(book[t], st, candle.c) > 0
  PROVE  past[t].best >= Rung1R * Risk(t)
<1>1. /\ book[t] \in Position /\ t \in Tickets /\ past[t].best \in Int
      /\ candle.c \in Nat /\ Risk(t) \in Nat \ {0}
  BY Constants
  DEF TypeOK, BookOK, LoopOK, Snapshot, PastOK, History, Distances, Risk, Tks
<1> DEFINE g == Gain(book[t], st, candle.c)
<1>2. g = GainAt(book[t], candle.c) /\ g \in Int
  BY <1>1 DEF Gain, GainAt, Remembered, Position
<1>3. \/ Reached(book[t], st, candle.c, Rung1R)
      \/ Reached(book[t], st, candle.c, Rung2R)
      \/ FinalR > 0 /\ Reached(book[t], st, candle.c, FinalR)
  BY <1>1, VolumesFit DEF Final
<1>4. st.d = Risk(t) /\ \A r \in Nat : Reached(book[t], st, candle.c, r) <=> g >= r * Risk(t)
  BY DEF Reached, Remembered
<1> HIDE DEF g
<1>5. /\ Rung1R \in Nat \ {0} /\ Rung2R \in Nat /\ FinalR \in Nat
      /\ Rung1R <= Rung2R /\ (FinalR > 0 => Rung1R <= FinalR)
  BY Constants
<1>6. /\ Rung1R * Risk(t) \in Nat /\ Rung2R * Risk(t) \in Nat /\ FinalR * Risk(t) \in Nat
      /\ Rung1R * Risk(t) >= Risk(t) /\ Rung1R * Risk(t) <= Rung2R * Risk(t)
      /\ FinalR > 0 => Rung1R * Risk(t) <= FinalR * Risk(t)
  BY <1>1, <1>5, Multiples
<1>7. g >= Rung1R * Risk(t)
  BY <1>2, <1>3, <1>4, <1>5, <1>6
<1>8. g <= past[t].best
  BY <1>1, <1>2 DEF Seen
<1>9. QED
  BY <1>1, <1>2, <1>5, <1>6, <1>7, <1>8

(* The ladder's bar, on a position of its snapshot.                         *)
LEMMA SitOnTicket ==
  ASSUME TypeOK, TypeOK', SightInv, Sit, NEW t \in Tks, OnLadder(t),
         NEW f, Snapshot(f), NEW costs \in CostSet, t \in DOMAIN f, f[t] = book[t],
         cache.warm => f = cache.snap,
         acts' = Actions(trades, f, candle.c, prev, costs),
         trades' = Remember(trades, f, candle.c, prev, costs)
  PROVE  OnLadder(t)'
<1> DEFINE p == book[t]
           close == candle.c
           st == StateOf(trades, t, p)
           stage == Moves(p, st, close, prev, costs)
           one == First(p, st, close)
           two == Second(p, st, close)
           rest == Remainder(p, st, close)
           best == past[t].best
           lead == past[t].lead
<1>1. /\ pc = "sit" /\ pc' = "act" /\ book' = book /\ past' = past
  BY DEF Sit
<1>2. /\ \A u \in DOMAIN trades : trades[u] \in PosMemory
      /\ p \in Position /\ t \in Tickets /\ past[t].moves \in Nat /\ best \in Int
      /\ close \in Nat /\ prev \in Candles \cup {NoCandle}
      /\ lead \in Int /\ Risk(t) \in Distances
  BY Constants DEF TypeOK, TradesOK, BookOK, LoopOK, Snapshot, PastOK, History, Risk, Tks
<1>3. /\ st \in PosMemory /\ st.vol0 = Lots /\ past[t].moves <= Marks(st)
      /\ Remembered(t, st) /\ p.vol >= VolMin
  BY <1>1, Known
<1>4. /\ one \in Nat /\ two \in Nat /\ rest \in Nat
      /\ one > 0 => one >= VolMin
      /\ two > 0 => two >= VolMin
      /\ one + two > 0 => p.vol - one - two >= VolMin
      /\ Final(p, st, close) => one + two + rest = p.vol
      /\ ~Final(p, st, close) => rest = 0
  BY <1>2, <1>3, VolumesFit
<1>5. one > 0 \/ two > 0 \/ rest > 0 => best >= Rung1R * Risk(t)
  BY <1>3, TakenIsEarned DEF SightInv
<1>6. stage > 0 =>
        /\ stage \in {1, 2} /\ prev \in Candles /\ ~st.s2
        /\ LET level == Level(p, st, prev, stage, costs) IN
           /\ Gain(p, st, level) \in Nat /\ Gain(p, st, level) < Gain(p, st, close)
           /\ stage = 1 => ~st.s1 /\ Gain(p, st, level) < Risk(t)
        /\ Reached(p, st, prev.c, Stage1R)
  BY <1>2, <1>3, MoveIs
<1>7. stage > 0 => best >= Stage1R * Risk(t) \/ lead >= Stage1R * Risk(t)
  <2>1. SUFFICES ASSUME stage > 0
                 PROVE  best >= Stage1R * Risk(t) \/ lead >= Stage1R * Risk(t)
    OBVIOUS
  <2> DEFINE g == GainAt(p, prev.c)
             now == GainAt(p, close)
  <2>2. /\ prev \in Candles /\ prev # NoCandle /\ prev.c \in Nat
        /\ \E x \in Nat : x < Gain(p, st, close)
        /\ Reached(p, st, prev.c, Stage1R)
    <3>1. prev \in Candles /\ Reached(p, st, prev.c, Stage1R)
      BY <1>6, <2>1
    <3>2. \E x \in Nat : x < Gain(p, st, close)
      BY <1>6, <2>1
    <3>3. prev # NoCandle /\ prev.c \in Nat
      <4>1. prev \in [h : Nat, l : Nat, c : Nat]
        BY <3>1, Constants
      <4>2. NoCandle \notin [h : Nat, l : Nat, c : Nat]
        BY DEF NoCandle
      <4>3. QED
        BY <4>1, <4>2
    <3>4. QED
      BY <3>1, <3>2, <3>3
  <2>3. /\ g \in Int /\ now \in Int /\ Gain(p, st, prev.c) = g /\ Gain(p, st, close) = now
    BY <1>2, <1>3, <2>2 DEF Remembered, Gain, GainAt, Position
  <2>4. now > 0
    BY <2>2, <2>3
  <2>5. g <= best \/ g <= lead
    <3>1. Seen(t, prev.c) \/ Unconfirmed(t)
      BY <2>2 DEF SightInv
    <3>2. ~(cache.warm /\ t \notin DOMAIN cache.snap)
      OBVIOUS
    <3>3. QED
      BY <2>3, <2>4, <3>1, <3>2 DEF Seen, Unconfirmed
  <2>6. g >= Stage1R * Risk(t)
    BY <1>3, <2>2, <2>3 DEF Reached, Remembered
  <2> HIDE DEF g, now
  <2>7. Stage1R * Risk(t) \in Nat
    BY <1>2, Constants, Multiples DEF Distances
  <2>8. QED
    BY <1>2, <2>3, <2>5, <2>6, <2>7
<1>8. /\ \A k \in Parts :
           /\ <<t, k>> \in DOMAIN acts' <=> Volume(k, p, st, close) > 0
           /\ <<t, k>> \in DOMAIN acts' => acts'[<<t, k>>] = Volume(k, p, st, close)
      /\ <<t, 4>> \in DOMAIN acts' <=> ~Final(p, st, close) /\ stage > 0
      /\ <<t, 4>> \in DOMAIN acts' => acts'[<<t, 4>>] = Level(p, st, prev, stage, costs)
  <2>1. st = StateOf(trades, t, f[t]) /\ stage = Moves(f[t], st, close, prev, costs)
    OBVIOUS
  <2> HIDE DEF st, stage
  <2>2. QED
    BY <2>1, ActionsOn
<1>9. /\ t \in DOMAIN trades' <=> ~Final(p, st, close)
      /\ t \in DOMAIN trades' =>
           /\ trades'[t] \in PosMemory
           /\ trades'[t].entry = st.entry /\ trades'[t].d = st.d /\ trades'[t].vol0 = st.vol0
           /\ trades'[t].s1 <=> st.s1 \/ stage > 0
           /\ trades'[t].s2 <=> st.s2 \/ stage = 2
  BY <1>2, RemembersAre
<1> HIDE DEF p, close, st, stage, one, two, rest, best, lead
<1>10. /\ Amount(t, 1)' = one /\ Amount(t, 2)' = two /\ Amount(t, 3)' = rest
       /\ Due4(t)' = one + two + rest
  <2>1. 1 \in Parts /\ 2 \in Parts /\ 3 \in Parts
    BY DEF Parts
  <2>2. /\ Volume(1, p, st, close) = one /\ Volume(2, p, st, close) = two
        /\ Volume(3, p, st, close) = rest
    BY DEF Volume, one, two, rest
  <2>3. Amount(t, 1)' = one
    BY <1>4, <1>8, <2>1, <2>2 DEF Amount
  <2>4. Amount(t, 2)' = two
    BY <1>4, <1>8, <2>1, <2>2 DEF Amount
  <2>5. Amount(t, 3)' = rest
    BY <1>4, <1>8, <2>1, <2>2 DEF Amount
  <2>6. QED
    BY <2>3, <2>4, <2>5 DEF Due4
<1>11. EarnedAll(t)'
  <2>1. /\ past[t].moves > 0 => best >= Stage1R * Risk(t) \/ lead >= Stage1R * Risk(t)
        /\ p.vol < Lots => best >= Rung1R * Risk(t)
    BY <1>2 DEF OnLadder, EarnedAll, Sends, p, best, lead
  <2>2. Sends(t)' > 0 => best >= Stage1R * Risk(t) \/ lead >= Stage1R * Risk(t)
    BY <1>1, <1>2, <1>7, <1>8, <2>1 DEF Sends
  <2>3. p.vol < Lots \/ Due4(t)' > 0 => best >= Rung1R * Risk(t)
    BY <1>4, <1>5, <1>10, <2>1
  <2>4. Risk(t)' = Risk(t)
    BY <1>1 DEF Risk
  <2>5. QED
    BY <1>1, <2>2, <2>3, <2>4 DEF EarnedAll, p, best, lead
<1>12. CASE ~Final(p, st, close)
  <2> DEFINE next == trades'[t]
  <2>1. /\ t \in DOMAIN trades' /\ next \in PosMemory
        /\ next.entry = st.entry /\ next.d = st.d /\ next.vol0 = st.vol0
        /\ next.s1 <=> st.s1 \/ stage > 0
        /\ next.s2 <=> st.s2 \/ stage = 2
    BY <1>9, <1>12
  <2> HIDE DEF next
  <2>2. Remembered(t, trades[t])'
    BY <1>1, <1>3, <2>1 DEF Remembered, Lock, Risk, next
  <2>3. Sends(t)' <= Marks(next)
    <3>1. CASE stage > 0
      <4>1. next.s1 /\ ~st.s2 /\ (stage = 1 => ~st.s1) /\ (stage = 2 => next.s2) /\ stage \in {1, 2}
        BY <1>6, <2>1, <3>1
      <4>2. Marks(next) >= Marks(st) + 1
        BY <4>1, <2>1 DEF Marks
      <4>3. Sends(t)' = past[t].moves + 1
        BY <1>1, <1>8, <1>12, <3>1 DEF Sends
      <4>4. Marks(st) \in Nat /\ Marks(next) \in Nat
        BY DEF Marks
      <4>5. QED
        BY <1>2, <1>3, <4>2, <4>3, <4>4
    <3>2. CASE ~(stage > 0)
      <4>1. Sends(t)' = past[t].moves
        BY <1>1, <1>2, <1>8, <3>2 DEF Sends
      <4>2. Marks(next) >= Marks(st)
        BY <2>1 DEF Marks
      <4>3. Marks(st) \in Nat /\ Marks(next) \in Nat
        BY DEF Marks
      <4>4. QED
        BY <1>2, <1>3, <4>1, <4>2, <4>3
    <3>3. QED
      BY <3>1, <3>2
  <2>4. <<t, 4>> \in DOMAIN acts' =>
          next.s1 /\ (~next.s2 => GainAt(book'[t], acts'[<<t, 4>>]) < Risk(t))
    <3>1. SUFFICES ASSUME <<t, 4>> \in DOMAIN acts'
                   PROVE  next.s1 /\ (~next.s2 => GainAt(book'[t], acts'[<<t, 4>>]) < Risk(t))
      OBVIOUS
    <3> DEFINE level == Level(p, st, prev, stage, costs)
    <3>2. stage > 0 /\ acts'[<<t, 4>>] = level
      BY <1>8, <3>1
    <3>3. stage \in {1, 2} /\ (stage = 1 => Gain(p, st, level) < Risk(t))
      BY <1>6, <3>2
    <3> HIDE DEF level
    <3>4. Gain(p, st, level) = GainAt(p, level)
      BY <1>3 DEF Remembered, Gain, GainAt, p
    <3>5. QED
      BY <1>1, <2>1, <3>2, <3>3, <3>4 DEF p
  <2>5. p.vol - Due4(t)' >= VolMin
    <3>1. rest = 0 /\ p.vol \in Nat
      BY <1>2, <1>4, <1>12 DEF Position
    <3>2. CASE one + two > 0
      BY <1>4, <1>10, <3>1, <3>2
    <3>3. CASE ~(one + two > 0)
      BY <1>3, <1>4, <1>10, <3>1, <3>3
    <3>4. QED
      BY <3>2, <3>3
  <2>6. Managed(t, trades[t])'
    BY <1>1, <1>3, <2>1, <2>3, <2>4, <2>5 DEF Managed, Marks, Risk, p, next
  <2>7. QED
    BY <1>11, <2>1, <2>2, <2>6 DEF OnLadder, next
<1>13. CASE Final(p, st, close)
  <2>1. t \notin DOMAIN trades' /\ <<t, 4>> \notin DOMAIN acts'
    BY <1>8, <1>9, <1>13
  <2>2. past[t].moves <= 2
    BY <1>2, <1>3 DEF Marks
  <2>3. Due4(t)' = p.vol /\ p.vol \in Nat
    BY <1>2, <1>4, <1>10, <1>13 DEF Position
  <2>4. VolMin \in Nat \ {0} /\ (rest > 0 => rest >= VolMin)
    <3>1. VolMin \in Nat \ {0} /\ p.vol \in Nat
      BY <2>3, Constants
    <3>2. CASE one + two > 0
      BY <1>4, <1>13, <3>1, <3>2
    <3>3. CASE ~(one + two > 0)
      BY <1>3, <1>4, <1>13, <3>1, <3>3
    <3>4. QED
      BY <3>1, <3>2, <3>3
  <2>5. ASSUME NEW k \in Parts, <<t, k>> \in DOMAIN acts' PROVE acts'[<<t, k>>] >= VolMin
    <3>1. /\ Volume(1, p, st, close) = one /\ Volume(2, p, st, close) = two
          /\ Volume(3, p, st, close) = rest
      BY DEF Volume, one, two, rest
    <3>2. acts'[<<t, k>>] = Volume(k, p, st, close) /\ Volume(k, p, st, close) > 0
      BY <1>8, <2>5
    <3>3. k = 1 \/ k = 2 \/ k = 3
      BY DEF Parts
    <3>4. QED
      BY <1>4, <2>4, <3>1, <3>2, <3>3
  <2>6. Leaving(t)'
    BY <1>1, <2>1, <2>2, <2>3, <2>5 DEF Leaving, p
  <2>7. QED
    BY <1>1, <1>11, <2>1, <2>6 DEF OnLadder
<1>14. QED
  BY <1>12, <1>13
(* An action of the ladder, on any position that stays open.                *)
LEMMA ActOnTicket ==
  ASSUME TypeOK, One(Acting), ActNext, Untroubled', NEW u \in Tks', u \in Tks => OnLadder(u)
  PROVE  OnLadder(u)'
<1>1. PICK t \in Tickets, k \in Steps :
        /\ <<t, k>> \in DOMAIN acts
        /\ acts' = Drop(acts, <<t, k>>) \/ (acts' = << >> /\ (Trouble \/ t \notin Tks))
        /\ OnlyOf(t)
        /\ Nothing(t) \/ Closed(t, <<t, k>>) \/ Reduced(t, <<t, k>>) \/ StopSet(t, <<t, k>>)
  BY ActIs
<1>2. pc = "act" /\ pc' = "act" /\ trades' = trades
  BY DEF ActNext
<1>3. ~Trouble
  BY DEF Trouble, Untroubled, TypeOK, LoopOK
<1> DEFINE x == acts[<<t, k>>]
<1>4. /\ \A j : <<u, j>> \in DOMAIN acts' <=> <<u, j>> \in DOMAIN acts /\ <<u, j>> # <<t, k>>
      /\ \A a \in DOMAIN acts' : acts'[a] = acts[a]
  <2>1. CASE acts' = Drop(acts, <<t, k>>)
    BY <2>1 DEF Drop
  <2>2. CASE acts' = << >> /\ t \notin Tks
    <3>1. u # t
      BY <1>1, <2>2 DEF OnlyOf
    <3>2. ASSUME NEW j, <<u, j>> \in DOMAIN acts PROVE FALSE
      <4>1. u \in Acting /\ t \in Acting
        <5>1. <<u, j>>[1] = u /\ <<t, k>>[1] = t
          OBVIOUS
        <5>2. QED
          BY <1>1, <3>2, <5>1 DEF Acting
      <4>2. QED
        BY <3>1, <4>1 DEF One
    <3>3. DOMAIN acts' = {}
      BY <2>2
    <3>4. QED
      BY <3>2, <3>3
  <2>3. QED
    BY <1>1, <1>3, <2>1, <2>2
<1>5. /\ u \in Tks /\ OnLadder(u) /\ u \in Tickets /\ book[u] \in Position
      /\ past[u].moves \in Nat /\ past[u].best \in Int /\ past'[u].best = past[u].best
      /\ past'[u].lead = past[u].lead /\ Risk(u)' = Risk(u)
      /\ book'[u].dir = book[u].dir /\ book'[u].open = book[u].open
      /\ x \in Nat \ {0}
  BY <1>1 DEF OnlyOf, TypeOK, BookOK, Snapshot, PastOK, History, ActsOK, Risk, Tks
<1>6. /\ \A j : Amount(u, j) \in Nat
      /\ Due4(u) \in Nat
  BY AmountsAre
<1>7. ASSUME NEW j, <<u, j>> # <<t, k>>
      PROVE  /\ <<u, j>> \in DOMAIN acts' <=> <<u, j>> \in DOMAIN acts
             /\ <<u, j>> \in DOMAIN acts' => acts'[<<u, j>>] = acts[<<u, j>>]
             /\ Amount(u, j)' = Amount(u, j)
  <2>1. /\ <<u, j>> \in DOMAIN acts' <=> <<u, j>> \in DOMAIN acts
        /\ <<u, j>> \in DOMAIN acts' => acts'[<<u, j>>] = acts[<<u, j>>]
    BY <1>4, <1>7
  <2>2. QED
    BY <2>1 DEF Amount
<1>8. CASE u # t
  <2>1. book'[u] = book[u] /\ past'[u] = past[u]
    BY <1>1, <1>8 DEF OnlyOf
  <2>2. \A j : <<u, j>> # <<t, k>>
    BY <1>8
  <2>3. /\ \A j : <<u, j>> \in DOMAIN acts' <=> <<u, j>> \in DOMAIN acts
        /\ \A j : <<u, j>> \in DOMAIN acts' => acts'[<<u, j>>] = acts[<<u, j>>]
        /\ Amount(u, 1)' = Amount(u, 1) /\ Amount(u, 2)' = Amount(u, 2)
        /\ Amount(u, 3)' = Amount(u, 3)
    BY <1>7, <2>2
  <2>4. Due4(u)' = Due4(u)
    BY <2>3 DEF Due4
  <2>5. Sends(u)' = Sends(u) /\ Lock(u)' = Lock(u)
    BY <2>1, <2>3 DEF Sends, Lock
  <2>6. EarnedAll(u)'
    BY <1>5, <2>1, <2>4, <2>5 DEF OnLadder, EarnedAll
  <2>7. CASE u \in DOMAIN trades
    <3>1. Managed(u, trades[u]) /\ Remembered(u, trades[u])
      BY <1>5, <2>7 DEF OnLadder
    <3>2. Managed(u, trades[u])' /\ Remembered(u, trades[u])'
      BY <1>2, <1>5, <2>1, <2>3, <2>4, <2>5, <3>1 DEF Managed, Remembered, Marks
    <3>3. QED
      BY <1>2, <2>6, <2>7, <3>2 DEF OnLadder
  <2>8. CASE u \notin DOMAIN trades
    <3>1. Fresh(u) \/ Leaving(u)
      BY <1>5, <2>8 DEF OnLadder
    <3>2. Fresh(u) => Fresh(u)'
      BY <1>5, <2>1, <2>3, <2>5 DEF Fresh
    <3>3. Leaving(u) => Leaving(u)'
      BY <2>1, <2>3, <2>4 DEF Leaving
    <3>4. QED
      BY <1>2, <2>6, <2>8, <3>1, <3>2, <3>3 DEF OnLadder
  <2>9. QED
    BY <2>7, <2>8
<1>9. CASE u = t
  <2>1. Reduced(t, <<t, k>>) \/ StopSet(t, <<t, k>>)
    BY <1>1, <1>3, <1>5, <1>9 DEF Nothing, Closed
  <2>2. /\ <<u, k>> \in DOMAIN acts /\ <<u, k>> \notin DOMAIN acts'
        /\ Amount(u, k) = x
    BY <1>1, <1>4, <1>9 DEF Amount
  <2>3. ~Fresh(u)
    BY <2>2 DEF Fresh
  <2>4. \A j \in Steps : j # k =>
          /\ <<u, j>> \in DOMAIN acts' <=> <<u, j>> \in DOMAIN acts
          /\ <<u, j>> \in DOMAIN acts' => acts'[<<u, j>>] = acts[<<u, j>>]
    BY <1>7
  <2>8. /\ Amount(u, 1)' = (IF k = 1 THEN 0 ELSE Amount(u, 1))
        /\ Amount(u, 2)' = (IF k = 2 THEN 0 ELSE Amount(u, 2))
        /\ Amount(u, 3)' = (IF k = 3 THEN 0 ELSE Amount(u, 3))
    BY <1>4, <1>9 DEF Amount
  <2> HIDE DEF x
  <2>5. CASE Reduced(t, <<t, k>>)
    <3>1. /\ k \in Parts /\ past' = past /\ book'[u].sl = book[u].sl
          /\ book'[u].vol = book[u].vol - x /\ book[u].vol \in Nat
      BY <1>5, <1>9, <2>5 DEF Reduced, Position, x
    <3>2. k \in {1, 2, 3} /\ {1, 2, 3, 4} = Steps
      BY <3>1 DEF Parts, Steps
    <3>3. Due4(u) = Due4(u)' + x
      <4>1. CASE k = 1
        BY <1>5, <1>6, <2>2, <2>8, <4>1 DEF Due4
      <4>2. CASE k = 2
        BY <1>5, <1>6, <2>2, <2>8, <4>2 DEF Due4
      <4>3. CASE k = 3
        BY <1>5, <1>6, <2>2, <2>8, <4>3 DEF Due4
      <4>4. QED
        BY <3>2, <4>1, <4>2, <4>3
    <3>4. Due4(u)' \in Nat
      <4>1. Amount(u, 1)' \in Nat /\ Amount(u, 2)' \in Nat /\ Amount(u, 3)' \in Nat
        BY <1>6, <2>8
      <4>2. QED
        BY <4>1 DEF Due4
    <3>5. /\ <<u, 4>> \in DOMAIN acts' <=> <<u, 4>> \in DOMAIN acts
          /\ <<u, 4>> \in DOMAIN acts' => acts'[<<u, 4>>] = acts[<<u, 4>>]
      BY <2>4, <3>2
    <3>6. Sends(u)' = Sends(u) /\ Lock(u)' = Lock(u)
      BY <1>5, <3>1, <3>5 DEF Sends, Lock, GainAt
    <3>7. EarnedAll(u)'
      <4>1. past[u].best >= Rung1R * Risk(u)
        BY <1>5, <3>3, <3>4 DEF OnLadder, EarnedAll
      <4>2. QED
        BY <1>5, <3>1, <3>6, <4>1 DEF OnLadder, EarnedAll
    <3>8. CASE u \in DOMAIN trades
      <4>1. Managed(u, trades[u]) /\ Remembered(u, trades[u])
        BY <1>5, <3>8 DEF OnLadder
      <4>2. book'[u].vol - Due4(u)' >= VolMin
        BY <1>5, <1>6, <3>1, <3>3, <3>4, <4>1 DEF Managed
      <4>3. Managed(u, trades[u])'
        <5>1. <<u, 4>> \in DOMAIN acts' =>
                GainAt(book'[u], acts'[<<u, 4>>]) = GainAt(book[u], acts[<<u, 4>>])
          BY <1>5, <3>5 DEF GainAt
        <5>2. QED
          BY <1>2, <1>5, <3>5, <3>6, <4>1, <4>2, <5>1 DEF Managed, Marks
      <4>4. Remembered(u, trades[u])'
        BY <1>2, <1>5, <3>6, <4>1 DEF Remembered
      <4>5. QED
        BY <1>2, <3>7, <3>8, <4>3, <4>4 DEF OnLadder
    <3>9. CASE u \notin DOMAIN trades
      <4>1. Leaving(u)
        BY <1>5, <2>3, <3>9 DEF OnLadder
      <4>2. Due4(u)' = book'[u].vol
        BY <1>5, <1>6, <3>1, <3>3, <3>4, <4>1 DEF Leaving
      <4>3. \A j \in Parts : <<u, j>> \in DOMAIN acts' => acts'[<<u, j>>] >= VolMin
        <5>1. Parts \subseteq Steps
          BY DEF Parts, Steps
        <5>2. QED
          BY <2>2, <2>4, <4>1, <5>1 DEF Leaving
      <4>4. Leaving(u)'
        BY <3>1, <3>5, <4>1, <4>2, <4>3 DEF Leaving
      <4>5. QED
        BY <1>2, <3>7, <3>9, <4>4 DEF OnLadder
    <3>10. QED
      BY <3>8, <3>9
  <2>6. CASE StopSet(t, <<t, k>>)
    <3>1. /\ k = 4 /\ book'[u].sl = acts[<<u, 4>>] /\ book'[u].vol = book[u].vol
          /\ past'[u].moves = past[u].moves + 1
      BY <1>9, <2>6 DEF StopSet
    <3>2. <<u, 4>> \in DOMAIN acts /\ <<u, 4>> \notin DOMAIN acts'
      BY <2>2, <3>1
    <3>3. Due4(u)' = Due4(u)
      BY <2>8, <3>1 DEF Due4
    <3>4. Sends(u)' = Sends(u)
      BY <1>5, <3>1, <3>2 DEF Sends
    <3>5. EarnedAll(u)'
      BY <1>5, <3>1, <3>3, <3>4 DEF OnLadder, EarnedAll
    <3>6. u \in DOMAIN trades /\ Managed(u, trades[u]) /\ Remembered(u, trades[u])
      BY <1>5, <2>3, <3>2 DEF OnLadder, Leaving
    <3>7. Managed(u, trades[u])'
      BY <1>2, <1>5, <3>1, <3>2, <3>3, <3>4, <3>6 DEF Managed, Marks
    <3>8. Lock(u)' = GainAt(book[u], acts[<<u, 4>>])
      BY <1>5, <3>1 DEF Lock, GainAt
    <3>9. Remembered(u, trades[u])'
      BY <1>2, <1>5, <3>2, <3>6, <3>8 DEF Managed, Remembered
    <3>10. QED
      BY <1>2, <3>5, <3>6, <3>7, <3>9 DEF OnLadder
  <2>7. QED
    BY <2>1, <2>5, <2>6
<1>10. QED
  BY <1>8, <1>9
LEMMA LadderStep ==
  ASSUME TypeOK, TypeOK', CacheInv, SingleInv, SightInv, LadderInv, [Next]_vars
  PROVE  LadderInv'
<1>1. SUFFICES ASSUME Untroubled', NEW t \in Tks'
               PROVE  OnLadder(t)'
  BY DEF LadderInv
<1>2. /\ Untroubled /\ ~Trouble
      /\ t \in Tks \/ (t \in FreeTickets /\ pc = "entry" /\ pc' = "sit")
  BY <1>1, BookKeeps DEF Untroubled, Trouble
<1>3. t \in Tks => OnLadder(t)
  BY <1>2 DEF LadderInv
<1>4. t \in Tks => /\ book[t] \in Position /\ t \in Tickets
                   /\ past[t].best \in Int /\ past[t].moves \in Nat
                   /\ Risk(t) \in Nat
  BY DEF TypeOK, BookOK, Snapshot, PastOK, History, Distances, Risk, Tks
<1>5. ASSUME t \in Tks, book'[t] = book[t], past'[t].moves = past[t].moves,
             Risk(t)' = Risk(t), past'[t].lead = past[t].lead,
             past'[t].best = past[t].best \/ \E g \in Int : past'[t].best = MaxOf(past[t].best, g),
             acts' = acts, trades' = trades, pc' = pc \/ ~(pc = "act" /\ Leaving(t))
      PROVE  OnLadder(t)'
  <2>1. past'[t].best \in Int /\ past'[t].best >= past[t].best
    BY <1>4, <1>5 DEF MaxOf
  <2>2. /\ Due4(t)' = Due4(t) /\ Sends(t)' = Sends(t) /\ Lock(t)' = Lock(t)
    BY <1>5 DEF Due4, Amount, Sends, Lock
  <2>3. EarnedAll(t)'
    <3>1. Stage1R * Risk(t) \in Nat /\ Rung1R * Risk(t) \in Nat
      BY <1>4, <1>5, Constants, Multiples
    <3>2. EarnedAll(t)
      BY <1>3, <1>5 DEF OnLadder
    <3>3. QED
      BY <1>4, <1>5, <2>1, <2>2, <3>1, <3>2 DEF EarnedAll
  <2>4. Fresh(t) => Fresh(t)'
    BY <1>5, <2>2 DEF Fresh
  <2>5. Leaving(t) => Leaving(t)'
    BY <1>5, <2>2 DEF Leaving
  <2>6. t \in DOMAIN trades => Managed(t, trades[t])' /\ Remembered(t, trades[t])'
    BY <1>3, <1>5, <2>2 DEF OnLadder, Managed, Remembered, Marks
  <2>7. QED
    BY <1>3, <1>5, <2>3, <2>4, <2>5, <2>6 DEF OnLadder
<1>6. CASE NextBar
  <2>1. PICK c \in Candles : Bar(c)
    BY <1>6 DEF NextBar
  <2>2. /\ pc = "bar" /\ book' = book /\ acts' = acts /\ trades' = trades /\ t \in Tks
    BY <1>2, <2>1 DEF Bar
  <2>3. /\ GainAt(book[t], c.c) \in Int /\ past'[t].moves = past[t].moves
        /\ past'[t].best = MaxOf(past[t].best, GainAt(book[t], c.c))
        /\ Risk(t)' = Risk(t) /\ past'[t].lead = past[t].lead
    BY <2>1, <2>2, BarIs DEF Risk
  <2>4. QED
    BY <1>5, <2>2, <2>3
<1>7. CASE Enter
  <2>1. /\ pc = "entry" /\ pc' = "sit" /\ acts' = acts /\ trades' = trades
    BY <1>7 DEF Enter
  <2>2. CASE UNCHANGED <<book, past>>
    <3>1. t \in Tks
      BY <2>2 DEF Tks
    <3>2. QED
      BY <1>5, <2>1, <2>2, <3>1 DEF Risk
  <2>3. CASE ~UNCHANGED <<book, past>>
    <3>1. PICK u \in FreeTickets :
            /\ Tks' = Tks \cup {u} /\ \A w \in Tks : w # u /\ book'[w] = book[w]
            /\ Lock(u)' = -Risk(u)' /\ book'[u].vol = Lots
            /\ past'[u].moves = 0
            /\ \A w \in Tickets : w # u => past'[w] = past[w]
      BY <1>7, <2>3, EnterIs DEF Entered, Risk
    <3>2. CASE t \in Tks
      <4>1. book'[t] = book[t] /\ past'[t] = past[t]
        BY <1>4, <3>1, <3>2
      <4>2. QED
        BY <1>5, <2>1, <3>2, <4>1 DEF Risk
    <3>3. CASE t \notin Tks
      <4>1. t = u /\ t \notin DOMAIN trades'
        BY <2>1, <3>1, <3>3 DEF FreeTickets
      <4>2. (\A k : <<t, k>> \notin DOMAIN acts') /\ Due4(t)' = 0
        <5>1. (\A k : <<t, k>> \notin DOMAIN acts) /\ Due4(t) = 0
          BY <2>1, AmountsAre
        <5>2. Due4(t)' = Due4(t)
          BY <2>1 DEF Due4, Amount
        <5>3. QED
          BY <2>1, <5>1, <5>2
      <4>3. Fresh(t)' /\ Sends(t)' = 0
        BY <3>1, <4>1, <4>2 DEF Fresh, Sends
      <4>4. EarnedAll(t)'
        BY <3>1, <4>1, <4>2, <4>3, Constants DEF EarnedAll
      <4>5. QED
        BY <4>1, <4>3, <4>4 DEF OnLadder
    <3>4. QED
      BY <3>2, <3>3
  <2>4. QED
    BY <2>2, <2>3
<1>8. CASE Sit
  <2>1. /\ pc = "sit" /\ pc' = "act" /\ book' = book /\ past' = past /\ t \in Tks
    BY <1>2, <1>8 DEF Sit
  <2>2. PICK f, costs :
          /\ Snapshot(f) /\ costs \in CostSet
          /\ cache.warm => f = cache.snap
          /\ ~cache.warm => /\ \A u \in DOMAIN f : u \in Tks /\ f[u] = book[u]
                            /\ DOMAIN f = Tks
          /\ acts' = Actions(trades, f, candle.c, prev, costs)
          /\ trades' = Remember(trades, f, candle.c, prev, costs)
    BY <1>2, <1>8, SitIs
  <2>3. CASE t \in DOMAIN f
    <3>1. f[t] = book[t]
      BY <1>2, <2>1, <2>2, <2>3 DEF CacheInv, Agrees
    <3>2. QED
      BY <1>3, <1>8, <2>1, <2>2, <2>3, <3>1, SitOnTicket
  <2>4. CASE t \notin DOMAIN f
    <3>1. t \notin DOMAIN trades
      BY <1>2, <2>1, <2>2, <2>4 DEF CacheInv
    <3>2. Fresh(t) /\ EarnedAll(t)
      BY <1>3, <2>1, <3>1 DEF OnLadder
    <3>3. /\ candle.c \in Nat /\ prev \in Candles \cup {NoCandle}
          /\ \A u \in DOMAIN trades : trades[u] \in PosMemory
      BY Constants DEF TypeOK, LoopOK, TradesOK
    <3>4. \A k : <<t, k>> \notin DOMAIN acts'
      <4>1. DOMAIN acts' \subseteq (DOMAIN f) \X Steps
        BY <2>2, <3>3, ActionsAre
      <4>2. QED
        BY <2>4, <4>1
    <3>5. t \notin DOMAIN trades'
      BY <2>2, <2>4, <3>3, RemembersAre
    <3>6. Due4(t)' = 0
      BY <3>4 DEF Due4, Amount
    <3>7. Fresh(t)' /\ Sends(t)' = 0
      BY <2>1, <3>2, <3>4 DEF Fresh, Sends, Lock, Risk
    <3>8. EarnedAll(t)'
      BY <2>1, <3>2, <3>6, <3>7, Constants DEF Fresh, EarnedAll
    <3>9. QED
      BY <3>5, <3>7, <3>8 DEF OnLadder
  <2>5. QED
    BY <2>3, <2>4
<1>9. CASE ActNext
  <2>1. One(Acting)
    BY <1>2 DEF SingleInv
  <2>2. QED
    BY <1>1, <1>3, <1>9, <2>1, ActOnTicket
<1>10. CASE Sync
  <2>1. /\ book' = book /\ past' = past /\ acts' = acts /\ trades' = trades
        /\ acts = << >> /\ t \in Tks
    BY <1>2, <1>10 DEF Sync
  <2>2. ~Leaving(t)
    <3>1. Due4(t) = 0
      BY <2>1 DEF Due4, Amount
    <3>2. QED
      BY <1>4, <2>1, <3>1 DEF Leaving, Position
  <2>3. QED
    BY <1>5, <2>1, <2>2 DEF Risk
<1>11. CASE SkipEntry \/ RefreshRead \/ RefreshStore \/ ServerClose \/ UNCHANGED vars
  <2>1. /\ past' = past /\ acts' = acts /\ trades' = trades
        /\ pc' = pc \/ pc # "act"
    BY <1>11 DEF SkipEntry, RefreshRead, RefreshStore, ServerClose, vars
  <2>2. t \in Tks /\ book'[t] = book[t]
    BY <1>11 DEF SkipEntry, RefreshRead, RefreshStore, ServerClose, vars, Drop, Tks
  <2>3. QED
    BY <1>5, <2>1, <2>2 DEF Risk
<1>12. CASE Restart
  BY <1>2, <1>12 DEF Restart
<1>13. QED
  BY <1>6, <1>7, <1>8, <1>9, <1>10, <1>11, <1>12 DEF Next

-----------------------------------------------------------------------------
(* The invariant, and what it says of every ladder, loop and account.       *)

(* The program keeps the inductive invariant: the types, what a snapshot    *)
(* still says of the account, what the ladder remembers of each position    *)
(* and what the actions not yet sent will do to it.                         *)
THEOREM Invariance == Spec => []Inv
<1>1. Init => Inv
  <2>1. SUFFICES ASSUME Init PROVE Inv
    OBVIOUS
  <2>2. /\ held = "none" /\ candle \in Candles /\ pc = "bar" /\ acts = << >> /\ book = << >>
        /\ trades = << >> /\ prev = NoCandle /\ cache = Cold /\ troubles = 0
        /\ past = [t \in Tickets |-> [d |-> Dist, best |-> 0, lead |-> 0, moves |-> 0]]
    BY <2>1 DEF Init
  <2>3. Tks = {} /\ DOMAIN trades = {} /\ DOMAIN acts = {}
    BY <2>2 DEF Tks
  <2>4. /\ DOMAIN cache = {"warm", "snap", "busy", "read", "current", "readNow"}
        /\ DOMAIN cache.snap = {} /\ DOMAIN cache.read = {}
        /\ cache.warm = FALSE /\ cache.busy = FALSE
        /\ cache.current = FALSE /\ cache.readNow = FALSE
    BY <2>2 DEF Cold
  <2>5. PastOK
    <3>1. [d |-> Dist, best |-> 0, lead |-> 0, moves |-> 0] \in History
      BY FillDistances DEF History
    <3>2. QED
      BY <2>2, <3>1 DEF PastOK
  <2>6. TypeOK
    BY <2>2, <2>3, <2>4, <2>5
    DEF TypeOK, BookOK, TradesOK, CacheOK, ActsOK, LoopOK, Snapshot, Tks
  <2>7. CacheInv /\ SingleInv /\ StopInv
    BY <2>2, <2>3, <2>4 DEF CacheInv, SingleInv, One, Acting, StopInv, SameTicket
  <2>8. SightInv /\ LadderInv
    BY <2>3 DEF SightInv, LadderInv
  <2>9. QED
    BY <2>6, <2>7, <2>8 DEF Inv
<1>2. Inv /\ [Next]_vars => Inv'
  <2>1. SUFFICES ASSUME Inv, [Next]_vars PROVE Inv'
    OBVIOUS
  <2>2. TypeOK'
    BY <2>1, TypeStep DEF Inv
  <2>3. CacheInv' /\ SingleInv' /\ SightInv' /\ StopInv'
    BY <2>1, CacheStep, SingleStep, SightStep, StopStep DEF Inv
  <2>4. LadderInv'
    BY <2>1, <2>2, LadderStep DEF Inv
  <2>5. QED
    BY <2>2, <2>3, <2>4 DEF Inv
<1>3. QED
  BY <1>1, <1>2, PTL DEF Spec

(* What the loop, the manager and the cache hold has its type throughout.   *)
THEOREM TypeCorrect == Spec => []TypeOK
<1>1. Inv => TypeOK
  BY DEF Inv
<1>2. QED
  BY <1>1, Invariance, PTL

(* exits.py, LadderExitManager: a position's stop is moved at most twice    *)
(* and no rung leaves less than vol_min of it, although two may be due on   *)
(* one bar and volumes are read from a snapshot.                            *)
THEOREM Limits == Spec => []WithinLadder
<1>1. Inv => WithinLadder
  <2>1. SUFFICES ASSUME Inv, Untroubled, NEW t \in Tks
                 PROVE  past[t].moves <= 2 /\ book[t].vol >= VolMin
    BY DEF WithinLadder
  <2>2. TypeOK /\ OnLadder(t)
    BY <2>1 DEF Inv, LadderInv
  <2>3. /\ book[t].vol \in Nat \ {0} /\ past[t].moves \in Nat
    BY <2>2 DEF TypeOK, BookOK, Snapshot, Position, PastOK, History, Tks
  <2>4. /\ Due4(t) \in Nat /\ Amount(t, 1) \in Nat /\ Amount(t, 2) \in Nat
        /\ Amount(t, 3) \in Nat
    BY <2>2, AmountsAre
  <2>5. VolMin \in Nat /\ VolMin <= Lots /\ Lots \in Nat
    BY Constants
  <2>6. CASE t \in DOMAIN trades
    <3>1. Managed(t, trades[t])
      BY <2>2, <2>6 DEF OnLadder
    <3>2. past[t].moves <= 2
      BY <2>3, <3>1 DEF Managed, Sends, Marks
    <3>3. book[t].vol >= VolMin
      BY <2>3, <2>4, <2>5, <3>1 DEF Managed
    <3>4. QED
      BY <3>2, <3>3
  <2>7. CASE Fresh(t)
    BY <2>5, <2>7 DEF Fresh
  <2>8. CASE Leaving(t)
    <3>1. \A k \in Parts : Amount(t, k) = 0 \/ Amount(t, k) >= VolMin
      BY <2>8 DEF Leaving, Amount
    <3>2. Amount(t, 1) > 0 \/ Amount(t, 2) > 0 \/ Amount(t, 3) > 0
      BY <2>3, <2>4, <2>8 DEF Leaving, Due4
    <3>3. 1 \in Parts /\ 2 \in Parts /\ 3 \in Parts
      BY DEF Parts
    <3>4. Due4(t) >= VolMin
      BY <2>4, <2>5, <3>1, <3>2, <3>3 DEF Due4
    <3>5. QED
      BY <2>3, <2>8, <3>4 DEF Leaving
  <2>9. QED
    BY <2>2, <2>6, <2>7, <2>8 DEF OnLadder
<1>2. QED
  BY <1>1, Invariance, PTL

(* exits.py, LadderExitManager: no stop leaves its place and no volume      *)
(* comes off before the entry bar or one since has closed as far beyond the *)
(* fill as the stage or the first rung asks; for a stop, where a cold cache *)
(* shows the fill at once, the bar before the entry may have.               *)
THEOREM Deserved == Spec => []Earned
<1>1. Inv => Earned
  <2>1. SUFFICES ASSUME Inv, Untroubled, NEW t \in Tks
                 PROVE  /\ past[t].moves > 0 =>
                             MaxOf(past[t].best, past[t].lead) >= Stage1R * past[t].d
                        /\ book[t].vol < Lots => past[t].best >= Rung1R * past[t].d
    BY DEF Earned
  <2>2. TypeOK /\ EarnedAll(t)
    BY <2>1 DEF Inv, LadderInv, OnLadder
  <2>3. /\ past[t].moves \in Nat /\ past[t].best \in Int /\ past[t].lead \in Int
        /\ past[t].d \in Nat
    BY <2>2 DEF TypeOK, BookOK, Snapshot, PastOK, History, Distances, Tks
  <2>4. past[t].moves > 0 => Sends(t) > 0
    BY <2>3 DEF Sends
  <2>5. Stage1R * past[t].d \in Nat
    BY <2>3, Constants, Multiples
  <2>6. past[t].moves > 0 =>
          past[t].best >= Stage1R * past[t].d \/ past[t].lead >= Stage1R * past[t].d
    BY <2>2, <2>4 DEF EarnedAll, Risk
  <2>7. past[t].moves > 0 => MaxOf(past[t].best, past[t].lead) >= Stage1R * past[t].d
    BY <2>3, <2>5, <2>6 DEF MaxOf
  <2>8. QED
    BY <2>2, <2>7 DEF EarnedAll, Risk
<1>2. QED
  BY <1>1, Invariance, PTL

(* exits.py: stop changes are "both tighten-only" at the server, whichever  *)
(* call fails, whatever the snapshot was and over a restart, as long as     *)
(* only one of these happens.                                               *)
THEOREM StopsOnlyTighten == Spec => OnlyTightens
<1> DEFINE Tighter ==
             troubles' <= 1 =>
               \A t \in Tks \cap DOMAIN book' :
                 IF book[t].dir = "LONG" THEN book'[t].sl >= book[t].sl
                                         ELSE book'[t].sl <= book[t].sl
<1>1. Inv /\ [Next]_vars => [Tighter]_vars
  <2>1. SUFFICES ASSUME Inv, [Next]_vars, troubles' <= 1, NEW t \in Tks, t \in DOMAIN book'
                 PROVE  IF book[t].dir = "LONG" THEN book'[t].sl >= book[t].sl
                                                ELSE book'[t].sl <= book[t].sl
    OBVIOUS
  <2>2. /\ TypeOK /\ t \in Tks \cap Tks'
    BY <2>1 DEF Inv, Tks
  <2>3. book[t].sl \in Int /\ book[t].open \in Int
    BY <2>2 DEF TypeOK, BookOK, Snapshot, Position, Tks
  <2>4. CASE ~ActNext \/ pc # "act"
    <3>1. book'[t] = book[t]
      <4>1. CASE pc # "act"
        BY <2>1, <2>2, <4>1, BookKeeps
      <4>2. CASE ~ActNext /\ pc = "act"
        BY <2>1, <2>2, <4>2
        DEF Next, NextBar, Bar, Enter, SkipEntry, Sit, Sync, RefreshRead, RefreshStore,
            ServerClose, Restart, vars, Drop, Tks
      <4>3. QED
        BY <2>4, <4>1, <4>2
    <3>2. QED
      BY <2>3, <3>1
  <2>5. CASE ActNext /\ pc = "act"
    <3>1. PICK u \in Tickets, k \in Steps :
            /\ <<u, k>> \in DOMAIN acts
            /\ OnlyOf(u)
            /\ \/ Nothing(u) \/ Closed(u, <<u, k>>)
               \/ Reduced(u, <<u, k>>) \/ StopSet(u, <<u, k>>)
      BY <2>2, <2>5, ActIs
    <3>2. CASE t # u \/ ~StopSet(u, <<u, k>>)
      <4>1. book'[t].sl = book[t].sl
        BY <2>2, <3>1, <3>2 DEF OnlyOf, Nothing, Closed, Reduced
      <4>2. QED
        BY <2>3, <4>1
    <3>3. CASE t = u /\ StopSet(u, <<u, k>>)
      <4>1. k = 4 /\ book'[t].sl = acts[<<t, 4>>] /\ <<t, 4>> \in DOMAIN acts
        BY <3>1, <3>3 DEF StopSet
      <4>2. troubles <= 1
        BY <2>1, <2>2, BookKeeps
      <4>3. GainAt(book[t], book'[t].sl) > GainAt(book[t], book[t].sl)
        BY <2>1, <2>5, <4>1, <4>2 DEF Inv, StopInv, Lock
      <4>4. book'[t].sl \in Int
        BY <2>2, <4>1 DEF TypeOK, ActsOK
      <4>5. QED
        BY <2>3, <4>3, <4>4 DEF GainAt
    <3>4. QED
      BY <3>2, <3>3
  <2>6. QED
    BY <2>4, <2>5
<1>2. QED
  BY <1>1, Invariance, PTL DEF Spec, OnlyTightens
=============================================================================
