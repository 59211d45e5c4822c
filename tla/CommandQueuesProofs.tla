------------------------ MODULE CommandQueuesProofs ------------------------
(* Theorems about CommandQueues: for every length of the queues, every limit *)
(* of bytes and every set of lengths, the counters keep their bounds, the    *)
(* count of answers never runs ahead of the queue, and no queued answer is   *)
(* forgotten.  What a task has left to do is a part of a few programs; the   *)
(* proof uses only the order in which their steps can come.                  *)
EXTENDS CommandQueues, SequenceTheorems, TLAPS

-----------------------------------------------------------------------------
(* The shape of what a task has left to do.                                  *)

Index == {"sendIndex", "receiveIndex"}

Moves == {"load", "store"}

\* The steps a task can have left.
StepOf(t) ==
  [op : {"check", "queue"}, len : Lens]
  \cup [op : Moves, of : {"sendIndex"}, by : {1}]
  \cup [op : Moves, of : {"currentQueueBytes"}, by : Int]
  \cup [op : {"posted"}]
  \cup IF t = "app" THEN [op : Moves, of : Index, by : {-1}]
                         \cup [op : {"read", "take", "drain"}]
                    ELSE [op : {"admit", "accept"}, len : Lens]
                         \cup [op : Moves, of : {"receiveIndex"}, by : {1}]
                         \cup [op : {"accepted"}]

\* The place of a step in the longest program it can be part of.
Rank(s) == IF s.op \in {"check", "admit"} THEN 1
      ELSE IF s.op \in {"queue", "accept"} THEN 2
      ELSE IF s.op \in {"posted", "accepted"} THEN 7
      ELSE IF s.op \in {"read", "take"} THEN 8
      ELSE IF s.op = "drain" THEN 12
      ELSE (IF s.by > 0 THEN 3 ELSE 8)
           + (IF s.of = "currentQueueBytes" THEN 2 ELSE 0)
           + (IF s.op = "store" THEN 1 ELSE 0)

LoadOf(s) == [op |-> "load", of |-> s.of, by |-> s.by]

StoreOf(s) == [op |-> "store", of |-> s.of, by |-> s.by]

\* A part of something a task does, from some step of it to its end.
Program(t, p) ==
  /\ p \in Seq(StepOf(t))
  /\ \A i, j \in 1..Len(p) : Rank(p[j]) - Rank(p[i]) = j - i
  /\ p # <<>> => Rank(p[Len(p)]) >= 7
  /\ \A i \in 1..Len(p) :
       /\ p[i].op = "load" => i + 1 <= Len(p) /\ p[i + 1] = StoreOf(p[i])
       /\ p[i].op = "store" /\ i > 1 => p[i - 1] = LoadOf(p[i])
       /\ p[i].op = "queue" => i + 1 <= Len(p) /\ p[i + 1] = Change("sendIndex", 1)[1]
       /\ p[i].op = "accept" => i + 1 <= Len(p) /\ p[i + 1] = Change("receiveIndex", 1)[1]
       /\ p[i].op \in {"read", "take", "drain", "accepted"} => i = Len(p)
       /\ p[i].op \in Moves /\ p[i].of = "sendIndex" /\ p[i].by = -1 =>
            p[Len(p)].op = "drain"

\* The program p has a step of this change of counter c.
Has(p, c, k) ==
  \E i \in 1..Len(p) : p[i].op \in Moves /\ p[i].of = c /\ p[i].by = k

\* The program p has changed a queue and not the counter c beside it.
Uncounted(p, c) == Has(p, c, 1) /\ Rank(p[1]) > 2

HasDrain(p) == \E i \in 1..Len(p) : p[i].op = "drain"

Ops == {"check", "queue", "admit", "accept", "load", "store", "posted",
        "accepted", "read", "take", "drain"}

\* What the rank says of a step.
LEMMA StepKinds ==
  ASSUME NEW t \in Task, NEW s \in StepOf(t)
  PROVE  /\ s.op \in Ops /\ Rank(s) \in 1..12
         /\ Rank(s) = 1 <=> s.op \in {"check", "admit"}
         /\ Rank(s) = 2 <=> s.op \in {"queue", "accept"}
         /\ Rank(s) = 7 <=> s.op \in {"posted", "accepted"}
         /\ s.op \in {"read", "take"} => Rank(s) = 8
         /\ Rank(s) = 12 <=> s.op = "drain"
         /\ s.op \in Moves =>
              /\ s.of \in Counters /\ s.by \in Int
              /\ s.of \in Index => s.by \in {1, -1}
              /\ s.of \in Index /\ s.by = 1 => Rank(s) = IF s.op = "load" THEN 3 ELSE 4
              /\ s.of \in Index /\ s.by = -1 => Rank(s) = IF s.op = "load" THEN 8 ELSE 9
              /\ s.of = "currentQueueBytes" => Rank(s) \in {5, 6, 10, 11}
              /\ s.op = "load" => s = LoadOf(s)
              /\ s.op = "store" => s = StoreOf(s)
         /\ t = "ot" /\ s.op \in Moves /\ s.of \in Index => s.by = 1
         /\ t = "ot" => s.op \notin {"read", "take", "drain"}
         /\ t = "app" => s.op \notin {"admit", "accept", "accepted"}
         /\ t = "app" /\ s.op \in Moves /\ s.by = 1 => s.of # "receiveIndex"
         /\ s.op \in {"check", "queue", "admit", "accept"} => s.len \in Lens
<1>1. CASE s \in [op : {"check", "queue"}, len : Lens]
  BY <1>1 DEF Rank, Ops, Moves
<1>2. CASE s \in [op : Moves, of : {"sendIndex"}, by : {1}]
  BY <1>2 DEF Rank, Ops, Moves, Index, Counters, LoadOf, StoreOf
<1>3. CASE s \in [op : Moves, of : {"currentQueueBytes"}, by : Int]
  BY <1>3 DEF Rank, Ops, Moves, Index, Counters, LoadOf, StoreOf
<1>4. CASE s \in [op : {"posted"}]
  BY <1>4 DEF Rank, Ops, Moves
<1>5. CASE t = "app" /\ s \in [op : Moves, of : Index, by : {-1}]
  BY <1>5 DEF Rank, Ops, Moves, Index, Counters, LoadOf, StoreOf
<1>6. CASE t = "app" /\ s \in [op : {"read", "take", "drain"}]
  BY <1>6 DEF Rank, Ops, Moves
<1>7. CASE t = "ot" /\ s \in [op : {"admit", "accept"}, len : Lens]
  BY <1>7 DEF Rank, Ops, Moves
<1>8. CASE t = "ot" /\ s \in [op : Moves, of : {"receiveIndex"}, by : {1}]
  BY <1>8 DEF Rank, Ops, Moves, Index, Counters, LoadOf, StoreOf
<1>9. CASE t = "ot" /\ s \in [op : {"accepted"}]
  BY <1>9 DEF Rank, Ops, Moves
<1> QED
  BY <1>1, <1>2, <1>3, <1>4, <1>5, <1>6, <1>7, <1>8, <1>9 DEF StepOf, Task

-----------------------------------------------------------------------------
(* A program after its first steps.                                          *)

\* What is left of the program p after n steps.
Rest(p, n) == SubSeq(p, n + 1, Len(p))

\* Dropping steps leaves the others in their order.
LEMMA RestProperties ==
  ASSUME NEW S, NEW p \in Seq(S), NEW n \in 1..Len(p)
  PROVE  /\ Rest(p, n) \in Seq(S) /\ Len(Rest(p, n)) = Len(p) - n
         /\ \A i \in 1..(Len(p) - n) : Rest(p, n)[i] = p[i + n]
<1>1. Len(p) \in Nat
  BY LenProperties
<1>2. \A i \in (n + 1)..Len(p) : p[i] \in S
  BY <1>1, ElementOfSeq
<1> QED
  BY <1>1, <1>2, SubSeqProperties DEF Rest

\* What remains of a program is one.
LEMMA RestIsProgram ==
  ASSUME NEW t \in Task, NEW p, Program(t, p), NEW n \in 1..Len(p)
  PROVE  Program(t, Rest(p, n))
<1> DEFINE q == Rest(p, n)
<1>1. p \in Seq(StepOf(t))
  BY DEF Program
<1>2. q \in Seq(StepOf(t)) /\ Len(q) = Len(p) - n
      /\ \A i \in 1..Len(q) : q[i] = p[i + n]
  BY <1>1, RestProperties
<1>3. Len(p) \in Nat /\ Len(q) \in Nat
  BY <1>1, <1>2, LenProperties
<1> HIDE DEF q
<1>4. \A i, j \in 1..Len(q) : Rank(q[j]) - Rank(q[i]) = j - i
  <2> SUFFICES ASSUME NEW i \in 1..Len(q), NEW j \in 1..Len(q)
               PROVE  Rank(q[j]) - Rank(q[i]) = j - i
    OBVIOUS
  <2>1. i + n \in 1..Len(p) /\ j + n \in 1..Len(p)
    BY <1>2, <1>3
  <2>2. Rank(p[j + n]) - Rank(p[i + n]) = (j + n) - (i + n)
    BY <2>1 DEF Program
  <2>3. q[i] = p[i + n] /\ q[j] = p[j + n]
    BY <1>2
  <2>4. (j + n) - (i + n) = j - i
    BY <1>3
  <2> QED
    BY <2>2, <2>3, <2>4
<1>5. q # <<>> => q[Len(q)] = p[Len(p)] /\ p # <<>>
  BY <1>1, <1>2, <1>3, EmptySeq
<1>6. q # <<>> => Rank(q[Len(q)]) >= 7
  BY <1>5 DEF Program
<1>7. ASSUME NEW i \in 1..Len(q)
      PROVE  /\ q[i].op = "load" => i + 1 <= Len(q) /\ q[i + 1] = StoreOf(q[i])
             /\ q[i].op = "store" /\ i > 1 => q[i - 1] = LoadOf(q[i])
             /\ q[i].op = "queue" => i + 1 <= Len(q) /\ q[i + 1] = Change("sendIndex", 1)[1]
             /\ q[i].op = "accept" => i + 1 <= Len(q) /\ q[i + 1] = Change("receiveIndex", 1)[1]
             /\ q[i].op \in {"read", "take", "drain", "accepted"} => i = Len(q)
             /\ q[i].op \in Moves /\ q[i].of = "sendIndex" /\ q[i].by = -1 =>
                  q[Len(q)].op = "drain"
  <2>1. i + n \in 1..Len(p) /\ q[i] = p[i + n]
    BY <1>2, <1>3
  <2>2. i + 1 <= Len(q) => q[i + 1] = p[i + n + 1]
    BY <1>2, <1>3
  <2>3. i > 1 => q[i - 1] = p[i + n - 1]
    BY <1>2, <1>3
  <2>4. q[Len(q)] = p[Len(p)]
    BY <1>2, <1>3
  <2> QED
    BY <1>2, <1>3, <2>1, <2>2, <2>3, <2>4 DEF Program
<1> QED
  BY <1>2, <1>4, <1>6, <1>7 DEF Program, q

\* The steps of a program that its first step tells.
LEMMA FirstStep ==
  ASSUME NEW t \in Task, NEW p, Program(t, p), p # <<>>
  PROVE  /\ Len(p) \in Nat \ {0} /\ Head(p) = p[1]
         /\ \A i \in 1..Len(p) : p[i] \in StepOf(t) /\ Rank(p[i]) = Rank(p[1]) + i - 1
         /\ Rank(p[1]) <= 2 => Len(p) >= 8 - Rank(p[1])
<1>1. p \in Seq(StepOf(t))
  BY DEF Program
<1>2. Len(p) \in Nat \ {0} /\ Head(p) = p[1] /\ \A i \in 1..Len(p) : p[i] \in StepOf(t)
  BY <1>1, EmptySeq, LenProperties, ElementOfSeq, HeadTailProperties
<1>3. 1 \in 1..Len(p) /\ Len(p) \in 1..Len(p)
  BY <1>2
<1>4. ASSUME NEW i \in 1..Len(p)
      PROVE  Rank(p[i]) = Rank(p[1]) + i - 1
  <2>1. Rank(p[i]) - Rank(p[1]) = i - 1
    BY <1>3 DEF Program
  <2>2. Rank(p[i]) \in 1..12 /\ Rank(p[1]) \in 1..12
    BY <1>2, <1>3, StepKinds
  <2>3. i \in Int
    BY <1>2
  <2>4. \A a, b, k \in Int : a - b = k - 1 => a = b + k - 1
    OBVIOUS
  <2>5. Rank(p[i]) \in Int /\ Rank(p[1]) \in Int
    BY <2>2
  <2> QED
    BY <2>1, <2>3, <2>4, <2>5
<1>5. Rank(p[Len(p)]) >= 7 /\ Rank(p[1]) \in 1..12
  BY <1>2, <1>3, StepKinds DEF Program
<1>6. Rank(p[1]) <= 2 => Len(p) >= 8 - Rank(p[1])
  BY <1>2, <1>3, <1>4, <1>5
<1> QED
  BY <1>2, <1>4, <1>6

\* The change by 1 of an index is at the places 3 and 4, that by -1 at 8 and 9.
LEMMA PlaceOfChange ==
  ASSUME NEW t \in Task, NEW p, Program(t, p), NEW c \in Index
  PROVE  /\ Has(p, c, 1) => p # <<>> /\ Rank(p[1]) <= 4
         /\ Uncounted(p, c) => Rank(p[1]) \in {3, 4}
         /\ p # <<>> /\ Rank(p[1]) > 9 => ~Has(p, c, -1)
<1>1. p # <<>> =>
        /\ Len(p) \in Nat \ {0} /\ Rank(p[1]) \in 1..12
        /\ \A i \in 1..Len(p) : p[i] \in StepOf(t) /\ Rank(p[i]) = Rank(p[1]) + i - 1
  BY FirstStep, StepKinds
<1>2. p = <<>> => Len(p) = 0
  OBVIOUS
<1>3. ASSUME Has(p, c, 1)
      PROVE  p # <<>> /\ Rank(p[1]) <= 4
  <2>1. PICK i \in 1..Len(p) : p[i].op \in Moves /\ p[i].of = c /\ p[i].by = 1
    BY <1>3 DEF Has
  <2>2. p # <<>>
    BY <1>2, <2>1
  <2>3. Rank(p[i]) \in {3, 4}
    BY <1>1, <2>1, <2>2, StepKinds
  <2> QED
    BY <1>1, <2>2, <2>3, SMTT(30)
<1>4. ASSUME p # <<>>, Rank(p[1]) > 9, Has(p, c, -1)
      PROVE  FALSE
  <2>1. PICK i \in 1..Len(p) : p[i].op \in Moves /\ p[i].of = c /\ p[i].by = -1
    BY <1>4 DEF Has
  <2>2. Rank(p[i]) \in {8, 9}
    BY <1>1, <1>4, <2>1, StepKinds
  <2> QED
    BY <1>1, <1>4, <2>2
<1> QED
  BY <1>1, <1>3, <1>4 DEF Uncounted

\* What the first n steps and the rest of a program have, the program has.
LEMMA RestHas ==
  ASSUME NEW t \in Task, NEW p, Program(t, p), NEW n \in 1..Len(p)
  PROVE  /\ \A c \in Index, k \in {1, -1} :
              Has(p, c, k) <=>
                \/ Has(Rest(p, n), c, k)
                \/ \E i \in 1..n : p[i].op \in Moves /\ p[i].of = c /\ p[i].by = k
         /\ HasDrain(p) <=> HasDrain(Rest(p, n)) \/ \E i \in 1..n : p[i].op = "drain"
         /\ n < Len(p) => Rest(p, n) # <<>> /\ Rest(p, n)[1] = p[n + 1]
         /\ n = Len(p) => Rest(p, n) = <<>>
<1> DEFINE q == Rest(p, n)
<1>1. p \in Seq(StepOf(t))
  BY DEF Program
<1>2. /\ q \in Seq(StepOf(t)) /\ Len(q) = Len(p) - n
      /\ \A i \in 1..Len(q) : q[i] = p[i + n]
  BY <1>1, RestProperties
<1>3. Len(p) \in Nat /\ Len(q) \in Nat /\ (q = <<>> <=> Len(q) = 0)
  BY <1>1, <1>2, LenProperties, EmptySeq
<1> HIDE DEF q
<1>4. \A i \in 1..Len(p) : i \in 1..n \/ (i - n \in 1..Len(q) /\ q[i - n] = p[i])
  BY <1>2, <1>3
<1>5. \A i \in 1..Len(q) : i + n \in 1..Len(p) /\ q[i] = p[i + n]
  BY <1>2, <1>3
<1>6. \A i \in 1..n : i \in 1..Len(p)
  BY <1>3
<1>7. ASSUME NEW c \in Index, NEW k \in {1, -1}
      PROVE  Has(p, c, k) <=>
               \/ Has(q, c, k)
               \/ \E i \in 1..n : p[i].op \in Moves /\ p[i].of = c /\ p[i].by = k
  BY <1>4, <1>5, <1>6 DEF Has
<1>8. HasDrain(p) <=> HasDrain(q) \/ \E i \in 1..n : p[i].op = "drain"
  BY <1>4, <1>5, <1>6 DEF HasDrain
<1>9. /\ n < Len(p) => q # <<>> /\ q[1] = p[n + 1]
      /\ n = Len(p) => q = <<>>
  BY <1>2, <1>3
<1> QED
  BY <1>7, <1>8, <1>9 DEF q

\* What is left to count is the same in p and q.
SameCounts(p, q) ==
  \A c \in Index : /\ Uncounted(q, c) <=> Uncounted(p, c)
                   /\ Has(q, c, -1) <=> Has(p, c, -1)

\* The facts about the first step that the next lemmas share.
LEMMA RestFacts ==
  ASSUME NEW t \in Task, NEW p, Program(t, p), p # <<>>
  PROVE  /\ Program(t, Rest(p, 1)) /\ p[1] \in StepOf(t) /\ Head(p) = p[1]
         /\ Rank(p[1]) \in 1..12
         /\ \A c \in Index, k \in {1, -1} :
              Has(p, c, k) <=> \/ Has(Rest(p, 1), c, k)
                               \/ p[1].op \in Moves /\ p[1].of = c /\ p[1].by = k
         /\ HasDrain(p) <=> HasDrain(Rest(p, 1)) \/ p[1].op = "drain"
         /\ Rest(p, 1) # <<>> =>
              /\ Head(Rest(p, 1)) = Rest(p, 1)[1] /\ Rest(p, 1)[1] = p[2]
              /\ 2 \in 1..Len(p) /\ Rank(p[2]) = Rank(p[1]) + 1
         /\ Len(p) > 1 => Rest(p, 1) # <<>>
<1>1. Len(p) \in Nat \ {0} /\ 1 \in 1..Len(p)
  BY FirstStep
<1>2. Program(t, Rest(p, 1))
  BY <1>1, RestIsProgram
<1>3. p[1] \in StepOf(t) /\ Head(p) = p[1]
  BY <1>1, FirstStep
<1>4. /\ \A c \in Index, k \in {1, -1} :
           Has(p, c, k) <=>
             \/ Has(Rest(p, 1), c, k)
             \/ \E i \in 1..1 : p[i].op \in Moves /\ p[i].of = c /\ p[i].by = k
      /\ HasDrain(p) <=> HasDrain(Rest(p, 1)) \/ \E i \in 1..1 : p[i].op = "drain"
      /\ 1 < Len(p) => Rest(p, 1) # <<>> /\ Rest(p, 1)[1] = p[2]
      /\ 1 = Len(p) => Rest(p, 1) = <<>>
  BY <1>1, RestHas
<1>5. Rank(p[1]) \in 1..12
  BY <1>3, StepKinds
<1>6. Rest(p, 1) # <<>> => 2 \in 1..Len(p) /\ Head(Rest(p, 1)) = Rest(p, 1)[1]
  <2>1. Rest(p, 1) # <<>> => Head(Rest(p, 1)) = Rest(p, 1)[1]
    BY <1>2, FirstStep
  <2>2. Rest(p, 1) # <<>> => Len(p) # 1
    BY <1>4
  <2>3. Len(p) # 1 => 2 \in 1..Len(p)
    <3>1. \A n \in Nat \ {0} : n # 1 => 2 \in 1..n
      OBVIOUS
    <3> QED
      BY <1>1, <3>1, Zenon
  <2> QED
    BY <2>1, <2>2, <2>3, Zenon
<1>7. Rest(p, 1) # <<>> => Rank(p[2]) = Rank(p[1]) + 1
  <2>1. SUFFICES ASSUME 2 \in 1..Len(p) PROVE Rank(p[2]) = Rank(p[1]) + 1
    BY <1>6
  <2>2. Rank(p[2]) = Rank(p[1]) + 2 - 1
    BY <2>1, FirstStep
  <2> QED
    BY <1>5, <2>2
<1>8. 1..1 = {1}
  OBVIOUS
<1> QED
  BY <1>1, <1>2, <1>3, <1>4, <1>5, <1>6, <1>7, <1>8

\* A step that touches no queue and stores no counter.
LEMMA QuietStep ==
  ASSUME NEW t \in Task, NEW p, Program(t, p), p # <<>>,
         p[1].op \notin {"store", "queue", "accept"}
  PROVE  /\ SameCounts(p, Rest(p, 1))
         /\ p[1].op # "drain" => (HasDrain(Rest(p, 1)) <=> HasDrain(p))
<1> DEFINE q == Rest(p, 1)
<1>1. /\ Program(t, q) /\ p[1] \in StepOf(t) /\ Rank(p[1]) \in 1..12
      /\ \A c \in Index, k \in {1, -1} :
           Has(p, c, k) <=> \/ Has(q, c, k)
                            \/ p[1].op \in Moves /\ p[1].of = c /\ p[1].by = k
      /\ q # <<>> => q[1] = p[2] /\ Rank(p[2]) = Rank(p[1]) + 1
  BY RestFacts
<1>2. p[1].op # "drain" => (HasDrain(q) <=> HasDrain(p))
  BY RestFacts
<1> HIDE DEF q
<1>3. \A c \in Index : Has(q, c, 1) => q # <<>>
  BY <1>1, PlaceOfChange
<1>4. CASE p[1].op = "load"
  <2>1. Len(p) > 1 /\ p[2] = StoreOf(p[1])
    BY <1>4, FirstStep DEF Program
  <2>2. q # <<>> /\ q[1] = p[2] /\ q[1].op = "store" /\ q[1].of = p[1].of /\ q[1].by = p[1].by
    BY <1>1, <2>1, RestFacts DEF q, StoreOf
  <2>3. Len(q) \in Nat \ {0}
    BY <1>1, <2>2, FirstStep
  <2>4. \A c \in Index, k \in {1, -1} : p[1].of = c /\ p[1].by = k => Has(q, c, k)
    BY <2>2, <2>3 DEF Has, Moves
  <2>5. \A c \in Index, k \in {1, -1} : Has(p, c, k) <=> Has(q, c, k)
    BY <1>1, <2>4
  <2>6. Rank(p[1]) > 2
    BY <1>1, <1>4, StepKinds
  <2>7. Rank(q[1]) > 2
    BY <1>1, <2>2, <2>6
  <2> QED
    BY <1>2, <2>5, <2>6, <2>7 DEF SameCounts, Uncounted, q
<1>5. CASE p[1].op # "load"
  <2>1. p[1].op \notin Moves
    BY <1>5 DEF Moves
  <2>2. \A c \in Index, k \in {1, -1} : Has(p, c, k) <=> Has(q, c, k)
    BY <1>1, <2>1
  <2>3. Rank(p[1]) = 1 \/ Rank(p[1]) >= 7
    BY <1>1, <1>5, StepKinds DEF Ops
  <2>4. ASSUME NEW c \in Index
        PROVE  ~Uncounted(p, c) /\ ~Uncounted(q, c)
    <3>1. Rank(p[1]) \notin {3, 4} /\ Rank(p[1]) + 1 \notin {3, 4}
      BY <1>1, <2>3
    <3> QED
      BY <1>1, <1>3, <3>1, PlaceOfChange DEF Uncounted
  <2> QED
    BY <1>2, <2>2, <2>4 DEF SameCounts, q
<1> QED
  BY <1>4, <1>5

\* The counter beside the queue of a step that puts something into it.
Beside(s) == IF s.op = "queue" THEN "sendIndex" ELSE "receiveIndex"

\* A step that puts something into a queue: it is not counted yet.
LEMMA QueueStep ==
  ASSUME NEW t \in Task, NEW p, Program(t, p), p # <<>>,
         p[1].op \in {"queue", "accept"}
  PROVE  LET q == Rest(p, 1) IN
         /\ \A c \in Index : ~Uncounted(p, c) /\ (Has(q, c, -1) <=> Has(p, c, -1))
         /\ \A c \in Index : Uncounted(q, c) <=> c = Beside(p[1])
         /\ HasDrain(q) <=> HasDrain(p)
<1> DEFINE q == Rest(p, 1)
           b == Beside(p[1])
<1>1. /\ Program(t, q) /\ p[1] \in StepOf(t)
      /\ \A c \in Index, k \in {1, -1} :
           Has(p, c, k) <=> \/ Has(q, c, k)
                            \/ p[1].op \in Moves /\ p[1].of = c /\ p[1].by = k
      /\ q # <<>> => q[1] = p[2] /\ Rank(p[2]) = Rank(p[1]) + 1
      /\ Len(p) > 1 => q # <<>>
  BY RestFacts
<1>2. HasDrain(q) <=> HasDrain(p)
  BY RestFacts
<1>3. p[1].op \notin Moves /\ Rank(p[1]) = 2
  BY <1>1, StepKinds DEF Moves
<1>4. Len(p) > 1 /\ p[2] = Change(b, 1)[1]
  BY FirstStep DEF Program, Beside
<1> HIDE DEF q
<1>5. q # <<>> /\ q[1].op = "load" /\ q[1].of = b /\ q[1].by = 1 /\ Rank(q[1]) = 3
  BY <1>1, <1>3, <1>4 DEF Change
<1>6. /\ Len(q) \in Nat \ {0}
      /\ \A i \in 1..Len(q) : q[i] \in StepOf(t) /\ Rank(q[i]) = i + 2
  <2>1. /\ Len(q) \in Nat \ {0}
        /\ \A i \in 1..Len(q) : q[i] \in StepOf(t) /\ Rank(q[i]) = Rank(q[1]) + i - 1
    BY <1>1, <1>5, FirstStep
  <2> QED
    BY <1>5, <2>1
<1>7. 1 < Len(q) /\ q[2] = StoreOf(q[1])
  BY <1>1, <1>5, <1>6 DEF Program
<1>8. b \in Index
  BY DEF Beside, Index
<1>9. ASSUME NEW c \in Index
      PROVE  Uncounted(q, c) <=> c = b
  <2>1. CASE c = b
    BY <1>5, <1>6, <2>1 DEF Uncounted, Has, Moves
  <2>2. CASE c # b
    <3>1. SUFFICES ASSUME NEW i \in 1..Len(q),
                          q[i].op \in Moves, q[i].of = c, q[i].by = 1
                   PROVE  FALSE
      BY <2>2 DEF Uncounted, Has
    <3>2. Rank(q[i]) \in {3, 4}
      BY <1>6, <3>1, StepKinds
    <3>3. i \in {1, 2}
      BY <1>6, <3>2
    <3> QED
      BY <1>5, <1>7, <2>2, <3>1, <3>3 DEF StoreOf
  <2> QED
    BY <2>1, <2>2
<1>10. ASSUME NEW c \in Index
       PROVE  ~Uncounted(p, c) /\ (Has(q, c, -1) <=> Has(p, c, -1))
  BY <1>1, <1>3 DEF Uncounted
<1> QED
  BY <1>2, <1>9, <1>10 DEF q

\* A store of a counter that is not an index changes nothing that is counted.
LEMMA StoreBytesStep ==
  ASSUME NEW t \in Task, NEW p, Program(t, p), p # <<>>,
         p[1].op = "store", p[1].of \notin Index
  PROVE  /\ SameCounts(p, Rest(p, 1))
         /\ HasDrain(Rest(p, 1)) <=> HasDrain(p)
<1> DEFINE q == Rest(p, 1)
<1>1. /\ Program(t, q) /\ p[1] \in StepOf(t)
      /\ \A c \in Index, k \in {1, -1} :
           Has(p, c, k) <=> \/ Has(q, c, k)
                            \/ p[1].op \in Moves /\ p[1].of = c /\ p[1].by = k
      /\ q # <<>> => q[1] = p[2] /\ Rank(p[2]) = Rank(p[1]) + 1
      /\ HasDrain(q) <=> HasDrain(p)
  BY RestFacts
<1> HIDE DEF q
<1>2. \A c \in Index, k \in {1, -1} : Has(p, c, k) <=> Has(q, c, k)
  BY <1>1
<1>3. p[1].of = "currentQueueBytes" /\ Rank(p[1]) \in {5, 6, 10, 11}
  BY <1>1, StepKinds DEF Moves, Counters, Index
<1>4. ASSUME NEW c \in Index
      PROVE  ~Uncounted(p, c) /\ ~Uncounted(q, c)
  BY <1>2, <1>3, PlaceOfChange DEF Uncounted
<1> QED
  BY <1>1, <1>2, <1>4 DEF SameCounts, q

\* The store of an index ends the change of it, and no other.
LEMMA StoreIndexStep ==
  ASSUME NEW t \in Task, NEW p, Program(t, p), p # <<>>,
         p[1].op = "store", p[1].of \in Index
  PROVE  LET q == Rest(p, 1)
             c == p[1].of
         IN  /\ p[1].by \in {1, -1}
             /\ p[1].by = 1 => Uncounted(p, c)
             /\ p[1].by = -1 => Has(p, c, -1)
             /\ p[1].by = -1 => \A d \in Index : ~Uncounted(p, d)
             /\ p[1].by = -1 => ~Has(q, c, -1)
             /\ ~Uncounted(q, c)
             /\ p[1].by = 1 => (Has(q, c, -1) <=> Has(p, c, -1))
             /\ \A d \in Index : d # c =>
                  /\ Uncounted(q, d) <=> Uncounted(p, d)
                  /\ Has(q, d, -1) <=> Has(p, d, -1)
             /\ HasDrain(q) <=> HasDrain(p)
             /\ p[1].by = -1 /\ c = "sendIndex" => HasDrain(p)
<1> DEFINE q == Rest(p, 1)
           c == p[1].of
           k == p[1].by
<1>1. /\ Program(t, q) /\ p[1] \in StepOf(t) /\ Len(p) \in Nat \ {0}
      /\ \A d \in Index, m \in {1, -1} :
           Has(p, d, m) <=> \/ Has(q, d, m)
                            \/ p[1].op \in Moves /\ p[1].of = d /\ p[1].by = m
      /\ q # <<>> => q[1] = p[2] /\ Rank(p[2]) = Rank(p[1]) + 1
      /\ HasDrain(q) <=> HasDrain(p)
  BY RestFacts, FirstStep
<1>2. /\ k \in {1, -1} /\ p[1].op \in Moves
      /\ Rank(p[1]) = IF k = 1 THEN 4 ELSE 9
  BY <1>1, StepKinds DEF Moves
<1>3. \A d \in Index : Has(q, d, 1) => q # <<>> /\ Rank(q[1]) <= 4
  BY <1>1, PlaceOfChange
<1>4. \A d \in Index : q # <<>> /\ Rank(q[1]) > 9 => ~Has(q, d, -1)
  BY <1>1, PlaceOfChange
<1>5. ~(q # <<>> /\ Rank(q[1]) <= 4)
  BY <1>1, <1>2
<1>6. \A d \in Index : ~Has(q, d, 1)
  BY <1>3, <1>5
<1>7. \A d \in Index : ~Uncounted(q, d)
  BY <1>6 DEF Uncounted
<1>8. \A d \in Index : d # c => (~Uncounted(p, d)) /\ (Has(q, d, -1) <=> Has(p, d, -1))
  BY <1>1, <1>2, <1>6 DEF Uncounted
<1>9. CASE k = 1
  <2>1. Uncounted(p, c) /\ (Has(q, c, -1) <=> Has(p, c, -1))
    BY <1>1, <1>2, <1>9 DEF Uncounted
  <2> QED
    BY <1>1, <1>2, <1>7, <1>8, <1>9, <2>1
<1>10. CASE k = -1
  <2>1. Has(p, c, -1)
    BY <1>1, <1>2, <1>10
  <2>2. ~Has(q, c, -1)
    <3>1. CASE q = <<>>
      BY <3>1 DEF Has
    <3>2. CASE q # <<>>
      BY <1>1, <1>2, <1>4, <1>10, <3>2
    <3> QED
      BY <3>1, <3>2
  <2>3. \A d \in Index : ~Uncounted(p, d)
    BY <1>1, <1>2, <1>6, <1>10 DEF Uncounted
  <2>4. c = "sendIndex" => HasDrain(p)
    <3>1. 1 \in 1..Len(p) /\ Len(p) \in 1..Len(p)
      BY <1>1
    <3> QED
      BY <1>2, <1>10, <3>1 DEF Program, HasDrain
  <2> QED
    BY <1>1, <1>2, <1>7, <1>8, <1>10, <2>1, <2>2, <2>3, <2>4
<1> QED
  BY <1>2, <1>9, <1>10

\* A store comes after its load.
LEMMA StoreAfterLoad ==
  ASSUME NEW t \in Task, NEW p, Program(t, p), p # <<>>,
         Rest(p, 1) # <<>>, Head(Rest(p, 1)).op = "store"
  PROVE  p[1].op = "load" /\ p[1].of = Head(Rest(p, 1)).of
<1>1. Head(Rest(p, 1)) = p[2] /\ 2 \in 1..Len(p)
  BY RestFacts
<1>2. p[2 - 1] = LoadOf(p[2])
  BY <1>1 DEF Program
<1> QED
  BY <1>1, <1>2 DEF LoadOf

\* Giving up what is left of send_queue or receive_queue.
LEMMA Jump ==
  ASSUME NEW t \in Task, NEW p, Program(t, p), p # <<>>, NEW n \in {6, 7},
         Rank(p[1]) + n = 8
  PROVE  /\ Program(t, Rest(p, n)) /\ SameCounts(p, Rest(p, n))
         /\ HasDrain(Rest(p, n)) <=> HasDrain(p)
         /\ Rest(p, n) # <<>> => Head(Rest(p, n)).op # "store"
<1> DEFINE q == Rest(p, n)
<1>1. /\ Len(p) \in Nat \ {0} /\ Rank(p[1]) = 8 - n
      /\ \A i \in 1..Len(p) : p[i] \in StepOf(t) /\ Rank(p[i]) = Rank(p[1]) + i - 1
      /\ Rank(p[1]) <= 2 => Len(p) >= 8 - Rank(p[1])
  <2>1. Len(p) \in Nat \ {0} /\ p[1] \in StepOf(t)
    BY FirstStep
  <2>2. Rank(p[1]) \in 1..12
    BY <2>1, StepKinds
  <2> QED
    BY <2>2, FirstStep
<1>2. n \in 1..Len(p)
  BY <1>1
<1>3. \A i \in 1..Len(p) : p[i] \in StepOf(t) /\ Rank(p[i]) = 7 - n + i
  BY <1>1
<1>4. Program(t, q)
  BY <1>2, RestIsProgram
<1>5. /\ \A c \in Index, k \in {1, -1} :
           Has(p, c, k) <=>
             \/ Has(q, c, k)
             \/ \E i \in 1..n : p[i].op \in Moves /\ p[i].of = c /\ p[i].by = k
      /\ HasDrain(p) <=> HasDrain(q) \/ \E i \in 1..n : p[i].op = "drain"
      /\ n < Len(p) => q # <<>> /\ q[1] = p[n + 1]
      /\ n = Len(p) => q = <<>>
  BY <1>2, RestHas
<1> HIDE DEF q
<1>6. \A i \in 1..n : i \in 1..Len(p) /\ Rank(p[i]) <= 7
  BY <1>1, <1>2, <1>3
<1>7. ASSUME NEW i \in 1..n
      PROVE  /\ p[i].op # "drain"
             /\ \A c \in Index : ~(p[i].op \in Moves /\ p[i].of = c /\ p[i].by = -1)
  BY <1>3, <1>6, StepKinds
<1>8. q # <<>> => n + 1 \in 1..Len(p) /\ q[1] = p[n + 1] /\ Rank(q[1]) = 8
  <2>1. q # <<>> => n + 1 \in 1..Len(p) /\ q[1] = p[n + 1]
    BY <1>1, <1>2, <1>5
  <2>2. n + 1 \in 1..Len(p) => Rank(p[n + 1]) = 8
    BY <1>3
  <2> QED
    BY <2>1, <2>2
<1>9. ASSUME NEW c \in Index
      PROVE  ~Uncounted(p, c) /\ ~Uncounted(q, c)
  BY <1>1, <1>4, <1>8, PlaceOfChange DEF Uncounted
<1>10. q # <<>> => Head(q).op # "store"
  <2> SUFFICES ASSUME q # <<>>, q[1].op = "store" PROVE FALSE
    BY <1>4, FirstStep
  <2>1. n + 1 \in 1..Len(p) /\ p[n + 1].op = "store"
    BY <1>8
  <2>2. p[n] = LoadOf(p[n + 1])
    <3>1. n + 1 > 1 /\ n + 1 - 1 = n
      OBVIOUS
    <3>2. p[n + 1 - 1] = LoadOf(p[n + 1])
      BY <2>1, <3>1 DEF Program
    <3> QED
      BY <3>1, <3>2
  <2>3. p[n].op = "load"
    BY <2>2 DEF LoadOf
  <2>4. p[n] \in StepOf(t) /\ Rank(p[n]) = 7
    BY <1>2, <1>3
  <2> QED
    BY <2>3, <2>4, StepKinds
<1> QED
  BY <1>4, <1>5, <1>7, <1>9, <1>10 DEF SameCounts, q

-----------------------------------------------------------------------------
(* The programs that tasks begin.                                            *)

\* Of a program that puts nothing into a queue before it takes something out.
Fresh(p) == \A c \in Index : ~Uncounted(p, c)

LEMMA EmptyProgram ==
  ASSUME NEW t \in Task
  PROVE  /\ Program(t, <<>>) /\ Fresh(<<>>) /\ ~HasDrain(<<>>)
         /\ \A c \in Index : ~Has(<<>>, c, -1)
BY EmptySeq DEF Program, Fresh, Uncounted, Has, HasDrain

\* A single step that ends a handler of the application task.
LEMMA LastSteps ==
  ASSUME NEW o \in {"read", "take", "drain"}
  PROVE  LET p == <<[op |-> o]>>
         IN  /\ Program("app", p) /\ Fresh(p) /\ (HasDrain(p) <=> o = "drain")
             /\ p # <<>> /\ Head(p).op # "store"
             /\ \A c \in Index : ~Has(p, c, -1)
<1> DEFINE p == <<[op |-> o]>>
<1>1. Len(p) = 1 /\ p[1] = [op |-> o] /\ p # <<>> /\ Head(p) = p[1]
  OBVIOUS
<1>2. [op |-> o] \in StepOf("app")
  BY DEF StepOf
<1>3. p \in Seq(StepOf("app"))
  BY <1>2
<1>4. p[1].op = o /\ o \notin Moves
  BY <1>1 DEF Moves
<1>5. Rank(p[1]) \in {8, 12} /\ Rank(p[1]) - Rank(p[1]) = 1 - 1
  BY <1>4 DEF Rank
<1> HIDE DEF p
<1>6. \A i \in 1..Len(p) : i = 1
  BY <1>1
<1>7. 1 \in 1..Len(p)
  BY <1>1
<1>8. Program("app", p)
  <2>1. \A i, j \in 1..Len(p) : Rank(p[j]) - Rank(p[i]) = j - i
    BY <1>5, <1>6
  <2>2. Rank(p[Len(p)]) >= 7
    BY <1>1, <1>5
  <2> QED
    BY <1>1, <1>3, <1>4, <1>6, <2>1, <2>2 DEF Program, Moves
<1>9. \A c \in Index, k \in {1, -1} : ~Has(p, c, k)
  BY <1>4, <1>6 DEF Has
<1>10. HasDrain(p) <=> o = "drain"
  BY <1>4, <1>6, <1>7 DEF HasDrain
<1> QED
  BY <1>1, <1>4, <1>8, <1>9, <1>10 DEF p, Fresh, Uncounted, Moves

LEMMA ChangeSteps ==
  ASSUME NEW c, NEW k
  PROVE  LET h == Change(c, k)
         IN  /\ Len(h) = 2 /\ h # <<>>
             /\ h[1] = [op |-> "load", of |-> c, by |-> k] /\ h[1] = LoadOf(h[2])
             /\ h[2] = [op |-> "store", of |-> c, by |-> k] /\ h[2] = StoreOf(h[1])
BY DEF Change, LoadOf, StoreOf

LEMMA ChangeAfter ==
  ASSUME NEW S, NEW s \in Seq(S), NEW c, NEW k,
         [op |-> "load", of |-> c, by |-> k] \in S,
         [op |-> "store", of |-> c, by |-> k] \in S
  PROVE  LET u == s \o Change(c, k)
         IN  /\ u \in Seq(S) /\ Len(u) = Len(s) + 2
             /\ \A i \in 1..Len(s) : u[i] = s[i]
             /\ u[Len(s) + 1] = [op |-> "load", of |-> c, by |-> k]
             /\ u[Len(s) + 2] = [op |-> "store", of |-> c, by |-> k]
<1> DEFINE a == [op |-> "load", of |-> c, by |-> k]
           b == [op |-> "store", of |-> c, by |-> k]
           w == Change(c, k)
           u == s \o w
<1>1. w \in Seq(S) /\ Len(w) = 2 /\ w[1] = a /\ w[2] = b
  BY DEF Change
<1>2. Len(s) \in Nat
  BY LenProperties
<1> HIDE DEF w, a, b
<1>3. /\ u \in Seq(S) /\ Len(u) = Len(s) + Len(w)
      /\ \A i \in 1..(Len(s) + Len(w)) : u[i] = IF i <= Len(s) THEN s[i] ELSE w[i - Len(s)]
  BY <1>1, ConcatProperties
<1> HIDE DEF u
<1>4. u \in Seq(S) /\ Len(u) = Len(s) + 2 /\ \A i \in 1..Len(s) : u[i] = s[i]
  BY <1>1, <1>2, <1>3
<1>5. u[Len(s) + 1] = a /\ u[Len(s) + 2] = b
  BY <1>1, <1>2, <1>3
<1> QED
  BY <1>4, <1>5 DEF u, w, a, b

LEMMA OneMore ==
  ASSUME NEW S, NEW s \in Seq(S), NEW a \in S
  PROVE  LET u == s \o <<a>>
         IN  /\ u \in Seq(S) /\ Len(u) = Len(s) + 1
             /\ \A i \in 1..Len(s) : u[i] = s[i]
             /\ u[Len(s) + 1] = a
<1> DEFINE w == <<a>>
           u == s \o w
<1>1. w \in Seq(S) /\ Len(w) = 1 /\ w[1] = a
  OBVIOUS
<1>2. Len(s) \in Nat
  BY LenProperties
<1> HIDE DEF w
<1>3. /\ u \in Seq(S) /\ Len(u) = Len(s) + Len(w)
      /\ \A i \in 1..(Len(s) + Len(w)) : u[i] = IF i <= Len(s) THEN s[i] ELSE w[i - Len(s)]
  BY <1>1, ConcatProperties
<1> HIDE DEF u
<1>4. u \in Seq(S) /\ Len(u) = Len(s) + 1 /\ \A i \in 1..Len(s) : u[i] = s[i]
  BY <1>1, <1>2, <1>3
<1>5. u[Len(s) + 1] = a
  BY <1>1, <1>2, <1>3
<1> QED
  BY <1>4, <1>5 DEF u, w

\* send_queue step by step.
LEMMA PostSteps ==
  ASSUME NEW t \in Task, NEW l \in Lens
  PROVE  LET p == Post(l)
         IN  /\ p \in Seq(StepOf(t)) /\ Len(p) = 7
             /\ p[1] = [op |-> "check", len |-> l]
             /\ p[2] = [op |-> "queue", len |-> l]
             /\ p[3] = [op |-> "load", of |-> "sendIndex", by |-> 1]
             /\ p[4] = [op |-> "store", of |-> "sendIndex", by |-> 1]
             /\ p[5] = [op |-> "load", of |-> "currentQueueBytes", by |-> l]
             /\ p[6] = [op |-> "store", of |-> "currentQueueBytes", by |-> l]
             /\ p[7] = [op |-> "posted"]
<1>1. l \in Nat \ {0}
  BY QueuesAssumption
<1>2. /\ [op |-> "check", len |-> l] \in StepOf(t)
      /\ [op |-> "queue", len |-> l] \in StepOf(t)
      /\ [op |-> "load", of |-> "sendIndex", by |-> 1] \in StepOf(t)
      /\ [op |-> "store", of |-> "sendIndex", by |-> 1] \in StepOf(t)
      /\ [op |-> "load", of |-> "currentQueueBytes", by |-> l] \in StepOf(t)
      /\ [op |-> "store", of |-> "currentQueueBytes", by |-> l] \in StepOf(t)
      /\ [op |-> "posted"] \in StepOf(t)
  BY <1>1 DEF StepOf, Moves
<1> DEFINE h == <<[op |-> "check", len |-> l], [op |-> "queue", len |-> l]>>
           m == h \o Change("sendIndex", 1)
           n == m \o Change("currentQueueBytes", l)
<1>3. /\ h \in Seq(StepOf(t)) /\ Len(h) = 2
      /\ h[1] = [op |-> "check", len |-> l] /\ h[2] = [op |-> "queue", len |-> l]
  BY <1>2
<1> HIDE DEF h
<1>4. /\ m \in Seq(StepOf(t)) /\ Len(m) = Len(h) + 2
      /\ \A i \in 1..Len(h) : m[i] = h[i]
      /\ m[Len(h) + 1] = [op |-> "load", of |-> "sendIndex", by |-> 1]
      /\ m[Len(h) + 2] = [op |-> "store", of |-> "sendIndex", by |-> 1]
  BY <1>2, <1>3, ChangeAfter
<1> HIDE DEF m
<1>5. /\ n \in Seq(StepOf(t)) /\ Len(n) = Len(m) + 2
      /\ \A i \in 1..Len(m) : n[i] = m[i]
      /\ n[Len(m) + 1] = [op |-> "load", of |-> "currentQueueBytes", by |-> l]
      /\ n[Len(m) + 2] = [op |-> "store", of |-> "currentQueueBytes", by |-> l]
  BY <1>2, <1>4, ChangeAfter
<1> HIDE DEF n
<1>6. /\ n \o <<[op |-> "posted"]>> \in Seq(StepOf(t))
      /\ Len(n \o <<[op |-> "posted"]>>) = Len(n) + 1
      /\ \A i \in 1..Len(n) : (n \o <<[op |-> "posted"]>>)[i] = n[i]
      /\ (n \o <<[op |-> "posted"]>>)[Len(n) + 1] = [op |-> "posted"]
  BY <1>2, <1>5, OneMore
<1>7. Post(l) = n \o <<[op |-> "posted"]>>
  BY DEF Post, h, m, n
<1> QED
  BY <1>3, <1>4, <1>5, <1>6, <1>7

\* A program whose first step is at place 1 or past the changes by 1 is fresh.
LEMMA FreshByRank ==
  ASSUME NEW t \in Task, NEW p, Program(t, p), p # <<>> => Rank(p[1]) \notin {3, 4}
  PROVE  Fresh(p)
BY PlaceOfChange DEF Fresh, Uncounted

\* send_queue alone.
LEMMA PostProgram ==
  ASSUME NEW t \in Task, NEW l \in Lens
  PROVE  LET p == Post(l)
         IN  /\ Program(t, p) /\ Fresh(p) /\ ~HasDrain(p)
             /\ p # <<>> /\ Head(p).op # "store"
             /\ \A c \in Index : ~Has(p, c, -1)
<1> DEFINE p == Post(l)
<1>1. /\ p \in Seq(StepOf(t)) /\ Len(p) = 7
      /\ p[1] = [op |-> "check", len |-> l]
      /\ p[2] = [op |-> "queue", len |-> l]
      /\ p[3] = [op |-> "load", of |-> "sendIndex", by |-> 1]
      /\ p[4] = [op |-> "store", of |-> "sendIndex", by |-> 1]
      /\ p[5] = [op |-> "load", of |-> "currentQueueBytes", by |-> l]
      /\ p[6] = [op |-> "store", of |-> "currentQueueBytes", by |-> l]
      /\ p[7] = [op |-> "posted"]
  BY PostSteps
<1>2. l \in Nat \ {0}
  BY QueuesAssumption
<1> HIDE DEF p
<1>3. \A i \in 1..7 : i \in {1, 2, 3, 4, 5, 6, 7}
  OBVIOUS
<1>4. /\ Rank(p[1]) = 1 /\ Rank(p[2]) = 2 /\ Rank(p[3]) = 3 /\ Rank(p[4]) = 4
      /\ Rank(p[5]) = 5 /\ Rank(p[6]) = 6 /\ Rank(p[7]) = 7
  BY <1>1, <1>2 DEF Rank
<1>5. \A i \in 1..7 : Rank(p[i]) = i
  BY <1>3, <1>4
<1>6. \A i, j \in 1..Len(p) : Rank(p[j]) - Rank(p[i]) = j - i
  BY <1>1, <1>5
<1>7. ASSUME NEW i \in 1..7
      PROVE  /\ p[i].op = "load" => i + 1 <= 7 /\ p[i + 1] = StoreOf(p[i])
             /\ p[i].op = "store" /\ i > 1 => p[i - 1] = LoadOf(p[i])
  BY <1>1, <1>3 DEF StoreOf, LoadOf
<1>8. ASSUME NEW i \in 1..7
      PROVE  /\ p[i].op = "queue" => i + 1 <= 7 /\ p[i + 1] = Change("sendIndex", 1)[1]
             /\ p[i].op \notin {"accept", "read", "take", "drain", "accepted"}
             /\ ~(p[i].op \in Moves /\ p[i].by = -1)
  BY <1>1, <1>2, <1>3 DEF Change, Moves
<1>9. p # <<>>
  <2>1. p = <<>> => Len(p) = 0
    OBVIOUS
  <2> QED
    BY <1>1, <2>1
<1>10. Program(t, p)
  BY <1>1, <1>4, <1>6, <1>7, <1>8 DEF Program
<1>11. Head(p) = p[1]
  BY <1>9, <1>10, FirstStep
<1>12. Fresh(p)
  BY <1>4, <1>10, FreshByRank
<1>13. ~HasDrain(p) /\ \A c \in Index : ~Has(p, c, -1)
  BY <1>1, <1>8 DEF HasDrain, Has
<1> QED
  BY <1>1, <1>9, <1>10, <1>11, <1>12, <1>13 DEF p

\* receive_queue.
LEMMA AdmissionProgram ==
  ASSUME NEW l \in Lens
  PROVE  LET p == Admission(l)
         IN  /\ Program("ot", p) /\ Fresh(p)
             /\ p # <<>> /\ Head(p).op # "store"
             /\ \A c \in Index : ~Has(p, c, -1)
<1>1. l \in Nat \ {0}
  BY QueuesAssumption
<1>2. /\ [op |-> "admit", len |-> l] \in StepOf("ot")
      /\ [op |-> "accept", len |-> l] \in StepOf("ot")
      /\ [op |-> "load", of |-> "receiveIndex", by |-> 1] \in StepOf("ot")
      /\ [op |-> "store", of |-> "receiveIndex", by |-> 1] \in StepOf("ot")
      /\ [op |-> "load", of |-> "currentQueueBytes", by |-> l] \in StepOf("ot")
      /\ [op |-> "store", of |-> "currentQueueBytes", by |-> l] \in StepOf("ot")
      /\ [op |-> "accepted"] \in StepOf("ot")
  BY <1>1 DEF StepOf, Moves
<1> DEFINE h == <<[op |-> "admit", len |-> l], [op |-> "accept", len |-> l]>>
           m == h \o Change("receiveIndex", 1)
           n == m \o Change("currentQueueBytes", l)
           p == n \o <<[op |-> "accepted"]>>
<1>3. /\ h \in Seq(StepOf("ot")) /\ Len(h) = 2
      /\ h[1] = [op |-> "admit", len |-> l] /\ h[2] = [op |-> "accept", len |-> l]
  BY <1>2
<1> HIDE DEF h
<1>4. /\ m \in Seq(StepOf("ot")) /\ Len(m) = Len(h) + 2
      /\ \A i \in 1..Len(h) : m[i] = h[i]
      /\ m[Len(h) + 1] = [op |-> "load", of |-> "receiveIndex", by |-> 1]
      /\ m[Len(h) + 2] = [op |-> "store", of |-> "receiveIndex", by |-> 1]
  BY <1>2, <1>3, ChangeAfter
<1> HIDE DEF m
<1>5. /\ n \in Seq(StepOf("ot")) /\ Len(n) = Len(m) + 2
      /\ \A i \in 1..Len(m) : n[i] = m[i]
      /\ n[Len(m) + 1] = [op |-> "load", of |-> "currentQueueBytes", by |-> l]
      /\ n[Len(m) + 2] = [op |-> "store", of |-> "currentQueueBytes", by |-> l]
  BY <1>2, <1>4, ChangeAfter
<1> HIDE DEF n
<1>6. /\ p \in Seq(StepOf("ot")) /\ Len(p) = Len(n) + 1
      /\ \A i \in 1..Len(n) : p[i] = n[i]
      /\ p[Len(n) + 1] = [op |-> "accepted"]
  BY <1>2, <1>5, OneMore
<1>7. Admission(l) = p
  BY DEF Admission, h, m, n
<1> HIDE DEF p
<1>8. /\ Len(p) = 7
      /\ p[1] = [op |-> "admit", len |-> l]
      /\ p[2] = [op |-> "accept", len |-> l]
      /\ p[3] = [op |-> "load", of |-> "receiveIndex", by |-> 1]
      /\ p[4] = [op |-> "store", of |-> "receiveIndex", by |-> 1]
      /\ p[5] = [op |-> "load", of |-> "currentQueueBytes", by |-> l]
      /\ p[6] = [op |-> "store", of |-> "currentQueueBytes", by |-> l]
      /\ p[7] = [op |-> "accepted"]
  BY <1>3, <1>4, <1>5, <1>6
<1>9. \A i \in 1..7 : i \in {1, 2, 3, 4, 5, 6, 7}
  OBVIOUS
<1>10. /\ Rank(p[1]) = 1 /\ Rank(p[2]) = 2 /\ Rank(p[3]) = 3 /\ Rank(p[4]) = 4
       /\ Rank(p[5]) = 5 /\ Rank(p[6]) = 6 /\ Rank(p[7]) = 7
  BY <1>1, <1>8 DEF Rank
<1>11. \A i \in 1..7 : Rank(p[i]) = i
  BY <1>9, <1>10
<1>12. \A i, j \in 1..Len(p) : Rank(p[j]) - Rank(p[i]) = j - i
  BY <1>8, <1>11
<1>13. ASSUME NEW i \in 1..7
       PROVE  /\ p[i].op = "load" => i + 1 <= 7 /\ p[i + 1] = StoreOf(p[i])
              /\ p[i].op = "store" /\ i > 1 => p[i - 1] = LoadOf(p[i])
  BY <1>8, <1>9 DEF StoreOf, LoadOf
<1>14. ASSUME NEW i \in 1..7
       PROVE  /\ p[i].op = "accept" => i + 1 <= 7 /\ p[i + 1] = Change("receiveIndex", 1)[1]
              /\ p[i].op \notin {"queue", "read", "take", "drain"}
              /\ p[i].op = "accepted" => i = 7
              /\ ~(p[i].op \in Moves /\ p[i].by = -1)
  BY <1>1, <1>8, <1>9 DEF Change, Moves
<1>15. p # <<>>
  BY <1>8
<1>16. Program("ot", p)
  <2>1. p \in Seq(StepOf("ot"))
    BY <1>6
  <2>2. Len(p) = 7 /\ Rank(p[Len(p)]) >= 7
    BY <1>8, <1>10
  <2>3. ASSUME NEW i \in 1..Len(p)
        PROVE  /\ p[i].op = "load" => i + 1 <= Len(p) /\ p[i + 1] = StoreOf(p[i])
               /\ p[i].op = "store" /\ i > 1 => p[i - 1] = LoadOf(p[i])
               /\ p[i].op = "queue" => i + 1 <= Len(p) /\ p[i + 1] = Change("sendIndex", 1)[1]
               /\ p[i].op = "accept" => i + 1 <= Len(p) /\ p[i + 1] = Change("receiveIndex", 1)[1]
               /\ p[i].op \in {"read", "take", "drain", "accepted"} => i = Len(p)
               /\ p[i].op \in Moves /\ p[i].of = "sendIndex" /\ p[i].by = -1 =>
                    p[Len(p)].op = "drain"
    <3>1. i \in 1..7
      BY <2>2
    <3> QED
      BY <2>2, <3>1, <1>13, <1>14
  <2> QED
    BY <1>12, <2>1, <2>2, <2>3 DEF Program
<1>17. Head(p) = p[1]
  BY <1>15, <1>16, FirstStep DEF Task
<1>18. Fresh(p)
  BY <1>10, <1>16, FreshByRank DEF Task
<1>19. \A c \in Index : ~Has(p, c, -1)
  BY <1>8, <1>14 DEF Has
<1> QED
  BY <1>7, <1>8, <1>15, <1>16, <1>17, <1>18, <1>19

\* What taking an entry of length m out of the queue of c leaves to do.
Uncount(c, m) == Change(c, -1) \o Change("currentQueueBytes", -m)

LEMMA UncountSteps ==
  ASSUME NEW c \in Index, NEW m \in Lens
  PROVE  LET p == Uncount(c, m)
         IN  /\ p \in Seq(StepOf("app")) /\ Len(p) = 4
             /\ p[1] = [op |-> "load", of |-> c, by |-> -1]
             /\ p[2] = [op |-> "store", of |-> c, by |-> -1]
             /\ p[3] = [op |-> "load", of |-> "currentQueueBytes", by |-> -m]
             /\ p[4] = [op |-> "store", of |-> "currentQueueBytes", by |-> -m]
             /\ Rank(p[1]) = 8 /\ Rank(p[2]) = 9 /\ Rank(p[3]) = 10 /\ Rank(p[4]) = 11
<1> DEFINE h == Change(c, -1)
           p == h \o Change("currentQueueBytes", -m)
<1>1. m \in Nat \ {0} /\ -m \in Int /\ ~(-m > 0)
  BY QueuesAssumption
<1>2. /\ [op |-> "load", of |-> c, by |-> -1] \in StepOf("app")
      /\ [op |-> "store", of |-> c, by |-> -1] \in StepOf("app")
      /\ [op |-> "load", of |-> "currentQueueBytes", by |-> -m] \in StepOf("app")
      /\ [op |-> "store", of |-> "currentQueueBytes", by |-> -m] \in StepOf("app")
  BY <1>1 DEF StepOf, Moves
<1>3. /\ h \in Seq(StepOf("app")) /\ Len(h) = 2
      /\ h[1] = [op |-> "load", of |-> c, by |-> -1]
      /\ h[2] = [op |-> "store", of |-> c, by |-> -1]
  BY <1>2 DEF Change
<1> DEFINE k == -m
           S == StepOf("app")
<1> HIDE DEF h, k, S
<1>4. /\ h \in Seq(S) /\ Len(h) = 2
      /\ [op |-> "load", of |-> "currentQueueBytes", by |-> k] \in S
      /\ [op |-> "store", of |-> "currentQueueBytes", by |-> k] \in S
  BY <1>2, <1>3 DEF k, S
<1>5. LET u == h \o Change("currentQueueBytes", k)
      IN  /\ u \in Seq(S) /\ Len(u) = Len(h) + 2
          /\ \A i \in 1..Len(h) : u[i] = h[i]
          /\ u[Len(h) + 1] = [op |-> "load", of |-> "currentQueueBytes", by |-> k]
          /\ u[Len(h) + 2] = [op |-> "store", of |-> "currentQueueBytes", by |-> k]
  BY <1>4, ChangeAfter
<1>6. /\ p \in Seq(StepOf("app")) /\ Len(p) = Len(h) + 2
      /\ \A i \in 1..Len(h) : p[i] = h[i]
      /\ p[Len(h) + 1] = [op |-> "load", of |-> "currentQueueBytes", by |-> -m]
      /\ p[Len(h) + 2] = [op |-> "store", of |-> "currentQueueBytes", by |-> -m]
  BY <1>5 DEF k, S
<1>7. Uncount(c, m) = p
  BY DEF Uncount, h
<1> HIDE DEF p
<1>8. /\ p \in Seq(StepOf("app")) /\ Len(p) = 4
      /\ p[1] = [op |-> "load", of |-> c, by |-> -1]
      /\ p[2] = [op |-> "store", of |-> c, by |-> -1]
      /\ p[3] = [op |-> "load", of |-> "currentQueueBytes", by |-> -m]
      /\ p[4] = [op |-> "store", of |-> "currentQueueBytes", by |-> -m]
  BY <1>3, <1>6
<1>9. Rank(p[1]) = 8 /\ Rank(p[2]) = 9 /\ Rank(p[3]) = 10 /\ Rank(p[4]) = 11
  BY <1>1, <1>8 DEF Rank, Index
<1> QED
  BY <1>7, <1>8, <1>9

\* A command is taken: its counter is behind by one until the end.
LEMMA TakenProgram ==
  ASSUME NEW m \in Lens
  PROVE  LET p == Uncount("receiveIndex", m)
         IN  /\ Program("app", p) /\ Fresh(p) /\ ~HasDrain(p)
             /\ p # <<>> /\ Head(p).op = "load" /\ Rank(p[1]) = 8
             /\ \A c \in Index : Has(p, c, -1) <=> c = "receiveIndex"
<1> DEFINE p == Uncount("receiveIndex", m)
<1>1. /\ p \in Seq(StepOf("app")) /\ Len(p) = 4
      /\ p[1] = [op |-> "load", of |-> "receiveIndex", by |-> -1]
      /\ p[2] = [op |-> "store", of |-> "receiveIndex", by |-> -1]
      /\ p[3] = [op |-> "load", of |-> "currentQueueBytes", by |-> -m]
      /\ p[4] = [op |-> "store", of |-> "currentQueueBytes", by |-> -m]
      /\ Rank(p[1]) = 8 /\ Rank(p[2]) = 9 /\ Rank(p[3]) = 10 /\ Rank(p[4]) = 11
  BY UncountSteps DEF Index
<1> HIDE DEF p
<1>2. \A i \in 1..4 : i \in {1, 2, 3, 4}
  OBVIOUS
<1>3. \A i \in 1..4 : Rank(p[i]) = i + 7
  BY <1>1, <1>2
<1>4. \A i, j \in 1..Len(p) : Rank(p[j]) - Rank(p[i]) = j - i
  BY <1>1, <1>3
<1>5. ASSUME NEW i \in 1..4
      PROVE  /\ p[i].op = "load" => i + 1 <= 4 /\ p[i + 1] = StoreOf(p[i])
             /\ p[i].op = "store" /\ i > 1 => p[i - 1] = LoadOf(p[i])
  BY <1>1, <1>2 DEF StoreOf, LoadOf
<1>6. ASSUME NEW i \in 1..4
      PROVE  /\ p[i].op \in Moves /\ p[i].of # "sendIndex"
             /\ p[i].op \notin {"queue", "accept", "read", "take", "drain", "accepted"}
  BY <1>1, <1>2 DEF Moves
<1>7. p # <<>>
  <2>1. p = <<>> => Len(p) = 0
    OBVIOUS
  <2> QED
    BY <1>1, <2>1
<1>8. Program("app", p)
  BY <1>1, <1>4, <1>5, <1>6 DEF Program
<1>9. Head(p) = p[1]
  BY <1>7, <1>8, FirstStep DEF Task
<1>10. Fresh(p)
  BY <1>1, <1>8, FreshByRank DEF Task
<1>11. Has(p, "receiveIndex", -1)
  BY <1>1 DEF Has, Moves
<1>12. ~Has(p, "sendIndex", -1) /\ ~HasDrain(p)
  BY <1>1, <1>6 DEF Has, HasDrain
<1> QED
  BY <1>1, <1>7, <1>8, <1>9, <1>10, <1>11, <1>12 DEF p, Index

\* An answer is taken: afterwards the loop goes on.
LEMMA SendProgram ==
  ASSUME NEW m \in Lens
  PROVE  LET p == SendSteps(m)
         IN  /\ Program("app", p) /\ Fresh(p) /\ HasDrain(p)
             /\ p # <<>> /\ Head(p).op = "load"
             /\ \A c \in Index : Has(p, c, -1) <=> c = "sendIndex"
<1> DEFINE h == Uncount("sendIndex", m)
           p == h \o <<[op |-> "drain"]>>
<1>1. /\ h \in Seq(StepOf("app")) /\ Len(h) = 4
      /\ h[1] = [op |-> "load", of |-> "sendIndex", by |-> -1]
      /\ h[2] = [op |-> "store", of |-> "sendIndex", by |-> -1]
      /\ h[3] = [op |-> "load", of |-> "currentQueueBytes", by |-> -m]
      /\ h[4] = [op |-> "store", of |-> "currentQueueBytes", by |-> -m]
      /\ Rank(h[1]) = 8 /\ Rank(h[2]) = 9 /\ Rank(h[3]) = 10 /\ Rank(h[4]) = 11
  BY UncountSteps DEF Index
<1>2. SendSteps(m) = p
  BY DEF SendSteps, Uncount
<1>3. [op |-> "drain"] \in StepOf("app") /\ Rank([op |-> "drain"]) = 12
  BY DEF StepOf, Rank
<1> HIDE DEF h
<1>4. /\ p \in Seq(StepOf("app")) /\ Len(p) = Len(h) + 1
      /\ \A i \in 1..Len(h) : p[i] = h[i]
      /\ p[Len(h) + 1] = [op |-> "drain"]
  BY <1>1, <1>3, OneMore, ZenonT(30)
<1> HIDE DEF p
<1>5. /\ p \in Seq(StepOf("app")) /\ Len(p) = 5
      /\ p[1] = h[1] /\ p[2] = h[2] /\ p[3] = h[3] /\ p[4] = h[4]
      /\ p[5] = [op |-> "drain"]
  BY <1>1, <1>4
<1>6. \A i \in 1..5 : i \in {1, 2, 3, 4, 5}
  OBVIOUS
<1>7. \A i \in 1..5 : Rank(p[i]) = i + 7
  BY <1>1, <1>3, <1>5, <1>6
<1>8. \A i, j \in 1..Len(p) : Rank(p[j]) - Rank(p[i]) = j - i
  BY <1>5, <1>7
<1>9. ASSUME NEW i \in 1..5
      PROVE  /\ p[i].op = "load" => i + 1 <= 5 /\ p[i + 1] = StoreOf(p[i])
             /\ p[i].op = "store" /\ i > 1 => p[i - 1] = LoadOf(p[i])
  BY <1>1, <1>5, <1>6 DEF StoreOf, LoadOf
<1>10. ASSUME NEW i \in 1..5
       PROVE  /\ p[i].op = "drain" => i = 5
              /\ p[i].op \notin {"queue", "accept", "read", "take", "accepted"}
              /\ p[i].op \in Moves => p[i].of # "receiveIndex"
  BY <1>1, <1>5, <1>6 DEF Moves
<1>11. p # <<>>
  <2>1. p = <<>> => Len(p) = 0
    OBVIOUS
  <2> QED
    BY <1>5, <2>1
<1>12. p[Len(p)].op = "drain" /\ Rank(p[Len(p)]) >= 7
  BY <1>3, <1>5
<1>13. Program("app", p)
  BY <1>5, <1>8, <1>9, <1>10, <1>12 DEF Program
<1>14. Head(p) = p[1]
  BY <1>11, <1>13, FirstStep DEF Task
<1>15. Fresh(p)
  <2>1. Rank(p[1]) = 8
    BY <1>1, <1>5
  <2> QED
    BY <2>1, <1>13, FreshByRank DEF Task
<1>16. Has(p, "sendIndex", -1)
  BY <1>1, <1>5 DEF Has, Moves
<1>17. ~Has(p, "receiveIndex", -1) /\ HasDrain(p)
  BY <1>5, <1>10, <1>12 DEF Has, HasDrain
<1> QED
  BY <1>1, <1>2, <1>5, <1>11, <1>13, <1>14, <1>15, <1>16, <1>17 DEF Index

\* send_queue within a handler of the application task that goes on with b.
LEMMA PostThen ==
  ASSUME NEW l \in Lens, NEW b, Program("app", b), b # <<>>, Rank(b[1]) = 8, Fresh(b)
  PROVE  LET p == Post(l) \o b
         IN  /\ Program("app", p) /\ Fresh(p) /\ (HasDrain(p) <=> HasDrain(b))
             /\ p # <<>> /\ Head(p).op # "store"
             /\ \A c \in Index : Has(p, c, -1) <=> Has(b, c, -1)
<1> DEFINE h == Post(l)
           p == h \o b
<1>1. /\ Program("app", h) /\ ~HasDrain(h)
      /\ \A c \in Index : ~Has(h, c, -1)
  BY PostProgram DEF Task
<1>2. /\ h \in Seq(StepOf("app")) /\ Len(h) = 7 /\ h[1].op = "check" /\ h[7].op = "posted"
  <2>1. /\ h \in Seq(StepOf("app")) /\ Len(h) = 7
        /\ h[1] = [op |-> "check", len |-> l] /\ h[7] = [op |-> "posted"]
    <3>1. "app" \in Task
      BY DEF Task
    <3> QED
      BY <3>1, PostSteps
  <2> HIDE DEF h
  <2> QED
    BY <2>1
<1>3. /\ b \in Seq(StepOf("app")) /\ Len(b) \in Nat \ {0}
      /\ \A i \in 1..Len(b) : b[i] \in StepOf("app") /\ Rank(b[i]) = 7 + i
  <2>1. /\ Len(b) \in Nat \ {0}
        /\ \A i \in 1..Len(b) : b[i] \in StepOf("app") /\ Rank(b[i]) = 8 + i - 1
    BY FirstStep DEF Task
  <2> QED
    BY <2>1 DEF Program
<1>4. \A i \in 1..7 : h[i] \in StepOf("app") /\ Rank(h[i]) = i
  <2>1. h # <<>> /\ 1 \in 1..Len(h)
    BY <1>2, PostProgram DEF Task
  <2>2. \A i \in 1..7 : h[i] \in StepOf("app") /\ Rank(h[i]) = Rank(h[1]) + i - 1
    BY <1>1, <1>2, <2>1, FirstStep DEF Task
  <2>3. Rank(h[1]) = 1
    BY <1>2 DEF Rank
  <2> QED
    BY <2>2, <2>3
<1> HIDE DEF h
<1>5. /\ p \in Seq(StepOf("app")) /\ Len(p) = Len(h) + Len(b)
      /\ \A i \in 1..(Len(h) + Len(b)) : p[i] = IF i <= Len(h) THEN h[i] ELSE b[i - Len(h)]
  BY <1>2, <1>3, ConcatProperties
<1> HIDE DEF p
<1>6. /\ Len(p) = 7 + Len(b) /\ Len(p) \in Nat
      /\ \A i \in 1..7 : i \in 1..Len(p) /\ p[i] = h[i]
      /\ \A i \in 1..Len(b) : i + 7 \in 1..Len(p) /\ p[i + 7] = b[i]
      /\ \A i \in 1..Len(p) : i \in 1..7 \/ (i - 7 \in 1..Len(b) /\ p[i] = b[i - 7])
  <2>1. /\ Len(h) = 7 /\ Len(b) \in Nat /\ Len(p) = 7 + Len(b)
        /\ \A i \in 1..(7 + Len(b)) : p[i] = IF i <= 7 THEN h[i] ELSE b[i - 7]
    BY <1>2, <1>3, <1>5
  <2>2. ASSUME NEW i \in 1..7 PROVE i \in 1..(7 + Len(b)) /\ p[i] = h[i]
    BY <2>1
  <2>3. ASSUME NEW i \in 1..Len(b)
        PROVE  i + 7 \in 1..(7 + Len(b)) /\ p[i + 7] = b[i]
    <3>1. i + 7 \in 1..(7 + Len(b)) /\ ~(i + 7 <= 7) /\ (i + 7) - 7 = i
      BY <2>1
    <3> QED
      BY <2>1, <3>1
  <2>4. ASSUME NEW i \in 1..(7 + Len(b)), i \notin 1..7
        PROVE  i - 7 \in 1..Len(b) /\ p[i] = b[i - 7]
    BY <2>1, <2>4
  <2> QED
    BY <2>1, <2>2, <2>3, <2>4
<1>7. ASSUME NEW i \in 1..Len(p)
      PROVE  Rank(p[i]) = i
  <2>1. CASE i \in 1..7
    BY <1>4, <1>6, <2>1
  <2>2. CASE i - 7 \in 1..Len(b) /\ p[i] = b[i - 7]
    <3>1. Rank(b[i - 7]) = 7 + (i - 7)
      BY <1>3, <2>2
    <3>2. 7 + (i - 7) = i
      BY <1>6
    <3> QED
      BY <2>2, <3>1, <3>2
  <2> QED
    BY <1>6, <2>1, <2>2
<1>8. \A i, j \in 1..Len(p) : Rank(p[j]) - Rank(p[i]) = j - i
  BY <1>6, <1>7
<1>9. p[Len(p)] = b[Len(b)] /\ Rank(p[Len(p)]) >= 7
  BY <1>3, <1>6, <1>7
<1>10. b[1].op # "store"
  BY <1>3, StepKinds DEF Task, Moves, Index, Counters
<1>11. ASSUME NEW i \in 1..Len(p)
       PROVE  /\ p[i].op = "load" => i + 1 <= Len(p) /\ p[i + 1] = StoreOf(p[i])
              /\ p[i].op = "store" /\ i > 1 => p[i - 1] = LoadOf(p[i])
              /\ p[i].op = "queue" => i + 1 <= Len(p) /\ p[i + 1] = Change("sendIndex", 1)[1]
              /\ p[i].op = "accept" => i + 1 <= Len(p) /\ p[i + 1] = Change("receiveIndex", 1)[1]
              /\ p[i].op \in {"read", "take", "drain", "accepted"} => i = Len(p)
              /\ p[i].op \in Moves /\ p[i].of = "sendIndex" /\ p[i].by = -1 =>
                   p[Len(p)].op = "drain"
  <2>1. CASE i \in 1..7
    <3>1. p[i] = h[i] /\ i \in 1..Len(h)
      BY <1>2, <1>6, <2>1
    <3>2. i + 1 <= 7 => p[i + 1] = h[i + 1] /\ i + 1 <= Len(p)
      BY <1>3, <1>6, <2>1
    <3>3. i > 1 => p[i - 1] = h[i - 1]
      BY <1>6, <2>1
    <3>4. p[i].op \notin {"accept", "read", "take", "drain", "accepted"}
      BY <1>4, <2>1, <3>1, StepKinds DEF Task
    <3>5. ~(p[i].op \in Moves /\ p[i].of = "sendIndex" /\ p[i].by = -1)
      BY <1>1, <3>1 DEF Has, Index
    <3> QED
      BY <1>1, <1>2, <3>1, <3>2, <3>3, <3>4, <3>5 DEF Program
  <2>2. CASE i - 7 \in 1..Len(b) /\ p[i] = b[i - 7]
    <3>1. i + 1 <= Len(p) <=> (i - 7) + 1 <= Len(b)
      BY <1>3, <1>6
    <3>2. i + 1 <= Len(p) => p[i + 1] = b[(i - 7) + 1]
      BY <1>3, <1>6, <2>2
    <3>3. i - 7 > 1 => p[i - 1] = b[(i - 7) - 1]
      BY <1>3, <1>6, <2>2
    <3>4. i - 7 = 1 => p[i].op # "store"
      BY <1>10, <2>2
    <3>5. i - 7 = Len(b) => i = Len(p)
      BY <1>3, <1>6
    <3>6. i - 7 > 1 \/ i - 7 = 1
      BY <2>2
    <3>7. /\ b[i - 7].op = "load" => (i - 7) + 1 <= Len(b) /\ b[(i - 7) + 1] = StoreOf(b[i - 7])
          /\ b[i - 7].op = "store" /\ i - 7 > 1 => b[(i - 7) - 1] = LoadOf(b[i - 7])
          /\ b[i - 7].op = "queue" =>
               (i - 7) + 1 <= Len(b) /\ b[(i - 7) + 1] = Change("sendIndex", 1)[1]
          /\ b[i - 7].op = "accept" =>
               (i - 7) + 1 <= Len(b) /\ b[(i - 7) + 1] = Change("receiveIndex", 1)[1]
          /\ b[i - 7].op \in {"read", "take", "drain", "accepted"} => i - 7 = Len(b)
          /\ b[i - 7].op \in Moves /\ b[i - 7].of = "sendIndex" /\ b[i - 7].by = -1 =>
               b[Len(b)].op = "drain"
      BY <2>2 DEF Program
    <3> QED
      BY <1>9, <2>2, <3>1, <3>2, <3>3, <3>4, <3>5, <3>6, <3>7
  <2> QED
    BY <1>6, <2>1, <2>2
<1>12. p # <<>>
  <2>1. p = <<>> => Len(p) = 0
    OBVIOUS
  <2> QED
    BY <1>3, <1>6, <2>1
<1>13. Program("app", p)
  BY <1>5, <1>8, <1>9, <1>11 DEF Program
<1>14. Head(p) = p[1] /\ p[1] = h[1]
  BY <1>6, <1>12, <1>13, FirstStep DEF Task
<1>15. Rank(p[1]) = 1
  BY <1>3, <1>6, <1>7
<1>16. Fresh(p)
  BY <1>13, <1>15, FreshByRank DEF Task
<1>17. HasDrain(p) <=> HasDrain(b)
  BY <1>1, <1>2, <1>6 DEF HasDrain
<1>18. ASSUME NEW c \in Index PROVE Has(p, c, -1) <=> Has(b, c, -1)
  <2>1. ASSUME NEW i \in 1..Len(p), p[i].op \in Moves, p[i].of = c, p[i].by = -1
        PROVE  Has(b, c, -1)
    <3>1. i \notin 1..7
      <4> SUFFICES ASSUME i \in 1..7 PROVE FALSE
        OBVIOUS
      <4>1. i \in 1..Len(h) /\ p[i] = h[i]
        BY <1>2, <1>6
      <4> QED
        BY <1>1, <2>1, <4>1 DEF Has
    <3>2. i - 7 \in 1..Len(b) /\ p[i] = b[i - 7]
      BY <1>6, <3>1
    <3> QED
      BY <2>1, <3>2 DEF Has
  <2>2. ASSUME NEW i \in 1..Len(b), b[i].op \in Moves, b[i].of = c, b[i].by = -1
        PROVE  Has(p, c, -1)
    <3>1. i + 7 \in 1..Len(p) /\ p[i + 7] = b[i]
      BY <1>6
    <3> QED
      BY <2>2, <3>1 DEF Has
  <2> QED
    BY <2>1, <2>2 DEF Has
<1> QED
  BY <1>2, <1>12, <1>13, <1>14, <1>16, <1>17, <1>18 DEF p, h

-----------------------------------------------------------------------------
(* The inductive invariant.                                                  *)

\* By how much the program p leaves the counter c too high.
Owed(p, c) == IF Has(p, c, -1) THEN 1 ELSE 0

\* By how much the program p leaves the counter c too low.
Short(p, c) == IF Uncounted(p, c) THEN 1 ELSE 0

Size(c) == IF c = "sendIndex" THEN Len(sendQ) ELSE Len(recvQ)

\* What the counter of a queue can be at most.
Room(c) == Size(c) + Owed(prog["app"], c)
           - Short(prog["app"], c) - Short(prog["ot"], c)

Storing(t, c) == Begins(t, "store") /\ Head(prog[t]).of = c

Bounded(c) == /\ counter[c] <= Room(c)
              /\ \A t \in Task : Storing(t, c) => reg[t] <= Room(c)

Seen == sendQ # <<>> =>
          \/ counter["sendIndex"] > 0
          \/ HasDrain(prog["app"])
          \/ \E t \in Task : Uncounted(prog[t], "sendIndex")

Typed ==
  /\ recvQ \in Seq(Lens) /\ Len(recvQ) <= QueueSize
  /\ sendQ \in Seq(Lens) /\ Len(sendQ) <= QueueSize
  /\ counter \in [Counters -> Nat]
  /\ flag \in [Flags -> BOOLEAN]
  /\ count \in [Flags -> 0..(BusyTime - 1)]
  /\ finished \in BOOLEAN /\ attached \in BOOLEAN
  /\ events \subseteq Events /\ todo \subseteq Events
  /\ DOMAIN prog = Task
  /\ reg \in [Task -> Nat]
  /\ inputs \in 0..MaxInputs

Programs == \A t \in Task : Program(t, prog[t])

Counts == \A c \in Index : Bounded(c)

IInv == Typed /\ Programs /\ Counts /\ Seen

-----------------------------------------------------------------------------
(* Steps that leave the queues and the counters as they are.                 *)

LEMMA RoomType ==
  ASSUME Typed, NEW c \in Index
  PROVE  Room(c) \in Int /\ counter[c] \in Nat
<1>1. Len(recvQ) \in Nat /\ Len(sendQ) \in Nat
  BY LenProperties DEF Typed
<1>2. \A p : Owed(p, c) \in {0, 1} /\ Short(p, c) \in {0, 1}
  BY DEF Owed, Short
<1>3. Room(c) \in Int
  BY <1>1, <1>2 DEF Room, Size
<1>4. counter[c] \in Nat
  BY DEF Typed, Index, Counters
<1> QED
  BY <1>3, <1>4

\* Task t goes on with q, which has the same left to count as before.
LEMMA Quiet ==
  ASSUME IInv, NEW t \in Task, NEW q,
         Program(t, q), SameCounts(prog[t], q),
         t = "app" => sendQ = <<>> \/ (HasDrain(prog[t]) => HasDrain(q)),
         q # <<>> /\ Head(q).op = "store" /\ Head(q).of \in Index =>
           reg'[t] = counter[Head(q).of],
         \A u \in Task : u # t => reg'[u] = reg[u],
         prog' = [prog EXCEPT ![t] = q],
         recvQ' = recvQ, sendQ' = sendQ, counter' = counter
  PROVE  Programs' /\ Counts' /\ Seen'
<1>1. prog'[t] = q /\ \A u \in Task : u # t => prog'[u] = prog[u]
  BY DEF IInv, Typed
<1>2. Programs'
  BY <1>1 DEF IInv, Programs
<1>3. ASSUME NEW c \in Index
      PROVE  /\ Room(c)' = Room(c)
             /\ \A u \in Task : Uncounted(prog'[u], c) <=> Uncounted(prog[u], c)
  <2>1. \A u \in Task : /\ Uncounted(prog'[u], c) <=> Uncounted(prog[u], c)
                        /\ Has(prog'[u], c, -1) <=> Has(prog[u], c, -1)
    BY <1>1 DEF SameCounts
  <2>2. \A u \in Task : /\ Short(prog'[u], c) = Short(prog[u], c)
                        /\ Owed(prog'[u], c) = Owed(prog[u], c)
    BY <2>1 DEF Short, Owed
  <2>3. Size(c)' = Size(c)
    BY DEF Size
  <2> QED
    BY <2>1, <2>2, <2>3 DEF Room, Task
<1>4. ASSUME NEW c \in Index
      PROVE  Bounded(c)'
  <2>1. counter'[c] <= Room(c)'
    BY <1>3 DEF IInv, Counts, Bounded
  <2>2. ASSUME NEW u \in Task, Storing(u, c)'
        PROVE  reg'[u] <= Room(c)'
    <3>1. CASE u = t
      <4>1. q # <<>> /\ Head(q).op = "store" /\ Head(q).of = c
        BY <1>1, <2>2, <3>1 DEF Storing, Begins
      <4>2. reg'[u] = counter[c]
        BY <3>1, <4>1
      <4> QED
        BY <2>1, <4>2
    <3>2. CASE u # t
      <4>1. Storing(u, c) /\ reg'[u] = reg[u]
        BY <1>1, <2>2, <3>2 DEF Storing, Begins
      <4> QED
        BY <1>3, <4>1 DEF IInv, Counts, Bounded
    <3> QED
      BY <3>1, <3>2
  <2> QED
    BY <2>1, <2>2 DEF Bounded
<1>5. Seen'
  <2>1. CASE sendQ = <<>>
    BY <2>1 DEF Seen
  <2>2. CASE sendQ # <<>>
    <3>1. HasDrain(prog["app"]) => HasDrain(prog'["app"])
      BY <1>1, <2>2 DEF Task
    <3>2. \A u \in Task : Uncounted(prog[u], "sendIndex") => Uncounted(prog'[u], "sendIndex")
      BY <1>3 DEF Index
    <3> QED
      BY <3>1, <3>2 DEF IInv, Seen
  <2> QED
    BY <2>1, <2>2
<1> QED
  BY <1>2, <1>4, <1>5 DEF Counts

\* Nothing that is counted changes.
LEMMA Still ==
  ASSUME IInv, UNCHANGED <<queues, counter, prog, reg>>
  PROVE  Programs' /\ Counts' /\ Seen'
BY DEF IInv, Programs, Counts, Seen, Bounded, Room, Size, Storing, Begins, queues

\* A task that has nothing to do begins a program that owes nothing.
LEMMA Begin ==
  ASSUME IInv, NEW t \in Task, NEW q, Program(t, q), Fresh(q),
         q # <<>> => Head(q).op # "store",
         \A c \in Index : ~Has(q, c, -1),
         prog[t] = <<>>,
         prog' = [prog EXCEPT ![t] = q],
         UNCHANGED <<queues, counter, reg>>
  PROVE  Programs' /\ Counts' /\ Seen'
<1>1. SameCounts(prog[t], q) /\ ~HasDrain(prog[t])
  BY EmptyProgram DEF Fresh, SameCounts
<1> QED
  BY <1>1, Quiet DEF queues

-----------------------------------------------------------------------------
(* Each variable keeps its type.                                             *)

LEMMA StepFacts ==
  ASSUME IInv, NEW t \in Task, NEW o, Begins(t, o)
  PROVE  LET h == Head(prog[t])
         IN  /\ prog[t] # <<>> /\ h.op = o /\ h = prog[t][1] /\ h \in StepOf(t)
             /\ Program(t, prog[t]) /\ Rank(h) \in 1..12
             /\ Len(prog[t]) \in Nat \ {0} /\ 1 \in 1..Len(prog[t])
             /\ o \in Moves => h.of \in Counters /\ h.by \in Int
             /\ o \in {"queue", "accept"} => h.len \in Lens
<1>1. prog[t] # <<>> /\ Head(prog[t]).op = o /\ Program(t, prog[t])
  BY DEF Begins, IInv, Programs
<1>2. Len(prog[t]) \in Nat \ {0} /\ Head(prog[t]) = prog[t][1] /\ 1 \in 1..Len(prog[t])
  BY <1>1, FirstStep
<1>3. Head(prog[t]) \in StepOf(t)
  BY <1>1, <1>2, FirstStep
<1> QED
  BY <1>1, <1>2, <1>3, StepKinds

LEMMA TypedSteps ==
  ASSUME IInv, NEW t \in Task, Steps(t)
  PROVE  Typed'
<1>1. CASE Load(t)
  <2>1. Head(prog[t]).of \in Counters
    BY <1>1, StepFacts DEF Load, Moves
  <2> QED
    BY <1>1, <2>1 DEF Load, Drops, IInv, Typed, queues, flags, wake
<1>2. CASE Store(t)
  <2>1. Head(prog[t]).of \in Counters /\ Head(prog[t]).by \in Int
    BY <1>2, StepFacts DEF Store, Moves
  <2>2. Sum(reg[t], Head(prog[t]).by) \in Nat
    BY <2>1 DEF Sum, IInv, Typed
  <2> QED
    BY <1>2, <2>2 DEF Store, Drops, IInv, Typed, queues, flags, wake
<1>3. CASE PostCheck(t)
  BY <1>3 DEF PostCheck, Drops, Sets, Notify, IInv, Typed, queues, flags, wake, Flags, Events
<1>4. CASE PostQueue(t)
  <2>1. Head(prog[t]).len \in Lens
    BY <1>4, StepFacts DEF PostQueue
  <2>2. Len(sendQ) < QueueSize =>
          /\ Append(sendQ, Head(prog[t]).len) \in Seq(Lens)
          /\ Len(Append(sendQ, Head(prog[t]).len)) <= QueueSize
    BY <2>1, AppendProperties, QueuesAssumption, LenProperties DEF IInv, Typed
  <2>3. sendQ' \in Seq(Lens) /\ Len(sendQ') <= QueueSize
    BY <1>4, <2>2 DEF PostQueue, IInv, Typed
  <2> QED
    BY <1>4, <2>3 DEF PostQueue, Drops, IInv, Typed, queues, flags, wake
<1>5. CASE Posted(t)
  BY <1>5 DEF Posted, Drops, Sets, Notify, IInv, Typed, queues, flags, wake, Flags, Events
<1> QED
  BY <1>1, <1>2, <1>3, <1>4, <1>5 DEF Steps

LEMMA TailTyped ==
  ASSUME NEW q \in Seq(Lens), q # <<>>, Len(q) <= QueueSize
  PROVE  /\ Tail(q) \in Seq(Lens) /\ Len(Tail(q)) = Len(q) - 1 /\ Len(q) \in Nat \ {0}
         /\ Len(Tail(q)) <= QueueSize /\ Head(q) \in Lens
<1>1. /\ Tail(q) \in Seq(Lens) /\ Len(Tail(q)) = Len(q) - 1 /\ Head(q) \in Lens
      /\ Len(q) \in Nat /\ Len(q) # 0
  BY HeadTailProperties, EmptySeq, LenProperties
<1> QED
  BY <1>1, QueuesAssumption

LEMMA TypedOt ==
  ASSUME IInv, Ot
  PROVE  Typed'
<1>1. CASE Steps("ot")
  BY <1>1, TypedSteps DEF Task
<1>2. CASE Admit
  BY <1>2 DEF Admit, Drops, Sets, Notify, IInv, Typed, queues, flags, wake, Flags, Events
<1>3. CASE Accept
  <2>1. Head(prog["ot"]).len \in Lens
    BY <1>3, StepFacts DEF Accept, Task
  <2>2. Len(recvQ) # QueueSize
    BY <1>3 DEF Accept, OtBlocked
  <2>3. /\ Append(recvQ, Head(prog["ot"]).len) \in Seq(Lens)
        /\ Len(Append(recvQ, Head(prog["ot"]).len)) <= QueueSize
    BY <2>1, <2>2, AppendProperties, QueuesAssumption, LenProperties DEF IInv, Typed
  <2> QED
    BY <1>3, <2>3 DEF Accept, Drops, IInv, Typed, queues, flags, wake
<1>4. CASE Accepted
  BY <1>4 DEF Accepted, Drops, Sets, Notify, IInv, Typed, queues, flags, wake, Flags, Events
<1> QED
  BY <1>1, <1>2, <1>3, <1>4 DEF Ot

LEMMA TypedApp ==
  ASSUME IInv, App
  PROVE  Typed'
<1>1. CASE Steps("app")
  BY <1>1, TypedSteps DEF Task
<1>2. CASE Wake
  BY <1>2 DEF Wake, IInv, Typed, queues, flags
<1>3. CASE HandleMeter
  <2>1. /\ recvQ' = recvQ /\ sendQ' = sendQ /\ counter' = counter /\ count' = count
        /\ attached' = attached /\ events' = events /\ reg' = reg /\ inputs' = inputs
        /\ todo' \subseteq todo
    BY <1>3 DEF HandleMeter, Handles, queues
  <2>2. flag' \in [Flags -> BOOLEAN]
    BY <1>3 DEF HandleMeter, Sets, IInv, Typed
  <2>3. finished' \in BOOLEAN
    BY <1>3 DEF HandleMeter, Answer, IInv, Typed
  <2>4. DOMAIN prog' = Task
    BY <1>3 DEF HandleMeter, Answer, AppDoes, IInv, Typed
  <2> QED
    BY <2>1, <2>2, <2>3, <2>4 DEF IInv, Typed
<1>4. CASE HandleBlock
  BY <1>4 DEF HandleBlock, Handles, AppDoes, IInv, Typed, queues, flags
<1>5. CASE HandleSend
  BY <1>5 DEF HandleSend, Handles, AppDoes, IInv, Typed, queues, flags
<1>6. CASE HandleRegister
  BY <1>6 DEF HandleRegister, Handles, Answer, IInv, Typed, queues
<1>7. CASE ReadOver
  BY <1>7 DEF ReadOver, Drops, Sets, IInv, Typed, queues, wake
<1>8. CASE Take
  <2>1. recvQ' \in Seq(Lens) /\ Len(recvQ') <= QueueSize
    BY <1>8, TailTyped DEF Take, IInv, Typed
  <2>2. finished' \in BOOLEAN /\ DOMAIN prog' = Task
    BY <1>8 DEF Take, Drops, Answer, AppDoes, IInv, Typed
  <2> QED
    BY <1>8, <2>1, <2>2 DEF Take, IInv, Typed, wake
<1>9. CASE Drain
  <2>1. sendQ' \in Seq(Lens) /\ Len(sendQ') <= QueueSize
    BY <1>9, TailTyped DEF Drain, IInv, Typed
  <2> QED
    BY <1>9, <2>1 DEF Drain, Drops, AppDoes, IInv, Typed, wake
<1> QED
  BY <1>1, <1>2, <1>3, <1>4, <1>5, <1>6, <1>7, <1>8, <1>9 DEF App

LEMMA TypedInputs ==
  ASSUME IInv, Input
  PROVE  inputs' \in 0..MaxInputs
BY QueuesAssumption DEF Input, IInv, Typed

\* send_queue in the timer task has queued and counted an answer.
TimerPosts(l) ==
  /\ Len(sendQ) < QueueSize
  /\ sendQ' = Append(sendQ, l)
  /\ counter' = [counter EXCEPT !["sendIndex"] = @ + 1,
                                !["currentQueueBytes"] = @ + l]

LEMMA TimerPostCases ==
  ASSUME NEW l, TimerPost(l)
  PROVE  /\ recvQ' = recvQ /\ prog' = prog /\ reg' = reg
         /\ (sendQ' = sendQ /\ counter' = counter) \/ TimerPosts(l)
BY DEF TimerPost, TimerPosts

LEMMA TypedTimer ==
  ASSUME IInv, Timer
  PROVE  Typed'
<1>1. ASSUME NEW l \in Lens, TimerPost(l)
      PROVE  Typed'
  <2>1. sendQ' \in Seq(Lens) /\ Len(sendQ') <= QueueSize /\ counter' \in [Counters -> Nat]
    <3>1. CASE sendQ' = sendQ /\ counter' = counter
      BY <3>1 DEF IInv, Typed
    <3>2. CASE TimerPosts(l)
      <4>1. /\ Append(sendQ, l) \in Seq(Lens) /\ Len(Append(sendQ, l)) = Len(sendQ) + 1
            /\ Len(sendQ) \in Nat
        BY AppendProperties, LenProperties DEF IInv, Typed
      <4>2. l \in Nat /\ QueueSize \in Nat
        BY QueuesAssumption
      <4>3. sendQ' \in Seq(Lens) /\ Len(sendQ') <= QueueSize
        BY <3>2, <4>1, <4>2 DEF TimerPosts
      <4> DEFINE a == counter["sendIndex"] + 1
                 b == counter["currentQueueBytes"] + l
      <4>4. counter \in [Counters -> Nat] /\ a \in Nat /\ b \in Nat
        BY <4>2 DEF IInv, Typed, Counters
      <4>5. counter' = [counter EXCEPT !["sendIndex"] = a, !["currentQueueBytes"] = b]
        BY <3>2 DEF TimerPosts
      <4> HIDE DEF a, b
      <4>6. counter' \in [Counters -> Nat]
        BY <4>4, <4>5
      <4> QED
        BY <4>3, <4>6
    <3> QED
      BY <1>1, <3>1, <3>2, TimerPostCases
  <2>2. flag' \in [Flags -> BOOLEAN] /\ events' \subseteq Events
    BY <1>1 DEF TimerPost, Sets, Notify, IInv, Typed, Flags, Events
  <2>3. inputs' \in 0..MaxInputs
    BY <1>1, TypedInputs DEF TimerPost
  <2> QED
    BY <1>1, <2>1, <2>2, <2>3 DEF TimerPost, IInv, Typed
<1>2. CASE TimerSend
  BY <1>2, TypedInputs DEF TimerSend, IInv, Typed, queues, wake
<1>3. CASE Second
  <2>1. \A f \in Flags : Aged(f).flag \in BOOLEAN /\ Aged(f).count \in 0..(BusyTime - 1)
    BY QueuesAssumption DEF Aged, IInv, Typed
  <2>2. flag' \in [Flags -> BOOLEAN] /\ count' \in [Flags -> 0..(BusyTime - 1)]
    BY <1>3, <2>1 DEF Second
  <2>3. events' \subseteq Events /\ finished' \in BOOLEAN
    BY <1>3 DEF Second, Notify, IInv, Typed, Events
  <2> QED
    BY <1>3, <2>2, <2>3 DEF Second, IInv, Typed, queues
<1> QED
  BY <1>1, <1>2, <1>3 DEF Timer

LEMMA TypedOutside ==
  ASSUME IInv, Outside
  PROVE  Typed'
<1>1. ASSUME NEW l \in Lens, OtCommand(l)
      PROVE  Typed'
  BY <1>1, TypedInputs DEF OtCommand, IInv, Typed, queues, flags, wake
<1>2. CASE OtAnswer
  <2>1. DOMAIN prog' = Task /\ finished' \in BOOLEAN
    BY <1>2 DEF OtAnswer, Answer, IInv, Typed
  <2>2. inputs' \in 0..MaxInputs
    BY <1>2, TypedInputs DEF OtAnswer
  <2> QED
    BY <1>2, <2>1, <2>2 DEF OtAnswer, IInv, Typed, queues, wake
<1>3. CASE OtReset
  <2>1. inputs' \in 0..MaxInputs
    BY <1>3, TypedInputs DEF OtReset
  <2> QED
    BY <1>3, <2>1 DEF OtReset, Sets, IInv, Typed, queues, wake
<1>4. CASE OtRole
  BY <1>4 DEF OtRole, Notify, IInv, Typed, queues, flags, Events
<1>5. CASE MeterFrame
  BY <1>5, TypedInputs DEF MeterFrame, Notify, IInv, Typed, queues, flags, Events
<1>6. CASE RegisterTimeout
  BY <1>6, TypedInputs DEF RegisterTimeout, Notify, IInv, Typed, queues, flags, Events
<1>7. CASE Restart
  <2>1. recvQ' \in Seq(Lens) /\ Len(recvQ') = 0 /\ sendQ' \in Seq(Lens) /\ Len(sendQ') = 0
    BY <1>7 DEF Restart
  <2>2. counter' \in [Counters -> Nat] /\ flag' \in [Flags -> BOOLEAN]
        /\ count' \in [Flags -> 0..(BusyTime - 1)]
    BY <1>7, QueuesAssumption DEF Restart
  <2>3. /\ finished' \in BOOLEAN /\ attached' \in BOOLEAN
        /\ events' = {} /\ todo' = {} /\ DOMAIN prog' = Task /\ reg' \in [Task -> Nat]
    BY <1>7 DEF Restart
  <2>4. inputs' \in 0..MaxInputs
    BY <1>7, TypedInputs DEF Restart
  <2> QED
    BY <2>1, <2>2, <2>3, <2>4, QueuesAssumption DEF Typed
<1> QED
  BY <1>1, <1>2, <1>3, <1>4, <1>5, <1>6, <1>7 DEF Outside

-----------------------------------------------------------------------------
(* Steps keep what is said of the programs, the counters and the queues.     *)

Kept == Programs' /\ Counts' /\ Seen'

LEMMA KeptQuiet ==
  ASSUME IInv, NEW t \in Task, NEW o, Begins(t, o),
         o \notin {"store", "queue", "accept"},
         o = "drain" => sendQ = <<>>,
         Drops(t, 1),
         recvQ' = recvQ, sendQ' = sendQ, counter' = counter,
         o = "load" => reg'[t] = counter[Head(prog[t]).of],
         \A u \in Task : u # t => reg'[u] = reg[u]
  PROVE  Kept
<1> DEFINE p == prog[t]
           q == Rest(p, 1)
<1>1. p # <<>> /\ Program(t, p) /\ p[1].op = o /\ Head(p) = p[1]
  BY StepFacts
<1>2. prog' = [prog EXCEPT ![t] = q]
  BY DEF Drops, Rest
<1>3. Program(t, q)
  BY <1>1, RestFacts
<1>4. SameCounts(p, q) /\ (o # "drain" => (HasDrain(q) <=> HasDrain(p)))
  BY <1>1, QuietStep
<1>5. q # <<>> /\ Head(q).op = "store" => reg'[t] = counter[Head(q).of]
  BY <1>1, StoreAfterLoad
<1> HIDE DEF q
<1> QED
  BY <1>2, <1>3, <1>4, <1>5, Quiet DEF Kept

LEMMA KeptJump ==
  ASSUME IInv, NEW t \in Task, NEW o, Begins(t, o), NEW n \in {6, 7},
         o \in IF n = 7 THEN {"check", "admit"} ELSE {"queue"},
         Drops(t, n), UNCHANGED <<queues, counter, reg>>
  PROVE  Kept
<1> DEFINE p == prog[t]
           q == Rest(p, n)
<1>1. p # <<>> /\ Program(t, p) /\ p[1].op = o /\ p[1] \in StepOf(t)
  BY StepFacts
<1>2. prog' = [prog EXCEPT ![t] = q]
  BY DEF Drops, Rest
<1>3. Rank(p[1]) + n = 8
  BY <1>1, StepKinds
<1>4. /\ Program(t, q) /\ SameCounts(p, q) /\ (HasDrain(q) <=> HasDrain(p))
      /\ q # <<>> => Head(q).op # "store"
  BY <1>1, <1>3, Jump
<1> HIDE DEF q
<1> QED
  BY <1>2, <1>4, Quiet DEF Kept, queues

\* A task puts an entry of length l into the queue beside counter c.
LEMMA KeptQueued ==
  ASSUME IInv, NEW t \in Task, NEW o \in {"queue", "accept"}, Begins(t, o),
         Drops(t, 1), counter' = counter, reg' = reg,
         NEW l \in Lens,
         IF o = "queue" THEN sendQ' = Append(sendQ, l) /\ recvQ' = recvQ
                        ELSE recvQ' = Append(recvQ, l) /\ sendQ' = sendQ
  PROVE  Kept
<1> DEFINE p == prog[t]
           q == Rest(p, 1)
           b == Beside(p[1])
<1>1. p # <<>> /\ Program(t, p) /\ p[1].op = o /\ Head(p) = p[1]
  BY StepFacts
<1>2. prog' = [prog EXCEPT ![t] = q]
  BY DEF Drops, Rest
<1>3. Program(t, q) /\ ~(q # <<>> /\ Head(q).op = "store")
  BY <1>1, RestFacts, StoreAfterLoad
<1>4. /\ \A c \in Index : ~Uncounted(p, c) /\ (Has(q, c, -1) <=> Has(p, c, -1))
      /\ \A c \in Index : Uncounted(q, c) <=> c = b
      /\ HasDrain(q) <=> HasDrain(p)
  BY <1>1, QueueStep
<1>5. b = IF o = "queue" THEN "sendIndex" ELSE "receiveIndex"
  BY <1>1 DEF Beside
<1> HIDE DEF q, b
<1>6. prog'[t] = q /\ \A u \in Task : u # t => prog'[u] = prog[u]
  BY <1>2 DEF IInv, Typed
<1>7. Programs'
  BY <1>3, <1>6 DEF IInv, Programs
<1>8. \A c \in Index : Size(c)' = Size(c) + (IF c = b THEN 1 ELSE 0)
  <2>1. /\ Len(Append(sendQ, l)) = Len(sendQ) + 1 /\ Len(sendQ) \in Nat
        /\ Len(Append(recvQ, l)) = Len(recvQ) + 1 /\ Len(recvQ) \in Nat
    BY AppendProperties, LenProperties DEF IInv, Typed
  <2>2. CASE o = "queue"
    <3>1. b = "sendIndex" /\ Len(sendQ') = Len(sendQ) + 1 /\ Len(recvQ') = Len(recvQ)
      BY <1>5, <2>1, <2>2
    <3>2. /\ Size("sendIndex")' = Size("sendIndex") + 1
          /\ Size("receiveIndex")' = Size("receiveIndex") /\ Size("receiveIndex") \in Nat
      BY <2>1, <3>1 DEF Size
    <3> QED
      BY <3>1, <3>2 DEF Index
  <2>3. CASE o = "accept"
    <3>1. b = "receiveIndex" /\ Len(recvQ') = Len(recvQ) + 1 /\ Len(sendQ') = Len(sendQ)
      BY <1>5, <2>1, <2>3
    <3>2. /\ Size("receiveIndex")' = Size("receiveIndex") + 1
          /\ Size("sendIndex")' = Size("sendIndex") /\ Size("sendIndex") \in Nat
      BY <2>1, <3>1 DEF Size
    <3> QED
      BY <3>1, <3>2 DEF Index
  <2> QED
    BY <2>2, <2>3
<1>9. ASSUME NEW c \in Index
      PROVE  Room(c)' = Room(c)
  <2>1. /\ Owed(prog'["app"], c) = Owed(prog["app"], c)
        /\ \A u \in Task : Short(prog'[u], c) = Short(prog[u], c)
                             + (IF u = t /\ c = b THEN 1 ELSE 0)
    BY <1>4, <1>6 DEF Owed, Short, Task
  <2>2. Size(c) \in Int /\ Owed(prog["app"], c) \in {0, 1}
        /\ \A u \in Task : Short(prog[u], c) \in {0, 1}
    BY LenProperties DEF Size, Owed, Short, IInv, Typed
  <2> QED
    BY <1>8, <2>1, <2>2 DEF Room, Task
<1>10. ASSUME NEW c \in Index
       PROVE  Bounded(c)'
  <2>1. \A u \in Task : Storing(u, c)' => Storing(u, c)
    BY <1>3, <1>6 DEF Storing, Begins
  <2> QED
    BY <1>9, <2>1 DEF IInv, Counts, Bounded
<1>11. Seen'
  <2>1. CASE o = "queue"
    BY <1>4, <1>5, <1>6, <2>1 DEF Seen, Index
  <2>2. CASE o = "accept"
    <3>1. \A u \in Task : Uncounted(prog[u], "sendIndex") => Uncounted(prog'[u], "sendIndex")
      BY <1>4, <1>6 DEF Index
    <3>2. HasDrain(prog["app"]) => HasDrain(prog'["app"])
      BY <1>4, <1>6 DEF Task
    <3> QED
      BY <2>2, <3>1, <3>2 DEF IInv, Seen
  <2> QED
    BY <2>1, <2>2
<1> QED
  BY <1>7, <1>10, <1>11 DEF Kept, Counts

\* A store is right whatever the other task has done since the load.
LEMMA KeptStore ==
  ASSUME IInv, NEW t \in Task, Store(t)
  PROVE  Kept
<1> DEFINE p == prog[t]
           q == Rest(p, 1)
<1>0. PICK c, k : c = Head(prog[t]).of /\ k = Head(prog[t]).by
  OBVIOUS
<1>1. /\ p # <<>> /\ Program(t, p) /\ p[1].op = "store" /\ Head(p) = p[1]
      /\ p[1].of = c /\ p[1].by = k /\ c \in Counters /\ k \in Int /\ Rank(p[1]) \in 1..12 /\ p[1] \in StepOf(t)
  <2>1. Begins(t, "store")
    BY DEF Store
  <2> QED
    BY <1>0, <2>1, StepFacts DEF Moves
<1>2. /\ prog' = [prog EXCEPT ![t] = q] /\ recvQ' = recvQ /\ sendQ' = sendQ /\ reg' = reg
      /\ counter' = [counter EXCEPT ![c] = Sum(reg[t], k)]
  BY <1>0 DEF Store, Drops, Rest, queues
<1>3. Program(t, q) /\ ~(q # <<>> /\ Head(q).op = "store")
  <2>1. p[1].op # "load"
    BY <1>1
  <2> QED
    BY <1>1, <2>1, RestFacts, StoreAfterLoad
<1>4. c \notin Index => SameCounts(p, q) /\ (HasDrain(q) <=> HasDrain(p))
  BY <1>1, StoreBytesStep
<1>5. c \in Index =>
        /\ k \in {1, -1}
        /\ k = 1 => Uncounted(p, c)
        /\ k = -1 => Has(p, c, -1)
        /\ k = -1 => \A d \in Index : ~Uncounted(p, d)
        /\ k = -1 => ~Has(q, c, -1)
        /\ ~Uncounted(q, c)
        /\ k = 1 => (Has(q, c, -1) <=> Has(p, c, -1))
        /\ \A d \in Index : d # c =>
             /\ Uncounted(q, d) <=> Uncounted(p, d)
             /\ Has(q, d, -1) <=> Has(p, d, -1)
        /\ HasDrain(q) <=> HasDrain(p)
        /\ k = -1 /\ c = "sendIndex" => HasDrain(p)
  BY <1>1, StoreIndexStep
<1>6. c \in Index /\ k = -1 => t = "app"
  BY <1>1, StepKinds DEF Moves, Task
<1>7. reg[t] \in Nat
  BY DEF IInv, Typed
<1>8. t = "app" => \A d \in Index : ~Uncounted(prog["ot"], d)
  <2>1. SUFFICES ASSUME t = "app" PROVE \A d \in Index : ~Uncounted(prog["ot"], d)
    OBVIOUS
  <2>2. prog["ot"] = <<>> \/ Begins("ot", "accept")
    BY <2>1 DEF Store, Runs, AppRuns, OtBlocked
  <2>3. CASE prog["ot"] = <<>>
    BY <2>3, EmptyProgram DEF Fresh, Task
  <2>4. CASE Begins("ot", "accept")
    BY <2>4, StepFacts, QueueStep DEF Task
  <2> QED
    BY <2>2, <2>3, <2>4
<1> HIDE DEF q
<1>9. prog'[t] = q /\ \A u \in Task : u # t => prog'[u] = prog[u]
  BY <1>2 DEF IInv, Typed
<1>10. Programs'
  BY <1>3, <1>9 DEF IInv, Programs
<1>11. \A d \in Index, u \in Task : Storing(u, d)' => Storing(u, d) /\ u # t
  BY <1>3, <1>9 DEF Storing, Begins
<1>12. counter'[c] = Sum(reg[t], k) /\ \A d \in Counters : d # c => counter'[d] = counter[d]
  BY <1>1, <1>2 DEF IInv, Typed
<1>13. \A d \in Index : /\ Size(d)' = Size(d) /\ Size(d) \in Nat
                        /\ counter[d] \in Nat /\ d \in Counters
  BY <1>2, LenProperties DEF Size, IInv, Typed, Index, Counters
<1>14. \A r : \A d \in Index : Owed(r, d) \in {0, 1} /\ Short(r, d) \in {0, 1}
  BY DEF Owed, Short
<1>15. ASSUME NEW d \in Index, d # c
       PROVE  Bounded(d)'
  <2>1. (Uncounted(q, d) <=> Uncounted(p, d)) /\ (Has(q, d, -1) <=> Has(p, d, -1))
    BY <1>4, <1>5, <1>15 DEF SameCounts
  <2>2. /\ Owed(prog'["app"], d) = Owed(prog["app"], d)
        /\ \A u \in Task : Short(prog'[u], d) = Short(prog[u], d)
    BY <1>9, <2>1 DEF Owed, Short, Task
  <2>3. Room(d)' = Room(d)
    BY <1>13, <2>2 DEF Room, Task
  <2>4. counter'[d] = counter[d]
    BY <1>12, <1>13, <1>15
  <2> QED
    BY <1>2, <1>11, <2>3, <2>4 DEF IInv, Counts, Bounded
<1>16. ASSUME c \in Index
       PROVE  Bounded(c)'
  <2>1. reg[t] <= Room(c)
    <3>1. Storing(t, c)
      BY <1>0 DEF Storing, Store
    <3> QED
      BY <1>16, <3>1 DEF IInv, Counts, Bounded
  <2>2. CASE k = 1
    <3>1. /\ Owed(prog'["app"], c) = Owed(prog["app"], c)
          /\ Short(p, c) = 1 /\ Short(q, c) = 0
      BY <1>5, <1>9, <1>16, <2>2 DEF Owed, Short, Task
    <3>2. Room(c)' = Room(c) + 1
      BY <1>9, <1>13, <1>14, <1>16, <3>1 DEF Room, Task
    <3>3. Room(c) \in Int
      BY <1>16, RoomType DEF IInv
    <3>4. counter'[c] = reg[t] + 1
      BY <1>7, <1>12, <2>2 DEF Sum
    <3>5. \A u \in Task : Storing(u, c)' => reg'[u] <= Room(c)'
      BY <1>2, <1>11, <1>16, <3>2, <3>3 DEF IInv, Typed, Counts, Bounded
    <3> QED
      BY <1>7, <2>1, <3>2, <3>3, <3>4, <3>5 DEF Bounded
  <2>3. CASE k = -1
    <3>1. t = "app"
      BY <1>6, <1>16, <2>3
    <3>2. /\ Owed(prog["app"], c) = 1 /\ Owed(prog'["app"], c) = 0
          /\ Short(prog["app"], c) = 0 /\ Short(prog'["app"], c) = 0
          /\ Short(prog["ot"], c) = 0 /\ Short(prog'["ot"], c) = 0
      BY <1>5, <1>8, <1>9, <1>16, <2>3, <3>1 DEF Owed, Short, Task
    <3>3. Room(c) = Size(c) + 1 /\ Room(c)' = Size(c)
      BY <1>13, <1>16, <3>2 DEF Room
    <3>4. counter'[c] <= Size(c)
      BY <1>7, <1>12, <1>13, <1>16, <2>1, <2>3, <3>3 DEF Sum
    <3>5. \A u \in Task : ~Storing(u, c)'
      <4>1. SUFFICES ASSUME Storing("ot", c) PROVE FALSE
        BY <1>11, <1>16, <3>1 DEF Task
      <4>2. prog["ot"] = <<>> \/ Begins("ot", "accept")
        BY <3>1 DEF Store, Runs, AppRuns, OtBlocked
      <4> QED
        BY <4>1, <4>2 DEF Storing, Begins
    <3> QED
      BY <3>3, <3>4, <3>5 DEF Bounded
  <2> QED
    BY <1>5, <1>16, <2>2, <2>3
<1>17. Counts'
  BY <1>15, <1>16 DEF Counts
<1>18. Seen'
  <2>1. HasDrain(prog["app"]) => HasDrain(prog'["app"])
    BY <1>4, <1>5, <1>9 DEF Task
  <2>2. CASE c = "sendIndex" /\ k = 1
    <3>1. counter'["sendIndex"] > 0
      BY <1>7, <1>12, <2>2 DEF Sum
    <3> QED
      BY <3>1 DEF Seen
  <2>3. CASE c = "sendIndex" /\ k = -1
    <3>1. HasDrain(prog'["app"])
      BY <1>5, <1>6, <2>1, <2>3 DEF Index
    <3> QED
      BY <3>1 DEF Seen
  <2>4. CASE c # "sendIndex"
    <3>1. counter'["sendIndex"] = counter["sendIndex"]
      BY <1>12, <2>4 DEF Counters
    <3>2. \A u \in Task : Uncounted(prog[u], "sendIndex") => Uncounted(prog'[u], "sendIndex")
      BY <1>4, <1>5, <1>9, <2>4 DEF SameCounts, Index
    <3> QED
      BY <1>2, <2>1, <3>1, <3>2 DEF IInv, Seen
  <2> QED
    BY <1>5, <2>2, <2>3, <2>4 DEF Index
<1> QED
  BY <1>10, <1>17, <1>18 DEF Kept

LEMMA KeptSteps ==
  ASSUME IInv, NEW t \in Task, Steps(t)
  PROVE  Kept
<1>1. CASE Load(t)
  <2>1. reg'[t] = counter[Head(prog[t]).of] /\ \A u \in Task : u # t => reg'[u] = reg[u]
    BY <1>1 DEF Load, IInv, Typed
  <2> QED
    BY <1>1, <2>1, KeptQuiet DEF Load, queues
<1>2. CASE Store(t)
  BY <1>2, KeptStore
<1>3. CASE PostCheck(t)
  <2>1. Begins(t, "check") /\ UNCHANGED <<queues, counter, reg>>
    BY <1>3 DEF PostCheck
  <2>2. Drops(t, 1) \/ Drops(t, 7)
    BY <1>3 DEF PostCheck, PostLength
  <2>3. CASE Drops(t, 1)
    BY <2>1, <2>3, KeptQuiet DEF queues
  <2>4. CASE Drops(t, 7)
    BY <2>1, <2>4, KeptJump
  <2> QED
    BY <2>2, <2>3, <2>4
<1>4. CASE PostQueue(t)
  <2>1. Begins(t, "queue") /\ counter' = counter /\ reg' = reg /\ recvQ' = recvQ
    BY <1>4 DEF PostQueue
  <2>2. CASE Len(sendQ) < QueueSize
    <3>1. sendQ' = Append(sendQ, Head(prog[t]).len) /\ Drops(t, 1)
      BY <1>4, <2>2 DEF PostQueue
    <3>2. Head(prog[t]).len \in Lens
      BY <2>1, StepFacts
    <3> QED
      BY <2>1, <3>1, <3>2, KeptQueued
  <2>3. CASE ~(Len(sendQ) < QueueSize)
    <3>1. sendQ' = sendQ /\ Drops(t, 6)
      BY <1>4, <2>3 DEF PostQueue, PostLength
    <3> QED
      BY <2>1, <3>1, KeptJump DEF queues
  <2> QED
    BY <2>2, <2>3
<1>5. CASE Posted(t)
  BY <1>5, KeptQuiet DEF Posted, queues
<1> QED
  BY <1>1, <1>2, <1>3, <1>4, <1>5 DEF Steps

\* The application task takes an entry out of the queue beside counter b.
LEMMA KeptTaken ==
  ASSUME IInv, NEW o \in {"take", "drain"}, Begins("app", o),
         NEW q, Program("app", q), Fresh(q), q # <<>>, Head(q).op # "store",
         NEW b \in Index, \A c \in Index : Has(q, c, -1) <=> c = b,
         IF o = "drain" THEN HasDrain(q) ELSE sendQ' = sendQ,
         prog' = [prog EXCEPT !["app"] = q], counter' = counter, reg' = reg,
         \A c \in Index : Size(c)' = Size(c) - (IF c = b THEN 1 ELSE 0)
  PROVE  Kept
<1> DEFINE p == prog["app"]
<1>1. /\ p # <<>> /\ Program("app", p) /\ p[1].op = o /\ p[1] \in StepOf("app")
      /\ 1 \in 1..Len(p)
  BY StepFacts DEF Task
<1>2. Len(p) = 1
  BY <1>1 DEF Program
<1>3. \A c \in Index, k \in {1, -1} : ~Has(p, c, k)
  <2>1. \A i \in 1..Len(p) : p[i].op \notin Moves
    BY <1>1, <1>2 DEF Moves
  <2> QED
    BY <2>1 DEF Has
<1>4. \A c \in Index : ~Uncounted(p, c)
  BY <1>3 DEF Uncounted
<1>5. o = "take" => ~HasDrain(p)
  BY <1>1, <1>2 DEF HasDrain
<1>6. prog'["app"] = q /\ prog'["ot"] = prog["ot"]
  BY DEF IInv, Typed, Task
<1>7. Programs'
  BY <1>6 DEF IInv, Programs, Task
<1>8. ASSUME NEW c \in Index
      PROVE  Room(c)' = Room(c)
  <2>1. /\ Owed(p, c) = 0 /\ Owed(q, c) = IF c = b THEN 1 ELSE 0
        /\ Short(p, c) = 0 /\ Short(q, c) = 0
    BY <1>3, <1>4 DEF Owed, Short, Fresh
  <2>2. Size(c) \in Nat /\ Short(prog["ot"], c) \in {0, 1}
    BY LenProperties DEF Size, Short, IInv, Typed
  <2>3. Size(c)' = Size(c) - (IF c = b THEN 1 ELSE 0)
    OBVIOUS
  <2> QED
    BY <1>6, <2>1, <2>2, <2>3 DEF Room
<1>9. ASSUME NEW c \in Index
      PROVE  Bounded(c)'
  <2>1. \A u \in Task : Storing(u, c)' => Storing(u, c)
    BY <1>6 DEF Storing, Begins, Task
  <2> QED
    BY <1>8, <2>1 DEF IInv, Counts, Bounded
<1>10. Seen'
  <2>1. CASE o = "drain"
    BY <1>6, <2>1 DEF Seen
  <2>2. CASE o = "take"
    BY <1>4, <1>5, <1>6, <2>2 DEF IInv, Seen, Task, Index
  <2> QED
    BY <2>1, <2>2
<1> QED
  BY <1>7, <1>9, <1>10 DEF Kept, Counts

LEMMA KeptTake ==
  ASSUME IInv, Take
  PROVE  Kept
<1>1. Begins("app", "take") /\ sendQ' = sendQ /\ counter' = counter /\ reg' = reg
  BY DEF Take
<1>2. CASE recvQ = <<>>
  BY <1>1, <1>2, KeptQuiet DEF Take, Task
<1>3. CASE recvQ # <<>>
  <2> DEFINE m == Head(recvQ)
             after == Uncount("receiveIndex", m)
  <2>1. /\ recvQ' = Tail(recvQ)
        /\ Answer("app", after) \/ AppDoes(after)
    BY <1>3 DEF Take, Uncount
  <2>2. m \in Lens /\ Len(recvQ') = Len(recvQ) - 1
    BY <1>3, <2>1, TailTyped DEF IInv, Typed
  <2>3. /\ Program("app", after) /\ Fresh(after)
        /\ after # <<>> /\ Head(after).op = "load" /\ Rank(after[1]) = 8
        /\ \A c \in Index : Has(after, c, -1) <=> c = "receiveIndex"
    BY <2>2, TakenProgram
  <2> HIDE DEF after
  <2>4. PICK q : /\ Program("app", q) /\ Fresh(q) /\ q # <<>> /\ Head(q).op # "store"
                 /\ \A c \in Index : Has(q, c, -1) <=> c = "receiveIndex"
                 /\ prog' = [prog EXCEPT !["app"] = q]
    <3>1. CASE prog' = [prog EXCEPT !["app"] = after]
      BY <2>3, <3>1
    <3>2. CASE \E l \in Lens : prog' = [prog EXCEPT !["app"] = Post(l) \o after]
      <4>1. PICK l \in Lens : prog' = [prog EXCEPT !["app"] = Post(l) \o after]
        BY <3>2
      <4>2. LET p == Post(l) \o after
            IN  /\ Program("app", p) /\ Fresh(p)
                /\ p # <<>> /\ Head(p).op # "store"
                /\ \A c \in Index : Has(p, c, -1) <=> Has(after, c, -1)
        BY <2>3, PostThen
      <4> QED
        BY <2>3, <4>1, <4>2
    <3> QED
      BY <2>1, <3>1, <3>2 DEF Answer, AppDoes
  <2>5. ASSUME NEW c \in Index
        PROVE  Size(c)' = Size(c) - (IF c = "receiveIndex" THEN 1 ELSE 0)
    <3>1. Len(sendQ) \in Nat /\ Len(sendQ') = Len(sendQ)
      BY <1>1, LenProperties DEF IInv, Typed
    <3>2. CASE c = "sendIndex"
      BY <3>1, <3>2 DEF Size
    <3>3. CASE c = "receiveIndex"
      BY <2>2, <3>3 DEF Size
    <3> QED
      BY <3>2, <3>3 DEF Index
  <2>6. "receiveIndex" \in Index
    BY DEF Index
  <2> QED
    BY <1>1, <2>4, <2>5, <2>6, KeptTaken
<1> QED
  BY <1>2, <1>3

LEMMA KeptDrain ==
  ASSUME IInv, Drain
  PROVE  Kept
<1>1. Begins("app", "drain") /\ recvQ' = recvQ /\ counter' = counter /\ reg' = reg
  BY DEF Drain
<1>2. CASE sendQ = <<>>
  BY <1>1, <1>2, KeptQuiet DEF Drain, Task
<1>3. CASE sendQ # <<>>
  <2> DEFINE m == Head(sendQ)
             q == SendSteps(m)
  <2>1. sendQ' = Tail(sendQ) /\ prog' = [prog EXCEPT !["app"] = q]
    BY <1>3 DEF Drain, AppDoes
  <2>2. m \in Lens /\ Len(sendQ') = Len(sendQ) - 1
    BY <1>3, <2>1, TailTyped DEF IInv, Typed
  <2>3. /\ Program("app", q) /\ Fresh(q) /\ HasDrain(q)
        /\ q # <<>> /\ Head(q).op = "load"
        /\ \A c \in Index : Has(q, c, -1) <=> c = "sendIndex"
    BY <2>2, SendProgram
  <2> HIDE DEF q
  <2>4. ASSUME NEW c \in Index
        PROVE  Size(c)' = Size(c) - (IF c = "sendIndex" THEN 1 ELSE 0)
    <3>1. Len(recvQ) \in Nat
      BY LenProperties DEF IInv, Typed
    <3> QED
      BY <1>1, <2>2, <3>1 DEF Size, Index
  <2>5. "sendIndex" \in Index
    BY DEF Index
  <2> QED
    BY <1>1, <2>1, <2>3, <2>4, <2>5, KeptTaken
<1> QED
  BY <1>2, <1>3

LEMMA KeptStill ==
  ASSUME IInv, UNCHANGED <<queues, counter, prog, reg>>
  PROVE  Kept
BY Still DEF Kept

LEMMA KeptBegin ==
  ASSUME IInv, NEW t \in Task, prog[t] = <<>>, NEW q, prog' = [prog EXCEPT ![t] = q],
         Program(t, q), Fresh(q), q # <<>> => Head(q).op # "store",
         \A c \in Index : ~Has(q, c, -1),
         UNCHANGED <<queues, counter, reg>>
  PROVE  Kept
BY Begin DEF Kept

\* udf_Rafael_data in a handler that does nothing else, or ends in "read".
LEMMA KeptAnswer ==
  ASSUME IInv, NEW t \in Task, prog[t] = <<>>,
         NEW b, b = <<>> \/ (t = "app" /\ b = <<[op |-> "read"]>>),
         Answer(t, b), UNCHANGED <<queues, counter, reg>>
  PROVE  Kept
<1>1. /\ Program(t, b) /\ Fresh(b) /\ (b # <<>> => Head(b).op # "store")
      /\ \A c \in Index : ~Has(b, c, -1)
  BY EmptyProgram, LastSteps
<1>2. CASE prog' = [prog EXCEPT ![t] = b]
  BY <1>1, <1>2, KeptBegin
<1>3. ASSUME NEW l \in Lens, prog' = [prog EXCEPT ![t] = Post(l) \o b]
      PROVE  Kept
  <2>1. CASE b = <<>>
    <3>1. Post(l) \o b = Post(l)
      BY <2>1, PostSteps, ConcatEmptySeq
    <3> QED
      BY <1>3, <3>1, PostProgram, KeptBegin
  <2>2. CASE t = "app" /\ b = <<[op |-> "read"]>>
    <3>1. b # <<>> /\ Rank(b[1]) = 8
      BY <2>2 DEF Rank
    <3>2. LET p == Post(l) \o b
          IN  /\ Program("app", p) /\ Fresh(p)
              /\ p # <<>> /\ Head(p).op # "store"
              /\ \A c \in Index : Has(p, c, -1) <=> Has(b, c, -1)
      BY <1>1, <2>2, <3>1, PostThen
    <3> QED
      BY <1>1, <1>3, <2>2, <3>2, KeptBegin
  <2> QED
    BY <2>1, <2>2
<1> QED
  BY <1>2, <1>3 DEF Answer

LEMMA KeptLast ==
  ASSUME IInv, prog["app"] = <<>>, NEW o \in {"read", "take", "drain"},
         AppDoes(<<[op |-> o]>>), UNCHANGED <<queues, counter, reg>>
  PROVE  Kept
BY LastSteps, KeptBegin DEF AppDoes, Task

LEMMA KeptApp ==
  ASSUME IInv, App
  PROVE  Kept
<1>1. CASE Steps("app")
  BY <1>1, KeptSteps DEF Task
<1>2. CASE Wake
  BY <1>2, KeptStill DEF Wake
<1>3. CASE HandleMeter
  <2>1. prog["app"] = <<>> /\ UNCHANGED <<queues, counter, reg>>
    BY <1>3 DEF HandleMeter, Handles, AppFree
  <2>2. \/ UNCHANGED prog
        \/ Answer("app", <<>>)
        \/ Answer("app", <<[op |-> "read"]>>)
        \/ AppDoes(<<[op |-> "read"]>>)
    BY <1>3 DEF HandleMeter
  <2>3. CASE UNCHANGED prog
    BY <2>1, <2>3, KeptStill
  <2>4. CASE Answer("app", <<>>)
    BY <2>1, <2>4, KeptAnswer DEF Task
  <2>5. CASE Answer("app", <<[op |-> "read"]>>)
    BY <2>1, <2>5, KeptAnswer DEF Task
  <2>6. CASE AppDoes(<<[op |-> "read"]>>)
    BY <2>1, <2>6, KeptLast
  <2> QED
    BY <2>2, <2>3, <2>4, <2>5, <2>6
<1>4. CASE HandleBlock
  <2>1. prog["app"] = <<>> /\ UNCHANGED <<queues, counter, reg>>
    BY <1>4 DEF HandleBlock, Handles, AppFree
  <2>2. UNCHANGED prog \/ AppDoes(<<[op |-> "take"]>>)
    BY <1>4 DEF HandleBlock
  <2> QED
    BY <2>1, <2>2, KeptStill, KeptLast
<1>5. CASE HandleSend
  <2>1. prog["app"] = <<>> /\ UNCHANGED <<queues, counter, reg>>
    BY <1>5 DEF HandleSend, Handles, AppFree
  <2>2. UNCHANGED prog \/ AppDoes(<<[op |-> "drain"]>>)
    BY <1>5 DEF HandleSend
  <2> QED
    BY <2>1, <2>2, KeptStill, KeptLast
<1>6. CASE HandleRegister
  <2>1. prog["app"] = <<>> /\ UNCHANGED <<queues, counter, reg>>
    BY <1>6 DEF HandleRegister, Handles, AppFree
  <2>2. UNCHANGED prog \/ Answer("app", <<>>)
    BY <1>6 DEF HandleRegister
  <2> QED
    BY <2>1, <2>2, KeptStill, KeptAnswer DEF Task
<1>7. CASE ReadOver
  BY <1>7, KeptQuiet DEF ReadOver, Task, queues
<1>8. CASE Take
  BY <1>8, KeptTake
<1>9. CASE Drain
  BY <1>9, KeptDrain
<1> QED
  BY <1>1, <1>2, <1>3, <1>4, <1>5, <1>6, <1>7, <1>8, <1>9 DEF App

LEMMA KeptOt ==
  ASSUME IInv, Ot
  PROVE  Kept
<1>1. CASE Steps("ot")
  BY <1>1, KeptSteps DEF Task
<1>2. CASE Admit
  <2>1. Begins("ot", "admit") /\ UNCHANGED <<queues, counter, reg>>
    BY <1>2 DEF Admit
  <2>2. Drops("ot", 1) \/ Drops("ot", 7)
    BY <1>2 DEF Admit, PostLength
  <2>3. CASE Drops("ot", 1)
    BY <2>1, <2>3, KeptQuiet DEF queues, Task
  <2>4. CASE Drops("ot", 7)
    BY <2>1, <2>4, KeptJump DEF Task
  <2> QED
    BY <2>2, <2>3, <2>4
<1>3. CASE Accept
  <2>1. /\ Begins("ot", "accept") /\ Drops("ot", 1) /\ counter' = counter /\ reg' = reg
        /\ recvQ' = Append(recvQ, Head(prog["ot"]).len) /\ sendQ' = sendQ
    BY <1>3 DEF Accept
  <2>2. Head(prog["ot"]).len \in Lens
    BY <2>1, StepFacts DEF Task
  <2> QED
    BY <2>1, <2>2, KeptQueued DEF Task
<1>4. CASE Accepted
  BY <1>4, KeptQuiet DEF Accepted, Task, queues
<1> QED
  BY <1>1, <1>2, <1>3, <1>4 DEF Ot

\* The timer task queues and counts an answer at once.
LEMMA KeptTimer ==
  ASSUME IInv, Timer
  PROVE  Kept
<1>1. ASSUME NEW l \in Lens, TimerPost(l)
      PROVE  Kept
  <2>1. recvQ' = recvQ /\ prog' = prog /\ reg' = reg
        /\ ((sendQ' = sendQ /\ counter' = counter) \/ TimerPosts(l))
    BY <1>1, TimerPostCases
  <2>2. CASE sendQ' = sendQ /\ counter' = counter
    BY <2>1, <2>2, KeptStill DEF queues
  <2>3. CASE TimerPosts(l)
    <3>1. /\ Len(sendQ') = Len(sendQ) + 1 /\ Len(sendQ) \in Nat
      BY <2>3, AppendProperties, LenProperties DEF TimerPosts, IInv, Typed
    <3>2. /\ counter'["sendIndex"] = counter["sendIndex"] + 1
          /\ counter'["receiveIndex"] = counter["receiveIndex"]
          /\ counter["sendIndex"] \in Nat /\ counter["receiveIndex"] \in Nat
      BY <2>3 DEF TimerPosts, IInv, Typed, Counters
    <3>3. Programs'
      BY <2>1 DEF IInv, Programs
    <3>4. \A c \in Index, u \in Task : Storing(u, c)' <=> Storing(u, c)
      BY <2>1 DEF Storing, Begins
    <3>5. Room("sendIndex")' = Room("sendIndex") + 1 /\ Room("sendIndex") \in Int
      <4>1. Room("sendIndex") \in Int
        BY RoomType DEF IInv, Index
      <4>2. \A p, c : Owed(p, c) \in {0, 1} /\ Short(p, c) \in {0, 1}
        BY DEF Owed, Short
      <4>3. Size("sendIndex")' = Size("sendIndex") + 1 /\ Size("sendIndex") \in Nat
        BY <3>1 DEF Size
      <4> QED
        BY <2>1, <4>1, <4>2, <4>3 DEF Room
    <3>6. Room("receiveIndex")' = Room("receiveIndex")
      BY <2>1 DEF Room, Size
    <3>7. Bounded("sendIndex")'
      <4>1. /\ counter["sendIndex"] <= Room("sendIndex")
            /\ \A u \in Task : Storing(u, "sendIndex") => reg[u] <= Room("sendIndex")
        BY DEF IInv, Counts, Bounded, Index
      <4>2. \A u \in Task : reg[u] \in Nat
        BY DEF IInv, Typed
      <4>3. \A u \in Task : Storing(u, "sendIndex")' => reg'[u] <= Room("sendIndex")'
        BY <2>1, <3>4, <3>5, <4>1, <4>2 DEF Index
      <4> QED
        BY <3>2, <3>5, <4>1, <4>3 DEF Bounded
    <3>8. Bounded("receiveIndex")'
      BY <2>1, <3>2, <3>4, <3>6 DEF IInv, Counts, Bounded, Index
    <3>9. Seen'
      BY <3>2 DEF Seen
    <3> QED
      BY <3>3, <3>7, <3>8, <3>9 DEF Kept, Counts, Index
  <2> QED
    BY <2>1, <2>2, <2>3
<1>2. CASE TimerSend
  BY <1>2, KeptStill DEF TimerSend
<1>3. CASE Second
  BY <1>3, KeptStill DEF Second
<1> QED
  BY <1>1, <1>2, <1>3 DEF Timer

\* After a start nothing is queued, counted or left to do.
LEMMA AtStart ==
  ASSUME /\ recvQ = <<>> /\ sendQ = <<>>
         /\ counter = [c \in Counters |-> 0]
         /\ prog = [t \in Task |-> <<>>]
  PROVE  Programs /\ Counts /\ Seen
<1>1. \A t \in Task : prog[t] = <<>>
  OBVIOUS
<1>2. Programs
  BY <1>1, EmptyProgram DEF Programs
<1>3. ASSUME NEW c \in Index
      PROVE  Bounded(c)
  <2>1. \A t \in Task : ~Storing(t, c)
    BY <1>1 DEF Storing, Begins
  <2>2. ~Has(<<>>, c, -1) /\ ~Uncounted(<<>>, c)
    <3>1. "app" \in Task
      BY DEF Task
    <3> QED
      BY <3>1, EmptyProgram DEF Fresh
  <2>3. Room(c) = 0
    BY <1>1, <2>2 DEF Room, Size, Owed, Short, Task
  <2>4. counter[c] = 0
    BY DEF Index, Counters
  <2> QED
    BY <2>1, <2>3, <2>4 DEF Bounded
<1>4. Seen
  BY DEF Seen
<1> QED
  BY <1>2, <1>3, <1>4 DEF Counts

LEMMA AfterRestart ==
  ASSUME Restart
  PROVE  Kept
<1>1. \A t \in Task : prog'[t] = <<>>
  BY DEF Restart
<1>2. Programs'
  BY <1>1, EmptyProgram DEF Programs
<1>3. ASSUME NEW c \in Index
      PROVE  Bounded(c)'
  <2>1. \A t \in Task : ~Storing(t, c)'
    BY <1>1 DEF Storing, Begins
  <2>2. ~Has(<<>>, c, -1) /\ ~Uncounted(<<>>, c)
    <3>1. "app" \in Task
      BY DEF Task
    <3> QED
      BY <3>1, EmptyProgram DEF Fresh
  <2>3. Size(c)' = 0
    BY DEF Restart, Size
  <2>4. Room(c)' = 0
    BY <1>1, <2>2, <2>3 DEF Room, Owed, Short, Task
  <2>5. counter'[c] = 0
    BY DEF Restart, Index, Counters
  <2> QED
    BY <2>1, <2>4, <2>5 DEF Bounded
<1>4. Seen'
  BY DEF Restart, Seen
<1> QED
  BY <1>2, <1>3, <1>4 DEF Kept, Counts

LEMMA KeptOutside ==
  ASSUME IInv, Outside
  PROVE  Kept
<1>1. ASSUME NEW l \in Lens, OtCommand(l)
      PROVE  Kept
  <2>1. prog["ot"] = <<>> /\ prog' = [prog EXCEPT !["ot"] = Admission(l)]
        /\ UNCHANGED <<queues, counter, reg>>
    BY <1>1 DEF OtCommand
  <2>2. /\ Program("ot", Admission(l)) /\ Fresh(Admission(l))
        /\ Admission(l) # <<>> /\ Head(Admission(l)).op # "store"
        /\ \A c \in Index : ~Has(Admission(l), c, -1)
    BY AdmissionProgram
  <2> QED
    BY <2>1, <2>2, KeptBegin DEF Task
<1>2. CASE OtAnswer
  BY <1>2, KeptAnswer DEF OtAnswer, Task
<1>3. CASE OtReset
  BY <1>3, KeptStill DEF OtReset
<1>4. CASE OtRole
  BY <1>4, KeptStill DEF OtRole
<1>5. CASE MeterFrame
  BY <1>5, KeptStill DEF MeterFrame
<1>6. CASE RegisterTimeout
  BY <1>6, KeptStill DEF RegisterTimeout
<1>7. CASE Restart
  BY <1>7, AfterRestart
<1> QED
  BY <1>1, <1>2, <1>3, <1>4, <1>5, <1>6, <1>7 DEF Outside

-----------------------------------------------------------------------------
(* The theorems.                                                             *)

\* IInv holds at the start, and every step keeps it.
LEMMA Inductive ==
  /\ Init => IInv
  /\ IInv /\ [Next]_vars => IInv'
<1>1. ASSUME Init PROVE IInv
  <2>1. Programs /\ Counts /\ Seen
    BY <1>1, AtStart DEF Init
  <2>2. /\ recvQ \in Seq(Lens) /\ Len(recvQ) = 0 /\ sendQ \in Seq(Lens) /\ Len(sendQ) = 0
    BY <1>1 DEF Init
  <2>3. /\ counter \in [Counters -> Nat] /\ flag \in [Flags -> BOOLEAN]
        /\ count \in [Flags -> 0..(BusyTime - 1)]
    BY <1>1, QueuesAssumption DEF Init
  <2>4. /\ finished \in BOOLEAN /\ attached \in BOOLEAN
        /\ events = {} /\ todo = {}
    BY <1>1 DEF Init
  <2>5. inputs \in 0..MaxInputs
    BY <1>1, QueuesAssumption DEF Init
  <2>6. DOMAIN prog = Task /\ reg \in [Task -> Nat]
    BY <1>1 DEF Init
  <2>7. Typed
    BY <2>2, <2>3, <2>4, <2>5, <2>6, QueuesAssumption DEF Typed
  <2> QED
    BY <2>1, <2>7 DEF IInv
<1>2. ASSUME IInv, Next PROVE IInv'
  <2>1. CASE App
    BY <1>2, <2>1, TypedApp, KeptApp DEF IInv, Kept
  <2>2. CASE Ot
    BY <1>2, <2>2, TypedOt, KeptOt DEF IInv, Kept
  <2>3. CASE Timer
    BY <1>2, <2>3, TypedTimer, KeptTimer DEF IInv, Kept
  <2>4. CASE Outside
    BY <1>2, <2>4, TypedOutside, KeptOutside DEF IInv, Kept
  <2> QED
    BY <1>2, <2>1, <2>2, <2>3, <2>4 DEF Next
<1>3. ASSUME IInv, UNCHANGED vars PROVE IInv'
  <2>1. Typed'
    BY <1>3 DEF IInv, Typed, vars, queues, flags, wake
  <2>2. UNCHANGED <<queues, counter, prog, reg>>
    BY <1>3 DEF vars
  <2> QED
    BY <1>3, <2>1, <2>2, Still DEF IInv
<1> QED
  BY <1>1, <1>2, <1>3

\* What the invariant says in terms of the properties of the model.
LEMMA HasOwes ==
  ASSUME IInv, NEW t \in Task, NEW c \in Index, NEW k \in {1, -1}, Has(prog[t], c, k)
  PROVE  Owes(t, c, k)
<1>1. PICK i \in 1..Len(prog[t]) :
        prog[t][i].op \in Moves /\ prog[t][i].of = c /\ prog[t][i].by = k
  BY DEF Has
<1>2. prog[t][i] \in StepOf(t)
  <2>1. prog[t] \in Seq(StepOf(t))
    BY DEF IInv, Programs, Program
  <2> QED
    BY <2>1, ElementOfSeq
<1>3. \/ prog[t][i] = [op |-> "load", of |-> c, by |-> k]
      \/ prog[t][i] = [op |-> "store", of |-> c, by |-> k]
  BY <1>1, <1>2, StepKinds DEF Moves, LoadOf, StoreOf
<1>4. \E j \in 1..2 : prog[t][i] = Change(c, k)[j]
  BY <1>3, ChangeSteps
<1> QED
  BY <1>4 DEF Owes

LEMMA UncountedCounting ==
  ASSUME IInv, NEW t \in Task, Uncounted(prog[t], "sendIndex")
  PROVE  Counting(t)
<1>1. Owes(t, "sendIndex", 1)
  BY HasOwes DEF Uncounted, Index
<1>2. ASSUME NEW o \in {"check", "queue"}, Begins(t, o) PROVE FALSE
  <2>1. /\ prog[t][1].op = o /\ prog[t][1] \in StepOf(t) /\ Rank(prog[t][1]) \in 1..12
    BY <1>2, StepFacts
  <2>2. Rank(prog[t][1]) \in {1, 2}
    BY <2>1, StepKinds
  <2> QED
    BY <2>2 DEF Uncounted
<1> QED
  BY <1>1, <1>2 DEF Counting

LEMMA InvariantsHold ==
  ASSUME IInv
  PROVE  TypeOK /\ IndexTrails /\ QueuedIsSeen
<1>1. ASSUME NEW c \in Index
      PROVE  /\ counter[c] <= Size(c) + Owed(prog["app"], c)
             /\ counter[c] \in Nat /\ Size(c) \in 0..QueueSize
             /\ Owed(prog["app"], c) \in {0, 1}
  <2>1. Size(c) \in 0..QueueSize
    BY LenProperties, QueuesAssumption DEF IInv, Typed, Size
  <2>2. \A p : Owed(p, c) \in {0, 1} /\ Short(p, c) \in {0, 1}
    BY DEF Owed, Short
  <2>3. counter[c] <= Room(c) /\ counter[c] \in Nat
    BY RoomType DEF IInv, Counts, Bounded
  <2> QED
    BY <2>1, <2>2, <2>3, QueuesAssumption DEF Room
<1>2. TypeOK
  <2>1. \A c \in Index : counter[c] \in 0..(QueueSize + 1)
    BY <1>1, QueuesAssumption
  <2> QED
    BY <2>1 DEF TypeOK, IInv, Typed, Index, Counters
<1>3. IndexTrails
  <2>1. Owed(prog["app"], "sendIndex") <= IF Owes("app", "sendIndex", -1) THEN 1 ELSE 0
    BY HasOwes DEF Owed, Task, Index
  <2> QED
    BY <1>1, <2>1 DEF IndexTrails, Size, Index
<1>4. QueuedIsSeen
  BY UncountedCounting DEF QueuedIsSeen, IInv, Seen, HasDrain, Draining
<1> QED
  BY <1>2, <1>3, <1>4

\* Each variable keeps its type: the FreeRTOS queues hold no more than QUEUE_SIZE
\* entries, and the counters of entries stay within one of that in spite of the
\* unlocked updates of three tasks.
THEOREM TypeCorrect == Spec => []TypeOK
<1>1. IInv => TypeOK
  BY InvariantsHold
<1> QED
  BY <1>1, Inductive, PTL DEF Spec

\* sendIndex never runs ahead of the queue of answers by more than the entry that
\* the application task is just taking out (das_dlms_cmd.c:5697): no lost update
\* makes it count an answer that is not there.
THEOREM IndexNeverAhead == Spec => []IndexTrails
<1>1. IInv => IndexTrails
  BY InvariantsHold
<1> QED
  BY <1>1, Inductive, PTL DEF Spec

\* A queued answer is counted, about to be counted, or about to be taken out: the
\* unlocked updates of sendIndex by send_queue and Send_Queue_processing never
\* leave an answer behind with nobody to look for it.
THEOREM NoAnswerForgotten == Spec => []QueuedIsSeen
<1>1. IInv => QueuedIsSeen
  BY InvariantsHold
<1> QED
  BY <1>1, Inductive, PTL DEF Spec
=============================================================================
