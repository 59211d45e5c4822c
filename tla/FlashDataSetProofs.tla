-------------------------- MODULE FlashDataSetProofs --------------------------
(* Proofs about the data set of flashds.c, for every number of types, of      *)
(* records in a page and of calls.                                            *)
(*                                                                            *)
(* TypeCorrect: the pages, the record table and the RAM hold what they may,   *)
(* through scans, moves, losses of power and repairs.  The point is that a    *)
(* move programs within the page: the copy of type t is at most the t-th      *)
(* record there, and a page has room for a record of every type.              *)
(*                                                                            *)
(* EntriesAreCurrent, ReadsAreLast and NoneGarbled are about the first power  *)
(* cycle.  Cycle says what holds in the middle of a write: the steps left are *)
(* those of a write with a move or without, what is still to be programmed is *)
(* erased, and an entry of the table is in the page moved to if the move has  *)
(* come past its type, and else still in the current page.                    *)
EXTENDS FlashDataSet, SequenceTheorems, FiniteSetTheorems, WellFoundedInduction, TLAPS

-----------------------------------------------------------------------------
(* Least and highest: what the CHOOSEs of a scan find.                       *)

\* A set of numbers with a member has a least one.
LEMMA LeastOf ==
  ASSUME NEW I \in SUBSET Nat, I # {}
  PROVE  \E k \in I : \A j \in I : k <= j
<1>1. \E k \in I : \A j \in I : <<j, k>> \notin OpToRel(<, Nat)
  BY NatLessThanWellFounded, WFMin
<1>2. \A k, j \in Nat : <<j, k>> \notin OpToRel(<, Nat) => k <= j
  BY DEF OpToRel
<1> QED
  BY <1>1, <1>2

\* Of finitely many numbers one is the highest: the first of the prefixes of
\* slots without one would end behind a slot that is it.
LEMMA HighestOf ==
  ASSUME NEW f \in [Slot -> Nat], NEW S \in SUBSET Slot, S # {}
  PROVE  \E k \in S : \A j \in S : f[j] <= f[k]
<1> DEFINE Below(n) == {j \in S : j < n}
           Good(n) == Below(n) = {} \/ \E k \in Below(n) : \A j \in Below(n) : f[j] <= f[k]
           Bad == {n \in Nat : ~Good(n)}
<1>0. PageSlots \in Nat /\ Slot = 0..(PageSlots - 1)
  BY DataSetAssumption DEF Slot
<1>1. \A j \in S : j \in Nat /\ j < PageSlots /\ f[j] \in Nat
  BY <1>0
<1>2. ASSUME Bad # {} PROVE FALSE
  <2>1. PICK n \in Bad : \A m \in Bad : n <= m
    BY <1>2, LeastOf
  <2>2. n \in Nat /\ ~Good(n)
    OBVIOUS
  <2>3. n # 0
    <3>1. Below(0) = {}
      BY <1>1
    <3> QED
      BY <2>2, <3>1
  <2>4. n - 1 \in Nat /\ n - 1 \notin Bad
    BY <2>1, <2>2, <2>3
  <2>5. Good(n - 1)
    BY <2>4
  <2>6. Below(n) = IF n - 1 \in S THEN Below(n - 1) \cup {n - 1} ELSE Below(n - 1)
    BY <1>1, <2>2, <2>4
  <2>7. CASE n - 1 \notin S
    BY <2>2, <2>5, <2>6, <2>7
  <2>8. CASE n - 1 \in S /\ Below(n - 1) = {}
    <3>1. Below(n) = {n - 1}
      BY <2>6, <2>8
    <3>2. f[n - 1] <= f[n - 1]
      BY <1>1, <2>8
    <3> HIDE DEF Below
    <3> QED
      BY <2>2, <3>1, <3>2
  <2>9. CASE n - 1 \in S /\ Below(n - 1) # {}
    <3>1. PICK k \in Below(n - 1) : \A j \in Below(n - 1) : f[j] <= f[k]
      BY <2>5, <2>9
    <3>2. k \in S /\ f[k] \in Nat /\ f[n - 1] \in Nat
      BY <1>1, <2>9
    <3>3. Below(n) = Below(n - 1) \cup {n - 1} /\ Below(n - 1) \subseteq S
      BY <2>6, <2>9
    <3> HIDE DEF Below
    <3>4. CASE f[n - 1] <= f[k]
      BY <2>2, <3>1, <3>2, <3>3, <3>4
    <3>5. CASE f[k] < f[n - 1]
      <4>1. \A j \in Below(n) : f[j] <= f[n - 1]
        BY <1>1, <3>1, <3>2, <3>3, <3>5
      <4> QED
        BY <2>2, <3>3, <4>1
    <3> QED
      BY <3>2, <3>4, <3>5
  <2> QED
    BY <2>7, <2>8, <2>9
<1>4. Good(PageSlots)
  BY <1>0, <1>2
<1>5. Below(PageSlots) = S
  BY <1>1
<1> QED
  BY <1>4, <1>5

\* The end of a scan is in the page, or is its end.
LEMMA ScanEndIn == ASSUME NEW p PROVE ScanEnd(p) \in 0..PageSlots
<1> DEFINE I == {k \in Slot : Ends(flash[p][k])}
<1>1. PageSlots \in Nat /\ Slot = 0..(PageSlots - 1)
  BY DataSetAssumption DEF Slot
<1>2. \E k \in 0..PageSlots : /\ \A j \in Slot : j < k => ~Ends(flash[p][j])
                              /\ k \in Slot => Ends(flash[p][k])
  <2>1. CASE I = {}
    <3>1. PageSlots \in 0..PageSlots /\ PageSlots \notin Slot
      BY <1>1
    <3> QED
      BY <2>1, <3>1
  <2>2. CASE I # {}
    <3>0. I \in SUBSET Nat
      BY <1>1
    <3>1. PICK k \in I : \A j \in I : k <= j
      BY <2>2, <3>0, LeastOf
    <3>2. k \in 0..PageSlots
      BY <1>1
    <3>3. ASSUME NEW j \in Slot, j < k, Ends(flash[p][j]) PROVE FALSE
      BY <1>1, <3>1, <3>3
    <3> QED
      BY <3>1, <3>2, <3>3
  <2> QED
    BY <2>1, <2>2
<1> QED
  BY <1>2 DEF ScanEnd

\* The record that a scan takes for a type is one of those it sees.
LEMMA NewestIn ==
  ASSUME NEW p, NEW t, flash[p] \in [Slot -> Cell],
         \E k \in Seen(p) : flash[p][k].type = t
  PROVE  Newest(p, t) \in Seen(p)
<1> DEFINE S == {k \in Seen(p) : flash[p][k].type = t}
           f == [k \in Slot |-> flash[p][k].sn]
<1>1. S # {} /\ S \in SUBSET Slot /\ Slot \subseteq Nat
  BY DataSetAssumption DEF Seen, Slot
<1>2. f \in [Slot -> Nat]
  BY DEF Cell
<1>3. \A k \in S : f[k] = flash[p][k].sn /\ f[k] \in Nat
  BY <1>1, <1>2
<1> HIDE DEF f
<1>4. PICK k \in S : \A j \in S : f[j] <= f[k]
  BY <1>1, <1>2, HighestOf
<1> DEFINE I == {i \in S : f[i] = f[k]}
<1>5. I # {} /\ I \in SUBSET Nat
  BY <1>1
<1>6. PICK i \in I : \A j \in I : i <= j
  BY <1>5, LeastOf
<1> HIDE DEF S
<1>7. i \in S /\ \A j \in S : f[j] < f[i] \/ (f[j] = f[i] /\ i <= j)
  BY <1>3, <1>4, <1>6
<1>8. i \in S /\ \A j \in S : \/ flash[p][j].sn < flash[p][i].sn
                              \/ flash[p][j].sn = flash[p][i].sn /\ i <= j
  BY <1>3, <1>7
<1> QED
  BY <1>8 DEF Newest, S

\* The serial number after a scan is one of those seen, or the one before.
LEMMA HighestSnIn ==
  ASSUME NEW p, NEW s \in Nat, flash[p] \in [Slot -> Cell]
  PROVE  HighestSn(p, s) \in Nat
<1> DEFINE f == [k \in Slot |-> flash[p][k].sn]
           S == Seen(p)
           M == {flash[p][k].sn : k \in S} \cup {s}
<1>1. S \in SUBSET Slot /\ f \in [Slot -> Nat]
  BY DEF Seen, Cell
<1>2. \A k \in S : f[k] = flash[p][k].sn /\ f[k] \in Nat
  BY <1>1
<1>3. M \in SUBSET Nat
  BY <1>2
<1> HIDE DEF f
<1>4. \E m \in M : m >= s /\ \A k \in S : flash[p][k].sn <= m
  <2>1. CASE S = {}
    BY <2>1
  <2>2. CASE S # {}
    <3>1. PICK k \in S : \A j \in S : f[j] <= f[k]
      BY <1>1, <2>2, HighestOf
    <3>2. CASE f[k] >= s
      BY <1>2, <3>1, <3>2
    <3>3. CASE f[k] < s
      BY <1>2, <3>1, <3>3
    <3> QED
      BY <1>2, <3>1, <3>2, <3>3
  <2> QED
    BY <2>1, <2>2
<1>5. HighestSn(p, s) \in M
  BY <1>4 DEF HighestSn
<1> QED
  BY <1>3, <1>5

-----------------------------------------------------------------------------
(* The steps of a call.                                                      *)

\* Steps that copy nothing, and all.
PlainStep == [op : {"erase", "move", "settle", "scan"}, page : Page]
          \cup [op : {"write"}, type : Type, val : Value]
          \cup {Default}

JobStep == PlainStep \cup [op : {"copy"}, type : Type, page : Page]

\* A copy follows the move, or the copy of the type before; if it is the next
\* step, m records at most have been copied, one for each type before.
InRow(m, j) ==
  \A i \in DOMAIN j : j[i].op = "copy" =>
    IF i = 1 THEN m < j[1].type
    ELSE \/ j[i - 1].op = "copy" /\ j[i].type = j[i - 1].type + 1
         \/ j[i - 1].op = "move" /\ j[i].type = 1

\* The constants and the sets made from them.
LEMMA MaxTypeNat == MaxType \in Nat \ {0} /\ MaxType <= PageSlots /\ PageSlots \in Nat \ {0}
                    /\ Type = 1..MaxType /\ Slot = 0..(PageSlots - 1) /\ 0 \in Page /\ 1 \in Page
<1>1. PageSlots \in Nat \ {0} /\ MaxType \in 1..PageSlots
  BY DataSetAssumption
<1> QED
  BY <1>1 DEF Type, Slot, Page

LEMMA OtherIn == ASSUME NEW p \in Page PROVE Other(p) \in Page /\ Other(p) # p /\ Other(Other(p)) = p
BY DEF Page, Other

\* The steps of a move.
LEMMA MoveSteps ==
  ASSUME NEW p \in Page
  PROVE  /\ MoveOf(p) \in Seq(JobStep) /\ Len(MoveOf(p)) = MaxType + 1
         /\ MoveOf(p)[1] = [op |-> "move", page |-> p]
         /\ \A t \in Type : MoveOf(p)[t + 1] = CopyOf(t, Other(p))
<1> DEFINE c == Copies(p)
           h == <<[op |-> "move", page |-> p]>>
<1>1. MaxType \in Nat /\ Type = 1..MaxType
  BY MaxTypeNat
<1>2. \A t \in Type : CopyOf(t, Other(p)) \in JobStep
  BY OtherIn DEF JobStep, CopyOf
<1>3. c \in Seq(JobStep) /\ Len(c) = MaxType /\ \A t \in Type : c[t] = CopyOf(t, Other(p))
  BY <1>1, <1>2 DEF Copies
<1>4. h \in Seq(JobStep) /\ Len(h) = 1 /\ h[1] = [op |-> "move", page |-> p]
  BY DEF JobStep, PlainStep
<1> HIDE DEF c, h
<1>7. /\ h \o c \in Seq(JobStep) /\ Len(h \o c) = Len(h) + Len(c)
      /\ \A i \in 1..Len(h) : (h \o c)[i] = h[i]
      /\ \A i \in 1..Len(c) : (h \o c)[Len(h) + i] = c[i]
  <2>1. h \in Seq(JobStep) /\ c \in Seq(JobStep)
    BY <1>3, <1>4
  <2> QED
    BY <2>1
<1> DEFINE j == h \o c
<1> HIDE DEF j
<1>8. \A t \in 1..MaxType : 1 + t = t + 1
  BY <1>1
<1>5. /\ j \in Seq(JobStep) /\ Len(j) = MaxType + 1 /\ j[1] = h[1]
      /\ \A t \in 1..MaxType : j[t + 1] = c[t]
  <2>1. /\ j \in Seq(JobStep) /\ Len(j) = Len(h) + Len(c)
        /\ \A i \in 1..Len(h) : j[i] = h[i]
        /\ \A i \in 1..Len(c) : j[Len(h) + i] = c[i]
    BY <1>7 DEF j
  <2>2. Len(h) = 1 /\ Len(c) = MaxType
    BY <1>3, <1>4
  <2>3. \A i \in 1..MaxType : j[1 + i] = c[i]
    BY <2>1, <2>2
  <2> QED
    BY <1>1, <1>8, <2>1, <2>2, <2>3
<1>6. MoveOf(p) = j
  BY DEF MoveOf, h, c, j
<1> QED
  BY <1>1, <1>3, <1>4, <1>5, <1>6

\* The job j is the n steps of a, a move of page p, and the steps of b.
MovesWithin(p, a, n, b, j) ==
  /\ j \in Seq(JobStep) /\ Len(j) = n + MaxType + 1 + Len(b)
  /\ \A i \in 1..n : j[i] = a[i]
  /\ j[n + 1] = [op |-> "move", page |-> p]
  /\ \A t \in Type : j[n + 1 + t] = CopyOf(t, Other(p))
  /\ \A i \in 1..Len(b) : j[n + MaxType + 1 + i] = b[i]

\* A move within the steps of a call.
LEMMA MoveWithin ==
  ASSUME NEW p \in Page, NEW a \in Seq(PlainStep), NEW b \in Seq(PlainStep)
  PROVE  MovesWithin(p, a, Len(a), b, a \o MoveOf(p) \o b)
<1> DEFINE m == MoveOf(p)
           n == Len(a)
           j == a \o m \o b
<1>1. MaxType \in Nat /\ Type = 1..MaxType
  BY MaxTypeNat
<1>2. m \in Seq(JobStep) /\ Len(m) = MaxType + 1 /\ m[1] = [op |-> "move", page |-> p]
      /\ \A t \in Type : m[t + 1] = CopyOf(t, Other(p))
  BY MoveSteps
<1>3. a \in Seq(JobStep) /\ b \in Seq(JobStep) /\ n \in Nat /\ Len(b) \in Nat
  BY DEF JobStep
<1> HIDE DEF m
<1> DEFINE k == a \o m
<1>4. /\ k \in Seq(JobStep) /\ Len(k) = n + MaxType + 1
      /\ \A i \in 1..n : k[i] = a[i]
      /\ \A i \in 1..(MaxType + 1) : k[n + i] = m[i]
  <2>1. /\ a \o m \in Seq(JobStep) /\ Len(a \o m) = Len(a) + Len(m)
        /\ \A i \in 1..Len(a) : (a \o m)[i] = a[i]
        /\ \A i \in 1..Len(m) : (a \o m)[Len(a) + i] = m[i]
    <3>1. a \in Seq(JobStep) /\ m \in Seq(JobStep)
      BY <1>2, <1>3
    <3> QED
      BY <3>1
  <2> HIDE DEF k
  <2>2. k \in Seq(JobStep) /\ Len(k) = n + (MaxType + 1)
        /\ (\A i \in 1..n : k[i] = a[i]) /\ \A i \in 1..(MaxType + 1) : k[n + i] = m[i]
    BY <1>2, <2>1 DEF k
  <2> QED
    BY <1>1, <1>3, <2>2
<1> HIDE DEF k
<1>9. /\ k \o b \in Seq(JobStep) /\ Len(k \o b) = Len(k) + Len(b)
      /\ \A i \in 1..Len(k) : (k \o b)[i] = k[i]
      /\ \A i \in 1..Len(b) : (k \o b)[Len(k) + i] = b[i]
  <2>1. k \in Seq(JobStep) /\ b \in Seq(JobStep)
    BY <1>3, <1>4
  <2> QED
    BY <2>1
<1> HIDE DEF n
<1>5. /\ k \o b \in Seq(JobStep) /\ Len(k \o b) = n + MaxType + 1 + Len(b)
      /\ \A i \in 1..(n + MaxType + 1) : (k \o b)[i] = k[i]
      /\ \A i \in 1..Len(b) : (k \o b)[n + MaxType + 1 + i] = b[i]
  BY <1>4, <1>9
<1>6. j = k \o b
  BY DEF k
<1> HIDE DEF j
<1>7. /\ \A i \in 1..n : j[i] = a[i]
      /\ j[n + 1] = [op |-> "move", page |-> p]
  <2>1. ASSUME NEW i \in 1..n PROVE j[i] = a[i]
    BY <1>1, <1>3, <1>4, <1>5, <1>6, <2>1
  <2>2. 1 \in 1..(MaxType + 1) /\ n + 1 \in 1..(n + MaxType + 1)
    BY <1>1, <1>3
  <2>3. j[n + 1] = m[1]
    BY <1>4, <1>5, <1>6, <2>2
  <2> QED
    BY <1>2, <2>1, <2>3
<1>8. ASSUME NEW t \in Type PROVE j[n + 1 + t] = CopyOf(t, Other(p))
  <2>1. t + 1 \in 1..(MaxType + 1) /\ n + (t + 1) \in 1..(n + MaxType + 1)
        /\ n + (t + 1) = n + 1 + t
    BY <1>1, <1>3
  <2>2. j[n + (t + 1)] = m[t + 1]
    BY <1>4, <1>5, <1>6, <2>1
  <2> QED
    BY <1>2, <2>1, <2>2
<1>10. MovesWithin(p, a, n, b, j)
  BY <1>5, <1>6, <1>7, <1>8 DEF MovesWithin
<1> QED
  BY <1>10 DEF n, j, m

\* What the steps of each kind name.
LEMMA CopyIsNotPlain ==
  /\ \A o \in PlainStep : o.op # "copy"
  /\ \A o \in JobStep : o.op = "copy" => o.type \in Type /\ o.page \in Page /\ o = CopyOf(o.type, o.page)
  /\ \A o \in JobStep : o.op \in {"erase", "move", "settle", "scan"} => o.page \in Page
  /\ \A o \in JobStep : o.op = "write" => o.type \in Type /\ o.val \in Value
BY DEF PlainStep, JobStep, Default, CopyOf

\* Steps that copy nothing are in row.
LEMMA PlainInRow ==
  ASSUME NEW j \in Seq(PlainStep)
  PROVE  j \in Seq(JobStep) /\ \A m : InRow(m, j)
<1>1. j \in Seq(JobStep)
  BY DEF JobStep
<1>2. \A i \in DOMAIN j : j[i] \in PlainStep
  OBVIOUS
<1> QED
  BY <1>1, <1>2, CopyIsNotPlain DEF InRow

\* The copies of a move are in row.
LEMMA MoveInRow ==
  ASSUME NEW p \in Page, NEW a \in Seq(PlainStep), NEW b \in Seq(PlainStep)
  PROVE  a \o MoveOf(p) \o b \in Seq(JobStep) /\ \A m : InRow(m, a \o MoveOf(p) \o b)
<1> DEFINE j == a \o MoveOf(p) \o b
           n == Len(a)
<1>1. MaxType \in Nat /\ Type = 1..MaxType
  BY MaxTypeNat
<1>2. /\ j \in Seq(JobStep) /\ Len(j) = n + MaxType + 1 + Len(b)
      /\ \A i \in 1..n : j[i] = a[i]
      /\ j[n + 1] = [op |-> "move", page |-> p]
      /\ \A t \in Type : j[n + 1 + t] = CopyOf(t, Other(p))
      /\ \A i \in 1..Len(b) : j[n + MaxType + 1 + i] = b[i]
  <2>1. MovesWithin(p, a, n, b, j)
    BY MoveWithin
  <2> HIDE DEF j, n
  <2> QED
    BY <2>1 DEF MovesWithin
<1>3. n \in Nat /\ Len(b) \in Nat /\ (\A i \in 1..n : a[i] \in PlainStep)
      /\ \A i \in 1..Len(b) : b[i] \in PlainStep
  OBVIOUS
<1> HIDE DEF j, n
<1>4. ASSUME NEW m, NEW i \in DOMAIN j, j[i].op = "copy"
      PROVE  /\ i # 1
             /\ \/ j[i - 1].op = "copy" /\ j[i].type = j[i - 1].type + 1
                \/ j[i - 1].op = "move" /\ j[i].type = 1
  <2>1. i \in 1..(n + MaxType + 1 + Len(b))
    BY <1>2
  <2>2. ~(i <= n)
    BY <1>2, <1>3, <1>4, <2>1, CopyIsNotPlain
  <2>3. i # n + 1
    BY <1>2, <1>4
  <2>4. ~(i > n + MaxType + 1)
    <3>1. SUFFICES ASSUME i > n + MaxType + 1 PROVE FALSE
      OBVIOUS
    <3>2. PICK k \in 1..Len(b) : i = n + MaxType + 1 + k
      <4>1. i - (n + MaxType + 1) \in 1..Len(b)
        BY <1>1, <1>3, <2>1, <3>1
      <4> QED
        BY <1>1, <1>3, <2>1, <4>1
    <3>3. j[i] = b[k]
      BY <1>2, <3>2
    <3> QED
      BY <1>3, <1>4, <3>3, CopyIsNotPlain
  <2>5. PICK t \in Type : i = n + 1 + t
    <3>1. i - (n + 1) \in 1..MaxType /\ i = n + 1 + (i - (n + 1))
      BY <1>1, <1>3, <2>1, <2>2, <2>3, <2>4
    <3> QED
      BY <1>1, <3>1
  <2>6. j[i] = CopyOf(t, Other(p)) /\ t \in Nat /\ 1 <= t /\ t <= MaxType
    BY <1>1, <1>2, <2>5
  <2>7. CASE t = 1
    <3>1. i - 1 = n + 1
      BY <1>3, <2>5, <2>7
    <3> QED
      BY <1>2, <1>3, <2>5, <2>6, <2>7, <3>1 DEF CopyOf
  <2>8. CASE t # 1
    <3>1. i - 1 = n + 1 + (t - 1) /\ t - 1 \in Type
      BY <1>1, <1>3, <2>5, <2>6, <2>8
    <3>2. j[i - 1] = CopyOf(t - 1, Other(p))
      BY <1>2, <3>1
    <3>3. j[i - 1].op = "copy" /\ j[i - 1].type = t - 1 /\ j[i].type = t
      BY <2>6, <3>2 DEF CopyOf
    <3> QED
      BY <1>3, <2>5, <2>6, <3>3
  <2> QED
    BY <2>7, <2>8
<1>5. \A m : InRow(m, j)
  BY <1>4 DEF InRow
<1> QED
  BY <1>2, <1>5 DEF j

\* A step done.
LEMMA TailInRow ==
  ASSUME NEW j \in Seq(JobStep), j # <<>>, NEW m \in Nat, NEW n \in Nat, InRow(m, j),
         j[1].op = "copy" => n <= j[1].type,
         j[1].op = "move" => n = 0
  PROVE  Tail(j) \in Seq(JobStep) /\ InRow(n, Tail(j))
<1>1. /\ Len(j) \in Nat \ {0} /\ Tail(j) \in Seq(JobStep)
      /\ DOMAIN Tail(j) = 1..(Len(j) - 1)
      /\ \A i \in 1..(Len(j) - 1) : Tail(j)[i] = j[i + 1]
      /\ DOMAIN j = 1..Len(j) /\ j[1] \in JobStep
  OBVIOUS
<1>2. ASSUME NEW i \in DOMAIN Tail(j), Tail(j)[i].op = "copy"
      PROVE  IF i = 1 THEN n < Tail(j)[1].type
             ELSE \/ Tail(j)[i - 1].op = "copy" /\ Tail(j)[i].type = Tail(j)[i - 1].type + 1
                  \/ Tail(j)[i - 1].op = "move" /\ Tail(j)[i].type = 1
  <2>1. i + 1 \in DOMAIN j /\ i + 1 # 1 /\ (i + 1) - 1 = i /\ i \in Nat /\ i >= 1
    BY <1>1
  <2>2. j[i + 1].op = "copy"
    BY <1>1, <1>2
  <2>3. \/ j[i].op = "copy" /\ j[i + 1].type = j[i].type + 1
        \/ j[i].op = "move" /\ j[i + 1].type = 1
    BY <2>1, <2>2 DEF InRow
  <2>4. Tail(j)[i] = j[i + 1]
    BY <1>1, <1>2
  <2>5. CASE i = 1
    <3>1. j[1].op = "copy" => j[1].type \in Nat
      BY <1>1, CopyIsNotPlain, MaxTypeNat
    <3>2. n < j[2].type
      BY <2>3, <2>5, <3>1
    <3> QED
      BY <2>4, <2>5, <3>2
  <2>6. CASE i # 1
    <3>1. i - 1 \in 1..(Len(j) - 1) /\ (i - 1) + 1 = i
      BY <1>1, <2>1, <2>6
    <3>2. Tail(j)[i - 1] = j[i]
      BY <1>1, <3>1
    <3> QED
      BY <2>3, <2>4, <2>6, <3>2
  <2> QED
    BY <2>5, <2>6
<1> QED
  BY <1>1, <1>2 DEF InRow

-----------------------------------------------------------------------------
(* Types.                                                                    *)

TypeInv == TypeOK /\ job \in Seq(JobStep) /\ InRow(mig, job)

\* What a scan starts from and returns.
Ram == [table : [Type -> Place \cup {None}], page : Page, pos : 0..PageSlots, sn : Nat]

\* A scan leaves the RAM with values of its types.
LEMMA ScanTypes ==
  ASSUME TypeOK, NEW r \in Ram, NEW p \in Page, NEW s \in Scan(r, p)
  PROVE  s.ram \in Ram
<1>1. flash[p] \in [Slot -> Cell] /\ Slot = 0..(PageSlots - 1) /\ PageSlots \in Nat
  BY MaxTypeNat DEF TypeOK
<1>2. r.table \in [Type -> Place \cup {None}] /\ r.page \in Page /\ r.pos \in 0..PageSlots
      /\ r.sn \in Nat
  BY DEF Ram
<1> DEFINE new(t) == [sn |-> flash[p][Newest(p, t)].sn, page |-> p, slot |-> Newest(p, t)]
           e(t) == IF \E k \in Seen(p) : flash[p][k].type = t
                     THEN IF Takes(r.table[t], new(t)) THEN new(t) ELSE r.table[t]
                     ELSE r.table[t]
<1>3. ASSUME NEW t \in Type PROVE e(t) \in Place \cup {None}
  <2>1. CASE \E k \in Seen(p) : flash[p][k].type = t
    <3>1. Newest(p, t) \in Slot
      BY <1>1, <2>1, NewestIn DEF Seen
    <3>2. flash[p][Newest(p, t)].sn \in Nat
      BY <1>1, <3>1 DEF Cell
    <3>3. new(t) \in Place
      BY <3>1, <3>2 DEF Place
    <3> HIDE DEF new
    <3> QED
      BY <1>2, <3>3
  <2>2. CASE ~\E k \in Seen(p) : flash[p][k].type = t
    BY <1>2, <2>2
  <2> QED
    BY <2>1, <2>2
<1>4. [t \in Type |-> e(t)] \in [Type -> Place \cup {None}]
  BY <1>3
<1>5. Scanned(r, p).table = [t \in Type |-> e(t)]
  BY DEF Scanned
<1>6. (IF ScanFails(p) THEN r.pos ELSE ScanEnd(p)) \in 0..PageSlots
  BY <1>2, ScanEndIn
<1>7. HighestSn(p, r.sn) \in Nat
  BY <1>1, <1>2, HighestSnIn
<1>8. Scanned(r, p) = [table |-> Scanned(r, p).table, page |-> p,
                       pos |-> IF ScanFails(p) THEN r.pos ELSE ScanEnd(p),
                       sn |-> HighestSn(p, r.sn)]
  BY DEF Scanned
<1> HIDE DEF e
<1>9. Scanned(r, p) \in Ram
  BY <1>4, <1>5, <1>6, <1>7, <1>8 DEF Ram
<1>10. [r EXCEPT !.page = p] \in Ram
  BY DEF Ram
<1>11. s.ram = Scanned(r, p) \/ s.ram = [r EXCEPT !.page = p]
  BY DEF Scan
<1> QED
  BY <1>9, <1>10, <1>11

\* So does what the start does with the result.
LEMMA RamTypes ==
  ASSUME NEW r \in Ram
  PROVE  /\ Incremented(r) \in Ram
         /\ \A p \in Page : /\ [r EXCEPT !.page = p] \in Ram
                            /\ [r EXCEPT !.page = p, !.pos = 0] \in Ram
         /\ SetRam(r) => /\ table' \in [Type -> Place \cup {None}] /\ page' \in Page
                         /\ pos' \in 0..PageSlots /\ sn' \in Nat
<1>1. 0 \in 0..PageSlots
  BY MaxTypeNat
<1>2. /\ r.table \in [Type -> Place \cup {None}] /\ r.page \in Page
      /\ r.pos \in 0..PageSlots /\ r.sn \in Nat
      /\ r = [table |-> r.table, page |-> r.page, pos |-> r.pos, sn |-> r.sn]
  BY DEF Ram
<1>3. Incremented(r) = [table |-> r.table, page |-> r.page, pos |-> r.pos, sn |-> r.sn + 1]
  BY <1>2 DEF Incremented
<1>4. ASSUME NEW p \in Page
      PROVE  [r EXCEPT !.page = p] \in Ram /\ [r EXCEPT !.page = p, !.pos = 0] \in Ram
  <2> DEFINE q == [r EXCEPT !.page = p]
  <2>1. q \in Ram
    BY DEF Ram
  <2> HIDE DEF q
  <2>2. [q EXCEPT !.pos = 0] \in Ram
    BY <1>1, <2>1 DEF Ram
  <2>3. [r EXCEPT !.page = p, !.pos = 0] = [[r EXCEPT !.page = p] EXCEPT !.pos = 0]
    OBVIOUS
  <2> QED
    BY <2>1, <2>2, <2>3 DEF q
<1>5. Incremented(r) \in Ram
  BY <1>2, <1>3 DEF Ram
<1> QED
  BY <1>2, <1>4, <1>5 DEF SetRam

LEMMA ClearedIn == Cleared \in Ram /\ [Cleared EXCEPT !.sn = SnStart] \in Ram
<1>1. 0 \in 0..PageSlots /\ 0 \in Page
  BY MaxTypeNat
<1> QED
  BY <1>1 DEF Cleared, Ram, EmptyTable, SnStart

\* What a type is read as.
LEMMA ReadsType ==
  ASSUME TypeOK, NEW t \in Type
  PROVE  /\ Reads(t) \in Value \cup {Junk, NoValue}
         /\ table[t] # None => Reads(t) \in Value \cup {Junk} /\ table[t] \in Place
<1>1. table[t] \in Place \cup {None} /\ flash \in [Page -> [Slot -> Cell]]
  BY DEF TypeOK
<1>2. CASE table[t] # None
  <2>1. table[t].page \in Page /\ table[t].slot \in Slot
    BY <1>1, <1>2 DEF Place
  <2>2. flash[table[t].page][table[t].slot] \in Cell
    BY <1>1, <2>1
  <2> QED
    BY <1>1, <1>2, <2>2 DEF Reads, Cell
<1>3. CASE table[t] = None
  BY <1>3 DEF Reads
<1> QED
  BY <1>2, <1>3

\* A cell after a part of a record was programmed.
LEMMA ProgramTypes ==
  ASSUME TypeOK, NEW p \in Page, NEW k \in Slot, NEW t \in Type, NEW s \in Nat,
         NEW v \in Value \cup {Junk}, Program(p, k, t, s, v)
  PROVE  flash' \in [Page -> [Slot -> Cell]]
<1>1. flash \in [Page -> [Slot -> Cell]] /\ stage \in 0..2
  BY DEF TypeOK
<1> DEFINE to == Parts[stage + 1]
           c == flash[p][k]
<1>2. to \in {"headless", "broken", "whole"} /\ c \in Cell
  BY <1>1 DEF Parts
<1>3. t \in 0..MaxType
  BY MaxTypeNat
<1> HIDE DEF to, c
<1>4. Programmed(c, to, t, s, v) \in Cell
  <2>1. [state |-> to, type |-> t, sn |-> s, val |-> IF to = "whole" THEN v ELSE Junk] \in Cell
    BY <1>2, <1>3 DEF Cell, CellStates
  <2>2. [c EXCEPT !.state = "garbled", !.val = Junk] \in Cell
    BY <1>2 DEF Cell, CellStates
  <2> QED
    BY <2>1, <2>2 DEF Programmed
<1>5. flash' = [flash EXCEPT ![p][k] = Programmed(c, to, t, s, v)]
  BY DEF Program, c, to
<1> QED
  BY <1>1, <1>4, <1>5

LEMMA WrappedNat == ASSUME NEW s \in Nat PROVE Wrapped(s) \in Nat
BY DEF Wrapped, SnStart

\* The initial states have the types.
LEMMA InitTypes == Init => TypeInv
<1> SUFFICES ASSUME Init PROVE TypeInv
  OBVIOUS
<1> USE DEF Init
<1>1. job \in Seq(JobStep) /\ InRow(mig, job)
  BY DEF InRow
<1>2. /\ PageSlots \in Nat /\ 0 \in Page /\ MaxType \in Nat /\ MaxCalls \in Nat
      /\ MaxRestarts \in Nat
  BY MaxTypeNat, DataSetAssumption
<1>3. Erased \in Cell
  BY <1>2 DEF Erased, Cell, CellStates
<1>4. flash \in [Page -> [Slot -> Cell]]
  BY <1>3
<1>5. table \in [Type -> Place \cup {None}]
  BY DEF EmptyTable
<1> QED
  BY <1>1, <1>2, <1>4, <1>5 DEF TypeInv, TypeOK

\* A step of the job that is done, with no copy or with one.
LEMMA JobDone ==
  ASSUME TypeInv, job # <<>>, Done, mig' \in Nat,
         Head(job).op = "copy" => mig' <= Head(job).type,
         Head(job).op = "move" => mig' = 0
  PROVE  job' \in Seq(JobStep) /\ InRow(mig', job')
<1>1. job \in Seq(JobStep) /\ InRow(mig, job) /\ mig \in Nat
  BY MaxTypeNat DEF TypeInv, TypeOK
<1>2. Head(job) = job[1] /\ job' = Tail(job)
  BY <1>1 DEF Done
<1> QED
  BY <1>1, <1>2, TailInRow

\* ds_initinal: every case of ds_pagex_check keeps the types.
LEMMA StartTypes == TypeInv /\ Start => TypeInv'
<1> SUFFICES ASSUME TypeInv, Start PROVE TypeInv'
  OBVIOUS
<1>1. TypeOK
  BY DEF TypeInv
<1>2. \A p \in Page : EraseOf(p) \in PlainStep /\ ScanOf(p) \in PlainStep
  BY DEF EraseOf, ScanOf, PlainStep
<1>3. ASSUME NEW p \in Page PROVE <<>> \o MoveOf(p) = MoveOf(p)
  BY MoveSteps, ConcatEmptySeq
<1>4. ASSUME NEW p \in Page, StartWithOne(p)
      PROVE  (\E r \in Ram : SetRam(r)) /\ job' \in Seq(JobStep) /\ InRow(mig, job')
  <2>1. PICK s \in Scan(Cleared, p) :
          IF s.ok
          THEN SetRam(Incremented(s.ram)) /\ job' = <<>>
          ELSE /\ SetRam([Incremented(s.ram) EXCEPT !.page = Other(p), !.pos = 0])
               /\ job' = MoveOf(p) \o <<EraseOf(p)>>
    BY <1>4 DEF StartWithOne
  <2>2. s.ram \in Ram
    BY <1>1, ClearedIn, ScanTypes
  <2>3. Incremented(s.ram) \in Ram
        /\ [Incremented(s.ram) EXCEPT !.page = Other(p), !.pos = 0] \in Ram
    BY <2>2, RamTypes, OtherIn
  <2>4. <<>> \in Seq(PlainStep) /\ <<EraseOf(p)>> \in Seq(PlainStep)
    BY <1>2
  <2>5. <<>> \o MoveOf(p) \o <<EraseOf(p)>> = MoveOf(p) \o <<EraseOf(p)>>
    BY <1>3
  <2>6. /\ MoveOf(p) \o <<EraseOf(p)>> \in Seq(JobStep)
        /\ InRow(mig, MoveOf(p) \o <<EraseOf(p)>>)
    BY <2>4, <2>5, MoveInRow
  <2>7. <<>> \in Seq(JobStep) /\ InRow(mig, <<>>)
    BY <2>4, PlainInRow
  <2> QED
    BY <2>1, <2>3, <2>6, <2>7
<1>5. ASSUME StartWithBoth
      PROVE  (\E r \in Ram : SetRam(r)) /\ job' \in Seq(JobStep) /\ InRow(mig, job')
  <2>0. 0 \in Page /\ 1 \in Page
    BY MaxTypeNat
  <2>1. PICK s0 \in Scan(Cleared, 0) : \E s1 \in Scan(s0.ram, 1) :
    LET r == Incremented(s1.ram) IN
    \/ /\ s0.ok /\ s1.ok
       /\ LET new == IF s0.ram.sn > s1.ram.sn THEN 0 ELSE 1 IN
          /\ \E s \in Scan(r, new) : SetRam(s.ram)
          /\ job' = <<EraseOf(Other(new))>> \o MoveOf(new)
                      \o <<EraseOf(new), ScanOf(Other(new))>>
    \/ /\ ~s0.ok /\ s1.ok
       /\ SetRam([r EXCEPT !.page = 1])
       /\ job' = <<EraseOf(0)>>
    \/ /\ s0.ok /\ ~s1.ok
       /\ SetRam([r EXCEPT !.page = 0])
       /\ job' = <<EraseOf(1)>>
    \/ /\ ~s0.ok /\ ~s1.ok
       /\ SetRam(r)
       /\ job' = ResetJob
    BY <1>5 DEF StartWithBoth
  <2>2. PICK s1 \in Scan(s0.ram, 1) :
    LET r == Incremented(s1.ram) IN
    \/ \E new \in Page :
          /\ \E s \in Scan(r, new) : SetRam(s.ram)
          /\ job' = <<EraseOf(Other(new))>> \o MoveOf(new)
                      \o <<EraseOf(new), ScanOf(Other(new))>>
    \/ /\ SetRam([r EXCEPT !.page = 1])
       /\ job' = <<EraseOf(0)>>
    \/ /\ SetRam([r EXCEPT !.page = 0])
       /\ job' = <<EraseOf(1)>>
    \/ /\ SetRam(r)
       /\ job' = ResetJob
    BY <2>0, <2>1
  <2> DEFINE r == Incremented(s1.ram)
  <2>3. s0.ram \in Ram
    BY <1>1, <2>0, ClearedIn, ScanTypes
  <2>4. s1.ram \in Ram
    BY <1>1, <2>0, <2>3, ScanTypes
  <2>5. r \in Ram /\ [r EXCEPT !.page = 1] \in Ram /\ [r EXCEPT !.page = 0] \in Ram
    BY <2>0, <2>4, RamTypes
  <2> HIDE DEF r
  <2>6. CASE \E new \in Page :
               /\ \E s \in Scan(r, new) : SetRam(s.ram)
               /\ job' = <<EraseOf(Other(new))>> \o MoveOf(new)
                           \o <<EraseOf(new), ScanOf(Other(new))>>
    <3>1. PICK new \in Page :
               /\ \E s \in Scan(r, new) : SetRam(s.ram)
               /\ job' = <<EraseOf(Other(new))>> \o MoveOf(new)
                           \o <<EraseOf(new), ScanOf(Other(new))>>
      BY <2>6
    <3>2. Other(new) \in Page
      BY OtherIn
    <3>3. EraseOf(Other(new)) \in PlainStep /\ EraseOf(new) \in PlainStep
          /\ ScanOf(Other(new)) \in PlainStep
      BY <1>2, <3>2
    <3>4. <<EraseOf(Other(new))>> \in Seq(PlainStep)
          /\ <<EraseOf(new), ScanOf(Other(new))>> \in Seq(PlainStep)
      BY <3>3
    <3>5. job' \in Seq(JobStep) /\ InRow(mig, job')
      BY <3>1, <3>4, MoveInRow
    <3> QED
      BY <1>1, <2>5, <3>1, <3>5, ScanTypes
  <2>7. <<EraseOf(0)>> \in Seq(PlainStep) /\ <<EraseOf(1)>> \in Seq(PlainStep)
        /\ ResetJob \in Seq(PlainStep)
    BY <1>2, <2>0 DEF ResetJob, PlainStep
  <2>8. CASE job' \in {<<EraseOf(0)>>, <<EraseOf(1)>>, ResetJob}
             /\ (SetRam([r EXCEPT !.page = 1]) \/ SetRam([r EXCEPT !.page = 0]) \/ SetRam(r))
    <3>1. job' \in Seq(PlainStep)
      BY <2>7, <2>8
    <3> QED
      BY <2>5, <2>8, <3>1, PlainInRow
  <2> QED
    BY <2>2, <2>6, <2>8 DEF r
<1>6. (\E r \in Ram : SetRam(r)) /\ job' \in Seq(JobStep) /\ InRow(mig, job')
  <2>1. CASE SetRam([Cleared EXCEPT !.sn = SnStart]) /\ job' = <<>>
    <3>1. <<>> \in Seq(PlainStep)
      OBVIOUS
    <3> QED
      BY <2>1, <3>1, ClearedIn, PlainInRow
  <2> QED
    BY <1>4, <1>5, <2>1 DEF Start
<1>7. /\ table' \in [Type -> Place \cup {None}] /\ page' \in Page
      /\ pos' \in 0..PageSlots /\ sn' \in Nat
  BY <1>6, RamTypes
<1>8. power' = "boot" /\ UNCHANGED <<flash, mig, stage, last, hidden, held, shut, calls, restarts>>
  BY DEF Start, ghosts
<1>9. TypeOK'
  BY <1>1, <1>7, <1>8 DEF TypeOK
<1> QED
  BY <1>6, <1>8, <1>9 DEF TypeInv

LEMMA ErasedIn == Erased \in Cell
<1>1. MaxType \in Nat
  BY MaxTypeNat
<1> QED
  BY <1>1 DEF Erased, Cell, CellStates

\* The head of the job is one of the steps.
LEMMA HeadStep ==
  ASSUME TypeInv, job # <<>>
  PROVE  Head(job) \in JobStep /\ Tail(job) \in Seq(JobStep) /\ Head(job) = job[1]
BY DEF TypeInv

\* A step that ends and copies nothing.
LEMMA OtherDone ==
  ASSUME TypeInv, job # <<>>, Done, mig' = mig, Head(job).op \notin {"copy", "move"}
  PROVE  job' \in Seq(JobStep) /\ InRow(mig', job')
<1>1. mig \in Nat
  BY MaxTypeNat DEF TypeInv, TypeOK
<1> QED
  BY <1>1, JobDone

\* The steps that program no record keep the types.
LEMMA StepTypes == TypeInv /\ (Erase \/ Move \/ Settle \/ Rescan \/ SetDefault) => TypeInv'
<1> SUFFICES ASSUME TypeInv, Erase \/ Move \/ Settle \/ Rescan \/ SetDefault PROVE TypeInv'
  OBVIOUS
<1>1. TypeOK
  BY DEF TypeInv
<1>2. CASE Erase
  <2>1. job # <<>> /\ Head(job).op = "erase" /\ Done /\ UNCHANGED <<ram, stage, power, ghosts>>
        /\ flash' = [flash EXCEPT ![Head(job).page] = [k \in Slot |-> Erased]]
    BY <1>2 DEF Erase, HeadIs
  <2>2. job' \in Seq(JobStep) /\ InRow(mig', job')
    BY <2>1, OtherDone DEF ram
  <2>3. flash' \in [Page -> [Slot -> Cell]]
    BY <1>1, <2>1, ErasedIn DEF TypeOK
  <2>4. TypeOK'
    BY <1>1, <2>1, <2>3 DEF TypeOK, ram, ghosts
  <2> QED
    BY <2>2, <2>4 DEF TypeInv
<1>3. CASE Move
  <2>1. job # <<>> /\ Head(job).op = "move" /\ Done /\ mig' = 0
        /\ UNCHANGED <<flash, table, page, pos, sn, stage, power, ghosts>>
    BY <1>3 DEF Move, HeadIs
  <2>2. job' \in Seq(JobStep) /\ InRow(mig', job')
    BY <2>1, JobDone
  <2>3. 0 \in 0..PageSlots
    BY MaxTypeNat
  <2>4. TypeOK'
    BY <1>1, <2>1, <2>3 DEF TypeOK, ghosts
  <2> QED
    BY <2>2, <2>4 DEF TypeInv
<1>4. CASE Settle
  <2>1. job # <<>> /\ Head(job).op = "settle" /\ Done /\ page' = Head(job).page /\ pos' = mig
        /\ UNCHANGED <<flash, table, sn, mig, stage, power, ghosts>>
    BY <1>4 DEF Settle, HeadIs
  <2>2. job' \in Seq(JobStep) /\ InRow(mig', job')
    BY <2>1, OtherDone
  <2>3. page' \in Page
    BY <2>1, HeadStep, CopyIsNotPlain
  <2>4. TypeOK'
    BY <1>1, <2>1, <2>3 DEF TypeOK, ghosts
  <2> QED
    BY <2>2, <2>4 DEF TypeInv
<1>5. CASE Rescan
  <2> DEFINE r == [table |-> table, page |-> page, pos |-> pos, sn |-> sn]
  <2>1. job # <<>> /\ Head(job).op = "scan" /\ Done
        /\ (\E s \in Scan(r, Head(job).page) : SetRam(s.ram))
        /\ UNCHANGED <<flash, mig, stage, power, ghosts>>
    BY <1>5 DEF Rescan, HeadIs
  <2>2. job' \in Seq(JobStep) /\ InRow(mig', job')
    BY <2>1, OtherDone
  <2>3. Head(job).page \in Page
    BY <2>1, HeadStep, CopyIsNotPlain
  <2>4. r \in Ram
    BY <1>1 DEF Ram, TypeOK
  <2> HIDE DEF r
  <2>5. PICK s \in Scan(r, Head(job).page) : SetRam(s.ram)
    BY <2>1
  <2>6. s.ram \in Ram
    BY <1>1, <2>3, <2>4, ScanTypes
  <2>7. /\ table' \in [Type -> Place \cup {None}] /\ page' \in Page
        /\ pos' \in 0..PageSlots /\ sn' \in Nat
    BY <2>5, <2>6, RamTypes
  <2>8. TypeOK'
    BY <1>1, <2>1, <2>7 DEF TypeOK, ghosts
  <2> QED
    BY <2>2, <2>8 DEF TypeInv
<1>6. CASE SetDefault
  <2>1. job # <<>> /\ Head(job).op = "default" /\ Done /\ page' = 0 /\ pos' = 0 /\ sn' = SnStart
        /\ last' = [t \in Type |-> NoValue]
        /\ UNCHANGED <<flash, table, mig, stage, power, hidden, held, shut, calls, restarts>>
    BY <1>6 DEF SetDefault, HeadIs
  <2>2. job' \in Seq(JobStep) /\ InRow(mig', job')
    BY <2>1, OtherDone
  <2>3. 0 \in 0..PageSlots /\ 0 \in Page /\ SnStart \in Nat
    BY MaxTypeNat DEF SnStart
  <2>4. TypeOK'
    BY <1>1, <2>1, <2>3 DEF TypeOK
  <2> QED
    BY <2>2, <2>4 DEF TypeInv
<1> QED
  BY <1>2, <1>3, <1>4, <1>5, <1>6

\* The table after a record.
LEMMA UpdatedType ==
  ASSUME TypeOK, NEW t \in Type, NEW new \in Place
  PROVE  Updated(table, t, new) \in [Type -> Place \cup {None}]
<1>1. table \in [Type -> Place \cup {None}]
  BY DEF TypeOK
<1> QED
  BY <1>1 DEF Updated

LEMMA StageNext == ASSUME TypeOK PROVE (stage + 1) % 3 \in 0..2
<1>1. stage \in Nat
  BY DEF TypeOK
<1> QED
  BY <1>1

\* A part of ds_migration_write keeps the types: it programs within the page,
\* as the copy of type t is at most the t-th.
LEMMA CopyTypes == TypeInv /\ Copy => TypeInv'
<1> SUFFICES ASSUME TypeInv, Copy PROVE TypeInv'
  OBVIOUS
<1> DEFINE t == Head(job).type
           p == Head(job).page
           s == IF stage = 0 THEN MigrationSn ELSE sn
<1>1. TypeOK /\ job \in Seq(JobStep) /\ InRow(mig, job)
  BY DEF TypeInv
<1>2. /\ job # <<>> /\ Head(job).op = "copy" /\ UNCHANGED <<power, ghosts>>
      /\ IF table[t] = None
         THEN Done /\ UNCHANGED <<flash, ram, stage>>
         ELSE /\ Program(p, mig, t, s, Reads(t))
              /\ sn' = s
              /\ stage' = (stage + 1) % 3
              /\ IF stage < 2
                 THEN UNCHANGED <<table, mig, job>>
                 ELSE /\ table' = Updated(table, t,
                                    [sn |-> s, page |-> p, slot |-> mig])
                      /\ mig' = mig + 1
                      /\ Done
              /\ UNCHANGED <<page, pos>>
  BY DEF Copy, HeadIs
<1>3. t \in Type /\ p \in Page /\ Head(job) = job[1] /\ Head(job) \in JobStep
  BY <1>2, HeadStep, CopyIsNotPlain
<1>4. mig < t /\ mig \in Nat /\ mig \in Slot /\ t \in Nat /\ mig + 1 \in 0..PageSlots
  <2>1. mig < job[1].type
    BY <1>1, <1>2, <1>3 DEF InRow
  <2>2. mig \in Nat
    BY <1>1, MaxTypeNat DEF TypeOK
  <2>3. t \in 1..MaxType /\ MaxType <= PageSlots /\ MaxType \in Nat /\ PageSlots \in Nat
    BY <1>3, MaxTypeNat
  <2> HIDE DEF t
  <2>4. mig < t
    BY <1>3, <2>1 DEF t
  <2> QED
    BY <2>2, <2>3, <2>4, MaxTypeNat
<1>5. s \in Nat
  <2>1. sn \in Nat /\ sn + 1 \in Nat
    BY <1>1 DEF TypeOK
  <2>2. MigrationSn \in Nat
    BY <2>1, WrappedNat DEF MigrationSn
  <2> QED
    BY <2>1, <2>2
<1>6. CASE table[t] = None
  <2>1. Done /\ UNCHANGED <<flash, ram, stage, power, ghosts>>
    BY <1>2, <1>6
  <2>2. job' \in Seq(JobStep) /\ InRow(mig', job')
    BY <1>2, <1>4, <2>1, JobDone DEF ram
  <2>3. TypeOK'
    BY <1>1, <2>1 DEF TypeOK, ram, ghosts
  <2> QED
    BY <2>2, <2>3 DEF TypeInv
<1>7. CASE table[t] # None
  <2>0. Program(p, mig, t, s, Reads(t)) /\ sn' = s /\ stage' = (stage + 1) % 3
        /\ UNCHANGED <<page, pos, power, ghosts>>
    BY <1>2, <1>7
  <2>1. Reads(t) \in Value \cup {Junk}
    BY <1>1, <1>3, <1>7, ReadsType
  <2> HIDE DEF s, t, p
  <2>2. flash' \in [Page -> [Slot -> Cell]]
    BY <1>1, <1>3, <1>4, <1>5, <2>0, <2>1, ProgramTypes
  <2>3. stage' \in 0..2
    BY <1>1, <2>0, StageNext
  <2>4. CASE stage < 2
    <3>1. UNCHANGED <<table, mig, job>>
      BY <1>2, <1>7, <2>4 DEF s, t, p
    <3>2. TypeOK'
      BY <1>1, <1>5, <2>0, <2>2, <2>3, <3>1 DEF TypeOK, ghosts
    <3>3. job' \in Seq(JobStep) /\ InRow(mig', job')
      BY <1>1, <3>1
    <3> QED
      BY <3>2, <3>3 DEF TypeInv
  <2>5. CASE ~(stage < 2)
    <3>1. table' = Updated(table, t, [sn |-> s, page |-> p, slot |-> mig]) /\ mig' = mig + 1
          /\ Done
      BY <1>2, <1>7, <2>5 DEF s, t, p
    <3>2. [sn |-> s, page |-> p, slot |-> mig] \in Place
      BY <1>3, <1>4, <1>5 DEF Place
    <3>3. table' \in [Type -> Place \cup {None}]
      BY <1>1, <1>3, <3>1, <3>2, UpdatedType
    <3>4. TypeOK'
      BY <1>1, <1>4, <1>5, <2>0, <2>2, <2>3, <3>1, <3>3 DEF TypeOK, ghosts
    <3>5. mig' \in Nat /\ mig' <= Head(job).type
      BY <1>4, <3>1 DEF t
    <3>6. job' \in Seq(JobStep) /\ InRow(mig', job')
      BY <1>2, <3>1, <3>5, JobDone
    <3> QED
      BY <3>4, <3>6 DEF TypeInv
  <2> QED
    BY <2>4, <2>5
<1> QED
  BY <1>6, <1>7

\* A part of ds_write keeps the types.
LEMMA WriteTypes == TypeInv /\ Write => TypeInv'
<1> SUFFICES ASSUME TypeInv, Write PROVE TypeInv'
  OBVIOUS
<1> DEFINE t == Head(job).type
           v == Head(job).val
           s == Wrapped(sn)
<1>1. TypeOK /\ job \in Seq(JobStep) /\ InRow(mig, job)
  BY DEF TypeInv
<1>2. /\ job # <<>> /\ Head(job).op = "write"
      /\ UNCHANGED <<page, mig, power, held, shut, calls, restarts>>
      /\ IF Full
         THEN Done /\ UNCHANGED <<flash, table, pos, sn, stage, last, hidden>>
         ELSE /\ Program(page, pos, t, s, v)
              /\ stage' = (stage + 1) % 3
              /\ IF stage < 2
                   THEN /\ sn' = s
                        /\ UNCHANGED <<table, pos, job, last, hidden>>
                   ELSE /\ table' = Updated(table, t,
                                    [sn |-> s, page |-> page, slot |-> pos])
                        /\ pos' = pos + 1
                        /\ sn' = s + 1
                        /\ last' = [last EXCEPT ![t] = v]
                        /\ hidden' = IF table[t] # None /\ table[t].sn = s
                                       THEN hidden \cup {t} ELSE hidden \ {t}
                        /\ Done
  BY DEF Write, HeadIs
<1>3. t \in Type /\ v \in Value
  BY <1>2, HeadStep, CopyIsNotPlain
<1>4. s \in Nat
  BY <1>1, WrappedNat DEF TypeOK
<1>5. CASE Full
  <2>1. Done /\ UNCHANGED <<flash, table, page, pos, sn, mig, stage, power, last, hidden, held,
                            shut, calls, restarts>>
    BY <1>2, <1>5
  <2>2. job' \in Seq(JobStep) /\ InRow(mig', job')
    BY <1>2, <2>1, OtherDone
  <2>3. TypeOK'
    BY <1>1, <2>1 DEF TypeOK
  <2> QED
    BY <2>2, <2>3 DEF TypeInv
<1>6. CASE ~Full
  <2>0. Program(page, pos, t, s, v) /\ stage' = (stage + 1) % 3
        /\ UNCHANGED <<page, mig, power, held, shut, calls, restarts>>
    BY <1>2, <1>6
  <2>1. pos \in Slot /\ pos + 1 \in 0..PageSlots /\ page \in Page
    BY <1>1, <1>6, MaxTypeNat DEF TypeOK, Full
  <2> HIDE DEF s, t, v
  <2>2. flash' \in [Page -> [Slot -> Cell]]
    BY <1>1, <1>3, <1>4, <2>0, <2>1, ProgramTypes
  <2>3. stage' \in 0..2
    BY <1>1, <2>0, StageNext
  <2>4. CASE stage < 2
    <3>1. sn' = s /\ UNCHANGED <<table, pos, job, last, hidden>>
      BY <1>2, <1>6, <2>4 DEF s, t, v
    <3>2. TypeOK'
      BY <1>1, <1>4, <2>0, <2>2, <2>3, <3>1 DEF TypeOK
    <3>3. job' \in Seq(JobStep) /\ InRow(mig', job')
      BY <1>1, <2>0, <3>1
    <3> QED
      BY <3>2, <3>3 DEF TypeInv
  <2>5. CASE ~(stage < 2)
    <3>1. /\ table' = Updated(table, t, [sn |-> s, page |-> page, slot |-> pos])
          /\ pos' = pos + 1 /\ sn' = s + 1 /\ last' = [last EXCEPT ![t] = v]
          /\ hidden' \in {hidden \cup {t}, hidden \ {t}}
          /\ Done
      BY <1>2, <1>6, <2>5 DEF s, t, v
    <3>2. [sn |-> s, page |-> page, slot |-> pos] \in Place
      BY <1>4, <2>1 DEF Place
    <3>3. table' \in [Type -> Place \cup {None}]
      BY <1>1, <1>3, <3>1, <3>2, UpdatedType
    <3>4. last' \in [Type -> Value \cup {Junk, NoValue}] /\ hidden' \subseteq Type
      BY <1>1, <1>3, <3>1 DEF TypeOK
    <3>5. sn' \in Nat
      BY <1>4, <3>1
    <3>6. TypeOK'
      BY <1>1, <2>0, <2>1, <2>2, <2>3, <3>1, <3>3, <3>4, <3>5 DEF TypeOK
    <3>7. job' \in Seq(JobStep) /\ InRow(mig', job')
      BY <1>2, <3>1, OtherDone
    <3> QED
      BY <3>6, <3>7 DEF TypeInv
  <2> QED
    BY <2>4, <2>5
<1> QED
  BY <1>5, <1>6

\* A struck cell is a cell.
LEMMA StruckIn == ASSUME NEW c \in Cell PROVE Struck(c) \in Cell
<1>1. MaxType \in Nat
  BY MaxTypeNat
<1>2. c = [state |-> c.state, type |-> c.type, sn |-> c.sn, val |-> c.val]
      /\ c.state \in CellStates /\ c.sn \in Nat /\ c.val \in Value \cup {Junk}
  BY DEF Cell
<1> DEFINE z == CASE c.state = "erased" -> "headless" [] c.state = "whole" -> "broken"
                  [] OTHER -> c.state
<1>3. z \in CellStates
  BY <1>2 DEF CellStates
<1>4. Struck(c) = [c EXCEPT !.type = 0, !.state = z]
  BY DEF Struck
<1> HIDE DEF z
<1> DEFINE d == [c EXCEPT !.type = 0]
<1>5. d \in Cell
  BY <1>1 DEF Cell
<1> HIDE DEF d
<1>6. [d EXCEPT !.state = z] \in Cell
  BY <1>3, <1>5 DEF Cell
<1>7. [c EXCEPT !.type = 0, !.state = z] = [[c EXCEPT !.type = 0] EXCEPT !.state = z]
  OBVIOUS
<1> QED
  BY <1>4, <1>6, <1>7 DEF d

\* The calls keep the types.
LEMMA CallTypes ==
  ASSUME TypeInv, \/ \E t \in Type : CallDelete(t) \/ \E v \in Value : CallWrite(t, v)
                  \/ CallReset \/ CallRead
  PROVE  TypeInv'
<1>1. TypeOK /\ job \in Seq(JobStep) /\ InRow(mig, job)
  BY DEF TypeInv
<1>2. ASSUME NEW t \in Type, CallDelete(t) PROVE TypeInv'
  <2>1. UNCHANGED <<page, pos, sn, mig, job, stage, power, hidden, held, shut, restarts>>
        /\ calls' = calls + 1 /\ calls < MaxCalls
        /\ IF table[t] = None
           THEN UNCHANGED <<flash, table, last>>
           ELSE /\ flash' = [flash EXCEPT ![table[t].page][table[t].slot] = Struck(@)]
                /\ table' = [table EXCEPT ![t] = None]
                /\ last' = [last EXCEPT ![t] = NoValue]
    BY <1>2 DEF CallDelete, Call
  <2>2. /\ flash' \in [Page -> [Slot -> Cell]] /\ table' \in [Type -> Place \cup {None}]
        /\ last' \in [Type -> Value \cup {Junk, NoValue}]
    <3>1. CASE table[t] = None
      BY <1>1, <2>1, <3>1 DEF TypeOK
    <3>2. CASE table[t] # None
      <4>1. table[t].page \in Page /\ table[t].slot \in Slot
        BY <1>1, <3>2, ReadsType DEF Place
      <4>2. flash \in [Page -> [Slot -> Cell]] /\ flash[table[t].page][table[t].slot] \in Cell
        BY <1>1, <4>1 DEF TypeOK
      <4>3. Struck(flash[table[t].page][table[t].slot]) \in Cell
        BY <4>2, StruckIn
      <4>4. flash' = [flash EXCEPT ![table[t].page][table[t].slot]
                        = Struck(flash[table[t].page][table[t].slot])]
        BY <2>1, <3>2
      <4>5. flash' \in [Page -> [Slot -> Cell]]
        BY <4>1, <4>2, <4>3, <4>4
      <4> QED
        BY <1>1, <2>1, <3>2, <4>5 DEF TypeOK
    <3> QED
      BY <3>1, <3>2
  <2>3. TypeOK'
    BY <1>1, <2>1, <2>2, DataSetAssumption DEF TypeOK
  <2> QED
    BY <1>1, <2>1, <2>3 DEF TypeInv
<1>3. \A p \in Page : EraseOf(p) \in PlainStep /\ SettleIn(p) \in PlainStep
  BY DEF EraseOf, SettleIn, PlainStep
<1>4. ASSUME NEW t \in Type, NEW v \in Value, CallWrite(t, v) PROVE TypeInv'
  <2>1. UNCHANGED <<flash, ram, stage, power, last, hidden, held, shut, restarts>>
        /\ calls' = calls + 1 /\ calls < MaxCalls
        /\ job' = IF Full
              THEN <<EraseOf(Other(page))>> \o MoveOf(page)
                     \o <<SettleIn(Other(page)), WriteOf(t, v)>>
              ELSE <<WriteOf(t, v)>>
    BY <1>4 DEF CallWrite, Call
  <2>2. WriteOf(t, v) \in PlainStep /\ page \in Page
    BY <1>1 DEF WriteOf, PlainStep, TypeOK
  <2>3. <<EraseOf(Other(page))>> \in Seq(PlainStep)
        /\ <<SettleIn(Other(page)), WriteOf(t, v)>> \in Seq(PlainStep)
        /\ <<WriteOf(t, v)>> \in Seq(PlainStep)
    BY <1>3, <2>2, OtherIn
  <2>4. job' \in Seq(JobStep) /\ InRow(mig, job')
    <3>1. CASE Full
      <4>1. job' = <<EraseOf(Other(page))>> \o MoveOf(page)
                     \o <<SettleIn(Other(page)), WriteOf(t, v)>>
        BY <2>1, <3>1
      <4> QED
        BY <2>2, <2>3, <4>1, MoveInRow
    <3>2. CASE ~Full
      BY <2>1, <2>3, <3>2, PlainInRow
    <3> QED
      BY <3>1, <3>2
  <2>5. TypeOK'
    BY <1>1, <2>1, DataSetAssumption DEF TypeOK, ram
  <2> QED
    BY <2>1, <2>4, <2>5 DEF TypeInv, ram
<1>5. CASE CallReset
  <2>1. UNCHANGED <<flash, ram, stage, power, last, hidden, held, shut, restarts>>
        /\ calls' = calls + 1 /\ calls < MaxCalls /\ job' = ResetJob
    BY <1>5 DEF CallReset, Call
  <2>2. ResetJob \in Seq(PlainStep)
    BY <1>3, MaxTypeNat DEF ResetJob, PlainStep
  <2>3. job' \in Seq(JobStep) /\ InRow(mig, job')
    BY <2>1, <2>2, PlainInRow
  <2>4. TypeOK'
    BY <1>1, <2>1, DataSetAssumption DEF TypeOK, ram
  <2> QED
    BY <2>1, <2>3, <2>4 DEF TypeInv, ram
<1>6. CASE CallRead
  <2>1. UNCHANGED vars
    BY <1>6 DEF CallRead
  <2> QED
    BY <1>1, <2>1 DEF TypeInv, TypeOK, vars, ram, ghosts
<1> QED
  BY <1>2, <1>4, <1>5, <1>6

\* A loss of power keeps the types.
LEMMA LosePowerTypes == TypeInv /\ LosePower => TypeInv'
<1> SUFFICES ASSUME TypeInv, LosePower PROVE TypeInv'
  OBVIOUS
<1>1. TypeOK
  BY DEF TypeInv
<1>2. /\ restarts < MaxRestarts /\ restarts' = restarts + 1 /\ power' = "off"
      /\ SetRam(Cleared) /\ mig' = 0 /\ job' = <<>> /\ stage' = 0
      /\ UNCHANGED <<flash, last, hidden, calls>>
      /\ shut' \in {"bad", "safe", "clean"}
      /\ held' = [t \in Type |->
           {Reads(t)} \cup IF HeadIs("write") /\ Head(job).type = t
                             THEN {Head(job).val} ELSE {}]
  BY DEF LosePower
<1>3. HeadIs("write") => Head(job).val \in Value
  BY HeadStep, CopyIsNotPlain DEF HeadIs
<1>4. \A t \in Type : Reads(t) \in Value \cup {Junk, NoValue}
  BY <1>1, ReadsType
<1>5. held' \in [Type -> SUBSET (Value \cup {Junk, NoValue})]
  BY <1>2, <1>3, <1>4
<1>6. /\ table' \in [Type -> Place \cup {None}] /\ page' \in Page
      /\ pos' \in 0..PageSlots /\ sn' \in Nat
  BY <1>2, ClearedIn, RamTypes
<1>7. TypeOK'
  BY <1>1, <1>2, <1>5, <1>6, MaxTypeNat, DataSetAssumption DEF TypeOK
<1>8. <<>> \in Seq(PlainStep)
  OBVIOUS
<1>9. job' \in Seq(JobStep) /\ InRow(mig', job')
  BY <1>2, <1>8, PlainInRow
<1> QED
  BY <1>7, <1>9 DEF TypeInv

\* The end of the start keeps the types.
LEMMA ReadyTypes == TypeInv /\ Ready => TypeInv'
<1> SUFFICES ASSUME TypeInv, Ready PROVE TypeInv'
  OBVIOUS
<1>1. TypeOK
  BY DEF TypeInv
<1>2. power' = "on" /\ last' = [t \in Type |-> Reads(t)] /\ hidden' = {}
      /\ UNCHANGED <<flash, ram, job, stage, held, shut, calls, restarts>>
  BY DEF Ready
<1>3. last' \in [Type -> Value \cup {Junk, NoValue}]
  BY <1>1, <1>2, ReadsType
<1>4. TypeOK'
  BY <1>1, <1>2, <1>3 DEF TypeOK, ram
<1> QED
  BY <1>2, <1>4 DEF TypeInv, ram

\* Every step keeps the types.
LEMMA TypeStep == TypeInv /\ [Next]_vars => TypeInv'
<1>1. TypeInv /\ UNCHANGED vars => TypeInv'
  BY DEF TypeInv, TypeOK, vars, ram, ghosts
<1> QED
  BY <1>1, StartTypes, ReadyTypes, StepTypes, CopyTypes, WriteTypes, CallTypes, LosePowerTypes
  DEF Next, Step

\* The types, and the row of the copies, are kept.
LEMMA TypeInvariance == Spec => []TypeInv
<1> QED
  BY InitTypes, TypeStep, PTL DEF Spec

\* Every variable keeps its type, over restarts and repairs too: a move never
\* copies more records than a page takes.
THEOREM TypeCorrect == Spec => []TypeOK
<1>1. TypeInv => TypeOK
  BY DEF TypeInv
<1> QED
  BY <1>1, TypeInvariance, PTL

-----------------------------------------------------------------------------
(* The calls of one power cycle.                                             *)

\* The serial numbers have not come to their end, where ds_write and
\* ds_migration_write start anew.
BelowMax == sn + 1 < SnMax

\* The step a of a write is followed by the step b.
Follows(a, b) ==
  \/ a.op = "erase" /\ a.page = Other(page) /\ b.op = "move"
  \/ a.op = "move" /\ b = CopyOf(1, Other(page))
  \/ a.op = "copy" /\ a.page = Other(page) /\ a.type < MaxType
     /\ b = CopyOf(a.type + 1, Other(page))
  \/ a.op = "copy" /\ a.page = Other(page) /\ a.type = MaxType
     /\ b = SettleIn(Other(page))
  \/ a.op = "settle" /\ a.page = Other(page) /\ b.op = "write"

\* The job is what is left of a write, with a move or without.
WriteJob ==
  /\ \A i \in DOMAIN job : i < Len(job) => Follows(job[i], job[i + 1])
  /\ job # <<>> => job[Len(job)].op = "write"

\* How far the record is programmed for which a part more was programmed s times.
Begun(s) == CASE s = 0 -> "erased" [] s = 1 -> "headless" [] s = 2 -> "broken"

\* Page p is erased from slot k on, but for a record begun there.
ErasedFrom(p, k, s) ==
  \A i \in Slot : i >= k => flash[p][i].state = IF i = k THEN Begun(s) ELSE "erased"

\* What is still to be programmed is erased, in the current page and in the one
\* that a move fills.
RoomAhead ==
  /\ ErasedFrom(page, pos, IF HeadIs("write") THEN stage ELSE 0)
  /\ HeadIs("move") => ErasedFrom(Other(page), 0, 0)
  /\ (HeadIs("copy") \/ HeadIs("settle")) => ErasedFrom(Other(page), mig, stage)

\* A record is begun only by the step that programs it.
BegunByHead ==
  stage # 0 => \/ HeadIs("write") /\ ~Full
               \/ HeadIs("copy") /\ table[Head(job).type] # None

\* A move has come past type t.
Moved(t) == HeadIs("settle") \/ (HeadIs("copy") /\ t < Head(job).type)

\* Entry e of type t is a record of its own, in the page moved to if the move
\* has come past t and else in the current one, and its number is not above sn,
\* which a copy that has begun has counted on.
Entry(t, e) ==
  /\ IF Moved(t) THEN e.page = Other(page) /\ e.slot < mig
                 ELSE e.page = page /\ e.slot < pos
  /\ flash[e.page][e.slot].state = "whole"
  /\ flash[e.page][e.slot].type = t
  /\ e.sn <= sn
  /\ (HeadIs("copy") /\ stage # 0) => e.sn < sn

Entries == \A t \in Type : table[t] # None => Entry(t, table[t])

ReadsLast == \A t \in Type : Reads(t) = last[t] \/ t \in hidden

\* Until the driver has started there is nothing.
NothingYet ==
  power # "on" =>
    /\ job = <<>> /\ table = EmptyTable /\ page = 0 /\ pos = 0
    /\ PageErased(0) /\ PageErased(1)

Cycle == /\ WriteJob
         /\ RoomAhead
         /\ BegunByHead
         /\ Entries
         /\ ReadsLast
         /\ Clean
         /\ NothingYet

\* The second of a sequence is the first of its tail.
LEMMA TailParts ==
  ASSUME NEW S, NEW s \in Seq(S), s # <<>>
  PROVE  /\ Len(s) = 1 => Tail(s) = <<>>
         /\ Len(s) # 1 => Tail(s) # <<>> /\ Head(Tail(s)) = s[2] /\ s[2] \in S
<1>1. Len(s) \in Nat \ {0} /\ Tail(s) \in Seq(S) /\ Len(Tail(s)) = Len(s) - 1
  OBVIOUS
<1>2. CASE Len(s) = 1
  <2>1. Len(Tail(s)) = 0
    BY <1>1, <1>2
  <2> QED
    BY <1>1, <1>2, <2>1, EmptySeq
<1>3. CASE Len(s) # 1
  <2>1. 1 \in 1..Len(Tail(s)) /\ 2 \in 1..Len(s) /\ Len(s) > 1
    BY <1>1, <1>3
  <2>2. Tail(s)[1] = s[2] /\ s[2] \in S
    BY <2>1
  <2>3. Tail(s) # <<>>
    <3>1. Len(Tail(s)) # 0 /\ Len(<<>>) = 0
      BY <1>1, <1>3
    <3> QED
      BY <3>1
  <2>4. Head(Tail(s)) = Tail(s)[1]
    BY <1>1, <2>3
  <2> QED
    BY <1>3, <2>2, <2>3, <2>4
<1> QED
  BY <1>2, <1>3

\* Nothing follows the write.
LEMMA FollowsOp ==
  ASSUME NEW a, NEW b, Follows(a, b)
  PROVE  a.op \in {"erase", "move", "copy", "settle"}
BY DEF Follows

\* The next step of a job.
LEMMA NextStep ==
  ASSUME TypeInv, WriteJob, job # <<>>
  PROVE  /\ Head(job) \in JobStep
         /\ Head(job).op \in {"erase", "move", "copy", "settle", "write"}
         /\ Head(job).op = "write" => Tail(job) = <<>>
         /\ Head(job).op # "write" => /\ Tail(job) # <<>>
                                     /\ Follows(Head(job), Head(Tail(job)))
                                     /\ Head(Tail(job)) \in JobStep
<1>1. job \in Seq(JobStep) /\ Len(job) \in Nat \ {0} /\ DOMAIN job = 1..Len(job)
  BY DEF TypeInv
<1>2. /\ \A i \in DOMAIN job : i < Len(job) => Follows(job[i], job[i + 1])
      /\ job[Len(job)].op = "write"
  BY DEF WriteJob
<1>3. Head(job) = job[1] /\ Head(job) \in JobStep /\ 1 \in DOMAIN job
  BY <1>1
<1>4. CASE Len(job) = 1
  <2>1. Tail(job) = <<>>
    BY <1>1, <1>4, TailParts
  <2> QED
    BY <1>2, <1>3, <1>4, <2>1
<1>5. CASE Len(job) # 1
  <2>1. 1 < Len(job) /\ 1 + 1 = 2 /\ 2 \in DOMAIN job
    BY <1>1, <1>5
  <2>2. Follows(job[1], job[2])
    BY <1>2, <1>3, <2>1
  <2>3. Tail(job) # <<>> /\ Head(Tail(job)) = job[2] /\ job[2] \in JobStep
    BY <1>1, <1>5, TailParts
  <2>4. job[1].op \in {"erase", "move", "copy", "settle"}
    BY <2>2, FollowsOp
  <2> QED
    BY <1>3, <2>2, <2>3, <2>4
<1> QED
  BY <1>4, <1>5

\* What is left after a step is the rest of a write.
LEMMA WriteJobDone ==
  ASSUME TypeInv, WriteJob, job # <<>>, Done,
         page' = page \/ Head(job).op = "settle"
  PROVE  WriteJob'
<1>1. job \in Seq(JobStep) /\ Len(job) \in Nat \ {0} /\ DOMAIN job = 1..Len(job)
      /\ job' = Tail(job) /\ job' \in Seq(JobStep) /\ Len(job') = Len(job) - 1
      /\ DOMAIN job' = 1..(Len(job) - 1)
      /\ \A i \in 1..(Len(job) - 1) : job'[i] = job[i + 1]
  BY DEF TypeInv, Done
<1>2. /\ \A i \in DOMAIN job : i < Len(job) => Follows(job[i], job[i + 1])
      /\ job[Len(job)].op = "write"
  BY DEF WriteJob
<1>3. job' # <<>> => job'[Len(job')].op = "write"
  <2>1. SUFFICES ASSUME job' # <<>> PROVE job'[Len(job')].op = "write"
    OBVIOUS
  <2>2. Len(job) - 1 \in 1..(Len(job) - 1) /\ (Len(job) - 1) + 1 = Len(job)
    BY <1>1, <2>1
  <2> QED
    BY <1>1, <1>2, <2>2
<1>4. ASSUME NEW i \in DOMAIN job', i < Len(job')
      PROVE  Follows(job[i + 1], job[(i + 1) + 1]) /\ job'[i] = job[i + 1]
             /\ job'[i + 1] = job[(i + 1) + 1] /\ Len(job) > 2
  <2>1. i + 1 \in DOMAIN job /\ i + 1 < Len(job) /\ i + 1 \in 1..(Len(job) - 1)
    BY <1>1, <1>4
  <2> QED
    BY <1>1, <1>2, <1>4, <2>1
<1>5. CASE page' = page
  <2>1. ASSUME NEW i \in DOMAIN job', i < Len(job') PROVE Follows(job[i], job[i + 1])'
    BY <1>4, <1>5, <2>1 DEF Follows, Other
  <2> QED
    BY <1>3, <2>1 DEF WriteJob
<1>6. CASE Head(job).op = "settle"
  <2>1. Len(job) <= 2
    <3>1. SUFFICES ASSUME Len(job) > 2 PROVE FALSE
      BY <1>1
    <3>2. 1 \in DOMAIN job /\ 2 \in DOMAIN job /\ 1 < Len(job) /\ 2 < Len(job)
          /\ 1 + 1 = 2 /\ Head(job) = job[1]
      BY <1>1, <3>1
    <3>3. Follows(job[1], job[2]) /\ Follows(job[2], job[2 + 1])
      BY <1>2, <3>2
    <3>4. job[2].op = "write"
      BY <1>6, <3>2, <3>3 DEF Follows
    <3> QED
      BY <3>3, <3>4, FollowsOp
  <2>2. \A i \in DOMAIN job' : ~(i < Len(job'))
    BY <1>1, <2>1
  <2> QED
    BY <1>3, <2>2 DEF WriteJob
<1> QED
  BY <1>5, <1>6

\* The job of a write that moves the page.
LEMMA MovingJob ==
  ASSUME page \in Page, NEW t \in Type, NEW v \in Value,
         job' = <<EraseOf(Other(page))>> \o MoveOf(page)
                  \o <<SettleIn(Other(page)), WriteOf(t, v)>>,
         page' = page
  PROVE  WriteJob' /\ job' # <<>> /\ Head(job').op = "erase"
<1> DEFINE a == <<EraseOf(Other(page))>>
           b == <<SettleIn(Other(page)), WriteOf(t, v)>>
<1>1. Other(page) \in Page /\ MaxType \in Nat \ {0} /\ Type = 1..MaxType
  BY OtherIn, MaxTypeNat
<1>2. /\ a \in Seq(PlainStep) /\ Len(a) = 1 /\ a[1] = EraseOf(Other(page))
      /\ b \in Seq(PlainStep) /\ Len(b) = 2
      /\ b[1] = SettleIn(Other(page)) /\ b[2] = WriteOf(t, v)
  BY <1>1 DEF PlainStep, EraseOf, SettleIn, WriteOf
<1>3. job' = a \o MoveOf(page) \o b
  OBVIOUS
<1> HIDE DEF a, b
<1> DEFINE k == job'
<1>4. MovesWithin(page, a, 1, b, k)
  BY <1>2, <1>3, MoveWithin
<1>5. /\ k \in Seq(JobStep) /\ Len(k) = 1 + MaxType + 1 + 2
      /\ \A i \in 1..1 : k[i] = a[i]
      /\ k[1 + 1] = [op |-> "move", page |-> page]
      /\ \A u \in Type : k[1 + 1 + u] = CopyOf(u, Other(page))
      /\ \A i \in 1..2 : k[1 + MaxType + 1 + i] = b[i]
  <2> HIDE DEF k
  <2> QED
    BY <1>2, <1>4 DEF MovesWithin
<1> HIDE DEF k
<1>6. /\ Len(k) = MaxType + 4 /\ DOMAIN k = 1..(MaxType + 4)
      /\ k[1] = EraseOf(Other(page)) /\ k[2].op = "move"
      /\ \A u \in Type : k[2 + u] = CopyOf(u, Other(page))
      /\ k[MaxType + 3] = SettleIn(Other(page)) /\ k[MaxType + 4] = WriteOf(t, v)
  <2>1. k[1] = a[1] /\ k[2] = [op |-> "move", page |-> page]
        /\ \A u \in Type : k[2 + u] = CopyOf(u, Other(page))
    BY <1>5
  <2>2. k[1 + MaxType + 1 + 1] = b[1] /\ k[1 + MaxType + 1 + 2] = b[2]
    BY <1>5
  <2>3. 1 + MaxType + 1 + 1 = MaxType + 3 /\ 1 + MaxType + 1 + 2 = MaxType + 4
    BY <1>1
  <2>4. Len(k) = MaxType + 4 /\ DOMAIN k = 1..(MaxType + 4)
    BY <1>1, <1>5
  <2> QED
    BY <1>2, <2>1, <2>2, <2>3, <2>4
<1>7. ASSUME NEW i \in DOMAIN k, i < Len(k) PROVE Follows(k[i], k[i + 1])
  <2>1. CASE i = 1
    BY <1>6, <2>1 DEF Follows, EraseOf
  <2>2. CASE i = 2
    <3>1. 1 \in Type /\ i + 1 = 2 + 1
      BY <1>1, <2>2
    <3> QED
      BY <1>6, <2>2, <3>1 DEF Follows
  <2>3. CASE i \in 3..(MaxType + 1)
    <3>0. i \in Nat /\ 3 <= i /\ i <= MaxType + 1 /\ MaxType \in Nat
      BY <1>1, <2>3
    <3>4. i - 2 \in 1..MaxType /\ (i - 2) + 1 \in 1..MaxType
      BY <3>0
    <3>1. i - 2 \in Type /\ (i - 2) + 1 \in Type /\ i = 2 + (i - 2) /\ i + 1 = 2 + ((i - 2) + 1)
          /\ i - 2 < MaxType
      BY <1>1, <3>0, <3>4
    <3>2. k[i] = CopyOf(i - 2, Other(page)) /\ k[i + 1] = CopyOf((i - 2) + 1, Other(page))
      BY <1>6, <3>1
    <3> QED
      BY <3>1, <3>2 DEF Follows, CopyOf
  <2>4. CASE i = MaxType + 2
    <3>1. MaxType \in Type /\ i = 2 + MaxType /\ i + 1 = MaxType + 3
      BY <1>1, <2>4
    <3>2. k[i] = CopyOf(MaxType, Other(page)) /\ k[i + 1] = SettleIn(Other(page))
      BY <1>6, <3>1
    <3> QED
      BY <3>2 DEF Follows, CopyOf
  <2>5. CASE i = MaxType + 3
    <3>1. i + 1 = MaxType + 4
      BY <1>1, <2>5
    <3> QED
      BY <1>6, <2>5, <3>1 DEF Follows, SettleIn, WriteOf
  <2>6. i \in 1..(MaxType + 3)
    BY <1>1, <1>6, <1>7
  <2> QED
    BY <1>1, <2>1, <2>2, <2>3, <2>4, <2>5, <2>6
<1>8. k[Len(k)].op = "write"
  BY <1>6 DEF WriteOf
<1>9. ASSUME NEW i \in DOMAIN job', i < Len(job') PROVE Follows(job[i], job[i + 1])'
  BY <1>7, <1>9 DEF k, Follows, Other
<1>10. WriteJob'
  BY <1>8, <1>9 DEF WriteJob, k
<1>11. k # <<>> /\ Head(k) = k[1]
  BY <1>5, <1>6, <1>1
<1> QED
  BY <1>6, <1>10, <1>11 DEF k, EraseOf

\* The initial states.
LEMMA InitCycle == Init => Cycle
<1> SUFFICES ASSUME Init PROVE Cycle
  OBVIOUS
<1> USE DEF Init
<1>1. job = <<>> /\ ~HeadIs("write") /\ ~HeadIs("move") /\ ~HeadIs("copy") /\ ~HeadIs("settle")
  BY DEF HeadIs
<1>2. \A p \in Page, k \in Slot : flash[p][k] = Erased /\ Erased.state = "erased"
  BY DEF Erased
<1>3. WriteJob
  BY <1>1 DEF WriteJob
<1>4. RoomAhead
  BY <1>1, <1>2, MaxTypeNat DEF RoomAhead, ErasedFrom, Begun
<1>5. BegunByHead
  BY DEF BegunByHead
<1>6. Entries /\ ReadsLast
  BY DEF Entries, ReadsLast, EmptyTable, Reads
<1>7. Clean
  BY <1>2 DEF Clean
<1>8. NothingYet
  BY <1>2, MaxTypeNat DEF NothingYet, PageErased
<1> QED
  BY <1>3, <1>4, <1>5, <1>6, <1>7, <1>8 DEF Cycle

\* The driver starts on erased pages.
LEMMA StartCycle == Cycle /\ Start /\ TypeInv => Cycle'
<1> SUFFICES ASSUME Cycle, Start, TypeInv PROVE Cycle'
  OBVIOUS
<1>1. /\ power = "off" /\ power' = "boot"
      /\ UNCHANGED <<flash, mig, stage, last, hidden>>
  BY DEF Start, ghosts
<1>2. job = <<>> /\ table = EmptyTable /\ page = 0 /\ pos = 0 /\ PageErased(0) /\ PageErased(1)
  BY <1>1 DEF Cycle, NothingYet
<1>3. SetRam([Cleared EXCEPT !.sn = SnStart]) /\ job' = <<>>
  BY <1>2 DEF Start, Other, Page
<1>4. table' = EmptyTable /\ page' = 0 /\ pos' = 0
  BY <1>3 DEF SetRam, Cleared
<1>5. UNCHANGED <<job, table, page, pos, flash, mig, stage, last, hidden>>
  BY <1>1, <1>2, <1>3, <1>4
<1>6. \A op : HeadIs(op)' = HeadIs(op)
  BY <1>5 DEF HeadIs
<1>7. WriteJob' /\ RoomAhead' /\ Clean' /\ BegunByHead'
  BY <1>5, <1>6 DEF Cycle, WriteJob, Follows, Other, RoomAhead, ErasedFrom, Clean, BegunByHead, Full
<1>8. Entries' /\ ReadsLast'
  BY <1>2, <1>5 DEF Cycle, Entries, EmptyTable, ReadsLast, Reads
<1>9. NothingYet'
  BY <1>2, <1>5 DEF NothingYet, PageErased
<1> QED
  BY <1>7, <1>8, <1>9 DEF Cycle

\* The end of the start.
LEMMA ReadyCycle == Cycle /\ Ready => Cycle'
<1> SUFFICES ASSUME Cycle, Ready PROVE Cycle'
  OBVIOUS
<1>1. /\ power' = "on" /\ last' = [t \in Type |-> Reads(t)]
      /\ UNCHANGED <<job, table, page, pos, sn, flash, mig, stage>>
  BY DEF Ready, ram
<1>2. \A op : HeadIs(op)' = HeadIs(op)
  BY <1>1 DEF HeadIs
<1>3. WriteJob' /\ RoomAhead' /\ Clean' /\ BegunByHead'
  BY <1>1, <1>2 DEF Cycle, WriteJob, Follows, Other, RoomAhead, ErasedFrom, Clean, BegunByHead, Full
<1>4. Entries'
  BY <1>1, <1>2 DEF Cycle, Entries, Entry, Moved, Other
<1>5. ReadsLast'
  BY <1>1 DEF ReadsLast, Reads
<1>6. NothingYet'
  BY <1>1 DEF NothingYet
<1> QED
  BY <1>3, <1>4, <1>5, <1>6 DEF Cycle

\* The driver is on while a job is left.
LEMMA JobMeansOn ==
  ASSUME TypeInv, Cycle, job # <<>>
  PROVE  power = "on"
BY DEF Cycle, NothingYet

\* The page that is erased first holds nothing that is on file.
LEMMA EraseCycle == TypeInv /\ Cycle /\ Erase => Cycle'
<1> SUFFICES ASSUME TypeInv, Cycle, Erase PROVE Cycle'
  OBVIOUS
<1> DEFINE o == Other(page)
<1>1. job # <<>> /\ Head(job).op = "erase" /\ Done
      /\ UNCHANGED <<table, page, pos, sn, mig, stage, power, last, hidden>>
      /\ flash' = [flash EXCEPT ![Head(job).page] = [k \in Slot |-> Erased]]
  BY DEF Erase, HeadIs, ram, ghosts
<1>2. WriteJob /\ RoomAhead /\ BegunByHead /\ Entries /\ ReadsLast /\ Clean /\ TypeOK
      /\ power = "on"
  BY <1>1, JobMeansOn DEF Cycle, TypeInv
<1>3. Tail(job) # <<>> /\ Follows(Head(job), Head(Tail(job)))
  BY <1>1, <1>2, NextStep
<1>4. Head(job).page = o /\ Head(Tail(job)).op = "move"
  BY <1>1, <1>3 DEF Follows
<1>5. job' # <<>> /\ Head(job').op = "move"
  BY <1>1, <1>3, <1>4 DEF Done
<1>6. page \in Page /\ o \in Page /\ o # page /\ flash \in [Page -> [Slot -> Cell]]
  BY <1>2, OtherIn DEF TypeOK
<1> HIDE DEF o
<1>7. flash'[page] = flash[page] /\ flash'[o] = [k \in Slot |-> Erased]
      /\ \A p \in Page : p = page \/ p = o
  <2>1. \A p \in Page : p = page \/ p = o
    BY <1>6 DEF Page, o, Other
  <2> QED
    BY <1>1, <1>4, <1>6, <2>1
<1>8. Erased.state = "erased"
  BY DEF Erased
<1>9. stage = 0
  BY <1>1, <1>2 DEF BegunByHead, HeadIs
<1>10. WriteJob'
  BY <1>1, <1>2, WriteJobDone
<1>11. RoomAhead'
  <2>1. ErasedFrom(page, pos, 0)'
    BY <1>1, <1>2, <1>7 DEF RoomAhead, HeadIs, ErasedFrom
  <2>4. \A i \in Slot : flash'[o][i].state = "erased"
    BY <1>7, <1>8
  <2>2. ErasedFrom(Other(page), 0, 0)'
    BY <1>1, <2>4 DEF ErasedFrom, Begun, o, Other
  <2>3. /\ ~HeadIs("write")' /\ ~HeadIs("copy")' /\ ~HeadIs("settle")'
    BY <1>5 DEF HeadIs
  <2> QED
    BY <1>1, <2>1, <2>2, <2>3 DEF RoomAhead, ErasedFrom
<1>12. ASSUME NEW t \in Type, table[t] # None
       PROVE  table[t].page = page /\ table[t].slot < pos /\ table[t].sn <= sn
              /\ flash[page][table[t].slot].state = "whole"
              /\ flash[page][table[t].slot].type = t
  <2>1. ~Moved(t)
    BY <1>1 DEF Moved, HeadIs
  <2> QED
    BY <1>2, <1>12, <2>1 DEF Entries, Entry
<1>13. Entries'
  <2>1. \A t : ~Moved(t)'
    BY <1>5 DEF Moved, HeadIs
  <2> QED
    BY <1>1, <1>7, <1>9, <1>12, <2>1 DEF Entries, Entry
<1>14. ReadsLast'
  <2>1. \A t \in Type : Reads(t)' = Reads(t)
    BY <1>1, <1>7, <1>12 DEF Reads
  <2> QED
    BY <1>1, <1>2, <2>1 DEF ReadsLast
<1>15. Clean'
  BY <1>2, <1>6, <1>7, <1>8 DEF Clean
<1>16. BegunByHead' /\ NothingYet'
  BY <1>1, <1>2, <1>9 DEF BegunByHead, NothingYet
<1> QED
  BY <1>10, <1>11, <1>13, <1>14, <1>15, <1>16 DEF Cycle

\* A move begins in an erased page.
LEMMA MoveCycle == TypeInv /\ Cycle /\ Move => Cycle'
<1> SUFFICES ASSUME TypeInv, Cycle, Move PROVE Cycle'
  OBVIOUS
<1>1. job # <<>> /\ Head(job).op = "move" /\ Done /\ mig' = 0
      /\ UNCHANGED <<flash, table, page, pos, sn, stage, power, last, hidden>>
  BY DEF Move, HeadIs, ghosts
<1>2. WriteJob /\ RoomAhead /\ BegunByHead /\ Entries /\ ReadsLast /\ Clean /\ TypeOK
      /\ power = "on"
  BY <1>1, JobMeansOn DEF Cycle, TypeInv
<1>3. Tail(job) # <<>> /\ Follows(Head(job), Head(Tail(job)))
  BY <1>1, <1>2, NextStep
<1>4. job' # <<>> /\ Head(job') = CopyOf(1, Other(page))
  BY <1>1, <1>3 DEF Follows, Done
<1>5. Head(job').op = "copy" /\ Head(job').type = 1
  BY <1>4 DEF CopyOf
<1>6. stage = 0
  BY <1>1, <1>2 DEF BegunByHead, HeadIs
<1>7. WriteJob'
  BY <1>1, <1>2, WriteJobDone
<1>8. RoomAhead'
  <2>1. ErasedFrom(page, pos, 0) /\ ErasedFrom(Other(page), 0, 0)
    BY <1>1, <1>2 DEF RoomAhead, HeadIs
  <2>2. ~HeadIs("write")' /\ ~HeadIs("move")'
    BY <1>5 DEF HeadIs
  <2> QED
    BY <1>1, <1>6, <2>1, <2>2 DEF RoomAhead, ErasedFrom, Other
<1>9. \A t \in Type : ~Moved(t) /\ ~Moved(t)'
  <2>1. \A t \in Type : ~(t < 1)
    BY MaxTypeNat
  <2> QED
    BY <1>1, <1>5, <2>1 DEF Moved, HeadIs
<1>10. Entries'
  BY <1>1, <1>2, <1>6, <1>9 DEF Entries, Entry, HeadIs
<1>11. ReadsLast' /\ Clean' /\ BegunByHead' /\ NothingYet'
  BY <1>1, <1>2, <1>6 DEF ReadsLast, Reads, Clean, BegunByHead, NothingYet
<1> QED
  BY <1>7, <1>8, <1>10, <1>11 DEF Cycle

\* At the end of a move every type is in the page moved to.
LEMMA SettleCycle == TypeInv /\ Cycle /\ Settle => Cycle'
<1> SUFFICES ASSUME TypeInv, Cycle, Settle PROVE Cycle'
  OBVIOUS
<1> DEFINE o == Other(page)
<1>1. job # <<>> /\ Head(job).op = "settle" /\ Done /\ page' = Head(job).page /\ pos' = mig
      /\ UNCHANGED <<flash, table, sn, mig, stage, power, last, hidden>>
  BY DEF Settle, HeadIs, ghosts
<1>2. WriteJob /\ RoomAhead /\ BegunByHead /\ Entries /\ ReadsLast /\ Clean /\ TypeOK
      /\ power = "on"
  BY <1>1, JobMeansOn DEF Cycle, TypeInv
<1>3. Tail(job) # <<>> /\ Follows(Head(job), Head(Tail(job)))
  BY <1>1, <1>2, NextStep
<1>4. Head(job).page = o /\ Head(Tail(job)).op = "write"
  BY <1>1, <1>3 DEF Follows
<1>5. job' # <<>> /\ Head(job').op = "write" /\ page' = o
  BY <1>1, <1>3, <1>4 DEF Done
<1>6. stage = 0
  BY <1>1, <1>2 DEF BegunByHead, HeadIs
<1>7. WriteJob'
  BY <1>1, <1>2, WriteJobDone
<1>8. RoomAhead'
  <2>1. ErasedFrom(o, mig, 0)
    BY <1>1, <1>2, <1>6 DEF RoomAhead, HeadIs
  <2>2. HeadIs("write")' /\ ~HeadIs("move")' /\ ~HeadIs("copy")' /\ ~HeadIs("settle")'
    BY <1>5 DEF HeadIs
  <2> QED
    BY <1>1, <1>5, <1>6, <2>1, <2>2 DEF RoomAhead, ErasedFrom
<1>9. \A t \in Type : Moved(t) /\ ~Moved(t)'
  BY <1>1, <1>5 DEF Moved, HeadIs
<1>10. Entries'
  <2>1. ~HeadIs("copy")'
    BY <1>5 DEF HeadIs
  <2> QED
    BY <1>1, <1>2, <1>5, <1>9, <2>1 DEF Entries, Entry
<1>11. ReadsLast' /\ Clean' /\ BegunByHead' /\ NothingYet'
  BY <1>1, <1>2, <1>6 DEF ReadsLast, Reads, Clean, BegunByHead, NothingYet
<1> QED
  BY <1>7, <1>8, <1>10, <1>11 DEF Cycle

\* A part of a record, programmed where the parts before it are.
LEMMA ProgramPart ==
  ASSUME TypeOK, Clean, NEW p \in Page, NEW k \in Slot, NEW t \in Type, NEW s \in Nat,
         NEW v \in Value \cup {Junk}, Program(p, k, t, s, v), flash[p][k].state = Begun(stage)
  PROVE  /\ \A q \in Page, i \in Slot : (q # p \/ i # k) => flash'[q][i] = flash[q][i]
         /\ stage < 2 => flash'[p][k].state = Begun(stage + 1)
         /\ stage = 2 => /\ flash'[p][k].state = "whole" /\ flash'[p][k].type = t
                         /\ flash'[p][k].val = v
         /\ Clean'
<1>1. flash \in [Page -> [Slot -> Cell]] /\ stage \in {0, 1, 2}
  BY DEF TypeOK
<1> DEFINE to == Parts[stage + 1]
           new == [state |-> to, type |-> t, sn |-> s, val |-> IF to = "whole" THEN v ELSE Junk]
<1>2. /\ to \in {"headless", "broken", "whole"} /\ (to = "whole" <=> stage = 2)
      /\ stage < 2 => to = Begun(stage + 1)
      /\ Begun(stage) = [headless |-> "erased", broken |-> "headless", whole |-> "broken"][to]
  BY <1>1 DEF Parts, Begun
<1> HIDE DEF to
<1>3. Programmed(flash[p][k], to, t, s, v) = new
  BY <1>2 DEF Programmed
<1> HIDE DEF new
<1>4. flash' = [flash EXCEPT ![p][k] = new]
  BY <1>3 DEF Program, to
<1>5. flash'[p][k] = new /\ \A q \in Page, i \in Slot : (q # p \/ i # k) => flash'[q][i] = flash[q][i]
  BY <1>1, <1>4
<1>6. new.state = to /\ new.type = t /\ (to = "whole" => new.val = v)
  BY DEF new
<1>7. Clean'
  <2>1. ASSUME NEW q \in Page, NEW i \in Slot PROVE flash'[q][i].state # "garbled"
    <3>1. CASE q = p /\ i = k
      BY <1>2, <1>5, <1>6, <3>1
    <3>2. CASE q # p \/ i # k
      BY <1>5, <3>2 DEF Clean
    <3> QED
      BY <3>1, <3>2
  <2> QED
    BY <2>1 DEF Clean
<1> QED
  BY <1>1, <1>2, <1>5, <1>6, <1>7

\* The parts of a record are counted round.
LEMMA StageNumber ==
  ASSUME TypeOK
  PROVE  /\ stage \in {0, 1, 2} /\ stage \in Nat
         /\ (stage + 1) % 3 = IF stage = 2 THEN 0 ELSE stage + 1
<1>1. stage \in {0, 1, 2}
  BY DEF TypeOK
<1>2. 1 % 3 = 1 /\ 2 % 3 = 2 /\ 3 % 3 = 0
  OBVIOUS
<1> QED
  BY <1>1, <1>2

\* After the copy of type t, or when there is nothing to copy, the move has come
\* past t.
LEMMA CopyDone ==
  ASSUME TypeInv, WriteJob, job # <<>>, Head(job).op = "copy", Done, UNCHANGED page
  PROVE  /\ WriteJob' /\ job' # <<>>
         /\ Head(job').op = "copy" \/ Head(job').op = "settle"
         /\ \A u \in Type : Moved(u)' <=> (Moved(u) \/ u = Head(job).type)
<1> DEFINE t == Head(job).type
<1>1. Tail(job) # <<>> /\ Follows(Head(job), Head(Tail(job))) /\ Head(job) \in JobStep
      /\ job' = Tail(job)
  BY NextStep DEF Done
<1>2. t \in Type /\ Type = 1..MaxType /\ MaxType \in Nat
  BY <1>1, CopyIsNotPlain, MaxTypeNat
<1>3. \/ Head(job') = CopyOf(t + 1, Other(page))
      \/ t = MaxType /\ Head(job') = SettleIn(Other(page))
  BY <1>1 DEF Follows
<1>4. WriteJob'
  BY WriteJobDone
<1>5. \A u \in Type : Moved(u) <=> u < t
  BY DEF Moved, HeadIs
<1> HIDE DEF t
<1>6. CASE Head(job') = CopyOf(t + 1, Other(page))
  <2>1. Head(job').op = "copy" /\ Head(job').type = t + 1
    BY <1>6 DEF CopyOf
  <2>2. \A u \in Type : Moved(u)' <=> u < t + 1
    BY <1>1, <2>1 DEF Moved, HeadIs
  <2>3. \A u \in Type : u < t + 1 <=> (u < t \/ u = t)
    BY <1>2
  <2> QED
    BY <1>1, <1>4, <1>5, <2>1, <2>2, <2>3 DEF t
<1>7. CASE t = MaxType /\ Head(job') = SettleIn(Other(page))
  <2>1. Head(job').op = "settle"
    BY <1>7 DEF SettleIn
  <2>2. \A u \in Type : Moved(u)'
    BY <1>1, <2>1 DEF Moved, HeadIs
  <2>3. \A u \in Type : u < t \/ u = t
    BY <1>2, <1>7
  <2> QED
    BY <1>1, <1>4, <1>5, <2>1, <2>2, <2>3 DEF t
<1> QED
  BY <1>3, <1>6, <1>7

\* A part of a copy: the entry of its type goes over with the last part, and
\* takes the copy since the serial number was counted on.
LEMMA CopyCycle == TypeInv /\ Cycle /\ BelowMax /\ Copy => Cycle'
<1> SUFFICES ASSUME TypeInv, Cycle, BelowMax, Copy PROVE Cycle'
  OBVIOUS
<1>t. PICK t : t = Head(job).type
  OBVIOUS
<1>p. PICK p : p = Head(job).page
  OBVIOUS
<1>o. PICK o : o = Other(page)
  OBVIOUS
<1>s. PICK s : s = IF stage = 0 THEN MigrationSn ELSE sn
  OBVIOUS
<1>n. PICK new : new = [sn |-> s, page |-> p, slot |-> mig]
  OBVIOUS
<1>1. /\ job # <<>> /\ Head(job).op = "copy" /\ UNCHANGED <<power, last, hidden>>
      /\ IF table[t] = None
         THEN Done /\ UNCHANGED <<flash, ram, stage>>
         ELSE /\ Program(p, mig, t, s, Reads(t))
              /\ sn' = s
              /\ stage' = (stage + 1) % 3
              /\ IF stage < 2
                 THEN UNCHANGED <<table, mig, job>>
                 ELSE /\ table' = Updated(table, t, new)
                      /\ mig' = mig + 1
                      /\ Done
              /\ UNCHANGED <<page, pos>>
  BY <1>t, <1>p, <1>s, <1>n DEF Copy, HeadIs, ghosts
<1>2. WriteJob /\ RoomAhead /\ BegunByHead /\ Entries /\ ReadsLast /\ Clean /\ TypeOK
      /\ power = "on" /\ job \in Seq(JobStep) /\ InRow(mig, job)
  BY <1>1, JobMeansOn DEF Cycle, TypeInv
<1>3. Tail(job) # <<>> /\ Follows(Head(job), Head(Tail(job))) /\ Head(job) \in JobStep
      /\ Head(job) = job[1]
  BY <1>1, <1>2, NextStep
<1>4. p = o /\ t \in Type /\ page \in Page /\ o \in Page /\ o # page
      /\ flash \in [Page -> [Slot -> Cell]] /\ t \in Nat
  BY <1>t, <1>p, <1>o, <1>1, <1>2, <1>3, CopyIsNotPlain, OtherIn, MaxTypeNat DEF Follows, TypeOK
<1>5. mig \in Nat /\ mig \in Slot /\ sn \in Nat /\ pos \in Nat
  <2>0. 1 \in DOMAIN job /\ job[1].op = "copy"
    <3>1. Len(job) \in Nat \ {0} /\ DOMAIN job = 1..Len(job)
      BY <1>1, <1>2
    <3> QED
      BY <1>1, <1>3, <3>1
  <2>1. mig < job[1].type
    <3>1. InRow(mig, job)
      BY <1>2
    <3> QED
      BY <2>0, <3>1 DEF InRow
  <2>2. mig \in Nat /\ sn \in Nat /\ pos \in Nat
    BY <1>2, MaxTypeNat DEF TypeOK
  <2>3. t \in 1..MaxType /\ MaxType <= PageSlots /\ MaxType \in Nat /\ PageSlots \in Nat
    BY <1>4, MaxTypeNat
  <2>4. mig < t
    BY <1>t, <1>3, <2>1
  <2> QED
    BY <2>2, <2>3, <2>4, MaxTypeNat
<1>6. stage \in {0, 1, 2} /\ (stage + 1) % 3 = (IF stage = 2 THEN 0 ELSE stage + 1)
  BY <1>2, StageNumber
<1>7. s = (IF stage = 0 THEN sn + 1 ELSE sn) /\ s \in Nat
  <2>1. sn + 1 # SnMax
    BY <1>5, DataSetAssumption DEF BelowMax
  <2>2. MigrationSn = sn + 1
    BY <2>1 DEF MigrationSn, Wrapped
  <2> QED
    BY <1>s, <1>5, <2>2
<1>8. /\ ErasedFrom(page, pos, 0) /\ ErasedFrom(o, mig, stage)
  BY <1>o, <1>1, <1>2 DEF RoomAhead, HeadIs
<1>9. HeadIs("copy") /\ ~HeadIs("write") /\ ~HeadIs("move") /\ ~HeadIs("settle")
  BY <1>1 DEF HeadIs
<1>10. CASE table[t] = None
  <2>1. Done /\ UNCHANGED <<flash, table, page, pos, sn, mig, stage, power, last, hidden>>
    BY <1>1, <1>10 DEF ram
  <2>2. stage = 0
    BY <1>t, <1>2, <1>9, <1>10 DEF BegunByHead
  <2>3. /\ WriteJob' /\ job' # <<>> /\ (Head(job').op = "copy" \/ Head(job').op = "settle")
        /\ \A u \in Type : Moved(u)' <=> (Moved(u) \/ u = t)
    BY <1>t, <1>1, <1>2, <2>1, CopyDone
  <2>4. RoomAhead'
    <3>1. ~HeadIs("write")' /\ ~HeadIs("move")'
      BY <2>3 DEF HeadIs
    <3> QED
      BY <1>o, <1>8, <2>1, <3>1 DEF RoomAhead, ErasedFrom, Other
  <2>5. Entries'
    <3>1. SUFFICES ASSUME NEW u \in Type, table[u] # None PROVE Entry(u, table[u])'
      BY <2>1 DEF Entries
    <3>2. u # t
      BY <1>10, <3>1
    <3>3. Moved(u)' <=> Moved(u)
      BY <2>3, <3>2
    <3>4. Entry(u, table[u])
      BY <1>2, <3>1 DEF Entries
    <3> QED
      BY <2>1, <2>2, <3>3, <3>4 DEF Entry, Other
  <2>6. ReadsLast' /\ Clean' /\ BegunByHead' /\ NothingYet'
    BY <1>2, <2>1, <2>2 DEF ReadsLast, Reads, Clean, BegunByHead, NothingYet
  <2> QED
    BY <2>3, <2>4, <2>5, <2>6 DEF Cycle
<1>11. CASE table[t] # None
  <2>1. /\ Program(o, mig, t, s, Reads(t)) /\ sn' = s /\ stage' = (IF stage = 2 THEN 0 ELSE stage + 1)
        /\ UNCHANGED <<page, pos, power, last, hidden>>
    BY <1>1, <1>4, <1>6, <1>11
  <2>2. Reads(t) \in Value \cup {Junk}
    BY <1>2, <1>4, <1>11, ReadsType
  <2>3. flash[o][mig].state = Begun(stage)
    BY <1>5, <1>8 DEF ErasedFrom
  <2>4. /\ \A q \in Page, i \in Slot : (q # o \/ i # mig) => flash'[q][i] = flash[q][i]
        /\ stage < 2 => flash'[o][mig].state = Begun(stage + 1)
        /\ stage = 2 => /\ flash'[o][mig].state = "whole" /\ flash'[o][mig].type = t
                        /\ flash'[o][mig].val = Reads(t)
        /\ Clean'
    BY <1>2, <1>4, <1>5, <1>7, <2>1, <2>2, <2>3, ProgramPart
  <2>5. ASSUME NEW u \in Type, table[u] # None
        PROVE  /\ table[u].page \in Page /\ table[u].slot \in Slot
               /\ table[u].page # o \/ table[u].slot # mig
               /\ flash'[table[u].page][table[u].slot] = flash[table[u].page][table[u].slot]
               /\ table[u].sn \in Nat /\ table[u].sn <= s /\ table[u].sn < s
               /\ Entry(u, table[u])
    <3>1. table[u] \in Place
      BY <1>2, <2>5, ReadsType
    <3>2. table[u].page \in Page /\ table[u].slot \in Slot /\ table[u].sn \in Nat
          /\ table[u].slot \in Nat
      BY <3>1, MaxTypeNat DEF Place
    <3>3. Entry(u, table[u])
      BY <1>2, <2>5 DEF Entries
    <3>4. table[u].page # o \/ table[u].slot # mig
      BY <1>o, <1>4, <1>5, <3>2, <3>3 DEF Entry
    <3>5. table[u].sn <= sn /\ (stage # 0 => table[u].sn < sn)
      BY <1>9, <3>3 DEF Entry
    <3>6. table[u].sn < s
      BY <1>5, <1>7, <3>2, <3>5
    <3> QED
      BY <1>7, <2>4, <3>2, <3>3, <3>4, <3>6
  <2>6. ASSUME NEW u \in Type
        PROVE  table'[u] = table[u] => Reads(u)' = Reads(u)
    BY <2>5 DEF Reads
  <2>7. ErasedFrom(page, pos, 0)'
    <3>1. \A i \in Slot : flash'[page][i] = flash[page][i]
      BY <1>4, <2>4
    <3> QED
      BY <1>8, <2>1, <3>1 DEF ErasedFrom
  <2>8. CASE stage # 2
    <3>1. UNCHANGED <<table, mig, job>> /\ stage' = stage + 1 /\ stage < 2
      BY <1>t, <1>s, <1>p, <1>1, <1>6, <1>11, <2>1, <2>8
    <3>2. \A op : HeadIs(op)' = HeadIs(op)
      BY <3>1 DEF HeadIs
    <3>3. WriteJob'
      BY <1>2, <2>1, <3>1 DEF WriteJob, Follows, Other
    <3>4. ErasedFrom(o, mig, stage)'
      <4>1. ASSUME NEW i \in Slot, i >= mig
            PROVE flash'[o][i].state = IF i = mig THEN Begun(stage + 1) ELSE "erased"
        BY <1>4, <1>8, <2>4, <3>1, <4>1 DEF ErasedFrom
      <4> QED
        BY <1>o, <2>1, <3>1, <4>1 DEF ErasedFrom, Begun, Other
    <3>5. RoomAhead'
      BY <1>o, <1>9, <2>1, <2>7, <3>1, <3>2, <3>4 DEF RoomAhead, ErasedFrom, Other
    <3>6. BegunByHead'
      BY <1>t, <1>9, <1>11, <3>1, <3>2 DEF BegunByHead
    <3>7. Entries'
      <4>1. ASSUME NEW u \in Type, table[u] # None PROVE Entry(u, table[u])'
        <5>1. Moved(u)' = Moved(u)
          BY <3>1, <3>2 DEF Moved
        <5> QED
          BY <2>1, <2>5, <3>1, <4>1, <5>1 DEF Entry, Other
      <4> QED
        BY <3>1, <4>1 DEF Entries
    <3>8. ReadsLast'
      BY <1>2, <2>1, <2>6, <3>1 DEF ReadsLast
    <3>9. NothingYet'
      BY <1>2, <2>1 DEF NothingYet
    <3> QED
      BY <2>4, <3>3, <3>5, <3>6, <3>7, <3>8, <3>9 DEF Cycle
  <2>9. CASE stage = 2
    <3>1. table' = Updated(table, t, new) /\ mig' = mig + 1 /\ Done /\ stage' = 0
          /\ new = [sn |-> s, page |-> o, slot |-> mig]
      BY <1>n, <1>p, <1>t, <1>s, <1>p, <1>1, <1>4, <1>11, <2>1, <2>9
    <3>2. Takes(table[t], new)
      BY <1>4, <1>11, <2>5, <3>1 DEF Takes
    <3>3. table' = [table EXCEPT ![t] = new] /\ table \in [Type -> Place \cup {None}]
      BY <1>2, <3>1, <3>2 DEF Updated, TypeOK
    <3>4. table'[t] = new /\ \A u \in Type : u # t => table'[u] = table[u]
      BY <1>4, <3>3
    <3>5. /\ WriteJob' /\ job' # <<>> /\ (Head(job').op = "copy" \/ Head(job').op = "settle")
          /\ \A u \in Type : Moved(u)' <=> (Moved(u) \/ u = t)
      BY <1>t, <1>1, <1>2, <2>1, <3>1, CopyDone
    <3>6. ErasedFrom(o, mig, stage)'
      <4>1. ASSUME NEW i \in Slot, i >= mig + 1 PROVE flash'[o][i].state = "erased"
        <5>1. i # mig /\ i >= mig
          BY <1>5, <4>1, MaxTypeNat
        <5> QED
          BY <1>4, <1>8, <2>4, <4>1, <5>1 DEF ErasedFrom
      <4> QED
        BY <1>o, <2>1, <3>1, <4>1 DEF ErasedFrom, Begun, Other
    <3>7. RoomAhead'
      <4>1. ~HeadIs("write")' /\ ~HeadIs("move")'
        BY <3>5 DEF HeadIs
      <4> QED
        BY <1>o, <2>1, <2>7, <3>6, <4>1 DEF RoomAhead, ErasedFrom, Other
    <3>8. BegunByHead'
      BY <3>1 DEF BegunByHead
    <3>9. Entries'
      <4>1. ASSUME NEW u \in Type, table'[u] # None, u # t PROVE Entry(u, table[u])'
        <5>1. Moved(u)' <=> Moved(u)
          BY <3>5, <4>1
        <5>2. table'[u] = table[u]
          BY <3>4, <4>1
        <5>3. table[u].slot < mig => table[u].slot < mig + 1
          BY <1>5, <2>5, <4>1, <5>2, MaxTypeNat
        <5> QED
          BY <2>1, <2>5, <3>1, <4>1, <5>1, <5>2, <5>3 DEF Entry, Other
      <4>2. Entry(t, table[t])'
        <5>1. Moved(t)'
          BY <1>4, <3>5
        <5>2. new.page = o /\ new.slot = mig /\ new.sn = s
          BY <3>1
        <5>3. flash'[o][mig].state = "whole" /\ flash'[o][mig].type = t
          BY <2>4, <2>9
        <5>4. mig < mig' /\ s <= sn'
          BY <1>5, <1>7, <2>1, <3>1
        <5>5. Other(page)' = o
          BY <1>o, <2>1 DEF Other
        <5> QED
          BY <3>1, <3>4, <5>1, <5>2, <5>3, <5>4, <5>5 DEF Entry
      <4>3. ASSUME NEW u \in Type, table'[u] # None PROVE Entry(u, table[u])'
        <5>1. CASE u = t
          BY <4>2, <5>1
        <5> QED
          BY <4>1, <4>3, <5>1
      <4> QED
        BY <4>3 DEF Entries
    <3>10. ReadsLast'
      <4>1. Reads(t)' = Reads(t)
        <5>1. new.page = o /\ new.slot = mig /\ new # None
          BY <1>5, <3>1, MaxTypeNat DEF None
        <5> QED
          BY <2>4, <2>9, <3>4, <5>1 DEF Reads
      <4>2. \A u \in Type : Reads(u)' = Reads(u)
        BY <2>6, <3>4, <4>1
      <4> QED
        BY <1>2, <2>1, <4>2 DEF ReadsLast
    <3>11. NothingYet'
      BY <1>2, <2>1 DEF NothingYet
    <3> QED
      BY <2>4, <3>5, <3>7, <3>8, <3>9, <3>10, <3>11 DEF Cycle
  <2> QED
    BY <2>8, <2>9
<1> QED
  BY <1>10, <1>11

\* A write programs its record behind the ones of the current page, and counts
\* on before the next: only where its number is on file does the table not take
\* it.
LEMMA WriteCycle == TypeInv /\ Cycle /\ BelowMax /\ Write => Cycle'
<1> SUFFICES ASSUME TypeInv, Cycle, BelowMax, Write PROVE Cycle'
  OBVIOUS
<1>t. PICK t : t = Head(job).type
  OBVIOUS
<1>v. PICK v : v = Head(job).val
  OBVIOUS
<1>n. PICK new : new = [sn |-> sn, page |-> page, slot |-> pos]
  OBVIOUS
<1>1. /\ WriteJob /\ RoomAhead /\ BegunByHead /\ Entries /\ ReadsLast /\ Clean /\ TypeOK
      /\ HeadIs("write") /\ ~HeadIs("copy") /\ ~HeadIs("move") /\ ~HeadIs("settle")
      /\ job # <<>> /\ power = "on"
  <2>1. job # <<>> /\ Head(job).op = "write"
    BY DEF Write, HeadIs
  <2> QED
    BY <2>1, JobMeansOn DEF Cycle, TypeInv, HeadIs
<1>2. Wrapped(sn) = sn /\ sn \in Nat /\ stage \in {0, 1, 2}
      /\ (stage + 1) % 3 = (IF stage = 2 THEN 0 ELSE stage + 1)
  <2>1. sn \in Nat /\ SnMax \in Nat
    BY <1>1, DataSetAssumption DEF TypeOK
  <2>2. sn # SnMax
    BY <2>1 DEF BelowMax
  <2> QED
    BY <1>1, <2>1, <2>2, StageNumber DEF Wrapped
<1>3. /\ UNCHANGED <<page, mig, power>>
      /\ IF Full
         THEN Done /\ UNCHANGED <<flash, table, pos, sn, stage, last, hidden>>
         ELSE /\ Program(page, pos, t, sn, v)
              /\ stage' = (stage + 1) % 3
              /\ IF stage < 2
                   THEN /\ sn' = sn
                        /\ UNCHANGED <<table, pos, job, last, hidden>>
                   ELSE /\ table' = Updated(table, t, new)
                        /\ pos' = pos + 1
                        /\ sn' = sn + 1
                        /\ last' = [last EXCEPT ![t] = v]
                        /\ hidden' = IF table[t] # None /\ table[t].sn = sn
                                       THEN hidden \cup {t} ELSE hidden \ {t}
                        /\ Done
  BY <1>t, <1>v, <1>n, <1>2 DEF Write
<1>4. t \in Type /\ v \in Value
  BY <1>t, <1>v, <1>1, HeadStep, CopyIsNotPlain DEF HeadIs
<1>5. Tail(job) = <<>>
  BY <1>1, NextStep DEF HeadIs
<1>6. ErasedFrom(page, pos, stage)
  BY <1>1 DEF RoomAhead
<1>7. page \in Page /\ pos \in Nat /\ flash \in [Page -> [Slot -> Cell]]
      /\ table \in [Type -> Place \cup {None}]
  BY <1>1, MaxTypeNat DEF TypeOK
<1>8. NothingYet'
  BY <1>1, <1>3 DEF NothingYet
<1>10. Done => job' = <<>> /\ (\A op : ~HeadIs(op)') /\ WriteJob'
  <2>1. SUFFICES ASSUME Done PROVE job' = <<>> /\ (\A op : ~HeadIs(op)') /\ WriteJob'
    OBVIOUS
  <2>2. job' = <<>>
    BY <1>5, <2>1 DEF Done
  <2> QED
    BY <2>2 DEF HeadIs, WriteJob
<1>11. CASE Full
  <2>1. Done /\ UNCHANGED <<flash, table, page, pos, sn, mig, stage, power, last, hidden>>
    BY <1>3, <1>11
  <2>2. stage = 0
    BY <1>1, <1>11 DEF BegunByHead
  <2>3. RoomAhead'
    BY <1>6, <1>10, <2>1, <2>2 DEF RoomAhead, ErasedFrom
  <2>4. Entries'
    BY <1>1, <1>10, <2>1 DEF Entries, Entry, Moved
  <2>5. ReadsLast' /\ Clean' /\ BegunByHead'
    BY <1>1, <2>1, <2>2 DEF ReadsLast, Reads, Clean, BegunByHead
  <2> QED
    BY <1>8, <1>10, <2>1, <2>3, <2>4, <2>5 DEF Cycle
<1>12. CASE ~Full
  <2>1. Program(page, pos, t, sn, v) /\ stage' = (IF stage = 2 THEN 0 ELSE stage + 1)
        /\ UNCHANGED <<page, mig, power>>
    BY <1>2, <1>3, <1>12
  <2>2. pos \in Slot
    BY <1>1, <1>12, MaxTypeNat DEF TypeOK, Full
  <2>3. flash[page][pos].state = Begun(stage)
    BY <1>6, <1>7, <2>2 DEF ErasedFrom
  <2>4. /\ \A q \in Page, i \in Slot : (q # page \/ i # pos) => flash'[q][i] = flash[q][i]
        /\ stage < 2 => flash'[page][pos].state = Begun(stage + 1)
        /\ stage = 2 => /\ flash'[page][pos].state = "whole" /\ flash'[page][pos].type = t
                        /\ flash'[page][pos].val = v
        /\ Clean'
    BY <1>1, <1>2, <1>4, <1>7, <2>1, <2>2, <2>3, ProgramPart
  <2>5. ASSUME NEW u \in Type, table[u] # None
        PROVE  /\ table[u].page = page /\ table[u].slot \in Slot /\ table[u].slot < pos
               /\ flash'[page][table[u].slot] = flash[page][table[u].slot]
               /\ flash[page][table[u].slot].state = "whole"
               /\ flash[page][table[u].slot].type = u
               /\ table[u].sn \in Nat /\ table[u].sn <= sn
    <3>1. Entry(u, table[u]) /\ ~Moved(u)
      BY <1>1, <2>5 DEF Entries, Moved
    <3>2. table[u] \in Place
      BY <1>7, <2>5
    <3>3. table[u].slot \in Slot /\ table[u].slot \in Nat /\ table[u].sn \in Nat
      BY <3>2, MaxTypeNat DEF Place
    <3>4. table[u].page = page /\ table[u].slot < pos
      BY <3>1 DEF Entry
    <3>5. table[u].slot # pos
      BY <1>7, <3>3, <3>4
    <3>6. flash'[page][table[u].slot] = flash[page][table[u].slot]
      BY <1>7, <2>4, <3>3, <3>5
    <3> QED
      BY <3>1, <3>3, <3>4, <3>6 DEF Entry
  <2>6. ASSUME NEW u \in Type, table'[u] = table[u]
        PROVE  Reads(u)' = Reads(u)
    BY <2>1, <2>5, <2>6 DEF Reads
  <2>7. CASE stage # 2
    <3>1. UNCHANGED <<table, pos, sn, job, last, hidden>> /\ stage' = stage + 1 /\ stage < 2
      BY <1>2, <1>3, <1>12, <2>1, <2>7
    <3>2. \A op : HeadIs(op)' = HeadIs(op)
      BY <3>1 DEF HeadIs
    <3>3. WriteJob'
      BY <1>1, <2>1, <3>1 DEF WriteJob, Follows, Other
    <3>4. RoomAhead'
      <4>1. ASSUME NEW i \in Slot, i >= pos
            PROVE flash'[page][i].state = IF i = pos THEN Begun(stage + 1) ELSE "erased"
        BY <1>6, <1>7, <2>4, <3>1, <4>1 DEF ErasedFrom
      <4>2. ErasedFrom(page, pos, stage)'
        BY <2>1, <3>1, <4>1 DEF ErasedFrom, Begun
      <4>3. HeadIs("write")' /\ ~HeadIs("copy")' /\ ~HeadIs("move")' /\ ~HeadIs("settle")'
        BY <1>1, <3>2
      <4> QED
        BY <4>2, <4>3 DEF RoomAhead
    <3>5. BegunByHead'
      BY <1>1, <1>12, <2>1, <3>1, <3>2 DEF BegunByHead, Full
    <3>6. Entries'
      BY <1>1, <2>1, <2>5, <3>1, <3>2 DEF Entries, Entry, Moved
    <3>7. ReadsLast'
      BY <1>1, <2>6, <3>1 DEF ReadsLast
    <3> QED
      BY <1>8, <2>4, <3>3, <3>4, <3>5, <3>6, <3>7 DEF Cycle
  <2>8. CASE stage = 2
    <3>1. /\ table' = Updated(table, t, new) /\ pos' = pos + 1 /\ sn' = sn + 1
          /\ last' = [last EXCEPT ![t] = v] /\ Done /\ stage' = 0
          /\ hidden' = IF table[t] # None /\ table[t].sn = sn
                         THEN hidden \cup {t} ELSE hidden \ {t}
          /\ new.sn = sn /\ new.page = page /\ new.slot = pos /\ new # None
      BY <1>n, <1>2, <1>3, <1>7, <1>12, <2>1, <2>8 DEF None
    <3>2. job' = <<>> /\ (\A op : ~HeadIs(op)') /\ WriteJob'
      BY <1>10, <3>1
    <3>3. table'[t] = (IF Takes(table[t], new) THEN new ELSE table[t])
          /\ \A u \in Type : u # t => table'[u] = table[u]
      BY <1>4, <1>7, <3>1 DEF Updated
    <3>4. ErasedFrom(page, pos, 0)'
      <4>1. ASSUME NEW i \in Slot, i >= pos + 1 PROVE flash'[page][i].state = "erased"
        <5>1. i # pos /\ i >= pos
          BY <1>7, <4>1, MaxTypeNat
        <5> QED
          BY <1>6, <1>7, <2>4, <4>1, <5>1 DEF ErasedFrom
      <4> QED
        BY <2>1, <3>1, <4>1 DEF ErasedFrom, Begun
    <3>5. RoomAhead' /\ BegunByHead'
      BY <3>1, <3>2, <3>4 DEF RoomAhead, BegunByHead
    <3>6. ASSUME NEW u \in Type, table'[u] # None, table'[u] = table[u]
          PROVE  Entry(u, table[u])'
      <4>1. table[u].slot < pos + 1 /\ table[u].sn <= sn + 1
        BY <1>2, <1>7, <2>5, <3>6, MaxTypeNat, SMTT(30)
      <4>2. ~Moved(u)' /\ ~HeadIs("copy")'
        BY <3>2 DEF Moved
      <4> QED
        BY <2>1, <2>5, <3>1, <3>6, <4>1, <4>2 DEF Entry
    <3>7. ASSUME table'[t] = new PROVE Entry(t, table[t])'
      <4>1. pos < pos + 1 /\ sn <= sn + 1
        BY <1>2, <1>7
      <4>2. ~Moved(t)' /\ ~HeadIs("copy")'
        BY <3>2 DEF Moved
      <4> QED
        BY <2>1, <2>4, <2>8, <3>1, <3>7, <4>1, <4>2 DEF Entry
    <3>8. Entries'
      BY <3>3, <3>6, <3>7 DEF Entries
    <3>9. ASSUME NEW u \in Type PROVE Reads(u)' = last'[u] \/ u \in hidden'
      <4>1. CASE u # t
        <5>1. last'[u] = last[u] /\ (u \in hidden => u \in hidden')
          BY <1>1, <3>1, <4>1 DEF TypeOK
        <5> QED
          BY <1>1, <2>6, <3>3, <4>1, <5>1 DEF ReadsLast
      <4>2. CASE u = t /\ Takes(table[t], new)
        <5>1. last'[t] = v
          BY <1>1, <1>4, <3>1 DEF TypeOK
        <5>2. Reads(t)' = flash'[page][pos].val
          BY <3>1, <3>3, <4>2 DEF Reads
        <5> QED
          BY <2>4, <2>8, <4>2, <5>1, <5>2
      <4>3. CASE u = t /\ ~Takes(table[t], new)
        <5>1. table[t] # None /\ ~(table[t].sn < sn)
          BY <3>1, <4>3 DEF Takes
        <5>2. table[t].sn = sn
          BY <1>2, <1>4, <2>5, <5>1
        <5> QED
          BY <3>1, <4>3, <5>1, <5>2
      <4> QED
        BY <4>1, <4>2, <4>3
    <3>10. ReadsLast'
      BY <3>9 DEF ReadsLast
    <3> QED
      BY <1>8, <2>4, <3>2, <3>5, <3>8, <3>10 DEF Cycle
  <2> QED
    BY <2>7, <2>8
<1> QED
  BY <1>11, <1>12

\* Between two calls there is no step to come.
LEMMA IdleCycle ==
  ASSUME Cycle, Idle
  PROVE  /\ WriteJob /\ RoomAhead /\ Entries /\ ReadsLast /\ Clean
         /\ power = "on" /\ job = <<>> /\ stage = 0 /\ \A op : ~HeadIs(op)
<1>1. power = "on" /\ job = <<>> /\ \A op : ~HeadIs(op)
  BY DEF Idle, HeadIs
<1> QED
  BY <1>1 DEF Cycle, BegunByHead

\* ds_write begins, with a move if the page is full.
LEMMA CallWriteCycle ==
  ASSUME TypeInv, Cycle, NEW t \in Type, NEW v \in Value, CallWrite(t, v)
  PROVE  Cycle'
<1>1. /\ Idle
      /\ UNCHANGED <<flash, table, page, pos, sn, mig, stage, power, last, hidden>>
      /\ job' = IF Full
                  THEN <<EraseOf(Other(page))>> \o MoveOf(page)
                         \o <<SettleIn(Other(page)), WriteOf(t, v)>>
                  ELSE <<WriteOf(t, v)>>
  BY DEF CallWrite, Call, ram
<1>2. /\ WriteJob /\ RoomAhead /\ Entries /\ ReadsLast /\ Clean
      /\ power = "on" /\ job = <<>> /\ stage = 0 /\ \A op : ~HeadIs(op)
  BY <1>1, IdleCycle
<1>3. page \in Page
  BY DEF TypeInv, TypeOK
<1>4. WriteJob' /\ job' # <<>> /\ Head(job').op \in {"erase", "write"}
  <2>1. CASE Full
    BY <1>1, <1>3, <2>1, MovingJob
  <2>2. CASE ~Full
    <3>1. job' = <<WriteOf(t, v)>>
      BY <1>1, <2>2
    <3>2. Len(job') = 1 /\ job'[1] = WriteOf(t, v) /\ job' # <<>> /\ Head(job') = WriteOf(t, v)
          /\ DOMAIN job' = {1}
      BY <3>1
    <3>3. WriteOf(t, v).op = "write"
      BY DEF WriteOf
    <3> QED
      BY <3>2, <3>3 DEF WriteJob
  <2> QED
    BY <2>1, <2>2
<1>5. ~HeadIs("move")' /\ ~HeadIs("copy")' /\ ~HeadIs("settle")'
  BY <1>4 DEF HeadIs
<1>6. RoomAhead'
  BY <1>1, <1>2, <1>5 DEF RoomAhead, ErasedFrom
<1>7. Entries'
  BY <1>1, <1>2, <1>5 DEF Entries, Entry, Moved
<1>8. ReadsLast' /\ Clean' /\ BegunByHead' /\ NothingYet'
  BY <1>1, <1>2 DEF ReadsLast, Reads, Clean, BegunByHead, NothingYet
<1> QED
  BY <1>4, <1>6, <1>7, <1>8 DEF Cycle

\* A cell whose type is struck was no other type's.
LEMMA CallDeleteCycle ==
  ASSUME TypeInv, Cycle, NEW t \in Type, CallDelete(t)
  PROVE  Cycle'
<1>1. /\ Idle
      /\ UNCHANGED <<page, pos, sn, mig, job, stage, power, hidden>>
      /\ IF table[t] = None
         THEN UNCHANGED <<flash, table, last>>
         ELSE /\ flash' = [flash EXCEPT ![table[t].page][table[t].slot] = Struck(@)]
              /\ table' = [table EXCEPT ![t] = None]
              /\ last' = [last EXCEPT ![t] = NoValue]
  BY DEF CallDelete, Call
<1>2. /\ WriteJob /\ RoomAhead /\ Entries /\ ReadsLast /\ Clean
      /\ power = "on" /\ job = <<>> /\ stage = 0 /\ \A op : ~HeadIs(op)
  BY <1>1, IdleCycle
<1>3. job' = <<>> /\ \A op : ~HeadIs(op)'
  BY <1>1, <1>2 DEF HeadIs
<1>4. TypeOK /\ page \in Page /\ pos \in Nat /\ flash \in [Page -> [Slot -> Cell]]
      /\ table \in [Type -> Place \cup {None}]
      /\ last \in [Type -> Value \cup {Junk, NoValue}]
  BY MaxTypeNat DEF TypeInv, TypeOK
<1>5. WriteJob' /\ BegunByHead' /\ NothingYet'
  BY <1>1, <1>2, <1>3 DEF WriteJob, BegunByHead, NothingYet
<1>6. CASE table[t] = None
  <2>1. UNCHANGED <<flash, table, last>>
    BY <1>1, <1>6
  <2>2. RoomAhead' /\ Entries' /\ ReadsLast' /\ Clean'
    BY <1>1, <1>2, <1>3, <2>1 DEF RoomAhead, ErasedFrom, Entries, Entry, Moved, ReadsLast, Reads, Clean
  <2> QED
    BY <1>5, <2>2 DEF Cycle
<1>7. CASE table[t] # None
  <2>1. PICK k : k = table[t].slot
    OBVIOUS
  <2>2. ASSUME NEW u \in Type, table[u] # None
        PROVE  /\ Entry(u, table[u]) /\ table[u].page = page /\ table[u].slot < pos
               /\ table[u].slot \in Slot /\ table[u].slot \in Nat
               /\ flash[page][table[u].slot].state = "whole"
               /\ flash[page][table[u].slot].type = u
    <3>1. Entry(u, table[u]) /\ ~Moved(u)
      BY <1>2, <2>2 DEF Entries, Moved
    <3>2. table[u] \in Place
      BY <1>4, <2>2
    <3>3. table[u].slot \in Slot /\ table[u].slot \in Nat
      BY <3>2, MaxTypeNat DEF Place
    <3> QED
      BY <3>1, <3>3 DEF Entry
  <2>3. /\ table[t].page = page /\ k \in Slot /\ k \in Nat /\ k < pos
        /\ flash[page][k].state = "whole" /\ flash[page][k].type = t
    BY <1>7, <2>1, <2>2
  <2>4. /\ flash' = [flash EXCEPT ![page][k] = Struck(flash[page][k])]
        /\ table' = [table EXCEPT ![t] = None]
        /\ last' = [last EXCEPT ![t] = NoValue]
    BY <1>1, <1>7, <2>1, <2>3
  <2>5. Struck(flash[page][k]).state = "broken"
    <3>1. flash[page][k] \in Cell
      BY <1>4, <2>3
    <3> DEFINE c == flash[page][k]
               d == [c EXCEPT !.type = 0]
    <3>2. Struck(c) = [d EXCEPT !.state = "broken"]
      BY <2>3 DEF Struck
    <3>3. "state" \in DOMAIN d
      BY <3>1 DEF Cell
    <3> HIDE DEF d
    <3> QED
      BY <3>2, <3>3
  <2>6. /\ \A q \in Page, i \in Slot : (q # page \/ i # k) => flash'[q][i] = flash[q][i]
        /\ flash'[page][k].state = "broken"
    BY <1>4, <2>3, <2>4, <2>5
  <2>7. table'[t] = None /\ last'[t] = NoValue
        /\ \A u \in Type : u # t => table'[u] = table[u] /\ last'[u] = last[u]
    BY <1>4, <2>4
  <2>8. RoomAhead'
    <3>1. ASSUME NEW i \in Slot, i >= pos PROVE flash'[page][i].state = "erased"
      <4>1. i # k
        BY <1>4, <2>3, <3>1
      <4>2. ErasedFrom(page, pos, 0)
        BY <1>2 DEF RoomAhead
      <4> QED
        BY <1>4, <2>6, <3>1, <4>1, <4>2 DEF ErasedFrom, Begun
    <3>2. ErasedFrom(page, pos, 0)'
      BY <1>1, <3>1 DEF ErasedFrom, Begun
    <3> QED
      BY <1>3, <3>2 DEF RoomAhead
  <2>9. ASSUME NEW u \in Type, u # t, table[u] # None
        PROVE  flash'[page][table[u].slot] = flash[page][table[u].slot]
    <3>1. table[u].slot # k
      BY <2>2, <2>3, <2>9
    <3> QED
      BY <1>4, <2>2, <2>6, <2>9, <3>1
  <2>10. Entries'
    <3>1. ASSUME NEW u \in Type, u # t, table[u] # None PROVE Entry(u, table[u])'
      <4>1. ~Moved(u) /\ ~Moved(u)' /\ ~HeadIs("copy")'
        BY <1>2, <1>3 DEF Moved
      <4> QED
        BY <1>1, <2>2, <2>7, <2>9, <3>1, <4>1 DEF Entry
    <3>2. ASSUME NEW u \in Type, table'[u] # None PROVE u # t /\ table[u] # None
      BY <2>7, <3>2
    <3> QED
      BY <3>1, <3>2 DEF Entries
  <2>11. ReadsLast'
    <3>1. ASSUME NEW u \in Type PROVE Reads(u)' = last'[u] \/ u \in hidden'
      <4>1. CASE u = t
        BY <2>7, <4>1 DEF Reads
      <4>2. CASE u # t
        <5>1. Reads(u)' = Reads(u)
          BY <1>1, <2>2, <2>7, <2>9, <4>2 DEF Reads
        <5> QED
          BY <1>1, <1>2, <2>7, <4>2, <5>1 DEF ReadsLast
      <4> QED
        BY <4>1, <4>2
    <3> QED
      BY <3>1 DEF ReadsLast
  <2>12. Clean'
    <3>1. ASSUME NEW q \in Page, NEW i \in Slot PROVE flash'[q][i].state # "garbled"
      <4>1. CASE q = page /\ i = k
        BY <2>6, <4>1
      <4>2. CASE q # page \/ i # k
        BY <1>2, <2>6, <4>2 DEF Clean
      <4> QED
        BY <4>1, <4>2
    <3> QED
      BY <3>1 DEF Clean
  <2> QED
    BY <1>5, <2>8, <2>10, <2>11, <2>12 DEF Cycle
<1> QED
  BY <1>6, <1>7

\* Nothing changes.
LEMMA StillCycle == Cycle /\ UNCHANGED vars => Cycle'
<1> SUFFICES ASSUME Cycle, UNCHANGED vars PROVE Cycle'
  OBVIOUS
<1>1. UNCHANGED <<flash, table, page, pos, sn, mig, job, stage, power, last, hidden>>
  BY DEF vars, ram, ghosts
<1>2. \A op : HeadIs(op)' = HeadIs(op)
  BY <1>1 DEF HeadIs
<1>3. WriteJob' /\ RoomAhead' /\ Clean' /\ BegunByHead'
  BY <1>1, <1>2 DEF Cycle, WriteJob, Follows, Other, RoomAhead, ErasedFrom, Clean, BegunByHead, Full
<1>4. Entries'
  BY <1>1, <1>2 DEF Cycle, Entries, Entry, Moved, Other
<1>5. ReadsLast' /\ NothingYet'
  BY <1>1 DEF Cycle, ReadsLast, Reads, NothingYet, PageErased
<1> QED
  BY <1>3, <1>4, <1>5 DEF Cycle

\* Only a loss of power counts as a restart.
LEMMA RestartsStep == [Next]_vars => restarts' = restarts \/ LosePower
<1> SUFFICES ASSUME [Next]_vars PROVE restarts' = restarts \/ LosePower
  OBVIOUS
<1>1. UNCHANGED vars => restarts' = restarts
  BY DEF vars, ghosts
<1>2. Start \/ Ready \/ Erase \/ Move \/ Settle \/ Rescan => restarts' = restarts
  BY DEF Start, Ready, Erase, Move, Settle, Rescan, ghosts
<1>3. Copy \/ Write \/ SetDefault => restarts' = restarts
  BY DEF Copy, Write, SetDefault, ghosts
<1>4. CallReset \/ CallRead => restarts' = restarts
  BY <1>1 DEF CallReset, CallRead
<1>5. ASSUME NEW t \in Type, CallDelete(t) \/ \E v \in Value : CallWrite(t, v)
      PROVE  restarts' = restarts
  BY <1>5 DEF CallDelete, CallWrite
<1> QED
  BY <1>1, <1>2, <1>3, <1>4, <1>5 DEF Next, Step

\* A step within the first power cycle; without ds_reset_to_default the jobs are
\* those of a write.
LEMMA CycleStep ==
  ASSUME "reset" \notin Calls, TypeInv, Cycle, BelowMax, restarts' = 0, [Next]_vars
  PROVE  Cycle'
<1>1. CASE Start
  BY <1>1, StartCycle
<1>2. CASE Ready
  BY <1>2, ReadyCycle
<1>3. CASE Erase
  BY <1>3, EraseCycle
<1>4. CASE Move
  BY <1>4, MoveCycle
<1>5. CASE Copy
  BY <1>5, CopyCycle
<1>6. CASE Settle
  BY <1>6, SettleCycle
<1>7. CASE Write
  BY <1>7, WriteCycle
<1>8. CASE Rescan \/ SetDefault
  <2>1. job # <<>> /\ Head(job).op \in {"scan", "default"}
    BY <1>8 DEF Rescan, SetDefault, HeadIs
  <2> QED
    BY <2>1, NextStep DEF Cycle
<1>9. ASSUME NEW t \in Type, CallDelete(t) PROVE Cycle'
  BY <1>9, CallDeleteCycle
<1>10. ASSUME NEW t \in Type, NEW v \in Value, CallWrite(t, v) PROVE Cycle'
  BY <1>10, CallWriteCycle
<1>11. ~CallReset
  BY DEF CallReset, Call
<1>12. CASE CallRead \/ UNCHANGED vars
  BY <1>12, StillCycle DEF CallRead
<1>13. ~LosePower
  <2>1. restarts \in Nat
    BY DEF TypeInv, TypeOK
  <2> QED
    BY <2>1 DEF LosePower
<1> QED
  BY <1>1, <1>2, <1>3, <1>4, <1>5, <1>6, <1>7, <1>8, <1>9, <1>10, <1>11, <1>12, <1>13
     DEF Next, Step

\* Cycle holds until power is lost for the first time.
LEMMA CycleInvariance ==
  ASSUME "reset" \notin Calls
  PROVE  Spec /\ []BelowMax => [](restarts = 0 => Cycle)
<1> DEFINE First == restarts = 0 => Cycle
<1>1. Init => First
  BY InitCycle
<1>2. TypeInv /\ First /\ BelowMax /\ [Next]_vars => First'
  <2>1. SUFFICES ASSUME TypeInv, First, BelowMax, [Next]_vars, restarts' = 0
                 PROVE  Cycle'
    OBVIOUS
  <2>2. restarts \in Nat
    BY <2>1 DEF TypeInv, TypeOK
  <2>3. restarts = 0
    BY <2>1, <2>2, RestartsStep DEF LosePower
  <2> QED
    BY <2>1, <2>3, CycleStep
<1>3. Spec => []TypeInv
  BY TypeInvariance
<1> HIDE DEF First
<1>4. Spec /\ []BelowMax => []First
  BY <1>1, <1>2, <1>3, PTL DEF Spec
<1> QED
  BY <1>4 DEF First

\* Until power is lost for the first time, and while the serial numbers have not
\* come to their end, every type on file is read between two calls from a whole
\* record of its own in the current page, however often ds_migration has moved
\* the page.
THEOREM EntriesAreCurrent ==
  ASSUME "reset" \notin Calls
  PROVE  Spec /\ []BelowMax => [](restarts = 0 => EntriesInCurrentPage)
<1>1. Cycle => EntriesInCurrentPage
  <2>1. SUFFICES ASSUME Cycle, Idle
                 PROVE  Sound /\ \A t \in Type : table[t] # None => table[t].page = page
    BY DEF EntriesInCurrentPage
  <2>2. Entries /\ \A op : ~HeadIs(op)
    BY <2>1, IdleCycle
  <2> QED
    BY <2>2 DEF Entries, Entry, Moved, Sound
<1>2. (restarts = 0 => Cycle) => (restarts = 0 => EntriesInCurrentPage)
  BY <1>1
<1> QED
  BY <1>2, CycleInvariance, PTL

\* Until power is lost for the first time, and while the serial numbers have not
\* come to their end, a type reads between two calls as ds_write wrote it last,
\* however often the page was moved, unless that write had the serial number on
\* file.
THEOREM ReadsAreLast ==
  ASSUME "reset" \notin Calls
  PROVE  Spec /\ []BelowMax => [](restarts = 0 => ReadsLastOrHidden)
<1>1. (restarts = 0 => Cycle) => (restarts = 0 => ReadsLastOrHidden)
  BY DEF Cycle, ReadsLast, ReadsLastOrHidden
<1> QED
  BY <1>1, CycleInvariance, PTL

\* Until power is lost for the first time, and while the serial numbers have not
\* come to their end, ds_write and ds_migration_write program no record over
\* another one.
THEOREM NoneGarbled ==
  ASSUME "reset" \notin Calls
  PROVE  Spec /\ []BelowMax => [](restarts = 0 => NothingGarbled)
<1>1. (restarts = 0 => Cycle) => (restarts = 0 => NothingGarbled)
  BY DEF Cycle, NothingGarbled
<1> QED
  BY <1>1, CycleInvariance, PTL

=============================================================================
