------------------------ MODULE EnhancedFlashDatasetProofs ------------------------
(* Proofs about the key-value store of efd_kv.c, for every number and size of *)
(* sectors, records and keys, and every length of a behaviour.                *)
(*                                                                            *)
(* The list of steps that are left carries the argument.  The first invariant *)
(* (Basic) says how the list is made: which step may stand behind which, that *)
(* what is to be copied is whole, and that the default is written only when   *)
(* every sector is formatted.  TypeCorrect follows.                           *)
(*                                                                            *)
(* The second invariant (LiveInv) says why a key never has two valid records: *)
(* a record is written only when the key has none, or while the mark in front *)
(* takes the old one out of use (Free), the cache leads to the valid record,  *)
(* and with power on every record out of use is going to be struck out,       *)
(* copied or erased (Pending), so that no collection copies it later.  It is  *)
(* inductive when a recovery leaves no record out of use behind and finds the *)
(* successors of those it copies (OneLive), and until power is lost for the   *)
(* first time without that (FirstLife), for then there is nothing to recover. *)
(*                                                                            *)
(* The third invariant (ReadInv) says why the cache does not mislead a read:  *)
(* an entry leads to a valid record, or to one that will be struck out or     *)
(* become valid before the call returns (Sound); and last_is_complete_del,    *)
(* which keeps a deletion from clearing the cache, is set only while the      *)
(* record that was struck out has its successor ahead (LastInv).              *)
EXTENDS EnhancedFlashDataset, SequenceTheorems, FiniteSetTheorems, WellFoundedInduction, TLAPS

\* A set of numbers with a member has a least one.
LEMMA LeastOf ==
  ASSUME NEW I \in SUBSET Nat, I # {}
  PROVE  Least(I) \in I /\ \A j \in I : Least(I) <= j
<1>1. \E k \in I : \A j \in I : <<j, k>> \notin OpToRel(<, Nat)
  BY NatLessThanWellFounded, WFMin
<1>2. \A k, j \in Nat : <<j, k>> \notin OpToRel(<, Nat) => k <= j
  BY DEF OpToRel
<1>3. \E k \in I : \A j \in I : k <= j
  BY <1>1, <1>2
<1> QED
  BY <1>3 DEF Least

\* The constants as numbers.
LEMMA Constants ==
  /\ SectorNum \in Nat /\ SectorNum >= 2 /\ SectorSize \in Nat /\ SectorSize >= 1
  /\ GcThreshold \in Nat /\ GcThreshold < SectorNum
  /\ \A v \in Value : Size[v] \in Nat /\ 1 <= Size[v] /\ Size[v] <= SectorSize
  /\ Sector \subseteq Nat /\ \A s : s \in Sector <=> s \in Nat /\ 1 <= s /\ s <= SectorNum
  /\ Offset \subseteq Nat /\ \A o : o \in Offset <=> o \in Nat /\ o < SectorSize
  /\ NoKey \notin Key /\ NoValue \notin Value /\ DefaultKey \in Key /\ DefaultValue \in Value
BY StoreAssumption DEF Sector, Offset

\* Addresses are pairs, and none of them is the missing one.
LEMMA Addresses ==
  /\ \A a \in Addr : a[1] \in Sector /\ a[2] \in Offset /\ a = <<a[1], a[2]>>
  /\ \A s \in Sector, o \in Offset : <<s, o>> \in Addr
  /\ NoAddr \notin Addr
<1>1. NoAddr[1] = 0 /\ 0 \notin Sector
  BY Constants DEF NoAddr
<1> QED
  BY <1>1 DEF Addr

\* A set of offsets with a member has a highest one.
LEMMA HighestOf ==
  ASSUME NEW S \in SUBSET Offset, S # {}
  PROVE  \E k \in S : \A j \in S : j <= k
<1> DEFINE I == {SectorSize - j : j \in S}
<1>0. \A j \in S : j \in Nat /\ j < SectorSize /\ SectorSize - j \in Nat
  BY Constants
<1>1. I \in SUBSET Nat /\ I # {}
  BY <1>0
<1>2. PICK k \in S : Least(I) = SectorSize - k
  BY <1>1, LeastOf
<1>3. \A j \in S : SectorSize - k <= SectorSize - j
  BY <1>1, <1>2, LeastOf
<1> QED
  BY <1>0, <1>3, Constants

Typed(f) == f \in [Sector -> [store : Stores, dirty : Dirts, recs : [Offset -> Record]]]

\* What a sector and a record are made of.
LEMMA Parts ==
  ASSUME Typed(flash)
  PROVE  /\ \A s \in Sector : /\ flash[s].store \in Stores /\ flash[s].dirty \in Dirts
                              /\ flash[s].recs \in [Offset -> Record]
         /\ \A a \in Addr : At(a) \in Record /\ At(a) = flash[a[1]].recs[a[2]]
BY Addresses DEF Typed, At

\* The fields of a record.
LEMMA Fields ==
  ASSUME NEW r \in Record
  PROVE  /\ r.st \in {"UNUSED", "PRE_WRITE", "WRITE", "PRE_DELETE", "DELETED", "ERR_HDR"}
         /\ r.key \in Key \cup {NoKey} /\ r.val \in Value \cup {NoValue} /\ r.whole \in BOOLEAN
<1>1. {Statuses[i] : i \in 1..6} = {"UNUSED", "PRE_WRITE", "WRITE", "PRE_DELETE", "DELETED", "ERR_HDR"}
  BY DEF Statuses
<1> QED
  BY <1>1 DEF Record

\* A record has a length, and fits into a sector.
LEMMA Lengths ==
  ASSUME NEW r \in Record
  PROVE  Length(r) \in Nat /\ 1 <= Length(r) /\ Length(r) <= SectorSize
BY Fields, Constants DEF Length

\* The first free offset is behind every record, so what is there is blank.
LEMMA FillFacts ==
  ASSUME Typed(flash), NEW s \in Sector
  PROVE  /\ Fill(s) \in Nat
         /\ \A o \in Offset : o >= Fill(s) => flash[s].recs[o] = Blank
<1> DEFINE used == {o \in Offset : flash[s].recs[o] # Blank}
           last == CHOOSE o \in used : \A x \in used : x <= o
<1>1. CASE used = {}
  <2>1. Fill(s) = 0
    BY <1>1 DEF Fill
  <2> QED
    BY <2>1, <1>1
<1>2. CASE used # {}
  <2>1. last \in used /\ \A x \in used : x <= last
    BY <1>2, HighestOf
  <2>2. Fill(s) = last + Length(flash[s].recs[last])
    BY <1>2 DEF Fill
  <2>3. flash[s].recs[last] \in Record
    BY <2>1, Parts
  <2>4. Length(flash[s].recs[last]) \in Nat /\ 1 <= Length(flash[s].recs[last])
    BY <2>3, Lengths
  <2>5. last \in Nat /\ Offset \subseteq Nat
    BY <2>1, Constants
  <2>6. Fill(s) \in Nat /\ last < Fill(s)
    <3> HIDE DEF last
    <3> QED
      BY <2>2, <2>4, <2>5
  <2> HIDE DEF last
  <2>7. \A o \in Offset : o >= Fill(s) => o \notin used
    BY <2>1, <2>5, <2>6
  <2> QED
    BY <2>6, <2>7
<1> QED
  BY <1>1, <1>2

\* What the allocation returns, if it returns an address: free space in a
\* sector that is empty or in use.
LEMMA AllocFacts ==
  ASSUME Typed(flash), gcRequest \in BOOLEAN,
         NEW size \in Nat, 1 <= size, NEW r, r = Alloc(size)
  PROVE  /\ r.gc \in BOOLEAN
         /\ r.addr # NoAddr =>
              /\ r.addr \in Addr /\ r.addr[2] + size <= SectorSize
              /\ r.addr[2] = Fill(r.addr[1])
              /\ At(r.addr) = Blank
              /\ flash[r.addr[1]].store \in {"EMPTY", "USING"}
<1> DEFINE using == {s \in With("USING") : Fits(s, size)}
           empty == {s \in With("EMPTY") : Fits(s, size)}
<1>1. ASSUME NEW S, S \in {using, empty}, S # {}
      PROVE  LET a == FirstSpace(S) IN
             /\ a \in Addr /\ a[2] + size <= SectorSize
             /\ a[2] = Fill(a[1]) /\ At(a) = Blank
             /\ flash[a[1]].store \in {"EMPTY", "USING"}
  <2>1. S \subseteq Sector /\ S \subseteq Nat
    BY <1>1, Constants DEF With
  <2>2. Least(S) \in S
    BY <1>1, <2>1, LeastOf
  <2> DEFINE s == Least(S)
  <2>3. s \in Sector /\ Fits(s, size) /\ flash[s].store \in {"EMPTY", "USING"}
    BY <1>1, <2>1, <2>2 DEF With
  <2>4. FirstSpace(S) = <<s, Fill(s)>>
    BY DEF FirstSpace
  <2> HIDE DEF s
  <2>5. Fill(s) \in Nat /\ \A o \in Offset : o >= Fill(s) => flash[s].recs[o] = Blank
    BY <2>3, FillFacts
  <2>6. Fill(s) + size <= SectorSize
    BY <2>3, <2>5, Constants DEF Fits, Remain
  <2>7. Fill(s) \in Offset
    BY <2>5, <2>6, Constants
  <2>8. flash[s].recs[Fill(s)] = Blank
    BY <2>5, <2>7
  <2> QED
    BY <2>3, <2>4, <2>6, <2>7, <2>8, Addresses DEF At
<1>2. r.gc \in BOOLEAN
  <2>1. (Empties > 0) \in BOOLEAN
    OBVIOUS
  <2>2. r.gc = gcRequest \/ r.gc = (gcRequest \/ Empties > 0)
    BY DEF Alloc
  <2> QED
    BY <2>2
<1>3. r.addr # NoAddr => \/ using # {} /\ r.addr = FirstSpace(using)
                         \/ empty # {} /\ r.addr = FirstSpace(empty)
  BY DEF Alloc
<1> HIDE DEF using, empty
<1>4. CASE using # {} /\ r.addr = FirstSpace(using)
  BY <1>1, <1>2, <1>4
<1>5. CASE empty # {} /\ r.addr = FirstSpace(empty)
  BY <1>1, <1>2, <1>5
<1> QED
  BY <1>2, <1>3, <1>4, <1>5

\* A set of places has a first one.
LEMMA FirstOf ==
  ASSUME NEW S \in SUBSET (Nat \X Nat), S # {}
  PROVE  First(S) \in S /\ \A a \in S : a = First(S) \/ Before(First(S), a)
<1> DEFINE I == {a[1] : a \in S}
           J == {a[2] : a \in {b \in S : b[1] = Least(I)}}
<1>1. \A a \in S : a[1] \in Nat /\ a[2] \in Nat /\ a = <<a[1], a[2]>>
  OBVIOUS
<1>2. I \in SUBSET Nat /\ I # {}
  BY <1>1
<1>3. Least(I) \in I /\ \A i \in I : Least(I) <= i
  BY <1>2, LeastOf
<1>4. J \in SUBSET Nat /\ J # {}
  BY <1>1, <1>3
<1>5. Least(J) \in J /\ \A j \in J : Least(J) <= j
  BY <1>4, LeastOf
<1>6. PICK a \in S : a[1] = Least(I) /\ a[2] = Least(J)
  BY <1>5
<1>7. \A b \in S \ {a} : Before(a, b)
  <2> SUFFICES ASSUME NEW b \in S, b # a PROVE Before(a, b)
    OBVIOUS
  <2>1. a[1] <= b[1]
    BY <1>3, <1>6
  <2>2. b[1] = a[1] => a[2] <= b[2] /\ a[2] # b[2]
    BY <1>1, <1>5, <1>6
  <2> QED
    BY <1>1, <2>1, <2>2 DEF Before
<1> QED
  BY <1>7 DEF First

IsSeq(t) == \E S : t \in Seq(S)

Writes == {"use", "head", "body", "commit"}

Active == Writes \cup {"mark", "dirty", "move"}

Late == {"put", "gc", "gcif", "gcend", "collect", "resume", "recover", "recovered",
         "return", "repair", "default", "scars"}

\* A step has the fields its action reads.
StepOK(x) ==
  /\ x.op \in Active \cup {"sweep", "erase", "header"} \cup Late
  /\ x.op \in {"mark", "head", "body", "commit", "move"} => x.addr \in Addr
  /\ x.op = "mark" => x.st \in {"PRE_DELETE", "DELETED"}
  /\ x.op \in {"dirty", "use", "sweep", "collect", "erase", "header", "resume"} => x.sec \in Sector
  /\ x.op = "use" => x.size \in Nat /\ 1 <= x.size
  /\ x.op = "head" => /\ x.key \in Key /\ x.val \in Value
                      /\ x.addr[2] + Size[x.val] <= SectorSize
  /\ x.op = "commit" => x.by \in {"set", "move", "default"} /\ x.full \in BOOLEAN
  /\ x.op = "put" => x.key \in Key /\ x.val \in Value
  /\ x.op = "move" => x.by \in {"gc", "start"}
  /\ x.op = "sweep" => x.off \in Offset
  /\ x.op = "recover" => x.addr \in (1..(SectorNum + 1)) \X Offset
  /\ x.op = "return" => x.res \in {"ok", "full", "missing"}
  /\ x.op = "default" => x.sec \in 1..(SectorNum + 1)

\* What may stand behind a step.
Follows(p, q) ==
  /\ p.op = "use" => q.op = "head" /\ q.addr[1] = p.sec
  /\ p.op = "head" => q.op = "body" /\ q.addr = p.addr
  /\ p.op = "body" => q.op = "commit" /\ q.addr = p.addr
  /\ p.op = "mark" /\ p.st = "PRE_DELETE" => q.op \in {"use", "move"}
  /\ p.op = "sweep" => q.op = "erase" /\ q.sec = p.sec
  /\ p.op = "move" /\ p.by = "gc" =>
       \/ q.op = "sweep" /\ q.sec = p.addr[1] /\ q.off = p.addr[2] + 1
       \/ q.op = "erase" /\ q.sec = p.addr[1]
  /\ p.op = "move" /\ p.by = "start" => q.op = "recover"
  /\ q.op = "use" => p.op = "dirty" \/ (p.op = "mark" /\ p.st = "PRE_DELETE")
  /\ q.op = "head" => p.op = "use"
  /\ q.op = "body" => p.op = "head"
  /\ q.op = "commit" => p.op = "body"
  /\ q.op = "mark" => q.st = "DELETED" /\ p.op = "commit"
  /\ q.op = "move" =>
       /\ q.by = "gc"
       /\ p.op = "dirty" \/ (p.op = "mark" /\ p.st = "PRE_DELETE" /\ q.addr = p.addr)
  /\ q.op # "dirty"
  /\ q.op = "sweep" => p.op \in Active
  /\ q.op = "erase" => p.op \in Active \cup {"sweep"}
  /\ q.op = "header" => p.op = "erase" /\ p.sec = q.sec
  /\ q.op = "default" /\ q.sec > 1 => p.op = "header" /\ p.sec = q.sec - 1

\* A step that needs the one behind it.
Open == {"use", "head", "body", "sweep", "move"}

Part(t) == /\ IsSeq(t)
           /\ \A i \in DOMAIN t : StepOK(t[i])
           /\ \A i \in DOMAIN t : i + 1 \in DOMAIN t => Follows(t[i], t[i + 1])

Closed(x) == x.op \notin Open /\ ~(x.op = "mark" /\ x.st = "PRE_DELETE")

Plan(t) == Part(t) /\ (t # <<>> => Closed(t[Len(t)]))

\* The length of a sequence, its first element and its tail.
LEMMA SeqFacts ==
  ASSUME NEW t, IsSeq(t)
  PROVE  /\ Len(t) \in Nat /\ DOMAIN t = 1..Len(t)
         /\ t = <<>> <=> Len(t) = 0
         /\ t # <<>> => /\ Len(t) >= 1 /\ 1 \in DOMAIN t /\ Head(t) = t[1]
                        /\ IsSeq(Tail(t)) /\ Len(Tail(t)) = Len(t) - 1
                        /\ \A i \in 1..(Len(t) - 1) : Tail(t)[i] = t[i + 1]
<1>1. PICK S : t \in Seq(S)
  BY DEF IsSeq
<1>2. Len(t) \in Nat /\ DOMAIN t = 1..Len(t) /\ (t = <<>> <=> Len(t) = 0)
  BY <1>1, LenProperties, EmptySeq
<1>3. ASSUME t # <<>>
      PROVE /\ Head(t) = t[1] /\ Tail(t) \in Seq(S) /\ Len(Tail(t)) = Len(t) - 1
            /\ \A i \in 1..(Len(t) - 1) : Tail(t)[i] = t[i + 1]
  BY <1>1, <1>3, HeadTailProperties
<1> QED
  BY <1>2, <1>3 DEF IsSeq

\* The elements of two sequences in a row.
LEMMA JoinFacts ==
  ASSUME NEW s, IsSeq(s), NEW t, IsSeq(t)
  PROVE  /\ IsSeq(s \o t) /\ Len(s \o t) = Len(s) + Len(t)
         /\ DOMAIN (s \o t) = 1..(Len(s) + Len(t))
         /\ \A i \in 1..Len(s) : (s \o t)[i] = s[i]
         /\ \A i \in 1..Len(t) : (s \o t)[Len(s) + i] = t[i]
<1>1. PICK S : s \in Seq(S)
  BY DEF IsSeq
<1>2. PICK T : t \in Seq(T)
  BY DEF IsSeq
<1>3. s \in Seq(S \cup T) /\ t \in Seq(S \cup T)
  BY <1>1, <1>2, SeqMonotonic
<1>4. /\ s \o t \in Seq(S \cup T) /\ Len(s \o t) = Len(s) + Len(t)
      /\ \A i \in 1..(Len(s) + Len(t)) : (s \o t)[i] = IF i <= Len(s) THEN s[i] ELSE t[i - Len(s)]
  BY <1>3, ConcatProperties
<1>5. Len(s) \in Nat /\ Len(t) \in Nat
  BY <1>3, LenProperties
<1>6. DOMAIN (s \o t) = 1..(Len(s) + Len(t))
  BY <1>4, LenProperties
<1>7. \A i \in 1..Len(s) : (s \o t)[i] = s[i]
  BY <1>4, <1>5
<1>8. ASSUME NEW i \in 1..Len(t) PROVE (s \o t)[Len(s) + i] = t[i]
  <2>1. Len(s) + i \in 1..(Len(s) + Len(t)) /\ ~(Len(s) + i <= Len(s)) /\ (Len(s) + i) - Len(s) = i
    BY <1>5
  <2> QED
    BY <1>4, <2>1
<1> QED
  BY <1>4, <1>6, <1>7, <1>8 DEF IsSeq

\* Two parts in a row.
LEMMA PartJoin ==
  ASSUME NEW s, Part(s), NEW t, Part(t),
         s # <<>> /\ t # <<>> => Follows(s[Len(s)], t[1])
  PROVE  Part(s \o t)
<1> DEFINE u == s \o t
<1>1. IsSeq(s) /\ IsSeq(t)
  BY DEF Part
<1>2. /\ IsSeq(u) /\ Len(u) = Len(s) + Len(t) /\ DOMAIN u = 1..(Len(s) + Len(t))
      /\ \A i \in 1..Len(s) : u[i] = s[i]
      /\ \A i \in 1..Len(t) : u[Len(s) + i] = t[i]
  BY <1>1, JoinFacts
<1>3. Len(s) \in Nat /\ Len(t) \in Nat /\ DOMAIN s = 1..Len(s) /\ DOMAIN t = 1..Len(t)
      /\ (s = <<>> <=> Len(s) = 0) /\ (t = <<>> <=> Len(t) = 0)
  BY <1>1, SeqFacts
<1> HIDE DEF u
<1>4. \A i \in DOMAIN u : \/ i \in 1..Len(s) /\ u[i] = s[i]
                          \/ \E j \in 1..Len(t) : i = Len(s) + j /\ u[i] = t[j]
  <2> SUFFICES ASSUME NEW i \in DOMAIN u, i \notin 1..Len(s)
               PROVE \E j \in 1..Len(t) : i = Len(s) + j /\ u[i] = t[j]
    BY <1>2
  <2>1. i - Len(s) \in 1..Len(t) /\ i = Len(s) + (i - Len(s))
    BY <1>2, <1>3
  <2> QED
    BY <1>2, <2>1
<1>5. \A i \in DOMAIN u : StepOK(u[i])
  BY <1>3, <1>4 DEF Part
<1>6. ASSUME NEW i \in DOMAIN u, i + 1 \in DOMAIN u PROVE Follows(u[i], u[i + 1])
  <2>1. CASE i + 1 \in 1..Len(s)
    <3>1. i \in 1..Len(s)
      BY <1>2, <1>3, <1>6, <2>1
    <3> QED
      BY <1>2, <1>3, <2>1, <3>1 DEF Part
  <2>2. CASE i = Len(s)
    <3>1. s # <<>> /\ t # <<>> /\ 1 \in 1..Len(t) /\ i \in 1..Len(s)
      BY <1>2, <1>3, <1>6, <2>2
    <3>2. u[i] = s[Len(s)] /\ u[i + 1] = t[1]
      BY <1>2, <2>2, <3>1
    <3> QED
      BY <3>1, <3>2
  <2>3. CASE i > Len(s)
    <3>1. PICK m, n : m = Len(s) /\ n = Len(t)
      OBVIOUS
    <3>2. m \in Nat /\ n \in Nat /\ i \in 1..(m + n) /\ i + 1 \in 1..(m + n) /\ i > m
      BY <1>2, <1>3, <1>6, <2>3, <3>1
    <3>3. i - m \in 1..n /\ (i - m) + 1 \in 1..n /\ i = m + (i - m) /\ i + 1 = m + ((i - m) + 1)
      BY <3>2
    <3>4. u[i] = t[i - m] /\ u[i + 1] = t[(i - m) + 1]
      BY <1>2, <3>1, <3>3
    <3>5. Follows(t[i - m], t[(i - m) + 1])
      BY <1>3, <3>1, <3>3 DEF Part
    <3> QED
      BY <3>4, <3>5
  <2> QED
    BY <1>2, <1>3, <1>6, <2>1, <2>2, <2>3
<1> QED
  BY <1>2, <1>5, <1>6 DEF Part, u

\* What is behind the first step of a list is well formed, too.
LEMMA PartTail ==
  ASSUME NEW t, Part(t), t # <<>>
  PROVE  Part(Tail(t))
<1>1. IsSeq(t)
  BY DEF Part
<1>2. /\ Len(t) \in Nat /\ DOMAIN t = 1..Len(t) /\ Len(t) >= 1
      /\ IsSeq(Tail(t)) /\ Len(Tail(t)) = Len(t) - 1
      /\ \A i \in 1..(Len(t) - 1) : Tail(t)[i] = t[i + 1]
  BY <1>1, SeqFacts
<1>3. DOMAIN Tail(t) = 1..(Len(t) - 1)
  BY <1>2, SeqFacts
<1>4. \A i \in DOMAIN Tail(t) : Tail(t)[i] = t[i + 1] /\ i + 1 \in DOMAIN t
  BY <1>2, <1>3
<1>5. \A i \in DOMAIN Tail(t) : StepOK(Tail(t)[i])
  BY <1>4 DEF Part
<1>6. ASSUME NEW i \in DOMAIN Tail(t), i + 1 \in DOMAIN Tail(t)
      PROVE Follows(Tail(t)[i], Tail(t)[i + 1])
  <2>1. Tail(t)[i] = t[i + 1] /\ Tail(t)[i + 1] = t[(i + 1) + 1]
        /\ i + 1 \in DOMAIN t /\ (i + 1) + 1 \in DOMAIN t
    BY <1>4, <1>6
  <2> QED
    BY <2>1 DEF Part
<1> QED
  BY <1>2, <1>5, <1>6 DEF Part

\* What is left after a step, and the steps it puts in front.
LEMMA PlanGo ==
  ASSUME NEW t, Plan(t), t # <<>>, NEW s, Part(s),
         s # <<>> => IF Len(t) > 1 THEN Follows(s[Len(s)], t[2]) ELSE Closed(s[Len(s)])
  PROVE  Plan(s \o Tail(t))
<1>1. IsSeq(s) /\ IsSeq(t) /\ Part(t)
  BY DEF Part, Plan
<1>2. Part(Tail(t))
  BY <1>1, PartTail
<1>3. /\ Len(t) \in Nat /\ Len(t) >= 1 /\ IsSeq(Tail(t)) /\ Len(Tail(t)) = Len(t) - 1
      /\ \A i \in 1..(Len(t) - 1) : Tail(t)[i] = t[i + 1]
  BY <1>1, SeqFacts
<1>4. Len(s) \in Nat /\ (s = <<>> <=> Len(s) = 0) /\ (Tail(t) = <<>> <=> Len(t) = 1)
  <2>1. Len(s) \in Nat /\ (s = <<>> <=> Len(s) = 0)
    BY <1>1, SeqFacts
  <2>2. Tail(t) = <<>> <=> Len(Tail(t)) = 0
    BY <1>3, SeqFacts
  <2> QED
    BY <1>3, <2>1, <2>2
<1>5. Part(s \o Tail(t))
  <2>1. Tail(t) # <<>> => Len(t) > 1 /\ Tail(t)[1] = t[2]
    BY <1>3, <1>4
  <2> QED
    BY <1>2, <2>1, PartJoin
<1>6. /\ Len(s \o Tail(t)) = Len(s) + (Len(t) - 1)
      /\ \A i \in 1..Len(s) : (s \o Tail(t))[i] = s[i]
      /\ \A i \in 1..(Len(t) - 1) : (s \o Tail(t))[Len(s) + i] = Tail(t)[i]
  BY <1>1, <1>3, JoinFacts
<1>7. CASE Len(t) > 1
  <2>1. Len(t) - 1 \in 1..(Len(t) - 1) /\ (Len(t) - 1) + 1 = Len(t)
    BY <1>3, <1>7
  <2>2. (s \o Tail(t))[Len(s \o Tail(t))] = t[Len(t)]
    BY <1>3, <1>6, <2>1
  <2> QED
    BY <1>5, <2>2 DEF Plan
<1>8. CASE Len(t) = 1 /\ s # <<>>
  <2>1. Len(s \o Tail(t)) = Len(s) /\ Len(s) \in 1..Len(s)
    BY <1>4, <1>6, <1>8
  <2>2. (s \o Tail(t))[Len(s \o Tail(t))] = s[Len(s)]
    BY <1>6, <2>1
  <2> QED
    BY <1>5, <1>8, <2>2 DEF Plan
<1>9. CASE Len(t) = 1 /\ s = <<>>
  <2>1. Len(s \o Tail(t)) = 0 /\ IsSeq(s \o Tail(t))
    BY <1>4, <1>6, <1>9, <1>5 DEF Part
  <2>2. s \o Tail(t) = <<>>
    BY <2>1, SeqFacts
  <2> QED
    BY <1>5, <2>2 DEF Plan
<1> QED
  BY <1>3, <1>7, <1>8, <1>9

\* The order of the kinds of steps: active ones, a sweep, an erasure, a header, the others.
Before1(p, q) ==
  /\ q.op \in Active \cup {"sweep"} => p.op \in Active
  /\ q.op = "erase" => p.op \in Active \cup {"sweep"}
  /\ q.op = "header" => p.op \in Active \cup {"sweep", "erase"}

\* The kinds of steps stand in their order.
LEMMA InOrder ==
  ASSUME NEW t, Part(t), NEW i \in DOMAIN t, NEW j \in DOMAIN t, i < j
  PROVE  Before1(t[i], t[j])
<1>1. Len(t) \in Nat /\ DOMAIN t = 1..Len(t)
  BY SeqFacts DEF Part
<1>2. \A p, q : Follows(p, q) => Before1(p, q)
  BY DEF Follows, Before1, Active, Writes
<1>3. \A p, q, r : Before1(p, q) /\ Before1(q, r) => Before1(p, r)
  BY DEF Before1, Active, Writes
<1> DEFINE Bad == {k \in DOMAIN t : i < k /\ ~Before1(t[i], t[k])}
<1>4. ASSUME Bad # {} PROVE FALSE
  <2>1. Bad \in SUBSET Nat
    BY <1>1
  <2> DEFINE k == Least(Bad)
  <2>2. k \in Bad /\ \A m \in Bad : k <= m
    BY <1>4, <2>1, LeastOf
  <2> HIDE DEF k
  <2>3. k \in DOMAIN t /\ i < k /\ ~Before1(t[i], t[k]) /\ k - 1 \in DOMAIN t /\ (k - 1) + 1 = k
    BY <1>1, <2>2
  <2>4. Follows(t[k - 1], t[k])
    BY <2>3 DEF Part
  <2>5. k - 1 \notin Bad
    BY <1>1, <2>2, <2>3
  <2>6. k - 1 = i \/ Before1(t[i], t[k - 1])
    BY <1>1, <2>3, <2>5
  <2> QED
    BY <1>2, <1>3, <2>3, <2>4, <2>6
<1> QED
  BY <1>4

\* The list without a step is well formed.
LEMMA PartNone == Part(<<>>)
<1>1. <<>> \in Seq({})
  BY EmptySeq
<1>2. DOMAIN <<>> = {}
  BY SeqFacts, <1>1 DEF IsSeq
<1> QED
  BY <1>1, <1>2 DEF Part, IsSeq

\* A list of one step.
LEMMA Part1 ==
  ASSUME NEW a,
         StepOK(a)
  PROVE  LET t == <<a>> IN Part(t) /\ Len(t) = 1 /\ t # <<>> /\ t[1] = a
<1> DEFINE t == <<a>>
<1>1. t \in Seq({a}) /\ Len(t) = 1 /\ DOMAIN t = 1..1 /\ t # <<>>
  OBVIOUS
<1>2. t[1] = a
  OBVIOUS
<1> HIDE DEF t
<1>3. \A i \in 1..1 : i = 1
  OBVIOUS
<1>4. \A i \in DOMAIN t : StepOK(t[i])
  BY <1>1, <1>2, <1>3
<1>5. \A i \in DOMAIN t : i + 1 \in DOMAIN t => Follows(t[i], t[i + 1])
  BY <1>1, <1>2, <1>3
<1>6. Part(t)
  BY <1>1, <1>4, <1>5 DEF Part, IsSeq
<1> QED
  BY <1>1, <1>2, <1>6 DEF t

\* A list of two steps.
LEMMA Part2 ==
  ASSUME NEW a, NEW b,
         StepOK(a), StepOK(b),
         Follows(a, b)
  PROVE  LET t == <<a, b>> IN Part(t) /\ Len(t) = 2 /\ t # <<>> /\ t[1] = a /\ t[2] = b
<1> DEFINE t == <<a, b>>
<1>1. t \in Seq({a, b}) /\ Len(t) = 2 /\ DOMAIN t = 1..2 /\ t # <<>>
  OBVIOUS
<1>2. t[1] = a /\ t[2] = b
  OBVIOUS
<1> HIDE DEF t
<1>3. \A i \in 1..2 : i = 1 \/ i = 2
  OBVIOUS
<1>4. \A i \in DOMAIN t : StepOK(t[i])
  BY <1>1, <1>2, <1>3
<1>5. \A i \in DOMAIN t : i + 1 \in DOMAIN t => Follows(t[i], t[i + 1])
  BY <1>1, <1>2, <1>3
<1>6. Part(t)
  BY <1>1, <1>4, <1>5 DEF Part, IsSeq
<1> QED
  BY <1>1, <1>2, <1>6 DEF t

\* A list of three steps.
LEMMA Part3 ==
  ASSUME NEW a, NEW b, NEW c,
         StepOK(a), StepOK(b), StepOK(c),
         Follows(a, b), Follows(b, c)
  PROVE  LET t == <<a, b, c>> IN Part(t) /\ Len(t) = 3 /\ t # <<>> /\ t[1] = a /\ t[2] = b /\ t[3] = c
<1> DEFINE t == <<a, b, c>>
<1>1. t \in Seq({a, b, c}) /\ Len(t) = 3 /\ DOMAIN t = 1..3 /\ t # <<>>
  OBVIOUS
<1>2. t[1] = a /\ t[2] = b /\ t[3] = c
  OBVIOUS
<1> HIDE DEF t
<1>3. \A i \in 1..3 : i = 1 \/ i = 2 \/ i = 3
  OBVIOUS
<1>4. \A i \in DOMAIN t : StepOK(t[i])
  BY <1>1, <1>2, <1>3
<1>5. \A i \in DOMAIN t : i + 1 \in DOMAIN t => Follows(t[i], t[i + 1])
  BY <1>1, <1>2, <1>3
<1>6. Part(t)
  BY <1>1, <1>4, <1>5 DEF Part, IsSeq
<1> QED
  BY <1>1, <1>2, <1>6 DEF t

\* A list of four steps.
LEMMA Part4 ==
  ASSUME NEW a, NEW b, NEW c, NEW d,
         StepOK(a), StepOK(b), StepOK(c), StepOK(d),
         Follows(a, b), Follows(b, c), Follows(c, d)
  PROVE  LET t == <<a, b, c, d>> IN Part(t) /\ Len(t) = 4 /\ t # <<>> /\ t[1] = a /\ t[2] = b /\ t[3] = c /\ t[4] = d
<1> DEFINE t == <<a, b, c, d>>
<1>1. t \in Seq({a, b, c, d}) /\ Len(t) = 4 /\ DOMAIN t = 1..4 /\ t # <<>>
  OBVIOUS
<1>2. t[1] = a /\ t[2] = b /\ t[3] = c /\ t[4] = d
  OBVIOUS
<1> HIDE DEF t
<1>3. \A i \in 1..4 : i = 1 \/ i = 2 \/ i = 3 \/ i = 4
  OBVIOUS
<1>4. \A i \in DOMAIN t : StepOK(t[i])
  BY <1>1, <1>2, <1>3
<1>5. \A i \in DOMAIN t : i + 1 \in DOMAIN t => Follows(t[i], t[i + 1])
  BY <1>1, <1>2, <1>3
<1>6. Part(t)
  BY <1>1, <1>4, <1>5 DEF Part, IsSeq
<1> QED
  BY <1>1, <1>2, <1>6 DEF t

\* Steps that are in nobody's way.
Calm(x) == x.op \in Late /\ ~(x.op = "default" /\ x.sec > 1)

\* Calm steps may stand in any order.
LEMMA CalmFollows ==
  \A p, q : Calm(p) /\ Calm(q) => Follows(p, q)
BY DEF Calm, Follows, Late, Active, Writes

CalmPart(t) == Part(t) /\ \A i \in DOMAIN t : Calm(t[i])

\* Two lists of calm steps in a row.
LEMMA CalmJoin ==
  ASSUME NEW s, CalmPart(s), NEW t, CalmPart(t)
  PROVE  CalmPart(s \o t)
<1>1. IsSeq(s) /\ IsSeq(t)
  BY DEF CalmPart, Part
<1>2. /\ Len(s) \in Nat /\ Len(t) \in Nat /\ DOMAIN s = 1..Len(s) /\ DOMAIN t = 1..Len(t)
      /\ (s = <<>> <=> Len(s) = 0) /\ (t = <<>> <=> Len(t) = 0)
  BY <1>1, SeqFacts
<1>3. s # <<>> /\ t # <<>> => Len(s) \in DOMAIN s /\ 1 \in DOMAIN t
  BY <1>2
<1>4. Part(s \o t)
  BY <1>3, CalmFollows, PartJoin DEF CalmPart
<1>5. /\ DOMAIN (s \o t) = 1..(Len(s) + Len(t))
      /\ \A i \in 1..Len(s) : (s \o t)[i] = s[i]
      /\ \A i \in 1..Len(t) : (s \o t)[Len(s) + i] = t[i]
  BY <1>1, JoinFacts
<1>6. ASSUME NEW i \in 1..(Len(s) + Len(t)) PROVE Calm((s \o t)[i])
  <2>1. CASE i \in 1..Len(s)
    BY <1>2, <1>5, <2>1 DEF CalmPart
  <2>2. CASE i \notin 1..Len(s)
    <3>1. i - Len(s) \in 1..Len(t) /\ i = Len(s) + (i - Len(s))
      BY <1>2, <2>2
    <3>2. (s \o t)[i] = t[i - Len(s)]
      BY <1>5, <3>1
    <3> QED
      BY <1>2, <3>1, <3>2 DEF CalmPart
  <2> QED
    BY <2>1, <2>2
<1> QED
  BY <1>4, <1>5, <1>6 DEF CalmPart

\* A list of one calm step.
LEMMA CalmOne ==
  ASSUME NEW x, StepOK(x), Calm(x)
  PROVE  CalmPart(<<x>>)
<1>1. Part(<<x>>) /\ DOMAIN <<x>> = {1} /\ <<x>>[1] = x
  BY Part1
<1> QED
  BY <1>1 DEF CalmPart

\* One step for every sector.
LEMMA CalmEach ==
  ASSUME NEW f, f \in {[s \in Sector |-> CollectOf(s)], [s \in Sector |-> ResumeOf(s)]}
  PROVE  CalmPart(f)
<1>1. SectorNum \in Nat /\ Sector = 1..SectorNum
  BY Constants DEF Sector
<1>2. DOMAIN f = 1..SectorNum /\ \A s \in 1..SectorNum : f[s].op \in {"collect", "resume"} /\ f[s].sec = s
  BY <1>1 DEF CollectOf, ResumeOf
<1>3. f \in Seq({f[s] : s \in 1..SectorNum})
  <2>1. f \in [1..SectorNum -> {f[s] : s \in 1..SectorNum}]
    BY <1>1
  <2> QED
    BY <1>1, <2>1
<1>4. \A s \in DOMAIN f : StepOK(f[s]) /\ Calm(f[s])
  BY <1>1, <1>2 DEF StepOK, Calm, Late, Active, Writes
<1>5. \A i \in DOMAIN f : i + 1 \in DOMAIN f => Follows(f[i], f[i + 1])
  BY <1>4, CalmFollows
<1> QED
  BY <1>3, <1>4, <1>5 DEF CalmPart, Part, IsSeq

-----------------------------------------------------------------------------
(* What the writes to flash change.                                          *)

\* A record is written: no other record changes, and no header.
LEMMA SetRecFacts ==
  ASSUME Typed(flash), NEW a \in Addr, NEW r \in Record, SetRec(a, r)
  PROVE  /\ Typed(flash')
         /\ \A b \in Addr : At(b)' = IF b = a THEN r ELSE At(b)
         /\ \A s \in Sector : /\ flash'[s].store = flash[s].store
                              /\ flash'[s].dirty = flash[s].dirty
                              /\ s # a[1] => flash'[s] = flash[s]
<1>1. flash' = [flash EXCEPT ![a[1]].recs[a[2]] = r]
  BY DEF SetRec
<1>2. a[1] \in Sector /\ a[2] \in Offset
  BY Addresses
<1>3. Typed(flash')
  BY <1>1, <1>2 DEF Typed
<1>4. \A s \in Sector : /\ flash'[s].store = flash[s].store
                        /\ flash'[s].dirty = flash[s].dirty
                        /\ s # a[1] => flash'[s] = flash[s]
                        /\ \A o \in Offset : flash'[s].recs[o] =
                             IF s = a[1] /\ o = a[2] THEN r ELSE flash[s].recs[o]
  BY <1>1, <1>2 DEF Typed
<1>5. \A b \in Addr : b = a <=> b[1] = a[1] /\ b[2] = a[2]
  BY Addresses
<1> QED
  BY <1>3, <1>4, <1>5, Addresses DEF At

\* The store status of a sector is written: no record changes.
LEMMA SetStoreFacts ==
  ASSUME Typed(flash), NEW s \in Sector, NEW x \in Stores,
         flash' = [flash EXCEPT ![s].store = x]
  PROVE  /\ Typed(flash')
         /\ \A b \in Addr : At(b)' = At(b)
         /\ \A t \in Sector : /\ flash'[t].store = IF t = s THEN x ELSE flash[t].store
                              /\ flash'[t].dirty = flash[t].dirty
                              /\ t # s => flash'[t] = flash[t]
BY Addresses DEF Typed, At

\* The dirty status of a sector is written: no record changes.
LEMMA SetDirtyFacts ==
  ASSUME Typed(flash), NEW s \in Sector, NEW x \in Dirts,
         flash' = [flash EXCEPT ![s].dirty = x]
  PROVE  /\ Typed(flash')
         /\ \A b \in Addr : At(b)' = At(b)
         /\ \A t \in Sector : /\ flash'[t].store = flash[t].store
                              /\ flash'[t].dirty = IF t = s THEN x ELSE flash[t].dirty
                              /\ t # s => flash'[t] = flash[t]
BY Addresses DEF Typed, At

\* A sector is erased or formatted: its records are blank, the others stay.
LEMMA SetSectorFacts ==
  ASSUME Typed(flash), NEW s \in Sector, NEW x \in {Erased, Formatted},
         flash' = [flash EXCEPT ![s] = x]
  PROVE  /\ Typed(flash')
         /\ \A b \in Addr : At(b)' = IF b[1] = s THEN Blank ELSE At(b)
         /\ \A t \in Sector : flash'[t] = IF t = s THEN x ELSE flash[t]
         /\ x.dirty = "FALSE" /\ x.store \in {"NONE", "EMPTY"}
<1>1. Blank \in Record
  <2>1. Statuses[1] = "UNUSED"
    BY DEF Statuses
  <2> QED
    BY <2>1 DEF Blank, Record
<1>2. x \in [store : Stores, dirty : Dirts, recs : [Offset -> Record]]
      /\ x.recs = [o \in Offset |-> Blank]
      /\ x.dirty = "FALSE" /\ x.store \in {"NONE", "EMPTY"}
  BY <1>1 DEF Erased, Formatted, Stores, Dirts
<1>3. Typed(flash') /\ \A t \in Sector : flash'[t] = IF t = s THEN x ELSE flash[t]
  BY <1>2 DEF Typed
<1>4. \A b \in Addr : At(b)' = IF b[1] = s THEN Blank ELSE At(b)
  BY <1>2, <1>3, Addresses DEF At
<1> QED
  BY <1>2, <1>3, <1>4

\* Blank records, and those cut short, are records without a key.
LEMMA KnownRecords ==
  /\ Blank \in Record /\ Scar \in Record /\ Scar # Blank
  /\ Blank.key = NoKey /\ Blank.st = "UNUSED" /\ ~Blank.whole
  /\ Scar.key = NoKey /\ Scar.st = "ERR_HDR" /\ ~Scar.whole
<1>1. {Statuses[i] : i \in 1..6} = {"UNUSED", "PRE_WRITE", "WRITE", "PRE_DELETE", "DELETED", "ERR_HDR"}
  BY DEF Statuses
<1> QED
  BY <1>1 DEF Blank, Scar, Record

\* A record with another status, or with its body.
LEMMA ChangedRecord ==
  ASSUME NEW r \in Record,
         NEW st \in {"UNUSED", "PRE_WRITE", "WRITE", "PRE_DELETE", "DELETED", "ERR_HDR"}
  PROVE  LET x == [r EXCEPT !.st = st]
             y == [r EXCEPT !.whole = TRUE]
         IN  /\ x \in Record /\ x.st = st /\ x.key = r.key /\ x.val = r.val /\ x.whole = r.whole
             /\ y \in Record /\ y.st = r.st /\ y.key = r.key /\ y.val = r.val /\ y.whole = TRUE
<1>1. {Statuses[i] : i \in 1..6} = {"UNUSED", "PRE_WRITE", "WRITE", "PRE_DELETE", "DELETED", "ERR_HDR"}
  BY DEF Statuses
<1> QED
  BY <1>1 DEF Record

\* The same for the status alone, as the steps that write one cite it.
LEMMA StatusRecord ==
  ASSUME NEW r \in Record,
         NEW st \in {"UNUSED", "PRE_WRITE", "WRITE", "PRE_DELETE", "DELETED", "ERR_HDR"}
  PROVE  /\ [r EXCEPT !.st = st] \in Record
         /\ [r EXCEPT !.st = st].key = r.key /\ [r EXCEPT !.st = st].val = r.val
         /\ [r EXCEPT !.st = st].whole = r.whole
<1>1. {Statuses[i] : i \in 1..6} = {"UNUSED", "PRE_WRITE", "WRITE", "PRE_DELETE", "DELETED", "ERR_HDR"}
  BY DEF Statuses
<1> QED
  BY <1>1 DEF Record

\* A record of which only the header is written.
LEMMA NewRecord ==
  ASSUME NEW k \in Key, NEW v \in Value
  PROVE  LET x == [st |-> "PRE_WRITE", key |-> k, val |-> v, whole |-> FALSE]
         IN  x \in Record /\ x.st = "PRE_WRITE" /\ x.key = k /\ x.val = v /\ x.whole = FALSE
<1>1. {Statuses[i] : i \in 1..6} = {"UNUSED", "PRE_WRITE", "WRITE", "PRE_DELETE", "DELETED", "ERR_HDR"}
  BY DEF Statuses
<1> QED
  BY <1>1 DEF Record

\* The order of the record statuses.
LEMMA Ranks ==
  /\ Rank("UNUSED") = 1 /\ Rank("PRE_WRITE") = 2 /\ Rank("WRITE") = 3
  /\ Rank("PRE_DELETE") = 4 /\ Rank("DELETED") = 5 /\ Rank("ERR_HDR") = 6
<1>1. \A i \in 1..6 : i = 1 \/ i = 2 \/ i = 3 \/ i = 4 \/ i = 5 \/ i = 6
  OBVIOUS
<1>2. /\ Statuses[1] = "UNUSED" /\ Statuses[2] = "PRE_WRITE" /\ Statuses[3] = "WRITE"
      /\ Statuses[4] = "PRE_DELETE" /\ Statuses[5] = "DELETED" /\ Statuses[6] = "ERR_HDR"
  BY DEF Statuses
<1>3. \A st : (\E i \in 1..6 : Statuses[i] = st) => Rank(st) \in 1..6 /\ Statuses[Rank(st)] = st
  BY DEF Rank
<1>4. \A i \in 1..6 : Rank(Statuses[i]) \in 1..6 /\ Statuses[Rank(Statuses[i])] = Statuses[i]
  BY <1>3
<1>5. \A i, j \in 1..6 : Statuses[i] = Statuses[j] => i = j
  BY <1>1, <1>2
<1>6. \A i \in 1..6 : Rank(Statuses[i]) = i
  BY <1>4, <1>5
<1> QED
  BY <1>2, <1>6

\* A mark takes a record to the marked status, unless it is further already.
LEMMA MarkedFacts ==
  ASSUME NEW old \in {"UNUSED", "PRE_WRITE", "WRITE", "PRE_DELETE", "DELETED", "ERR_HDR"}
  PROVE  /\ Marked(old, "DELETED") = IF old = "ERR_HDR" THEN old ELSE "DELETED"
         /\ Marked(old, "PRE_DELETE") = IF old \in {"DELETED", "ERR_HDR"} THEN old ELSE "PRE_DELETE"
BY Ranks DEF Marked

-----------------------------------------------------------------------------
(* What is left to do.                                                       *)

\* Where the steps of the list stand when those in front are replaced.
LEMMA GoIndex ==
  ASSUME IsSeq(todo), todo # <<>>, NEW s, IsSeq(s), Go(s)
  PROVE  /\ Len(todo') = Len(s) + Len(todo) - 1 /\ DOMAIN todo' = 1..Len(todo')
         /\ IsSeq(todo') /\ Len(s) \in Nat /\ Len(todo) \in Nat /\ Len(todo) >= 1
         /\ DOMAIN todo = 1..Len(todo) /\ DOMAIN s = 1..Len(s)
         /\ Head(todo) = todo[1]
         /\ \A i \in DOMAIN s : i \in DOMAIN todo' /\ todo'[i] = s[i]
         /\ \A j \in DOMAIN todo : j >= 2 =>
              Len(s) + j - 1 \in DOMAIN todo' /\ todo'[Len(s) + j - 1] = todo[j]
         /\ \A i \in DOMAIN todo' :
              \/ i \in DOMAIN s /\ todo'[i] = s[i]
              \/ /\ i > Len(s) /\ i - Len(s) + 1 \in DOMAIN todo
                 /\ i - Len(s) + 1 >= 2 /\ todo'[i] = todo[i - Len(s) + 1]
<1>1. /\ Len(todo) \in Nat /\ DOMAIN todo = 1..Len(todo) /\ Len(todo) >= 1
      /\ Head(todo) = todo[1] /\ IsSeq(Tail(todo)) /\ Len(Tail(todo)) = Len(todo) - 1
      /\ \A i \in 1..(Len(todo) - 1) : Tail(todo)[i] = todo[i + 1]
  BY SeqFacts
<1>2. Len(s) \in Nat /\ DOMAIN s = 1..Len(s)
  BY SeqFacts
<1>3. todo' = s \o Tail(todo)
  BY DEF Go
<1>4. /\ IsSeq(todo') /\ Len(todo') = Len(s) + (Len(todo) - 1)
      /\ DOMAIN todo' = 1..(Len(s) + (Len(todo) - 1))
      /\ \A i \in 1..Len(s) : todo'[i] = s[i]
      /\ \A i \in 1..(Len(todo) - 1) : todo'[Len(s) + i] = Tail(todo)[i]
  BY <1>1, <1>3, JoinFacts
<1>5. \A i \in DOMAIN s : i \in DOMAIN todo' /\ todo'[i] = s[i]
  BY <1>1, <1>2, <1>4
<1>6. ASSUME NEW j \in DOMAIN todo, j >= 2
      PROVE Len(s) + j - 1 \in DOMAIN todo' /\ todo'[Len(s) + j - 1] = todo[j]
  <2>1. j - 1 \in 1..(Len(todo) - 1) /\ Len(s) + (j - 1) = Len(s) + j - 1 /\ (j - 1) + 1 = j
        /\ Len(s) + j - 1 \in 1..(Len(s) + (Len(todo) - 1))
    BY <1>1, <1>2, <1>6
  <2>2. todo'[Len(s) + (j - 1)] = Tail(todo)[j - 1] /\ Tail(todo)[j - 1] = todo[(j - 1) + 1]
    BY <1>1, <1>4, <2>1
  <2> QED
    BY <1>4, <2>1, <2>2
<1>7. ASSUME NEW i \in DOMAIN todo', i \notin DOMAIN s
      PROVE /\ i > Len(s) /\ i - Len(s) + 1 \in DOMAIN todo
            /\ i - Len(s) + 1 >= 2 /\ todo'[i] = todo[i - Len(s) + 1]
  <2>1. /\ i > Len(s) /\ i - Len(s) + 1 \in DOMAIN todo /\ i - Len(s) + 1 >= 2
        /\ Len(s) + (i - Len(s) + 1) - 1 = i
    BY <1>1, <1>2, <1>4, <1>7
  <2> QED
    BY <1>6, <2>1
<1> QED
  BY <1>1, <1>2, <1>4, <1>5, <1>7

\* The list stays well formed when what replaces its first step fits to the rest.
LEMMA PlanKept ==
  ASSUME Plan(todo), todo # <<>>, NEW s, Part(s), Go(s),
         s # <<>> => IF Len(todo) > 1 THEN Follows(s[Len(s)], todo[2]) ELSE Closed(s[Len(s)])
  PROVE  Plan(todo')
BY PlanGo DEF Go

\* What is known of the step in front and the one behind it.
LEMMA Front ==
  ASSUME Plan(todo), todo # <<>>
  PROVE  /\ IsSeq(todo) /\ Part(todo) /\ Len(todo) \in Nat /\ Len(todo) >= 1 /\ DOMAIN todo = 1..Len(todo)
         /\ Head(todo) = todo[1] /\ StepOK(Head(todo))
         /\ IF Len(todo) > 1 THEN 2 \in DOMAIN todo /\ Follows(todo[1], todo[2]) /\ StepOK(todo[2])
                             ELSE Closed(todo[1])
<1>1. IsSeq(todo) /\ Part(todo)
  BY DEF Plan, Part
<1>2. Len(todo) \in Nat /\ DOMAIN todo = 1..Len(todo) /\ Len(todo) >= 1 /\ Head(todo) = todo[1]
  BY <1>1, SeqFacts
<1>3. CASE Len(todo) > 1
  <2>1. 1 \in DOMAIN todo /\ 1 + 1 \in DOMAIN todo /\ 1 + 1 = 2
    BY <1>2, <1>3
  <2>2. Follows(todo[1], todo[1 + 1])
    BY <1>1, <2>1 DEF Part
  <2>3. StepOK(todo[1]) /\ StepOK(todo[2])
    BY <1>1, <2>1 DEF Part
  <2> QED
    BY <1>1, <1>2, <1>3, <2>1, <2>2, <2>3
<1>4. CASE ~(Len(todo) > 1)
  <2>1. Len(todo) = 1 /\ 1 \in DOMAIN todo
    BY <1>2, <1>4
  <2> QED
    <3>1. StepOK(todo[1])
      BY <1>1, <2>1 DEF Part
    <3>2. Closed(todo[1])
      BY <2>1 DEF Plan
    <3> QED
      BY <1>1, <1>2, <1>4, <3>1, <3>2
<1> QED
  BY <1>3, <1>4

\* A record to be moved is in front, or behind its mark only.
LEMMA MoveInFront ==
  ASSUME Plan(todo), NEW i \in DOMAIN todo, todo[i].op = "move"
  PROVE  \/ i = 1
         \/ /\ i = 2 /\ todo # <<>>
            /\ \/ HeadIs("dirty")
               \/ HeadIs("mark") /\ Head(todo).st = "PRE_DELETE" /\ Head(todo).addr = todo[2].addr
<1>1. Part(todo) /\ IsSeq(todo)
  BY DEF Plan, Part
<1>2. Len(todo) \in Nat /\ DOMAIN todo = 1..Len(todo) /\ todo # <<>> /\ Head(todo) = todo[1]
  BY <1>1, SeqFacts
<1>3. CASE i > 1
  <2>1. i - 1 \in DOMAIN todo /\ (i - 1) + 1 = i /\ i \in Nat
    BY <1>2, <1>3
  <2>2. Follows(todo[i - 1], todo[i])
    BY <1>1, <2>1 DEF Part
  <2>3. \/ todo[i - 1].op = "dirty"
        \/ todo[i - 1].op = "mark" /\ todo[i - 1].st = "PRE_DELETE" /\ todo[i].addr = todo[i - 1].addr
    BY <2>2 DEF Follows
  <2>4. CASE i - 1 > 1
    <3>1. i - 2 \in DOMAIN todo /\ (i - 2) + 1 = i - 1
      BY <1>2, <2>1, <2>4
    <3>2. Follows(todo[i - 2], todo[i - 1])
      BY <1>1, <2>1, <3>1 DEF Part
    <3> QED
      BY <2>3, <3>2 DEF Follows
  <2>5. CASE i - 1 = 1
    <3>1. i = 2
      BY <2>1, <2>5
    <3>2. \/ todo[1].op = "dirty"
          \/ todo[1].op = "mark" /\ todo[1].st = "PRE_DELETE" /\ todo[2].addr = todo[1].addr
      BY <2>3, <2>5, <3>1
    <3> QED
      BY <1>2, <3>1, <3>2 DEF HeadIs
  <2> QED
    BY <1>2, <2>1, <2>4, <2>5
<1> QED
  BY <1>2, <1>3

-----------------------------------------------------------------------------
(* The first invariant: types, the shape of what is left, and what the steps  *)
(* in front rely on.                                                         *)

TypeInv ==
  /\ Typed(flash) /\ Plan(todo)
  /\ gcRequest \in BOOLEAN /\ lastDel \in BOOLEAN /\ recovering \in BOOLEAN
  /\ cache \in [Key -> Addr \cup {NoAddr}]
  /\ power \in {"off", "boot", "on"}
  /\ taken \in BOOLEAN
  /\ result \in {"ok", "full", "missing"}
  /\ calls \in 0..MaxCalls /\ restarts \in 0..MaxRestarts

\* A record whose crc is right has a name and a value.
WholeNamed == \A a \in Addr : At(a).whole => At(a).key \in Key /\ At(a).val \in Value

BodyReady == HeadIs("body") => At(Head(todo).addr).key \in Key /\ At(Head(todo).addr).val \in Value

MoveReady == \A i \in DOMAIN todo : todo[i].op = "move" => At(todo[i].addr).whole

\* The default is written when every sector is formatted.
DefaultReady ==
  \A i \in DOMAIN todo : todo[i].op = "default" =>
    /\ ~gcRequest
    /\ \A j \in 1..(i - 1) : todo[j].op \in {"repair", "erase", "header"}
    /\ \A s \in Sector : s < todo[i].sec - 1 => flash[s] = Formatted
    /\ todo[i].sec > 1 => /\ i <= 3 
                          /\ i = 1 => flash[todo[i].sec - 1] = Formatted

Basic == TypeInv /\ WholeNamed /\ BodyReady /\ MoveReady /\ DefaultReady

\* Nothing is larger than an empty sector.
LEMMA AllocFormatted ==
  ASSUME Typed(flash), ~gcRequest, \A s \in Sector : flash[s] = Formatted,
         NEW size \in Nat, size <= SectorSize
  PROVE  Alloc(size).addr # NoAddr
<1>1. Formatted.store = "EMPTY" /\ Formatted.dirty = "FALSE" /\ Formatted.recs = [o \in Offset |-> Blank]
  BY DEF Formatted, Erased
<1>2. With("EMPTY") = Sector /\ With("USING") = {}
  BY <1>1 DEF With
<1>3. \A s \in Sector : Fits(s, size)
  <2> SUFFICES ASSUME NEW s \in Sector PROVE Fits(s, size)
    OBVIOUS
  <2>1. Fill(s) = 0
    BY <1>1 DEF Fill
  <2> QED
    BY <1>1, <2>1, Constants DEF Fits, Remain
<1>4. Empties = SectorNum
  BY <1>2, Constants, FS_Interval DEF Empties, Sector
<1> DEFINE empty == {s \in With("EMPTY") : Fits(s, size)}
<1>5. empty = Sector /\ 1 \in Sector
  BY <1>2, <1>3, Constants
<1>6. {s \in With("USING") : Fits(s, size)} = {}
  BY <1>2
<1>7. Empties > GcThreshold
  BY <1>4, Constants
<1>8. Alloc(size).addr = FirstSpace(empty)
  BY <1>5, <1>6, <1>7 DEF Alloc
<1>9. Least(empty) \in Sector
  BY <1>5, LeastOf, Constants
<1>10. FirstSpace(empty)[1] \in Sector
  BY <1>9 DEF FirstSpace
<1>11. 0 \notin Sector
  BY Constants
<1> QED
  BY <1>8, <1>10, <1>11 DEF NoAddr

\* The steps that write a record.
LEMMA WritePart ==
  ASSUME NEW a \in Addr, NEW k \in Key, NEW v \in Value, a[2] + Size[v] <= SectorSize,
         NEW by \in {"set", "move", "default"}, NEW full \in BOOLEAN,
         NEW w, w = WriteSteps(a, k, v, by, full)
  PROVE  /\ Part(w) /\ Len(w) = 4 /\ w # <<>>
         /\ w[1].op = "use" /\ w[1].sec = a[1]
         /\ w[2].op = "head" /\ w[2].addr = a /\ w[2].key = k /\ w[2].val = v
         /\ w[3].op = "body" /\ w[3].addr = a
         /\ w[4].op = "commit" /\ w[4].addr = a /\ w[4].by = by /\ w[4].full = full
<1> DEFINE u == UseOf(a[1], Size[v])
           h == HeadOf(a, k, v)
           b == BodyOf(a)
           c == CommitOf(a, by, full)
<1>1. StepOK(u) /\ StepOK(h) /\ StepOK(b) /\ StepOK(c)
  BY Addresses, Constants DEF UseOf, HeadOf, BodyOf, CommitOf, StepOK, Active, Writes, Late
<1>2. Follows(u, h) /\ Follows(h, b) /\ Follows(b, c)
  BY DEF UseOf, HeadOf, BodyOf, CommitOf, Follows, Active, Writes
<1>3. w = <<u, h, b, c>>
  BY DEF WriteSteps
<1>4. /\ u.op = "use" /\ u.sec = a[1]
      /\ h.op = "head" /\ h.addr = a /\ h.key = k /\ h.val = v
      /\ b.op = "body" /\ b.addr = a
      /\ c.op = "commit" /\ c.addr = a /\ c.by = by /\ c.full = full
  BY DEF UseOf, HeadOf, BodyOf, CommitOf
<1> HIDE DEF u, h, b, c
<1>5. Part(w) /\ Len(w) = 4 /\ w # <<>> /\ w[1] = u /\ w[2] = h /\ w[3] = b /\ w[4] = c
  BY <1>1, <1>2, <1>3, Part4
<1> QED
  BY <1>4, <1>5

IsCat(u, s, t) == u = s \o t

Ln(s) == Len(s)

\* Two well-formed lists in a row, by index.
LEMMA JoinAt ==
  ASSUME NEW s, Part(s), NEW t, Part(t), NEW m \in Nat, NEW n \in Nat, Ln(s) = m, Ln(t) = n, m >= 1, n >= 1,
         Follows(s[m], t[1]), NEW u, IsCat(u, s, t)
  PROVE  /\ Part(u) /\ Ln(u) = m + n /\ u # <<>>
         /\ \A i \in 1..m : u[i] = s[i]
         /\ \A i \in 1..n : u[m + i] = t[i]
<1>0. u = s \o t /\ Len(s) = m /\ Len(t) = n
  BY DEF IsCat, Ln
<1>1. Part(s \o t)
  BY <1>0, PartJoin
<1>2. IsSeq(s) /\ IsSeq(t) /\ IsSeq(s \o t)
  BY <1>1 DEF Part
<1>3. /\ Len(s \o t) = Len(s) + Len(t)
      /\ \A i \in 1..Len(s) : (s \o t)[i] = s[i]
      /\ \A i \in 1..Len(t) : (s \o t)[Len(s) + i] = t[i]
  BY <1>2, JoinFacts
<1>4. /\ Len(s \o t) = m + n
      /\ \A i \in 1..m : (s \o t)[i] = s[i]
      /\ \A i \in 1..n : (s \o t)[m + i] = t[i]
  BY <1>0, <1>3, Zenon
<1>5. s \o t # <<>>
  BY <1>2, <1>4, SeqFacts
<1> QED
  BY <1>0, <1>1, <1>4, <1>5 DEF Ln

\* A list of four steps and a list of two.
LEMMA Join42 ==
  ASSUME NEW s, Part(s), NEW t, Part(t), Ln(s) = 4, Ln(t) = 2, Follows(s[4], t[1]), NEW u, IsCat(u, s, t)
  PROVE  /\ Part(u) /\ Ln(u) = 6 /\ u # <<>>
         /\ u[1] = s[1] /\ u[2] = s[2] /\ u[3] = s[3] /\ u[4] = s[4]
         /\ u[5] = t[1] /\ u[6] = t[2]
<1>1. /\ Part(u) /\ Ln(u) = 6 /\ u # <<>>
      /\ \A i \in 1..4 : u[i] = s[i]
      /\ \A i \in 1..2 : u[4 + i] = t[i]
  BY JoinAt
<1>2. u[1] = s[1] /\ u[2] = s[2] /\ u[3] = s[3] /\ u[4] = s[4]
  BY <1>1
<1>3. u[4 + 1] = t[1] /\ u[4 + 2] = t[2]
  BY <1>1
<1> QED
  BY <1>1, <1>2, <1>3

\* A list of one step and a list of four.
LEMMA Join14 ==
  ASSUME NEW s, Part(s), NEW t, Part(t), Ln(s) = 1, Ln(t) = 4, Follows(s[1], t[1]), NEW u, IsCat(u, s, t)
  PROVE  /\ Part(u) /\ Ln(u) = 5 /\ u # <<>>
         /\ u[1] = s[1]
         /\ u[2] = t[1] /\ u[3] = t[2] /\ u[4] = t[3] /\ u[5] = t[4]
<1>1. /\ Part(u) /\ Ln(u) = 5 /\ u # <<>>
      /\ \A i \in 1..1 : u[i] = s[i]
      /\ \A i \in 1..4 : u[1 + i] = t[i]
  BY JoinAt
<1>2. u[1] = s[1]
  BY <1>1
<1>3. u[1 + 1] = t[1] /\ u[1 + 2] = t[2] /\ u[1 + 3] = t[3] /\ u[1 + 4] = t[4]
  BY <1>1
<1> QED
  BY <1>1, <1>2, <1>3

\* A list of five steps and a list of one.
LEMMA Join51 ==
  ASSUME NEW s, Part(s), NEW t, Part(t), Ln(s) = 5, Ln(t) = 1, Follows(s[5], t[1]), NEW u, IsCat(u, s, t)
  PROVE  /\ Part(u) /\ Ln(u) = 6 /\ u # <<>>
         /\ u[1] = s[1] /\ u[2] = s[2] /\ u[3] = s[3] /\ u[4] = s[4] /\ u[5] = s[5]
         /\ u[6] = t[1]
<1>1. /\ Part(u) /\ Ln(u) = 6 /\ u # <<>>
      /\ \A i \in 1..5 : u[i] = s[i]
      /\ \A i \in 1..1 : u[5 + i] = t[i]
  BY JoinAt
<1>2. u[1] = s[1] /\ u[2] = s[2] /\ u[3] = s[3] /\ u[4] = s[4] /\ u[5] = s[5]
  BY <1>1
<1>3. u[5 + 1] = t[1]
  BY <1>1
<1> QED
  BY <1>1, <1>2, <1>3

\* A list of six steps and a list of two.
LEMMA Join62 ==
  ASSUME NEW s, Part(s), NEW t, Part(t), Ln(s) = 6, Ln(t) = 2, Follows(s[6], t[1]), NEW u, IsCat(u, s, t)
  PROVE  /\ Part(u) /\ Ln(u) = 8 /\ u # <<>>
         /\ u[1] = s[1] /\ u[2] = s[2] /\ u[3] = s[3] /\ u[4] = s[4] /\ u[5] = s[5] /\ u[6] = s[6]
         /\ u[7] = t[1] /\ u[8] = t[2]
<1>1. /\ Part(u) /\ Ln(u) = 8 /\ u # <<>>
      /\ \A i \in 1..6 : u[i] = s[i]
      /\ \A i \in 1..2 : u[6 + i] = t[i]
  BY JoinAt
<1>2. u[1] = s[1] /\ u[2] = s[2] /\ u[3] = s[3] /\ u[4] = s[4] /\ u[5] = s[5] /\ u[6] = s[6]
  BY <1>1
<1>3. u[6 + 1] = t[1] /\ u[6 + 2] = t[2]
  BY <1>1
<1> QED
  BY <1>1, <1>2, <1>3

\* A list of four steps and a list of one.
LEMMA Join41 ==
  ASSUME NEW s, Part(s), NEW t, Part(t), Ln(s) = 4, Ln(t) = 1, Follows(s[4], t[1]), NEW u, IsCat(u, s, t)
  PROVE  /\ Part(u) /\ Ln(u) = 5 /\ u # <<>>
         /\ u[1] = s[1] /\ u[2] = s[2] /\ u[3] = s[3] /\ u[4] = s[4]
         /\ u[5] = t[1]
<1>1. /\ Part(u) /\ Ln(u) = 5 /\ u # <<>>
      /\ \A i \in 1..4 : u[i] = s[i]
      /\ \A i \in 1..1 : u[4 + i] = t[i]
  BY JoinAt
<1>2. u[1] = s[1] /\ u[2] = s[2] /\ u[3] = s[3] /\ u[4] = s[4]
  BY <1>1
<1>3. u[4 + 1] = t[1]
  BY <1>1
<1> QED
  BY <1>1, <1>2, <1>3

\* The steps of a replacement: n of them are in front of the writing.
Replaces(r, n, a, k, v, full, old) ==
  /\ Part(r) /\ r # <<>> /\ Ln(r) = 6 + 2 * n
  /\ r[n + 1].op = "use" /\ r[n + 1].sec = a[1]
  /\ r[n + 2].op = "head" /\ r[n + 2].addr = a /\ r[n + 2].key = k /\ r[n + 2].val = v
  /\ r[n + 3].op = "body" /\ r[n + 3].addr = a
  /\ r[n + 4].op = "commit" /\ r[n + 4].addr = a /\ r[n + 4].by = "set" /\ r[n + 4].full = full
  /\ r[2 * n + 5].op = "gcif"
  /\ r[2 * n + 6].op = "return" /\ r[2 * n + 6].res = "ok"
  /\ n = 1 => /\ r[1].op = "mark" /\ r[1].st = "PRE_DELETE" /\ r[1].addr = old
              /\ r[6].op = "mark" /\ r[6].st = "DELETED" /\ r[6].addr = old

\* The steps of set_env are well formed, with an old record or without.
LEMMA ReplacePart ==
  ASSUME NEW a \in Addr, NEW k \in Key, NEW v \in Value, a[2] + Size[v] <= SectorSize,
         NEW full \in BOOLEAN, NEW old \in Addr \cup {NoAddr},
         NEW r, IsCat(r, Replace(old, WriteSteps(a, k, v, "set", full)), <<GcIfRequested, ReturnOf("ok")>>),
         NEW n, n = IF old = NoAddr THEN 0 ELSE 1
  PROVE  Replaces(r, n, a, k, v, full, old)
<1> DEFINE m == MarkOf(old, "PRE_DELETE")
           u == UseOf(a[1], Size[v])
           h == HeadOf(a, k, v)
           b == BodyOf(a)
           c == CommitOf(a, "set", full)
           d == MarkOf(old, "DELETED")
           g == GcIfRequested
           e == ReturnOf("ok")
<1>1. StepOK(u) /\ StepOK(h) /\ StepOK(b) /\ StepOK(c) /\ StepOK(g) /\ StepOK(e)
  BY Addresses, Constants DEF UseOf, HeadOf, BodyOf, CommitOf, GcIfRequested, ReturnOf, StepOK, Active, Writes, Late
<1>2. Follows(u, h) /\ Follows(h, b) /\ Follows(b, c) /\ Follows(c, g) /\ Follows(g, e)
  BY DEF UseOf, HeadOf, BodyOf, CommitOf, GcIfRequested, ReturnOf, Follows, Active, Writes
<1>3. Follows(m, u) /\ Follows(c, d) /\ Follows(d, g)
  BY DEF MarkOf, UseOf, CommitOf, GcIfRequested, Follows, Active, Writes
<1>4. old \in Addr => StepOK(m) /\ StepOK(d)
  BY DEF MarkOf, StepOK, Active, Writes, Late
<1>5. /\ u.op = "use" /\ u.sec = a[1]
      /\ h.op = "head" /\ h.addr = a /\ h.key = k /\ h.val = v
      /\ b.op = "body" /\ b.addr = a
      /\ c.op = "commit" /\ c.addr = a /\ c.by = "set" /\ c.full = full
      /\ g.op = "gcif" /\ e.op = "return" /\ e.res = "ok"
      /\ m.op = "mark" /\ m.st = "PRE_DELETE" /\ m.addr = old
      /\ d.op = "mark" /\ d.st = "DELETED" /\ d.addr = old
  BY DEF UseOf, HeadOf, BodyOf, CommitOf, GcIfRequested, ReturnOf, MarkOf
<1>6. r = Replace(old, <<u, h, b, c>>) \o <<g, e>>
  BY DEF WriteSteps, IsCat
<1>7. old = NoAddr => r = <<u, h, b, c>> \o <<g, e>>
  BY <1>6 DEF Replace
<1>8. old # NoAddr => r = ((<<m>> \o <<u, h, b, c>>) \o <<d>>) \o <<g, e>>
  BY <1>6 DEF Replace
<1> HIDE DEF m, u, h, b, c, d, g, e
<1> DEFINE w == <<u, h, b, c>>
           z == <<g, e>>
           x == <<m>>
           y == <<d>>
<1>9. Part(w) /\ Ln(w) = 4 /\ w[1] = u /\ w[2] = h /\ w[3] = b /\ w[4] = c
  BY <1>1, <1>2, Part4 DEF Ln
<1>10. Part(z) /\ Ln(z) = 2 /\ z[1] = g /\ z[2] = e
  BY <1>1, <1>2, Part2 DEF Ln
<1>11. old \in Addr => /\ Part(x) /\ Ln(x) = 1 /\ x[1] = m
                       /\ Part(y) /\ Ln(y) = 1 /\ y[1] = d
  BY <1>4, Part1 DEF Ln
<1>12. old = NoAddr => IsCat(r, w, z)
  BY <1>7 DEF IsCat
<1>13. old # NoAddr => \E p, q : IsCat(p, x, w) /\ IsCat(q, p, y) /\ IsCat(r, q, z)
  BY <1>8 DEF IsCat
<1> HIDE DEF w, z, x, y
<1>14. CASE old = NoAddr
  <2>1. Follows(w[4], z[1])
    BY <1>2, <1>9, <1>10
  <2>2. /\ Part(r) /\ Ln(r) = 6 /\ r # <<>>
        /\ r[1] = u /\ r[2] = h /\ r[3] = b /\ r[4] = c /\ r[5] = g /\ r[6] = e
    BY <1>9, <1>10, <1>12, <1>14, <2>1, Join42
  <2>3. n = 0
    BY <1>14
  <2> QED
    BY <1>5, <2>2, <2>3 DEF Replaces
<1>15. CASE old # NoAddr
  <2>1. PICK p, q : IsCat(p, x, w) /\ IsCat(q, p, y) /\ IsCat(r, q, z)
    BY <1>13, <1>15
  <2>2. Part(x) /\ Ln(x) = 1 /\ x[1] = m /\ Part(y) /\ Ln(y) = 1 /\ y[1] = d
    BY <1>11, <1>15
  <2>3. Follows(x[1], w[1])
    BY <1>3, <1>9, <2>2
  <2>4. /\ Part(p) /\ Ln(p) = 5
        /\ p[1] = m /\ p[2] = u /\ p[3] = h /\ p[4] = b /\ p[5] = c
    BY <1>9, <2>1, <2>2, <2>3, Join14
  <2>5. Follows(p[5], y[1])
    BY <1>3, <2>2, <2>4
  <2>6. /\ Part(q) /\ Ln(q) = 6
        /\ q[1] = m /\ q[2] = u /\ q[3] = h /\ q[4] = b /\ q[5] = c /\ q[6] = d
    BY <2>1, <2>2, <2>4, <2>5, Join51
  <2>7. Follows(q[6], z[1])
    BY <1>3, <1>10, <2>6
  <2>8. /\ Part(r) /\ Ln(r) = 8 /\ r # <<>>
        /\ r[1] = m /\ r[2] = u /\ r[3] = h /\ r[4] = b /\ r[5] = c /\ r[6] = d /\ r[7] = g /\ r[8] = e
    BY <1>10, <2>1, <2>6, <2>7, Join62
  <2>9. n = 1
    BY <1>15
  <2> QED
    BY <1>5, <2>8, <2>9 DEF Replaces
<1> QED
  BY <1>14, <1>15

\* The steps of a move.
MoveSteps(w, a, k, v, old) ==
  /\ Part(w) /\ w # <<>> /\ Ln(w) = 5
  /\ w[1].op = "use" /\ w[1].sec = a[1]
  /\ w[2].op = "head" /\ w[2].addr = a /\ w[2].key = k /\ w[2].val = v
  /\ w[3].op = "body" /\ w[3].addr = a
  /\ w[4].op = "commit" /\ w[4].addr = a /\ w[4].by = "move" /\ w[4].full = FALSE
  /\ w[5].op = "mark" /\ w[5].st = "DELETED" /\ w[5].addr = old

\* The steps of move_env are well formed.
LEMMA MovePart ==
  ASSUME NEW a \in Addr, NEW k \in Key, NEW v \in Value, a[2] + Size[v] <= SectorSize, NEW old \in Addr,
         NEW r, IsCat(r, WriteSteps(a, k, v, "move", FALSE), <<MarkOf(old, "DELETED")>>)
  PROVE  MoveSteps(r, a, k, v, old)
<1> DEFINE u == UseOf(a[1], Size[v])
           h == HeadOf(a, k, v)
           b == BodyOf(a)
           c == CommitOf(a, "move", FALSE)
           d == MarkOf(old, "DELETED")
<1>1. StepOK(u) /\ StepOK(h) /\ StepOK(b) /\ StepOK(c) /\ StepOK(d)
  BY Addresses, Constants DEF UseOf, HeadOf, BodyOf, CommitOf, MarkOf, StepOK, Active, Writes, Late
<1>2. Follows(u, h) /\ Follows(h, b) /\ Follows(b, c) /\ Follows(c, d)
  BY DEF UseOf, HeadOf, BodyOf, CommitOf, MarkOf, Follows, Active, Writes
<1>3. /\ u.op = "use" /\ u.sec = a[1]
      /\ h.op = "head" /\ h.addr = a /\ h.key = k /\ h.val = v
      /\ b.op = "body" /\ b.addr = a
      /\ c.op = "commit" /\ c.addr = a /\ c.by = "move" /\ c.full = FALSE
      /\ d.op = "mark" /\ d.st = "DELETED" /\ d.addr = old
  BY DEF UseOf, HeadOf, BodyOf, CommitOf, MarkOf
<1>4. r = <<u, h, b, c>> \o <<d>>
  BY DEF WriteSteps, IsCat
<1> HIDE DEF u, h, b, c, d
<1> DEFINE w == <<u, h, b, c>>
           y == <<d>>
<1>5. Part(w) /\ Ln(w) = 4 /\ w[1] = u /\ w[2] = h /\ w[3] = b /\ w[4] = c
  BY <1>1, <1>2, Part4 DEF Ln
<1>6. Part(y) /\ Ln(y) = 1 /\ y[1] = d
  BY <1>1, Part1 DEF Ln
<1>7. IsCat(r, w, y)
  BY <1>4 DEF IsCat
<1> HIDE DEF w, y
<1>8. Follows(w[4], y[1])
  BY <1>2, <1>5, <1>6
<1>9. /\ Part(r) /\ Ln(r) = 5 /\ r # <<>>
      /\ r[1] = u /\ r[2] = h /\ r[3] = b /\ r[4] = c /\ r[5] = d
  BY <1>5, <1>6, <1>7, <1>8, Join41
<1> QED
  BY <1>3, <1>9 DEF MoveSteps

\* The steps of a collection.
LEMMA CollectPart ==
  /\ CalmPart(CollectSteps) /\ CollectSteps # <<>>
  /\ \A i \in DOMAIN CollectSteps : CollectSteps[i].op \in {"collect", "gcend"}
<1> DEFINE f == [s \in Sector |-> CollectOf(s)]
<1>1. CalmPart(<<GcEnd>>) /\ <<GcEnd>> # <<>>
  <2>1. StepOK(GcEnd) /\ Calm(GcEnd)
    BY DEF GcEnd, StepOK, Calm, Active, Writes, Late
  <2> QED
    BY <2>1, CalmOne
<1>2. CalmPart(f)
  BY CalmEach
<1>3. CalmPart(f \o <<GcEnd>>)
  BY <1>1, <1>2, CalmJoin
<1>4. \A i \in DOMAIN f : f[i].op = "collect"
  BY DEF CollectOf
<1>5. DOMAIN <<GcEnd>> = 1..1 /\ <<GcEnd>>[1] = GcEnd /\ GcEnd.op = "gcend" /\ Len(<<GcEnd>>) = 1
  BY DEF GcEnd
<1> HIDE DEF f
<1>6. /\ IsSeq(f) /\ IsSeq(<<GcEnd>>) /\ IsSeq(f \o <<GcEnd>>)
  BY <1>1, <1>2, <1>3 DEF CalmPart, Part
<1>7. /\ Len(f) \in Nat /\ DOMAIN f = 1..Len(f) 
      /\ Len(f \o <<GcEnd>>) = Len(f) + 1
      /\ DOMAIN (f \o <<GcEnd>>) = 1..(Len(f) + 1)
      /\ \A i \in 1..Len(f) : (f \o <<GcEnd>>)[i] = f[i]
      /\ \A i \in 1..1 : (f \o <<GcEnd>>)[Len(f) + i] = <<GcEnd>>[i]
  BY <1>5, <1>6, SeqFacts, JoinFacts
<1>8. \A i \in 1..(Len(f) + 1) : i \in 1..Len(f) \/ i = Len(f) + 1
  BY <1>7
<1>9. \A i \in DOMAIN (f \o <<GcEnd>>) : (f \o <<GcEnd>>)[i].op \in {"collect", "gcend"}
  BY <1>4, <1>5, <1>7, <1>8
<1>10. f \o <<GcEnd>> # <<>>
  BY <1>6, <1>7, SeqFacts
<1> QED
  BY <1>1, <1>3, <1>5, <1>9, <1>10 DEF CollectSteps, f

\* What may stand behind the steps of calls, collections and starts.
LEMMA LateNext ==
  ASSUME NEW p, p.op \in Late, NEW q, StepOK(q), Follows(p, q)
  PROVE  Calm(q)
BY DEF Late, Follows, StepOK, Calm, Active, Writes

\* A calm step may stand behind every closed one.
LEMMA ClosedCalm ==
  ASSUME NEW p, Closed(p), NEW q, Calm(q)
  PROVE  Follows(p, q)
BY DEF Closed, Calm, Follows, Late, Active, Writes, Open

\* The last of the steps put in front fits to the rest.
Link(s) == s # <<>> => IF Len(todo) > 1 THEN Follows(s[Len(s)], todo[2]) ELSE Closed(s[Len(s)])

\* Behind a step of a call, a collection or a start all closed steps fit.
LEMMA LateLink ==
  ASSUME Plan(todo), todo # <<>>, Head(todo).op \in Late, NEW s, s # <<>> => Closed(s[Len(s)])
  PROVE  Link(s)
<1>1. CASE Len(todo) > 1
  <2>1. Follows(todo[1], todo[2]) /\ StepOK(todo[2]) /\ Head(todo) = todo[1]
    BY <1>1, Front
  <2>2. Calm(todo[2])
    BY <2>1, LateNext
  <2> QED
    BY <1>1, <2>2, ClosedCalm DEF Link
<1>2. CASE ~(Len(todo) > 1)
  BY <1>2 DEF Link
<1> QED
  BY <1>1, <1>2

\* The step in front is replaced by others: what the invariant says of the
\* steps holds again, unless the flash changes under those that are left.
LEMMA Onward ==
  ASSUME Plan(todo), todo # <<>>, DefaultReady,
         Head(todo).op \notin {"mark", "dirty", "head", "repair", "erase", "header"},
         NEW s, Part(s), Go(s), Link(s),
         s # <<>> => s[1].op # "body",
         \A i \in DOMAIN s : /\ s[i].op # "default"
                             /\ s[i].op = "move" => (At(s[i].addr).whole)'
  PROVE  Plan(todo') /\ MoveReady' /\ DefaultReady' /\ BodyReady'
<1>1. Plan(todo')
  BY PlanKept DEF Link
<1>2. /\ IsSeq(todo) /\ Part(todo) /\ Len(todo) \in Nat /\ DOMAIN todo = 1..Len(todo)
      /\ Len(todo) >= 1 /\ Head(todo) = todo[1]
      /\ Len(todo) > 1 => Follows(todo[1], todo[2])
  BY Front
<1>3. IsSeq(s)
  BY DEF Part
<1>4. /\ DOMAIN s = 1..Len(s) /\ Len(s) \in Nat
      /\ \A i \in DOMAIN todo' :
           \/ i \in DOMAIN s /\ todo'[i] = s[i]
           \/ /\ i > Len(s) /\ i - Len(s) + 1 \in DOMAIN todo
              /\ i - Len(s) + 1 >= 2 /\ todo'[i] = todo[i - Len(s) + 1]
  BY <1>2, <1>3, GoIndex
<1>5. \A j \in DOMAIN todo : j >= 2 => todo[j].op # "move" /\ todo[j].op # "default"
  <2>1. SUFFICES ASSUME NEW j \in DOMAIN todo, j >= 2
                 PROVE  todo[j].op # "move" /\ todo[j].op # "default"
    OBVIOUS
  <2>2. todo[j].op # "move"
    BY <2>1, <1>2, MoveInFront DEF HeadIs
  <2>3. todo[j].op # "default"
    <3>1. 1 \in 1..(j - 1)
      BY <1>2, <2>1
    <3> QED
      BY <1>2, <2>1, <3>1 DEF DefaultReady
  <2> QED
    BY <2>2, <2>3
<1>6. \A i \in DOMAIN todo' : \/ i \in DOMAIN s /\ todo'[i] = s[i]
                              \/ todo'[i].op # "move" /\ todo'[i].op # "default"
  BY <1>4, <1>5
<1>7. MoveReady'
  <2>1. SUFFICES ASSUME NEW i \in DOMAIN todo', todo'[i].op = "move"
                 PROVE  (At(todo[i].addr).whole)'
    BY DEF MoveReady
  <2>2. i \in DOMAIN s /\ todo'[i] = s[i]
    BY <1>6, <2>1
  <2> QED
    BY <2>1, <2>2 DEF At
<1>8. DefaultReady'
  BY <1>6 DEF DefaultReady
<1>9. BodyReady'
  <2>1. SUFFICES ASSUME todo' # <<>>, Head(todo').op = "body"
                 PROVE  FALSE
    BY DEF BodyReady, HeadIs
  <2>2. IsSeq(todo')
    BY <1>1 DEF Plan, Part
  <2>3. 1 \in DOMAIN todo' /\ Head(todo') = todo'[1]
    BY <2>1, <2>2, SeqFacts
  <2>4. CASE 1 \in DOMAIN s
    <3>1. s # <<>>
      BY <2>4, <1>3, <1>4, SeqFacts
    <3>2. todo'[1] = s[1]
      BY <1>4, <2>3, <2>4
    <3> QED
      BY <2>1, <2>3, <3>1, <3>2
  <2>5. CASE 1 \notin DOMAIN s
    <3>1. Len(s) = 0
      BY <1>4, <2>5
    <3>2. 2 \in DOMAIN todo /\ todo'[1] = todo[2]
      BY <1>4, <2>3, <2>5, <3>1
    <3>3. Follows(todo[1], todo[2])
      BY <1>2, <3>2
    <3> QED
      BY <1>2, <2>1, <2>3, <3>2, <3>3 DEF Follows
  <2> QED
    BY <2>4, <2>5
<1> QED
  BY <1>1, <1>7, <1>8, <1>9

\* What the invariant says of a step in front.
LEMMA HeadFacts ==
  ASSUME Plan(todo), NEW op, HeadIs(op)
  PROVE  /\ todo # <<>> /\ Head(todo).op = op /\ StepOK(Head(todo)) /\ Part(todo) /\ IsSeq(todo)
         /\ Len(todo) \in Nat /\ Len(todo) >= 1 /\ DOMAIN todo = 1..Len(todo) /\ Head(todo) = todo[1]
BY Front DEF HeadIs

\* A place found is an address.
LEMMA FindFacts ==
  ASSUME cache \in [Key -> Addr \cup {NoAddr}], NEW k \in Key
  PROVE  /\ Find(k) \in Addr \cup {NoAddr}
         /\ FoundInCache(k) \in [Key -> Addr \cup {NoAddr}]
         /\ Live(k) # {} => Search(k) \in Live(k)
<1>1. Live(k) \in SUBSET (Nat \X Nat) /\ Live(k) \subseteq Addr
  BY Constants DEF Live, Visited, Addr
<1>2. Live(k) # {} => First(Live(k)) \in Live(k)
  BY <1>1, FirstOf
<1>3. Search(k) \in Addr \cup {NoAddr} /\ (Live(k) # {} => Search(k) \in Live(k))
  BY <1>1, <1>2 DEF Search
<1>4. Find(k) \in Addr \cup {NoAddr}
  BY <1>3 DEF Find
<1>5. FoundInCache(k) \in [Key -> Addr \cup {NoAddr}]
  BY <1>4 DEF FoundInCache
<1> QED
  BY <1>3, <1>4, <1>5

\* The steps of a list of one, two or three.
LEMMA One ==
  ASSUME NEW a, StepOK(a)
  PROVE  /\ Part(<<a>>) /\ <<a>> # <<>> /\ Len(<<a>>) = 1
         /\ <<a>>[1] = a /\ DOMAIN <<a>> = {1}
<1>1. Part(<<a>>) /\ <<a>> # <<>> /\ Len(<<a>>) = 1 /\ <<a>>[1] = a
  BY Part1
<1>2. DOMAIN <<a>> = {1}
  OBVIOUS
<1> QED
  BY <1>1, <1>2

\* A list of two steps, by index.
LEMMA Two ==
  ASSUME NEW a, StepOK(a), NEW b, StepOK(b), Follows(a, b)
  PROVE  /\ Part(<<a, b>>) /\ <<a, b>> # <<>> /\ Len(<<a, b>>) = 2
         /\ <<a, b>>[1] = a /\ <<a, b>>[2] = b /\ DOMAIN <<a, b>> = {1, 2}
<1>1. Part(<<a, b>>) /\ <<a, b>> # <<>> /\ Len(<<a, b>>) = 2 /\ <<a, b>>[1] = a /\ <<a, b>>[2] = b
  BY Part2
<1>2. DOMAIN <<a, b>> = {1, 2}
  OBVIOUS
<1> QED
  BY <1>1, <1>2

\* A list of three steps, by index.
LEMMA Three ==
  ASSUME NEW a, StepOK(a), NEW b, StepOK(b), NEW c, StepOK(c), Follows(a, b), Follows(b, c)
  PROVE  /\ Part(<<a, b, c>>) /\ <<a, b, c>> # <<>> /\ Len(<<a, b, c>>) = 3
         /\ <<a, b, c>>[1] = a /\ <<a, b, c>>[2] = b /\ <<a, b, c>>[3] = c
         /\ DOMAIN <<a, b, c>> = {1, 2, 3}
<1>1. /\ Part(<<a, b, c>>) /\ <<a, b, c>> # <<>> /\ Len(<<a, b, c>>) = 3
      /\ <<a, b, c>>[1] = a /\ <<a, b, c>>[2] = b /\ <<a, b, c>>[3] = c
  BY Part3
<1>2. DOMAIN <<a, b, c>> = {1, 2, 3}
  OBVIOUS
<1> QED
  BY <1>1, <1>2

None == <<>>

\* A list without steps.
LEMMA NoStep ==
  /\ Part(None) /\ Link(None) /\ None = <<>>
  /\ \A i \in DOMAIN None : FALSE
BY PartNone DEF None, Link

\* The first invariant holds behind update_sec_status.
LEMMA UseKeeps == ASSUME Basic, Use PROVE Basic'
<1> DEFINE s == Head(todo).sec
           x == IF flash[s].store = "EMPTY" THEN "USING"
                ELSE IF BecomesFull(s, Head(todo).size) THEN "FULL" ELSE flash[s].store
<1>1. HeadIs("use") /\ Plan(todo) /\ TypeInv /\ WholeNamed
  BY DEF Use, Basic, TypeInv
<1>2. /\ todo # <<>> /\ Head(todo).op = "use" /\ StepOK(Head(todo))
  BY <1>1, HeadFacts
<1>3. s \in Sector
  BY <1>2 DEF StepOK
<1>4. flash' = [flash EXCEPT ![s].store = x]
  BY <1>1, <1>3 DEF Use, TypeInv, Typed
<1>5. x \in Stores
  BY <1>1, <1>3 DEF TypeInv, Typed, Stores
<1> HIDE DEF x, s
<1>6. Typed(flash') /\ \A b \in Addr : At(b)' = At(b)
  BY <1>1, <1>3, <1>4, <1>5, SetStoreFacts DEF TypeInv
<1>7. Go(None) /\ UNCHANGED <<ram, power, caller, restarts>>
  BY DEF Use, None
<1>8. Plan(todo') /\ MoveReady' /\ DefaultReady' /\ BodyReady'
  BY <1>1, <1>2, <1>7, NoStep, Onward DEF Basic
<1> QED
  BY <1>1, <1>6, <1>7, <1>8 DEF Basic, TypeInv, WholeNamed, ram, caller

\* The first invariant holds behind write_env_hdr and the data behind it.
LEMMA WriteBodyKeeps == ASSUME Basic, WriteBody PROVE Basic'
<1> DEFINE a == Head(todo).addr
           x == [At(a) EXCEPT !.whole = TRUE]
<1>1. HeadIs("body") /\ Plan(todo) /\ TypeInv /\ WholeNamed
  BY DEF WriteBody, Basic, TypeInv
<1>2. /\ todo # <<>> /\ Head(todo).op = "body" /\ StepOK(Head(todo))
  BY <1>1, HeadFacts
<1>3. a \in Addr
  BY <1>2 DEF StepOK
<1>4. At(a) \in Record /\ At(a).key \in Key /\ At(a).val \in Value
  BY <1>1, <1>3, Parts DEF TypeInv, Basic, BodyReady
<1>5. x \in Record /\ x.key = At(a).key /\ x.val = At(a).val
  BY <1>4, Fields, ChangedRecord
<1>6. SetRec(a, x)
  BY DEF WriteBody
<1> HIDE DEF x, a
<1>7. Typed(flash') /\ \A b \in Addr : At(b)' = IF b = a THEN x ELSE At(b)
  BY <1>1, <1>3, <1>5, <1>6, SetRecFacts DEF TypeInv
<1>8. Go(None) /\ UNCHANGED <<ram, power, caller, restarts>>
  BY DEF WriteBody, None
<1>9. Plan(todo') /\ MoveReady' /\ DefaultReady' /\ BodyReady'
  BY <1>1, <1>2, <1>8, NoStep, Onward DEF Basic
<1>10. WholeNamed'
  BY <1>1, <1>4, <1>5, <1>7 DEF WholeNamed
<1> QED
  BY <1>1, <1>7, <1>8, <1>9, <1>10 DEF Basic, TypeInv, ram, caller

\* The first invariant holds behind the status that makes a record valid.
LEMMA CommitKeeps == ASSUME Basic, Commit PROVE Basic'
<1> DEFINE a == Head(todo).addr
           x == [At(a) EXCEPT !.st = "WRITE"]
<1>1. HeadIs("commit") /\ Plan(todo) /\ TypeInv /\ WholeNamed
  BY DEF Commit, Basic, TypeInv
<1>2. /\ todo # <<>> /\ Head(todo).op = "commit" /\ StepOK(Head(todo))
  BY <1>1, HeadFacts
<1>3. a \in Addr /\ Head(todo).full \in BOOLEAN /\ Head(todo).by \in {"set", "move", "default"}
  BY <1>2 DEF StepOK
<1>4. At(a) \in Record
  BY <1>1, <1>3, Parts DEF TypeInv
<1>5. x \in Record /\ x.key = At(a).key /\ x.val = At(a).val /\ x.whole = At(a).whole
  BY <1>4, ChangedRecord
<1>6. SetRec(a, x)
  BY DEF Commit
<1>7. /\ gcRequest' = (gcRequest \/ Head(todo).full) /\ taken' = (taken \/ Head(todo).by = "set")
      /\ cache' = [cache EXCEPT ![At(a).key] = a]
  BY DEF Commit
<1>8. gcRequest' \in BOOLEAN
  BY <1>1, <1>3, <1>7 DEF TypeInv
<1>9. taken' \in BOOLEAN
  BY <1>1, <1>3, <1>7 DEF TypeInv
<1>10. cache' \in [Key -> Addr \cup {NoAddr}]
  BY <1>1, <1>3, <1>7 DEF TypeInv
<1> HIDE DEF x, a
<1>11. Typed(flash') /\ \A b \in Addr : At(b)' = IF b = a THEN x ELSE At(b)
  BY <1>1, <1>3, <1>5, <1>6, SetRecFacts DEF TypeInv
<1>12. Go(None) /\ UNCHANGED <<lastDel, recovering, power, call, result, calls, restarts>>
  BY DEF Commit, None
<1>13. Plan(todo') /\ MoveReady' /\ DefaultReady' /\ BodyReady'
  BY <1>1, <1>2, <1>12, NoStep, Onward DEF Basic
<1>14. WholeNamed'
  BY <1>1, <1>3, <1>5, <1>11 DEF WholeNamed
<1> QED
  BY <1>1, <1>8, <1>9, <1>10, <1>11, <1>12, <1>13, <1>14 DEF Basic, TypeInv

\* The first invariant holds behind the end of a call.
LEMMA ReturnKeeps == ASSUME Basic, Return PROVE Basic'
<1>1. HeadIs("return") /\ Plan(todo) /\ TypeInv
  BY DEF Return, Basic, TypeInv
<1>2. /\ todo # <<>> /\ Head(todo).op = "return" /\ StepOK(Head(todo))
  BY <1>1, HeadFacts
<1>3. Head(todo).res \in {"ok", "full", "missing"}
  BY <1>2 DEF StepOK
<1>4. Go(None) /\ UNCHANGED <<flash, ram, power, calls, restarts>> /\ taken' = FALSE /\ result' = Head(todo).res
  BY DEF Return, None
<1>5. Plan(todo') /\ MoveReady' /\ DefaultReady' /\ BodyReady'
  BY <1>1, <1>2, <1>4, NoStep, Onward DEF Basic
<1> QED
  BY <1>1, <1>3, <1>4, <1>5 DEF Basic, TypeInv, WholeNamed, ram, At

\* The first invariant holds behind the end of gc_collect.
LEMMA FinishGcKeeps == ASSUME Basic, FinishGc PROVE Basic'
<1>1. HeadIs("gcend") /\ Plan(todo) /\ TypeInv
  BY DEF FinishGc, Basic, TypeInv
<1>2. /\ todo # <<>> /\ Head(todo).op = "gcend"
  BY <1>1, HeadFacts
<1>4. /\ Go(None) /\ UNCHANGED <<flash, lastDel, cache, recovering, power, caller, restarts>>
      /\ gcRequest' = FALSE
  BY DEF FinishGc, None
<1>5. Plan(todo') /\ MoveReady' /\ DefaultReady' /\ BodyReady'
  BY <1>1, <1>2, <1>4, NoStep, Onward DEF Basic
<1> QED
  BY <1>1, <1>4, <1>5 DEF Basic, TypeInv, WholeNamed, caller, At

\* The first invariant holds behind the begin of gc_collect.
LEMMA StartGcKeeps == ASSUME Basic, StartGc PROVE Basic'
<1> DEFINE s == IF HeadIs("gcif") /\ ~gcRequest THEN None ELSE CollectSteps
<1>1. (HeadIs("gc") \/ HeadIs("gcif")) /\ Plan(todo) /\ TypeInv
  BY DEF StartGc, Basic, TypeInv
<1>2. /\ todo # <<>> /\ Head(todo).op \in {"gc", "gcif"}
  BY <1>1, HeadFacts
<1>3. Go(s) /\ UNCHANGED <<flash, ram, power, caller, restarts>>
  BY DEF StartGc, None
<1>4. Part(s) /\ (s # <<>> => Closed(s[Len(s)]) /\ s[1].op # "body")
      /\ \A i \in DOMAIN s : s[i].op # "default" /\ s[i].op # "move"
  <2>1. CASE s = None
    BY <2>1, NoStep
  <2>2. CASE s = CollectSteps
    <3>1. CalmPart(CollectSteps) /\ CollectSteps # <<>>
          /\ \A i \in DOMAIN CollectSteps : CollectSteps[i].op \in {"collect", "gcend"}
      BY CollectPart
    <3>2. Len(CollectSteps) \in DOMAIN CollectSteps /\ 1 \in DOMAIN CollectSteps
      BY <3>1, SeqFacts DEF CalmPart, Part
    <3> QED
      BY <2>2, <3>1, <3>2 DEF CalmPart, Calm, Closed, Open, Late
  <2> QED
    BY <2>1, <2>2
<1> HIDE DEF s
<1>5. Link(s)
  BY <1>1, <1>2, <1>4, LateLink DEF Late
<1>6. Plan(todo') /\ MoveReady' /\ DefaultReady' /\ BodyReady'
  BY <1>1, <1>2, <1>3, <1>4, <1>5, Onward DEF Basic
<1> QED
  BY <1>1, <1>3, <1>6 DEF Basic, TypeInv, WholeNamed, ram, caller, At

\* The first invariant holds behind do_gc for one sector.
LEMMA CollectKeeps == ASSUME Basic, Collect PROVE Basic'
<1> DEFINE c == Head(todo).sec
           t == <<SweepOf(c, 0), EraseOf(c), HeaderOf(c)>>
<1>1. HeadIs("collect") /\ Plan(todo) /\ TypeInv /\ WholeNamed
  BY DEF Collect, Basic, TypeInv
<1>2. /\ todo # <<>> /\ Head(todo).op = "collect" /\ StepOK(Head(todo))
  BY <1>1, HeadFacts
<1>3. c \in Sector
  BY <1>2 DEF StepOK
<1>4. StepOK(SweepOf(c, 0)) /\ StepOK(EraseOf(c)) /\ StepOK(HeaderOf(c))
  BY <1>3, Constants DEF StepOK, SweepOf, EraseOf, HeaderOf, Active, Writes, Late
<1>5. Follows(SweepOf(c, 0), EraseOf(c)) /\ Follows(EraseOf(c), HeaderOf(c)) /\ Closed(HeaderOf(c))
  BY DEF Follows, SweepOf, EraseOf, HeaderOf, Active, Writes, Closed, Open
<1>6. Part(t) /\ t # <<>> /\ Closed(t[Len(t)]) /\ t[1].op # "body"
      /\ \A i \in DOMAIN t : t[i].op # "default" /\ t[i].op # "move"
  <2>1. /\ Part(t) /\ t # <<>> /\ Len(t) = 3
        /\ t[1] = SweepOf(c, 0) /\ t[2] = EraseOf(c) /\ t[3] = HeaderOf(c)
        /\ DOMAIN t = {1, 2, 3}
    BY <1>4, <1>5, Three
  <2> HIDE DEF t
  <2> QED
    BY <1>5, <2>1 DEF SweepOf, EraseOf, HeaderOf
<1>7. \/ flash' = [flash EXCEPT ![c].dirty = "GC"] /\ Go(t)
      \/ UNCHANGED flash /\ Go(None)
  BY DEF Collect, None
<1>8. UNCHANGED <<ram, power, caller, restarts>>
  BY DEF Collect
<1>9. Typed(flash') /\ \A b \in Addr : At(b)' = At(b)
  <2>1. "GC" \in Dirts
    BY DEF Dirts
  <2>2. CASE flash' = [flash EXCEPT ![c].dirty = "GC"]
    BY <1>1, <1>3, <2>1, <2>2, SetDirtyFacts DEF TypeInv
  <2>3. CASE UNCHANGED flash
    BY <1>1, <2>3 DEF TypeInv, At, Typed
  <2> QED
    BY <1>7, <2>2, <2>3
<1> HIDE DEF t, c
<1>10. Link(t)
  BY <1>1, <1>2, <1>6, LateLink DEF Late
<1>11. Plan(todo') /\ MoveReady' /\ DefaultReady' /\ BodyReady'
  <2>1. CASE Go(t)
    BY <1>1, <1>2, <1>6, <1>10, <2>1, Onward DEF Basic
  <2>2. CASE Go(None)
    BY <1>1, <1>2, <2>2, NoStep, Onward DEF Basic
  <2> QED
    BY <1>7, <2>1, <2>2
<1> QED
  BY <1>1, <1>8, <1>9, <1>11 DEF Basic, TypeInv, WholeNamed, ram, caller

\* The first invariant holds behind check_and_recovery_gc_cb.
LEMMA ResumeKeeps == ASSUME Basic, ResumeGc PROVE Basic'
<1> DEFINE t == <<Gc>>
<1>1. HeadIs("resume") /\ Plan(todo) /\ TypeInv
  BY DEF ResumeGc, Basic, TypeInv
<1>2. /\ todo # <<>> /\ Head(todo).op = "resume"
  BY <1>1, HeadFacts
<1>3. StepOK(Gc) /\ Closed(Gc) /\ Gc.op = "gc"
  BY DEF StepOK, Gc, Active, Writes, Late, Closed, Open
<1>4. Part(t) /\ t # <<>> /\ Len(t) = 1 /\ t[1] = Gc /\ DOMAIN t = {1}
  BY <1>3, One
<1>5. Go(t) \/ Go(None)
  BY DEF ResumeGc, None
<1>6. gcRequest' \in BOOLEAN /\ UNCHANGED <<flash, lastDel, cache, recovering, power, caller, restarts>>
  BY <1>1 DEF ResumeGc, TypeInv
<1> HIDE DEF t
<1>7. Link(t)
  BY <1>1, <1>2, <1>3, <1>4, LateLink DEF Late
<1>8. Plan(todo') /\ MoveReady' /\ DefaultReady' /\ BodyReady'
  <2>1. CASE Go(t)
    BY <1>1, <1>2, <1>3, <1>4, <1>7, <2>1, Onward DEF Basic
  <2>2. CASE Go(None)
    BY <1>1, <1>2, <2>2, NoStep, Onward DEF Basic
  <2> QED
    BY <1>5, <2>1, <2>2
<1> QED
  BY <1>1, <1>6, <1>8 DEF Basic, TypeInv, WholeNamed, caller, At

\* The first invariant holds behind the end of the recovery.
LEMMA RecoveredKeeps == ASSUME Basic, Recovered PROVE Basic'
<1> DEFINE z == RecoverOf(<<1, 0>>)
           t == <<Gc, z>>
<1>1. HeadIs("recovered") /\ Plan(todo) /\ TypeInv
  BY DEF Recovered, Basic, TypeInv
<1>2. /\ todo # <<>> /\ Head(todo).op = "recovered"
  BY <1>1, HeadFacts
<1>3. StepOK(Gc) /\ StepOK(z) /\ Closed(z) /\ Follows(Gc, z) /\ Gc.op = "gc" /\ z.op = "recover"
  BY Constants DEF StepOK, Gc, RecoverOf, Active, Writes, Late, Closed, Open, Follows
<1> HIDE DEF z
<1>4. Part(t) /\ t # <<>> /\ Len(t) = 2 /\ t[1] = Gc /\ t[2] = z /\ DOMAIN t = {1, 2}
  BY <1>3, Two
<1>5. \/ Go(t) /\ UNCHANGED <<recovering, power>>
      \/ Go(None) /\ recovering' = FALSE /\ power' = "on"
  BY DEF Recovered, None, z
<1>6. UNCHANGED <<flash, gcRequest, lastDel, cache, caller, restarts>>
  BY DEF Recovered
<1> HIDE DEF t
<1>7. Link(t)
  BY <1>1, <1>2, <1>3, <1>4, LateLink DEF Late
<1>8. Plan(todo') /\ MoveReady' /\ DefaultReady' /\ BodyReady'
  <2>1. CASE Go(t)
    BY <1>1, <1>2, <1>3, <1>4, <1>7, <2>1, Onward DEF Basic
  <2>2. CASE Go(None)
    BY <1>1, <1>2, <2>2, NoStep, Onward DEF Basic
  <2> QED
    BY <1>5, <2>1, <2>2
<1> QED
  BY <1>1, <1>5, <1>6, <1>8 DEF Basic, TypeInv, WholeNamed, caller, At

\* The allocation for a put gives a place for the record.
LEMMA PutKeeps == ASSUME Basic, Put PROVE Basic'
<1> DEFINE k == Head(todo).key
           v == Head(todo).val
           r == Alloc(Size[v])
           full == BecomesFull(r.addr[1], Size[v])
<1>1. HeadIs("put") /\ Plan(todo) /\ TypeInv /\ WholeNamed
  BY DEF Put, Basic, TypeInv
<1>2. /\ todo # <<>> /\ Head(todo).op = "put" /\ StepOK(Head(todo))
  BY <1>1, HeadFacts
<1>3. k \in Key /\ v \in Value
  BY <1>2 DEF StepOK
<1>4. /\ r.gc \in BOOLEAN
      /\ r.addr # NoAddr => r.addr \in Addr /\ r.addr[2] + Size[v] <= SectorSize
  BY <1>1, <1>3, Constants, AllocFacts DEF TypeInv
<1>5. Find(k) \in Addr \cup {NoAddr} /\ FoundInCache(k) \in [Key -> Addr \cup {NoAddr}]
  BY <1>1, <1>3, FindFacts DEF TypeInv
<1>6. full \in BOOLEAN
  BY DEF BecomesFull
<1>7. gcRequest' = r.gc /\ UNCHANGED <<flash, lastDel, recovering, power, caller, restarts>>
  BY DEF Put
<1> HIDE DEF full
<1>8. CASE r.addr # NoAddr
  <2>1. /\ cache' = FoundInCache(k)
        /\ \E t : IsCat(t, Replace(Find(k), WriteSteps(r.addr, k, v, "set", full)), <<GcIfRequested, ReturnOf("ok")>>)
                  /\ Go(t)
    BY <1>8 DEF Put, IsCat, full
  <2>2. PICK t : IsCat(t, Replace(Find(k), WriteSteps(r.addr, k, v, "set", full)), <<GcIfRequested, ReturnOf("ok")>>)
                 /\ Go(t)
    BY <2>1
  <2> DEFINE n == IF Find(k) = NoAddr THEN 0 ELSE 1
             old == Find(k)
             a == r.addr
  <2>4. n \in {0, 1} /\ n = IF old = NoAddr THEN 0 ELSE 1
    OBVIOUS
  <2>10. IsCat(t, Replace(old, WriteSteps(a, k, v, "set", full)), <<GcIfRequested, ReturnOf("ok")>>)
    BY <2>2
  <2>11. a \in Addr /\ a[2] + Size[v] <= SectorSize /\ old \in Addr \cup {NoAddr}
    BY <1>4, <1>5, <1>8
  <2> HIDE DEF n, old, a, k, v, r
  <2>12. Replaces(t, n, a, k, v, full, old)
    BY <1>3, <1>6, <2>4, <2>10, <2>11, ReplacePart
  <2>3. /\ Part(t) /\ t # <<>> /\ n \in Nat /\ Ln(t) = 6 + 2 * n
        /\ t[n + 1].op = "use"
        /\ t[n + 2].op = "head"
        /\ t[n + 3].op = "body"
        /\ t[n + 4].op = "commit"
        /\ t[2 * n + 5].op = "gcif"
        /\ t[2 * n + 6].op = "return"
        /\ n = 1 => t[1].op = "mark" /\ t[6].op = "mark"
    BY <2>4, <2>12 DEF Replaces
  <2>5. Len(t) = 6 + 2 * n /\ DOMAIN t = 1..Len(t)
    BY <2>3, SeqFacts DEF Ln, Part
  <2>6. t[1].op # "body" /\ Closed(t[Len(t)])
    <3>1. CASE n = 0
      BY <2>3, <2>5, <3>1 DEF Closed, Open
    <3>2. CASE n = 1
      BY <2>3, <2>5, <3>2 DEF Closed, Open
    <3> QED
      BY <2>4, <3>1, <3>2
  <2>7. \A i \in DOMAIN t : t[i].op # "default" /\ t[i].op # "move"
    <3>1. CASE n = 0
      <4>1. DOMAIN t = 1..6 /\ t[1].op = "use" /\ t[2].op = "head" /\ t[3].op = "body" /\ t[4].op = "commit"
            /\ t[5].op = "gcif" /\ t[6].op = "return"
        BY <2>3, <2>5, <3>1
      <4>2. \A i \in 1..6 : i \in {1, 2, 3, 4, 5, 6}
        OBVIOUS
      <4> QED
        BY <4>1, <4>2
    <3>2. CASE n = 1
      <4>1. DOMAIN t = 1..8 /\ t[1].op = "mark" /\ t[2].op = "use" /\ t[3].op = "head" /\ t[4].op = "body"
            /\ t[5].op = "commit" /\ t[6].op = "mark" /\ t[7].op = "gcif" /\ t[8].op = "return"
        BY <2>3, <2>5, <3>2
      <4>2. \A i \in 1..8 : i \in {1, 2, 3, 4, 5, 6, 7, 8}
        OBVIOUS
      <4> QED
        BY <4>1, <4>2
    <3> QED
      BY <2>4, <3>1, <3>2
  <2>8. Link(t)
    BY <1>1, <1>2, <2>3, <2>6, LateLink DEF Late
  <2>9. Plan(todo') /\ MoveReady' /\ DefaultReady' /\ BodyReady'
    BY <1>1, <1>2, <2>2, <2>3, <2>6, <2>7, <2>8, Onward DEF Basic
  <2> QED
    BY <1>1, <1>4, <1>5, <1>7, <2>1, <2>9 DEF Basic, TypeInv, WholeNamed, caller, At
<1>9. CASE r.addr = NoAddr
  <2> DEFINE g == Gc
             p == PutOf(k, v, TRUE)
             q == ReturnOf("full")
             x == <<g, p>>
             y == <<q>>
  <2>1. /\ StepOK(g) /\ StepOK(p) /\ StepOK(q) /\ Follows(g, p) /\ Closed(p) /\ Closed(q)
        /\ g.op = "gc" /\ p.op = "put" /\ q.op = "return"
    BY <1>3 DEF StepOK, Gc, PutOf, ReturnOf, Follows, Closed, Open, Active, Writes, Late
  <2>4. \E t : t \in {x, y} /\ Go(t)
    BY <1>9 DEF Put
  <2> HIDE DEF g, p, q
  <2>2. /\ Part(x) /\ x # <<>> /\ Len(x) = 2 /\ x[1] = g /\ x[2] = p /\ DOMAIN x = {1, 2}
    BY <2>1, Two
  <2>3. /\ Part(y) /\ y # <<>> /\ Len(y) = 1 /\ y[1] = q /\ DOMAIN y = {1}
    BY <2>1, One
  <2>5. UNCHANGED cache
    BY <1>9 DEF Put
  <2> HIDE DEF x, y
  <2>6. PICK t : t \in {x, y} /\ Go(t)
    BY <2>4
  <2>7. /\ Part(t) /\ t # <<>> /\ Closed(t[Len(t)]) /\ t[1].op # "body"
        /\ \A i \in DOMAIN t : t[i].op # "default" /\ t[i].op # "move"
    BY <2>1, <2>2, <2>3, <2>6
  <2>8. Link(t)
    BY <1>1, <1>2, <2>7, LateLink DEF Late
  <2>9. Plan(todo') /\ MoveReady' /\ DefaultReady' /\ BodyReady'
    BY <1>1, <1>2, <2>6, <2>7, <2>8, Onward DEF Basic
  <2> QED
    BY <1>1, <1>4, <1>7, <2>5, <2>9 DEF Basic, TypeInv, WholeNamed, caller, At
<1> QED
  BY <1>8, <1>9

\* One step and one.
LEMMA Pair ==
  ASSUME NEW a, NEW b
  PROVE  <<a>> \o <<b>> = <<a, b>>
<1> DEFINE S == {a, b}
           s == <<a>>
           t == <<b>>
           u == <<a, b>>
<1>1. s \in Seq(S) /\ t \in Seq(S) /\ u \in Seq(S) /\ Len(s) = 1 /\ Len(t) = 1 /\ Len(u) = 2
      /\ s[1] = a /\ t[1] = b /\ u[1] = a /\ u[2] = b
  OBVIOUS
<1> HIDE DEF S, s, t, u
<1>2. s \o t \in Seq(S) /\ Len(s \o t) = Len(s) + Len(t)
      /\ \A i \in 1..(Len(s) + Len(t)) : (s \o t)[i] = IF i <= Len(s) THEN s[i] ELSE t[i - Len(s)]
  BY <1>1, ConcatProperties
<1>3. \A i \in 1..2 : i = 1 \/ i = 2
  OBVIOUS
<1> DEFINE w == s \o t
<1> HIDE DEF w
<1>4. Len(w) = 2 /\ w[1] = a /\ w[2] = b /\ w \in Seq(S)
  BY <1>1, <1>2 DEF w
<1>5. w = u
  BY <1>1, <1>3, <1>4, SeqEqual
<1> QED
  BY <1>5 DEF w, s, t, u

\* Two steps and one.
LEMMA Triple ==
  ASSUME NEW a, NEW b, NEW c
  PROVE  <<a, b>> \o <<c>> = <<a, b, c>>
<1> DEFINE S == {a, b, c}
           s == <<a, b>>
           t == <<c>>
           u == <<a, b, c>>
<1>1. s \in Seq(S) /\ t \in Seq(S) /\ u \in Seq(S) /\ Len(s) = 2 /\ Len(t) = 1 /\ Len(u) = 3
      /\ s[1] = a /\ s[2] = b /\ t[1] = c /\ u[1] = a /\ u[2] = b /\ u[3] = c
  OBVIOUS
<1> HIDE DEF S, s, t, u
<1>2. s \o t \in Seq(S) /\ Len(s \o t) = Len(s) + Len(t)
      /\ \A i \in 1..(Len(s) + Len(t)) : (s \o t)[i] = IF i <= Len(s) THEN s[i] ELSE t[i - Len(s)]
  BY <1>1, ConcatProperties
<1>3. \A i \in 1..3 : i = 1 \/ i = 2 \/ i = 3
  OBVIOUS
<1> DEFINE w == s \o t
<1> HIDE DEF w
<1>4. Len(w) = 3 /\ w[1] = a /\ w[2] = b /\ w[3] = c /\ w \in Seq(S)
  BY <1>1, <1>2 DEF w
<1>5. w = u
  BY <1>1, <1>3, <1>4, SeqEqual
<1> QED
  BY <1>5 DEF w, s, t, u

\* Nothing in front of a list, or behind it.
LEMMA Nothing ==
  ASSUME NEW t, IsSeq(t)
  PROVE  <<>> \o t = t /\ t \o <<>> = t
BY ConcatEmptySeq DEF IsSeq

\* What a move does.
LEMMA MoveCases ==
  ASSUME Basic, Move, NEW a, a = Head(todo).addr
  PROVE  /\ HeadIs("move") /\ a \in Addr /\ At(a).whole /\ At(a).key \in Key
         /\ gcRequest' \in BOOLEAN /\ UNCHANGED <<flash, lastDel, cache, recovering, power, caller, restarts>>
         /\ Len(todo) > 1 /\ Follows(todo[1], todo[2]) /\ StepOK(todo[2])
         /\ \A z : z.op = "mark" /\ z.st = "DELETED" => Follows(z, todo[2])
         /\ \/ Go(None) /\ Head(todo).by = "gc" /\ Alloc(Length(At(a))).addr = NoAddr
            \/ todo' = <<RecoverEnd>> /\ Head(todo).by = "start"
            \/ /\ recovering /\ Live(At(a).key) # {}
               /\ \E x : /\ Part(x) /\ x # <<>> /\ Len(x) = 1 /\ DOMAIN x = {1} /\ Go(x)
                         /\ x[1].op = "mark" /\ x[1].st = "DELETED" /\ x[1].addr = a
            \/ \E p, w : /\ p \in Addr /\ At(p) = Blank /\ flash[p[1]].store \in {"EMPTY", "USING"}
                         /\ MoveSteps(w, p, At(a).key, At(a).val, a) /\ Len(w) = 5 /\ DOMAIN w = 1..5 /\ Go(w)
                         /\ \E known \in Known(At(a).key) : ~(recovering /\ known)
<1> DEFINE rec == At(a)
           r == Alloc(Length(rec))
           d == MarkOf(a, "DELETED")
           x == <<d>>
<1>1. HeadIs("move") /\ Plan(todo) /\ TypeInv /\ WholeNamed
  BY DEF Move, Basic, TypeInv
<1>2. /\ todo # <<>> /\ Head(todo).op = "move" /\ StepOK(Head(todo)) /\ IsSeq(todo)
      /\ Len(todo) \in Nat /\ Len(todo) >= 1 /\ DOMAIN todo = 1..Len(todo) /\ Head(todo) = todo[1]
  BY <1>1, HeadFacts
<1>3. a \in Addr /\ Head(todo).by \in {"gc", "start"}
  BY <1>2 DEF StepOK
<1>4. rec \in Record /\ rec.key \in Key /\ rec.val \in Value /\ rec.whole
  <2>1. 1 \in DOMAIN todo
    BY <1>2
  <2>2. At(a).whole
    BY <1>2, <2>1 DEF Basic, MoveReady
  <2> QED
    BY <1>1, <1>3, <2>2, Parts DEF TypeInv, WholeNamed
<1>5. Length(rec) = Size[rec.val] /\ Size[rec.val] \in Nat /\ 1 <= Size[rec.val]
  BY <1>4, Constants DEF Length
<1>6. /\ r.gc \in BOOLEAN
      /\ r.addr # NoAddr => /\ r.addr \in Addr /\ r.addr[2] + Size[rec.val] <= SectorSize
                            /\ At(r.addr) = Blank /\ flash[r.addr[1]].store \in {"EMPTY", "USING"}
  BY <1>1, <1>5, AllocFacts DEF TypeInv
<1>7. gcRequest' = r.gc /\ UNCHANGED <<flash, lastDel, cache, recovering, power, caller, restarts>>
  BY DEF Move
<1>8. StepOK(d) /\ d.op = "mark" /\ d.st = "DELETED" /\ d.addr = a
  BY <1>3 DEF StepOK, MarkOf, Active, Writes
<1>9. \/ Go(None) /\ Head(todo).by = "gc" /\ r.addr = NoAddr
      \/ todo' = <<RecoverEnd>> /\ Head(todo).by = "start"
      \/ Go(x) /\ recovering /\ \E known \in Known(rec.key) : known
      \/ /\ r.addr # NoAddr /\ \E w : IsCat(w, WriteSteps(r.addr, rec.key, rec.val, "move", FALSE), <<d>>) /\ Go(w)
         /\ \E known \in Known(rec.key) : ~(recovering /\ known)
  BY <1>3 DEF Move, IsCat, None
<1>10. /\ Len(todo) > 1
       /\ todo[2].op = "sweep" \/ todo[2].op = "erase" \/ todo[2].op = "recover"
  BY <1>1, <1>2, <1>3, Front DEF Follows, Closed, Open
<1>11. Follows(todo[1], todo[2]) /\ StepOK(todo[2])
  BY <1>1, <1>2, <1>10, Front
<1>12. \A z : z.op = "mark" /\ z.st = "DELETED" => Follows(z, todo[2])
  BY <1>10 DEF Follows, Active, Writes
<1> HIDE DEF d, r, rec
<1>13. Part(x) /\ x # <<>> /\ Len(x) = 1 /\ x[1] = d /\ DOMAIN x = {1}
  BY <1>8, One
<1> HIDE DEF x
<1>14. ASSUME NEW w, IsCat(w, WriteSteps(r.addr, rec.key, rec.val, "move", FALSE), <<d>>), Go(w), r.addr # NoAddr
       PROVE  MoveSteps(w, r.addr, rec.key, rec.val, a) /\ Len(w) = 5 /\ DOMAIN w = 1..5
  <2> DEFINE p == r.addr
             k == rec.key
             v == rec.val
  <2>1. IsCat(w, WriteSteps(p, k, v, "move", FALSE), <<MarkOf(a, "DELETED")>>)
    BY <1>14 DEF d
  <2>2. p \in Addr /\ k \in Key /\ v \in Value /\ p[2] + Size[v] <= SectorSize
    BY <1>4, <1>6, <1>14
  <2> HIDE DEF p, k, v
  <2>3. MoveSteps(w, p, k, v, a)
    BY <1>3, <2>1, <2>2, MovePart
  <2>4. Len(w) = 5 /\ DOMAIN w = 1..5
    BY <2>3, SeqFacts DEF MoveSteps, Ln, Part
  <2> QED
    BY <2>3, <2>4 DEF p, k, v
<1>15. At(a).whole /\ At(a).key \in Key
  BY <1>4 DEF rec
<1>16. ASSUME Go(x), recovering
       PROVE  \E y : /\ Part(y) /\ y # <<>> /\ Len(y) = 1 /\ DOMAIN y = {1} /\ Go(y)
                     /\ y[1].op = "mark" /\ y[1].st = "DELETED" /\ y[1].addr = a
  BY <1>8, <1>13, <1>16
<1>17. ASSUME NEW w, IsCat(w, WriteSteps(r.addr, rec.key, rec.val, "move", FALSE), <<d>>), Go(w), r.addr # NoAddr,
              \E known \in Known(rec.key) : ~(recovering /\ known)
       PROVE  \E p, y : /\ p \in Addr /\ At(p) = Blank /\ flash[p[1]].store \in {"EMPTY", "USING"}
                        /\ MoveSteps(y, p, At(a).key, At(a).val, a) /\ Len(y) = 5 /\ DOMAIN y = 1..5 /\ Go(y)
                        /\ \E known \in Known(At(a).key) : ~(recovering /\ known)
  <2>1. MoveSteps(w, r.addr, rec.key, rec.val, a) /\ Len(w) = 5 /\ DOMAIN w = 1..5
    BY <1>14, <1>17
  <2> QED
    BY <1>6, <1>17, <2>1 DEF rec
<1>18. gcRequest' \in BOOLEAN
  BY <1>6, <1>7
<1>19. \/ Go(None) /\ Head(todo).by = "gc" /\ Alloc(Length(At(a))).addr = NoAddr
       \/ todo' = <<RecoverEnd>> /\ Head(todo).by = "start"
       \/ /\ recovering /\ Live(At(a).key) # {}
          /\ \E y : /\ Part(y) /\ y # <<>> /\ Len(y) = 1 /\ DOMAIN y = {1} /\ Go(y)
                    /\ y[1].op = "mark" /\ y[1].st = "DELETED" /\ y[1].addr = a
       \/ \E p, w : /\ p \in Addr /\ At(p) = Blank /\ flash[p[1]].store \in {"EMPTY", "USING"}
                    /\ MoveSteps(w, p, At(a).key, At(a).val, a) /\ Len(w) = 5 /\ DOMAIN w = 1..5 /\ Go(w)
                    /\ \E known \in Known(At(a).key) : ~(recovering /\ known)
  <2>1. CASE Go(x) /\ recovering /\ \E known \in Known(rec.key) : known
    <3>1. Live(rec.key) # {}
      BY <2>1 DEF Known
    <3> QED
      BY <1>16, <2>1, <3>1 DEF rec
  <2>2. CASE /\ r.addr # NoAddr /\ \E w : IsCat(w, WriteSteps(r.addr, rec.key, rec.val, "move", FALSE), <<d>>) /\ Go(w)
             /\ \E known \in Known(rec.key) : ~(recovering /\ known)
    BY <1>17, <2>2
  <2>3. CASE Go(None) /\ Head(todo).by = "gc" /\ r.addr = NoAddr
    BY <2>3 DEF r, rec
  <2> QED
    BY <1>9, <2>1, <2>2, <2>3
<1> QED
  BY <1>1, <1>3, <1>7, <1>10, <1>11, <1>12, <1>15, <1>18, <1>19

\* The first invariant holds behind move_env.
LEMMA MoveKeeps == ASSUME Basic, Move PROVE Basic'
<1> DEFINE e == RecoverEnd
           y == <<e>>
<1>1. HeadIs("move") /\ Plan(todo) /\ TypeInv /\ WholeNamed
  BY DEF Move, Basic, TypeInv
<1>2. todo # <<>> /\ Head(todo).op = "move"
  BY <1>1, HeadFacts
<1>3. PICK a : a = Head(todo).addr
  OBVIOUS
<1>4. /\ gcRequest' \in BOOLEAN /\ UNCHANGED <<flash, lastDel, cache, recovering, power, caller, restarts>>
      /\ Len(todo) > 1 /\ \A z : z.op = "mark" /\ z.st = "DELETED" => Follows(z, todo[2])
  BY <1>3, MoveCases
<1>5. StepOK(e) /\ Closed(e) /\ e.op = "recovered"
  BY DEF StepOK, RecoverEnd, Active, Writes, Late, Closed, Open
<1> HIDE DEF e
<1>6. Part(y) /\ y # <<>> /\ Len(y) = 1 /\ y[1] = e /\ DOMAIN y = {1}
  BY <1>5, One
<1> HIDE DEF y
<1>7. ASSUME todo' = y PROVE Plan(todo') /\ MoveReady' /\ DefaultReady' /\ BodyReady'
  <2>1. Plan(todo')
    BY <1>5, <1>6, <1>7 DEF Plan
  <2>2. MoveReady' /\ DefaultReady'
    BY <1>5, <1>6, <1>7 DEF MoveReady, DefaultReady
  <2>3. BodyReady'
    <3>1. IsSeq(todo')
      BY <2>1 DEF Plan, Part
    <3>2. Head(todo') = todo'[1]
      BY <1>6, <1>7, <3>1, SeqFacts
    <3> QED
      BY <1>5, <1>6, <1>7, <3>2 DEF BodyReady, HeadIs
  <2> QED
    BY <2>1, <2>2, <2>3
<1>8. ASSUME Go(None) PROVE Plan(todo') /\ MoveReady' /\ DefaultReady' /\ BodyReady'
  BY <1>1, <1>2, <1>8, NoStep, Onward DEF Basic
<1>9. ASSUME NEW x, Part(x), x # <<>>, Len(x) = 1, DOMAIN x = {1}, Go(x), x[1].op = "mark", x[1].st = "DELETED"
      PROVE  Plan(todo') /\ MoveReady' /\ DefaultReady' /\ BodyReady'
  <2>1. Link(x)
    BY <1>4, <1>9 DEF Link
  <2> QED
    BY <1>1, <1>2, <1>9, <2>1, Onward DEF Basic
<1>10. ASSUME NEW w, NEW p, NEW k, NEW v, MoveSteps(w, p, k, v, a), Len(w) = 5, DOMAIN w = 1..5, Go(w)
       PROVE  Plan(todo') /\ MoveReady' /\ DefaultReady' /\ BodyReady'
  <2>1. Link(w)
    BY <1>4, <1>10 DEF Link, MoveSteps
  <2>2. \A i \in DOMAIN w : w[i].op # "default" /\ w[i].op # "move"
    <3>1. \A i \in 1..5 : i \in {1, 2, 3, 4, 5}
      OBVIOUS
    <3> QED
      BY <1>10, <3>1 DEF MoveSteps
  <2>3. w[1].op # "body" /\ Part(w) /\ w # <<>>
    BY <1>10 DEF MoveSteps
  <2> QED
    BY <1>1, <1>2, <1>10, <2>1, <2>2, <2>3, Onward DEF Basic
<1>11. \/ Go(None)
       \/ todo' = y
       \/ \E x : /\ Part(x) /\ x # <<>> /\ Len(x) = 1 /\ DOMAIN x = {1} /\ Go(x)
                 /\ x[1].op = "mark" /\ x[1].st = "DELETED"
       \/ \E p, w : MoveSteps(w, p, At(a).key, At(a).val, a) /\ Len(w) = 5 /\ DOMAIN w = 1..5 /\ Go(w)
  <2>1. \/ Go(None)
        \/ todo' = <<RecoverEnd>>
        \/ \E x : /\ Part(x) /\ x # <<>> /\ Len(x) = 1 /\ DOMAIN x = {1} /\ Go(x)
                  /\ x[1].op = "mark" /\ x[1].st = "DELETED"
        \/ \E p, w : MoveSteps(w, p, At(a).key, At(a).val, a) /\ Len(w) = 5 /\ DOMAIN w = 1..5 /\ Go(w)
    BY <1>3, MoveCases
  <2> QED
    BY <2>1 DEF y, e
<1>12. Plan(todo') /\ MoveReady' /\ DefaultReady' /\ BodyReady'
  <2>1. CASE \E p, w : MoveSteps(w, p, At(a).key, At(a).val, a) /\ Len(w) = 5 /\ DOMAIN w = 1..5 /\ Go(w)
    BY <1>10, <2>1
  <2>2. CASE \E x : /\ Part(x) /\ x # <<>> /\ Len(x) = 1 /\ DOMAIN x = {1} /\ Go(x)
                 /\ x[1].op = "mark" /\ x[1].st = "DELETED"
    BY <1>9, <2>2
  <2> QED
    BY <1>7, <1>8, <1>11, <2>1, <2>2
<1> QED
  BY <1>1, <1>4, <1>12 DEF Basic, TypeInv, WholeNamed, caller, At

\* The steps that copy the record at an address, and go on with the sweep.
Copies(t, a) ==
  /\ Part(t) /\ t # <<>> /\ DOMAIN t = 1..Len(t)
  /\ At(a).whole
  /\ \/ /\ At(a).st = "WRITE" /\ 2 \in DOMAIN t /\ t[2].op = "move"
        /\ t[1].op = "mark" /\ t[1].st = "PRE_DELETE" /\ t[1].addr = a
     \/ At(a).st = "PRE_DELETE" /\ t[1].op = "move"
  /\ \A i \in DOMAIN t :
       \/ t[i].op = "mark" /\ i = 1 /\ t[i].addr = a
       \/ t[i].op = "move" /\ t[i].addr = a /\ t[i].by = "gc"
       \/ t[i].op = "sweep" /\ t[i].sec = a[1] /\ t[i].off = a[2] + 1

\* What the loop of do_gc does next: it copies a record, or ends.
LEMMA SweepSteps ==
  ASSUME TypeInv, Sweep
  PROVE  /\ HeadIs("sweep") /\ Head(todo).sec \in Sector /\ Head(todo).off \in Offset
         /\ Len(todo) > 1 /\ todo[2].op = "erase" /\ todo[2].sec = Head(todo).sec
         /\ UNCHANGED <<flash, ram, power, caller, restarts>>
         /\ \/ Go(None)
            \/ \E t, a : /\ a \in Addr /\ a[1] = Head(todo).sec /\ a[2] >= Head(todo).off
                         /\ Copies(t, a) /\ Go(t) /\ Follows(t[Len(t)], todo[2])
<1> DEFINE s == Head(todo).sec
           o == Head(todo).off
           M == Movable(s, o)
           x == Least(M)
           a == <<s, x>>
           m == MarkOf(a, "PRE_DELETE")
           v == MoveOf(a, "gc")
           w == SweepOf(s, x + 1)
<1>1. HeadIs("sweep") /\ Plan(todo)
  BY DEF Sweep, TypeInv
<1>2. /\ todo # <<>> /\ Head(todo).op = "sweep" /\ StepOK(Head(todo)) /\ IsSeq(todo)
      /\ Len(todo) \in Nat /\ Len(todo) >= 1 /\ DOMAIN todo = 1..Len(todo) /\ Head(todo) = todo[1]
  BY <1>1, HeadFacts
<1>3. s \in Sector /\ o \in Offset
  BY <1>2 DEF StepOK
<1>4. Len(todo) > 1 /\ todo[2].op = "erase" /\ todo[2].sec = s
  BY <1>1, <1>2, Front DEF Follows, Closed, Open
<1>5. UNCHANGED <<flash, ram, power, caller, restarts>>
  BY DEF Sweep
<1>6. CASE M = {}
  <2>1. Go(None)
    BY <1>6 DEF Sweep, None
  <2> QED
    BY <1>1, <1>3, <1>4, <1>5, <2>1
<1>7. CASE M # {}
  <2>1. x \in M
    BY <1>7, Constants, LeastOf DEF Movable
  <2>2. /\ x \in Offset /\ x >= o /\ a \in Addr /\ At(a).whole /\ a[1] = s /\ a[2] = x
        /\ At(a).st \in {"WRITE", "PRE_DELETE"} /\ At(a).st = flash[s].recs[x].st
    BY <1>3, <2>1, Addresses DEF Movable, At
  <2> HIDE DEF M
  <2>3. /\ StepOK(m) /\ StepOK(v) /\ (x + 1 \in Offset => StepOK(w)) /\ Follows(m, v) /\ Follows(v, w)
        /\ m.op = "mark" /\ m.st = "PRE_DELETE" /\ m.addr = a /\ v.op = "move" /\ v.addr = a /\ v.by = "gc"
        /\ w.op = "sweep" /\ w.sec = s /\ w.off = x + 1
    BY <1>3, <2>2 DEF StepOK, MarkOf, MoveOf, SweepOf, Active, Writes, Late, Follows
  <2>4. /\ Follows(w, todo[2])
        /\ Follows(v, todo[2])
    BY <1>4, <2>2, <2>3 DEF Follows, Active, Writes
  <2>5. Go((IF flash[s].recs[x].st = "WRITE" THEN <<m>> ELSE <<>>) \o <<v>>
              \o (IF x + 1 \in Offset THEN <<w>> ELSE <<>>))
    BY <1>7 DEF Sweep, M
  <2> DEFINE t1 == <<m, v>>
             t2 == <<v>>
             t3 == <<m, v, w>>
             t4 == <<v, w>>
  <2> HIDE DEF m, v, w
  <2>6. Part(t1) /\ t1 # <<>> /\ Len(t1) = 2 /\ t1[1] = m /\ t1[2] = v /\ DOMAIN t1 = {1, 2}
    BY <2>3, Two
  <2>7. Part(t2) /\ t2 # <<>> /\ Len(t2) = 1 /\ t2[1] = v /\ DOMAIN t2 = {1}
    BY <2>3, One
  <2>8. ASSUME x + 1 \in Offset
        PROVE  /\ Part(t4) /\ t4 # <<>> /\ Len(t4) = 2 /\ t4[1] = v /\ t4[2] = w /\ DOMAIN t4 = {1, 2}
               /\ Part(t3) /\ t3 # <<>> /\ Len(t3) = 3 /\ t3[1] = m /\ t3[2] = v /\ t3[3] = w
               /\ DOMAIN t3 = {1, 2, 3}
    BY <2>3, <2>8, Two, Three
  <2>9. CASE flash[s].recs[x].st = "WRITE"
    <3>1. \/ Go(t1)
          \/ Go(t3) /\ x + 1 \in Offset
      <4>1. Go(t1 \o (IF x + 1 \in Offset THEN <<w>> ELSE <<>>))
        BY <2>5, <2>9, Pair
      <4>2. x + 1 \in Offset => Go(t3)
        BY <4>1, Triple
      <4>3. x + 1 \notin Offset => Go(t1)
        BY <2>6, <4>1, Nothing DEF Part
      <4> QED
        BY <4>2, <4>3
    <3> HIDE DEF t1, t2, t3, t4, a, x
    <3>2. ASSUME Go(t1) PROVE Copies(t1, a) /\ Follows(t1[Len(t1)], todo[2])
      <4>1. DOMAIN t1 = 1..Len(t1)
        BY <2>6
      <4> QED
        BY <2>2, <2>3, <2>4, <2>6, <2>9, <4>1 DEF Copies
    <3>3. ASSUME Go(t3), x + 1 \in Offset PROVE Copies(t3, a) /\ Follows(t3[Len(t3)], todo[2])
      <4>1. DOMAIN t3 = 1..Len(t3)
        <5>1. DOMAIN t3 = {1, 2, 3} /\ Len(t3) = 3
          BY <2>8, <3>3
        <5> QED
          BY <5>1
      <4>2. /\ Part(t3) /\ t3 # <<>> /\ Len(t3) = 3 /\ t3[1] = m /\ t3[2] = v /\ t3[3] = w
            /\ DOMAIN t3 = {1, 2, 3}
        BY <2>8, <3>3
      <4>3. Follows(t3[Len(t3)], todo[2])
        BY <2>4, <4>2
      <4>4. Copies(t3, a)
        BY <2>2, <2>3, <2>9, <4>1, <4>2 DEF Copies
      <4> QED
        BY <4>3, <4>4
    <3> QED
      BY <1>1, <1>3, <1>4, <1>5, <2>2, <3>1, <3>2, <3>3
  <2>10. CASE flash[s].recs[x].st # "WRITE"
    <3>1. \/ Go(t2)
          \/ Go(t4) /\ x + 1 \in Offset
      <4>1. Go(t2 \o (IF x + 1 \in Offset THEN <<w>> ELSE <<>>))
        BY <2>5, <2>7, <2>10, Nothing DEF Part
      <4>2. x + 1 \in Offset => Go(t4)
        BY <4>1, Pair
      <4>3. x + 1 \notin Offset => Go(t2)
        BY <2>7, <4>1, Nothing DEF Part
      <4> QED
        BY <4>2, <4>3
    <3> HIDE DEF t1, t2, t3, t4, a, x
    <3>2. ASSUME Go(t2) PROVE Copies(t2, a) /\ Follows(t2[Len(t2)], todo[2])
      <4>1. DOMAIN t2 = 1..Len(t2)
        BY <2>7
      <4> QED
        BY <2>2, <2>3, <2>4, <2>7, <2>10, <4>1 DEF Copies
    <3>3. ASSUME Go(t4), x + 1 \in Offset PROVE Copies(t4, a) /\ Follows(t4[Len(t4)], todo[2])
      <4>1. DOMAIN t4 = 1..Len(t4)
        <5>1. DOMAIN t4 = {1, 2} /\ Len(t4) = 2
          BY <2>8, <3>3
        <5> QED
          BY <5>1
      <4>2. Part(t4) /\ t4 # <<>> /\ Len(t4) = 2 /\ t4[1] = v /\ t4[2] = w /\ DOMAIN t4 = {1, 2}
        BY <2>8, <3>3
      <4>3. Follows(t4[Len(t4)], todo[2])
        BY <2>4, <4>2
      <4>4. Copies(t4, a)
        BY <2>2, <2>3, <2>10, <4>1, <4>2 DEF Copies
      <4> QED
        BY <4>3, <4>4
    <3> QED
      BY <1>1, <1>3, <1>4, <1>5, <2>2, <3>1, <3>2, <3>3
  <2> QED
    BY <2>9, <2>10
<1> QED
  BY <1>6, <1>7

\* A record to be copied is named before it is.
LEMMA SweepKeeps == ASSUME Basic, Sweep PROVE Basic'
<1>1. HeadIs("sweep") /\ Plan(todo) /\ TypeInv /\ WholeNamed
  BY DEF Sweep, Basic, TypeInv
<1>2. todo # <<>> /\ Head(todo).op = "sweep"
  BY <1>1, HeadFacts
<1>3. UNCHANGED <<flash, ram, power, caller, restarts>> /\ Len(todo) > 1
  BY <1>1, SweepSteps
<1>4. ASSUME Go(None) PROVE Plan(todo') /\ MoveReady' /\ DefaultReady' /\ BodyReady'
  BY <1>1, <1>2, <1>4, NoStep, Onward DEF Basic
<1>5. ASSUME NEW t, NEW a \in Addr, Copies(t, a), Go(t), Follows(t[Len(t)], todo[2])
      PROVE  Plan(todo') /\ MoveReady' /\ DefaultReady' /\ BodyReady'
  <2>1. Part(t) /\ t # <<>> /\ t[1].op # "body" /\ At(a).whole
    BY <1>5 DEF Copies
  <2>2. \A i \in DOMAIN t : t[i].op # "default" /\ (t[i].op = "move" => (At(t[i].addr).whole)')
    <3>1. SUFFICES ASSUME NEW i \in DOMAIN t, t[i].op = "move"
                   PROVE  (At(t[i].addr).whole)'
      BY <1>5 DEF Copies
    <3>2. t[i].addr = a
      BY <1>5, <3>1 DEF Copies
    <3>3. At(a)'.whole
      BY <1>3, <2>1 DEF At
    <3> QED
      BY <3>2, <3>3 DEF At
  <2>3. Link(t)
    BY <1>3, <1>5 DEF Link
  <2> QED
    BY <1>1, <1>2, <1>5, <2>1, <2>2, <2>3, Onward DEF Basic
<1>6. Plan(todo') /\ MoveReady' /\ DefaultReady' /\ BodyReady'
  BY <1>1, <1>4, <1>5, SweepSteps
<1> QED
  BY <1>1, <1>3, <1>6 DEF Basic, TypeInv, WholeNamed, ram, caller, At

\* What the recovery stops at is a record that was not finished.
LEMMA UnfinishedFacts ==
  ASSUME NEW from, NEW U, U = Unfinished(from), U # {}
  PROVE  /\ First(U) \in Addr
         /\ At(First(U)).st = "PRE_DELETE" => At(First(U)).whole
         /\ At(First(U)).st \in {"PRE_DELETE", "PRE_WRITE"}
<1>1. U \in SUBSET (Nat \X Nat) /\ U \subseteq Addr
  BY Constants DEF Unfinished, Visited, Addr
<1>2. First(U) \in U
  BY <1>1, FirstOf
<1> QED
  BY <1>1, <1>2 DEF Unfinished

\* What the recovery does next: it moves a record, and goes on; or ends, at a
\* record that was not written to its end or behind the last one.
LEMMA RecoverCases ==
  ASSUME Basic, Recover
  PROVE  /\ HeadIs("recover") /\ UNCHANGED <<ram, power, caller, restarts>>
         /\ \E t : /\ Part(t) /\ t # <<>> /\ Go(t) /\ Closed(t[Len(t)])
                   /\ \A i \in DOMAIN t :
                        \/ t[i].op \in {"recover", "recovered"} /\ i = Len(t)
                        \/ t[i].op = "move" /\ t[i].by = "start" /\ At(t[i].addr).whole /\ At(t[i].addr).st = "PRE_DELETE"
                   /\ \/ UNCHANGED flash
                      \/ /\ \A i \in DOMAIN t : t[i].op # "move"
                         /\ \E a \in Addr : /\ At(a).st = "PRE_WRITE"
                                            /\ SetRec(a, [At(a) EXCEPT !.st = "ERR_HDR"])
<1> DEFINE U == Unfinished(Head(todo).addr)
           a == First(U)
           z == [At(a) EXCEPT !.st = "ERR_HDR"]
           m == MoveOf(a, "start")
           n == RecoverOf(Next1(a))
           e == RecoverEnd
           x == <<m, n>>
           y == <<e>>
<1>3. /\ StepOK(e) /\ Closed(e) /\ e.op = "recovered"
  BY DEF StepOK, RecoverEnd, Active, Writes, Late, Closed, Open
<1>4. \/ Go(y) /\ UNCHANGED flash
      \/ U # {} /\ At(a).st = "PRE_DELETE" /\ Go(x) /\ UNCHANGED flash
      \/ U # {} /\ At(a).st # "PRE_DELETE" /\ SetRec(a, z) /\ Go(y)
  BY DEF Recover
<1>5. HeadIs("recover") /\ UNCHANGED <<ram, power, caller, restarts>>
  BY DEF Recover
<1>6. U # {} => /\ a \in Addr /\ (At(a).st = "PRE_DELETE" => At(a).whole)
                /\ At(a).st # "PRE_DELETE" => At(a).st = "PRE_WRITE"
  BY UnfinishedFacts
<1>7. U # {} => StepOK(m) /\ m.op = "move" /\ m.by = "start" /\ m.addr = a
  BY <1>6 DEF StepOK, MoveOf, Active, Writes, Late
<1>8. U # {} => StepOK(n) /\ n.op = "recover" /\ Closed(n)
  <2>1. SUFFICES ASSUME U # {} PROVE StepOK(n) /\ n.op = "recover" /\ Closed(n)
    OBVIOUS
  <2>2. a[1] \in Sector /\ a[2] \in Offset
    BY <1>6, <2>1, Addresses
  <2> DEFINE p == a[1]
             q == a[2]
  <2>3. Next1(a) = IF q + 1 \in Offset THEN <<p, q + 1>> ELSE <<p + 1, 0>>
    BY DEF Next1
  <2> HIDE DEF a, p, q
  <2>4. Next1(a) \in (1..(SectorNum + 1)) \X Offset
    <3>1. p \in 1..(SectorNum + 1) /\ p + 1 \in 1..(SectorNum + 1) /\ 0 \in Offset
      BY <2>2, Constants DEF p
    <3> QED
      BY <2>3, <3>1
  <2> QED
    BY <2>4 DEF StepOK, RecoverOf, Active, Writes, Late, Closed, Open
<1>9. m.op = "move" /\ n.op = "recover" => Follows(m, n)
  BY DEF Follows, Active, Writes, MoveOf, RecoverOf
<1> HIDE DEF m, n, e, U, a, z
<1>10. Part(y) /\ y # <<>> /\ Len(y) = 1 /\ y[1] = e /\ DOMAIN y = {1}
  BY <1>3, One
<1>11. U # {} => Part(x) /\ x # <<>> /\ Len(x) = 2 /\ x[1] = m /\ x[2] = n /\ DOMAIN x = {1, 2}
  BY <1>7, <1>8, <1>9, Two
<1> HIDE DEF x, y
<1>12. CASE Go(y) /\ UNCHANGED flash
  BY <1>3, <1>5, <1>10, <1>12
<1>13. CASE U # {} /\ At(a).st = "PRE_DELETE" /\ Go(x) /\ UNCHANGED flash
  <2>1. PICK t : t = x
    OBVIOUS
  <2>2. At(t[1].addr).whole /\ At(t[1].addr).st = "PRE_DELETE" /\ t[1].op = "move" /\ t[1].by = "start"
    BY <1>6, <1>7, <1>11, <1>13, <2>1
  <2>3. Part(t) /\ t # <<>> /\ Go(t) /\ Len(t) = 2 /\ t[2].op = "recover" /\ Closed(t[2]) /\ DOMAIN t = {1, 2}
    BY <1>8, <1>11, <1>13, <2>1
  <2> QED
    BY <1>5, <1>13, <2>2, <2>3
<1>14. CASE U # {} /\ At(a).st # "PRE_DELETE" /\ SetRec(a, z) /\ Go(y)
  <2>1. \E b \in Addr : At(b).st = "PRE_WRITE" /\ SetRec(b, [At(b) EXCEPT !.st = "ERR_HDR"])
    BY <1>6, <1>14 DEF z
  <2> QED
    BY <1>3, <1>5, <1>10, <1>14, <2>1
<1> QED
  BY <1>4, <1>12, <1>13, <1>14

\* The first invariant holds behind check_and_recovery_env_cb.
LEMMA RecoverKeeps == ASSUME Basic, Recover PROVE Basic'
<1>1. /\ HeadIs("recover") /\ Plan(todo) /\ TypeInv /\ WholeNamed
      /\ UNCHANGED <<ram, power, caller, restarts>>
  BY RecoverCases DEF Basic, TypeInv
<1>2. todo # <<>> /\ Head(todo).op = "recover"
  BY <1>1, HeadFacts
<1>3. PICK t : /\ Part(t) /\ t # <<>> /\ Go(t) /\ Closed(t[Len(t)])
               /\ \A i \in DOMAIN t :
                    \/ t[i].op \in {"recover", "recovered"} /\ i = Len(t)
                    \/ t[i].op = "move" /\ t[i].by = "start" /\ At(t[i].addr).whole /\ At(t[i].addr).st = "PRE_DELETE"
               /\ \/ UNCHANGED flash
                  \/ /\ \A i \in DOMAIN t : t[i].op # "move"
                     /\ \E a \in Addr : /\ At(a).st = "PRE_WRITE"
                                        /\ SetRec(a, [At(a) EXCEPT !.st = "ERR_HDR"])
  BY RecoverCases
<1>4. Link(t)
  BY <1>1, <1>2, <1>3, LateLink DEF Late
<1>5. Typed(flash') /\ WholeNamed'
  <2>1. CASE UNCHANGED flash
    BY <1>1, <2>1 DEF TypeInv, WholeNamed, At
  <2>2. ASSUME NEW a \in Addr, SetRec(a, [At(a) EXCEPT !.st = "ERR_HDR"])
        PROVE  Typed(flash') /\ WholeNamed'
    <3> DEFINE z == [At(a) EXCEPT !.st = "ERR_HDR"]
    <3>1. At(a) \in Record
      BY <1>1, Parts DEF TypeInv
    <3>2. z \in Record /\ z.key = At(a).key /\ z.val = At(a).val /\ z.whole = At(a).whole
      BY <3>1, ChangedRecord
    <3> HIDE DEF z
    <3>3. Typed(flash') /\ \A b \in Addr : At(b)' = IF b = a THEN z ELSE At(b)
      BY <1>1, <2>2, <3>2, SetRecFacts DEF TypeInv, z
    <3> QED
      BY <1>1, <3>2, <3>3 DEF WholeNamed
  <2> QED
    BY <1>3, <2>1, <2>2
<1>6. \A i \in DOMAIN t : t[i].op # "default" /\ (t[i].op = "move" => (At(t[i].addr).whole)')
  BY <1>3 DEF At
<1>7. 1 \in DOMAIN t
  BY <1>3, SeqFacts DEF Part
<1>8. Plan(todo') /\ MoveReady' /\ DefaultReady' /\ BodyReady'
  BY <1>1, <1>2, <1>3, <1>4, <1>6, <1>7, Onward DEF Basic
<1> QED
  BY <1>1, <1>5, <1>8 DEF Basic, TypeInv, ram, caller

\* The first invariant holds behind the header of a record.
LEMMA WriteHeadKeeps == ASSUME Basic, WriteHead PROVE Basic'
<1> DEFINE a == Head(todo).addr
           x == [st |-> "PRE_WRITE", key |-> Head(todo).key, val |-> Head(todo).val, whole |-> FALSE]
<1>1. HeadIs("head") /\ Plan(todo) /\ TypeInv /\ WholeNamed
  BY DEF WriteHead, Basic, TypeInv
<1>2. /\ todo # <<>> /\ Head(todo).op = "head" /\ StepOK(Head(todo)) /\ IsSeq(todo) /\ Head(todo) = todo[1]
      /\ DOMAIN todo = 1..Len(todo) /\ Len(todo) \in Nat
  BY <1>1, HeadFacts
<1>3. a \in Addr /\ Head(todo).key \in Key /\ Head(todo).val \in Value
  BY <1>2 DEF StepOK
<1>4. x \in Record /\ x.key = Head(todo).key /\ x.val = Head(todo).val /\ x.whole = FALSE
  BY <1>3, NewRecord
<1>5. SetRec(a, x) /\ Go(None) /\ UNCHANGED <<ram, power, caller, restarts>>
  BY DEF WriteHead, None
<1>6. Len(todo) > 1 /\ Follows(todo[1], todo[2])
  BY <1>1, <1>2, Front DEF Closed, Open
<1>7. todo[2].op = "body" /\ todo[2].addr = a
  BY <1>2, <1>6 DEF Follows
<1> HIDE DEF x
<1>8. Typed(flash') /\ \A b \in Addr : At(b)' = IF b = a THEN x ELSE At(b)
  BY <1>1, <1>3, <1>4, <1>5, SetRecFacts DEF TypeInv
<1>9. WholeNamed'
  BY <1>1, <1>4, <1>8 DEF WholeNamed
<1>10. Plan(todo')
  BY <1>1, <1>2, <1>5, NoStep, PlanKept DEF Link
<1>11. /\ Len(None) = 0 /\ DOMAIN todo' = 1..Len(todo') /\ IsSeq(todo')
       /\ \A i \in DOMAIN todo' : i + 1 \in DOMAIN todo /\ i + 1 >= 2 /\ todo'[i] = todo[i + 1]
       /\ 1 \in DOMAIN todo'
  <2>1. IsSeq(None) /\ Len(None) = 0
    BY NoStep, SeqFacts DEF Part
  <2>2. /\ Len(todo') = 0 + Len(todo) - 1 /\ DOMAIN todo' = 1..Len(todo') /\ IsSeq(todo') /\ DOMAIN None = 1..0
        /\ \A i \in DOMAIN todo' :
              \/ i \in DOMAIN None /\ todo'[i] = None[i]
              \/ /\ i > 0 /\ i - 0 + 1 \in DOMAIN todo
                 /\ i - 0 + 1 >= 2 /\ todo'[i] = todo[i - 0 + 1]
    BY <1>2, <1>5, <2>1, GoIndex
  <2>3. \A i \in DOMAIN todo' : i + 1 \in DOMAIN todo /\ i + 1 >= 2 /\ todo'[i] = todo[i + 1]
    BY <2>2
  <2>4. 1 \in 1..Len(todo')
    BY <1>2, <1>6, <2>2
  <2> QED
    BY <2>1, <2>2, <2>3, <2>4
<1>12. \A j \in DOMAIN todo : j >= 2 => todo[j].op # "move" /\ todo[j].op # "default"
  <2>1. SUFFICES ASSUME NEW j \in DOMAIN todo, j >= 2
                 PROVE  todo[j].op # "move" /\ todo[j].op # "default"
    OBVIOUS
  <2>2. todo[j].op # "move"
    BY <2>1, <1>1, <1>2, MoveInFront DEF HeadIs
  <2>3. todo[j].op # "default"
    <3>1. 1 \in 1..(j - 1)
      BY <1>2, <2>1
    <3> QED
      BY <1>2, <2>1, <3>1 DEF DefaultReady, Basic
  <2> QED
    BY <2>2, <2>3
<1>13. MoveReady' /\ DefaultReady'
  BY <1>11, <1>12 DEF MoveReady, DefaultReady
<1>14. BodyReady'
  <2>1. todo' # <<>> /\ Head(todo') = todo'[1] /\ todo'[1] = todo[2]
    BY <1>11, SeqFacts
  <2>2. PICK b \in Addr : b = a
    BY <1>3
  <2>3. Head(todo').addr = b
    BY <1>7, <2>1, <2>2
  <2>4. At(b)'.key \in Key /\ At(b)'.val \in Value
    BY <1>3, <1>4, <1>8, <2>2
  <2> QED
    BY <2>3, <2>4 DEF BodyReady, At
<1> QED
  BY <1>1, <1>5, <1>8, <1>9, <1>10, <1>13, <1>14 DEF Basic, TypeInv, ram, caller

\* The steps that are left have moved.
LEMMA Rest ==
  ASSUME Plan(todo), todo # <<>>, NEW s, Part(s), Go(s)
  PROVE  /\ Len(s) \in Nat /\ DOMAIN s = 1..Len(s) /\ IsSeq(todo')
         /\ \A i \in DOMAIN todo' :
              \/ i \in DOMAIN s /\ todo'[i] = s[i]
              \/ \E j \in DOMAIN todo : j >= 2 /\ i = j + Len(s) - 1 /\ todo'[i] = todo[j]
<1>1. IsSeq(todo) /\ IsSeq(s) /\ Len(todo) \in Nat /\ DOMAIN todo = 1..Len(todo)
  BY Front DEF Part
<1>2. /\ DOMAIN s = 1..Len(s) /\ Len(s) \in Nat /\ IsSeq(todo') /\ DOMAIN todo' = 1..Len(todo')
      /\ \A i \in DOMAIN todo' :
           \/ i \in DOMAIN s /\ todo'[i] = s[i]
           \/ /\ i > Len(s) /\ i - Len(s) + 1 \in DOMAIN todo
              /\ i - Len(s) + 1 >= 2 /\ todo'[i] = todo[i - Len(s) + 1]
  BY <1>1, GoIndex
<1>3. \A i \in DOMAIN todo' : i = (i - Len(s) + 1) + Len(s) - 1
  BY <1>2
<1> QED
  BY <1>2, <1>3

\* No body is to be written next unless a header was.
LEMMA BodyKept ==
  ASSUME Plan(todo), todo # <<>>, Head(todo).op # "head", NEW s, Part(s), Go(s), s # <<>> => s[1].op # "body"
  PROVE  BodyReady'
<1>1. SUFFICES ASSUME todo' # <<>>, Head(todo').op = "body"
               PROVE  FALSE
  BY DEF BodyReady, HeadIs
<1>2. /\ Len(s) \in Nat /\ DOMAIN s = 1..Len(s) /\ IsSeq(todo')
      /\ \A i \in DOMAIN todo' :
              \/ i \in DOMAIN s /\ todo'[i] = s[i]
              \/ \E j \in DOMAIN todo : j >= 2 /\ i = j + Len(s) - 1 /\ todo'[i] = todo[j]
  BY Rest
<1>3. 1 \in DOMAIN todo' /\ Head(todo') = todo'[1]
  BY <1>1, <1>2, SeqFacts
<1>4. CASE 1 \in DOMAIN s /\ todo'[1] = s[1]
  <2>1. s # <<>>
    BY <1>2, <1>4, SeqFacts DEF Part
  <2> QED
    BY <1>1, <1>3, <1>4, <2>1
<1>5. ASSUME NEW j \in DOMAIN todo, j >= 2, 1 = j + Len(s) - 1, todo'[1] = todo[j]
      PROVE  FALSE
  <2>1. DOMAIN todo = 1..Len(todo) /\ Len(todo) \in Nat /\ Head(todo) = todo[1]
    BY Front
  <2>2. j = 2
    BY <1>2, <1>5, <2>1
  <2>3. Follows(todo[1], todo[2])
    BY <1>5, <2>1, <2>2, Front
  <2> QED
    BY <1>1, <1>3, <1>5, <2>1, <2>2, <2>3 DEF Follows
<1> QED
  BY <1>2, <1>3, <1>4, <1>5

\* What is to be copied stays whole.
LEMMA MovesKept ==
  ASSUME Plan(todo), todo # <<>>, MoveReady, NEW s, Part(s), Go(s), \A i \in DOMAIN s : s[i].op # "move",
         Head(todo).op \in {"mark", "dirty"} => \A b \in Addr : At(b).whole => At(b)'.whole
  PROVE  MoveReady'
<1>1. SUFFICES ASSUME NEW i \in DOMAIN todo', todo'[i].op = "move"
               PROVE  (At(todo[i].addr).whole)'
  BY DEF MoveReady
<1>2. PICK j \in DOMAIN todo : j >= 2 /\ todo'[i] = todo[j]
  BY <1>1, Rest
<1>3. todo[j].op = "move" /\ At(todo[j].addr).whole
  BY <1>1, <1>2 DEF MoveReady
<1>4. todo[j].addr \in Addr
  BY <1>2, <1>3 DEF Plan, Part, StepOK
<1>5. Head(todo).op \in {"mark", "dirty"}
  <2>1. DOMAIN todo = 1..Len(todo) /\ Len(todo) \in Nat
    BY Front
  <2> QED
    BY <1>2, <1>3, <2>1, MoveInFront DEF HeadIs
<1>6. PICK b \in Addr : b = todo[j].addr
  BY <1>4
<1>7. At(b)'.whole
  BY <1>3, <1>5, <1>6
<1> QED
  BY <1>2, <1>6, <1>7 DEF At

\* The default stays where it is in the list.
LEMMA DefaultKept ==
  ASSUME Plan(todo), todo # <<>>, DefaultReady, Head(todo).op \notin {"repair", "erase", "header"},
         NEW s, Part(s), Go(s), \A i \in DOMAIN s : s[i].op # "default"
  PROVE  DefaultReady'
<1>1. DOMAIN todo = 1..Len(todo) /\ Len(todo) \in Nat /\ Head(todo) = todo[1]
  BY Front
<1>2. \A j \in DOMAIN todo : j >= 2 => todo[j].op # "default"
  <2>1. SUFFICES ASSUME NEW j \in DOMAIN todo, j >= 2
                 PROVE  todo[j].op # "default"
    OBVIOUS
  <2>2. 1 \in 1..(j - 1)
    BY <1>1, <2>1
  <2> QED
    BY <1>1, <2>1, <2>2 DEF DefaultReady
<1>3. \A i \in DOMAIN todo' : todo'[i].op # "default"
  BY <1>2, Rest
<1> QED
  BY <1>3 DEF DefaultReady

\* The first invariant holds behind the dirty mark of a sector.
LEMMA DirtyKeeps == ASSUME Basic, Dirty PROVE Basic'
<1>1. HeadIs("dirty") /\ Plan(todo) /\ TypeInv /\ WholeNamed
  BY DEF Dirty, Basic, TypeInv
<1>2. /\ todo # <<>> /\ Head(todo).op = "dirty" /\ StepOK(Head(todo))
  BY <1>1, HeadFacts
<1>3. Head(todo).sec \in Sector
  BY <1>2 DEF StepOK
<1>4. /\ flash' = [flash EXCEPT ![Head(todo).sec].dirty = "TRUE"]
      /\ Go(None) /\ UNCHANGED <<ram, power, caller, restarts>>
  BY DEF Dirty, None
<1>5. Typed(flash') /\ \A b \in Addr : At(b)' = At(b)
  <2>1. "TRUE" \in Dirts
    BY DEF Dirts
  <2> QED
    BY <1>1, <1>3, <1>4, <2>1, SetDirtyFacts DEF TypeInv
<1>6. Plan(todo')
  BY <1>1, <1>2, <1>4, NoStep, PlanKept DEF Link
<1>7. MoveReady' /\ DefaultReady' /\ BodyReady'
  BY <1>1, <1>2, <1>4, <1>5, NoStep, MovesKept, DefaultKept, BodyKept DEF Basic
<1> QED
  BY <1>1, <1>4, <1>5, <1>6, <1>7 DEF Basic, TypeInv, WholeNamed, ram, caller

\* The first invariant holds behind del_env.
LEMMA MarkKeeps == ASSUME Basic, Mark PROVE Basic'
<1> DEFINE a == Head(todo).addr
           st == Head(todo).st
           new == Marked(At(a).st, st)
           x == [At(a) EXCEPT !.st = new]
           d == DirtyOf(a[1])
           t == <<d>>
<1>1. HeadIs("mark") /\ Plan(todo) /\ TypeInv /\ WholeNamed
  BY DEF Mark, Basic, TypeInv
<1>2. /\ todo # <<>> /\ Head(todo).op = "mark" /\ StepOK(Head(todo)) /\ Head(todo) = todo[1]
      /\ Len(todo) \in Nat /\ DOMAIN todo = 1..Len(todo) /\ Len(todo) >= 1
  BY <1>1, HeadFacts
<1>3. a \in Addr /\ st \in {"PRE_DELETE", "DELETED"} /\ a[1] \in Sector
  BY <1>2, Addresses DEF StepOK
<1>4. At(a) \in Record
  BY <1>1, <1>3, Parts DEF TypeInv
<1>5. new \in {"UNUSED", "PRE_WRITE", "WRITE", "PRE_DELETE", "DELETED", "ERR_HDR"}
  BY <1>3, <1>4, Fields, MarkedFacts
<1>6. SetRec(a, x)
  BY DEF Mark
<1>7. /\ lastDel' = (st = "PRE_DELETE")
      /\ cache' = IF st = "DELETED" /\ ~lastDel
                    THEN [cache EXCEPT ![At(a).key] = NoAddr] ELSE cache
      /\ taken' = (taken \/ (st = "DELETED" /\ call.kind = "delete"))
      /\ Go(t) \/ Go(None)
      /\ UNCHANGED <<gcRequest, recovering, power, call, result, calls, restarts>>
  BY DEF Mark, None
<1>8. lastDel' \in BOOLEAN
  BY <1>7
<1>9. taken' \in BOOLEAN
  BY <1>1, <1>7 DEF TypeInv
<1>10. cache' \in [Key -> Addr \cup {NoAddr}]
  BY <1>1, <1>7 DEF TypeInv
<1>11. x \in Record /\ x.key = At(a).key /\ x.val = At(a).val /\ x.whole = At(a).whole
  BY <1>4, <1>5, StatusRecord
<1>12. StepOK(d) /\ d.op = "dirty" /\ Closed(d)
  BY <1>3 DEF StepOK, DirtyOf, Active, Writes, Late, Closed, Open
<1>13. IF Len(todo) > 1 THEN Follows(d, todo[2]) ELSE Closed(d)
  <2>1. CASE Len(todo) > 1
    <3>1. Follows(todo[1], todo[2])
      BY <1>1, <1>2, <2>1, Front
    <3> QED
      BY <1>2, <1>3, <1>12, <2>1, <3>1 DEF Follows, Active, Writes
  <2> QED
    BY <1>12, <2>1
<1> HIDE DEF new, x, a, st, d
<1>14. Part(t) /\ t # <<>> /\ Len(t) = 1 /\ t[1] = d /\ DOMAIN t = {1}
  BY <1>12, One
<1> HIDE DEF t
<1>15. Typed(flash') /\ \A b \in Addr : At(b)' = IF b = a THEN x ELSE At(b)
  BY <1>1, <1>3, <1>6, <1>11, SetRecFacts DEF TypeInv
<1>16. WholeNamed' /\ \A b \in Addr : At(b).whole => At(b)'.whole
  BY <1>1, <1>3, <1>11, <1>15 DEF WholeNamed
<1>17. PICK s : s \in {t, None} /\ Go(s)
  BY <1>7
<1>18. Part(s) /\ (s # <<>> => s[1].op # "body" /\ s[Len(s)] = d)
       /\ \A i \in DOMAIN s : s[i].op # "move" /\ s[i].op # "default"
  BY <1>12, <1>14, <1>17, NoStep
<1>19. Plan(todo')
  BY <1>1, <1>2, <1>13, <1>17, <1>18, PlanKept
<1>20. MoveReady' /\ DefaultReady' /\ BodyReady'
  BY <1>1, <1>2, <1>16, <1>17, <1>18, MovesKept, DefaultKept, BodyKept DEF Basic
<1> QED
  BY <1>1, <1>7, <1>8, <1>9, <1>10, <1>15, <1>16, <1>19, <1>20 DEF Basic, TypeInv

\* Where the steps stand when the first one is done.
LEMMA TailIndex ==
  ASSUME Plan(todo), todo # <<>>, Go(None)
  PROVE  /\ IsSeq(todo') /\ Len(todo') = Len(todo) - 1 /\ DOMAIN todo' = 1..Len(todo')
         /\ \A i \in DOMAIN todo' : i + 1 \in DOMAIN todo /\ todo'[i] = todo[i + 1]
<1>1. IsSeq(None) /\ Len(None) = 0 /\ IsSeq(todo)
  BY NoStep, SeqFacts, Front DEF Part
<1>2. /\ Len(todo') = 0 + Len(todo) - 1 /\ DOMAIN todo' = 1..Len(todo') /\ IsSeq(todo') /\ DOMAIN None = 1..0
      /\ Len(todo) \in Nat
      /\ \A i \in DOMAIN todo' :
            \/ i \in DOMAIN None /\ todo'[i] = None[i]
            \/ /\ i > 0 /\ i - 0 + 1 \in DOMAIN todo
               /\ i - 0 + 1 >= 2 /\ todo'[i] = todo[i - 0 + 1]
  BY <1>1, GoIndex
<1> QED
  BY <1>2

\* Where the step of the default stands while the sectors are formatted.
LEMMA DefaultPlace ==
  ASSUME Plan(todo), DefaultReady, NEW j \in DOMAIN todo, todo[j].op = "default", j >= 2
  PROVE  /\ todo[j].sec \in 1..(SectorNum + 1) /\ j \in Nat
         /\ todo[j].sec > 1 => \/ j = 2 /\ todo[1].op = "header" /\ todo[1].sec = todo[j].sec - 1
                               \/ j = 3 /\ todo[1].op = "erase" /\ todo[1].sec = todo[j].sec - 1
<1>1. IsSeq(todo) /\ DOMAIN todo = 1..Len(todo) /\ Len(todo) \in Nat
  BY SeqFacts DEF Plan, Part
<1>2. todo[j].sec \in 1..(SectorNum + 1)
  BY DEF Plan, Part, StepOK
<1>3. CASE todo[j].sec > 1
  <2>1. j = 2 \/ j = 3
    BY <1>1, <1>3 DEF DefaultReady
  <2>2. CASE j = 2
    <3>1. Follows(todo[1], todo[1 + 1])
      <4>1. 1 \in DOMAIN todo /\ 1 + 1 \in DOMAIN todo
        BY <1>1, <2>2
      <4> QED
        BY <4>1 DEF Plan, Part
    <3> QED
      BY <1>1, <1>2, <1>3, <2>2, <3>1 DEF Follows
  <2>3. CASE j = 3
    <3>1. Follows(todo[2], todo[2 + 1]) /\ Follows(todo[1], todo[1 + 1])
      <4>1. 1 \in DOMAIN todo /\ 1 + 1 \in DOMAIN todo /\ 2 \in DOMAIN todo /\ 2 + 1 \in DOMAIN todo
        BY <1>1, <2>3
      <4> QED
        BY <4>1 DEF Plan, Part
    <3>2. todo[2].op = "header" /\ todo[2].sec = todo[j].sec - 1
      BY <1>3, <2>3, <3>1 DEF Follows
    <3>3. todo[1].op = "erase" /\ todo[1].sec = todo[2].sec
      BY <3>1, <3>2 DEF Follows
    <3> QED
      BY <1>1, <1>2, <2>3, <3>2, <3>3
  <2> QED
    BY <2>1, <2>2, <2>3
<1> QED
  BY <1>1, <1>2, <1>3

\* The first invariant holds behind the erasure of a sector.
LEMMA EraseKeeps == ASSUME Basic, Erase PROVE Basic'
<1> DEFINE s == Head(todo).sec
<1>1. HeadIs("erase") /\ Plan(todo) /\ TypeInv /\ WholeNamed /\ DefaultReady
  BY DEF Erase, Basic, TypeInv
<1>2. /\ todo # <<>> /\ Head(todo).op = "erase" /\ StepOK(Head(todo)) /\ Head(todo) = todo[1]
      /\ DOMAIN todo = 1..Len(todo) /\ Len(todo) \in Nat
  BY <1>1, HeadFacts
<1>3. s \in Sector
  BY <1>2 DEF StepOK
<1>4. flash' = [flash EXCEPT ![s] = Erased] /\ Go(None) /\ UNCHANGED <<ram, power, caller, restarts>>
  BY DEF Erase, None
<1> HIDE DEF s
<1>5. /\ Typed(flash')
      /\ \A b \in Addr : At(b)' = IF b[1] = s THEN Blank ELSE At(b)
      /\ \A t \in Sector : flash'[t] = IF t = s THEN Erased ELSE flash[t]
  BY <1>1, <1>3, <1>4, SetSectorFacts DEF TypeInv
<1>6. WholeNamed'
  BY <1>1, <1>5, KnownRecords DEF WholeNamed
<1>7. Plan(todo')
  BY <1>1, <1>2, <1>4, NoStep, PlanKept DEF Link
<1>8. MoveReady' /\ BodyReady'
  BY <1>1, <1>2, <1>4, NoStep, MovesKept, BodyKept DEF Basic
<1>9. DefaultReady'
  <2>1. SUFFICES ASSUME NEW i \in DOMAIN todo', todo'[i].op = "default"
                 PROVE  /\ ~gcRequest'
                        /\ \A j \in 1..(i - 1) : todo'[j].op \in {"repair", "erase", "header"}
                        /\ \A t \in Sector : t < todo'[i].sec - 1 => flash'[t] = Formatted
                        /\ todo'[i].sec > 1 => /\ i <= 3
                                               /\ i = 1 => flash'[todo'[i].sec - 1] = Formatted
    BY DEF DefaultReady
  <2>2. /\ i + 1 \in DOMAIN todo /\ todo'[i] = todo[i + 1] /\ i \in Nat /\ i + 1 >= 2
        /\ DOMAIN todo' = 1..Len(todo') /\ Len(todo') = Len(todo) - 1
        /\ \A j \in DOMAIN todo' : j + 1 \in DOMAIN todo /\ todo'[j] = todo[j + 1]
    <3>1. /\ DOMAIN todo' = 1..Len(todo') /\ Len(todo') = Len(todo) - 1
          /\ \A j \in DOMAIN todo' : j + 1 \in DOMAIN todo /\ todo'[j] = todo[j + 1]
      BY <1>1, <1>2, <1>4, TailIndex
    <3>2. i \in Nat /\ i + 1 >= 2
      BY <1>2, <3>1
    <3> QED
      BY <3>1, <3>2
  <2>3. /\ ~gcRequest
        /\ \A j \in 1..i : todo[j].op \in {"repair", "erase", "header"}
        /\ \A t \in Sector : t < todo[i + 1].sec - 1 => flash[t] = Formatted
    <3>1. (i + 1) - 1 = i
      BY <2>2
    <3> QED
      BY <1>1, <2>1, <2>2, <3>1 DEF DefaultReady
  <2>4. \A j \in 1..(i - 1) : todo'[j].op \in {"repair", "erase", "header"}
    <3>1. \A j \in 1..(i - 1) : j \in DOMAIN todo' /\ j + 1 \in 1..i
      BY <2>1, <2>2
    <3> QED
      BY <2>2, <2>3, <3>1
  <2>5. /\ todo[i + 1].sec \in 1..(SectorNum + 1)
        /\ todo[i + 1].sec > 1 => i + 1 = 3 /\ s = todo[i + 1].sec - 1
    BY <1>1, <1>2, <2>1, <2>2, DefaultPlace DEF s
  <2>6. \A t \in Sector : t < todo'[i].sec - 1 => flash'[t] = Formatted
    <3>1. SUFFICES ASSUME NEW t \in Sector, t < todo[i + 1].sec - 1
                   PROVE  flash'[t] = Formatted
      BY <2>2
    <3>2. todo[i + 1].sec > 1 /\ t # s
      BY <2>5, <3>1, Constants
    <3> QED
      BY <1>5, <2>3, <3>1, <3>2
  <2> QED
    BY <1>4, <2>2, <2>3, <2>4, <2>5, <2>6 DEF ram
<1> QED
  BY <1>1, <1>4, <1>5, <1>6, <1>7, <1>8, <1>9 DEF Basic, TypeInv, ram, caller

\* The first invariant holds behind the header of a sector.
LEMMA HeaderKeeps == ASSUME Basic, Header PROVE Basic'
<1> DEFINE s == Head(todo).sec
<1>1. HeadIs("header") /\ Plan(todo) /\ TypeInv /\ WholeNamed /\ DefaultReady
  BY DEF Header, Basic, TypeInv
<1>2. /\ todo # <<>> /\ Head(todo).op = "header" /\ StepOK(Head(todo)) /\ Head(todo) = todo[1]
      /\ DOMAIN todo = 1..Len(todo) /\ Len(todo) \in Nat
  BY <1>1, HeadFacts
<1>3. s \in Sector
  BY <1>2 DEF StepOK
<1>4. flash' = [flash EXCEPT ![s] = Formatted] /\ Go(None) /\ UNCHANGED <<ram, power, caller, restarts>>
  BY DEF Header, None
<1> HIDE DEF s
<1>5. /\ Typed(flash')
      /\ \A b \in Addr : At(b)' = IF b[1] = s THEN Blank ELSE At(b)
      /\ \A t \in Sector : flash'[t] = IF t = s THEN Formatted ELSE flash[t]
  BY <1>1, <1>3, <1>4, SetSectorFacts DEF TypeInv
<1>6. WholeNamed'
  BY <1>1, <1>5, KnownRecords DEF WholeNamed
<1>7. Plan(todo')
  BY <1>1, <1>2, <1>4, NoStep, PlanKept DEF Link
<1>8. MoveReady' /\ BodyReady'
  BY <1>1, <1>2, <1>4, NoStep, MovesKept, BodyKept DEF Basic
<1>9. DefaultReady'
  <2>1. SUFFICES ASSUME NEW i \in DOMAIN todo', todo'[i].op = "default"
                 PROVE  /\ ~gcRequest'
                        /\ \A j \in 1..(i - 1) : todo'[j].op \in {"repair", "erase", "header"}
                        /\ \A t \in Sector : t < todo'[i].sec - 1 => flash'[t] = Formatted
                        /\ todo'[i].sec > 1 => /\ i <= 3
                                               /\ i = 1 => flash'[todo'[i].sec - 1] = Formatted
    BY DEF DefaultReady
  <2>2. /\ i + 1 \in DOMAIN todo /\ todo'[i] = todo[i + 1] /\ i \in Nat /\ i + 1 >= 2
        /\ DOMAIN todo' = 1..Len(todo') /\ Len(todo') = Len(todo) - 1
        /\ \A j \in DOMAIN todo' : j + 1 \in DOMAIN todo /\ todo'[j] = todo[j + 1]
    <3>1. /\ DOMAIN todo' = 1..Len(todo') /\ Len(todo') = Len(todo) - 1
          /\ \A j \in DOMAIN todo' : j + 1 \in DOMAIN todo /\ todo'[j] = todo[j + 1]
      BY <1>1, <1>2, <1>4, TailIndex
    <3>2. i \in Nat /\ i + 1 >= 2
      BY <1>2, <3>1
    <3> QED
      BY <3>1, <3>2
  <2>3. /\ ~gcRequest
        /\ \A j \in 1..i : todo[j].op \in {"repair", "erase", "header"}
        /\ \A t \in Sector : t < todo[i + 1].sec - 1 => flash[t] = Formatted
    <3>1. (i + 1) - 1 = i
      BY <2>2
    <3> QED
      BY <1>1, <2>1, <2>2, <3>1 DEF DefaultReady
  <2>4. \A j \in 1..(i - 1) : todo'[j].op \in {"repair", "erase", "header"}
    <3>1. \A j \in 1..(i - 1) : j \in DOMAIN todo' /\ j + 1 \in 1..i
      BY <2>1, <2>2
    <3> QED
      BY <2>2, <2>3, <3>1
  <2>5. /\ todo[i + 1].sec \in 1..(SectorNum + 1)
        /\ todo[i + 1].sec > 1 => i + 1 = 2 /\ s = todo[i + 1].sec - 1
    BY <1>1, <1>2, <2>1, <2>2, DefaultPlace DEF s
  <2>6. \A t \in Sector : t < todo'[i].sec - 1 => flash'[t] = Formatted
    BY <1>5, <2>2, <2>3
  <2> QED
    BY <1>3, <1>4, <1>5, <2>2, <2>3, <2>4, <2>5, <2>6 DEF ram
<1> QED
  BY <1>1, <1>4, <1>5, <1>6, <1>7, <1>8, <1>9 DEF Basic, TypeInv, ram, caller

\* The erasure of a sector, and its header.
LEMMA FormatSteps ==
  ASSUME NEW s \in Sector, NEW z, StepOK(z), Closed(z), z.op # "default" => Calm(z),
         z.op = "default" => z.sec = s + 1,
         NEW t, t = <<EraseOf(s), HeaderOf(s), z>>
  PROVE  /\ Part(t) /\ t # <<>> /\ Len(t) = 3 /\ DOMAIN t = {1, 2, 3}
         /\ t[1].op = "erase" /\ t[2].op = "header" /\ t[3] = z
<1> DEFINE e == EraseOf(s)
           h == HeaderOf(s)
<1>1. StepOK(e) /\ StepOK(h) /\ e.op = "erase" /\ h.op = "header" /\ h.sec = s /\ e.sec = s
  BY DEF EraseOf, HeaderOf, StepOK, Active, Writes, Late
<1>2. Follows(e, h)
  BY DEF EraseOf, HeaderOf, Follows, Active, Writes
<1>3. Follows(h, z)
  <2>1. CASE z.op = "default"
    BY <1>1, <2>1, Constants DEF Follows, Active, Writes
  <2>2. CASE z.op # "default"
    BY <1>1, <2>2 DEF Follows, Active, Writes, Calm, Late
  <2> QED
    BY <2>1, <2>2
<1>4. t = <<e, h, z>>
  OBVIOUS
<1> HIDE DEF e, h
<1> QED
  BY <1>1, <1>2, <1>3, <1>4, Three

\* The first invariant holds behind check_sec_hdr_cb.
LEMMA RepairKeeps == ASSUME Basic, RepairSector PROVE Basic'
<1> DEFINE s == Least(With("NONE"))
           z == Repair
           x == <<EraseOf(s), HeaderOf(s), z>>
<1>1. HeadIs("repair") /\ Plan(todo) /\ TypeInv /\ WholeNamed /\ DefaultReady
  BY DEF RepairSector, Basic, TypeInv
<1>2. /\ todo # <<>> /\ Head(todo).op = "repair" /\ StepOK(Head(todo)) /\ Head(todo) = todo[1]
      /\ DOMAIN todo = 1..Len(todo) /\ Len(todo) \in Nat
  BY <1>1, HeadFacts
<1>3. Go(None) \/ (With("NONE") # {} /\ Go(x))
  BY DEF RepairSector, None
<1>4. UNCHANGED <<flash, ram, power, caller, restarts>>
  BY DEF RepairSector
<1>5. With("NONE") # {} => s \in Sector
  <2>1. With("NONE") \subseteq Sector
    BY DEF With
  <2> QED
    BY <2>1, Constants, LeastOf
<1>6. StepOK(z) /\ Closed(z) /\ Calm(z) /\ z.op = "repair"
  BY DEF Repair, StepOK, Active, Writes, Late, Closed, Open, Calm
<1> HIDE DEF z, s
<1>7. With("NONE") # {} => /\ Part(x) /\ x # <<>> /\ Len(x) = 3 /\ DOMAIN x = {1, 2, 3}
                           /\ x[1].op = "erase" /\ x[2].op = "header" /\ x[3] = z
  BY <1>5, <1>6, FormatSteps
<1> HIDE DEF x
<1>8. PICK t : Go(t) /\ (t = None \/ (With("NONE") # {} /\ t = x))
  BY <1>3
<1>9. /\ Part(t) /\ (t # <<>> => Closed(t[Len(t)]) /\ t[1].op # "body")
      /\ \A i \in DOMAIN t : t[i].op \in {"repair", "erase", "header"}
  BY <1>6, <1>7, <1>8, NoStep
<1>10. Link(t)
  BY <1>1, <1>2, <1>9, LateLink DEF Late
<1>11. Plan(todo')
  BY <1>1, <1>2, <1>8, <1>9, <1>10, PlanKept DEF Link
<1>12. MoveReady' /\ BodyReady'
  BY <1>1, <1>2, <1>8, <1>9, MovesKept, BodyKept DEF Basic
<1>13. DefaultReady'
  <2>1. SUFFICES ASSUME NEW i \in DOMAIN todo', todo'[i].op = "default"
                 PROVE  /\ ~gcRequest'
                        /\ \A j \in 1..(i - 1) : todo'[j].op \in {"repair", "erase", "header"}
                        /\ \A r \in Sector : r < todo'[i].sec - 1 => flash'[r] = Formatted
                        /\ todo'[i].sec > 1 => /\ i <= 3
                                               /\ i = 1 => flash'[todo'[i].sec - 1] = Formatted
    BY DEF DefaultReady
  <2>2. /\ Len(t) \in Nat /\ DOMAIN t = 1..Len(t) /\ IsSeq(todo')
        /\ \A k \in DOMAIN todo' :
              \/ k \in DOMAIN t /\ todo'[k] = t[k]
              \/ \E j \in DOMAIN todo : j >= 2 /\ k = j + Len(t) - 1 /\ todo'[k] = todo[j]
    BY <1>1, <1>2, <1>8, <1>9, Rest
  <2>3. PICK n \in DOMAIN todo : n >= 2 /\ i = n + Len(t) - 1 /\ todo'[i] = todo[n]
    BY <1>9, <2>1, <2>2
  <2>4. /\ ~gcRequest
        /\ \A j \in 1..(n - 1) : todo[j].op \in {"repair", "erase", "header"}
    BY <1>1, <2>1, <2>3 DEF DefaultReady
  <2>5. todo[n].sec = 1
    BY <1>1, <1>2, <2>1, <2>3, DefaultPlace
  <2>6. \A j \in 1..(i - 1) : todo'[j].op \in {"repair", "erase", "header"}
    <3>1. SUFFICES ASSUME NEW j \in 1..(i - 1)
                   PROVE  todo'[j].op \in {"repair", "erase", "header"}
      OBVIOUS
    <3>2. j \in DOMAIN todo'
      <4>1. DOMAIN todo' = 1..Len(todo') /\ Len(todo') \in Nat
        BY <2>2, SeqFacts
      <4> QED
        BY <2>1, <3>1, <4>1
    <3>3. CASE j \in DOMAIN t /\ todo'[j] = t[j]
      BY <1>9, <3>3
    <3>4. ASSUME NEW k \in DOMAIN todo, k >= 2, j = k + Len(t) - 1, todo'[j] = todo[k]
          PROVE  todo'[j].op \in {"repair", "erase", "header"}
      <4>1. k \in 1..(n - 1)
        BY <1>2, <2>2, <2>3, <3>1, <3>4
      <4> QED
        BY <2>4, <3>4, <4>1
    <3> QED
      BY <2>2, <3>2, <3>3, <3>4
  <2>7. \A r \in Sector : ~(r < todo'[i].sec - 1)
    BY <2>3, <2>5, Constants
  <2> QED
    BY <1>4, <2>3, <2>4, <2>5, <2>6, <2>7 DEF ram
<1> QED
  BY <1>1, <1>4, <1>11, <1>12, <1>13 DEF Basic, TypeInv, WholeNamed, ram, caller, At

\* The default: a sector is formatted, or all of them are, and there is room
\* for the record.
LEMMA DefaultCases ==
  ASSUME Basic, SetDefault
  PROVE  /\ HeadIs("default") /\ UNCHANGED <<flash, ram, power, caller, restarts>> /\ ~gcRequest
         /\ \A j \in DOMAIN todo : j >= 2 => todo[j].op # "default"
         /\ \E t : /\ Part(t) /\ t # <<>> /\ Go(t) /\ Link(t) /\ DOMAIN t = 1..Len(t)
                   /\ \/ \E s \in Sector : /\ Len(t) = 3 /\ t[1].op = "erase" /\ t[2].op = "header"
                                           /\ t[3].op = "default" /\ t[3].sec = s + 1
                                           /\ \A q \in Sector : q < s => flash[q] = Formatted
                      \/ \E a \in Addr : /\ Len(t) = 4 /\ t[1].op = "use" /\ t[2].op = "head" /\ t[2].addr = a
                                         /\ t[3].op = "body" /\ t[4].op = "commit"
                                         /\ flash[a[1]].store \in {"EMPTY", "USING"}
                                         /\ \A b \in Addr : At(b) = Blank
<1> DEFINE s == Head(todo).sec
           r == Alloc(Size[DefaultValue])
           z == DefaultFrom(s + 1)
           x == <<EraseOf(s), HeaderOf(s), z>>
           no == FALSE
           by == "default"
           w == WriteSteps(r.addr, DefaultKey, DefaultValue, by, no)
<1>1. HeadIs("default") /\ Plan(todo) /\ TypeInv /\ WholeNamed /\ DefaultReady
  BY DEF SetDefault, Basic, TypeInv
<1>2. /\ todo # <<>> /\ Head(todo).op = "default" /\ StepOK(Head(todo)) /\ Head(todo) = todo[1]
      /\ DOMAIN todo = 1..Len(todo) /\ Len(todo) \in Nat /\ Len(todo) >= 1
  BY <1>1, HeadFacts
<1>3. s \in 1..(SectorNum + 1)
  BY <1>2 DEF StepOK
<1>4. /\ ~gcRequest
      /\ \A t \in Sector : t < s - 1 => flash[t] = Formatted
      /\ s > 1 => flash[s - 1] = Formatted
  <2>1. 1 \in DOMAIN todo /\ todo[1].op = "default" /\ todo[1].sec = s
    BY <1>2
  <2> HIDE DEF s
  <2> QED
    BY <1>1, <2>1 DEF DefaultReady
<1>5. /\ s \in Sector => Go(x)
      /\ s \notin Sector => Go(w)
      /\ UNCHANGED <<flash, ram, power, caller, restarts>>
  BY DEF SetDefault
<1>6. \A j \in DOMAIN todo : j >= 2 => todo[j].op # "default"
  <2>1. SUFFICES ASSUME NEW j \in DOMAIN todo, j >= 2
                 PROVE  todo[j].op # "default"
    OBVIOUS
  <2>2. 1 \in 1..(j - 1)
    BY <1>2, <2>1
  <2> QED
    BY <1>1, <1>2, <2>1, <2>2 DEF DefaultReady
<1>7. no \in BOOLEAN /\ by \in {"set", "move", "default"}
  OBVIOUS
<1> HIDE DEF no, by
<1>8. PICK c : c = s
  OBVIOUS
<1> HIDE DEF s
<1>9. CASE c \in Sector
  <2>1. StepOK(z) /\ Closed(z) /\ z.op = "default" /\ z.sec = c + 1
    BY <1>8, <1>9, Constants DEF DefaultFrom, StepOK, Active, Writes, Late, Closed, Open
  <2>2. PICK t : t = x
    OBVIOUS
  <2> HIDE DEF z
  <2>3. /\ Part(t) /\ t # <<>> /\ Len(t) = 3 /\ DOMAIN t = {1, 2, 3}
        /\ t[1].op = "erase" /\ t[2].op = "header" /\ t[3] = z
    BY <1>8, <1>9, <2>1, <2>2, FormatSteps
  <2> HIDE DEF x
  <2>4. Go(t)
    BY <1>5, <1>8, <1>9, <2>2
  <2>5. Link(t)
    BY <1>1, <1>2, <2>1, <2>3, LateLink DEF Late
  <2>6. \A q \in Sector : q < c => flash[q] = Formatted
    <3>1. SUFFICES ASSUME NEW q \in Sector, q < c PROVE flash[q] = Formatted
      OBVIOUS
    <3>2. q < c - 1 \/ (c > 1 /\ q = c - 1)
      BY <1>3, <1>8, <3>1, Constants
    <3> QED
      BY <1>4, <1>8, <3>1, <3>2
  <2>7. DOMAIN t = 1..Len(t)
    BY <2>3, SeqFacts DEF Part
  <2>8. t[3].op = "default" /\ t[3].sec = c + 1
    BY <2>1, <2>3
  <2> QED
    BY <1>1, <1>4, <1>5, <1>6, <1>9, <2>3, <2>4, <2>5, <2>6, <2>7, <2>8
<1>10. CASE c \notin Sector
  <2>1. \A t \in Sector : flash[t] = Formatted
    <3>1. c = SectorNum + 1 /\ c - 1 = SectorNum /\ c > 1
      BY <1>3, <1>8, <1>10, Constants
    <3> QED
      BY <1>4, <1>8, <3>1, Constants
  <2>2. r.addr # NoAddr
    BY <1>1, <1>4, <2>1, Constants, AllocFormatted DEF TypeInv
  <2>3. /\ r.addr \in Addr /\ r.addr[2] + Size[DefaultValue] <= SectorSize
        /\ flash[r.addr[1]].store \in {"EMPTY", "USING"}
    BY <1>1, <2>2, Constants, AllocFacts DEF TypeInv
  <2> DEFINE a == r.addr
  <2>4. /\ a \in Addr /\ DefaultKey \in Key /\ DefaultValue \in Value /\ a[2] + Size[DefaultValue] <= SectorSize
        /\ w = WriteSteps(a, DefaultKey, DefaultValue, by, no)
        /\ flash[a[1]].store \in {"EMPTY", "USING"}
    BY <2>3, Constants
  <2> HIDE DEF a, w
  <2>5. PICK t, d : t = w /\ d = a
    OBVIOUS
  <2>6. /\ Part(t) /\ Len(t) = 4 /\ t # <<>>
        /\ t[1].op = "use" /\ t[2].op = "head" /\ t[2].addr = d /\ t[3].op = "body" /\ t[4].op = "commit"
    BY <1>7, <2>4, <2>5, WritePart
  <2>7. Go(t)
    BY <1>5, <1>8, <1>10, <2>5
  <2>8. Link(t)
    BY <1>1, <1>2, <2>6, LateLink DEF Late, Closed, Open
  <2>9. DOMAIN t = 1..Len(t)
    BY <2>6, SeqFacts DEF Part
  <2>10. \A b \in Addr : At(b) = Blank
    BY <2>1, Addresses DEF At, Formatted, Erased
  <2>11. d \in Addr /\ flash[d[1]].store \in {"EMPTY", "USING"}
    BY <2>4, <2>5
  <2> QED
    BY <1>1, <1>4, <1>5, <1>6, <2>6, <2>7, <2>8, <2>9, <2>10, <2>11
<1> QED
  BY <1>9, <1>10

\* The steps that format a sector, or write the default.
LEMMA DefaultOps ==
  ASSUME Basic, SetDefault
  PROVE  \E t : /\ Part(t) /\ Go(t) /\ Link(t) /\ t # <<>>
                /\ \A i \in DOMAIN t : t[i].op \in {"erase", "header", "default", "use", "head", "body", "commit"}
<1>1. PICK t : /\ Part(t) /\ t # <<>> /\ Go(t) /\ Link(t) /\ DOMAIN t = 1..Len(t)
               /\ \/ /\ Len(t) = 3 /\ t[1].op = "erase" /\ t[2].op = "header" /\ t[3].op = "default"
                  \/ /\ Len(t) = 4 /\ t[1].op = "use" /\ t[2].op = "head" /\ t[3].op = "body"
                     /\ t[4].op = "commit"
  BY DefaultCases
<1>2. (\A i \in 1..3 : i \in {1, 2, 3}) /\ (\A i \in 1..4 : i \in {1, 2, 3, 4})
  OBVIOUS
<1> QED
  BY <1>1, <1>2

\* The first invariant holds behind efd_env_set_default.
LEMMA SetDefaultKeeps == ASSUME Basic, SetDefault PROVE Basic'
<1>1. /\ HeadIs("default") /\ UNCHANGED <<flash, ram, power, caller, restarts>> /\ ~gcRequest
      /\ \A j \in DOMAIN todo : j >= 2 => todo[j].op # "default"
  BY DefaultCases
<1>2. Plan(todo) /\ TypeInv /\ WholeNamed /\ MoveReady /\ DefaultReady /\ todo # <<>> /\ Head(todo).op = "default"
  BY <1>1, HeadFacts DEF Basic, TypeInv
<1>3. PICK t : /\ Part(t) /\ t # <<>> /\ Go(t) /\ Link(t) /\ DOMAIN t = 1..Len(t)
               /\ \/ \E s \in Sector : /\ Len(t) = 3 /\ t[1].op = "erase" /\ t[2].op = "header"
                                       /\ t[3].op = "default" /\ t[3].sec = s + 1
                                       /\ \A q \in Sector : q < s => flash[q] = Formatted
                  \/ /\ Len(t) = 4 /\ t[1].op = "use" /\ t[2].op = "head" /\ t[3].op = "body"
                     /\ t[4].op = "commit"
  BY DefaultCases
<1>4. CASE /\ Len(t) = 4 /\ t[1].op = "use" /\ t[2].op = "head" /\ t[3].op = "body" /\ t[4].op = "commit"
  <2>1. \A i \in DOMAIN t : t[i].op # "default" /\ t[i].op # "move"
    <3>1. \A i \in 1..4 : i \in {1, 2, 3, 4}
      OBVIOUS
    <3> QED
      BY <1>3, <1>4, <3>1
  <2>2. Plan(todo') /\ MoveReady' /\ DefaultReady' /\ BodyReady'
    BY <1>2, <1>3, <1>4, <2>1, Onward DEF Basic
  <2> QED
    BY <1>1, <1>2, <2>2 DEF Basic, TypeInv, WholeNamed, ram, caller, At
<1>5. ASSUME NEW s \in Sector, Len(t) = 3, t[1].op = "erase", t[2].op = "header",
             t[3].op = "default", t[3].sec = s + 1, \A q \in Sector : q < s => flash[q] = Formatted
      PROVE  Basic'
  <2>1. Plan(todo')
    BY <1>2, <1>3, PlanKept DEF Link
  <2>2. \A i \in DOMAIN t : i \in {1, 2, 3}
    BY <1>3, <1>5
  <2>3. \A i \in DOMAIN t : t[i].op # "move"
    BY <1>5, <2>2
  <2>4. MoveReady' /\ BodyReady'
    BY <1>2, <1>3, <1>5, <2>3, MovesKept, BodyKept DEF Basic
  <2>5. /\ IsSeq(todo')
        /\ \A k \in DOMAIN todo' :
              \/ k \in DOMAIN t /\ todo'[k] = t[k]
              \/ \E j \in DOMAIN todo : j >= 2 /\ k = j + Len(t) - 1 /\ todo'[k] = todo[j]
    BY <1>2, <1>3, Rest
  <2>6. Len(todo') \in Nat /\ DOMAIN todo' = 1..Len(todo')
    BY <2>5, SeqFacts
  <2>7. \A k \in DOMAIN todo' : k \in {1, 2} => todo'[k].op \in {"repair", "erase", "header"}
    <3>1. \A j \in DOMAIN todo : j \in Nat
      BY <1>2, SeqFacts DEF Plan, Part
    <3> QED
      BY <1>5, <2>5, <3>1
  <2>8. \A i \in DOMAIN todo' : todo'[i].op = "default" => i = 3 /\ todo'[i].sec = s + 1
    <3>1. SUFFICES ASSUME NEW i \in DOMAIN todo', todo'[i].op = "default"
                   PROVE  i = 3 /\ todo'[i].sec = s + 1
      OBVIOUS
    <3>2. i \in DOMAIN t /\ todo'[i] = t[i]
      BY <1>1, <2>5, <3>1
    <3> QED
      BY <1>5, <2>2, <3>1, <3>2
  <2>9. DefaultReady'
    <3>1. SUFFICES ASSUME NEW i \in DOMAIN todo', todo'[i].op = "default"
                   PROVE  /\ ~gcRequest'
                          /\ \A j \in 1..(i - 1) : todo'[j].op \in {"repair", "erase", "header"}
                          /\ \A p \in Sector : p < todo'[i].sec - 1 => flash'[p] = Formatted
                          /\ todo'[i].sec > 1 => /\ i <= 3
                                                 /\ i = 1 => flash'[todo'[i].sec - 1] = Formatted
      BY DEF DefaultReady
    <3>2. i = 3 /\ todo'[i].sec = s + 1 /\ s \in Nat
      BY <2>8, <3>1, Constants
    <3>3. \A j \in 1..(i - 1) : j \in DOMAIN todo' /\ j \in {1, 2}
      BY <2>6, <3>1, <3>2
    <3>4. s + 1 - 1 = s
      BY <3>2
    <3> QED
      BY <1>1, <1>5, <2>7, <3>2, <3>3, <3>4 DEF ram
  <2> QED
    BY <1>1, <1>2, <2>1, <2>4, <2>9 DEF Basic, TypeInv, WholeNamed, ram, caller, At
<1> QED
  BY <1>3, <1>4, <1>5

\* The first invariant holds behind read_env of a record without a length.
LEMMA MarkScarKeeps == ASSUME Basic, MarkScar PROVE Basic'
<1> DEFINE a == <<Least(Unbegun), 0>>
<1>1. HeadIs("scars") /\ Plan(todo) /\ TypeInv /\ WholeNamed /\ DefaultReady /\ MoveReady
  BY DEF MarkScar, Basic, TypeInv
<1>2. /\ todo # <<>> /\ Head(todo).op = "scars" /\ Head(todo) = todo[1]
      /\ DOMAIN todo = 1..Len(todo) /\ Len(todo) \in Nat
  BY <1>1, HeadFacts
<1>3. \/ Go(None) /\ UNCHANGED flash
      \/ Unbegun # {} /\ SetRec(a, Scar) /\ UNCHANGED todo
  BY DEF MarkScar, None
<1>4. UNCHANGED <<ram, power, caller, restarts>>
  BY DEF MarkScar
<1>5. CASE Go(None) /\ UNCHANGED flash
  <2>1. Plan(todo') /\ MoveReady' /\ DefaultReady' /\ BodyReady'
    BY <1>1, <1>2, <1>5, NoStep, Onward DEF Basic
  <2> QED
    BY <1>1, <1>4, <1>5, <2>1 DEF Basic, TypeInv, WholeNamed, ram, caller, At
<1>6. CASE Unbegun # {} /\ SetRec(a, Scar) /\ UNCHANGED todo
  <2>1. a \in Addr
    <3>1. Unbegun \in SUBSET Nat /\ Unbegun \subseteq Sector
      BY Constants DEF Unbegun, With
    <3>2. Least(Unbegun) \in Sector
      BY <1>6, <3>1, LeastOf
    <3> QED
      BY <3>2, Constants, Addresses
  <2> HIDE DEF a
  <2>2. Typed(flash') /\ \A b \in Addr : At(b)' = IF b = a THEN Scar ELSE At(b)
    BY <1>1, <1>6, <2>1, KnownRecords, SetRecFacts DEF TypeInv
  <2>3. WholeNamed'
    BY <1>1, <2>2, KnownRecords DEF WholeNamed
  <2>4. \A j \in DOMAIN todo : todo[j].op # "move" /\ todo[j].op # "default"
    <3>1. SUFFICES ASSUME NEW j \in DOMAIN todo
                   PROVE  todo[j].op # "move" /\ todo[j].op # "default"
      OBVIOUS
    <3>2. CASE j = 1
      BY <1>2, <3>2
    <3>3. CASE j # 1
      <4>1. 1 \in 1..(j - 1)
        BY <1>2, <3>1, <3>3
      <4>2. todo[j].op # "default"
        BY <1>1, <1>2, <4>1 DEF DefaultReady
      <4>3. todo[j].op # "move"
        BY <1>1, <1>2, <3>3, MoveInFront DEF HeadIs
      <4> QED
        BY <4>2, <4>3
    <3> QED
      BY <3>2, <3>3
  <2>5. Plan(todo')
    BY <1>1, <1>6
  <2>6. MoveReady' /\ DefaultReady'
    BY <1>6, <2>4 DEF MoveReady, DefaultReady
  <2>7. BodyReady'
    BY <1>2, <1>6 DEF BodyReady, HeadIs
  <2> QED
    BY <1>1, <1>4, <2>2, <2>3, <2>5, <2>6, <2>7 DEF Basic, TypeInv, ram, caller
<1> QED
  BY <1>3, <1>5, <1>6

\* The default comes second, if at all.
Early(u) == \A i \in DOMAIN u : u[i].op = "default" => i = 2 /\ u[1].op = "repair" /\ u[i].sec = 1

\* The default stays second when steps are added behind.
LEMMA EarlyJoin ==
  ASSUME NEW s, IsSeq(s), s # <<>>, Early(s), NEW t, IsSeq(t), \A i \in DOMAIN t : t[i].op # "default",
         NEW u, IsCat(u, s, t)
  PROVE  Early(u) /\ IsSeq(u) /\ u # <<>> /\ u[1] = s[1]
<1>1. /\ Len(s) \in Nat /\ Len(s) >= 1 /\ DOMAIN s = 1..Len(s)
      /\ Len(t) \in Nat /\ DOMAIN t = 1..Len(t)
  BY SeqFacts
<1>2. /\ IsSeq(s \o t) /\ Len(s \o t) = Len(s) + Len(t)
      /\ DOMAIN (s \o t) = 1..(Len(s) + Len(t))
      /\ \A i \in 1..Len(s) : (s \o t)[i] = s[i]
      /\ \A i \in 1..Len(t) : (s \o t)[Len(s) + i] = t[i]
  BY JoinFacts
<1> DEFINE w == s \o t
<1>3. u = w
  BY DEF IsCat
<1> HIDE DEF w
<1>4. /\ IsSeq(w) /\ Len(w) = Len(s) + Len(t) /\ DOMAIN w = 1..(Len(s) + Len(t))
      /\ \A i \in 1..Len(s) : w[i] = s[i]
      /\ \A i \in 1..Len(t) : w[Len(s) + i] = t[i]
  BY <1>2 DEF w
<1>5. w[1] = s[1] /\ w # <<>>
  BY <1>1, <1>4, SeqFacts
<1>6. Early(w)
  <2>1. SUFFICES ASSUME NEW i \in DOMAIN w, w[i].op = "default"
                 PROVE  i = 2 /\ w[1].op = "repair" /\ w[i].sec = 1
    BY DEF Early
  <2>2. CASE i <= Len(s)
    BY <1>1, <1>4, <1>5, <2>1, <2>2 DEF Early
  <2>3. CASE ~(i <= Len(s))
    <3>1. i - Len(s) \in 1..Len(t) /\ i = Len(s) + (i - Len(s))
      BY <1>1, <1>4, <2>1, <2>3
    <3> QED
      BY <1>1, <1>4, <2>1, <3>1
  <2> QED
    BY <2>2, <2>3
<1> QED
  BY <1>3, <1>4, <1>5, <1>6

\* A list of calm steps is well formed.
LEMMA CalmClosed ==
  ASSUME NEW t, CalmPart(t)
  PROVE  Plan(t)
<1>1. IsSeq(t)
  BY DEF CalmPart, Part
<1>2. t # <<>> => Len(t) \in DOMAIN t
  BY <1>1, SeqFacts
<1> QED
  BY <1>2 DEF CalmPart, Plan, Calm, Late, Closed, Open

\* Two lists of calm steps in a row, named.
LEMMA CalmCat ==
  ASSUME NEW s, CalmPart(s), NEW t, CalmPart(t), NEW u, IsCat(u, s, t)
  PROVE  CalmPart(u)
BY CalmJoin DEF IsCat

\* Before its end a start does not recover, and it puts nothing.
Plain(u) == \A i \in DOMAIN u : u[i].op \notin {"recover", "recovered", "put"}

\* The elements of two lists in a row, named.
LEMMA CatAt ==
  ASSUME NEW s, IsSeq(s), NEW t, IsSeq(t), NEW u, IsCat(u, s, t)
  PROVE  /\ Ln(u) = Ln(s) + Ln(t) /\ Ln(s) \in Nat /\ Ln(t) \in Nat
         /\ \A i \in DOMAIN u : \/ i \in DOMAIN s /\ u[i] = s[i]
                                \/ \E j \in DOMAIN t : i = Ln(s) + j /\ u[i] = t[j]
<1>1. /\ Len(s) \in Nat /\ DOMAIN s = 1..Len(s)
      /\ Len(t) \in Nat /\ DOMAIN t = 1..Len(t)
  BY SeqFacts
<1> DEFINE w == s \o t
<1>2. /\ IsSeq(w) /\ Len(w) = Len(s) + Len(t)
      /\ DOMAIN w = 1..(Len(s) + Len(t))
      /\ \A i \in 1..Len(s) : w[i] = s[i]
      /\ \A i \in 1..Len(t) : w[Len(s) + i] = t[i]
  BY JoinFacts
<1>3. u = w
  BY DEF IsCat
<1> HIDE DEF w
<1>4. \A i \in DOMAIN w : \/ i \in DOMAIN s /\ w[i] = s[i]
                          \/ \E j \in DOMAIN t : i = Len(s) + j /\ w[i] = t[j]
  <2>1. SUFFICES ASSUME NEW i \in DOMAIN w, i \notin DOMAIN s
                 PROVE  \E j \in DOMAIN t : i = Len(s) + j /\ w[i] = t[j]
    BY <1>1, <1>2
  <2>2. i - Len(s) \in 1..Len(t) /\ i = Len(s) + (i - Len(s))
    BY <1>1, <1>2, <2>1
  <2> QED
    BY <1>1, <1>2, <2>2
<1> QED
  BY <1>1, <1>2, <1>3, <1>4 DEF Ln

\* The steps of the start.
LEMMA StartPart ==
  ASSUME Start
  PROVE  /\ CalmPart(todo') /\ Early(todo') /\ todo' # <<>> /\ todo'[1].op = "repair"
         /\ \A i \in DOMAIN todo' : /\ todo'[i].op \in {"recover", "recovered"} => i = Len(todo')
                                    /\ todo'[i].op # "put"
<1> DEFINE f == [s \in Sector |-> ResumeOf(s)]
           r == Repair
           d == DefaultFrom(1)
           c == Scars
           e == RecoverOf(<<1, 0>>)
           D == IF With("NONE") = Sector THEN <<d>> ELSE <<>>
<1>1. todo' = <<r>> \o D \o <<c>> \o f \o <<e>>
  BY DEF Start
<1>2. /\ StepOK(r) /\ Calm(r) /\ r.op = "repair"
      /\ StepOK(d) /\ Calm(d) /\ d.op = "default" /\ d.sec = 1
      /\ StepOK(c) /\ Calm(c) /\ c.op = "scars"
      /\ StepOK(e) /\ Calm(e) /\ e.op = "recover"
  BY Constants DEF Repair, DefaultFrom, Scars, RecoverOf, StepOK, Calm, Active, Writes, Late
<1>3. CalmPart(f)
  BY CalmEach
<1>4. \A i \in DOMAIN f : f[i].op = "resume"
  BY DEF ResumeOf
<1> HIDE DEF f, r, d, c, e
<1>5. CalmPart(<<r>>) /\ CalmPart(<<d>>) /\ CalmPart(<<c>>) /\ CalmPart(<<e>>)
  BY <1>2, CalmOne
<1>6. /\ <<r>> # <<>> /\ DOMAIN <<r>> = {1} /\ <<r>>[1] = r
      /\ <<d>> # <<>> /\ DOMAIN <<d>> = {1} /\ <<d>>[1] = d
      /\ <<c>> # <<>> /\ DOMAIN <<c>> = {1} /\ <<c>>[1] = c
      /\ <<e>> # <<>> /\ DOMAIN <<e>> = {1} /\ <<e>>[1] = e
  BY <1>2, One
<1>7. CalmPart(<<>>)
  BY NoStep DEF CalmPart, None
<1> DEFINE R == <<r>>
           C == <<c>>
           E == <<e>>
<1>8. PICK p, q, o : p = <<r>> \o D /\ q = p \o <<c>> /\ o = q \o f /\ todo' = o \o <<e>>
  BY <1>1
<1>9. CalmPart(p) /\ Early(p) /\ p # <<>> /\ p[1].op = "repair" /\ IsSeq(p)
  <2>1. CASE With("NONE") = Sector
    <3>1. p = <<r, d>>
      BY <1>8, <2>1, Pair
    <3>2. Follows(r, d)
      BY <1>2, CalmFollows
    <3>3. Part(<<r, d>>) /\ <<r, d>> # <<>> /\ <<r, d>>[1] = r /\ <<r, d>>[2] = d /\ DOMAIN <<r, d>> = {1, 2}
      BY <1>2, <3>2, Two
    <3> QED
      BY <1>2, <3>1, <3>3 DEF CalmPart, Early, Part
  <2>2. CASE With("NONE") # Sector
    <3>1. IsSeq(<<r>>)
      BY <1>5 DEF CalmPart, Part
    <3>2. p = <<r>>
      BY <1>8, <2>2, <3>1, Nothing
    <3> QED
      BY <1>2, <1>5, <1>6, <3>1, <3>2 DEF Early
  <2> QED
    BY <2>1, <2>2
<1>10. IsCat(q, p, C) /\ IsCat(o, q, f) /\ IsCat(todo', o, E)
  BY <1>8 DEF IsCat
<1>11. /\ CalmPart(C) /\ IsSeq(C) /\ (\A i \in DOMAIN C : C[i].op = "scars")
       /\ CalmPart(E) /\ IsSeq(E) /\ (\A i \in DOMAIN E : E[i].op = "recover")
       /\ IsSeq(f)
  BY <1>2, <1>3, <1>5, <1>6 DEF CalmPart, Part
<1> HIDE DEF C, E, D
<1>12. CalmPart(q) /\ Early(q) /\ q # <<>> /\ q[1].op = "repair" /\ IsSeq(q)
  BY <1>9, <1>10, <1>11, CalmCat, EarlyJoin
<1>13. CalmPart(o) /\ Early(o) /\ o # <<>> /\ o[1].op = "repair" /\ IsSeq(o)
  BY <1>3, <1>4, <1>10, <1>11, <1>12, CalmCat, EarlyJoin
<1>14. CalmPart(todo') /\ Early(todo') /\ todo' # <<>> /\ todo'[1].op = "repair"
  BY <1>10, <1>11, <1>13, CalmCat, EarlyJoin
<1>15. Plain(p)
  <2>1. CASE With("NONE") = Sector
    <3>1. IsSeq(<<r>>) /\ IsSeq(<<d>>)
      BY <1>5 DEF CalmPart, Part
    <3>2. IsCat(p, R, <<d>>)
      BY <1>8, <2>1 DEF IsCat, D
    <3> QED
      BY <1>2, <1>6, <3>1, <3>2, CatAt DEF Plain
  <2>2. CASE With("NONE") # Sector
    <3>1. IsSeq(<<r>>)
      BY <1>5 DEF CalmPart, Part
    <3>2. p = <<r>>
      BY <1>8, <2>2, <3>1, Nothing DEF D
    <3> QED
      BY <1>2, <1>6, <3>2 DEF Plain
  <2> QED
    BY <2>1, <2>2
<1>16. Plain(q)
  BY <1>9, <1>10, <1>11, <1>15, CatAt DEF Plain
<1>17. Plain(o)
  BY <1>4, <1>10, <1>11, <1>12, <1>16, CatAt DEF Plain
<1>18. DOMAIN E = {1} /\ Ln(E) = 1
  BY <1>2 DEF E, Ln
<1>19. PICK t : t = todo'
  OBVIOUS
<1>20. /\ Ln(t) = Ln(o) + 1
       /\ \A i \in DOMAIN t : \/ i \in DOMAIN o /\ t[i] = o[i]
                              \/ i = Ln(o) + 1 /\ t[i].op = "recover"
  <2>1. IsCat(t, o, E)
    BY <1>10, <1>19
  <2> QED
    BY <1>11, <1>13, <1>18, <2>1, CatAt
<1>21. \A i \in DOMAIN t : (t[i].op \in {"recover", "recovered"} => i = Len(t)) /\ t[i].op # "put"
  BY <1>17, <1>20 DEF Plain, Ln
<1> QED
  BY <1>14, <1>19, <1>21

\* Without power nothing is kept but the flash; a start is in progress while
\* the recovery flag is set.
Off == /\ power = "off" => /\ todo = <<>> /\ gcRequest = FALSE /\ lastDel = FALSE
                           /\ cache = [k \in Key |-> NoAddr]
       /\ recovering = (power = "boot")

\* A step needs one in front; power comes on at the end of the recovery, and by nothing else.
LEMMA StepPower ==
  ASSUME Step
  PROVE  /\ todo # <<>> /\ restarts' = restarts
         /\ \/ UNCHANGED <<power, recovering>>
            \/ HeadIs("recovered") /\ ~gcRequest /\ power' = "on" /\ recovering' = FALSE
<1>1. CASE Mark
  BY <1>1 DEF Mark, HeadIs
<1>2. CASE Dirty
  BY <1>2 DEF Dirty, HeadIs, ram
<1>3. CASE Use
  BY <1>3 DEF Use, HeadIs, ram
<1>4. CASE WriteHead
  BY <1>4 DEF WriteHead, HeadIs, ram
<1>5. CASE WriteBody
  BY <1>5 DEF WriteBody, HeadIs, ram
<1>6. CASE Commit
  BY <1>6 DEF Commit, HeadIs, ram
<1>7. CASE Put
  BY <1>7 DEF Put, HeadIs, ram
<1>8. CASE Return
  BY <1>8 DEF Return, HeadIs, ram
<1>9. CASE StartGc
  BY <1>9 DEF StartGc, HeadIs, ram
<1>10. CASE FinishGc
  BY <1>10 DEF FinishGc, HeadIs, ram
<1>11. CASE Collect
  BY <1>11 DEF Collect, HeadIs, ram
<1>12. CASE Sweep
  BY <1>12 DEF Sweep, HeadIs, ram
<1>13. CASE Move
  BY <1>13 DEF Move, HeadIs, ram
<1>14. CASE Erase
  BY <1>14 DEF Erase, HeadIs, ram
<1>15. CASE Header
  BY <1>15 DEF Header, HeadIs, ram
<1>16. CASE RepairSector
  BY <1>16 DEF RepairSector, HeadIs, ram
<1>17. CASE SetDefault
  BY <1>17 DEF SetDefault, HeadIs, ram
<1>18. CASE MarkScar
  BY <1>18 DEF MarkScar, HeadIs, ram
<1>19. CASE ResumeGc
  BY <1>19 DEF ResumeGc, HeadIs, ram
<1>20. CASE Recover
  BY <1>20 DEF Recover, HeadIs, ram
<1>21. CASE Recovered
  BY <1>21 DEF Recovered, HeadIs, ram
<1> QED
  BY <1>1, <1>2, <1>3, <1>4, <1>5, <1>6, <1>7, <1>8, <1>9, <1>10, <1>11, <1>12, <1>13, <1>14,
     <1>15, <1>16, <1>17, <1>18, <1>19, <1>20, <1>21 DEF Step

\* The first invariant holds behind the begin of efd_load_env.
LEMMA StartKeeps == ASSUME Basic, Off, Start PROVE Basic'
<1>1. /\ CalmPart(todo') /\ Early(todo') /\ todo' # <<>> /\ todo'[1].op = "repair" /\ Plan(todo')
  BY StartPart, CalmClosed
<1>2. UNCHANGED <<flash, gcRequest, lastDel, cache, caller, restarts>> /\ power' = "boot" /\ recovering' = TRUE
      /\ power = "off"
  BY DEF Start
<1>3. Head(todo') = todo'[1]
  BY <1>1, SeqFacts DEF CalmPart, Part
<1>4. MoveReady' /\ BodyReady'
  BY <1>1, <1>3 DEF MoveReady, BodyReady, HeadIs, CalmPart, Calm, Late
<1>5. DefaultReady'
  <2>1. ~gcRequest'
    BY <1>2 DEF Off
  <2>2. \A i \in DOMAIN todo' : todo'[i].op = "default" => i = 2 /\ todo'[1].op = "repair" /\ todo'[i].sec = 1
    BY <1>1 DEF Early
  <2>3. \A s \in Sector : ~(s < 0)
    BY Constants
  <2>4. \A j \in 1..1 : j = 1
    OBVIOUS
  <2> QED
    BY <2>1, <2>2, <2>3, <2>4 DEF DefaultReady
<1> QED
  BY <1>1, <1>2, <1>4, <1>5 DEF Basic, TypeInv, WholeNamed, caller, At

\* A call begins when nothing is in progress.
LEMMA CallKeeps ==
  ASSUME Basic, NEW k \in Key, NEW v \in Value, CallDelete(k) \/ CallGet(k) \/ CallSet(k, v)
  PROVE  Basic'
<1>1. TypeInv /\ Plan(todo) /\ WholeNamed
  BY DEF Basic, TypeInv
<1>2. Idle /\ UNCHANGED <<flash, gcRequest, lastDel, recovering, power, taken, result, restarts>>
  BY DEF CallDelete, CallGet, CallSet, Call, caller
<1>3. Find(k) \in Addr \cup {NoAddr} /\ FoundInCache(k) \in [Key -> Addr \cup {NoAddr}]
  BY <1>1, FindFacts DEF TypeInv
<1>4. cache' \in [Key -> Addr \cup {NoAddr}]
  BY <1>1, <1>3 DEF TypeInv, CallDelete, CallGet, CallSet
<1>5. calls' \in 0..MaxCalls
  <2>1. MaxCalls \in Nat /\ calls \in 0..MaxCalls
    BY <1>1, StoreAssumption DEF TypeInv
  <2>2. calls' = calls \/ (calls < MaxCalls /\ calls' = calls + 1)
    BY DEF CallDelete, CallGet, CallSet, Call, caller
  <2> QED
    BY <2>1, <2>2
<1> DEFINE p == PutOf(k, v, FALSE)
           m == ReturnOf("missing")
           d == MarkOf(Find(k), "DELETED")
           e == ReturnOf("ok")
<1>6. \/ todo' = <<>>
      \/ todo' = <<p>>
      \/ todo' = <<m>>
      \/ Find(k) # NoAddr /\ todo' = <<d, e>>
  BY <1>2 DEF CallDelete, CallGet, CallSet, Idle
<1>7. /\ StepOK(p) /\ p.op = "put" /\ Closed(p)
      /\ StepOK(m) /\ m.op = "return" /\ Closed(m)
      /\ StepOK(e) /\ e.op = "return" /\ Closed(e)
      /\ d.op = "mark" /\ Follows(d, e)
  BY DEF PutOf, ReturnOf, MarkOf, StepOK, Active, Writes, Late, Closed, Open, Follows
<1>8. Find(k) # NoAddr => StepOK(d)
  BY <1>3 DEF MarkOf, StepOK, Active, Writes, Late
<1> HIDE DEF p, m, d, e
<1>9. PICK t : t = todo'
  OBVIOUS
<1>10. Plan(t) /\ (t # <<>> => t[1].op # "body") /\ \A i \in DOMAIN t : t[i].op # "move" /\ t[i].op # "default"
  <2>1. CASE t = <<>>
    BY <2>1, NoStep DEF None, Plan
  <2>2. CASE t = <<p>>
    <3>1. Part(<<p>>) /\ <<p>> # <<>> /\ Len(<<p>>) = 1 /\ <<p>>[1] = p /\ DOMAIN <<p>> = {1}
      BY <1>7, One
    <3> QED
      BY <1>7, <2>2, <3>1 DEF Plan
  <2>3. CASE t = <<m>>
    <3>1. Part(<<m>>) /\ <<m>> # <<>> /\ Len(<<m>>) = 1 /\ <<m>>[1] = m /\ DOMAIN <<m>> = {1}
      BY <1>7, One
    <3> QED
      BY <1>7, <2>3, <3>1 DEF Plan
  <2>4. CASE Find(k) # NoAddr /\ t = <<d, e>>
    <3>1. Part(<<d, e>>) /\ <<d, e>> # <<>> /\ Len(<<d, e>>) = 2 /\ <<d, e>>[1] = d /\ <<d, e>>[2] = e
          /\ DOMAIN <<d, e>> = {1, 2}
      BY <1>7, <1>8, <2>4, Two
    <3> QED
      BY <1>7, <2>4, <3>1 DEF Plan
  <2> QED
    BY <1>6, <1>9, <2>1, <2>2, <2>3, <2>4
<1>11. MoveReady' /\ DefaultReady'
  BY <1>9, <1>10 DEF MoveReady, DefaultReady
<1>12. BodyReady'
  <2>1. t # <<>> => Head(t) = t[1]
    BY <1>10, SeqFacts DEF Plan, Part
  <2> QED
    BY <1>9, <1>10, <2>1 DEF BodyReady, HeadIs
<1> QED
  BY <1>1, <1>2, <1>4, <1>5, <1>9, <1>10, <1>11, <1>12 DEF Basic, TypeInv, WholeNamed, At

\* The first invariant holds behind a loss of power.
LEMMA LosePowerKeeps == ASSUME Basic, LosePower PROVE Basic'
<1>1. TypeInv /\ Plan(todo) /\ WholeNamed
  BY DEF Basic, TypeInv
<1>2. /\ power' = "off" /\ todo' = None /\ gcRequest' = FALSE /\ lastDel' = FALSE /\ recovering' = FALSE
      /\ cache' = [k \in Key |-> NoAddr] /\ taken' = FALSE /\ UNCHANGED <<result, calls>>
      /\ \/ UNCHANGED flash
         \/ HeadIs("head") /\ SetRec(Head(todo).addr, Scar)
  BY DEF LosePower, None
<1>3. restarts' \in 0..MaxRestarts
  <2>1. MaxRestarts \in Nat /\ restarts \in 0..MaxRestarts
    BY <1>1, StoreAssumption DEF TypeInv
  <2>2. restarts < MaxRestarts /\ restarts' = restarts + 1
    BY DEF LosePower
  <2> QED
    BY <2>1, <2>2
<1>4. Typed(flash') /\ WholeNamed'
  <2>1. CASE UNCHANGED flash
    BY <1>1, <2>1 DEF TypeInv, Typed, WholeNamed, At
  <2>2. CASE HeadIs("head") /\ SetRec(Head(todo).addr, Scar)
    <3>1. Head(todo).addr \in Addr
      BY <1>1, <2>2, HeadFacts DEF StepOK
    <3>2. PICK a \in Addr : a = Head(todo).addr
      BY <3>1
    <3>3. Typed(flash') /\ \A b \in Addr : At(b)' = IF b = a THEN Scar ELSE At(b)
      BY <1>1, <2>2, <3>2, KnownRecords, SetRecFacts DEF TypeInv
    <3> QED
      BY <1>1, <3>3, KnownRecords DEF WholeNamed
  <2> QED
    BY <1>2, <2>1, <2>2
<1>5. cache' \in [Key -> Addr \cup {NoAddr}]
  BY <1>2
<1>6. Plan(None)
  BY NoStep DEF Plan
<1>7. MoveReady' /\ DefaultReady' /\ BodyReady'
  BY <1>2, NoStep DEF MoveReady, DefaultReady, BodyReady, HeadIs
<1> QED
  BY <1>1, <1>2, <1>3, <1>4, <1>5, <1>6, <1>7 DEF Basic, TypeInv

\* The first invariant holds behind every step.
LEMMA BasicStep == ASSUME Basic, Step PROVE Basic'
BY UseKeeps, WriteBodyKeeps, CommitKeeps, ReturnKeeps, FinishGcKeeps, StartGcKeeps, CollectKeeps, ResumeKeeps,
   RecoveredKeeps, PutKeeps, MoveKeeps, SweepKeeps, RecoverKeeps, WriteHeadKeeps, DirtyKeeps, MarkKeeps,
   EraseKeeps, HeaderKeeps, RepairKeeps, SetDefaultKeeps, MarkScarKeeps DEF Step

\* The first invariant is inductive.
LEMMA BasicNext == ASSUME Basic, Off, [Next]_vars PROVE Basic' /\ Off'
<1>1. ASSUME Start PROVE Basic' /\ Off'
  <2>1. power' = "boot" /\ recovering' = TRUE
    BY <1>1 DEF Start
  <2> QED
    BY <1>1, <2>1, StartKeeps DEF Off
<1>2. ASSUME Step PROVE Basic' /\ Off'
  <2>1. todo # <<>> /\ (UNCHANGED <<power, recovering>> \/ (power' = "on" /\ recovering' = FALSE))
    BY <1>2, StepPower
  <2> QED
    BY <1>2, <2>1, BasicStep DEF Off
<1>3. ASSUME NEW k \in Key, CallDelete(k) \/ CallGet(k) \/ \E v \in Value : CallSet(k, v)
      PROVE  Basic' /\ Off'
  <2>1. Idle /\ UNCHANGED <<recovering, power>>
    BY <1>3 DEF CallDelete, CallGet, CallSet, Call
  <2>2. DefaultValue \in Value
    BY Constants
  <2> QED
    BY <1>3, <2>1, <2>2, CallKeeps DEF Off, Idle
<1>4. ASSUME LosePower PROVE Basic' /\ Off'
  BY <1>4, LosePowerKeeps DEF Off, LosePower
<1>5. CASE UNCHANGED vars
  BY <1>5 DEF vars, ram, caller, Basic, TypeInv, WholeNamed, BodyReady, MoveReady, DefaultReady, Off, HeadIs, At
<1> QED
  BY <1>1, <1>2, <1>3, <1>4, <1>5 DEF Next

\* The first invariant holds in the beginning.
LEMMA BasicInit == ASSUME Init PROVE Basic /\ Off
<1>1. Typed(flash)
  <2>1. Erased \in [store : Stores, dirty : Dirts, recs : [Offset -> Record]]
    BY KnownRecords DEF Erased, Stores, Dirts
  <2> QED
    BY <2>1 DEF Init, Typed
<1>2. \A a \in Addr : At(a) = Blank
  BY Addresses DEF Init, At, Erased
<1>3. todo = None /\ Plan(None)
  BY NoStep DEF Init, None, Plan
<1>4. MaxCalls \in Nat /\ MaxRestarts \in Nat
  BY StoreAssumption
<1>5. TypeInv
  <2>1. Plan(todo)
    BY <1>3
  <2>2. cache \in [Key -> Addr \cup {NoAddr}]
    BY DEF Init
  <2>3. power \in {"off", "boot", "on"} /\ result \in {"ok", "full", "missing"}
    BY DEF Init
  <2>4. calls \in 0..MaxCalls /\ restarts \in 0..MaxRestarts
    BY <1>4 DEF Init
  <2>5. gcRequest \in BOOLEAN /\ lastDel \in BOOLEAN /\ recovering \in BOOLEAN /\ taken \in BOOLEAN
    BY Zenon DEF Init
  <2> QED
    BY <1>1, <2>1, <2>2, <2>3, <2>4, <2>5 DEF TypeInv
<1>6. WholeNamed
  BY <1>2, KnownRecords DEF WholeNamed
<1>7. MoveReady /\ DefaultReady
  BY <1>3, NoStep DEF MoveReady, DefaultReady
<1>8. BodyReady
  BY <1>3, NoStep DEF BodyReady, HeadIs
<1>9. Off
  BY DEF Init, Off
<1> QED
  BY <1>5, <1>6, <1>7, <1>8, <1>9 DEF Basic

\* The first invariant holds in every state.
THEOREM BasicHolds == Spec => [](Basic /\ Off)
<1>1. Init => Basic /\ Off
  BY BasicInit
<1>2. Basic /\ Off /\ [Next]_vars => (Basic /\ Off)'
  BY BasicNext
<1> QED
  BY <1>1, <1>2, PTL DEF Spec

\* Every variable has the values the code can give it, and no record is
\* written beyond its sector (alloc_env, write_env_hdr), for all sizes of flash,
\* of records and of behaviours, with power lost between any two writes.
THEOREM TypeCorrect == Spec => []TypeOK
<1>1. Basic => TypeOK
  <2>1. SUFFICES ASSUME Basic PROVE TypeOK
    OBVIOUS
  <2>2. \A i \in DOMAIN todo : todo[i].op = "head" =>
           todo[i].addr \in Addr /\ todo[i].addr[2] + Size[todo[i].val] <= SectorSize
    BY <2>1 DEF Basic, TypeInv, Plan, Part, StepOK
  <2> QED
    BY <2>1, <2>2 DEF Basic, TypeInv, Typed, TypeOK
<1> QED
  BY <1>1, BasicHolds, PTL

-----------------------------------------------------------------------------
(* The second invariant: a key has one valid record.                         *)

W(a) == At(a).whole /\ At(a).st = "WRITE"

D(a) == At(a).whole /\ At(a).st = "PRE_DELETE"

\* The step in front takes the record at this address out of use.
Under(b) == HeadIs("mark") /\ Head(todo).st = "PRE_DELETE" /\ Head(todo).addr = b

\* A new record of the key may be written.
Free(k) == \A b \in Addr : W(b) /\ At(b).key = k => Under(b)

Unique == \A a, b \in Addr : W(a) /\ W(b) /\ At(a).key = At(b).key => a = b

\* A sector with a record is in use.
Shape == \A a \in Addr : At(a) # Blank => flash[a[1]].store \in {"USING", "FULL"}

\* The cache points to the valid record, if there is one.
CacheInv == \A k \in Key : CacheHit(k) => \A b \in Addr : W(b) /\ At(b).key = k => b = cache[k]

MarkInv == \A i \in DOMAIN todo, a \in Addr :
             todo[i].op = "mark" /\ todo[i].addr = a => At(a).key \in Key

HeadInv == \A i \in DOMAIN todo, a \in Addr :
             todo[i].op = "head" /\ todo[i].addr = a =>
               /\ Free(todo[i].key) /\ At(a) = Blank
               /\ flash[a[1]].store \in IF i = 1 THEN {"USING", "FULL"} ELSE {"EMPTY", "USING"}

WriteInv == \A a \in Addr :
              (HeadIs("body") \/ HeadIs("commit")) /\ Head(todo).addr = a =>
                /\ At(a).st = "PRE_WRITE" /\ Free(At(a).key)
                /\ HeadIs("commit") => At(a).whole

MoveInv == \A i \in DOMAIN todo, a \in Addr :
             todo[i].op = "move" /\ todo[i].addr = a => recovering \/ Free(At(a).key)

\* What replaces a record strikes it out at its end.
Repl == HeadIs("mark") /\ Head(todo).st = "PRE_DELETE" /\ 2 \in DOMAIN todo /\ todo[2].op = "use" =>
          6 \in DOMAIN todo /\ todo[6].op = "mark" /\ todo[6].st = "DELETED" /\ todo[6].addr = Head(todo).addr

\* A record taken out of use will be struck out, or moved, or is lost with its
\* sector.
Pending(a) ==
  \/ \E i \in DOMAIN todo : \/ todo[i].op = "mark" /\ todo[i].st = "DELETED" /\ todo[i].addr = a
                            \/ todo[i].op = "move" /\ todo[i].addr = a
  \/ /\ \E i \in DOMAIN todo : todo[i].op = "erase" /\ todo[i].sec = a[1]
     /\ \A i \in DOMAIN todo : todo[i].op = "sweep" => todo[i].off > a[2]

PendingInv == power = "on" => \A a \in Addr : D(a) => Pending(a)

\* The recovery is the last step of a start.
EndInv == \A i \in DOMAIN todo :
            /\ todo[i].op \in {"recover", "recovered"} => i = Len(todo) /\ power = "boot"
            /\ todo[i].op = "move" /\ todo[i].by = "start" => power = "boot"

LiveInv == /\ Unique /\ Shape /\ CacheInv
           /\ MarkInv /\ HeadInv /\ WriteInv /\ MoveInv /\ Repl /\ PendingInv /\ EndInv

\* A start that copies a record finds the successor of it.
Named == HeadIs("move") /\ recovering => ~StrayName

-----------------------------------------------------------------------------
\* A step that is not in front stands in order behind the one that is.
LEMMA FrontActive ==
  ASSUME Plan(todo), NEW j \in DOMAIN todo, j >= 2
  PROVE  /\ todo # <<>> /\ 1 \in DOMAIN todo /\ Head(todo) = todo[1] /\ StepOK(todo[j])
         /\ Before1(Head(todo), todo[j])
<1>1. IsSeq(todo) /\ Part(todo)
  BY DEF Plan, Part
<1>2. DOMAIN todo = 1..Len(todo) /\ Len(todo) \in Nat /\ todo # <<>> /\ Head(todo) = todo[1]
  BY <1>1, SeqFacts
<1>3. 1 \in DOMAIN todo /\ 1 < j
  BY <1>2
<1>4. Before1(todo[1], todo[j])
  BY <1>1, <1>3, InOrder
<1>5. StepOK(todo[j])
  BY <1>1 DEF Part
<1> QED
  BY <1>2, <1>3, <1>4, <1>5

\* A record to be written is near the front.
LEMMA HeadPlace ==
  ASSUME Plan(todo), NEW j \in DOMAIN todo, j >= 2, todo[j].op = "head"
  PROVE  \/ j = 2 /\ HeadIs("use") /\ Head(todo).sec = todo[j].addr[1]
         \/ j = 3 /\ (HeadIs("dirty") \/ (HeadIs("mark") /\ Head(todo).st = "PRE_DELETE"))
<1>1. IsSeq(todo) /\ Part(todo)
  BY DEF Plan, Part
<1>2. DOMAIN todo = 1..Len(todo) /\ Len(todo) \in Nat /\ todo # <<>> /\ Head(todo) = todo[1]
  BY <1>1, SeqFacts
<1>3. Follows(todo[j - 1], todo[j]) /\ j - 1 \in DOMAIN todo
  <2>1. j - 1 \in DOMAIN todo /\ (j - 1) + 1 = j
    BY <1>2
  <2> QED
    BY <1>1, <2>1 DEF Part
<1>4. todo[j - 1].op = "use" /\ todo[j - 1].sec = todo[j].addr[1]
  BY <1>3 DEF Follows
<1>5. CASE j = 2
  BY <1>2, <1>4, <1>5 DEF HeadIs
<1>6. CASE j # 2
  <2>1. Follows(todo[j - 2], todo[j - 1]) /\ j - 2 \in DOMAIN todo
    <3>1. j - 2 \in DOMAIN todo /\ (j - 2) + 1 = j - 1 /\ j - 1 \in DOMAIN todo
      BY <1>2, <1>6
    <3> QED
      BY <1>1, <3>1 DEF Part
  <2>2. todo[j - 2].op = "dirty" \/ (todo[j - 2].op = "mark" /\ todo[j - 2].st = "PRE_DELETE")
    BY <1>4, <2>1 DEF Follows
  <2>3. j = 3
    <3>1. SUFFICES ASSUME j # 3 PROVE FALSE
      OBVIOUS
    <3>2. j - 3 \in DOMAIN todo /\ (j - 3) + 1 = j - 2 /\ j - 2 \in DOMAIN todo
      BY <1>2, <1>6, <3>1
    <3>3. Follows(todo[j - 3], todo[j - 2])
      BY <1>1, <3>2 DEF Part
    <3> QED
      BY <2>2, <3>3 DEF Follows
  <2> QED
    BY <1>2, <2>2, <2>3 DEF HeadIs
<1> QED
  BY <1>5, <1>6

\* Behind the steps of calls, collections and starts, and behind an erasure,
\* nothing is written.
Still(op) == op \in Late \cup {"sweep", "erase", "header"}

\* What is behind the steps of calls, collections and starts.
LEMMA RestStill ==
  ASSUME Plan(todo), NEW op, HeadIs(op), Still(op)
  PROVE  /\ \A j \in DOMAIN todo : j >= 2 => todo[j].op \in Late \cup {"erase", "header"}
         /\ op \in Late => \A j \in DOMAIN todo : j >= 2 => todo[j].op \in Late
         /\ op \in {"erase", "header"} => \A j \in DOMAIN todo : j >= 2 => todo[j].op # "erase"
<1>1. SUFFICES ASSUME NEW j \in DOMAIN todo, j >= 2
               PROVE  /\ todo[j].op \in Late \cup {"erase", "header"}
                      /\ op \in Late => todo[j].op \in Late
                      /\ op \in {"erase", "header"} => todo[j].op # "erase"
  OBVIOUS
<1>2. Before1(Head(todo), todo[j]) /\ StepOK(todo[j]) /\ Head(todo).op = op
  BY <1>1, FrontActive DEF HeadIs
<1> QED
  BY <1>2 DEF Before1, StepOK, Still, Late, Active, Writes

\* A mark that is not in front strikes out, and is not in front next.
LEMMA MarkPlace ==
  ASSUME Plan(todo), NEW j \in DOMAIN todo, j >= 2, todo[j].op = "mark"
  PROVE  todo[j].st = "DELETED" /\ Head(todo).op \in Active
<1>1. IsSeq(todo) /\ Part(todo)
  BY DEF Plan, Part
<1>2. DOMAIN todo = 1..Len(todo) /\ Len(todo) \in Nat
  BY <1>1, SeqFacts
<1>3. Follows(todo[j - 1], todo[j])
  <2>1. j - 1 \in DOMAIN todo /\ (j - 1) + 1 = j
    BY <1>2
  <2> QED
    BY <1>1, <2>1 DEF Part
<1>4. Before1(Head(todo), todo[j])
  BY FrontActive
<1> QED
  BY <1>3, <1>4 DEF Follows, Before1, Active

-----------------------------------------------------------------------------
(* What a step that puts others in front keeps of the second invariant.      *)

\* The steps that are next are the new ones, and behind them the old ones.
LEMMA Steps ==
  ASSUME Plan(todo), todo # <<>>, NEW s, Part(s), Go(s)
  PROVE  /\ \A i \in DOMAIN todo' :
              \/ i \in DOMAIN s /\ todo'[i] = s[i]
              \/ \E j \in DOMAIN todo : j >= 2 /\ i = j + Len(s) - 1 /\ todo'[i] = todo[j]
         /\ \A i \in DOMAIN s : i \in DOMAIN todo' /\ todo'[i] = s[i]
         /\ \A j \in DOMAIN todo : j >= 2 => \E i \in DOMAIN todo' : i = j + Len(s) - 1 /\ todo'[i] = todo[j]
         /\ todo' # <<>> => 1 \in DOMAIN todo' /\ Head(todo') = todo'[1]
         /\ Len(s) \in Nat /\ DOMAIN s = 1..Len(s) /\ (s # <<>> <=> 1 \in DOMAIN s)
         /\ Len(todo) \in Nat /\ DOMAIN todo = 1..Len(todo) /\ Head(todo) = todo[1]
         /\ Len(todo') = Len(s) + Len(todo) - 1 /\ IsSeq(todo')
<1>1. IsSeq(todo) /\ IsSeq(s)
  BY DEF Plan, Part
<1>2. /\ Len(todo') = Len(s) + Len(todo) - 1 /\ IsSeq(todo') /\ Len(s) \in Nat /\ Len(todo) \in Nat
      /\ DOMAIN todo = 1..Len(todo) /\ DOMAIN s = 1..Len(s) /\ Head(todo) = todo[1]
      /\ \A i \in DOMAIN s : i \in DOMAIN todo' /\ todo'[i] = s[i]
      /\ \A j \in DOMAIN todo : j >= 2 =>
           Len(s) + j - 1 \in DOMAIN todo' /\ todo'[Len(s) + j - 1] = todo[j]
  BY <1>1, GoIndex
<1>3. todo' # <<>> => 1 \in DOMAIN todo' /\ Head(todo') = todo'[1]
  BY <1>2, SeqFacts
<1>4. s # <<>> <=> 1 \in DOMAIN s
  BY <1>1, SeqFacts
<1>5. \A i \in DOMAIN todo' :
              \/ i \in DOMAIN s /\ todo'[i] = s[i]
              \/ \E j \in DOMAIN todo : j >= 2 /\ i = j + Len(s) - 1 /\ todo'[i] = todo[j]
  BY Rest
<1>6. \A j \in DOMAIN todo : j >= 2 => \E i \in DOMAIN todo' : i = j + Len(s) - 1 /\ todo'[i] = todo[j]
  <2>1. \A j \in DOMAIN todo : Len(s) + j - 1 = j + Len(s) - 1
    BY <1>2
  <2> QED
    BY <1>2, <2>1
<1> QED
  BY <1>2, <1>3, <1>4, <1>5, <1>6

\* What is to be marked has a key still.
LEMMA MarksKept ==
  ASSUME Plan(todo), todo # <<>>, NEW s, Part(s), Go(s), MarkInv,
         \A b \in Addr : At(b).key \in Key => At(b)'.key \in Key,
         \A i \in DOMAIN s, b \in Addr : s[i].op = "mark" /\ s[i].addr = b => At(b)'.key \in Key
  PROVE  MarkInv'
<1>1. SUFFICES ASSUME NEW i \in DOMAIN todo', NEW b \in Addr, todo'[i].op = "mark", todo'[i].addr = b
               PROVE  At(b)'.key \in Key
  BY DEF MarkInv
<1>2. CASE i \in DOMAIN s /\ todo'[i] = s[i]
  BY <1>1, <1>2
<1>3. ASSUME NEW j \in DOMAIN todo, todo'[i] = todo[j]
      PROVE  At(b)'.key \in Key
  BY <1>1, <1>3 DEF MarkInv
<1> QED
  BY <1>1, <1>2, <1>3, Steps

\* No record is about to be written that was not before.
LEMMA HeadsKept ==
  ASSUME Plan(todo), todo # <<>>, NEW s, Part(s), Go(s),
         Head(todo).op \notin {"use", "dirty", "mark"}, \A i \in DOMAIN s : s[i].op # "head"
  PROVE  HeadInv'
<1>1. SUFFICES ASSUME NEW i \in DOMAIN todo', todo'[i].op = "head"
               PROVE  FALSE
  BY DEF HeadInv
<1>2. ASSUME NEW j \in DOMAIN todo, j >= 2, todo'[i] = todo[j]
      PROVE  FALSE
  BY <1>1, <1>2, HeadPlace DEF HeadIs
<1> QED
  BY <1>1, <1>2, Steps

\* No record is being written that was not before.
LEMMA WritesKept ==
  ASSUME Plan(todo), todo # <<>>, NEW s, Part(s), Go(s),
         Head(todo).op \notin {"head", "body"}, s # <<>> => s[1].op \notin {"body", "commit"}
  PROVE  WriteInv'
<1>1. SUFFICES ASSUME todo' # <<>>, Head(todo').op \in {"body", "commit"}
               PROVE  FALSE
  BY DEF WriteInv, HeadIs
<1>2. 1 \in DOMAIN todo' /\ Head(todo') = todo'[1] /\ Len(s) \in Nat /\ DOMAIN s = 1..Len(s) /\ (s # <<>> <=> 1 \in DOMAIN s)
  BY <1>1, Steps
<1>3. CASE 1 \in DOMAIN s /\ todo'[1] = s[1]
  BY <1>1, <1>2, <1>3
<1>4. ASSUME NEW j \in DOMAIN todo, j >= 2, 1 = j + Len(s) - 1, todo'[1] = todo[j]
      PROVE  FALSE
  <2>1. DOMAIN todo = 1..Len(todo) /\ Len(todo) \in Nat /\ Head(todo) = todo[1]
    BY Front
  <2>2. j = 2
    BY <1>2, <1>4, <2>1
  <2>3. Follows(todo[1], todo[2])
    BY <1>4, <2>1, <2>2, Front
  <2> QED
    BY <1>1, <1>2, <1>4, <2>1, <2>2, <2>3 DEF Follows
<1> QED
  BY <1>2, <1>3, <1>4, Steps

\* What is to be copied still has no valid successor.
LEMMA MovesFree ==
  ASSUME Plan(todo), todo # <<>>, NEW s, Part(s), Go(s),
         Head(todo).op \notin {"dirty", "mark"}, \A i \in DOMAIN s : s[i].op # "move"
  PROVE  MoveInv'
<1>1. SUFFICES ASSUME NEW i \in DOMAIN todo', todo'[i].op = "move"
               PROVE  FALSE
  BY DEF MoveInv
<1>2. ASSUME NEW j \in DOMAIN todo, j >= 2, todo'[i] = todo[j]
      PROVE  FALSE
  <2>1. j # 1
    BY <1>2, Steps
  <2> QED
    BY <1>1, <1>2, <2>1, MoveInFront DEF HeadIs
<1> QED
  BY <1>1, <1>2, Steps

\* No record is about to be taken out of use.
LEMMA ReplKept ==
  ASSUME Plan(todo), todo # <<>>, NEW s, Part(s), Go(s),
         s # <<>> => ~(s[1].op = "mark" /\ s[1].st = "PRE_DELETE" )
  PROVE  /\ Repl'
         /\ ~(todo' # <<>> /\ Head(todo').op = "mark" /\ Head(todo').st = "PRE_DELETE")
<1>1. SUFFICES ASSUME todo' # <<>>, Head(todo').op = "mark", Head(todo').st = "PRE_DELETE"
               PROVE  FALSE
  BY DEF Repl, HeadIs
<1>2. 1 \in DOMAIN todo' /\ Head(todo') = todo'[1] /\ (s # <<>> <=> 1 \in DOMAIN s)
  BY <1>1, Steps
<1>3. ASSUME NEW j \in DOMAIN todo, j >= 2, todo'[1] = todo[j]
      PROVE  FALSE
  BY <1>1, <1>2, <1>3, MarkPlace
<1>4. CASE 1 \in DOMAIN s /\ todo'[1] = s[1]
  BY <1>1, <1>2, <1>4
<1> QED
  BY <1>2, <1>3, <1>4, Steps

\* The recovery stays last.
LEMMA EndKept ==
  ASSUME Plan(todo), todo # <<>>, NEW s, Part(s), Go(s), EndInv, power' = power,
         \A i \in DOMAIN s : /\ s[i].op \notin {"recover", "recovered"}
                             /\ s[i].op = "move" => s[i].by # "start"
  PROVE  EndInv'
<1>1. SUFFICES ASSUME NEW i \in DOMAIN todo'
               PROVE  /\ todo'[i].op \in {"recover", "recovered"} => i = Len(todo') /\ power' = "boot"
                      /\ todo'[i].op = "move" /\ todo'[i].by = "start" => power' = "boot"
  BY DEF EndInv
<1>2. CASE i \in DOMAIN s /\ todo'[i] = s[i]
  BY <1>2
<1>3. ASSUME NEW j \in DOMAIN todo, j >= 2, i = j + Len(s) - 1, todo'[i] = todo[j]
      PROVE  /\ todo'[i].op \in {"recover", "recovered"} => i = Len(todo') /\ power' = "boot"
             /\ todo'[i].op = "move" /\ todo'[i].by = "start" => power' = "boot"
  <2>1. /\ todo[j].op \in {"recover", "recovered"} => j = Len(todo) /\ power = "boot"
        /\ todo[j].op = "move" /\ todo[j].by = "start" => power = "boot"
    BY <1>3 DEF EndInv
  <2>2. j = Len(todo) => i = Len(todo')
    BY <1>3, Steps
  <2> QED
    BY <1>3, <2>1, <2>2
<1> QED
  BY <1>2, <1>3, Steps

\* A record that is to be struck out still is, unless it is done.
LEMMA PendingKept ==
  ASSUME Plan(todo), todo # <<>>, NEW s, Part(s), Go(s), NEW a \in Addr, Pending(a),
         Head(todo).op \in {"mark", "move"} => Head(todo).addr # a,
         Head(todo).op = "erase" => Head(todo).sec # a[1],
         \A i \in DOMAIN s : s[i].op = "sweep" => s[i].off > a[2]
  PROVE  Pending(a)'
<1>1. /\ Head(todo) = todo[1] /\ DOMAIN todo = 1..Len(todo) /\ Len(todo) \in Nat
      /\ \A j \in DOMAIN todo : j >= 2 => \E i \in DOMAIN todo' : todo'[i] = todo[j]
      /\ \A i \in DOMAIN todo' : \/ i \in DOMAIN s /\ todo'[i] = s[i]
                                 \/ \E j \in DOMAIN todo : todo'[i] = todo[j]
  BY Steps
<1>2. ASSUME NEW j \in DOMAIN todo,
             \/ todo[j].op = "mark" /\ todo[j].st = "DELETED" /\ todo[j].addr = a
             \/ todo[j].op = "move" /\ todo[j].addr = a
      PROVE  Pending(a)'
  <2>1. j >= 2
    BY <1>1, <1>2
  <2>2. PICK i \in DOMAIN todo' : todo'[i] = todo[j]
    BY <1>1, <2>1
  <2> QED
    BY <1>2, <2>2 DEF Pending
<1>3. ASSUME NEW j \in DOMAIN todo, todo[j].op = "erase", todo[j].sec = a[1],
             \A i \in DOMAIN todo : todo[i].op = "sweep" => todo[i].off > a[2]
      PROVE  Pending(a)'
  <2>1. j >= 2
    BY <1>1, <1>3
  <2>2. PICK i \in DOMAIN todo' : todo'[i] = todo[j]
    BY <1>1, <2>1
  <2>3. \A h \in DOMAIN todo' : todo'[h].op = "sweep" => todo'[h].off > a[2]
    BY <1>1, <1>3
  <2> QED
    BY <1>3, <2>2, <2>3 DEF Pending
<1> QED
  BY <1>2, <1>3 DEF Pending

\* All records that are to be struck out still are.
LEMMA PendingsKept ==
  ASSUME Plan(todo), todo # <<>>, NEW s, Part(s), Go(s), PendingInv, power' = power,
         Head(todo).op \notin {"mark", "move", "erase"}, \A i \in DOMAIN s : s[i].op # "sweep",
         \A b \in Addr : D(b)' => D(b)
  PROVE  PendingInv'
<1>1. SUFFICES ASSUME power = "on", NEW a \in Addr, D(a)
               PROVE  Pending(a)'
  BY DEF PendingInv
<1>2. Pending(a)
  BY <1>1 DEF PendingInv
<1> QED
  BY <1>2, PendingKept

\* Records stay as they are, or cease to be valid.
Fewer == \A b \in Addr : W(b)' => W(b) /\ At(b)'.key = At(b).key

\* Valid records remain unique when none is added.
LEMMA FewerUnique ==
  ASSUME Unique, Fewer
  PROVE  Unique'
BY DEF Unique, Fewer

\* The cache stays right when no valid record is added and no entry.
LEMMA FewerCache ==
  ASSUME CacheInv, Fewer, \A k \in Key : CacheHit(k)' => CacheHit(k) /\ cache'[k] = cache[k]
  PROVE  CacheInv'
BY DEF CacheInv, Fewer

\* A key without a valid record has none when none is added.
LEMMA FewerFree ==
  ASSUME Fewer, \A b \in Addr : W(b)' => ~Under(b)
  PROVE  \A k : Free(k) => \A b \in Addr : ~(W(b)' /\ At(b)'.key = k)
BY DEF Fewer, Free

Pre == HeadIs("mark") /\ Head(todo).st = "PRE_DELETE"

\* Nothing is taken out of use unless a mark says so.
LEMMA NoUnder ==
  ASSUME ~Pre
  PROVE  \A b : ~Under(b)
BY DEF Pre, Under

\* A step that leaves the records and the cache alone, and takes itself from
\* the list.
LEMMA SameRecords ==
  ASSUME \A b \in Addr : At(b)' = At(b)
  PROVE  /\ Fewer /\ \A b \in Addr : (W(b)' <=> W(b)) /\ (D(b)' <=> D(b))
         /\ \A b \in Addr : At(b).key \in Key => At(b)'.key \in Key
BY DEF Fewer, W, D

\* The cache finds what it found when no record changes.
LEMMA SameHits ==
  ASSUME \A b \in Addr : At(b)' = At(b), cache' = cache, cache \in [Key -> Addr \cup {NoAddr}]
  PROVE  \A k \in Key : CacheHit(k)' => CacheHit(k) /\ cache'[k] = cache[k]
<1>1. SUFFICES ASSUME NEW k \in Key, CacheHit(k)'
               PROVE  CacheHit(k)
  OBVIOUS
<1>2. PICK c \in Addr \cup {NoAddr} : c = cache[k]
  OBVIOUS
<1>3. c # NoAddr /\ At(c)'.key = k
  BY <1>1, <1>2 DEF CacheHit, At
<1> QED
  BY <1>2, <1>3 DEF CacheHit

\* The second invariant holds behind the dirty mark of a sector.
LEMMA DirtyLive == ASSUME Basic, LiveInv, Dirty PROVE LiveInv'
<1>1. HeadIs("dirty") /\ Plan(todo) /\ TypeInv
  BY DEF Dirty, Basic, TypeInv
<1>2. /\ todo # <<>> /\ Head(todo).op = "dirty" /\ StepOK(Head(todo)) /\ Head(todo) = todo[1]
  BY <1>1, HeadFacts
<1>3. Head(todo).sec \in Sector
  BY <1>2 DEF StepOK
<1>4. /\ flash' = [flash EXCEPT ![Head(todo).sec].dirty = "TRUE"]
      /\ Go(None) /\ cache' = cache /\ power' = power /\ recovering' = recovering
  BY DEF Dirty, None, ram
<1>5. /\ \A b \in Addr : At(b)' = At(b)
      /\ \A t \in Sector : flash'[t].store = flash[t].store
  <2>1. "TRUE" \in Dirts
    BY DEF Dirts
  <2> QED
    BY <1>1, <1>3, <1>4, <2>1, SetDirtyFacts DEF TypeInv
<1>6. /\ Fewer /\ (\A b \in Addr : (W(b)' <=> W(b)) /\ (D(b)' <=> D(b)))
      /\ \A b \in Addr : At(b).key \in Key => At(b)'.key \in Key
  BY <1>5, SameRecords
<1>7. \A k \in Key : CacheHit(k)' => CacheHit(k) /\ cache'[k] = cache[k]
  BY <1>1, <1>4, <1>5, SameHits DEF TypeInv
<1>8. Unique' /\ CacheInv'
  BY <1>6, <1>7, FewerUnique, FewerCache DEF LiveInv
<1>9. Shape'
  BY <1>5, Addresses DEF LiveInv, Shape
<1>10. MarkInv' /\ WriteInv' /\ Repl' /\ EndInv' /\ PendingInv' /\ ~Pre'
  BY <1>1, <1>2, <1>4, <1>6, NoStep, MarksKept, WritesKept, ReplKept, EndKept, PendingsKept DEF LiveInv, Pre, HeadIs
<1>11. \A k : Free(k) => \A b \in Addr : ~(W(b)' /\ At(b)'.key = k)
  <2>1. \A b : ~Under(b)
    BY <1>2, NoUnder DEF Pre, HeadIs
  <2> QED
    BY <1>6, <2>1, FewerFree
<1>12. HeadInv'
  <2>1. SUFFICES ASSUME NEW i \in DOMAIN todo', NEW a \in Addr, todo'[i].op = "head", todo'[i].addr = a
                 PROVE  /\ \A b \in Addr : ~(W(b)' /\ At(b)'.key = todo'[i].key)
                        /\ At(a)' = Blank
                        /\ i # 1 /\ flash'[a[1]].store \in {"EMPTY", "USING"}
    BY <2>1 DEF HeadInv, Free
  <2>2. PICK j \in DOMAIN todo : j >= 2 /\ i = j + Len(None) - 1 /\ todo'[i] = todo[j]
    BY <1>1, <1>2, <1>4, NoStep, Steps
  <2>3. j = 3
    BY <1>1, <1>2, <2>1, <2>2, HeadPlace DEF HeadIs
  <2>4. Free(todo[j].key) /\ At(a) = Blank /\ flash[a[1]].store \in {"EMPTY", "USING"}
    BY <2>1, <2>2, <2>3 DEF LiveInv, HeadInv
  <2>5. a[1] \in Sector /\ Len(None) = 0
    BY Addresses DEF None
  <2> QED
    BY <1>5, <1>11, <2>2, <2>3, <2>4, <2>5
<1>13. MoveInv'
  <2>1. SUFFICES ASSUME NEW i \in DOMAIN todo', NEW a \in Addr, todo'[i].op = "move", todo'[i].addr = a, ~recovering
                 PROVE  \A b \in Addr : ~(W(b)' /\ At(b)'.key = At(a)'.key)
    BY <1>4, <2>1 DEF MoveInv, Free
  <2>2. PICK j \in DOMAIN todo : j >= 2 /\ todo'[i] = todo[j]
    BY <1>1, <1>2, <1>4, NoStep, Steps
  <2>3. Free(At(a).key)
    BY <2>1, <2>2 DEF LiveInv, MoveInv
  <2> QED
    BY <1>5, <1>11, <2>3
<1> QED
  BY <1>8, <1>9, <1>10, <1>12, <1>13 DEF LiveInv

\* The second invariant holds behind update_sec_status.
LEMMA UseLive == ASSUME Basic, LiveInv, Use PROVE LiveInv'
<1> DEFINE s == Head(todo).sec
           x == IF flash[s].store = "EMPTY" THEN "USING"
                ELSE IF BecomesFull(s, Head(todo).size) THEN "FULL" ELSE flash[s].store
<1>1. HeadIs("use") /\ Plan(todo) /\ TypeInv
  BY DEF Use, Basic, TypeInv
<1>2. /\ todo # <<>> /\ Head(todo).op = "use" /\ StepOK(Head(todo)) /\ Head(todo) = todo[1]
  BY <1>1, HeadFacts
<1>3. s \in Sector
  BY <1>2 DEF StepOK
<1>4. /\ flash' = [flash EXCEPT ![s].store = x]
      /\ Go(None) /\ cache' = cache /\ power' = power /\ recovering' = recovering
  BY <1>1, <1>3 DEF Use, None, ram, TypeInv, Typed
<1>5. x \in Stores /\ (flash[s].store \in {"USING", "FULL"} => x \in {"USING", "FULL"})
      /\ (flash[s].store = "EMPTY" => x = "USING")
  <2>1. flash[s].store \in Stores
    BY <1>1, <1>3, Parts DEF TypeInv
  <2> QED
    BY <2>1 DEF Stores
<1> HIDE DEF x, s
<1>6. /\ \A b \in Addr : At(b)' = At(b)
      /\ \A t \in Sector : flash'[t].store = IF t = s THEN x ELSE flash[t].store
  BY <1>1, <1>3, <1>4, <1>5, SetStoreFacts DEF TypeInv
<1>7. /\ Fewer /\ (\A b \in Addr : (W(b)' <=> W(b)) /\ (D(b)' <=> D(b)))
      /\ \A b \in Addr : At(b).key \in Key => At(b)'.key \in Key
  BY <1>6, SameRecords
<1>8. \A k \in Key : CacheHit(k)' => CacheHit(k) /\ cache'[k] = cache[k]
  BY <1>1, <1>4, <1>6, SameHits DEF TypeInv
<1>9. Unique' /\ CacheInv'
  BY <1>7, <1>8, FewerUnique, FewerCache DEF LiveInv
<1>10. Shape'
  BY <1>5, <1>6, Addresses DEF LiveInv, Shape
<1>11. MarkInv' /\ WriteInv' /\ Repl' /\ EndInv' /\ PendingInv' /\ MoveInv'
  BY <1>1, <1>2, <1>4, <1>7, NoStep, MarksKept, WritesKept, ReplKept, EndKept, PendingsKept, MovesFree DEF LiveInv
<1>12. \A k : Free(k) => \A b \in Addr : ~(W(b)' /\ At(b)'.key = k)
  <2>1. \A b : ~Under(b)
    BY <1>2, NoUnder DEF Pre, HeadIs
  <2> QED
    BY <1>7, <2>1, FewerFree
<1>13. HeadInv'
  <2>1. SUFFICES ASSUME NEW i \in DOMAIN todo', NEW a \in Addr, todo'[i].op = "head", todo'[i].addr = a
                 PROVE  /\ \A b \in Addr : ~(W(b)' /\ At(b)'.key = todo'[i].key)
                        /\ At(a)' = Blank
                        /\ i = 1 /\ flash'[a[1]].store \in {"USING", "FULL"}
    BY <2>1 DEF HeadInv, Free
  <2>2. PICK j \in DOMAIN todo : j >= 2 /\ i = j + Len(None) - 1 /\ todo'[i] = todo[j]
    BY <1>1, <1>2, <1>4, NoStep, Steps
  <2>3. j = 2 /\ s = a[1]
    BY <1>1, <1>2, <2>1, <2>2, HeadPlace DEF HeadIs, s
  <2>4. Free(todo[j].key) /\ At(a) = Blank /\ flash[a[1]].store \in {"EMPTY", "USING"}
    BY <2>1, <2>2, <2>3 DEF LiveInv, HeadInv
  <2>5. a[1] \in Sector /\ Len(None) = 0
    BY Addresses DEF None
  <2> QED
    BY <1>5, <1>6, <1>12, <2>2, <2>3, <2>4, <2>5
<1> QED
  BY <1>9, <1>10, <1>11, <1>13 DEF LiveInv

\* A blank record is nowhere valid, and no mark is meant for it.
LEMMA BlankFacts ==
  /\ Blank.key \notin Key /\ ~Blank.whole /\ Blank.st = "UNUSED"
BY KnownRecords, Constants

\* The second invariant holds behind the header of a record.
LEMMA WriteHeadLive == ASSUME Basic, LiveInv, WriteHead PROVE LiveInv'
<1> DEFINE x == [st |-> "PRE_WRITE", key |-> Head(todo).key, val |-> Head(todo).val, whole |-> FALSE]
<1>1. HeadIs("head") /\ Plan(todo) /\ TypeInv
  BY DEF WriteHead, Basic, TypeInv
<1>2. /\ todo # <<>> /\ Head(todo).op = "head" /\ StepOK(Head(todo)) /\ Head(todo) = todo[1]
      /\ 1 \in DOMAIN todo
  BY <1>1, HeadFacts
<1>3. Head(todo).addr \in Addr /\ Head(todo).key \in Key /\ Head(todo).val \in Value
  BY <1>2 DEF StepOK
<1>4. PICK a \in Addr : a = Head(todo).addr
  BY <1>3
<1>5. PICK k \in Key : k = Head(todo).key
  BY <1>3
<1>6. SetRec(a, x) /\ Go(None) /\ cache' = cache /\ power' = power /\ recovering' = recovering
  BY <1>4 DEF WriteHead, None, ram
<1>7. x \in Record /\ x.st = "PRE_WRITE" /\ x.key = k /\ x.whole = FALSE
  BY <1>3, <1>5, NewRecord
<1> HIDE DEF x
<1>8. /\ \A b \in Addr : At(b)' = IF b = a THEN x ELSE At(b)
      /\ \A s \in Sector : flash'[s].store = flash[s].store
  BY <1>1, <1>6, <1>7, SetRecFacts DEF TypeInv
<1>9. Free(k) /\ At(a) = Blank /\ flash[a[1]].store \in {"USING", "FULL"}
  BY <1>2, <1>4, <1>5 DEF LiveInv, HeadInv
<1>10. \A b : ~Under(b)
  BY <1>2, NoUnder DEF Pre, HeadIs
<1>11. Fewer /\ (\A b \in Addr : D(b)' => D(b)) /\ (\A b \in Addr : At(b).key \in Key => At(b)'.key \in Key)
  BY <1>7, <1>8 DEF Fewer, W, D
<1>12. \A b \in Addr : ~(W(b)' /\ At(b)'.key = k)
  BY <1>9, <1>10, <1>11, FewerFree
<1>13. Unique'
  BY <1>11, FewerUnique DEF LiveInv
<1>14. Shape'
  <2>1. \A b \in Addr : b[1] \in Sector
    BY Addresses
  <2> QED
    BY <1>8, <1>9, <2>1 DEF LiveInv, Shape
<1>15. CacheInv'
  <2>1. SUFFICES ASSUME NEW j \in Key, CacheHit(j)', NEW b \in Addr, W(b)', At(b)'.key = j
                 PROVE  b = cache'[j]
    BY DEF CacheInv
  <2>2. j # k
    BY <1>12, <2>1
  <2>3. W(b) /\ At(b).key = j
    BY <1>11, <2>1 DEF Fewer
  <2>4. PICK c \in Addr \cup {NoAddr} : c = cache[j]
    BY <1>1, <2>1 DEF TypeInv
  <2>5. c # NoAddr /\ At(c)'.key = j
    BY <1>6, <2>1, <2>4 DEF CacheHit, At
  <2>6. At(c).key = j
    BY <1>7, <1>8, <2>2, <2>4, <2>5
  <2>7. CacheHit(j)
    BY <2>4, <2>5, <2>6 DEF CacheHit
  <2> QED
    BY <1>6, <2>3, <2>7 DEF LiveInv, CacheInv
<1>16. MarkInv' /\ HeadInv' /\ Repl' /\ EndInv' /\ PendingInv' /\ MoveInv'
  BY <1>1, <1>2, <1>6, <1>11, NoStep, MarksKept, HeadsKept, ReplKept, EndKept, PendingsKept, MovesFree DEF LiveInv
<1>17. WriteInv'
  <2>1. SUFFICES ASSUME NEW c \in Addr, todo' # <<>>, Head(todo').op \in {"body", "commit"}, Head(todo').addr = c
                 PROVE  /\ At(c)'.st = "PRE_WRITE" /\ \A b \in Addr : ~(W(b)' /\ At(b)'.key = At(c)'.key)
                        /\ Head(todo').op = "body"
    BY DEF WriteInv, HeadIs, Free
  <2>2. 1 \in DOMAIN todo' /\ Head(todo') = todo'[1] /\ Len(None) = 0
    BY <1>1, <1>2, <1>6, <2>1, NoStep, Steps DEF None
  <2>3. PICK j \in DOMAIN todo : j >= 2 /\ 1 = j + Len(None) - 1 /\ todo'[1] = todo[j]
    BY <1>1, <1>2, <1>6, <2>2, NoStep, Steps
  <2>4. j = 2 /\ Len(todo) > 1
    BY <1>1, <2>2, <2>3, HeadFacts
  <2>5. Follows(todo[1], todo[2])
    BY <1>1, <1>2, <2>4, Front
  <2>6. todo[2].op = "body" /\ todo[2].addr = a
    BY <1>2, <1>4, <2>5 DEF Follows
  <2>7. c = a /\ At(a)' = x
    BY <1>8, <2>1, <2>2, <2>3, <2>4, <2>6
  <2> QED
    BY <1>7, <1>12, <2>2, <2>3, <2>4, <2>6, <2>7
<1> QED
  BY <1>13, <1>14, <1>15, <1>16, <1>17 DEF LiveInv

\* The second invariant holds behind write_env_hdr and the data behind it.
LEMMA WriteBodyLive == ASSUME Basic, LiveInv, WriteBody PROVE LiveInv'
<1>1. HeadIs("body") /\ Plan(todo) /\ TypeInv
  BY DEF WriteBody, Basic, TypeInv
<1>2. /\ todo # <<>> /\ Head(todo).op = "body" /\ StepOK(Head(todo)) /\ Head(todo) = todo[1]
      /\ 1 \in DOMAIN todo
  BY <1>1, HeadFacts
<1>3. Head(todo).addr \in Addr
  BY <1>2 DEF StepOK
<1>4. PICK a \in Addr : a = Head(todo).addr
  BY <1>3
<1> DEFINE x == [At(a) EXCEPT !.whole = TRUE]
<1>5. SetRec(a, x) /\ Go(None) /\ cache' = cache /\ power' = power /\ recovering' = recovering
  BY <1>4 DEF WriteBody, None, ram, At
<1>6. At(a) \in Record
  BY <1>1, Parts DEF TypeInv
<1>7. x \in Record /\ x.st = At(a).st /\ x.key = At(a).key /\ x.whole = TRUE
  BY <1>6, Fields, ChangedRecord
<1> HIDE DEF x
<1>8. /\ \A b \in Addr : At(b)' = IF b = a THEN x ELSE At(b)
      /\ \A s \in Sector : flash'[s].store = flash[s].store
  BY <1>1, <1>5, <1>7, SetRecFacts DEF TypeInv
<1>9. Free(At(a).key) /\ At(a).st = "PRE_WRITE" /\ At(a) # Blank
  <2>1. Free(At(a).key) /\ At(a).st = "PRE_WRITE"
    BY <1>1, <1>4 DEF LiveInv, WriteInv
  <2> QED
    BY <2>1, BlankFacts
<1>10. \A b : ~Under(b)
  BY <1>2, NoUnder DEF Pre, HeadIs
<1>11. Fewer /\ (\A b \in Addr : D(b)' => D(b)) /\ (\A b \in Addr : At(b).key \in Key => At(b)'.key \in Key)
  BY <1>7, <1>8, <1>9 DEF Fewer, W, D
<1>12. \A b \in Addr : ~(W(b)' /\ At(b)'.key = At(a).key)
  BY <1>9, <1>10, <1>11, FewerFree
<1>13. Unique'
  BY <1>11, FewerUnique DEF LiveInv
<1>14. Shape'
  <2>1. \A b \in Addr : b[1] \in Sector
    BY Addresses
  <2> QED
    BY <1>8, <1>9, <2>1 DEF LiveInv, Shape
<1>15. CacheInv'
  <2>1. \A k \in Key : CacheHit(k)' => CacheHit(k) /\ cache'[k] = cache[k]
    <3>1. SUFFICES ASSUME NEW k \in Key, CacheHit(k)'
                   PROVE  CacheHit(k)
      BY <1>5
    <3>2. PICK c \in Addr \cup {NoAddr} : c = cache[k]
      BY <1>1 DEF TypeInv
    <3>3. c # NoAddr /\ At(c)'.key = k
      BY <1>5, <3>1, <3>2 DEF CacheHit, At
    <3>4. At(c).key = k
      BY <1>7, <1>8, <3>2, <3>3
    <3> QED
      BY <3>2, <3>3, <3>4 DEF CacheHit
  <2> QED
    BY <1>11, <2>1, FewerCache DEF LiveInv
<1>16. MarkInv' /\ HeadInv' /\ Repl' /\ EndInv' /\ PendingInv' /\ MoveInv'
  BY <1>1, <1>2, <1>5, <1>11, NoStep, MarksKept, HeadsKept, ReplKept, EndKept, PendingsKept, MovesFree DEF LiveInv
<1>17. WriteInv'
  <2>1. SUFFICES ASSUME NEW c \in Addr, todo' # <<>>, Head(todo').op \in {"body", "commit"}, Head(todo').addr = c
                 PROVE  /\ At(c)'.st = "PRE_WRITE" /\ \A b \in Addr : ~(W(b)' /\ At(b)'.key = At(c)'.key)
                        /\ At(c)'.whole
    BY DEF WriteInv, HeadIs, Free
  <2>2. 1 \in DOMAIN todo' /\ Head(todo') = todo'[1] /\ Len(None) = 0
    BY <1>1, <1>2, <1>5, <2>1, NoStep, Steps DEF None
  <2>3. PICK j \in DOMAIN todo : j >= 2 /\ 1 = j + Len(None) - 1 /\ todo'[1] = todo[j]
    BY <1>1, <1>2, <1>5, <2>2, NoStep, Steps
  <2>4. j = 2 /\ Len(todo) > 1
    BY <1>1, <2>2, <2>3, HeadFacts
  <2>5. Follows(todo[1], todo[2])
    BY <1>1, <1>2, <2>4, Front
  <2>6. todo[2].op = "commit" /\ todo[2].addr = a
    BY <1>2, <1>4, <2>5 DEF Follows
  <2>7. c = a /\ At(a)' = x
    BY <1>8, <2>1, <2>2, <2>3, <2>4, <2>6
  <2> QED
    BY <1>7, <1>9, <1>12, <2>7
<1> QED
  BY <1>13, <1>14, <1>15, <1>16, <1>17 DEF LiveInv

\* The second invariant holds behind the status that makes a record valid.
LEMMA CommitLive == ASSUME Basic, LiveInv, Commit PROVE LiveInv'
<1>1. HeadIs("commit") /\ Plan(todo) /\ TypeInv /\ WholeNamed
  BY DEF Commit, Basic, TypeInv
<1>2. /\ todo # <<>> /\ Head(todo).op = "commit" /\ StepOK(Head(todo)) /\ Head(todo) = todo[1]
      /\ 1 \in DOMAIN todo
  BY <1>1, HeadFacts
<1>3. Head(todo).addr \in Addr
  BY <1>2 DEF StepOK
<1>4. PICK a \in Addr : a = Head(todo).addr
  BY <1>3
<1> DEFINE x == [At(a) EXCEPT !.st = "WRITE"]
<1>5. SetRec(a, x) /\ Go(None) /\ cache' = [cache EXCEPT ![At(a).key] = a]
      /\ power' = power /\ recovering' = recovering
  BY <1>4 DEF Commit, None, ram, At
<1>6. At(a) \in Record
  BY <1>1, Parts DEF TypeInv
<1>7. x \in Record /\ x.st = "WRITE" /\ x.key = At(a).key /\ x.whole = At(a).whole
  BY <1>6, Fields, ChangedRecord
<1>8. PICK k : k = At(a).key
  OBVIOUS
<1> HIDE DEF x
<1>9. /\ \A b \in Addr : At(b)' = IF b = a THEN x ELSE At(b)
      /\ \A s \in Sector : flash'[s].store = flash[s].store
  BY <1>1, <1>5, <1>7, SetRecFacts DEF TypeInv
<1>10. Free(k) /\ At(a).st = "PRE_WRITE" /\ At(a) # Blank /\ At(a).whole /\ k \in Key
  <2>1. Free(k) /\ At(a).st = "PRE_WRITE" /\ At(a).whole
    BY <1>1, <1>4, <1>8 DEF LiveInv, WriteInv
  <2> QED
    BY <1>1, <1>8, <2>1, BlankFacts DEF WholeNamed
<1>11. \A b : ~Under(b)
  BY <1>2, NoUnder DEF Pre, HeadIs
<1>12. \A b \in Addr : ~(W(b) /\ At(b).key = k)
  BY <1>10, <1>11 DEF Free
<1>13. \A b \in Addr : /\ At(b)'.key = At(b).key
                       /\ W(b)' => W(b) \/ b = a
                       /\ D(b)' => D(b)
  BY <1>7, <1>9 DEF W, D
<1>14. Unique'
  BY <1>8, <1>12, <1>13 DEF LiveInv, Unique
<1>15. Shape'
  <2>1. \A b \in Addr : b[1] \in Sector
    BY Addresses
  <2> QED
    BY <1>9, <1>10, <2>1 DEF LiveInv, Shape
<1>16. CacheInv'
  <2>1. SUFFICES ASSUME NEW j \in Key, CacheHit(j)', NEW b \in Addr, W(b)', At(b)'.key = j
                 PROVE  b = cache'[j]
    BY DEF CacheInv
  <2>2. CASE j = k
    <3>1. b = a
      BY <1>12, <1>13, <2>1, <2>2
    <3>2. cache'[k] = a
      BY <1>1, <1>5, <1>8, <1>10 DEF TypeInv
    <3> QED
      BY <2>2, <3>1, <3>2
  <2>3. CASE j # k
    <3>1. cache'[j] = cache[j]
      BY <1>1, <1>5, <1>8, <2>1, <2>3 DEF TypeInv
    <3>2. PICK c \in Addr \cup {NoAddr} : c = cache[j]
      BY <1>1, <2>1 DEF TypeInv
    <3>3. c # NoAddr /\ At(c)'.key = j
      BY <2>1, <3>1, <3>2 DEF CacheHit, At
    <3>4. CacheHit(j)
      BY <1>13, <3>2, <3>3 DEF CacheHit
    <3>5. W(b) /\ At(b).key = j
      BY <1>8, <1>13, <2>1, <2>3
    <3> QED
      BY <3>1, <3>4, <3>5 DEF LiveInv, CacheInv
  <2> QED
    BY <2>2, <2>3
<1>17. MarkInv' /\ HeadInv' /\ WriteInv' /\ Repl' /\ EndInv' /\ PendingInv' /\ MoveInv'
  BY <1>1, <1>2, <1>5, <1>13, NoStep, MarksKept, HeadsKept, WritesKept, ReplKept, EndKept, PendingsKept, MovesFree DEF LiveInv
<1> QED
  BY <1>14, <1>15, <1>16, <1>17 DEF LiveInv

\* A record with another status has it.
LEMMA Restated ==
  ASSUME NEW r \in Record, NEW st
  PROVE  [r EXCEPT !.st = st].st = st
BY DEF Record

\* The second invariant holds behind del_env.
LEMMA MarkLive == ASSUME Basic, LiveInv, Mark PROVE LiveInv'
<1> DEFINE st == Head(todo).st
<1>1. HeadIs("mark") /\ Plan(todo) /\ TypeInv /\ WholeNamed
  BY DEF Mark, Basic, TypeInv
<1>2. /\ todo # <<>> /\ Head(todo).op = "mark" /\ StepOK(Head(todo)) /\ Head(todo) = todo[1]
      /\ 1 \in DOMAIN todo /\ Len(todo) \in Nat /\ DOMAIN todo = 1..Len(todo) /\ Len(todo) >= 1
  BY <1>1, HeadFacts
<1>3. Head(todo).addr \in Addr /\ st \in {"PRE_DELETE", "DELETED"}
  BY <1>2 DEF StepOK
<1>4. PICK a \in Addr : a = Head(todo).addr
  BY <1>3
<1>5. At(a) \in Record
  BY <1>1, Parts DEF TypeInv
<1>6. PICK new \in {"UNUSED", "PRE_WRITE", "WRITE", "PRE_DELETE", "DELETED", "ERR_HDR"} : new = Marked(At(a).st, st)
  BY <1>3, <1>5, Fields, MarkedFacts
<1> DEFINE x == [At(a) EXCEPT !.st = new]
           d == DirtyOf(a[1])
           t == <<d>>
<1>7. new # "WRITE" /\ (new = "PRE_DELETE" => st = "PRE_DELETE")
  BY <1>3, <1>5, <1>6, Fields, MarkedFacts
<1>8. SetRec(a, x)
  BY <1>4, <1>6 DEF Mark
<1>9. /\ cache' = IF st = "DELETED" /\ ~lastDel
                    THEN [cache EXCEPT ![At(a).key] = NoAddr] ELSE cache
      /\ Go(t) \/ Go(None)
      /\ power' = power /\ recovering' = recovering
  BY <1>4 DEF Mark, None
<1>10. x \in Record /\ x.st = new /\ x.key = At(a).key /\ x.val = At(a).val /\ x.whole = At(a).whole
  <2>1. x \in Record /\ x.key = At(a).key /\ x.val = At(a).val /\ x.whole = At(a).whole
    <3>1. new \in {"UNUSED", "PRE_WRITE", "WRITE", "PRE_DELETE", "DELETED", "ERR_HDR"}
      OBVIOUS
    <3> QED
      BY <1>5, <3>1, StatusRecord
  <2>2. x.st = new
    BY <1>5, Restated
  <2> QED
    BY <2>1, <2>2
<1>11. a[1] \in Sector
  BY Addresses
<1>12. StepOK(d) /\ d.op = "dirty"
  BY <1>11 DEF StepOK, DirtyOf, Active, Writes, Late
<1> HIDE DEF x, st, d
<1>13. Part(t) /\ t # <<>> /\ Len(t) = 1 /\ t[1] = d /\ DOMAIN t = {1}
  BY <1>12, One
<1> HIDE DEF t
<1>14. PICK s : s \in {t, None} /\ Go(s)
  BY <1>9
<1>15. Part(s) /\ \A i \in DOMAIN s : s[i] = d
  BY <1>13, <1>14, NoStep
<1>16. s # <<>> => s[1] = d
  BY <1>13, <1>14, NoStep
<1>17. /\ \A b \in Addr : At(b)' = IF b = a THEN x ELSE At(b)
       /\ \A q \in Sector : flash'[q].store = flash[q].store
  BY <1>1, <1>8, <1>10, SetRecFacts DEF TypeInv
<1>18. At(a).key \in Key /\ At(a) # Blank
  <2>1. At(a).key \in Key
    BY <1>2, <1>4 DEF LiveInv, MarkInv
  <2> QED
    BY <2>1, BlankFacts
<1>19. /\ Fewer /\ (\A b \in Addr : At(b)'.key = At(b).key)
       /\ \A b \in Addr : W(b)' => b # a
  BY <1>7, <1>10, <1>17 DEF Fewer, W
<1>20. \A b \in Addr : D(b)' => IF b = a THEN st = "PRE_DELETE" ELSE D(b)
  BY <1>7, <1>10, <1>17 DEF D
<1>21. Unique'
  BY <1>19, FewerUnique DEF LiveInv
<1>22. Shape'
  <2>1. \A b \in Addr : b[1] \in Sector
    BY Addresses
  <2> QED
    BY <1>17, <1>18, <2>1 DEF LiveInv, Shape
<1>23. CacheInv'
  <2>1. \A k \in Key : CacheHit(k)' => CacheHit(k) /\ cache'[k] = cache[k]
    <3>1. SUFFICES ASSUME NEW k \in Key, CacheHit(k)'
                   PROVE  CacheHit(k) /\ cache'[k] = cache[k]
      OBVIOUS
    <3>2. cache'[k] \in {cache[k], NoAddr}
      BY <1>1, <1>9 DEF TypeInv
    <3>3. PICK c \in Addr \cup {NoAddr} : c = cache[k]
      BY <1>1 DEF TypeInv
    <3>4. cache'[k] # NoAddr /\ At(c)'.key = k /\ cache'[k] = c
      BY <3>1, <3>2, <3>3 DEF CacheHit, At
    <3> QED
      BY <1>19, <3>3, <3>4 DEF CacheHit
  <2> QED
    BY <1>19, <2>1, FewerCache DEF LiveInv
<1>24. MarkInv' /\ WriteInv' /\ Repl' /\ EndInv' /\ ~Pre'
  BY <1>1, <1>2, <1>9, <1>12, <1>14, <1>15, <1>16, <1>19, MarksKept, WritesKept, ReplKept, EndKept DEF LiveInv, Pre, HeadIs
<1>25. \A k : Free(k) => \A b \in Addr : ~(W(b)' /\ At(b)'.key = k)
  <2>1. \A b \in Addr : W(b)' => ~Under(b)
    BY <1>4, <1>19 DEF Under
  <2> QED
    BY <1>19, <2>1, FewerFree
<1>26. HeadInv'
  <2>1. SUFFICES ASSUME NEW i \in DOMAIN todo', NEW b \in Addr, todo'[i].op = "head", todo'[i].addr = b
                 PROVE  /\ \A c \in Addr : ~(W(c)' /\ At(c)'.key = todo'[i].key)
                        /\ At(b)' = Blank
                        /\ i # 1 /\ flash'[b[1]].store \in {"EMPTY", "USING"}
    BY <2>1 DEF HeadInv, Free
  <2>2. PICK j \in DOMAIN todo : j >= 2 /\ i = j + Len(s) - 1 /\ todo'[i] = todo[j]
    BY <1>1, <1>2, <1>12, <1>14, <1>15, <2>1, Steps
  <2>3. j = 3 /\ Len(s) \in Nat
    BY <1>1, <1>2, <1>14, <1>15, <2>1, <2>2, HeadPlace, Steps DEF HeadIs
  <2>4. Free(todo[j].key) /\ At(b) = Blank /\ flash[b[1]].store \in {"EMPTY", "USING"}
    BY <2>1, <2>2, <2>3 DEF LiveInv, HeadInv
  <2>5. b[1] \in Sector /\ b # a
    BY <1>18, <2>4, Addresses
  <2> QED
    BY <1>17, <1>25, <2>2, <2>3, <2>4, <2>5
<1>27. MoveInv'
  <2>1. SUFFICES ASSUME NEW i \in DOMAIN todo', NEW b \in Addr, todo'[i].op = "move", todo'[i].addr = b, ~recovering
                 PROVE  \A c \in Addr : ~(W(c)' /\ At(c)'.key = At(b)'.key)
    BY <1>9, <2>1 DEF MoveInv, Free
  <2>2. PICK j \in DOMAIN todo : j >= 2 /\ todo'[i] = todo[j]
    BY <1>1, <1>2, <1>12, <1>14, <1>15, <2>1, Steps
  <2>3. Free(At(b).key)
    BY <2>1, <2>2 DEF LiveInv, MoveInv
  <2> QED
    BY <1>19, <1>25, <2>3
<1>28. PendingInv'
  <2>1. SUFFICES ASSUME power = "on", NEW b \in Addr, D(b)'
                 PROVE  Pending(b)'
    BY <1>9 DEF PendingInv
  <2>2. CASE b # a
    <3>1. Pending(b)
      BY <1>20, <2>1, <2>2 DEF LiveInv, PendingInv
    <3>2. \A i \in DOMAIN s : s[i].op # "sweep"
      BY <1>12, <1>15
    <3> QED
      BY <1>1, <1>2, <1>4, <1>14, <1>15, <2>2, <3>1, <3>2, PendingKept
  <2>3. CASE b = a
    <3>1. st = "PRE_DELETE"
      BY <1>20, <2>1, <2>3
    <3>2. Len(todo) > 1 /\ 2 \in DOMAIN todo /\ Follows(todo[1], todo[2])
      BY <1>1, <1>2, <3>1, Front DEF Closed, st
    <3>3. /\ todo[2].op \in {"use", "move"} /\ (todo[2].op = "move" => todo[2].addr = a)
      BY <1>2, <1>4, <3>1, <3>2 DEF Follows, st
    <3>4. CASE todo[2].op = "move"
      <4>1. PICK i \in DOMAIN todo' : todo'[i] = todo[2]
        BY <1>1, <1>2, <1>14, <1>15, <3>2, Steps
      <4> QED
        BY <2>3, <3>3, <3>4, <4>1 DEF Pending
    <3>5. CASE todo[2].op = "use"
      <4>1. 6 \in DOMAIN todo /\ todo[6].op = "mark" /\ todo[6].st = "DELETED" /\ todo[6].addr = a
        BY <1>1, <1>4, <3>1, <3>2, <3>5 DEF LiveInv, Repl, st
      <4>2. 6 >= 2
        OBVIOUS
      <4>3. PICK i \in DOMAIN todo' : todo'[i] = todo[6]
        BY <1>1, <1>2, <1>14, <1>15, <4>1, <4>2, Steps
      <4> QED
        BY <2>3, <4>1, <4>3 DEF Pending
    <3> QED
      BY <3>3, <3>4, <3>5
  <2> QED
    BY <2>2, <2>3
<1> QED
  BY <1>21, <1>22, <1>23, <1>24, <1>26, <1>27, <1>28 DEF LiveInv

\* While a sector is swept no record of it is taken out of use before its turn.
LEMMA SweepPending ==
  ASSUME Basic, LiveInv, HeadIs("sweep"), power = "on", NEW a \in Addr, D(a)
  PROVE  /\ a[1] = Head(todo).sec => Head(todo).off > a[2]
         /\ Pending(a)
<1>1. Plan(todo)
  BY DEF Basic, TypeInv
<1>2. Pending(a)
  BY DEF LiveInv, PendingInv
<1>3. Head(todo) = todo[1] /\ 1 \in DOMAIN todo /\ todo[1].op = "sweep" /\ DOMAIN todo = 1..Len(todo) /\ Len(todo) \in Nat
  BY <1>1, HeadFacts
<1>4. \A j \in DOMAIN todo : j >= 2 => todo[j].op \in Late \cup {"erase", "header"}
  BY <1>1, RestStill DEF Still
<1>5. \A j \in DOMAIN todo : todo[j].op \notin {"mark", "move"}
  BY <1>3, <1>4 DEF Late
<1>6. todo[1].off > a[2]
  BY <1>2, <1>3, <1>5 DEF Pending
<1> QED
  BY <1>2, <1>3, <1>6

\* The second invariant holds behind the loop of do_gc.
LEMMA SweepLive == ASSUME Basic, Off, LiveInv, Sweep PROVE LiveInv'
<1>1. HeadIs("sweep") /\ Plan(todo) /\ TypeInv /\ WholeNamed
  BY DEF Sweep, Basic, TypeInv
<1>2. /\ todo # <<>> /\ Head(todo).op = "sweep" /\ StepOK(Head(todo)) /\ Head(todo) = todo[1]
  BY <1>1, HeadFacts
<1>3. /\ UNCHANGED <<flash, ram, power, caller, restarts>>
      /\ cache' = cache /\ power' = power /\ recovering' = recovering
  BY <1>1, SweepSteps DEF ram
<1>4. /\ \A b \in Addr : At(b)' = At(b)
      /\ \A t \in Sector : flash'[t].store = flash[t].store
  BY <1>3 DEF At
<1>5. /\ Fewer /\ (\A b \in Addr : (W(b)' <=> W(b)) /\ (D(b)' <=> D(b)))
      /\ \A b \in Addr : At(b).key \in Key => At(b)'.key \in Key
  BY <1>4, SameRecords
<1>6. \A k \in Key : CacheHit(k)' => CacheHit(k) /\ cache'[k] = cache[k]
  BY <1>1, <1>3, <1>4, SameHits DEF TypeInv
<1>7. Unique' /\ CacheInv'
  BY <1>5, <1>6, FewerUnique, FewerCache DEF LiveInv
<1>8. Shape'
  BY <1>4, Addresses DEF LiveInv, Shape
<1>9. ASSUME Go(None) PROVE LiveInv'
  <2>1. MarkInv' /\ HeadInv' /\ WriteInv' /\ Repl' /\ EndInv' /\ PendingInv' /\ MoveInv'
    BY <1>1, <1>2, <1>3, <1>5, <1>9, NoStep, MarksKept, HeadsKept, WritesKept, ReplKept, EndKept, PendingsKept, MovesFree
       DEF LiveInv
  <2> QED
    BY <1>7, <1>8, <2>1 DEF LiveInv
<1>10. ASSUME NEW t, NEW a \in Addr, a[1] = Head(todo).sec, a[2] >= Head(todo).off, Copies(t, a), Go(t)
       PROVE  LiveInv'
  <2>1. /\ Part(t) /\ t # <<>> /\ At(a).whole
        /\ \A i \in DOMAIN t :
             \/ t[i].op = "mark" /\ i = 1 /\ t[i].addr = a
             \/ t[i].op = "move" /\ t[i].addr = a /\ t[i].by = "gc"
             \/ t[i].op = "sweep" /\ t[i].sec = a[1] /\ t[i].off = a[2] + 1
    BY <1>10 DEF Copies
  <2>2. At(a).key \in Key /\ At(a)'.key = At(a).key
    BY <1>1, <1>4, <2>1 DEF WholeNamed
  <2>3. \A i \in DOMAIN t, b \in Addr : t[i].op = "mark" /\ t[i].addr = b => At(b)'.key \in Key
    BY <2>1, <2>2
  <2>4. t[1].op \in {"mark", "move"}
    BY <1>10 DEF Copies
  <2>5. MarkInv'
    BY <1>1, <1>2, <1>5, <1>10, <2>1, <2>3, MarksKept DEF LiveInv
  <2>6. HeadInv'
    BY <1>1, <1>2, <1>10, <2>1, HeadsKept
  <2>7. WriteInv'
    BY <1>1, <1>2, <1>10, <2>1, <2>4, WritesKept
  <2>8. EndInv'
    BY <1>1, <1>2, <1>3, <1>10, <2>1, EndKept DEF LiveInv
  <2>9. /\ 1 \in DOMAIN t /\ 1 \in DOMAIN todo' /\ todo'[1] = t[1] /\ todo' # <<>> /\ Head(todo') = todo'[1]
        /\ \A i \in DOMAIN t : i \in DOMAIN todo' /\ todo'[i] = t[i]
        /\ \A i \in DOMAIN todo' : \/ i \in DOMAIN t /\ todo'[i] = t[i]
                                   \/ \E j \in DOMAIN todo : j >= 2 /\ todo'[i] = todo[j]
    <3>1. 1 \in DOMAIN t
      BY <1>1, <1>2, <1>10, <2>1, Steps
    <3>2. 1 \in DOMAIN todo' /\ todo'[1] = t[1] /\ IsSeq(todo')
      BY <1>1, <1>2, <1>10, <2>1, <3>1, Steps
    <3>3. todo' # <<>> /\ Head(todo') = todo'[1]
      BY <3>2, SeqFacts
    <3> QED
      BY <1>1, <1>2, <1>10, <2>1, <3>1, <3>2, <3>3, Steps
  <2>10. \A j \in DOMAIN todo : j >= 2 => todo[j].op \in Late \cup {"erase", "header"}
    BY <1>1, RestStill DEF Still
  <2>11. Repl'
    <3>1. SUFFICES ASSUME t[1].op = "mark", 2 \in DOMAIN todo', todo'[2].op = "use" PROVE FALSE
      BY <2>9 DEF Repl, HeadIs
    <3>2. 2 \in DOMAIN t /\ t[2].op = "move"
      BY <1>10, <3>1 DEF Copies
    <3> QED
      BY <2>9, <3>1, <3>2
  <2>12. MoveInv'
    <3>1. SUFFICES ASSUME NEW i \in DOMAIN todo', NEW b \in Addr, todo'[i].op = "move", todo'[i].addr = b, ~recovering
                   PROVE  Free(At(b).key)'
      BY <1>3, <3>1 DEF MoveInv
    <3>2. b = a
      BY <2>1, <2>9, <2>10, <3>1 DEF Late
    <3>3. ~D(a)
      <4>1. power = "on"
        BY <1>1, <1>2, <3>1 DEF Off, TypeInv
      <4>2. Head(todo).off \in Nat /\ a[2] \in Nat
        BY <1>1, SweepSteps, Addresses, Constants
      <4> QED
        BY <1>1, <1>10, <4>1, <4>2, SweepPending
    <3>4. W(a) /\ t[1].op = "mark" /\ t[1].st = "PRE_DELETE" /\ t[1].addr = a
      BY <1>10, <3>3 DEF Copies, W, D
    <3>5. Under(a)'
      BY <2>9, <3>4 DEF Under, HeadIs
    <3>6. \A c \in Addr : W(c)' /\ At(c)'.key = At(a)'.key => c = a
      BY <1>4, <1>5, <3>4 DEF LiveInv, Unique
    <3> QED
      BY <3>2, <3>5, <3>6 DEF Free
  <2>13. PendingInv'
    <3>1. SUFFICES ASSUME power = "on", NEW b \in Addr, D(b)
                   PROVE  Pending(b)'
      BY <1>3, <1>5 DEF PendingInv
    <3>2. Pending(b)
      BY <1>1, <3>1, SweepPending
    <3>3. CASE b[1] = a[1]
      <4>1. Head(todo).off > b[2] /\ Head(todo).off \in Nat /\ a[2] \in Nat /\ b[2] \in Nat
        BY <1>1, <1>10, <3>1, <3>3, SweepPending, SweepSteps, Addresses, Constants
      <4>2. \A i \in DOMAIN t : t[i].op = "sweep" => t[i].off > b[2]
        BY <1>10, <2>1, <4>1
      <4> QED
        BY <1>1, <1>2, <1>10, <2>1, <3>2, <4>2, PendingKept
    <3>4. CASE b[1] # a[1]
      <4>1. Head(todo) = todo[1] /\ 1 \in DOMAIN todo /\ DOMAIN todo = 1..Len(todo) /\ Len(todo) \in Nat
        BY <1>1, HeadFacts
      <4>2. todo[1].op = "sweep" /\ todo[1].sec = a[1] /\ todo[2].op = "erase" /\ todo[2].sec = a[1]
            /\ Len(todo) > 1
        BY <1>1, <1>2, <1>10, SweepSteps
      <4>3. \A j \in DOMAIN todo : todo[j].op \notin {"mark", "move"}
        BY <2>10, <4>1, <4>2 DEF Late
      <4>4. PICK j \in DOMAIN todo : todo[j].op = "erase" /\ todo[j].sec = b[1]
        BY <3>2, <4>3 DEF Pending
      <4>5. j # 1 /\ j # 2
        BY <3>4, <4>2, <4>4
      <4>6. 2 \in DOMAIN todo /\ 2 < j
        BY <4>1, <4>2, <4>5
      <4>7. Before1(todo[2], todo[j])
        BY <1>1, <4>6, InOrder DEF Plan
      <4> QED
        BY <4>2, <4>4, <4>7 DEF Before1, Active, Writes
    <3> QED
      BY <3>3, <3>4
  <2> QED
    BY <1>7, <1>8, <2>5, <2>6, <2>7, <2>8, <2>11, <2>12, <2>13 DEF LiveInv
<1> QED
  BY <1>1, <1>9, <1>10, SweepSteps

\* Behind the copying of a record of a collection, its sector is erased, and
\* the sweep goes on behind it.
LEMMA MoveNext ==
  ASSUME Plan(todo), HeadIs("move"), Head(todo).by = "gc", NEW a \in Addr, a = Head(todo).addr
  PROVE  /\ \E j \in DOMAIN todo : j >= 2 /\ todo[j].op = "erase" /\ todo[j].sec = a[1]
         /\ \A j \in DOMAIN todo : todo[j].op = "sweep" => todo[j].off > a[2]
<1>1. /\ Head(todo) = todo[1] /\ 1 \in DOMAIN todo /\ todo[1].op = "move" /\ DOMAIN todo = 1..Len(todo)
      /\ Len(todo) \in Nat /\ todo # <<>> /\ Part(todo)
  BY HeadFacts
<1>2. Len(todo) > 1 /\ Follows(todo[1], todo[2]) /\ 2 \in DOMAIN todo /\ StepOK(todo[2])
  BY <1>1, Front DEF Closed, Open
<1>3. \/ todo[2].op = "sweep" /\ todo[2].sec = a[1] /\ todo[2].off = a[2] + 1
      \/ todo[2].op = "erase" /\ todo[2].sec = a[1]
  BY <1>1, <1>2 DEF Follows
<1>4. a[2] \in Nat
  BY Addresses, Constants
<1>5. \A j \in DOMAIN todo : todo[j].op = "sweep" => j = 2
  <2>1. SUFFICES ASSUME NEW j \in DOMAIN todo, todo[j].op = "sweep", j > 2
                 PROVE  FALSE
    BY <1>1
  <2>2. Before1(todo[2], todo[j])
    BY <1>1, <1>2, <2>1, InOrder
  <2> QED
    BY <1>3, <2>1, <2>2 DEF Before1, Active, Writes
<1>6. \A j \in DOMAIN todo : todo[j].op = "sweep" => todo[j].off > a[2]
  BY <1>3, <1>4, <1>5
<1>7. CASE todo[2].op = "erase"
  BY <1>2, <1>3, <1>6, <1>7
<1>8. CASE todo[2].op = "sweep"
  <2>1. Closed(todo[Len(todo)])
    BY <1>1 DEF Plan
  <2>2. Len(todo) # 2
    BY <1>8, <2>1 DEF Closed, Open
  <2>3. 3 \in DOMAIN todo /\ 2 + 1 = 3
    BY <1>1, <1>2, <2>2
  <2>4. Follows(todo[2], todo[3])
    BY <1>1, <1>2, <2>3 DEF Part
  <2>5. todo[3].op = "erase" /\ todo[3].sec = a[1]
    BY <1>3, <1>8, <2>4 DEF Follows
  <2> QED
    BY <1>6, <2>3, <2>5
<1> QED
  BY <1>3, <1>7, <1>8

\* The second invariant holds behind move_env.
LEMMA MoveLive == ASSUME Basic, Off, LiveInv, Named, Move PROVE LiveInv'
<1>1. HeadIs("move") /\ Plan(todo) /\ TypeInv /\ WholeNamed
  BY DEF Move, Basic, TypeInv
<1>2. /\ todo # <<>> /\ Head(todo).op = "move" /\ StepOK(Head(todo)) /\ Head(todo) = todo[1] /\ 1 \in DOMAIN todo
  BY <1>1, HeadFacts
<1>3. Head(todo).addr \in Addr
  BY <1>2 DEF StepOK
<1>4. PICK a \in Addr : a = Head(todo).addr
  BY <1>3
<1>5. /\ UNCHANGED <<flash, lastDel, cache, recovering, power, caller, restarts>>
      /\ At(a).whole /\ At(a).key \in Key
  BY <1>4, MoveCases
<1>6. /\ \A b \in Addr : At(b)' = At(b)
      /\ \A t \in Sector : flash'[t].store = flash[t].store
  BY <1>5 DEF At
<1>7. /\ Fewer /\ (\A b \in Addr : (W(b)' <=> W(b)) /\ (D(b)' <=> D(b)))
      /\ \A b \in Addr : At(b).key \in Key => At(b)'.key \in Key
  BY <1>6, SameRecords
<1>8. \A k \in Key : CacheHit(k)' => CacheHit(k) /\ cache'[k] = cache[k]
  BY <1>1, <1>5, <1>6, SameHits DEF TypeInv
<1>9. Unique' /\ CacheInv'
  BY <1>7, <1>8, FewerUnique, FewerCache DEF LiveInv
<1>10. Shape'
  BY <1>6, Addresses DEF LiveInv, Shape
<1>11. recovering <=> power = "boot"
  BY DEF Off
<1>12. ASSUME Go(None), Head(todo).by = "gc" PROVE LiveInv'
  <2>1. MarkInv' /\ HeadInv' /\ WriteInv' /\ Repl' /\ EndInv' /\ MoveInv'
    BY <1>1, <1>2, <1>5, <1>7, <1>12, NoStep, MarksKept, HeadsKept, WritesKept, ReplKept, EndKept, MovesFree
       DEF LiveInv
  <2>2. PendingInv'
    <3>1. SUFFICES ASSUME power = "on", NEW b \in Addr, D(b)
                   PROVE  Pending(b)'
      BY <1>5, <1>7 DEF PendingInv
    <3>2. Pending(b)
      BY <3>1 DEF LiveInv, PendingInv
    <3>3. CASE b # a
      BY <1>1, <1>2, <1>4, <1>12, <3>2, <3>3, NoStep, PendingKept
    <3>4. CASE b = a
      <4>1. /\ \E j \in DOMAIN todo : j >= 2 /\ todo[j].op = "erase" /\ todo[j].sec = a[1]
            /\ \A j \in DOMAIN todo : todo[j].op = "sweep" => todo[j].off > a[2]
        BY <1>1, <1>4, <1>12, MoveNext
      <4>2. \E i \in DOMAIN todo' : todo'[i].op = "erase" /\ todo'[i].sec = a[1]
        BY <1>1, <1>2, <1>12, <4>1, NoStep, Steps
      <4>3. \A i \in DOMAIN todo' : \E j \in DOMAIN todo : todo'[i] = todo[j]
        BY <1>1, <1>2, <1>12, NoStep, Steps
      <4> QED
        BY <3>4, <4>1, <4>2, <4>3 DEF Pending
    <3> QED
      BY <3>3, <3>4
  <2> QED
    BY <1>9, <1>10, <2>1, <2>2 DEF LiveInv
<1>13. ASSUME todo' = <<RecoverEnd>>, Head(todo).by = "start" PROVE LiveInv'
  <2>1. power' = "boot"
    BY <1>2, <1>5, <1>13 DEF LiveInv, EndInv
  <2>2. DOMAIN todo' = {1} /\ Len(todo') = 1 /\ todo'[1].op = "recovered" /\ Head(todo').op = "recovered"
    BY <1>13 DEF RecoverEnd
  <2>3. MarkInv' /\ HeadInv' /\ WriteInv' /\ Repl' /\ EndInv' /\ MoveInv' /\ PendingInv'
    BY <2>1, <2>2 DEF MarkInv, HeadInv, WriteInv, Repl, EndInv, MoveInv, PendingInv, HeadIs
  <2> QED
    BY <1>9, <1>10, <2>3 DEF LiveInv
<1>14. ASSUME recovering,
              NEW x, Part(x), x # <<>>, Len(x) = 1, DOMAIN x = {1}, Go(x),
              x[1].op = "mark", x[1].st = "DELETED", x[1].addr = a
       PROVE  LiveInv'
  <2>1. \A i \in DOMAIN x, b \in Addr : x[i].op = "mark" /\ x[i].addr = b => At(b)'.key \in Key
    BY <1>5, <1>6, <1>14
  <2>2. MarkInv'
    BY <1>1, <1>2, <1>7, <1>14, <2>1, MarksKept DEF LiveInv
  <2>3. HeadInv' /\ WriteInv' /\ Repl' /\ EndInv' /\ MoveInv'
    BY <1>1, <1>2, <1>5, <1>14, HeadsKept, WritesKept, ReplKept, EndKept, MovesFree DEF LiveInv
  <2>4. PendingInv'
    BY <1>5, <1>11, <1>14 DEF PendingInv
  <2> QED
    BY <1>9, <1>10, <2>2, <2>3, <2>4 DEF LiveInv
<1>15. ASSUME NEW p \in Addr, NEW w, At(p) = Blank, flash[p[1]].store \in {"EMPTY", "USING"},
              MoveSteps(w, p, At(a).key, At(a).val, a), Len(w) = 5, DOMAIN w = 1..5, Go(w),
              \E known \in Known(At(a).key) : ~(recovering /\ known)
       PROVE  LiveInv'
  <2>1. PICK k \in Key : k = At(a).key
    BY <1>5
  <2>2. /\ Part(w) /\ w # <<>>
        /\ w[1].op = "use"
        /\ w[2].op = "head" /\ w[2].addr = p /\ w[2].key = k
        /\ w[3].op = "body"
        /\ w[4].op = "commit"
        /\ w[5].op = "mark" /\ w[5].st = "DELETED" /\ w[5].addr = a
    BY <1>15, <2>1 DEF MoveSteps
  <2>3. \A i \in DOMAIN w : i \in {1, 2, 3, 4, 5}
    BY <1>15
  <2>4. \A i \in DOMAIN w, b \in Addr : w[i].op = "mark" /\ w[i].addr = b => At(b)'.key \in Key
    BY <1>5, <1>6, <2>2, <2>3
  <2>5. MarkInv'
    BY <1>1, <1>2, <1>7, <1>15, <2>2, <2>4, MarksKept DEF LiveInv
  <2>6. \A i \in DOMAIN w : w[i].op \in {"use", "head", "body", "commit", "mark"}
    BY <2>2, <2>3
  <2>7. WriteInv' /\ Repl' /\ EndInv' /\ MoveInv' /\ ~Pre'
    BY <1>1, <1>2, <1>5, <1>15, <2>2, <2>6, WritesKept, ReplKept, EndKept, MovesFree DEF LiveInv, Pre, HeadIs
  <2>8. \A b \in Addr : ~(W(b) /\ At(b).key = k)
    <3>1. CASE recovering
      <4>1. ~StrayName
        BY <1>1, <3>1 DEF Named
      <4>2. Live(k) = {}
        BY <1>15, <2>1, <3>1, <4>1 DEF Known
      <4> QED
        BY <4>2, BlankFacts DEF Live, Visited, W, LiveInv, Shape
    <3>2. CASE ~recovering
      <4>1. Free(k)
        BY <1>2, <1>4, <2>1, <3>2 DEF LiveInv, MoveInv
      <4>2. \A b : ~Under(b)
        BY <1>2, NoUnder DEF Pre, HeadIs
      <4> QED
        BY <4>1, <4>2 DEF Free
    <3> QED
      BY <3>1, <3>2
  <2>9. HeadInv'
    <3>1. SUFFICES ASSUME NEW i \in DOMAIN todo', NEW b \in Addr, todo'[i].op = "head", todo'[i].addr = b
                   PROVE  /\ \A c \in Addr : ~(W(c)' /\ At(c)'.key = todo'[i].key)
                          /\ At(b)' = Blank
                          /\ i # 1 /\ flash'[b[1]].store \in {"EMPTY", "USING"}
      BY <3>1 DEF HeadInv, Free
    <3>2. ASSUME NEW j \in DOMAIN todo, j >= 2, todo'[i] = todo[j] PROVE FALSE
      BY <1>1, <1>2, <3>1, <3>2, HeadPlace DEF HeadIs
    <3>3. i \in DOMAIN w /\ todo'[i] = w[i]
      BY <1>1, <1>2, <1>15, <2>2, <3>2, Steps
    <3>4. i = 2
      BY <2>2, <2>3, <3>1, <3>3
    <3>5. b = p /\ todo'[i].key = k /\ b[1] \in Sector
      BY <2>2, <3>1, <3>3, <3>4, Addresses
    <3>6. \A c \in Addr : W(c)' /\ At(c)'.key = k => W(c) /\ At(c).key = k
      BY <1>6, <1>7
    <3> QED
      BY <1>6, <1>15, <2>8, <3>4, <3>5, <3>6
  <2>10. PendingInv'
    <3>1. SUFFICES ASSUME power = "on", NEW b \in Addr, D(b)
                   PROVE  Pending(b)'
      BY <1>5, <1>7 DEF PendingInv
    <3>2. Pending(b)
      BY <3>1 DEF LiveInv, PendingInv
    <3>3. CASE b # a
      BY <1>1, <1>2, <1>4, <1>15, <2>2, <2>6, <3>2, <3>3, PendingKept
    <3>4. CASE b = a
      <4>1. 5 \in DOMAIN w
        BY <1>15
      <4>2. 5 \in DOMAIN todo' /\ todo'[5] = w[5]
        BY <1>1, <1>2, <1>15, <2>2, <4>1, Steps
      <4> QED
        BY <2>2, <3>4, <4>2 DEF Pending
    <3> QED
      BY <3>3, <3>4
  <2> QED
    BY <1>9, <1>10, <2>5, <2>7, <2>9, <2>10 DEF LiveInv
<1>16. \/ Go(None) /\ Head(todo).by = "gc"
       \/ todo' = <<RecoverEnd>> /\ Head(todo).by = "start"
       \/ recovering /\ \E x : /\ Part(x) /\ x # <<>> /\ Len(x) = 1 /\ DOMAIN x = {1} /\ Go(x)
                               /\ x[1].op = "mark" /\ x[1].st = "DELETED" /\ x[1].addr = a
       \/ \E p, w : /\ p \in Addr /\ At(p) = Blank /\ flash[p[1]].store \in {"EMPTY", "USING"}
                    /\ MoveSteps(w, p, At(a).key, At(a).val, a) /\ Len(w) = 5 /\ DOMAIN w = 1..5 /\ Go(w)
                    /\ \E known \in Known(At(a).key) : ~(recovering /\ known)
  BY <1>4, MoveCases
<1>17. CASE \E p, w : /\ p \in Addr /\ At(p) = Blank /\ flash[p[1]].store \in {"EMPTY", "USING"}
                    /\ MoveSteps(w, p, At(a).key, At(a).val, a) /\ Len(w) = 5 /\ DOMAIN w = 1..5 /\ Go(w)
                    /\ \E known \in Known(At(a).key) : ~(recovering /\ known)
  BY <1>15, <1>17
<1>18. CASE recovering /\ \E x : /\ Part(x) /\ x # <<>> /\ Len(x) = 1 /\ DOMAIN x = {1} /\ Go(x)
                               /\ x[1].op = "mark" /\ x[1].st = "DELETED" /\ x[1].addr = a
  BY <1>14, <1>18
<1> QED
  BY <1>12, <1>13, <1>16, <1>17, <1>18

\* An erasure takes records out of use, and strikes out none.
LEMMA FormatLive ==
  ASSUME Basic, LiveInv, NEW op \in {"erase", "header"}, HeadIs(op), NEW x \in {Erased, Formatted},
         flash' = [flash EXCEPT ![Head(todo).sec] = x], Go(None), UNCHANGED <<ram, power>>
  PROVE  LiveInv'
<1>1. Plan(todo) /\ TypeInv
  BY DEF Basic, TypeInv
<1>2. /\ todo # <<>> /\ Head(todo).op = op /\ StepOK(Head(todo)) /\ Head(todo) = todo[1] /\ 1 \in DOMAIN todo
      /\ DOMAIN todo = 1..Len(todo) /\ Len(todo) \in Nat
  BY <1>1, HeadFacts
<1>3. Head(todo).sec \in Sector
  BY <1>2 DEF StepOK
<1>4. PICK s \in Sector : s = Head(todo).sec
  BY <1>3
<1>5. /\ \A b \in Addr : At(b)' = IF b[1] = s THEN Blank ELSE At(b)
      /\ \A t \in Sector : flash'[t] = IF t = s THEN x ELSE flash[t]
  BY <1>1, <1>4, SetSectorFacts DEF TypeInv
<1>6. cache' = cache /\ power' = power
  BY DEF ram
<1>7. \A j \in DOMAIN todo : j >= 2 => todo[j].op \in Late \cup {"header"}
  BY <1>1, <1>2, RestStill DEF Still, Late
<1>8. Fewer /\ \A b \in Addr : D(b)' => D(b) /\ b[1] # s
  BY <1>5, BlankFacts DEF Fewer, W, D
<1>9. Unique'
  BY <1>8, FewerUnique DEF LiveInv
<1>10. CacheInv'
  <2>1. \A k \in Key : CacheHit(k)' => CacheHit(k) /\ cache'[k] = cache[k]
    <3>1. SUFFICES ASSUME NEW k \in Key, CacheHit(k)'
                   PROVE  CacheHit(k)
      BY <1>6
    <3>2. PICK c \in Addr \cup {NoAddr} : c = cache[k]
      BY <1>1 DEF TypeInv
    <3>3. c # NoAddr /\ At(c)'.key = k
      BY <1>6, <3>1, <3>2 DEF CacheHit, At
    <3>4. At(c).key = k
      BY <1>5, <3>2, <3>3, BlankFacts
    <3> QED
      BY <3>2, <3>3, <3>4 DEF CacheHit
  <2> QED
    BY <1>8, <2>1, FewerCache DEF LiveInv
<1>11. Shape'
  <2>1. \A b \in Addr : b[1] \in Sector
    BY Addresses
  <2> QED
    BY <1>5, <2>1 DEF LiveInv, Shape
<1>12. \A i \in DOMAIN todo' : todo'[i].op \in Late \cup {"header"}
  <2>1. SUFFICES ASSUME NEW i \in DOMAIN todo' PROVE todo'[i].op \in Late \cup {"header"}
    OBVIOUS
  <2>2. PICK j \in DOMAIN todo : j >= 2 /\ todo'[i] = todo[j]
    BY <1>1, <1>2, NoStep, Steps
  <2> QED
    BY <1>7, <2>2
<1>13. MarkInv' /\ HeadInv' /\ MoveInv'
  BY <1>12 DEF MarkInv, HeadInv, MoveInv, Late
<1>14. WriteInv' /\ Repl' /\ EndInv'
  BY <1>1, <1>2, <1>6, NoStep, WritesKept, ReplKept, EndKept DEF LiveInv
<1>15. PendingInv'
  <2>1. SUFFICES ASSUME power = "on", NEW b \in Addr, D(b), b[1] # s
                 PROVE  FALSE
    BY <1>6, <1>8 DEF PendingInv
  <2>2. Pending(b)
    BY <2>1 DEF LiveInv, PendingInv
  <2>3. \A j \in DOMAIN todo : todo[j].op \notin {"mark", "move"}
    BY <1>2, <1>7 DEF Late
  <2>4. PICK j \in DOMAIN todo : todo[j].op = "erase" /\ todo[j].sec = b[1]
    BY <2>2, <2>3 DEF Pending
  <2>5. j = 1
    BY <1>2, <1>7, <2>4 DEF Late
  <2> QED
    BY <1>2, <1>4, <2>1, <2>4, <2>5
<1> QED
  BY <1>9, <1>10, <1>11, <1>13, <1>14, <1>15 DEF LiveInv

\* The second invariant holds behind the erasure of a sector.
LEMMA EraseLive == ASSUME Basic, LiveInv, Erase PROVE LiveInv'
BY FormatLive DEF Erase, None

\* The second invariant holds behind the header of a sector.
LEMMA HeaderLive == ASSUME Basic, LiveInv, Header PROVE LiveInv'
BY FormatLive DEF Header, None

Idlers == Late \cup {"sweep", "erase", "header"}

\* With a step of a call in front no record awaits its deletion.
LEMMA LateClean ==
  ASSUME Basic, LiveInv, NEW op \in Late, HeadIs(op), power = "on", NEW a \in Addr
  PROVE  ~D(a)
<1>1. Plan(todo)
  BY DEF Basic, TypeInv
<1>2. Head(todo) = todo[1] /\ Head(todo).op \in Late /\ DOMAIN todo = 1..Len(todo) /\ Len(todo) \in Nat
  BY <1>1, HeadFacts
<1>3. \A j \in DOMAIN todo : j >= 2 => todo[j].op \in Late
  BY <1>1, RestStill DEF Still
<1>4. \A j \in DOMAIN todo : todo[j].op \in Late
  BY <1>2, <1>3
<1>5. ~Pending(a)
  BY <1>4 DEF Pending, Late
<1> QED
  BY <1>5 DEF LiveInv, PendingInv

\* A step that does not write leaves the invariant alone, and puts only such
\* steps in front.
LEMMA QuietLive ==
  ASSUME Basic, LiveInv, NEW op \in Late, HeadIs(op), NEW s, Part(s), Go(s),
         \A i \in DOMAIN s : s[i].op \in Idlers,
         \A b \in Addr : At(b)' = At(b), \A t \in Sector : flash'[t].store = flash[t].store,
         cache' = cache, power' = power \/ \A a \in Addr : ~D(a), EndInv'
  PROVE  LiveInv'
<1>1. Plan(todo) /\ TypeInv
  BY DEF Basic, TypeInv
<1>2. todo # <<>> /\ Head(todo).op \in Late
  BY <1>1, HeadFacts
<1>3. /\ Fewer /\ (\A b \in Addr : (W(b)' <=> W(b)) /\ (D(b)' <=> D(b)))
      /\ \A b \in Addr : At(b).key \in Key => At(b)'.key \in Key
  BY SameRecords
<1>4. \A k \in Key : CacheHit(k)' => CacheHit(k) /\ cache'[k] = cache[k]
  BY <1>1, SameHits DEF TypeInv
<1>5. Unique' /\ CacheInv'
  BY <1>3, <1>4, FewerUnique, FewerCache DEF LiveInv
<1>6. Shape'
  BY Addresses DEF LiveInv, Shape
<1>7. \A i \in DOMAIN s : s[i].op \notin {"mark", "head", "body", "commit", "move"}
  BY DEF Idlers, Late
<1>8. s # <<>> => 1 \in DOMAIN s
  BY <1>1, <1>2, Steps
<1>9. MarkInv'
  BY <1>1, <1>2, <1>3, <1>7, MarksKept DEF LiveInv
<1>10. HeadInv' /\ WriteInv' /\ Repl' /\ MoveInv'
  BY <1>1, <1>2, <1>7, <1>8, HeadsKept, WritesKept, ReplKept, MovesFree DEF Late
<1>11. PendingInv'
  <2>1. SUFFICES ASSUME power' = "on", NEW b \in Addr, D(b)
                 PROVE  FALSE
    BY <1>3 DEF PendingInv
  <2> QED
    BY <2>1, LateClean
<1> QED
  BY <1>5, <1>6, <1>9, <1>10, <1>11 DEF LiveInv

\* The same, when the step does not end a start, nor begin its recovery.
LEMMA QuietStep ==
  ASSUME Basic, LiveInv, NEW op \in Late, HeadIs(op), NEW s, Part(s), Go(s),
         \A i \in DOMAIN s : s[i].op \in Idlers \ {"recover", "recovered"},
         \A b \in Addr : At(b)' = At(b), \A t \in Sector : flash'[t].store = flash[t].store,
         cache' = cache, power' = power
  PROVE  LiveInv'
<1>1. Plan(todo) /\ todo # <<>>
  BY DEF Basic, TypeInv, HeadIs
<1>2. \A i \in DOMAIN s : /\ s[i].op \notin {"recover", "recovered"}
                          /\ s[i].op = "move" => s[i].by # "start"
  BY DEF Idlers, Late
<1>3. EndInv'
  BY <1>1, <1>2, EndKept DEF LiveInv
<1> QED
  BY <1>3, QuietLive

\* The second invariant holds behind the end of a call.
LEMMA ReturnLive == ASSUME Basic, LiveInv, Return PROVE LiveInv'
<1>1. HeadIs("return") /\ Go(None) /\ UNCHANGED <<flash, ram, power>>
  BY DEF Return, None
<1>2. "return" \in Late
  BY DEF Late
<1> QED
  BY <1>1, <1>2, NoStep, QuietStep DEF ram, At

\* The second invariant holds behind the end of gc_collect.
LEMMA FinishGcLive == ASSUME Basic, LiveInv, FinishGc PROVE LiveInv'
<1>1. HeadIs("gcend") /\ Go(None) /\ UNCHANGED <<flash, cache, power>>
  BY DEF FinishGc, None
<1>2. "gcend" \in Late
  BY DEF Late
<1> QED
  BY <1>1, <1>2, NoStep, QuietStep DEF At

\* The second invariant holds behind the begin of gc_collect.
LEMMA StartGcLive == ASSUME Basic, LiveInv, StartGc PROVE LiveInv'
<1> DEFINE s == IF HeadIs("gcif") /\ ~gcRequest THEN None ELSE CollectSteps
<1>1. Go(s) /\ UNCHANGED <<flash, ram, power>>
  BY DEF StartGc, None
<1>2. PICK op \in {"gc", "gcif"} : HeadIs(op)
  BY DEF StartGc
<1>3. op \in Late
  BY DEF Late
<1>4. Part(s) /\ \A i \in DOMAIN s : s[i].op \in Idlers \ {"recover", "recovered"}
  BY NoStep, CollectPart DEF CalmPart, Idlers, Late
<1> HIDE DEF s
<1> QED
  BY <1>1, <1>2, <1>3, <1>4, QuietStep DEF ram, At

\* The second invariant holds behind do_gc for one sector.
LEMMA CollectLive == ASSUME Basic, LiveInv, Collect PROVE LiveInv'
<1> DEFINE c == Head(todo).sec
           t == <<SweepOf(c, 0), EraseOf(c), HeaderOf(c)>>
<1>1. HeadIs("collect") /\ Plan(todo) /\ TypeInv /\ cache' = cache /\ power' = power
  BY DEF Collect, Basic, TypeInv, ram
<1>2. StepOK(Head(todo)) /\ Head(todo).op = "collect"
  BY <1>1, HeadFacts
<1>3. c \in Sector /\ "collect" \in Late
  BY <1>2 DEF StepOK, Late
<1>4. Part(t) /\ \A i \in DOMAIN t : t[i].op \in Idlers \ {"recover", "recovered"}
  <2>1. StepOK(SweepOf(c, 0)) /\ StepOK(EraseOf(c)) /\ StepOK(HeaderOf(c))
    BY <1>3, Constants DEF StepOK, SweepOf, EraseOf, HeaderOf, Active, Writes, Late
  <2>2. Follows(SweepOf(c, 0), EraseOf(c)) /\ Follows(EraseOf(c), HeaderOf(c))
    BY DEF Follows, SweepOf, EraseOf, HeaderOf, Active, Writes
  <2>3. /\ Part(t) /\ t # <<>> /\ Len(t) = 3
        /\ t[1] = SweepOf(c, 0) /\ t[2] = EraseOf(c) /\ t[3] = HeaderOf(c)
        /\ DOMAIN t = {1, 2, 3}
    BY <2>1, <2>2, Three
  <2> HIDE DEF t
  <2> QED
    BY <2>3 DEF SweepOf, EraseOf, HeaderOf, Idlers
<1>5. \/ flash' = [flash EXCEPT ![c].dirty = "GC"] /\ Go(t)
      \/ UNCHANGED flash /\ Go(None)
  BY DEF Collect, None
<1> HIDE DEF t, c
<1>6. (\A b \in Addr : At(b)' = At(b)) /\ (\A q \in Sector : flash'[q].store = flash[q].store)
  <2>1. "GC" \in Dirts
    BY DEF Dirts
  <2>2. CASE flash' = [flash EXCEPT ![c].dirty = "GC"]
    BY <1>1, <1>3, <2>1, <2>2, SetDirtyFacts DEF TypeInv
  <2>3. CASE UNCHANGED flash
    BY <2>3 DEF At
  <2> QED
    BY <1>5, <2>2, <2>3
<1>7. PICK s \in {t, None} : Go(s)
  BY <1>5
<1>8. Part(s) /\ \A i \in DOMAIN s : s[i].op \in Idlers \ {"recover", "recovered"}
  BY <1>4, NoStep
<1> QED
  BY <1>1, <1>3, <1>6, <1>7, <1>8, QuietStep

\* The second invariant holds behind check_and_recovery_gc_cb.
LEMMA ResumeLive == ASSUME Basic, LiveInv, ResumeGc PROVE LiveInv'
<1> DEFINE t == <<Gc>>
<1>1. HeadIs("resume") /\ UNCHANGED <<flash, cache, power>> /\ "resume" \in Late
  BY DEF ResumeGc, Late
<1>2. StepOK(Gc) /\ Gc.op = "gc"
  BY DEF StepOK, Gc, Active, Writes, Late
<1>3. Part(t) /\ t[1] = Gc /\ DOMAIN t = {1}
  BY <1>2, One
<1>4. Go(t) \/ Go(None)
  BY DEF ResumeGc, None
<1> HIDE DEF t
<1>5. PICK s \in {t, None} : Go(s)
  BY <1>4
<1>6. Part(s) /\ \A i \in DOMAIN s : s[i].op \in Idlers \ {"recover", "recovered"}
  BY <1>2, <1>3, NoStep DEF Idlers, Late
<1> QED
  BY <1>1, <1>5, <1>6, QuietStep DEF At

\* The second invariant holds behind check_sec_hdr_cb.
LEMMA RepairLive == ASSUME Basic, LiveInv, RepairSector PROVE LiveInv'
<1> DEFINE s == Least(With("NONE"))
           z == Repair
           x == <<EraseOf(s), HeaderOf(s), z>>
<1>1. HeadIs("repair") /\ UNCHANGED <<flash, ram, power>> /\ "repair" \in Late
  BY DEF RepairSector, Late
<1>2. Go(None) \/ (With("NONE") # {} /\ Go(x))
  BY DEF RepairSector, None
<1>3. With("NONE") # {} => s \in Sector
  <2>1. With("NONE") \subseteq Sector
    BY DEF With
  <2> QED
    BY <2>1, Constants, LeastOf
<1>4. StepOK(z) /\ Closed(z) /\ Calm(z) /\ z.op = "repair"
  BY DEF Repair, StepOK, Active, Writes, Late, Closed, Open, Calm
<1> HIDE DEF z, s
<1>5. With("NONE") # {} => /\ Part(x) /\ x # <<>> /\ Len(x) = 3 /\ DOMAIN x = {1, 2, 3}
                           /\ x[1].op = "erase" /\ x[2].op = "header" /\ x[3] = z
  BY <1>3, <1>4, FormatSteps
<1> HIDE DEF x
<1>6. PICK t : Go(t) /\ (t = None \/ (With("NONE") # {} /\ t = x))
  BY <1>2
<1>7. Part(t) /\ \A i \in DOMAIN t : t[i].op \in Idlers \ {"recover", "recovered"}
  BY <1>4, <1>5, <1>6, NoStep DEF Idlers, Late
<1> QED
  BY <1>1, <1>6, <1>7, QuietStep DEF ram, At

\* The recovery is all that is left when it has begun.
LEMMA AloneLast ==
  ASSUME Basic, LiveInv, HeadIs("recover") \/ HeadIs("recovered"), NEW s, Part(s), Go(s)
  PROVE  /\ power = "boot" /\ DOMAIN todo' = DOMAIN s /\ Len(todo') = Len(s)
         /\ \A i \in DOMAIN s : todo'[i] = s[i]
<1>1. Plan(todo)
  BY DEF Basic, TypeInv
<1>2. /\ todo # <<>> /\ Head(todo).op \in {"recover", "recovered"} /\ Head(todo) = todo[1] /\ 1 \in DOMAIN todo
      /\ DOMAIN todo = 1..Len(todo) /\ Len(todo) \in Nat
  BY <1>1, HeadFacts
<1>3. 1 = Len(todo) /\ power = "boot"
  BY <1>2 DEF LiveInv, EndInv
<1>4. IsSeq(todo') /\ Len(todo') = Len(s) + Len(todo) - 1 /\ Len(s) \in Nat /\ DOMAIN s = 1..Len(s)
      /\ \A i \in DOMAIN s : todo'[i] = s[i]
  BY <1>1, <1>2, Steps
<1>5. DOMAIN todo' = 1..Len(todo')
  <2>1. PICK u : u = todo'
    OBVIOUS
  <2>2. IsSeq(u)
    BY <1>4, <2>1
  <2>3. DOMAIN u = 1..Len(u)
    BY <2>2, SeqFacts
  <2> QED
    BY <2>1, <2>3
<1>6. Len(todo') = Len(s)
  <2>1. \A m, n, l : l = 1 /\ n \in Nat /\ m = n + l - 1 => m = n
    OBVIOUS
  <2> QED
    BY <1>3, <1>4, <2>1, Zenon
<1>7. DOMAIN todo' = DOMAIN s
  BY <1>4, <1>5, <1>6
<1> QED
  BY <1>3, <1>4, <1>6, <1>7

\* The second invariant holds behind the end of the recovery.
LEMMA RecoveredLive == ASSUME Basic, LiveInv, RecoveryComplete, Recovered PROVE LiveInv'
<1> DEFINE z == RecoverOf(<<1, 0>>)
           t == <<Gc, z>>
<1>1. HeadIs("recovered") /\ UNCHANGED <<flash, cache>> /\ "recovered" \in Late
  BY DEF Recovered, Late
<1>2. StepOK(Gc) /\ StepOK(z) /\ Follows(Gc, z) /\ Gc.op = "gc" /\ z.op = "recover"
  BY Constants DEF StepOK, Gc, RecoverOf, Active, Writes, Late, Follows
<1> HIDE DEF z
<1>3. Part(t) /\ Len(t) = 2 /\ t[1] = Gc /\ t[2] = z /\ DOMAIN t = {1, 2}
  BY <1>2, Two
<1>4. \/ Go(t) /\ power' = power
      \/ Go(None) /\ ~gcRequest
  BY DEF Recovered, None, z
<1> HIDE DEF t
<1>5. ASSUME Go(t), power' = power PROVE LiveInv'
  <2>1. EndInv'
    BY <1>1, <1>2, <1>3, <1>5, AloneLast DEF EndInv
  <2>2. \A i \in DOMAIN t : t[i].op \in Idlers
    BY <1>2, <1>3 DEF Idlers, Late
  <2> QED
    BY <1>1, <1>3, <1>5, <2>1, <2>2, QuietLive DEF At
<1>6. ASSUME Go(None), ~gcRequest PROVE LiveInv'
  <2>1. EndInv'
    BY <1>1, <1>6, NoStep, AloneLast DEF EndInv
  <2>2. \A a \in Addr : ~D(a)
    BY <1>1, <1>6 DEF RecoveryComplete, D
  <2> QED
    BY <1>1, <1>6, <2>1, <2>2, NoStep, QuietLive DEF At
<1> QED
  BY <1>4, <1>5, <1>6

\* A record that was not written to its end is given up, others are left alone.
LEMMA RecoverLive == ASSUME Basic, Off, LiveInv, Recover PROVE LiveInv'
<1>1. /\ HeadIs("recover") /\ Plan(todo) /\ TypeInv /\ todo # <<>>
      /\ UNCHANGED <<cache, recovering, power>>
  BY RecoverCases, HeadFacts DEF Basic, TypeInv, ram
<1>2. PICK t : /\ Part(t) /\ Go(t)
               /\ \A i \in DOMAIN t :
                    \/ t[i].op \in {"recover", "recovered"} /\ i = Len(t)
                    \/ t[i].op = "move" /\ t[i].by = "start"
               /\ \/ UNCHANGED flash
                  \/ \E a \in Addr : /\ At(a).st = "PRE_WRITE"
                                     /\ SetRec(a, [At(a) EXCEPT !.st = "ERR_HDR"])
  BY RecoverCases
<1>8. /\ Fewer /\ \A b \in Addr : At(b).key \in Key => At(b)'.key \in Key
      /\ \A k \in Key : CacheHit(k)' => CacheHit(k) /\ cache'[k] = cache[k]
      /\ Shape'
  <2>1. CASE UNCHANGED flash
    <3>1. (\A b \in Addr : At(b)' = At(b)) /\ flash' = flash
      BY <2>1 DEF At
    <3>2. Fewer /\ \A b \in Addr : At(b).key \in Key => At(b)'.key \in Key
      BY <3>1, SameRecords
    <3>3. \A k \in Key : CacheHit(k)' => CacheHit(k) /\ cache'[k] = cache[k]
      BY <1>1, <3>1, SameHits DEF TypeInv
    <3>4. Shape'
      BY <3>1 DEF LiveInv, Shape
    <3> QED
      BY <3>2, <3>3, <3>4
  <2>2. ASSUME NEW a \in Addr, At(a).st = "PRE_WRITE", SetRec(a, [At(a) EXCEPT !.st = "ERR_HDR"])
        PROVE  /\ Fewer /\ \A b \in Addr : At(b).key \in Key => At(b)'.key \in Key
               /\ \A k \in Key : CacheHit(k)' => CacheHit(k) /\ cache'[k] = cache[k]
               /\ Shape'
    <3> DEFINE z == [At(a) EXCEPT !.st = "ERR_HDR"]
    <3>1. At(a) \in Record
      BY <1>1, Parts DEF TypeInv
    <3>2. z \in Record /\ z.st = "ERR_HDR" /\ z.key = At(a).key
      BY <3>1, ChangedRecord
    <3> HIDE DEF z
    <3>3. /\ \A b \in Addr : At(b)' = IF b = a THEN z ELSE At(b)
          /\ \A c \in Sector : flash'[c].store = flash[c].store
      BY <1>1, <2>2, <3>1, <3>2, SetRecFacts DEF TypeInv, z
    <3>4. At(a) # Blank
      BY <2>2, BlankFacts
    <3>5. /\ \A b \in Addr : At(b)'.key = At(b).key
          /\ \A b \in Addr : b # a => At(b)' = At(b)
      BY <3>2, <3>3
    <3>6. ~(At(a)'.st = "WRITE")
      BY <3>2, <3>3
    <3>7. \A b \in Addr : W(b)' => W(b)
      <4>1. ASSUME NEW b \in Addr, At(b)'.whole, At(b)'.st = "WRITE" PROVE W(b)
        <5>1. b # a
          BY <3>6, <4>1
        <5> QED
          BY <3>5, <4>1, <5>1 DEF W
      <4> QED
        BY <4>1 DEF W
    <3>8. Fewer
      BY <3>5, <3>7 DEF Fewer
    <3>9. ASSUME NEW k \in Key, CacheHit(k)' PROVE CacheHit(k) /\ cache'[k] = cache[k]
      <4>1. cache[k] \in Addr \cup {NoAddr} /\ cache'[k] = cache[k]
        BY <1>1 DEF TypeInv
      <4>2. PICK c : c = cache[k]
        OBVIOUS
      <4>3. c # NoAddr /\ At(c)'.key = k /\ c \in Addr
        BY <3>9, <4>1, <4>2 DEF CacheHit, At
      <4> QED
        BY <3>5, <4>1, <4>2, <4>3 DEF CacheHit
    <3>10. Shape'
      <4>1. SUFFICES ASSUME NEW b \in Addr, At(b)' # Blank
                     PROVE  flash'[b[1]].store \in {"USING", "FULL"}
        BY DEF Shape
      <4>2. At(b) # Blank /\ b[1] \in Sector
        BY <3>4, <3>5, <4>1, Addresses
      <4> QED
        BY <3>3, <4>2 DEF LiveInv, Shape
    <3> QED
      BY <3>5, <3>8, <3>9, <3>10
  <2> QED
    BY <1>2, <2>1, <2>2
<1>9. Unique' /\ CacheInv'
  BY <1>8, FewerUnique, FewerCache DEF LiveInv
<1>10. /\ power' = "boot" /\ recovering' = TRUE
       /\ \A i \in DOMAIN todo' :
            \/ todo'[i].op \in {"recovered", "recover"} /\ i = Len(todo')
            \/ todo'[i].op = "move" /\ todo'[i].by = "start"
  <2>1. power = "boot" /\ DOMAIN todo' = DOMAIN t /\ Len(todo') = Len(t) /\ \A i \in DOMAIN t : todo'[i] = t[i]
    BY <1>1, <1>2, AloneLast
  <2> QED
    BY <1>1, <1>2, <2>1 DEF Off
<1>11. todo' # <<>> => 1 \in DOMAIN todo' /\ Head(todo') = todo'[1]
  BY <1>1, <1>2, Steps
<1>12. MarkInv' /\ HeadInv' /\ MoveInv' /\ PendingInv' /\ EndInv'
  BY <1>10 DEF MarkInv, HeadInv, MoveInv, PendingInv, EndInv
<1>13. WriteInv' /\ Repl'
  BY <1>10, <1>11 DEF WriteInv, Repl, HeadIs
<1> QED
  BY <1>8, <1>9, <1>12, <1>13 DEF LiveInv

\* A record whose header was cut short is given up, too.
LEMMA MarkScarLive == ASSUME Basic, LiveInv, MarkScar PROVE LiveInv'
<1> DEFINE s == Least(Unbegun)
           a == <<s, 0>>
<1>1. HeadIs("scars") /\ Plan(todo) /\ TypeInv /\ UNCHANGED <<cache, recovering, power>> /\ "scars" \in Late
  BY DEF MarkScar, Basic, TypeInv, ram, Late
<1>2. \/ Go(None) /\ UNCHANGED flash
      \/ Unbegun # {} /\ SetRec(a, Scar) /\ UNCHANGED todo
  BY DEF MarkScar, None
<1>3. CASE Go(None) /\ UNCHANGED flash
  BY <1>1, <1>3, NoStep, QuietStep DEF At
<1>4. CASE Unbegun # {} /\ SetRec(a, Scar) /\ UNCHANGED todo
  <2>1. s \in Sector /\ flash[s].store = "USING" /\ Fill(s) = 0
    <3>1. Unbegun \in SUBSET Nat
      BY Constants DEF Unbegun, With
    <3>2. s \in Unbegun
      BY <1>4, <3>1, LeastOf
    <3> QED
      BY <3>2 DEF Unbegun, With
  <2>2. a \in Addr /\ a[1] = s /\ a[2] = 0 /\ 0 \in Offset
    BY <2>1, Constants, Addresses
  <2>3. At(a) = Blank
    <3>1. flash[s].recs[0] = Blank
      BY <1>1, <2>1, <2>2, FillFacts DEF TypeInv
    <3> QED
      BY <2>2, <3>1 DEF At
  <2> HIDE DEF a, s
  <2>4. /\ \A b \in Addr : At(b)' = IF b = a THEN Scar ELSE At(b)
        /\ \A c \in Sector : flash'[c].store = flash[c].store
    BY <1>1, <1>4, <2>2, KnownRecords, SetRecFacts DEF TypeInv
  <2>5. Scar.key \notin Key /\ ~Scar.whole /\ Blank.key \notin Key /\ ~Blank.whole
    BY KnownRecords, Constants
  <2>6. /\ \A b \in Addr : W(b)' => W(b) /\ b # a
        /\ \A b \in Addr : D(b)' => D(b)
        /\ \A b \in Addr : b # a => At(b)' = At(b)
    BY <2>4, <2>5 DEF W, D
  <2>7. Fewer
    BY <2>6 DEF Fewer
  <2>8. ASSUME NEW k \in Key, CacheHit(k)' PROVE CacheHit(k) /\ cache'[k] = cache[k]
    <3>1. cache[k] \in Addr \cup {NoAddr} /\ cache'[k] = cache[k]
      BY <1>1 DEF TypeInv
    <3>2. PICK c : c = cache[k]
      OBVIOUS
    <3>3. c # NoAddr /\ At(c)'.key = k /\ c \in Addr
      BY <2>8, <3>1, <3>2 DEF CacheHit, At
    <3>4. c # a
      BY <2>4, <2>5, <3>3
    <3> QED
      BY <2>6, <3>1, <3>2, <3>3, <3>4 DEF CacheHit
  <2>9. Unique' /\ CacheInv'
    BY <2>7, <2>8, FewerUnique, FewerCache DEF LiveInv
  <2>10. Shape'
    <3>1. SUFFICES ASSUME NEW b \in Addr, At(b)' # Blank
                   PROVE  flash'[b[1]].store \in {"USING", "FULL"}
      BY DEF Shape
    <3>2. b[1] \in Sector
      BY Addresses
    <3>3. CASE b = a
      BY <2>1, <2>2, <2>4, <3>3
    <3>4. CASE b # a
      BY <2>4, <2>6, <3>1, <3>2, <3>4 DEF LiveInv, Shape
    <3> QED
      BY <3>3, <3>4
  <2>11. /\ todo # <<>> /\ Head(todo) = todo[1] /\ Head(todo).op = "scars" /\ DOMAIN todo = 1..Len(todo)
         /\ Len(todo) \in Nat
    BY <1>1, HeadFacts
  <2>12. \A j \in DOMAIN todo : todo[j].op \in Late
    <3>1. \A j \in DOMAIN todo : j >= 2 => todo[j].op \in Late
      BY <1>1, RestStill DEF Still
    <3> QED
      BY <1>1, <2>11, <3>1
  <2>13. MarkInv' /\ HeadInv' /\ MoveInv'
    BY <1>4, <2>12 DEF MarkInv, HeadInv, MoveInv, Late
  <2>14. WriteInv' /\ Repl'
    BY <1>4, <2>11 DEF WriteInv, Repl, HeadIs
  <2>15. EndInv'
    BY <1>1, <1>4 DEF EndInv, LiveInv
  <2>16. PendingInv'
    <3>1. SUFFICES ASSUME power = "on", NEW b \in Addr, D(b) PROVE FALSE
      BY <1>1, <2>6 DEF PendingInv
    <3> QED
      BY <1>1, <3>1, LateClean
  <2> QED
    BY <2>9, <2>10, <2>13, <2>14, <2>15, <2>16 DEF LiveInv
<1> QED
  BY <1>2, <1>3, <1>4

\* A record is about to be written behind an active step or none, and the
\* steps that are left belong to calls, collections and starts.
LEMMA RestLate ==
  ASSUME Plan(todo), NEW op \in Late, HeadIs(op), NEW s, Part(s), Go(s), NEW i \in DOMAIN todo'
  PROVE  \/ i \in DOMAIN s /\ todo'[i] = s[i]
         \/ todo'[i].op \in Late
<1>1. todo # <<>>
  BY HeadFacts
<1>2. CASE \E j \in DOMAIN todo : j >= 2 /\ i = j + Len(s) - 1 /\ todo'[i] = todo[j]
  BY <1>2, RestStill DEF Still
<1> QED
  BY <1>1, <1>2, Steps

\* The default is written when every record is blank.
LEMMA SetDefaultLive == ASSUME Basic, LiveInv, SetDefault PROVE LiveInv'
<1>1. /\ HeadIs("default") /\ UNCHANGED <<flash, cache, recovering, power>> /\ Plan(todo) /\ todo # <<>>
      /\ Head(todo).op = "default" /\ "default" \in Late
  BY DefaultCases, HeadFacts DEF ram, Basic, TypeInv, Late
<1>2. PICK t : /\ Part(t) /\ t # <<>> /\ Go(t) /\ DOMAIN t = 1..Len(t)
               /\ \/ Len(t) = 3 /\ t[1].op = "erase" /\ t[2].op = "header" /\ t[3].op = "default"
                  \/ \E a \in Addr : /\ Len(t) = 4 /\ t[1].op = "use" /\ t[2].op = "head" /\ t[2].addr = a
                                     /\ t[3].op = "body" /\ t[4].op = "commit"
                                     /\ flash[a[1]].store \in {"EMPTY", "USING"}
                                     /\ \A b \in Addr : At(b) = Blank
  BY DefaultCases
<1>3. (\A i \in 1..3 : i \in {1, 2, 3}) /\ (\A i \in 1..4 : i \in {1, 2, 3, 4})
  OBVIOUS
<1>4. CASE Len(t) = 3 /\ t[1].op = "erase" /\ t[2].op = "header" /\ t[3].op = "default"
  <2>1. \A i \in DOMAIN t : t[i].op \in Idlers \ {"recover", "recovered"}
    BY <1>2, <1>3, <1>4 DEF Idlers, Late
  <2> QED
    BY <1>1, <1>2, <2>1, QuietStep DEF At
<1>5. ASSUME NEW c \in Addr, Len(t) = 4, t[1].op = "use", t[2].op = "head", t[2].addr = c,
             t[3].op = "body", t[4].op = "commit", flash[c[1]].store \in {"EMPTY", "USING"},
             \A b \in Addr : At(b) = Blank
      PROVE  LiveInv'
  <2>10. \A i \in DOMAIN t : t[i].op \in {"use", "head", "body", "commit"} /\ (t[i].op = "head" => i = 2)
    BY <1>2, <1>3, <1>5
  <2>11. /\ \A b \in Addr : At(b)' = Blank /\ ~W(b)' /\ ~D(b)'
         /\ UNCHANGED <<flash, cache, recovering, power>>
    BY <1>1, <1>5, BlankFacts DEF At, W, D
  <2>12. Unique' /\ CacheInv' /\ Shape' /\ PendingInv'
    BY <2>11 DEF Unique, CacheInv, Shape, PendingInv
  <2>13. \A i \in DOMAIN todo' : todo'[i].op \in {"use", "head", "body", "commit"} \cup Late
    BY <1>1, <1>2, <2>10, RestLate
  <2>14. MarkInv' /\ MoveInv'
    BY <2>13 DEF MarkInv, MoveInv, Late
  <2>15. todo' # <<>> => Head(todo').op = "use"
    BY <1>1, <1>2, <1>5, Steps
  <2>16. WriteInv' /\ Repl'
    BY <2>15 DEF WriteInv, Repl, HeadIs
  <2>17. HeadInv'
    <3>1. SUFFICES ASSUME NEW i \in DOMAIN todo', NEW b \in Addr, todo'[i].op = "head", todo'[i].addr = b
                   PROVE  /\ \A y \in Addr : ~W(y)'
                          /\ At(b)' = Blank
                          /\ i # 1 /\ flash'[b[1]].store \in {"EMPTY", "USING"}
      BY <3>1 DEF HeadInv, Free
    <3>2. i \in DOMAIN t /\ todo'[i] = t[i]
      BY <1>1, <1>2, <3>1, RestLate DEF Late
    <3>3. i = 2 /\ b = c
      BY <1>5, <2>10, <3>1, <3>2
    <3> QED
      BY <1>5, <2>11, <3>3
  <2>18. EndInv'
    <3>1. \A i \in DOMAIN t : t[i].op \notin {"recover", "recovered"} /\ (t[i].op = "move" => t[i].by # "start")
      BY <2>10
    <3> QED
      BY <1>1, <1>2, <2>11, <3>1, EndKept DEF LiveInv
  <2> QED
    BY <2>12, <2>14, <2>16, <2>17, <2>18 DEF LiveInv
<1> QED
  BY <1>2, <1>4, <1>5

\* A search finds the valid record of a key, and the cache may keep it.
LEMMA FoundLive ==
  ASSUME TypeInv, Unique, Shape, CacheInv, NEW k \in Key
  PROVE  /\ \A b \in Addr : W(b) /\ At(b).key = k => b = Find(k)
         /\ Find(k) # NoAddr => Find(k) \in Addr /\ At(Find(k)).key = k
         /\ Find(k) \in Addr \cup {NoAddr}
<1>1. Find(k) \in Addr \cup {NoAddr} /\ (Live(k) # {} => Search(k) \in Live(k))
  BY FindFacts DEF TypeInv
<1>2. \A b \in Addr : b \in Live(k) <=> W(b) /\ At(b).key = k
  BY BlankFacts DEF Live, Visited, W, Shape
<1>3. CASE CacheHit(k)
  BY <1>1, <1>3 DEF CacheInv, Find, CacheHit
<1>4. CASE ~CacheHit(k) /\ Live(k) # {}
  <2>1. PICK c \in Addr : c = Search(k) /\ c \in Live(k)
    BY <1>1, <1>4 DEF Live, Visited
  <2>2. W(c) /\ At(c).key = k /\ Find(k) = c
    BY <1>2, <1>4, <2>1 DEF Find
  <2> QED
    BY <1>1, <2>2 DEF Unique
<1>5. CASE ~CacheHit(k) /\ Live(k) = {}
  BY <1>2, <1>5, Addresses DEF Find, Search
<1> QED
  BY <1>3, <1>4, <1>5

\* The cache may keep what a search has found.
LEMMA CacheLive ==
  ASSUME TypeInv, Unique, Shape, CacheInv, NEW k \in Key, cache' = FoundInCache(k), flash' = flash
  PROVE  Unique' /\ Shape' /\ CacheInv'
<1>1. /\ \A b \in Addr : W(b) /\ At(b).key = k => b = Find(k)
      /\ Find(k) # NoAddr => Find(k) \in Addr /\ At(Find(k)).key = k
  BY FoundLive
<1>2. \A b : At(b)' = At(b) /\ (W(b)' <=> W(b))
  BY DEF At, W
<1>3. Unique' /\ Shape'
  BY <1>2 DEF Unique, Shape
<1>4. cache \in [Key -> Addr \cup {NoAddr}]
  BY DEF TypeInv
<1>5. \A q \in Key : cache'[q] = IF q = k /\ Find(k) # NoAddr THEN Find(k) ELSE cache[q]
  BY <1>4 DEF FoundInCache
<1>6. ASSUME NEW q \in Key, CacheHit(q)', NEW b \in Addr, W(b), At(b).key = q
      PROVE  b = cache'[q]
  <2>1. CASE q = k /\ Find(k) # NoAddr
    BY <1>1, <1>5, <1>6, <2>1
  <2>2. CASE ~(q = k /\ Find(k) # NoAddr)
    <3>1. cache'[q] = cache[q]
      BY <1>5, <2>2
    <3>2. CacheHit(q)
      BY <1>6, <3>1 DEF CacheHit, At
    <3> QED
      BY <1>6, <3>1, <3>2 DEF CacheInv
  <2> QED
    BY <2>1, <2>2
<1>7. CacheInv'
  BY <1>2, <1>6 DEF CacheInv
<1> QED
  BY <1>3, <1>7

\* A record is replaced when it has been found, and the new one has its place.
LEMMA ReplaceLive ==
  ASSUME Basic, LiveInv, HeadIs("put"), NEW k \in Key, NEW v, NEW a \in Addr, NEW full, NEW n \in {0, 1}, NEW old,
         old = Find(k), n = IF old = NoAddr THEN 0 ELSE 1,
         At(a) = Blank, flash[a[1]].store \in {"EMPTY", "USING"},
         cache' = FoundInCache(k), UNCHANGED <<flash, recovering, power>>,
         NEW t, Replaces(t, n, a, k, v, full, old), Go(t)
  PROVE  LiveInv'
<1>1. Plan(todo) /\ TypeInv /\ todo # <<>> /\ Head(todo).op = "put" /\ "put" \in Late
  BY HeadFacts DEF Basic, TypeInv, Late
<1>2. /\ \A b \in Addr : W(b) /\ At(b).key = k => b = old
      /\ old # NoAddr => old \in Addr /\ At(old).key = k
  BY <1>1, FoundLive DEF LiveInv
<1>3. Unique' /\ Shape' /\ CacheInv'
  BY <1>1, CacheLive DEF LiveInv
<1>4. \A b : At(b)' = At(b) /\ (W(b)' <=> W(b)) /\ (D(b)' <=> D(b))
  BY DEF At, W, D
<1>5. /\ Part(t) /\ t # <<>> /\ Len(t) = 6 + 2 * n /\ DOMAIN t = 1..Len(t)
  BY SeqFacts DEF Replaces, Part, Ln
<1>6. /\ n = 0 => /\ t[1].op = "use" /\ t[2].op = "head" /\ t[2].addr = a /\ t[2].key = k
                  /\ t[3].op = "body" /\ t[4].op = "commit" /\ t[5].op = "gcif" /\ t[6].op = "return"
      /\ n = 1 => /\ t[1].op = "mark" /\ t[1].st = "PRE_DELETE" /\ t[1].addr = old
                  /\ t[2].op = "use" /\ t[3].op = "head" /\ t[3].addr = a /\ t[3].key = k
                  /\ t[4].op = "body" /\ t[5].op = "commit"
                  /\ t[6].op = "mark" /\ t[6].st = "DELETED" /\ t[6].addr = old
                  /\ t[7].op = "gcif" /\ t[8].op = "return"
  <2>1. CASE n = 0
    BY <2>1 DEF Replaces
  <2>2. CASE n = 1
    BY <2>2 DEF Replaces
  <2> QED
    BY <2>1, <2>2
<1>7. /\ \A i \in DOMAIN t : t[i].op \in {"mark", "use", "head", "body", "commit", "gcif", "return"}
      /\ \A i \in DOMAIN t : t[i].op = "head" => i = n + 2 /\ t[i].addr = a /\ t[i].key = k
      /\ \A i \in DOMAIN t : t[i].op = "mark" => n = 1 /\ t[i].addr = old
  <2>1. CASE n = 0
    <3>1. DOMAIN t = 1..6
      BY <1>5, <2>1
    <3>2. \A i \in 1..6 : i \in {1, 2, 3, 4, 5, 6}
      OBVIOUS
    <3> QED
      BY <1>6, <2>1, <3>1, <3>2
  <2>2. CASE n = 1
    <3>1. DOMAIN t = 1..8
      BY <1>5, <2>2
    <3>2. \A i \in 1..8 : i \in {1, 2, 3, 4, 5, 6, 7, 8}
      OBVIOUS
    <3> QED
      BY <1>6, <2>2, <3>1, <3>2
  <2> QED
    BY <2>1, <2>2
<1>8. n = 1 => old # NoAddr /\ old \in Addr /\ At(old).key \in Key
  BY <1>2
<1>9. MarkInv'
  <2>1. \A i \in DOMAIN t, b \in Addr : t[i].op = "mark" /\ t[i].addr = b => At(b)'.key \in Key
    BY <1>4, <1>7, <1>8
  <2> QED
    BY <1>1, <1>4, <1>5, <2>1, MarksKept DEF LiveInv
<1>10. MoveInv' /\ EndInv'
  BY <1>1, <1>5, <1>7, MovesFree, EndKept DEF LiveInv
<1>11. /\ todo' # <<>> => 1 \in DOMAIN todo' /\ Head(todo') = todo'[1]
       /\ \A i \in DOMAIN t : i \in DOMAIN todo' /\ todo'[i] = t[i]
  BY <1>1, <1>5, Steps
<1>12. 1 \in DOMAIN t /\ 2 \in DOMAIN t /\ 6 \in DOMAIN t
  BY <1>5
<1>13. todo' # <<>>
  <2>1. PICK u : u = todo'
    OBVIOUS
  <2>2. 1 \in DOMAIN u
    BY <1>11, <1>12, <2>1
  <2> QED
    BY <2>1, <2>2
<1>14. /\ Head(todo') = t[1] /\ todo'[2] = t[2] /\ todo'[6] = t[6] /\ 2 \in DOMAIN todo' /\ 6 \in DOMAIN todo'
  BY <1>11, <1>12, <1>13
<1>15. WriteInv'
  BY <1>6, <1>14 DEF WriteInv, HeadIs
<1>16. Repl'
  <2>1. CASE n = 0
    BY <1>6, <1>14, <2>1 DEF Repl, HeadIs
  <2>2. CASE n = 1
    BY <1>6, <1>14, <2>2 DEF Repl, HeadIs
  <2> QED
    BY <2>1, <2>2
<1>17. PendingInv'
  <2>1. SUFFICES ASSUME power = "on", NEW b \in Addr, D(b) PROVE FALSE
    BY <1>4 DEF PendingInv
  <2> QED
    BY <1>1, <2>1, LateClean
<1>18. HeadInv'
  <2>1. SUFFICES ASSUME NEW i \in DOMAIN todo', NEW b \in Addr, todo'[i].op = "head", todo'[i].addr = b
                 PROVE  /\ \A c \in Addr : W(c)' /\ At(c)'.key = todo'[i].key => Under(c)'
                        /\ At(b)' = Blank
                        /\ i # 1 /\ flash'[b[1]].store \in {"EMPTY", "USING"}
    BY <2>1 DEF HeadInv, Free
  <2>2. i \in DOMAIN t /\ todo'[i] = t[i]
    BY <1>1, <1>5, <2>1, RestLate DEF Late
  <2>3. i = n + 2 /\ b = a /\ todo'[i].key = k
    BY <1>7, <2>1, <2>2
  <2>4. ASSUME NEW c \in Addr, W(c)', At(c)'.key = k PROVE Under(c)'
    <3>1. W(c) /\ At(c).key = k
      BY <1>4, <2>4
    <3>2. c = old /\ n = 1
      BY <1>2, <3>1, Addresses
    <3> QED
      BY <1>6, <1>13, <1>14, <3>2 DEF Under, HeadIs
  <2> QED
    BY <1>4, <2>3, <2>4
<1> QED
  BY <1>3, <1>9, <1>10, <1>15, <1>16, <1>17, <1>18 DEF LiveInv

\* The second invariant holds behind the replacement set_env decides on.
LEMMA PutLive == ASSUME Basic, LiveInv, Put PROVE LiveInv'
<1> DEFINE k == Head(todo).key
           v == Head(todo).val
           r == Alloc(Size[v])
           full == BecomesFull(r.addr[1], Size[v])
<1>1. HeadIs("put") /\ Plan(todo) /\ TypeInv
  BY DEF Put, Basic, TypeInv
<1>2. /\ todo # <<>> /\ Head(todo).op = "put" /\ StepOK(Head(todo))
  BY <1>1, HeadFacts
<1>3. k \in Key /\ v \in Value
  BY <1>2 DEF StepOK
<1>4. r.addr # NoAddr => /\ r.addr \in Addr /\ r.addr[2] + Size[v] <= SectorSize
                         /\ At(r.addr) = Blank /\ flash[r.addr[1]].store \in {"EMPTY", "USING"}
  BY <1>1, <1>3, Constants, AllocFacts DEF TypeInv
<1>5. full \in BOOLEAN
  BY DEF BecomesFull
<1>6. UNCHANGED <<flash, lastDel, recovering, power, caller, restarts>>
  BY DEF Put
<1>7. Find(k) \in Addr \cup {NoAddr}
  BY <1>1, <1>3, FindFacts DEF TypeInv
<1> HIDE DEF full
<1>8. CASE r.addr # NoAddr
  <2>1. /\ cache' = FoundInCache(k)
        /\ \E t : IsCat(t, Replace(Find(k), WriteSteps(r.addr, k, v, "set", full)), <<GcIfRequested, ReturnOf("ok")>>)
                  /\ Go(t)
    BY <1>8 DEF Put, IsCat, full
  <2>2. PICK t : IsCat(t, Replace(Find(k), WriteSteps(r.addr, k, v, "set", full)), <<GcIfRequested, ReturnOf("ok")>>)
                 /\ Go(t)
    BY <2>1
  <2> DEFINE n == IF Find(k) = NoAddr THEN 0 ELSE 1
             old == Find(k)
             a == r.addr
  <2>3. n \in {0, 1} /\ n = IF old = NoAddr THEN 0 ELSE 1
    OBVIOUS
  <2>4. IsCat(t, Replace(old, WriteSteps(a, k, v, "set", full)), <<GcIfRequested, ReturnOf("ok")>>)
    BY <2>2
  <2>5. a \in Addr /\ a[2] + Size[v] <= SectorSize /\ old \in Addr \cup {NoAddr}
        /\ At(a) = Blank /\ flash[a[1]].store \in {"EMPTY", "USING"} /\ old = Find(k)
    BY <1>4, <1>7, <1>8
  <2>6. PICK kk, vv, aa, oo, nn : kk = k /\ vv = v /\ aa = a /\ oo = old /\ nn = n
    OBVIOUS
  <2> HIDE DEF n, old, a, k, v, r
  <2>7. Replaces(t, nn, aa, kk, vv, full, oo)
    BY <1>3, <1>5, <2>3, <2>4, <2>5, <2>6, ReplacePart
  <2>8. cache' = FoundInCache(kk) /\ Go(t) /\ oo = Find(kk)
    BY <2>1, <2>2, <2>5, <2>6
  <2>9. kk \in Key /\ aa \in Addr /\ nn \in {0, 1} /\ nn = IF oo = NoAddr THEN 0 ELSE 1
    BY <1>3, <2>3, <2>5, <2>6
  <2>10. At(aa) = Blank /\ flash[aa[1]].store \in {"EMPTY", "USING"}
    BY <2>5, <2>6
  <2> QED
    BY <1>1, <1>6, <2>7, <2>8, <2>9, <2>10, ReplaceLive
<1>9. CASE r.addr = NoAddr
  <2> DEFINE g == Gc
             p == PutOf(k, v, TRUE)
             q == ReturnOf("full")
             x == <<g, p>>
             y == <<q>>
  <2>1. /\ StepOK(g) /\ StepOK(p) /\ StepOK(q) /\ Follows(g, p)
        /\ g.op = "gc" /\ p.op = "put" /\ q.op = "return"
    BY <1>3 DEF StepOK, Gc, PutOf, ReturnOf, Follows, Active, Writes, Late
  <2>2. \E t : t \in {x, y} /\ Go(t)
    BY <1>9 DEF Put
  <2> HIDE DEF g, p, q
  <2>3. /\ Part(x) /\ x # <<>> /\ Len(x) = 2 /\ x[1] = g /\ x[2] = p /\ DOMAIN x = {1, 2}
    BY <2>1, Two
  <2>4. /\ Part(y) /\ y # <<>> /\ Len(y) = 1 /\ y[1] = q /\ DOMAIN y = {1}
    BY <2>1, One
  <2>5. UNCHANGED cache
    BY <1>9 DEF Put
  <2> HIDE DEF x, y
  <2>6. PICK t : t \in {x, y} /\ Go(t)
    BY <2>2
  <2>7. Part(t) /\ \A i \in DOMAIN t : t[i].op \in Idlers \ {"recover", "recovered"}
    BY <2>1, <2>3, <2>4, <2>6 DEF Idlers, Late
  <2>8. "put" \in Late
    BY DEF Late
  <2> QED
    BY <1>1, <1>6, <2>5, <2>6, <2>7, <2>8, QuietStep DEF At
<1> QED
  BY <1>8, <1>9

\* The second invariant holds behind the begin of efd_load_env.
LEMMA StartLive == ASSUME Basic, LiveInv, Start PROVE LiveInv'
<1>1. /\ CalmPart(todo') /\ todo' # <<>> /\ todo'[1].op = "repair"
      /\ \A i \in DOMAIN todo' : todo'[i].op \in {"recover", "recovered"} => i = Len(todo')
  BY StartPart
<1>2. UNCHANGED <<flash, cache>> /\ power' = "boot"
  BY DEF Start
<1>3. \A i \in DOMAIN todo' : todo'[i].op \in Late
  BY <1>1 DEF CalmPart, Calm
<1>4. Head(todo') = todo'[1]
  BY <1>1, SeqFacts DEF CalmPart, Part
<1>5. Unique' /\ Shape' /\ CacheInv'
  BY <1>2 DEF LiveInv, Unique, Shape, CacheInv, CacheHit, W, At
<1>6. MarkInv' /\ HeadInv' /\ MoveInv'
  BY <1>3 DEF MarkInv, HeadInv, MoveInv, Late
<1>7. WriteInv' /\ Repl'
  BY <1>1, <1>4 DEF WriteInv, Repl, HeadIs
<1>8. PendingInv'
  BY <1>2 DEF PendingInv
<1>9. EndInv'
  BY <1>1, <1>2, <1>3 DEF EndInv, Late
<1> QED
  BY <1>5, <1>6, <1>7, <1>8, <1>9 DEF LiveInv

\* A call begins when no record awaits its deletion.
LEMMA CallLive ==
  ASSUME Basic, LiveInv, NEW k \in Key, NEW v \in Value, CallDelete(k) \/ CallGet(k) \/ CallSet(k, v)
  PROVE  LiveInv'
<1>1. TypeInv
  BY DEF Basic
<1>2. power = "on" /\ todo = <<>> /\ UNCHANGED <<flash, recovering, power>>
  BY DEF CallDelete, CallGet, CallSet, Call, caller, Idle
<1>3. cache' = cache \/ cache' = FoundInCache(k)
  BY DEF CallDelete, CallGet, CallSet
<1>4. Unique' /\ Shape' /\ CacheInv'
  <2>1. CASE cache' = cache
    BY <1>2, <2>1 DEF LiveInv, Unique, Shape, CacheInv, CacheHit, W, At
  <2>2. CASE cache' = FoundInCache(k)
    BY <1>1, <1>2, <2>2, CacheLive DEF LiveInv
  <2> QED
    BY <1>3, <2>1, <2>2
<1>5. \A a \in Addr : ~D(a)
  <2>1. \A i \in DOMAIN todo : FALSE
    BY <1>2
  <2> QED
    BY <1>2, <2>1 DEF LiveInv, PendingInv, Pending
<1>6. PendingInv'
  BY <1>2, <1>5 DEF PendingInv, D, At
<1> DEFINE p == PutOf(k, v, FALSE)
           m == ReturnOf("missing")
           d == MarkOf(Find(k), "DELETED")
           e == ReturnOf("ok")
<1>7. \/ todo' = <<>>
      \/ todo' = <<p>>
      \/ todo' = <<m>>
      \/ Find(k) # NoAddr /\ todo' = <<d, e>>
  BY <1>2 DEF CallDelete, CallGet, CallSet, Idle
<1>8. /\ p.op = "put" /\ m.op = "return" /\ e.op = "return"
      /\ d.op = "mark" /\ d.st = "DELETED" /\ d.addr = Find(k)
  BY DEF PutOf, ReturnOf, MarkOf
<1> HIDE DEF p, m, d, e
<1>9. \A i \in DOMAIN todo' : \/ todo'[i].op \in {"put", "return"}
                              \/ /\ todo'[i].op = "mark" /\ todo'[i].st = "DELETED"
                                 /\ todo'[i].addr = Find(k) /\ Find(k) # NoAddr
  <2>1. CASE todo' = <<>>
    BY <2>1
  <2>2. CASE todo' = <<p>>
    BY <1>8, <2>2
  <2>3. CASE todo' = <<m>>
    BY <1>8, <2>3
  <2>4. CASE Find(k) # NoAddr /\ todo' = <<d, e>>
    BY <1>8, <2>4
  <2> QED
    BY <1>7, <2>1, <2>2, <2>3, <2>4
<1>10. todo' # <<>> => 1 \in DOMAIN todo' /\ Head(todo') = todo'[1]
  BY <1>7
<1>11. MarkInv'
  <2>1. Find(k) # NoAddr => Find(k) \in Addr /\ At(Find(k)).key = k
    BY <1>1, FoundLive DEF LiveInv
  <2>2. SUFFICES ASSUME NEW i \in DOMAIN todo', NEW a \in Addr, todo'[i].op = "mark", todo'[i].addr = a
                 PROVE  At(a)'.key \in Key
    BY DEF MarkInv
  <2>3. a = Find(k) /\ Find(k) # NoAddr
    BY <1>9, <2>2
  <2> QED
    BY <1>2, <2>1, <2>3 DEF At
<1>12. HeadInv' /\ MoveInv' /\ EndInv'
  BY <1>9 DEF HeadInv, MoveInv, EndInv
<1>13. WriteInv' /\ Repl'
  BY <1>9, <1>10 DEF WriteInv, Repl, HeadIs
<1> QED
  BY <1>4, <1>6, <1>11, <1>12, <1>13 DEF LiveInv

\* What the loss of power leaves of a record is not valid.
LEMMA LosePowerLive == ASSUME Basic, LiveInv, LosePower PROVE LiveInv'
<1>1. /\ power' = "off" /\ todo' = <<>> /\ cache' = [k \in Key |-> NoAddr]
      /\ UNCHANGED flash \/ (HeadIs("head") /\ SetRec(Head(todo).addr, Scar))
  BY DEF LosePower
<1>2. Plan(todo) /\ TypeInv
  BY DEF Basic, TypeInv
<1>3. Unique' /\ Shape'
  <2>1. CASE UNCHANGED flash
    BY <2>1 DEF LiveInv, Unique, Shape, W, At
  <2>2. CASE HeadIs("head") /\ SetRec(Head(todo).addr, Scar)
    <3>1. Head(todo) = todo[1] /\ 1 \in DOMAIN todo /\ todo[1].op = "head" /\ StepOK(todo[1])
      BY <1>2, <2>2, HeadFacts
    <3>2. PICK a \in Addr : a = Head(todo).addr
      BY <3>1 DEF StepOK
    <3>3. At(a) = Blank /\ flash[a[1]].store \in {"USING", "FULL"}
      BY <3>1, <3>2 DEF LiveInv, HeadInv
    <3>4. /\ \A b \in Addr : At(b)' = IF b = a THEN Scar ELSE At(b)
          /\ \A t \in Sector : flash'[t].store = flash[t].store
      BY <1>2, <2>2, <3>2, KnownRecords, SetRecFacts DEF TypeInv
    <3>5. /\ \A b \in Addr : b # a => At(b)' = At(b)
          /\ At(a)' = Scar /\ ~Scar.whole
      BY <3>4, KnownRecords
    <3>6. \A b \in Addr : W(b)' => W(b) /\ b # a
      <4>1. \A b \in Addr : At(b)'.whole => b # a
        BY <3>5
      <4> QED
        BY <3>5, <4>1 DEF W
    <3>7. Fewer
      BY <3>5, <3>6 DEF Fewer
    <3>8. Unique'
      BY <3>7, FewerUnique DEF LiveInv
    <3>9. Shape'
      <4>1. SUFFICES ASSUME NEW b \in Addr, At(b)' # Blank
                     PROVE  flash'[b[1]].store \in {"USING", "FULL"}
        BY DEF Shape
      <4>2. b[1] \in Sector
        BY Addresses
      <4>3. CASE b = a
        BY <3>3, <3>4, <4>2, <4>3
      <4>4. CASE b # a
        BY <3>4, <3>5, <4>1, <4>2, <4>4 DEF LiveInv, Shape
      <4> QED
        BY <4>3, <4>4
    <3> QED
      BY <3>8, <3>9
  <2> QED
    BY <1>1, <2>1, <2>2
<1>4. CacheInv'
  BY <1>1 DEF CacheInv, CacheHit
<1>5. \A i \in DOMAIN todo' : FALSE
  BY <1>1
<1>6. MarkInv' /\ HeadInv' /\ MoveInv' /\ EndInv'
  BY <1>5 DEF MarkInv, HeadInv, MoveInv, EndInv
<1>7. WriteInv' /\ Repl' /\ PendingInv'
  BY <1>1 DEF WriteInv, Repl, PendingInv, HeadIs
<1> QED
  BY <1>3, <1>4, <1>6, <1>7 DEF LiveInv

\* The second invariant holds in the beginning.
LEMMA LiveInit == ASSUME Init PROVE LiveInv
<1>1. \A a \in Addr : At(a) = Blank
  BY Addresses DEF Init, At, Erased
<1>2. \A a \in Addr : ~W(a) /\ ~D(a)
  BY <1>1, BlankFacts DEF W, D
<1>3. todo = <<>>
  BY DEF Init
<1>4. Unique /\ Shape /\ CacheInv /\ PendingInv
  BY <1>1, <1>2 DEF Unique, Shape, CacheInv, PendingInv
<1>5. \A i \in DOMAIN todo : FALSE
  BY <1>3
<1>6. MarkInv /\ HeadInv /\ MoveInv /\ EndInv
  BY <1>5 DEF MarkInv, HeadInv, MoveInv, EndInv
<1>7. WriteInv /\ Repl
  BY <1>3 DEF WriteInv, Repl, HeadIs
<1> QED
  BY <1>4, <1>6, <1>7 DEF LiveInv

\* The second invariant holds behind every step.
LEMMA LiveStep == ASSUME Basic, Off, LiveInv, RecoveryComplete, Named, Step PROVE LiveInv'
<1>1. CASE Mark
  BY <1>1, MarkLive
<1>2. CASE Dirty
  BY <1>2, DirtyLive
<1>3. CASE Use
  BY <1>3, UseLive
<1>4. CASE WriteHead
  BY <1>4, WriteHeadLive
<1>5. CASE WriteBody
  BY <1>5, WriteBodyLive
<1>6. CASE Commit
  BY <1>6, CommitLive
<1>7. CASE Put
  BY <1>7, PutLive
<1>8. CASE Return
  BY <1>8, ReturnLive
<1>9. CASE StartGc
  BY <1>9, StartGcLive
<1>10. CASE FinishGc
  BY <1>10, FinishGcLive
<1>11. CASE Collect
  BY <1>11, CollectLive
<1>12. CASE Sweep
  BY <1>12, SweepLive
<1>13. CASE Move
  BY <1>13, MoveLive
<1>14. CASE Erase
  BY <1>14, EraseLive
<1>15. CASE Header
  BY <1>15, HeaderLive
<1>16. CASE RepairSector
  BY <1>16, RepairLive
<1>17. CASE SetDefault
  BY <1>17, SetDefaultLive
<1>18. CASE MarkScar
  BY <1>18, MarkScarLive
<1>19. CASE ResumeGc
  BY <1>19, ResumeLive
<1>20. CASE Recover
  BY <1>20, RecoverLive
<1>21. CASE Recovered
  BY <1>21, RecoveredLive
<1> QED
  BY <1>1, <1>2, <1>3, <1>4, <1>5, <1>6, <1>7, <1>8, <1>9, <1>10, <1>11, <1>12, <1>13, <1>14,
     <1>15, <1>16, <1>17, <1>18, <1>19, <1>20, <1>21 DEF Step

\* The second invariant is inductive while the recoveries come to their end.
LEMMA LiveNext == ASSUME Basic, Off, LiveInv, RecoveryComplete, Named, [Next]_vars PROVE LiveInv'
<1>1. CASE Start
  BY <1>1, StartLive
<1>2. CASE Step
  BY <1>2, LiveStep
<1>3. CASE \E k \in Key : CallDelete(k) \/ CallGet(k) \/ \E v \in Value : CallSet(k, v)
  <2>1. PICK k \in Key : CallDelete(k) \/ CallGet(k) \/ \E v \in Value : CallSet(k, v)
    BY <1>3
  <2>2. CASE CallDelete(k) \/ CallGet(k)
    BY <2>2, CallLive, Constants
  <2>3. CASE \E v \in Value : CallSet(k, v)
    BY <2>3, CallLive
  <2> QED
    BY <2>1, <2>2, <2>3
<1>4. CASE LosePower
  BY <1>4, LosePowerLive
<1>5. CASE UNCHANGED vars
  <2>1. UNCHANGED <<flash, cache, todo, power>>
    BY <1>5 DEF vars, ram
  <2>2. Unique' /\ Shape' /\ CacheInv' /\ MarkInv'
    BY <2>1 DEF LiveInv, Unique, Shape, CacheInv, MarkInv, W, CacheHit, At
  <2>3. HeadInv' /\ WriteInv'
    BY <2>1 DEF LiveInv, HeadInv, WriteInv, Under, Free, W, HeadIs, At
  <2>4. MoveInv'
    BY <1>5 DEF vars, ram, LiveInv, MoveInv, Under, Free, W, HeadIs, At
  <2>5. Repl' /\ EndInv'
    BY <2>1 DEF LiveInv, Repl, EndInv, HeadIs
  <2>6. PendingInv'
    BY <2>1 DEF LiveInv, PendingInv, Pending, D, At
  <2> QED
    BY <2>2, <2>3, <2>4, <2>5, <2>6 DEF LiveInv
<1> QED
  BY <1>1, <1>2, <1>3, <1>4, <1>5 DEF Next

\* The keys with one valid record each.
LEMMA OneOf == ASSUME LiveInv PROVE OneLiveRecord
<1>1. SUFFICES ASSUME NEW k \in Key PROVE Cardinality(Live(k)) <= 1
  BY DEF OneLiveRecord
<1>2. \A a, b \in Live(k) : a = b
  BY DEF Live, Visited, W, LiveInv, Unique
<1>3. CASE Live(k) = {}
  BY <1>3, FS_EmptySet
<1>4. CASE Live(k) # {}
  <2>1. PICK a : Live(k) = {a}
    BY <1>2, <1>4
  <2> QED
    BY <2>1, FS_Singleton
<1> QED
  BY <1>3, <1>4

\* A key has one valid record ("already create success, don't need to
\* duplicate", move_env), through collections, losses of power and recoveries, if
\* every recovery comes to its end and finds the successor of a record.
THEOREM OneLive ==
  ASSUME ~StrayName
  PROVE  Spec /\ []RecoveryComplete => []OneLiveRecord
<1>1. Named
  BY DEF Named
<1>2. Basic /\ Off /\ LiveInv /\ RecoveryComplete /\ [Next]_vars => LiveInv'
  BY <1>1, LiveNext
<1>3. Init => LiveInv
  BY LiveInit
<1>4. LiveInv => OneLiveRecord
  BY OneOf
<1> QED
  BY <1>2, <1>3, <1>4, BasicHolds, PTL DEF Spec

Busy == {"mark", "move", "sweep", "dirty", "put"}

\* Until power is lost for the first time a start finds nothing to recover.
Cold ==
  restarts = 0 /\ power # "on" =>
    /\ \A a \in Addr : ~D(a)
    /\ \A s \in Sector : flash[s].dirty = "FALSE"
    /\ \A i \in DOMAIN todo : todo[i].op \notin Busy

\* A step that takes no record out of use.
LEMMA ColdKept ==
  ASSUME Basic, Cold, power # "on", restarts = 0, todo # <<>>, NEW s, Part(s), Go(s),
         \A i \in DOMAIN s : s[i].op \notin Busy,
         \A a \in Addr : D(a)' => D(a),
         \A t \in Sector : flash'[t].dirty \in {flash[t].dirty, "FALSE"}
  PROVE  Cold'
<1>1. Plan(todo)
  BY DEF Basic, TypeInv
<1>2. \A i \in DOMAIN todo' : todo'[i].op \notin Busy
  BY <1>1, Steps DEF Cold
<1> QED
  BY <1>2 DEF Cold

\* The same, when the flash is as it was.
LEMMA ColdQuiet ==
  ASSUME Basic, Cold, power # "on", restarts = 0, todo # <<>>, NEW s, Part(s), Go(s),
         \A i \in DOMAIN s : s[i].op \notin Busy,
         UNCHANGED flash
  PROVE  Cold'
<1>1. \A a \in Addr : D(a)' => D(a)
  BY DEF D, At
<1>2. \A t \in Sector : flash'[t].dirty \in {flash[t].dirty, "FALSE"}
  OBVIOUS
<1> QED
  BY <1>1, <1>2, ColdKept

\* A step that writes one record, and does not put it out of use.
LEMMA ColdRecord ==
  ASSUME Basic, Cold, power # "on", restarts = 0, todo # <<>>, NEW s, Part(s), Go(s),
         \A i \in DOMAIN s : s[i].op \notin Busy,
         NEW a \in Addr, NEW r \in Record, r.st = "PRE_DELETE" => At(a).st = "PRE_DELETE" /\ At(a).whole,
         SetRec(a, r)
  PROVE  Cold'
<1>1. /\ \A b \in Addr : At(b)' = IF b = a THEN r ELSE At(b)
      /\ \A t \in Sector : flash'[t].dirty = flash[t].dirty
  BY SetRecFacts DEF Basic, TypeInv
<1>2. \A b \in Addr : D(b)' => D(b)
  <2>1. /\ \A b \in Addr : b # a => At(b)' = At(b)
        /\ At(a)' = r
    BY <1>1
  <2>2. ASSUME NEW b \in Addr, At(b)'.whole, At(b)'.st = "PRE_DELETE" PROVE D(b)
    BY <2>1, <2>2 DEF D
  <2> QED
    BY <2>2 DEF D
<1> QED
  BY <1>1, <1>2, ColdKept

\* Until power is lost no start takes a record out of use.
LEMMA ColdFront ==
  ASSUME Basic, Cold, power # "on", restarts = 0, NEW op \in Busy, HeadIs(op)
  PROVE  FALSE
<1>1. Head(todo).op = op /\ Head(todo) = todo[1] /\ DOMAIN todo = 1..Len(todo) /\ Len(todo) >= 1 /\ Len(todo) \in Nat
  BY HeadFacts DEF Basic, TypeInv
<1>2. 1 \in DOMAIN todo
  BY <1>1
<1> QED
  BY <1>1, <1>2 DEF Cold

\* What the start does with the flash.
LEMMA ColdWrites ==
  ASSUME Basic, LiveInv, Cold, power # "on", restarts = 0, Use \/ WriteHead \/ WriteBody \/ Commit \/ Erase \/ Header
  PROVE  Cold'
<1>1. Plan(todo) /\ TypeInv /\ todo # <<>>
  BY DEF Basic, TypeInv, Use, WriteHead, WriteBody, Commit, Erase, Header, HeadIs
<1>2. Go(None) /\ Part(None) /\ \A i \in DOMAIN None : FALSE
  BY NoStep DEF Use, WriteHead, WriteBody, Commit, Erase, Header, None
<1>3. CASE Use
  <2>1. Head(todo).sec \in Sector
    BY <1>1, <1>3, HeadFacts DEF StepOK, Use
  <2>2. PICK s \in Sector : \E x \in Stores : flash' = [flash EXCEPT ![s].store = x]
    <3>1. PICK s \in Sector : s = Head(todo).sec
      BY <2>1
    <3>2. flash[s].store \in Stores
      BY <1>1, Parts DEF Stores, TypeInv
    <3> QED
      BY <1>3, <3>1, <3>2 DEF Use, Stores
  <2>3. PICK x \in Stores : flash' = [flash EXCEPT ![s].store = x]
    BY <2>2
  <2>4. /\ \A b \in Addr : At(b)' = At(b)
        /\ \A t \in Sector : flash'[t].dirty = flash[t].dirty
    BY <1>1, <2>3, SetStoreFacts DEF TypeInv
  <2>5. \A b \in Addr : D(b)' => D(b)
    BY <2>4 DEF D
  <2> QED
    BY <1>1, <1>2, <2>4, <2>5, ColdKept
<1>4. CASE WriteHead
  <2>1. HeadIs("head") /\ StepOK(Head(todo)) /\ Head(todo).op = "head"
    BY <1>1, <1>4, HeadFacts DEF WriteHead
  <2>2. PICK k \in Key, v \in Value, a \in Addr : k = Head(todo).key /\ v = Head(todo).val /\ a = Head(todo).addr
    BY <2>1 DEF StepOK
  <2> DEFINE r == [st |-> "PRE_WRITE", key |-> k, val |-> v, whole |-> FALSE]
  <2>3. r \in Record /\ r.st = "PRE_WRITE"
    BY NewRecord
  <2>4. SetRec(a, r)
    BY <1>4, <2>2 DEF WriteHead
  <2> HIDE DEF r
  <2> QED
    BY <1>1, <1>2, <2>3, <2>4, ColdRecord
<1>5. CASE WriteBody
  <2>1. HeadIs("body") /\ StepOK(Head(todo)) /\ Head(todo).op = "body"
    BY <1>1, <1>5, HeadFacts DEF WriteBody
  <2>2. PICK a \in Addr : a = Head(todo).addr
    BY <2>1 DEF StepOK
  <2> DEFINE r == [At(a) EXCEPT !.whole = TRUE]
  <2>3. At(a) \in Record /\ At(a).st = "PRE_WRITE"
    BY <1>1, <2>1, <2>2, Parts DEF TypeInv, LiveInv, WriteInv
  <2>4. r \in Record /\ r.st = "PRE_WRITE"
    BY <2>3, ChangedRecord
  <2>5. SetRec(a, r)
    BY <1>5, <2>2 DEF WriteBody
  <2> HIDE DEF r
  <2> QED
    BY <1>1, <1>2, <2>4, <2>5, ColdRecord
<1>6. CASE Commit
  <2>1. HeadIs("commit") /\ StepOK(Head(todo)) /\ Head(todo).op = "commit"
    BY <1>1, <1>6, HeadFacts DEF Commit
  <2>2. PICK a \in Addr : a = Head(todo).addr
    BY <2>1 DEF StepOK
  <2> DEFINE r == [At(a) EXCEPT !.st = "WRITE"]
  <2>3. At(a) \in Record
    BY <1>1, Parts DEF TypeInv
  <2>4. r \in Record /\ r.st = "WRITE"
    BY <2>3, ChangedRecord
  <2>5. SetRec(a, r)
    BY <1>6, <2>2 DEF Commit
  <2> HIDE DEF r
  <2> QED
    BY <1>1, <1>2, <2>4, <2>5, ColdRecord
<1>7. CASE Erase \/ Header
  <2>1. Head(todo).sec \in Sector
    BY <1>1, <1>7, HeadFacts DEF StepOK, Erase, Header
  <2>2. PICK s \in Sector, x \in {Erased, Formatted} : flash' = [flash EXCEPT ![s] = x]
    BY <1>7, <2>1 DEF Erase, Header
  <2>3. /\ \A b \in Addr : At(b)' = IF b[1] = s THEN Blank ELSE At(b)
        /\ \A t \in Sector : flash'[t] = IF t = s THEN x ELSE flash[t]
        /\ x.dirty = "FALSE"
    BY <1>1, <2>2, SetSectorFacts DEF TypeInv
  <2>4. \A b \in Addr : D(b)' => D(b)
    BY <2>3, BlankFacts DEF D
  <2>5. \A t \in Sector : flash'[t].dirty \in {flash[t].dirty, "FALSE"}
    BY <2>3
  <2> QED
    BY <1>1, <1>2, <2>4, <2>5, ColdKept
<1> QED
  BY <1>3, <1>4, <1>5, <1>6, <1>7

\* What it does with the list of steps.
LEMMA ColdSteps ==
  ASSUME Basic, Cold, power # "on", restarts = 0,
         Return \/ FinishGc \/ StartGc \/ Collect \/ RepairSector \/ ResumeGc
  PROVE  Cold'
<1>1. Plan(todo) /\ TypeInv /\ todo # <<>>
  BY DEF Basic, TypeInv, Return, FinishGc, StartGc, Collect, RepairSector, ResumeGc, HeadIs
<1>2. Part(None) /\ \A i \in DOMAIN None : FALSE
  BY NoStep
<1>3. CASE Return \/ FinishGc
  BY <1>1, <1>2, <1>3, ColdQuiet DEF Return, FinishGc, None
<1>4. CASE StartGc
  <2>1. PICK s : Go(s) /\ s \in {None, CollectSteps} /\ UNCHANGED flash
    BY <1>4 DEF StartGc, None
  <2>2. Part(s) /\ \A i \in DOMAIN s : s[i].op \notin Busy
    BY <1>2, <2>1, CollectPart DEF CalmPart, Busy
  <2> QED
    BY <1>1, <2>1, <2>2, ColdQuiet
<1>5. CASE Collect
  <2>1. Head(todo).sec \in Sector
    BY <1>1, <1>5, HeadFacts DEF StepOK, Collect
  <2>2. Go(None) /\ UNCHANGED flash
    BY <1>5, <2>1 DEF Collect, Cold, None
  <2> QED
    BY <1>1, <1>2, <2>2, ColdQuiet
<1>6. CASE RepairSector
  <2> DEFINE s == Least(With("NONE"))
             z == Repair
             x == <<EraseOf(s), HeaderOf(s), z>>
  <2>1. (Go(None) \/ (With("NONE") # {} /\ Go(x))) /\ UNCHANGED flash
    BY <1>6 DEF RepairSector, None
  <2>2. With("NONE") # {} => s \in Sector
    <3>1. With("NONE") \subseteq Sector
      BY DEF With
    <3> QED
      BY <3>1, Constants, LeastOf
  <2>3. StepOK(z) /\ Closed(z) /\ Calm(z) /\ z.op = "repair"
    BY DEF Repair, StepOK, Active, Writes, Late, Closed, Open, Calm
  <2> HIDE DEF z, s
  <2>4. With("NONE") # {} => /\ Part(x) /\ DOMAIN x = {1, 2, 3}
                             /\ x[1].op = "erase" /\ x[2].op = "header" /\ x[3] = z
    BY <2>2, <2>3, FormatSteps
  <2> HIDE DEF x
  <2>5. PICK t : Go(t) /\ (t = None \/ (With("NONE") # {} /\ t = x))
    BY <2>1
  <2>6. Part(t) /\ \A i \in DOMAIN t : t[i].op \notin Busy
    BY <1>2, <2>3, <2>4, <2>5 DEF Busy
  <2> QED
    BY <1>1, <2>1, <2>5, <2>6, ColdQuiet
<1>7. CASE ResumeGc
  <2> DEFINE t == <<Gc>>
  <2>1. StepOK(Gc) /\ Gc.op = "gc"
    BY DEF StepOK, Gc, Active, Writes, Late
  <2>2. Part(t) /\ t[1] = Gc /\ DOMAIN t = {1}
    BY <2>1, One
  <2>3. (Go(t) \/ Go(None)) /\ UNCHANGED flash
    BY <1>7 DEF ResumeGc, None
  <2> HIDE DEF t
  <2>4. PICK s \in {t, None} : Go(s)
    BY <2>3
  <2>5. Part(s) /\ \A i \in DOMAIN s : s[i].op \notin Busy
    BY <1>2, <2>1, <2>2 DEF Busy
  <2> QED
    BY <1>1, <2>3, <2>4, <2>5, ColdQuiet
<1> QED
  BY <1>3, <1>4, <1>5, <1>6, <1>7

\* efd_env_set_default takes no record out of use.
LEMMA ColdDefault == ASSUME Basic, Cold, power # "on", restarts = 0, SetDefault PROVE Cold'
<1>1. UNCHANGED flash /\ todo # <<>>
  BY DefaultCases DEF HeadIs
<1>2. PICK t : /\ Part(t) /\ Go(t)
               /\ \A i \in DOMAIN t : t[i].op \in {"erase", "header", "default", "use", "head", "body", "commit"}
  BY DefaultOps
<1>3. \A i \in DOMAIN t : t[i].op \notin Busy
  BY <1>2 DEF Busy
<1> QED
  BY <1>1, <1>2, <1>3, ColdQuiet

\* Until power is lost the recovery finds nothing.
LEMMA ColdRecover == ASSUME Basic, Cold, power # "on", restarts = 0, Recover PROVE Cold'
<1>1. PICK t : /\ Part(t) /\ Go(t) /\ HeadIs("recover")
               /\ \A i \in DOMAIN t :
                    \/ t[i].op \in {"recover", "recovered"}
                    \/ t[i].op = "move" /\ At(t[i].addr).whole /\ At(t[i].addr).st = "PRE_DELETE"
               /\ \/ UNCHANGED flash
                  \/ \E a \in Addr : SetRec(a, [At(a) EXCEPT !.st = "ERR_HDR"])
  BY RecoverCases
<1>2. \A i \in DOMAIN t : t[i].op \notin Busy
  <2>1. \A i \in DOMAIN t : t[i].op = "move" => t[i].addr \in Addr
    BY <1>1 DEF Part, StepOK
  <2> QED
    BY <1>1, <2>1 DEF Busy, Cold, D
<1>3. todo # <<>>
  BY <1>1 DEF HeadIs
<1>4. CASE UNCHANGED flash
  BY <1>1, <1>2, <1>3, <1>4, ColdQuiet
<1>5. ASSUME NEW a \in Addr, SetRec(a, [At(a) EXCEPT !.st = "ERR_HDR"]) PROVE Cold'
  <2> DEFINE r == [At(a) EXCEPT !.st = "ERR_HDR"]
  <2>1. At(a) \in Record
    BY Parts DEF Basic, TypeInv
  <2>2. r \in Record /\ r.st = "ERR_HDR"
    BY <2>1, ChangedRecord
  <2>3. SetRec(a, r)
    BY <1>5
  <2> HIDE DEF r
  <2> QED
    BY <1>1, <1>2, <1>3, <2>2, <2>3, ColdRecord
<1> QED
  BY <1>1, <1>4, <1>5

\* A record cut short is not taken out of use.
LEMMA ColdScar == ASSUME Basic, Cold, power # "on", restarts = 0, MarkScar PROVE Cold'
<1>1. TypeInv /\ todo # <<>> /\ (Go(None) \/ UNCHANGED todo)
  BY DEF MarkScar, None, Basic, HeadIs
<1>2. \/ UNCHANGED flash /\ Go(None)
      \/ Unbegun # {} /\ SetRec(<<Least(Unbegun), 0>>, Scar) /\ UNCHANGED todo
  BY DEF MarkScar, None
<1>3. CASE UNCHANGED flash /\ Go(None)
  BY <1>1, <1>3, NoStep, ColdQuiet
<1>4. CASE Unbegun # {} /\ SetRec(<<Least(Unbegun), 0>>, Scar) /\ UNCHANGED todo
  <2>1. Unbegun \in SUBSET Nat /\ Unbegun \subseteq Sector
    BY Constants DEF Unbegun, With
  <2>2. PICK a \in Addr : a = <<Least(Unbegun), 0>>
    BY <1>4, <2>1, LeastOf, Constants, Addresses
  <2>3. /\ \A b \in Addr : At(b)' = IF b = a THEN Scar ELSE At(b)
        /\ \A t \in Sector : flash'[t].dirty = flash[t].dirty
    BY <1>1, <1>4, <2>2, KnownRecords, SetRecFacts DEF TypeInv
  <2>4. \A b \in Addr : D(b)' => D(b)
    BY <2>3, KnownRecords DEF D
  <2> QED
    BY <1>4, <2>3, <2>4 DEF Cold
<1> QED
  BY <1>2, <1>3, <1>4

\* The end of the recovery takes no record out of use.
LEMMA ColdRecovered == ASSUME Basic, Cold, power # "on", restarts = 0, Recovered PROVE Cold'
<1> DEFINE z == RecoverOf(<<1, 0>>)
           t == <<Gc, z>>
<1>1. HeadIs("recovered") /\ todo # <<>> /\ UNCHANGED flash
  BY DEF Recovered, HeadIs
<1>2. StepOK(Gc) /\ StepOK(z) /\ Follows(Gc, z) /\ Gc.op = "gc" /\ z.op = "recover"
  BY Constants DEF StepOK, Gc, RecoverOf, Active, Writes, Late, Follows
<1> HIDE DEF z
<1>3. Part(t) /\ Len(t) = 2 /\ t[1] = Gc /\ t[2] = z /\ DOMAIN t = {1, 2}
  BY <1>2, Two
<1>4. Go(t) \/ power' = "on"
  BY DEF Recovered, None, z
<1> HIDE DEF t
<1>5. CASE Go(t)
  <2>1. \A i \in DOMAIN t : t[i].op \notin Busy
    BY <1>2, <1>3 DEF Busy
  <2> QED
    BY <1>1, <1>3, <1>5, <2>1, ColdQuiet
<1>6. CASE power' = "on"
  BY <1>6 DEF Cold
<1> QED
  BY <1>4, <1>5, <1>6

\* No step of a start takes a record out of use until power is lost.
LEMMA ColdStep == ASSUME Basic, LiveInv, Cold, power # "on", restarts = 0, Step PROVE Cold'
<1>1. CASE Use \/ WriteHead \/ WriteBody \/ Commit \/ Erase \/ Header
  BY <1>1, ColdWrites
<1>2. CASE Return \/ FinishGc \/ StartGc \/ Collect \/ RepairSector \/ ResumeGc
  BY <1>2, ColdSteps
<1>3. CASE SetDefault
  BY <1>3, ColdDefault
<1>4. CASE Recover
  BY <1>4, ColdRecover
<1>5. CASE MarkScar
  BY <1>5, ColdScar
<1>6. CASE Recovered
  BY <1>6, ColdRecovered
<1>7. CASE Mark \/ Dirty \/ Sweep \/ Move \/ Put
  <2>1. \E op \in Busy : HeadIs(op)
    BY <1>7 DEF Mark, Dirty, Sweep, Move, Put, Busy
  <2> QED
    BY <2>1, ColdFront
<1> QED
  BY <1>1, <1>2, <1>3, <1>4, <1>5, <1>6, <1>7 DEF Step

\* The second invariant holds until power is lost for the first time.
FirstInv == Cold /\ (restarts = 0 => LiveInv)

\* The second invariant is inductive until power is lost.
LEMMA FirstNext == ASSUME Basic, Off, FirstInv, [Next]_vars PROVE FirstInv'
<1>1. restarts \in Nat
  BY StoreAssumption DEF Basic, TypeInv
<1>2. restarts' = restarts \/ restarts' = restarts + 1
  <2>1. CASE Step
    BY <2>1, StepPower
  <2> QED
    BY <2>1 DEF Next, Start, Call, CallDelete, CallGet, CallSet, LosePower, vars
<1>3. SUFFICES ASSUME restarts = 0, restarts' = 0 PROVE FirstInv'
  BY <1>1, <1>2 DEF FirstInv, Cold
<1>4. ~LosePower
  BY <1>3 DEF LosePower
<1>5. RecoveryComplete
  <2>1. SUFFICES ASSUME HeadIs("recovered") PROVE \A a \in Addr : ~D(a)
    BY DEF RecoveryComplete, D
  <2>2. Head(todo).op = "recovered" /\ Head(todo) = todo[1] /\ 1 \in DOMAIN todo
    BY <2>1, HeadFacts DEF Basic, TypeInv
  <2>3. power = "boot"
    BY <1>3, <2>2 DEF FirstInv, LiveInv, EndInv
  <2> QED
    BY <1>3, <2>3 DEF FirstInv, Cold
<1>6. Named
  <2>1. SUFFICES ASSUME HeadIs("move"), recovering PROVE FALSE
    BY DEF Named
  <2>2. power # "on"
    BY <2>1 DEF Off
  <2> QED
    BY <1>3, <2>1, <2>2, ColdFront DEF FirstInv, Busy
<1>7. LiveInv'
  BY <1>3, <1>5, <1>6, LiveNext DEF FirstInv
<1>8. Cold'
  <2>1. CASE Start
    <3>1. CalmPart(todo') /\ UNCHANGED <<flash, restarts>> /\ power = "off"
      BY <2>1, StartPart DEF Start
    <3>2. \A i \in DOMAIN todo' : todo'[i].op \notin Busy
      BY <2>1, <3>1, StartPart DEF CalmPart, Calm, Late, Busy
    <3> QED
      BY <1>3, <3>1, <3>2 DEF FirstInv, Cold, D, At
  <2>2. CASE Step
    <3>1. CASE power # "on"
      BY <1>3, <2>2, <3>1, ColdStep DEF FirstInv
    <3>2. CASE power = "on"
      <4>1. power' = "on"
        BY <2>2, <3>2, StepPower
      <4> QED
        BY <4>1 DEF Cold
    <3> QED
      BY <3>1, <3>2
  <2>3. CASE \E k \in Key : CallDelete(k) \/ CallGet(k) \/ \E v \in Value : CallSet(k, v)
    <3>1. power' = "on"
      BY <2>3 DEF CallDelete, CallGet, CallSet, Call, Idle
    <3> QED
      BY <3>1 DEF Cold
  <2>4. CASE UNCHANGED vars
    BY <2>4 DEF FirstInv, Cold, vars, D, At
  <2> QED
    BY <1>4, <2>1, <2>2, <2>3, <2>4 DEF Next
<1> QED
  BY <1>7, <1>8 DEF FirstInv

\* Nothing is out of use, or to be done, in the beginning.
LEMMA FirstInit == ASSUME Init PROVE FirstInv
<1>1. \A i \in DOMAIN todo : FALSE
  BY DEF Init
<1>2. \A a \in Addr : ~D(a)
  BY Addresses DEF Init, D, At, Erased, Blank
<1>3. \A s \in Sector : flash[s].dirty = "FALSE"
  BY DEF Init, Erased
<1> QED
  BY <1>1, <1>2, <1>3, LiveInit DEF FirstInv, Cold

\* Until power is lost a key has one valid record, whatever is set, deleted
\* and collected (set_env, do_gc): nothing is assumed of the recovery.
THEOREM FirstLife == Spec => [](restarts = 0 => OneLiveRecord)
<1>1. Init => FirstInv
  BY FirstInit
<1>2. Basic /\ Off /\ FirstInv /\ [Next]_vars => FirstInv'
  BY FirstNext
<1>3. FirstInv => (restarts = 0 => OneLiveRecord)
  BY OneOf DEF FirstInv
<1> QED
  BY <1>1, <1>2, <1>3, BasicHolds, PTL DEF Spec

-----------------------------------------------------------------------------
(* The third invariant: a read returns what is on file.                      *)

\* A record that will be struck out, or moved, by what is in progress; what a
\* start copies may be left behind.
Due(a) == Pending(a) /\ ~(HeadIs("move") /\ Head(todo).by = "start")

\* A record that is being written.
Coming(a) == \E i \in DOMAIN todo : todo[i].op = "commit" /\ todo[i].addr = a

Sound(c) == W(c) \/ Due(c) \/ Coming(c)

\* Where the cache leads to a record of the key, that record is valid, or it is
\* about to be struck out, or to become valid.
HitInv == \A k \in Key, c \in Addr : cache[k] = c /\ At(c).key = k => Sound(c)

Struck(i, o) == /\ i \in DOMAIN todo
                /\ todo[i].op = "mark" /\ todo[i].st = "DELETED" /\ todo[i].addr = o

\* From this step on a successor of the record is written, which strikes it out.
Writing(i, o) == /\ i \in DOMAIN todo /\ todo[i].op = "use" /\ todo[i + 1].key = At(o).key
                 /\ Struck(i + 4, o)

Moving(i, o) == /\ i \in DOMAIN todo
                /\ todo[i].op = "move" /\ todo[i].by = "gc" /\ todo[i].addr = o

Gone(o) == At(o).st \in {"PRE_DELETE", "DELETED", "ERR_HDR"}

Same(o) == At(Head(todo).addr).key = At(o).key

Succ(o) == \E b \in Addr : W(b) /\ At(b).key = At(o).key

\* What is in front replaces the record, and ends with striking it out.
Ahead(o) == \/ HeadIs("dirty") /\ (Writing(2, o) \/ Moving(2, o))
            \/ HeadIs("use") /\ Writing(1, o)
            \/ HeadIs("move") /\ Moving(1, o)
            \/ HeadIs("head") /\ Head(todo).key = At(o).key /\ Struck(4, o)
            \/ HeadIs("body") /\ Same(o) /\ Struck(3, o)
            \/ HeadIs("commit") /\ Same(o) /\ Struck(2, o)
            \/ HeadIs("mark") /\ Struck(1, o) /\ Succ(o)

\* last_is_complete_del is set while a record is replaced, and not behind it.
LastInv == lastDel => \E o \in Addr : Gone(o) /\ Ahead(o)

\* What replaces a record has the key of it.
RenewInv == Pre /\ 2 \in DOMAIN todo /\ todo[2].op = "use" => todo[3].key = At(Head(todo).addr).key

ReadInv == HitInv /\ LastInv /\ RenewInv

\* Only a step of the start itself puts a copy by the start in front.
LEMMA NoStart ==
  ASSUME Plan(todo), todo # <<>>, NEW s, Part(s), Go(s),
         s # <<>> => ~(s[1].op = "move" /\ s[1].by = "start"), todo' # <<>>
  PROVE  ~(Head(todo').op = "move" /\ Head(todo').by = "start")
<1>1. 1 \in DOMAIN todo' /\ Head(todo') = todo'[1] /\ Len(s) \in Nat /\ DOMAIN s = 1..Len(s) /\ (s # <<>> <=> 1 \in DOMAIN s)
  BY Steps
<1>2. CASE 1 \in DOMAIN s /\ todo'[1] = s[1]
  BY <1>1, <1>2
<1>3. ASSUME NEW j \in DOMAIN todo, j >= 2, 1 = j + Len(s) - 1, todo'[1] = todo[j]
      PROVE  ~(Head(todo').op = "move" /\ Head(todo').by = "start")
  <2>1. DOMAIN todo = 1..Len(todo) /\ Len(todo) \in Nat /\ Head(todo) = todo[1]
    BY Front
  <2>2. j = 2
    BY <1>1, <1>3, <2>1
  <2>3. Follows(todo[1], todo[2])
    BY <1>3, <2>1, <2>2, Front
  <2> QED
    BY <1>1, <1>3, <2>1, <2>2, <2>3 DEF Follows
<1> QED
  BY <1>1, <1>2, <1>3, Steps

\* An entry of the cache stays sound when its record is neither struck out nor
\* erased, nor becomes valid, in this step.
LEMMA SoundKept ==
  ASSUME Plan(todo), todo # <<>>, NEW s, Part(s), Go(s),
         s # <<>> => ~(s[1].op = "move" /\ s[1].by = "start"),
         NEW c \in Addr, Sound(c), W(c) => W(c)',
         Head(todo).op \in {"mark", "move", "commit"} => Head(todo).addr # c,
         Head(todo).op = "erase" => Head(todo).sec # c[1],
         \A i \in DOMAIN s : s[i].op = "sweep" => s[i].off > c[2]
  PROVE  Sound(c)'
<1>1. CASE W(c)
  BY <1>1 DEF Sound
<1>2. CASE Due(c)
  <2>1. Pending(c)'
    BY <1>2, PendingKept DEF Due
  <2>2. ~(HeadIs("move") /\ Head(todo).by = "start")'
    BY NoStart DEF HeadIs
  <2> QED
    BY <2>1, <2>2 DEF Sound, Due
<1>3. CASE Coming(c)
  <2>1. PICK j \in DOMAIN todo : todo[j].op = "commit" /\ todo[j].addr = c
    BY <1>3 DEF Coming
  <2>2. j >= 2
    <3>1. DOMAIN todo = 1..Len(todo) /\ Head(todo) = todo[1] /\ Len(todo) \in Nat
      BY Front
    <3> QED
      BY <2>1, <3>1
  <2>3. \E i \in DOMAIN todo' : todo'[i] = todo[j]
    BY <2>2, Steps
  <2> QED
    BY <2>1, <2>3 DEF Sound, Coming
<1> QED
  BY <1>1, <1>2, <1>3 DEF Sound

\* With a step of a call, a collection or a start in front the cache leads to
\* valid records only.
LEMMA LateSound ==
  ASSUME Plan(todo), NEW op \in Late, HeadIs(op), NEW c \in Addr, Sound(c)
  PROVE  W(c)
<1>1. Head(todo) = todo[1] /\ Head(todo).op \in Late /\ DOMAIN todo = 1..Len(todo) /\ Len(todo) \in Nat
  BY HeadFacts
<1>2. \A j \in DOMAIN todo : j >= 2 => todo[j].op \in Late
  BY RestStill DEF Still
<1>3. \A j \in DOMAIN todo : todo[j].op \in Late
  BY <1>1, <1>2
<1> QED
  BY <1>3 DEF Sound, Due, Pending, Coming, Late

\* Between calls an entry of the cache leads to a valid record.
LEMMA IdleSound ==
  ASSUME todo = <<>>, NEW c \in Addr, Sound(c)
  PROVE  W(c)
BY DEF Sound, Due, Pending, Coming

\* last_is_complete_del is not set when nothing is being replaced.
LEMMA NotAhead ==
  ASSUME LastInv, \A op \in {"dirty", "use", "move", "head", "body", "commit", "mark"} : ~HeadIs(op)
  PROVE  ~lastDel
BY DEF LastInv, Ahead

\* These steps are not part of a replacement.
LEMMA LateOps ==
  ASSUME NEW op, HeadIs(op), op \in Idlers
  PROVE  \A x \in {"dirty", "use", "move", "head", "body", "commit", "mark"} : ~HeadIs(x)
BY DEF HeadIs, Late, Idlers

\* A step that takes no record out of use leaves RenewInv alone.
LEMMA RenewKept ==
  ASSUME Plan(todo), todo # <<>>, NEW s, Part(s), Go(s),
         s # <<>> => ~(s[1].op = "mark" /\ s[1].st = "PRE_DELETE")
  PROVE  RenewInv'
<1>1. ~(todo' # <<>> /\ Head(todo').op = "mark" /\ Head(todo').st = "PRE_DELETE")
  BY ReplKept
<1> QED
  BY <1>1 DEF RenewInv, Pre, HeadIs

\* The third invariant holds behind a step of a call, a collection or a start
\* that leaves valid records as they are, and takes none out of use.
LEMMA LateReads ==
  ASSUME Plan(todo), ReadInv, NEW op \in Late, HeadIs(op), NEW s, Part(s), Go(s),
         s # <<>> => ~(s[1].op = "mark" /\ s[1].st = "PRE_DELETE"),
         \A b \in Addr : W(b) => W(b)',
         \A b \in Addr : At(b)'.key \in Key => At(b)'.key = At(b).key,
         cache' = cache, lastDel' = lastDel
  PROVE  ReadInv'
<1>1. todo # <<>>
  BY DEF HeadIs
<1>2. HitInv'
  <2>1. SUFFICES ASSUME NEW k \in Key, NEW c \in Addr, cache[k] = c, At(c)'.key = k
                 PROVE  W(c)'
    BY <2>1 DEF HitInv, Sound
  <2>2. At(c).key = k
    BY <2>1
  <2>3. Sound(c)
    BY <2>1, <2>2 DEF ReadInv, HitInv
  <2> QED
    BY <2>3, LateSound
<1>3. LastInv'
  <2>1. ~lastDel
    BY LateOps, NotAhead DEF ReadInv, Idlers
  <2> QED
    BY <2>1 DEF LastInv
<1> QED
  BY <1>1, <1>2, <1>3, RenewKept DEF ReadInv

\* The step in front is taken from the list: the others move up.
LEMMA Shift ==
  ASSUME Plan(todo), todo # <<>>, Go(None)
  PROVE  /\ \A j \in DOMAIN todo : j >= 2 => j - 1 \in DOMAIN todo' /\ todo'[j - 1] = todo[j]
         /\ 2 \in DOMAIN todo => todo' # <<>> /\ Head(todo') = todo[2]
         /\ \A j \in DOMAIN todo, i \in Nat : 1 <= i /\ i <= j => i \in DOMAIN todo
<1>1. /\ \A j \in DOMAIN todo : j >= 2 => \E i \in DOMAIN todo' : i = j + Len(None) - 1 /\ todo'[i] = todo[j]
      /\ todo' # <<>> => 1 \in DOMAIN todo' /\ Head(todo') = todo'[1]
      /\ Len(todo) \in Nat /\ DOMAIN todo = 1..Len(todo)
      /\ Len(todo') = Len(None) + Len(todo) - 1 /\ IsSeq(todo')
  BY NoStep, Steps
<1>2. Len(None) = 0
  BY DEF None
<1>3. \A j \in DOMAIN todo : j >= 2 => j - 1 \in DOMAIN todo' /\ todo'[j - 1] = todo[j]
  BY <1>1, <1>2
<1>4. ASSUME 2 \in DOMAIN todo PROVE todo' # <<>> /\ Head(todo') = todo[2]
  <2>1. 1 \in DOMAIN todo' /\ todo'[1] = todo[2]
    BY <1>3, <1>4
  <2>2. todo' # <<>>
    <3>1. Len(todo') # 0
      BY <1>1, <1>2, <1>4
    <3> QED
      BY <1>1, <3>1, SeqFacts
  <2> QED
    BY <1>1, <2>1, <2>2
<1>5. \A j \in DOMAIN todo, i \in Nat : 1 <= i /\ i <= j => i \in DOMAIN todo
  BY <1>1
<1> QED
  BY <1>3, <1>4, <1>5

\* Records that are written do not mislead the cache.
LEMMA HitsWritten ==
  ASSUME Basic, ReadInv, NEW op \in {"dirty", "use", "head", "body"}, HeadIs(op), Go(None), cache' = cache,
         \A b \in Addr : W(b) => W(b)',
         \A b \in Addr : At(b)'.key = At(b).key \/ Sound(b)'
  PROVE  HitInv' /\ RenewInv'
<1>1. Plan(todo)
  BY DEF Basic, TypeInv
<1>2. todo # <<>> /\ Head(todo).op = op
  BY DEF HeadIs
<1>3. RenewInv'
  BY <1>1, <1>2, NoStep, RenewKept
<1>4. HitInv'
  <2>1. SUFFICES ASSUME NEW k \in Key, NEW c \in Addr, cache[k] = c, At(c)'.key = k, At(c)'.key = At(c).key
                 PROVE  Sound(c)'
    BY <2>1 DEF HitInv
  <2>2. Sound(c)
    BY <2>1 DEF ReadInv, HitInv
  <2> QED
    BY <1>1, <1>2, <2>2, NoStep, SoundKept
<1> QED
  BY <1>3, <1>4

\* The third invariant holds behind the dirty mark of a sector.
LEMMA DirtyRead == ASSUME Basic, ReadInv, Dirty PROVE ReadInv'
<1>1. HeadIs("dirty") /\ Plan(todo) /\ TypeInv
  BY DEF Dirty, Basic, TypeInv
<1>2. /\ todo # <<>> /\ Head(todo).op = "dirty" /\ StepOK(Head(todo)) /\ Head(todo) = todo[1]
  BY <1>1, HeadFacts
<1>3. Head(todo).sec \in Sector /\ "TRUE" \in Dirts
  BY <1>2 DEF StepOK, Dirts
<1>4. /\ flash' = [flash EXCEPT ![Head(todo).sec].dirty = "TRUE"]
      /\ Go(None) /\ cache' = cache /\ lastDel' = lastDel
  BY DEF Dirty, None, ram
<1>5. \A b \in Addr : At(b)' = At(b)
  BY <1>1, <1>3, <1>4, SetDirtyFacts DEF TypeInv
<1>6. HitInv' /\ RenewInv'
  BY <1>1, <1>4, <1>5, SameRecords, HitsWritten
<1>7. LastInv'
  <2>1. SUFFICES ASSUME lastDel PROVE \E o \in Addr : Gone(o)' /\ Ahead(o)'
    BY <1>4 DEF LastInv
  <2>2. PICK o \in Addr : Gone(o) /\ Ahead(o)
    BY <2>1 DEF ReadInv, LastInv
  <2>3. Writing(2, o) \/ Moving(2, o)
    BY <1>2, <2>2 DEF Ahead, HeadIs
  <2>4. Gone(o)' /\ At(o)' = At(o)
    BY <1>5, <2>2 DEF Gone
  <2>5. CASE Writing(2, o)
    <3>1. 2 \in DOMAIN todo /\ 6 \in DOMAIN todo
      BY <2>5 DEF Writing, Struck
    <3>2. 3 \in DOMAIN todo
      BY <1>1, <1>2, <1>4, <3>1, Shift
    <3>3. /\ todo' # <<>> /\ Head(todo') = todo[2]
          /\ 1 \in DOMAIN todo' /\ todo'[1] = todo[2] /\ todo'[2] = todo[3] /\ 5 \in DOMAIN todo' /\ todo'[5] = todo[6]
      BY <1>1, <1>2, <1>4, <3>1, <3>2, Shift
    <3> QED
      BY <2>4, <2>5, <3>3 DEF Writing, Struck, Ahead, HeadIs
  <2>6. CASE Moving(2, o)
    <3>1. /\ todo' # <<>> /\ Head(todo') = todo[2] /\ 1 \in DOMAIN todo' /\ todo'[1] = todo[2]
      BY <1>1, <1>2, <1>4, <2>6, Shift DEF Moving
    <3> QED
      BY <2>4, <2>6, <3>1 DEF Moving, Ahead, HeadIs
  <2> QED
    BY <2>3, <2>5, <2>6
<1> QED
  BY <1>6, <1>7 DEF ReadInv

\* The third invariant holds behind update_sec_status.
LEMMA UseRead == ASSUME Basic, ReadInv, Use PROVE ReadInv'
<1> DEFINE s == Head(todo).sec
           x == IF flash[s].store = "EMPTY" THEN "USING"
                ELSE IF BecomesFull(s, Head(todo).size) THEN "FULL" ELSE flash[s].store
<1>1. HeadIs("use") /\ Plan(todo) /\ TypeInv
  BY DEF Use, Basic, TypeInv
<1>2. /\ todo # <<>> /\ Head(todo).op = "use" /\ StepOK(Head(todo)) /\ Head(todo) = todo[1]
  BY <1>1, HeadFacts
<1>3. s \in Sector
  BY <1>2 DEF StepOK
<1>4. /\ flash' = [flash EXCEPT ![s].store = x]
      /\ Go(None) /\ cache' = cache /\ lastDel' = lastDel
  BY <1>1, <1>3 DEF Use, None, ram, TypeInv, Typed
<1>5. x \in Stores
  <2>1. flash[s].store \in Stores
    BY <1>1, <1>3, Parts DEF TypeInv
  <2> QED
    BY <2>1 DEF Stores
<1> HIDE DEF x, s
<1>6. \A b \in Addr : At(b)' = At(b)
  BY <1>1, <1>3, <1>4, <1>5, SetStoreFacts DEF TypeInv
<1>7. HitInv' /\ RenewInv'
  BY <1>1, <1>4, <1>6, SameRecords, HitsWritten
<1>8. LastInv'
  <2>1. SUFFICES ASSUME lastDel PROVE \E o \in Addr : Gone(o)' /\ Ahead(o)'
    BY <1>4 DEF LastInv
  <2>2. PICK o \in Addr : Gone(o) /\ Ahead(o)
    BY <2>1 DEF ReadInv, LastInv
  <2>3. Writing(1, o)
    BY <1>2, <2>2 DEF Ahead, HeadIs
  <2>4. Gone(o)' /\ At(o)' = At(o)
    BY <1>6, <2>2 DEF Gone
  <2>5. 5 \in DOMAIN todo /\ todo[2].key = At(o).key
    BY <2>3 DEF Writing, Struck
  <2>6. 2 \in DOMAIN todo
    BY <1>1, <1>2, <1>4, <2>5, Shift
  <2>7. todo[2].op = "head"
    BY <1>1, <1>2, <2>6, Front DEF Follows
  <2>8. todo' # <<>> /\ Head(todo') = todo[2] /\ 4 \in DOMAIN todo' /\ todo'[4] = todo[5]
    BY <1>1, <1>2, <1>4, <2>5, <2>6, Shift
  <2> QED
    BY <2>3, <2>4, <2>5, <2>7, <2>8 DEF Writing, Struck, Ahead, HeadIs
<1> QED
  BY <1>7, <1>8 DEF ReadInv

\* The third invariant holds behind the header of a record.
LEMMA WriteHeadRead == ASSUME Basic, LiveInv, ReadInv, WriteHead PROVE ReadInv'
<1> DEFINE x == [st |-> "PRE_WRITE", key |-> Head(todo).key, val |-> Head(todo).val, whole |-> FALSE]
<1>1. HeadIs("head") /\ Plan(todo) /\ TypeInv
  BY DEF WriteHead, Basic, TypeInv
<1>2. /\ todo # <<>> /\ Head(todo).op = "head" /\ StepOK(Head(todo)) /\ Head(todo) = todo[1]
      /\ 1 \in DOMAIN todo /\ Part(todo) /\ DOMAIN todo = 1..Len(todo) /\ Len(todo) \in Nat
  BY <1>1, HeadFacts
<1>3. PICK a \in Addr, k \in Key, v \in Value : a = Head(todo).addr /\ k = Head(todo).key /\ v = Head(todo).val
  BY <1>2 DEF StepOK
<1>4. SetRec(a, x) /\ Go(None) /\ cache' = cache /\ lastDel' = lastDel
  BY <1>3 DEF WriteHead, None, ram
<1>5. x \in Record /\ x.st = "PRE_WRITE" /\ x.key = k /\ x.whole = FALSE
  BY <1>3, NewRecord
<1> HIDE DEF x
<1>6. \A b \in Addr : At(b)' = IF b = a THEN x ELSE At(b)
  BY <1>1, <1>4, <1>5, SetRecFacts DEF TypeInv
<1>7. At(a) = Blank
  BY <1>2, <1>3 DEF LiveInv, HeadInv
<1>8. 2 \in DOMAIN todo /\ todo[2].op = "body" /\ todo[2].addr = a
  BY <1>1, <1>2, <1>3, Front DEF Closed, Open, Follows
<1>9. 3 \in DOMAIN todo /\ todo[3].op = "commit" /\ todo[3].addr = a
  <2>1. Closed(todo[Len(todo)])
    BY <1>1, <1>2 DEF Plan
  <2>2. Len(todo) # 2
    BY <1>8, <2>1 DEF Closed, Open
  <2>3. 3 \in DOMAIN todo /\ 2 + 1 = 3
    BY <1>2, <1>8, <2>2
  <2>4. Follows(todo[2], todo[3])
    BY <1>2, <1>8, <2>3 DEF Part
  <2> QED
    BY <1>8, <2>3, <2>4 DEF Follows
<1>10. /\ todo' # <<>> /\ Head(todo') = todo[2]
       /\ 2 \in DOMAIN todo' /\ todo'[2] = todo[3]
  BY <1>1, <1>2, <1>4, <1>8, <1>9, Shift
<1>11. Sound(a)'
  BY <1>9, <1>10 DEF Sound, Coming
<1>12. /\ \A b \in Addr : W(b) => W(b)'
       /\ \A b \in Addr : At(b)'.key = At(b).key \/ Sound(b)'
  BY <1>6, <1>7, <1>11, BlankFacts DEF W
<1>13. HitInv' /\ RenewInv'
  BY <1>1, <1>4, <1>12, HitsWritten
<1>14. LastInv'
  <2>1. SUFFICES ASSUME lastDel PROVE \E o \in Addr : Gone(o)' /\ Ahead(o)'
    BY <1>4 DEF LastInv
  <2>2. PICK o \in Addr : Gone(o) /\ Ahead(o)
    BY <2>1 DEF ReadInv, LastInv
  <2>3. k = At(o).key /\ Struck(4, o)
    BY <1>2, <1>3, <2>2 DEF Ahead, HeadIs
  <2>4. Gone(o)' /\ At(o)' = At(o) /\ At(a)' = x
    BY <1>6, <1>7, <2>2, BlankFacts DEF Gone
  <2>5. 3 \in DOMAIN todo' /\ todo'[3] = todo[4]
    BY <1>1, <1>2, <1>4, <2>3, Shift DEF Struck
  <2>6. Struck(3, o)'
    BY <2>3, <2>5 DEF Struck
  <2>7. Same(o)'
    <3>1. Head(todo').addr = a
      BY <1>8, <1>10
    <3>2. At(a)'.key = At(o)'.key
      BY <1>5, <2>3, <2>4
    <3> QED
      BY <3>1, <3>2 DEF Same, At
  <2> QED
    BY <1>8, <1>10, <2>4, <2>6, <2>7 DEF Ahead, HeadIs
<1> QED
  BY <1>13, <1>14 DEF ReadInv

\* The third invariant holds behind write_env_hdr and the data behind it.
LEMMA WriteBodyRead == ASSUME Basic, LiveInv, ReadInv, WriteBody PROVE ReadInv'
<1>1. HeadIs("body") /\ Plan(todo) /\ TypeInv
  BY DEF WriteBody, Basic, TypeInv
<1>2. /\ todo # <<>> /\ Head(todo).op = "body" /\ StepOK(Head(todo)) /\ Head(todo) = todo[1]
  BY <1>1, HeadFacts
<1>3. PICK a \in Addr : a = Head(todo).addr
  BY <1>2 DEF StepOK
<1> DEFINE x == [At(a) EXCEPT !.whole = TRUE]
<1>4. SetRec(a, x) /\ Go(None) /\ cache' = cache /\ lastDel' = lastDel
  BY <1>3 DEF WriteBody, None, ram
<1>5. At(a) \in Record /\ At(a).st = "PRE_WRITE"
  BY <1>1, <1>2, <1>3, Parts DEF TypeInv, LiveInv, WriteInv
<1>6. x \in Record /\ x.st = "PRE_WRITE" /\ x.key = At(a).key
  BY <1>5, ChangedRecord
<1> HIDE DEF x
<1>7. \A b \in Addr : At(b)' = IF b = a THEN x ELSE At(b)
  BY <1>1, <1>4, <1>6, SetRecFacts DEF TypeInv
<1>8. /\ \A b \in Addr : W(b) => W(b)'
      /\ \A b \in Addr : At(b)'.key = At(b).key
  BY <1>5, <1>6, <1>7 DEF W
<1>9. HitInv' /\ RenewInv'
  BY <1>1, <1>4, <1>8, HitsWritten
<1>10. LastInv'
  <2>1. SUFFICES ASSUME lastDel PROVE \E o \in Addr : Gone(o)' /\ Ahead(o)'
    BY <1>4 DEF LastInv
  <2>2. PICK o \in Addr : Gone(o) /\ Ahead(o)
    BY <2>1 DEF ReadInv, LastInv
  <2>3. At(a).key = At(o).key /\ Struck(3, o)
    BY <1>2, <1>3, <2>2 DEF Ahead, HeadIs, Same
  <2>4. 2 \in DOMAIN todo /\ 2 \in DOMAIN todo' /\ todo'[2] = todo[3]
    BY <1>1, <1>2, <1>4, <2>3, Shift DEF Struck
  <2>5. todo[2].op = "commit" /\ todo[2].addr = a
    BY <1>1, <1>2, <1>3, <2>4, Front DEF Follows
  <2>6. todo' # <<>> /\ Head(todo') = todo[2]
    BY <1>1, <1>2, <1>4, <2>4, Shift
  <2>7. Gone(o)' /\ At(o)' = At(o) /\ At(a)' = x
    BY <1>5, <1>7, <2>2 DEF Gone
  <2>8. Same(o)'
    <3>1. Head(todo').addr = a
      BY <2>5, <2>6
    <3>2. At(a)'.key = At(o)'.key
      BY <1>6, <2>3, <2>7
    <3> QED
      BY <3>1, <3>2 DEF Same, At
  <2>9. Struck(2, o)'
    BY <2>3, <2>4 DEF Struck
  <2> QED
    BY <2>5, <2>6, <2>7, <2>8, <2>9 DEF Ahead, HeadIs
<1> QED
  BY <1>9, <1>10 DEF ReadInv

\* The third invariant holds behind the status that makes a record valid.
LEMMA CommitRead == ASSUME Basic, LiveInv, ReadInv, Commit PROVE ReadInv'
<1>1. HeadIs("commit") /\ Plan(todo) /\ TypeInv /\ WholeNamed
  BY DEF Commit, Basic, TypeInv
<1>2. /\ todo # <<>> /\ Head(todo).op = "commit" /\ StepOK(Head(todo)) /\ Head(todo) = todo[1]
  BY <1>1, HeadFacts
<1>3. PICK a \in Addr : a = Head(todo).addr
  BY <1>2 DEF StepOK
<1> DEFINE x == [At(a) EXCEPT !.st = "WRITE"]
<1>4. SetRec(a, x) /\ Go(None) /\ cache' = [cache EXCEPT ![At(a).key] = a] /\ lastDel' = lastDel
  BY <1>3 DEF Commit, None, At
<1>5. At(a) \in Record /\ At(a).st = "PRE_WRITE" /\ At(a).whole
  BY <1>1, <1>3, Parts DEF TypeInv, LiveInv, WriteInv
<1>6. x \in Record /\ x.st = "WRITE" /\ x.key = At(a).key /\ x.whole = At(a).whole
  <2>1. At(a) \in Record
    BY <1>5
  <2> QED
    BY <2>1, Fields, ChangedRecord
<1>7. PICK k \in Key : k = At(a).key
  BY <1>1, <1>5 DEF WholeNamed
<1> HIDE DEF x
<1>8. \A b \in Addr : At(b)' = IF b = a THEN x ELSE At(b)
  BY <1>1, <1>4, <1>6, SetRecFacts DEF TypeInv
<1>9. /\ W(a)'
      /\ \A b \in Addr : W(b) => W(b)'
      /\ \A b \in Addr : At(b)'.key = At(b).key
  BY <1>5, <1>6, <1>8 DEF W
<1>10. HitInv'
  <2>1. SUFFICES ASSUME NEW q \in Key, NEW c \in Addr, cache'[q] = c, At(c).key = q
                 PROVE  Sound(c)'
    BY <1>9, <2>1 DEF HitInv
  <2>2. CASE c = a
    BY <1>9, <2>2 DEF Sound
  <2>3. CASE c # a
    <3>1. cache[q] = c
      BY <1>1, <1>4, <1>7, <2>1, <2>3 DEF TypeInv
    <3>2. Sound(c)
      BY <2>1, <3>1 DEF ReadInv, HitInv
    <3> QED
      BY <1>1, <1>2, <1>3, <1>4, <1>9, <2>3, <3>2, NoStep, SoundKept
  <2> QED
    BY <2>2, <2>3
<1>11. RenewInv'
  BY <1>1, <1>2, <1>4, NoStep, RenewKept
<1>12. LastInv'
  <2>1. SUFFICES ASSUME lastDel PROVE \E o \in Addr : Gone(o)' /\ Ahead(o)'
    BY <1>4 DEF LastInv
  <2>2. PICK o \in Addr : Gone(o) /\ Ahead(o)
    BY <2>1 DEF ReadInv, LastInv
  <2>3. At(a).key = At(o).key /\ Struck(2, o)
    BY <1>2, <1>3, <2>2 DEF Ahead, HeadIs, Same
  <2>4. /\ todo' # <<>> /\ Head(todo') = todo[2] /\ 1 \in DOMAIN todo' /\ todo'[1] = todo[2]
    BY <1>1, <1>2, <1>4, <2>3, Shift DEF Struck
  <2>5. Gone(o)' /\ At(o)' = At(o)
    BY <1>5, <1>8, <2>2 DEF Gone
  <2>6. Succ(o)'
    BY <1>9, <2>3 DEF Succ
  <2>7. Struck(1, o)' /\ HeadIs("mark")'
    BY <2>3, <2>4 DEF Struck, HeadIs
  <2> QED
    BY <2>5, <2>6, <2>7 DEF Ahead
<1> QED
  BY <1>10, <1>11, <1>12 DEF ReadInv

\* Striking out a record clears the cache, or a successor is in it.
LEMMA MarkRead == ASSUME Basic, LiveInv, ReadInv, Mark PROVE ReadInv'
<1> DEFINE st == Head(todo).st
<1>1. HeadIs("mark") /\ Plan(todo) /\ TypeInv
  BY DEF Mark, Basic, TypeInv
<1>2. /\ todo # <<>> /\ Head(todo).op = "mark" /\ StepOK(Head(todo)) /\ Head(todo) = todo[1]
      /\ 1 \in DOMAIN todo /\ Len(todo) \in Nat /\ DOMAIN todo = 1..Len(todo) /\ Len(todo) >= 1
  BY <1>1, HeadFacts
<1>3. st \in {"PRE_DELETE", "DELETED"}
  BY <1>2 DEF StepOK
<1>4. PICK a \in Addr : a = Head(todo).addr
  BY <1>2 DEF StepOK
<1>5. At(a) \in Record
  BY <1>1, Parts DEF TypeInv
<1>6. PICK new \in {"UNUSED", "PRE_WRITE", "WRITE", "PRE_DELETE", "DELETED", "ERR_HDR"} : new = Marked(At(a).st, st)
  BY <1>3, <1>5, Fields, MarkedFacts
<1> DEFINE x == [At(a) EXCEPT !.st = new]
           d == DirtyOf(a[1])
           t == <<d>>
<1>7. new \in {"PRE_DELETE", "DELETED", "ERR_HDR"}
  BY <1>3, <1>5, <1>6, Fields, MarkedFacts
<1>8. SetRec(a, x)
  BY <1>4, <1>6 DEF Mark
<1>9. /\ cache' = IF st = "DELETED" /\ ~lastDel
                    THEN [cache EXCEPT ![At(a).key] = NoAddr] ELSE cache
      /\ Go(t) \/ Go(None)
      /\ lastDel' = (st = "PRE_DELETE")
  BY <1>4 DEF Mark, None
<1>10. x \in Record /\ x.st = new /\ x.key = At(a).key
  <2>1. x \in Record /\ x.key = At(a).key
    <3>1. new \in {"UNUSED", "PRE_WRITE", "WRITE", "PRE_DELETE", "DELETED", "ERR_HDR"}
      OBVIOUS
    <3> QED
      BY <1>5, <3>1, StatusRecord
  <2>2. x.st = new
    BY <1>5, Restated
  <2> QED
    BY <2>1, <2>2
<1>11. StepOK(d) /\ d.op = "dirty"
  BY Addresses DEF StepOK, DirtyOf, Active, Writes, Late
<1> HIDE DEF x, st, d
<1>12. Part(t) /\ t # <<>> /\ Len(t) = 1 /\ t[1] = d /\ DOMAIN t = {1}
  BY <1>11, One
<1> HIDE DEF t
<1>13. PICK s : s \in {t, None} /\ Go(s)
  BY <1>9
<1>14. /\ Part(s) /\ (\A i \in DOMAIN s : s[i] = d) /\ (s # <<>> => s[1] = d)
  BY <1>12, <1>13, NoStep
<1>15. \A b \in Addr : At(b)' = IF b = a THEN x ELSE At(b)
  BY <1>1, <1>8, <1>10, SetRecFacts DEF TypeInv
<1>16. At(a).key \in Key
  BY <1>2, <1>4 DEF LiveInv, MarkInv
<1>17. /\ \A b \in Addr : At(b)'.key = At(b).key
       /\ \A b \in Addr : b # a /\ W(b) => W(b)'
       /\ Gone(a)'
  BY <1>7, <1>10, <1>15 DEF W, Gone
<1>18. RenewInv'
  BY <1>1, <1>2, <1>11, <1>13, <1>14, RenewKept
<1>19. ASSUME NEW c \in Addr, c # a, Sound(c) PROVE Sound(c)'
  BY <1>1, <1>2, <1>4, <1>11, <1>13, <1>14, <1>17, <1>19, SoundKept
<1>20. CASE st = "DELETED"
  <2>1. LastInv'
    BY <1>9, <1>20 DEF LastInv
  <2>2. ASSUME NEW q \in Key, cache'[q] = a, At(a).key = q PROVE FALSE
    <3>1. CASE ~lastDel
      <4>1. cache'[q] = NoAddr
        BY <1>1, <1>9, <1>20, <2>2, <3>1 DEF TypeInv
      <4> QED
        BY <2>2, <4>1, Addresses
    <3>2. CASE lastDel
      <4>1. PICK o \in Addr : Gone(o) /\ Ahead(o)
        BY <3>2 DEF ReadInv, LastInv
      <4>2. Struck(1, o) /\ Succ(o)
        BY <1>2, <4>1 DEF Ahead, HeadIs
      <4>3. o = a
        BY <1>2, <1>4, <4>2 DEF Struck
      <4>4. PICK b \in Addr : W(b) /\ At(b).key = q
        BY <2>2, <4>2, <4>3 DEF Succ
      <4>5. cache[q] = a
        BY <1>9, <1>20, <2>2, <3>2
      <4>6. CacheHit(q)
        BY <2>2, <4>5, Addresses DEF CacheHit
      <4>7. b = a
        BY <4>4, <4>5, <4>6 DEF LiveInv, CacheInv
      <4> QED
        BY <4>1, <4>3, <4>4, <4>7 DEF Gone, W
    <3> QED
      BY <3>1, <3>2
  <2>3. HitInv'
    <3>1. SUFFICES ASSUME NEW q \in Key, NEW c \in Addr, cache'[q] = c, At(c).key = q
                   PROVE  Sound(c)'
      BY <1>17, <3>1 DEF HitInv
    <3>2. c # a
      BY <2>2, <3>1
    <3>3. cache[q] = c
      <4>1. cache'[q] \in {cache[q], NoAddr}
        BY <1>1, <1>9 DEF TypeInv
      <4> QED
        BY <3>1, <4>1, Addresses
    <3>4. Sound(c)
      BY <3>1, <3>3 DEF ReadInv, HitInv
    <3> QED
      BY <1>19, <3>2, <3>4
  <2> QED
    BY <1>18, <2>1, <2>3 DEF ReadInv
<1>21. CASE st = "PRE_DELETE"
  <2>1. Len(todo) > 1 /\ 2 \in DOMAIN todo /\ Follows(todo[1], todo[2])
    BY <1>1, <1>2, <1>21, Front DEF Closed, st
  <2>2. \/ todo[2].op = "use"
        \/ todo[2].op = "move" /\ todo[2].addr = a /\ todo[2].by = "gc"
    BY <1>2, <1>4, <1>21, <2>1 DEF Follows, st
  <2>3. todo[2].op = "use" => /\ Struck(6, a) /\ todo[3].key = At(a).key
    BY <1>1, <1>2, <1>4, <1>21, <2>1 DEF LiveInv, Repl, ReadInv, RenewInv, Pre, Struck, HeadIs, st
  <2>4. Pending(a)'
    <3>1. PICK j \in DOMAIN todo : /\ j >= 2
                                   /\ \/ todo[j].op = "mark" /\ todo[j].st = "DELETED" /\ todo[j].addr = a
                                      \/ todo[j].op = "move" /\ todo[j].addr = a
      BY <2>1, <2>2, <2>3 DEF Struck
    <3>2. PICK i \in DOMAIN todo' : todo'[i] = todo[j]
      BY <1>1, <1>2, <1>13, <1>14, <3>1, Steps
    <3> QED
      BY <3>1, <3>2 DEF Pending
  <2>5. Sound(a)'
    <3>1. ~(HeadIs("move") /\ Head(todo).by = "start")'
      BY <1>1, <1>2, <1>11, <1>13, <1>14, NoStart DEF HeadIs
    <3> QED
      BY <2>4, <3>1 DEF Sound, Due
  <2>6. HitInv'
    <3>1. SUFFICES ASSUME NEW q \in Key, NEW c \in Addr, cache[q] = c, At(c).key = q, c # a
                   PROVE  Sound(c)'
      BY <1>9, <1>17, <1>21, <2>5, <3>1 DEF HitInv
    <3>2. Sound(c)
      BY <3>1 DEF ReadInv, HitInv
    <3> QED
      BY <1>19, <3>1, <3>2
  <2>7. At(a)'.key = At(a).key
    BY <1>17
  <2>8. Ahead(a)'
    <3>1. CASE s = None
      <4>1. todo' # <<>> /\ Head(todo') = todo[2] /\ 1 \in DOMAIN todo' /\ todo'[1] = todo[2]
        BY <1>1, <1>2, <1>13, <2>1, <3>1, Shift
      <4>2. CASE todo[2].op = "use"
        <5>1. 6 \in DOMAIN todo
          BY <2>3, <4>2 DEF Struck
        <5>2. 3 \in DOMAIN todo
          BY <1>1, <1>2, <1>13, <3>1, <5>1, Shift
        <5>3. todo'[2] = todo[3] /\ 5 \in DOMAIN todo' /\ todo'[5] = todo[6]
          BY <1>1, <1>2, <1>13, <3>1, <5>1, <5>2, Shift
        <5> QED
          BY <2>3, <2>7, <4>1, <4>2, <5>3 DEF Ahead, Writing, Struck, HeadIs
      <4>3. CASE todo[2].op = "move"
        BY <2>2, <4>1, <4>3 DEF Ahead, Moving, HeadIs
      <4> QED
        BY <2>2, <4>2, <4>3
    <3>2. CASE s = t
      <4>1. /\ \A j \in DOMAIN todo : j >= 2 => \E i \in DOMAIN todo' : i = j + Len(t) - 1 /\ todo'[i] = todo[j]
            /\ 1 \in DOMAIN todo' /\ todo'[1] = t[1]
            /\ todo' # <<>> => Head(todo') = todo'[1]
        BY <1>1, <1>2, <1>12, <1>13, <3>2, Steps
      <4>2. \A j \in DOMAIN todo : j >= 2 => j \in DOMAIN todo' /\ todo'[j] = todo[j]
        BY <1>2, <1>12, <4>1
      <4>3. HeadIs("dirty")'
        <5>1. todo' # <<>>
          BY <4>1
        <5> QED
          BY <1>11, <1>12, <4>1, <5>1 DEF HeadIs
      <4>4. CASE todo[2].op = "use"
        <5>1. 6 \in DOMAIN todo /\ 3 \in DOMAIN todo
          BY <1>2, <2>3, <4>4 DEF Struck
        <5>2. /\ 2 \in DOMAIN todo' /\ todo'[2] = todo[2] /\ todo'[3] = todo[3]
              /\ 6 \in DOMAIN todo' /\ todo'[6] = todo[6]
          BY <2>1, <4>2, <5>1
        <5> QED
          BY <2>3, <2>7, <4>3, <4>4, <5>2 DEF Ahead, Writing, Struck
      <4>5. CASE todo[2].op = "move"
        <5>1. 2 \in DOMAIN todo' /\ todo'[2] = todo[2]
          BY <2>1, <4>2
        <5> QED
          BY <2>2, <4>3, <4>5, <5>1 DEF Ahead, Moving
      <4> QED
        BY <2>2, <4>4, <4>5
    <3> QED
      BY <1>13, <3>1, <3>2
  <2>9. LastInv'
    BY <1>17, <2>8 DEF LastInv
  <2> QED
    BY <1>18, <2>6, <2>9 DEF ReadInv
<1> QED
  BY <1>3, <1>20, <1>21

\* The steps of a collection are put in front, and the records are as they were.
LEMMA SweepRead == ASSUME Basic, ReadInv, Sweep PROVE ReadInv'
<1>1. HeadIs("sweep") /\ Plan(todo) /\ TypeInv
  BY DEF Sweep, Basic, TypeInv
<1>2. /\ todo # <<>> /\ Head(todo).op = "sweep" /\ StepOK(Head(todo)) /\ Head(todo) = todo[1] /\ 1 \in DOMAIN todo
      /\ DOMAIN todo = 1..Len(todo) /\ Len(todo) \in Nat
  BY <1>1, HeadFacts
<1>3. flash' = flash /\ cache' = cache /\ lastDel' = lastDel
  BY <1>1, SweepSteps DEF ram
<1>4. \A b \in Addr : At(b)' = At(b) /\ (W(b)' <=> W(b))
  BY <1>3 DEF At, W
<1>5. LastInv'
  <2>1. "sweep" \in Idlers
    BY DEF Idlers
  <2>2. ~lastDel
    BY <1>1, <2>1, LateOps, NotAhead DEF ReadInv
  <2> QED
    BY <1>3, <2>2 DEF LastInv
<1>6. ASSUME Go(None) PROVE ReadInv'
  <2>1. HitInv'
    <3>1. SUFFICES ASSUME NEW q \in Key, NEW c \in Addr, cache[q] = c, At(c).key = q
                   PROVE  Sound(c)'
      BY <1>3, <1>4, <3>1 DEF HitInv
    <3>2. Sound(c)
      BY <3>1 DEF ReadInv, HitInv
    <3> QED
      BY <1>1, <1>2, <1>4, <1>6, <3>2, NoStep, SoundKept
  <2> QED
    BY <1>1, <1>2, <1>5, <1>6, <2>1, NoStep, RenewKept DEF ReadInv
<1>7. ASSUME NEW t, NEW a \in Addr, a[2] >= Head(todo).off, Copies(t, a), Go(t)
      PROVE  ReadInv'
  <2>1. /\ Part(t) /\ t # <<>>
        /\ \A i \in DOMAIN t :
             \/ t[i].op = "mark" /\ i = 1 /\ t[i].addr = a
             \/ t[i].op = "move" /\ t[i].addr = a /\ t[i].by = "gc"
             \/ t[i].op = "sweep" /\ t[i].sec = a[1] /\ t[i].off = a[2] + 1
    BY <1>7 DEF Copies
  <2>2. /\ 1 \in DOMAIN t /\ todo' # <<>> /\ Head(todo') = t[1]
        /\ \A i \in DOMAIN t : i \in DOMAIN todo' /\ todo'[i] = t[i]
    <3>1. 1 \in DOMAIN t
      BY <1>1, <1>2, <1>7, <2>1, Steps
    <3>2. 1 \in DOMAIN todo' /\ todo'[1] = t[1] /\ IsSeq(todo')
      BY <1>1, <1>2, <1>7, <2>1, <3>1, Steps
    <3>3. todo' # <<>> /\ Head(todo') = todo'[1]
      BY <3>2, SeqFacts
    <3> QED
      BY <1>1, <1>2, <1>7, <2>1, <3>1, <3>2, <3>3, Steps
  <2>3. RenewInv'
    <3>1. SUFFICES ASSUME t[1].op = "mark", 2 \in DOMAIN todo', todo'[2].op = "use" PROVE FALSE
      BY <2>2 DEF RenewInv, Pre, HeadIs
    <3>2. 2 \in DOMAIN t /\ t[2].op = "move"
      BY <1>7, <3>1 DEF Copies
    <3> QED
      BY <2>2, <3>1, <3>2
  <2>4. ~(t[1].op = "move" /\ t[1].by = "start")
    BY <2>1, <2>2
  <2>5. \A j \in DOMAIN todo : todo[j].op \notin {"mark", "move"}
    <3>1. \A j \in DOMAIN todo : j >= 2 => todo[j].op \in Late \cup {"erase", "header"}
      BY <1>1, RestStill DEF Still
    <3> QED
      BY <1>2, <3>1 DEF Late
  <2>6. ASSUME NEW c \in Addr, Sound(c) PROVE Sound(c)'
    <3>1. CASE W(c)
      BY <1>4, <3>1 DEF Sound
    <3>2. CASE Due(c)
      <4>1. Head(todo).off > c[2] /\ Pending(c)
        BY <1>2, <2>5, <3>2 DEF Due, Pending
      <4>2. a[2] \in Nat /\ c[2] \in Nat /\ Head(todo).off \in Nat
        BY <1>1, SweepSteps, Addresses, Constants
      <4>3. \A i \in DOMAIN t : t[i].op = "sweep" => t[i].off > c[2]
        BY <1>7, <2>1, <4>1, <4>2
      <4> QED
        BY <1>1, <1>2, <1>4, <1>7, <2>1, <2>4, <2>6, <4>3, SoundKept
    <3>3. CASE Coming(c)
      <4>1. PICK j \in DOMAIN todo : todo[j].op = "commit" /\ todo[j].addr = c
        BY <3>3 DEF Coming
      <4>2. j >= 2
        BY <1>2, <4>1
      <4>3. \E i \in DOMAIN todo' : todo'[i] = todo[j]
        BY <1>1, <1>2, <1>7, <2>1, <4>2, Steps
      <4> QED
        BY <4>1, <4>3 DEF Sound, Coming
    <3> QED
      BY <2>6, <3>1, <3>2, <3>3 DEF Sound
  <2>7. HitInv'
    <3>1. SUFFICES ASSUME NEW q \in Key, NEW c \in Addr, cache[q] = c, At(c).key = q
                   PROVE  Sound(c)'
      BY <1>3, <1>4, <3>1 DEF HitInv
    <3> QED
      BY <2>6, <3>1 DEF ReadInv, HitInv
  <2> QED
    BY <1>5, <2>3, <2>7 DEF ReadInv
<1> QED
  BY <1>1, <1>6, <1>7, SweepSteps

\* A record that is copied will be struck out, or is lost with its sector.
LEMMA MoveRead == ASSUME Basic, LiveInv, ReadInv, Room, Move PROVE ReadInv'
<1>1. HeadIs("move") /\ Plan(todo) /\ TypeInv
  BY DEF Move, Basic, TypeInv
<1>2. /\ todo # <<>> /\ Head(todo).op = "move" /\ StepOK(Head(todo)) /\ Head(todo) = todo[1] /\ 1 \in DOMAIN todo
  BY <1>1, HeadFacts
<1>3. PICK a \in Addr : a = Head(todo).addr
  BY <1>2 DEF StepOK
<1>4. /\ flash' = flash /\ cache' = cache /\ lastDel' = lastDel /\ At(a).whole /\ At(a).key \in Key
  BY <1>3, MoveCases
<1>5. \A b \in Addr : At(b)' = At(b) /\ (W(b)' <=> W(b))
  BY <1>4 DEF At, W
<1>6. lastDel => Head(todo).by = "gc" /\ Gone(a)
  <2>1. SUFFICES ASSUME lastDel PROVE Head(todo).by = "gc" /\ Gone(a)
    OBVIOUS
  <2>2. PICK o \in Addr : Gone(o) /\ Ahead(o)
    BY <2>1 DEF ReadInv, LastInv
  <2>3. Moving(1, o)
    BY <1>2, <2>2 DEF Ahead, HeadIs
  <2> QED
    BY <1>2, <1>3, <2>2, <2>3 DEF Moving
<1>7. Gone(a) => Gone(a)'
  BY <1>5 DEF Gone
<1>8. ASSUME NEW s, Part(s), Go(s), \A i \in DOMAIN s : s[i].op \notin {"sweep", "move"},
             s # <<>> => s[1].op \in {"use", "mark"},
             \E i \in DOMAIN s : s[i].op = "mark" /\ s[i].addr = a /\ s[i].st = "DELETED",
             s[1].op = "mark" => s[1].st = "DELETED"
      PROVE  HitInv' /\ RenewInv'
  <2>1. s # <<>> /\ 1 \in DOMAIN s
    <3>1. s # <<>>
      BY <1>8, SeqFacts DEF Part
    <3> QED
      BY <1>1, <1>2, <1>8, <3>1, Steps
  <2>2. RenewInv'
    BY <1>1, <1>2, <1>8, RenewKept
  <2>3. Pending(a)'
    <3>1. PICK i \in DOMAIN s : s[i].op = "mark" /\ s[i].addr = a /\ s[i].st = "DELETED"
      BY <1>8
    <3>2. i \in DOMAIN todo' /\ todo'[i] = s[i]
      BY <1>1, <1>2, <1>8, Steps
    <3> QED
      BY <3>1, <3>2 DEF Pending
  <2>4. Sound(a)'
    <3>1. ~(HeadIs("move") /\ Head(todo).by = "start")'
      BY <1>1, <1>2, <1>8, NoStart DEF HeadIs
    <3> QED
      BY <2>3, <3>1 DEF Sound, Due
  <2>5. HitInv'
    <3>1. SUFFICES ASSUME NEW q \in Key, NEW c \in Addr, cache[q] = c, At(c).key = q, c # a
                   PROVE  Sound(c)'
      BY <1>4, <1>5, <2>4, <3>1 DEF HitInv
    <3>2. Sound(c)
      BY <3>1 DEF ReadInv, HitInv
    <3> QED
      BY <1>1, <1>2, <1>3, <1>5, <1>8, <3>1, <3>2, SoundKept
  <2> QED
    BY <2>2, <2>5
<1>9. ~(Go(None) /\ Head(todo).by = "gc" /\ Alloc(Length(At(a))).addr = NoAddr)
  BY <1>1, <1>3 DEF Room
<1>10. ASSUME todo' = <<RecoverEnd>>, Head(todo).by = "start" PROVE ReadInv'
  <2>1. DOMAIN todo' = {1} /\ Head(todo').op = "recovered"
    BY <1>10 DEF RecoverEnd
  <2>2. RenewInv' /\ LastInv'
    BY <1>4, <1>6, <1>10, <2>1 DEF RenewInv, Pre, HeadIs, LastInv
  <2>3. \A j \in DOMAIN todo : j >= 2 => todo[j].op # "commit"
    <3>1. SUFFICES ASSUME NEW j \in DOMAIN todo, j >= 2, todo[j].op = "commit" PROVE FALSE
      OBVIOUS
    <3>2. 2 \in DOMAIN todo /\ Follows(todo[1], todo[2]) /\ Part(todo) /\ DOMAIN todo = 1..Len(todo) /\ Len(todo) \in Nat
      BY <1>1, <1>2, <3>1, Front
    <3>3. todo[2].op = "recover"
      BY <1>2, <1>10, <3>2 DEF Follows
    <3>4. 2 < j
      BY <3>1, <3>2, <3>3
    <3>5. Before1(todo[2], todo[j])
      BY <3>1, <3>2, <3>4, InOrder
    <3> QED
      BY <3>1, <3>3, <3>5 DEF Before1, Active, Writes, Late
  <2>4. HitInv'
    <3>1. SUFFICES ASSUME NEW q \in Key, NEW c \in Addr, cache[q] = c, At(c).key = q
                   PROVE  W(c)
      BY <1>4, <1>5, <3>1 DEF HitInv, Sound
    <3>2. Sound(c)
      BY <3>1 DEF ReadInv, HitInv
    <3>3. ~Due(c)
      BY <1>1, <1>10 DEF Due
    <3>4. ~Coming(c)
      <4>1. DOMAIN todo = 1..Len(todo)
        BY <1>1, <1>2, Front
      <4> QED
        BY <1>2, <2>3, <4>1 DEF Coming
    <3> QED
      BY <3>2, <3>3, <3>4 DEF Sound
  <2> QED
    BY <2>2, <2>4 DEF ReadInv
<1>11. ASSUME Live(At(a).key) # {},
              NEW x, Part(x), x # <<>>, Len(x) = 1, DOMAIN x = {1}, Go(x),
              x[1].op = "mark", x[1].st = "DELETED", x[1].addr = a
       PROVE  ReadInv'
  <2>1. HitInv' /\ RenewInv'
    <3>1. 1 \in DOMAIN x /\ \A i \in DOMAIN x : i = 1
      BY <1>11
    <3>2. \A i \in DOMAIN x : x[i].op \notin {"sweep", "move"}
      BY <1>11, <3>1
    <3>3. \E i \in DOMAIN x : x[i].op = "mark" /\ x[i].addr = a /\ x[i].st = "DELETED"
      BY <1>11, <3>1
    <3> QED
      BY <1>8, <1>11, <3>2, <3>3
  <2>2. LastInv'
    <3>1. SUFFICES ASSUME lastDel PROVE \E o \in Addr : Gone(o)' /\ Ahead(o)'
      BY <1>4 DEF LastInv
    <3>2. PICK b \in Addr : W(b) /\ At(b).key = At(a).key
      BY <1>11 DEF Live, Visited, W
    <3>3. Succ(a)'
      BY <1>5, <3>2 DEF Succ
    <3>4. 1 \in DOMAIN todo' /\ todo'[1] = x[1] /\ IsSeq(todo')
      BY <1>1, <1>2, <1>11, Steps
    <3>5. todo' # <<>> /\ Head(todo') = x[1]
      BY <3>4, SeqFacts
    <3>6. Ahead(a)'
      BY <1>11, <3>3, <3>4, <3>5 DEF Ahead, Struck, HeadIs
    <3> QED
      BY <1>6, <1>7, <3>1, <3>6
  <2> QED
    BY <2>1, <2>2 DEF ReadInv
<1>12. ASSUME NEW p \in Addr, NEW w,
              MoveSteps(w, p, At(a).key, At(a).val, a), Len(w) = 5, DOMAIN w = 1..5, Go(w)
       PROVE  ReadInv'
  <2>1. /\ Part(w) /\ w # <<>>
        /\ w[1].op = "use"
        /\ w[2].op = "head" /\ w[2].key = At(a).key
        /\ w[3].op = "body"
        /\ w[4].op = "commit"
        /\ w[5].op = "mark" /\ w[5].st = "DELETED" /\ w[5].addr = a
    BY <1>12 DEF MoveSteps
  <2>2. \A i \in DOMAIN w : i \in {1, 2, 3, 4, 5}
    BY <1>12
  <2>3. 1 \in DOMAIN w /\ 2 \in DOMAIN w /\ 5 \in DOMAIN w
    BY <1>12
  <2>4. \A i \in DOMAIN w : w[i].op \notin {"sweep", "move"}
    BY <2>1, <2>2
  <2>5. HitInv' /\ RenewInv'
    <3>1. \E i \in DOMAIN w : w[i].op = "mark" /\ w[i].addr = a /\ w[i].st = "DELETED"
      BY <2>1, <2>3
    <3>2. w[1].op \in {"use", "mark"} /\ w[1].op # "mark"
      BY <2>1
    <3> QED
      BY <1>8, <1>12, <2>1, <2>4, <3>1, <3>2
  <2>6. LastInv'
    <3>1. SUFFICES ASSUME lastDel PROVE \E o \in Addr : Gone(o)' /\ Ahead(o)'
      BY <1>4 DEF LastInv
    <3>2. /\ \A i \in DOMAIN w : i \in DOMAIN todo' /\ todo'[i] = w[i]
          /\ IsSeq(todo')
      BY <1>1, <1>2, <1>12, <2>1, Steps
    <3>3. todo' # <<>> /\ Head(todo') = w[1]
      BY <2>3, <3>2, SeqFacts
    <3>4. /\ 1 \in DOMAIN todo' /\ todo'[1] = w[1] /\ todo'[2] = w[2] /\ 5 \in DOMAIN todo' /\ todo'[5] = w[5]
      BY <2>3, <3>2
    <3>5. At(a)' = At(a)
      BY <1>5
    <3>6. Writing(1, a)'
      BY <2>1, <3>4, <3>5 DEF Writing, Struck
    <3>7. HeadIs("use")'
      BY <2>1, <3>3 DEF HeadIs
    <3> QED
      BY <1>6, <1>7, <3>1, <3>6, <3>7 DEF Ahead
  <2> QED
    BY <2>5, <2>6 DEF ReadInv
<1>13. \/ Go(None) /\ Head(todo).by = "gc" /\ Alloc(Length(At(a))).addr = NoAddr
       \/ todo' = <<RecoverEnd>> /\ Head(todo).by = "start"
       \/ /\ recovering /\ Live(At(a).key) # {}
          /\ \E x : /\ Part(x) /\ x # <<>> /\ Len(x) = 1 /\ DOMAIN x = {1} /\ Go(x)
                    /\ x[1].op = "mark" /\ x[1].st = "DELETED" /\ x[1].addr = a
       \/ \E p, w : /\ p \in Addr /\ At(p) = Blank /\ flash[p[1]].store \in {"EMPTY", "USING"}
                    /\ MoveSteps(w, p, At(a).key, At(a).val, a) /\ Len(w) = 5 /\ DOMAIN w = 1..5 /\ Go(w)
                    /\ \E known \in Known(At(a).key) : ~(recovering /\ known)
  BY <1>3, MoveCases
<1>14. CASE \E p, w : /\ p \in Addr /\ At(p) = Blank /\ flash[p[1]].store \in {"EMPTY", "USING"}
                      /\ MoveSteps(w, p, At(a).key, At(a).val, a) /\ Len(w) = 5 /\ DOMAIN w = 1..5 /\ Go(w)
                      /\ \E known \in Known(At(a).key) : ~(recovering /\ known)
  BY <1>12, <1>14
<1>15. CASE /\ recovering /\ Live(At(a).key) # {}
            /\ \E x : /\ Part(x) /\ x # <<>> /\ Len(x) = 1 /\ DOMAIN x = {1} /\ Go(x)
                      /\ x[1].op = "mark" /\ x[1].st = "DELETED" /\ x[1].addr = a
  BY <1>11, <1>15
<1> QED
  BY <1>9, <1>10, <1>13, <1>14, <1>15

\* An erasure takes away what was to be struck out with it.
LEMMA FormatRead ==
  ASSUME Basic, ReadInv, NEW op \in {"erase", "header"}, HeadIs(op), NEW x \in {Erased, Formatted},
         flash' = [flash EXCEPT ![Head(todo).sec] = x], Go(None), UNCHANGED ram
  PROVE  ReadInv'
<1>1. Plan(todo) /\ TypeInv
  BY DEF Basic, TypeInv
<1>2. todo # <<>> /\ Head(todo).op = op /\ StepOK(Head(todo))
  BY <1>1, HeadFacts
<1>3. PICK s \in Sector : s = Head(todo).sec
  BY <1>2 DEF StepOK
<1>4. \A b \in Addr : At(b)' = IF b[1] = s THEN Blank ELSE At(b)
  BY <1>1, <1>3, SetSectorFacts DEF TypeInv
<1>5. cache' = cache /\ lastDel' = lastDel
  BY DEF ram
<1>6. LastInv'
  <2>1. op \in Idlers
    BY DEF Idlers
  <2>2. ~lastDel
    BY <2>1, LateOps, NotAhead DEF ReadInv
  <2> QED
    BY <1>5, <2>2 DEF LastInv
<1>7. HitInv'
  <2>1. SUFFICES ASSUME NEW q \in Key, NEW c \in Addr, cache[q] = c, At(c)'.key = q
                 PROVE  Sound(c)'
    BY <1>5, <2>1 DEF HitInv
  <2>2. c[1] # s /\ At(c)' = At(c)
    BY <1>4, <2>1, BlankFacts
  <2>3. Sound(c)
    BY <2>1, <2>2 DEF ReadInv, HitInv
  <2>4. W(c) => W(c)'
    BY <2>2 DEF W
  <2> QED
    BY <1>1, <1>2, <1>3, <2>2, <2>3, <2>4, NoStep, SoundKept
<1> QED
  BY <1>1, <1>2, <1>6, <1>7, NoStep, RenewKept DEF ReadInv

\* The third invariant holds behind the erasure of a sector.
LEMMA EraseRead == ASSUME Basic, ReadInv, Erase PROVE ReadInv'
BY FormatRead DEF Erase, None

\* The third invariant holds behind the header of a sector.
LEMMA HeaderRead == ASSUME Basic, ReadInv, Header PROVE ReadInv'
BY FormatRead DEF Header, None

\* A step that does not write, and puts such steps in front only.
LEMMA QuietReads ==
  ASSUME Basic, ReadInv, NEW op \in Late, HeadIs(op), NEW s, Part(s), Go(s),
         \A i \in DOMAIN s : s[i].op \in Idlers,
         \A b \in Addr : At(b)' = At(b), cache' = cache, lastDel' = lastDel
  PROVE  ReadInv'
<1>1. Plan(todo)
  BY DEF Basic, TypeInv
<1>2. \A b \in Addr : W(b) => W(b)'
  BY DEF W
<1>3. s # <<>> => 1 \in DOMAIN s
  BY SeqFacts DEF Part
<1>4. s # <<>> => ~(s[1].op = "mark" /\ s[1].st = "PRE_DELETE")
  BY <1>3 DEF Idlers, Late
<1> QED
  BY <1>1, <1>2, <1>4, LateReads

\* The third invariant holds behind the end of a call.
LEMMA ReturnRead == ASSUME Basic, ReadInv, Return PROVE ReadInv'
<1>1. HeadIs("return") /\ Go(None) /\ UNCHANGED <<flash, ram>> /\ "return" \in Late
  BY DEF Return, None, Late
<1> QED
  BY <1>1, NoStep, QuietReads DEF ram, At

\* The third invariant holds behind the end of gc_collect.
LEMMA FinishGcRead == ASSUME Basic, ReadInv, FinishGc PROVE ReadInv'
<1>1. HeadIs("gcend") /\ Go(None) /\ UNCHANGED <<flash, cache, lastDel>> /\ "gcend" \in Late
  BY DEF FinishGc, None, Late
<1> QED
  BY <1>1, NoStep, QuietReads DEF At

\* The third invariant holds behind check_and_recovery_gc_cb.
LEMMA ResumeRead == ASSUME Basic, ReadInv, ResumeGc PROVE ReadInv'
<1> DEFINE t == <<Gc>>
<1>1. HeadIs("resume") /\ UNCHANGED <<flash, cache, lastDel>> /\ "resume" \in Late
  BY DEF ResumeGc, Late
<1>2. StepOK(Gc) /\ Gc.op = "gc"
  BY DEF StepOK, Gc, Active, Writes, Late
<1>3. Part(t) /\ t[1] = Gc /\ DOMAIN t = {1}
  BY <1>2, One
<1>4. Go(t) \/ Go(None)
  BY DEF ResumeGc, None
<1> HIDE DEF t
<1>5. PICK s \in {t, None} : Go(s)
  BY <1>4
<1>6. Part(s) /\ \A i \in DOMAIN s : s[i].op \in Idlers
  BY <1>2, <1>3, NoStep DEF Idlers, Late
<1> QED
  BY <1>1, <1>5, <1>6, QuietReads DEF At

\* The third invariant holds behind the begin of gc_collect.
LEMMA StartGcRead == ASSUME Basic, ReadInv, StartGc PROVE ReadInv'
<1> DEFINE s == IF HeadIs("gcif") /\ ~gcRequest THEN None ELSE CollectSteps
<1>1. Go(s) /\ UNCHANGED <<flash, ram>>
  BY DEF StartGc, None
<1>2. PICK op \in {"gc", "gcif"} : HeadIs(op)
  BY DEF StartGc
<1>3. op \in Late
  BY DEF Late
<1>4. Part(s) /\ \A i \in DOMAIN s : s[i].op \in Idlers
  BY NoStep, CollectPart DEF CalmPart, Idlers, Late
<1> HIDE DEF s
<1> QED
  BY <1>1, <1>2, <1>3, <1>4, QuietReads DEF ram, At

\* The collection of a sector begins with a mark on the sector, not on a
\* record.
LEMMA CollectRead == ASSUME Basic, ReadInv, Collect PROVE ReadInv'
<1> DEFINE c == Head(todo).sec
           t == <<SweepOf(c, 0), EraseOf(c), HeaderOf(c)>>
<1>1. HeadIs("collect") /\ Plan(todo) /\ TypeInv /\ cache' = cache /\ lastDel' = lastDel
  BY DEF Collect, Basic, TypeInv, ram
<1>2. StepOK(Head(todo)) /\ Head(todo).op = "collect"
  BY <1>1, HeadFacts
<1>3. c \in Sector /\ "collect" \in Late
  BY <1>2 DEF StepOK, Late
<1>4. Part(t) /\ \A i \in DOMAIN t : t[i].op \in Idlers
  <2>1. StepOK(SweepOf(c, 0)) /\ StepOK(EraseOf(c)) /\ StepOK(HeaderOf(c))
    BY <1>3, Constants DEF StepOK, SweepOf, EraseOf, HeaderOf, Active, Writes, Late
  <2>2. Follows(SweepOf(c, 0), EraseOf(c)) /\ Follows(EraseOf(c), HeaderOf(c))
    BY DEF Follows, SweepOf, EraseOf, HeaderOf, Active, Writes
  <2>3. /\ Part(t) /\ t # <<>> /\ Len(t) = 3
        /\ t[1] = SweepOf(c, 0) /\ t[2] = EraseOf(c) /\ t[3] = HeaderOf(c)
        /\ DOMAIN t = {1, 2, 3}
    BY <2>1, <2>2, Three
  <2> HIDE DEF t
  <2> QED
    BY <2>3 DEF SweepOf, EraseOf, HeaderOf, Idlers
<1>5. \/ flash' = [flash EXCEPT ![c].dirty = "GC"] /\ Go(t)
      \/ UNCHANGED flash /\ Go(None)
  BY DEF Collect, None
<1> HIDE DEF t, c
<1>6. \A b \in Addr : At(b)' = At(b)
  <2>1. CASE flash' = [flash EXCEPT ![c].dirty = "GC"]
    BY <1>1, <1>3, <2>1, SetDirtyFacts DEF TypeInv, Dirts
  <2>2. CASE UNCHANGED flash
    BY <2>2 DEF At
  <2> QED
    BY <1>5, <2>1, <2>2
<1>7. PICK s \in {t, None} : Go(s)
  BY <1>5
<1>8. Part(s) /\ \A i \in DOMAIN s : s[i].op \in Idlers
  BY <1>4, <1>7, NoStep
<1> QED
  BY <1>1, <1>3, <1>6, <1>7, <1>8, QuietReads

\* The third invariant holds behind check_sec_hdr_cb.
LEMMA RepairRead == ASSUME Basic, ReadInv, RepairSector PROVE ReadInv'
<1> DEFINE s == Least(With("NONE"))
           z == Repair
           x == <<EraseOf(s), HeaderOf(s), z>>
<1>1. HeadIs("repair") /\ UNCHANGED <<flash, ram>> /\ "repair" \in Late
  BY DEF RepairSector, Late
<1>2. Go(None) \/ (With("NONE") # {} /\ Go(x))
  BY DEF RepairSector, None
<1>3. With("NONE") # {} => s \in Sector
  <2>1. With("NONE") \subseteq Sector
    BY DEF With
  <2> QED
    BY <2>1, Constants, LeastOf
<1>4. StepOK(z) /\ Closed(z) /\ Calm(z) /\ z.op = "repair"
  BY DEF Repair, StepOK, Active, Writes, Late, Closed, Open, Calm
<1> HIDE DEF z, s
<1>5. With("NONE") # {} => /\ Part(x) /\ x # <<>> /\ Len(x) = 3 /\ DOMAIN x = {1, 2, 3}
                           /\ x[1].op = "erase" /\ x[2].op = "header" /\ x[3] = z
  BY <1>3, <1>4, FormatSteps
<1> HIDE DEF x
<1>6. PICK t : Go(t) /\ (t = None \/ (With("NONE") # {} /\ t = x))
  BY <1>2
<1>7. Part(t) /\ \A i \in DOMAIN t : t[i].op \in Idlers
  BY <1>4, <1>5, <1>6, NoStep DEF Idlers, Late
<1> QED
  BY <1>1, <1>6, <1>7, QuietReads DEF ram, At

\* The third invariant holds behind the end of the recovery.
LEMMA RecoveredRead == ASSUME Basic, ReadInv, Recovered PROVE ReadInv'
<1> DEFINE z == RecoverOf(<<1, 0>>)
           t == <<Gc, z>>
<1>1. HeadIs("recovered") /\ UNCHANGED <<flash, cache, lastDel>> /\ "recovered" \in Late
  BY DEF Recovered, Late
<1>2. StepOK(Gc) /\ StepOK(z) /\ Follows(Gc, z) /\ Gc.op = "gc" /\ z.op = "recover"
  BY Constants DEF StepOK, Gc, RecoverOf, Active, Writes, Late, Follows
<1> HIDE DEF z
<1>3. Part(t) /\ Len(t) = 2 /\ t[1] = Gc /\ t[2] = z /\ DOMAIN t = {1, 2}
  BY <1>2, Two
<1>4. Go(t) \/ Go(None)
  BY DEF Recovered, None, z
<1> HIDE DEF t
<1>5. PICK s \in {t, None} : Go(s)
  BY <1>4
<1>6. Part(s) /\ \A i \in DOMAIN s : s[i].op \in Idlers
  BY <1>2, <1>3, <1>5, NoStep DEF Idlers, Late
<1> QED
  BY <1>1, <1>5, <1>6, QuietReads DEF At

\* The recovery copies, or gives up, what is not valid.
LEMMA RecoverRead == ASSUME Basic, ReadInv, Recover PROVE ReadInv'
<1>1. /\ HeadIs("recover") /\ Plan(todo) /\ TypeInv /\ "recover" \in Late
      /\ cache' = cache /\ lastDel' = lastDel
  BY RecoverCases DEF Basic, TypeInv, ram, Late
<1>2. PICK t : /\ Part(t) /\ t # <<>> /\ Go(t)
               /\ \A i \in DOMAIN t : t[i].op \in {"recover", "recovered", "move"}
               /\ \/ UNCHANGED flash
                  \/ \E a \in Addr : At(a).st = "PRE_WRITE" /\ SetRec(a, [At(a) EXCEPT !.st = "ERR_HDR"])
  BY RecoverCases
<1>3. ~(t[1].op = "mark" /\ t[1].st = "PRE_DELETE")
  <2>1. 1 \in DOMAIN t
    BY <1>2, SeqFacts DEF Part
  <2> QED
    BY <1>2, <2>1
<1>4. \A b \in Addr : (W(b) => W(b)') /\ At(b)'.key = At(b).key
  <2>1. CASE UNCHANGED flash
    BY <2>1 DEF W, At
  <2>2. ASSUME NEW a \in Addr, At(a).st = "PRE_WRITE", SetRec(a, [At(a) EXCEPT !.st = "ERR_HDR"])
        PROVE  \A b \in Addr : (W(b) => W(b)') /\ At(b)'.key = At(b).key
    <3> DEFINE z == [At(a) EXCEPT !.st = "ERR_HDR"]
    <3>1. At(a) \in Record
      BY <1>1, Parts DEF TypeInv
    <3>2. z \in Record /\ z.st = "ERR_HDR" /\ z.key = At(a).key
      BY <3>1, ChangedRecord
    <3> HIDE DEF z
    <3>3. \A b \in Addr : At(b)' = IF b = a THEN z ELSE At(b)
      BY <1>1, <2>2, <3>2, SetRecFacts DEF TypeInv, z
    <3>4. ~W(a)
      BY <2>2 DEF W
    <3>5. \A b \in Addr : W(b) => W(b)'
      <4>1. \A b \in Addr : b # a => At(b)' = At(b)
        BY <3>3
      <4> QED
        BY <3>4, <4>1 DEF W
    <3> QED
      BY <3>2, <3>3, <3>5
  <2> QED
    BY <1>2, <2>1, <2>2
<1> QED
  BY <1>1, <1>2, <1>3, <1>4, LateReads

\* The third invariant holds behind efd_env_set_default.
LEMMA SetDefaultRead == ASSUME Basic, ReadInv, SetDefault PROVE ReadInv'
<1>1. HeadIs("default") /\ UNCHANGED <<flash, cache, lastDel>> /\ Plan(todo) /\ "default" \in Late
  BY DefaultCases DEF ram, Basic, TypeInv, Late
<1>2. PICK t : Part(t) /\ Go(t) /\ t[1].op \in {"erase", "use"}
  BY DefaultCases
<1>3. \A b \in Addr : (W(b) => W(b)') /\ At(b)'.key = At(b).key
  BY <1>1 DEF W, At
<1>4. ~(t[1].op = "mark" /\ t[1].st = "PRE_DELETE")
  BY <1>2
<1> QED
  BY <1>1, <1>2, <1>3, <1>4, LateReads

\* What a search finds for a key without a valid record is not in the cache,
\* and what it finds for one that has it is that record.
LEMMA FoundValid ==
  ASSUME Basic, LiveInv, \A c \in Addr : Sound(c) => W(c), ReadInv, NEW k \in Key, Find(k) # NoAddr
  PROVE  Find(k) \in Addr /\ W(Find(k)) /\ At(Find(k)).key = k
<1>1. /\ cache \in [Key -> Addr \cup {NoAddr}]
      /\ Find(k) \in Addr /\ At(Find(k)).key = k
      /\ Live(k) # {} => Search(k) \in Live(k)
  BY FoundLive, FindFacts DEF Basic, TypeInv, LiveInv
<1>2. CASE CacheHit(k)
  <2>1. cache[k] = Find(k)
    BY <1>2 DEF Find
  <2> QED
    BY <1>1, <2>1 DEF ReadInv, HitInv
<1>3. CASE ~CacheHit(k)
  <2>1. Find(k) = Search(k)
    BY <1>3 DEF Find
  <2>2. Live(k) # {}
    BY <2>1 DEF Search
  <2> QED
    BY <1>1, <2>1, <2>2 DEF Live, W
<1> QED
  BY <1>2, <1>3

\* What was found may go into the cache.
LEMMA FillHits ==
  ASSUME Basic, LiveInv, ReadInv, \A c \in Addr : Sound(c) => W(c), NEW k \in Key,
         cache' = FoundInCache(k) \/ cache' = cache, flash' = flash
  PROVE  HitInv'
<1>1. SUFFICES ASSUME NEW q \in Key, NEW c \in Addr, cache'[q] = c, At(c)'.key = q
               PROVE  W(c)
  <2>1. \A b \in Addr : W(b) => W(b)'
    BY DEF W, At
  <2> QED
    BY <1>1, <2>1 DEF HitInv, Sound
<1>2. At(c).key = q /\ cache \in [Key -> Addr \cup {NoAddr}]
  BY <1>1 DEF At, Basic, TypeInv
<1>3. CASE cache[q] = c
  BY <1>2, <1>3 DEF ReadInv, HitInv
<1>4. CASE cache[q] # c
  <2>1. cache' = FoundInCache(k) /\ Find(k) # NoAddr
    BY <1>1, <1>4 DEF FoundInCache
  <2>2. q = k /\ c = Find(k)
    BY <1>1, <1>2, <1>4, <2>1 DEF FoundInCache
  <2> QED
    BY <2>1, <2>2, FoundValid
<1> QED
  BY <1>3, <1>4

\* A record is replaced by one of its key.
LEMMA PutRead == ASSUME Basic, LiveInv, ReadInv, Put PROVE ReadInv'
<1> DEFINE k == Head(todo).key
           v == Head(todo).val
           r == Alloc(Size[v])
           full == BecomesFull(r.addr[1], Size[v])
<1>1. HeadIs("put") /\ Plan(todo) /\ TypeInv /\ todo # <<>> /\ StepOK(Head(todo)) /\ "put" \in Late
  BY HeadFacts DEF Put, Basic, TypeInv, Late
<1>2. k \in Key /\ v \in Value
  BY <1>1 DEF StepOK, HeadIs
<1>3. r.addr # NoAddr => r.addr \in Addr /\ r.addr[2] + Size[v] <= SectorSize
  BY <1>1, <1>2, Constants, AllocFacts DEF TypeInv
<1>4. full \in BOOLEAN /\ UNCHANGED <<flash, lastDel>>
  BY DEF BecomesFull, Put
<1> HIDE DEF full
<1>5. CASE r.addr # NoAddr
  <2> DEFINE n == IF Find(k) = NoAddr THEN 0 ELSE 1
             old == Find(k)
             a == r.addr
  <2>1. cache' = FoundInCache(k)
    BY <1>5 DEF Put
  <2>2. PICK t : IsCat(t, Replace(old, WriteSteps(a, k, v, "set", full)), <<GcIfRequested, ReturnOf("ok")>>)
                 /\ Go(t)
    BY <1>5 DEF Put, IsCat, full
  <2>3. n \in {0, 1} /\ n = IF old = NoAddr THEN 0 ELSE 1
    OBVIOUS
  <2>4. a \in Addr /\ a[2] + Size[v] <= SectorSize /\ old \in Addr \cup {NoAddr} /\ old = Find(k)
    BY <1>1, <1>2, <1>3, <1>5, FindFacts DEF TypeInv
  <2>5. PICK kk, vv, aa, oo, nn : kk = k /\ vv = v /\ aa = a /\ oo = old /\ nn = n
    OBVIOUS
  <2> HIDE DEF n, old, a, k, v, r
  <2>6. Replaces(t, nn, aa, kk, vv, full, oo)
    BY <1>2, <1>4, <2>2, <2>3, <2>4, <2>5, ReplacePart
  <2>7. /\ cache' = FoundInCache(kk) /\ Go(t) /\ oo = Find(kk) /\ kk \in Key /\ nn \in {0, 1}
        /\ nn = 1 => oo # NoAddr
    BY <1>2, <2>1, <2>2, <2>3, <2>4, <2>5
  <2>8. \A c \in Addr : Sound(c) => W(c)
    BY <1>1, LateSound
  <2>9. HitInv'
    BY <1>4, <2>7, <2>8, FillHits
  <2>10. LastInv'
    BY <1>1, <1>4, LateOps, NotAhead DEF LastInv, ReadInv, Idlers
  <2>11. Part(t) /\ t # <<>> /\ Len(t) = 6 + 2 * nn /\ DOMAIN t = 1..Len(t)
    BY <2>6, SeqFacts DEF Replaces, Part, Ln
  <2>12. RenewInv'
    <3>1. CASE nn = 0
      <4>1. t[1].op = "use"
        BY <2>6, <3>1 DEF Replaces
      <4> QED
        BY <1>1, <2>7, <2>11, <4>1, RenewKept
    <3>2. CASE nn = 1
      <4>1. t[1].addr = oo /\ t[3].key = kk
        BY <2>6, <3>2 DEF Replaces
      <4>2. 1 \in DOMAIN t /\ 3 \in DOMAIN t
        BY <2>11, <3>2
      <4>3. todo'[1] = t[1] /\ todo'[3] = t[3] /\ (todo' # <<>> => Head(todo') = todo'[1])
        BY <1>1, <2>7, <2>11, <4>2, Steps
      <4>4. At(oo)'.key = kk
        BY <1>1, <1>4, <2>7, <3>2, FoundLive DEF At, LiveInv
      <4>5. SUFFICES ASSUME Pre' PROVE todo'[3].key = At(Head(todo).addr)'.key
        BY DEF RenewInv
      <4>6. Head(todo').addr = oo
        BY <4>1, <4>3, <4>5 DEF Pre, HeadIs
      <4>7. At(Head(todo).addr)' = At(oo)'
        BY <4>6 DEF At
      <4> QED
        BY <4>1, <4>3, <4>4, <4>7
    <3> QED
      BY <2>7, <3>1, <3>2
  <2> QED
    BY <2>9, <2>10, <2>12 DEF ReadInv
<1>6. CASE r.addr = NoAddr
  <2> DEFINE g == Gc
             p == PutOf(k, v, TRUE)
             q == ReturnOf("full")
             x == <<g, p>>
             y == <<q>>
  <2>1. /\ StepOK(g) /\ StepOK(p) /\ StepOK(q) /\ Follows(g, p)
        /\ g.op = "gc" /\ p.op = "put" /\ q.op = "return"
    BY <1>2 DEF StepOK, Gc, PutOf, ReturnOf, Follows, Active, Writes, Late
  <2>2. (\E t : t \in {x, y} /\ Go(t)) /\ cache' = cache
    BY <1>6 DEF Put
  <2> HIDE DEF g, p, q
  <2>3. Part(x) /\ x[1] = g /\ x[2] = p /\ DOMAIN x = {1, 2}
    BY <2>1, Two
  <2>4. Part(y) /\ y[1] = q /\ DOMAIN y = {1}
    BY <2>1, One
  <2> HIDE DEF x, y
  <2>5. PICK t : t \in {x, y} /\ Go(t)
    BY <2>2
  <2>6. Part(t) /\ \A i \in DOMAIN t : t[i].op \in Idlers
    BY <2>1, <2>3, <2>4, <2>5 DEF Idlers, Late
  <2> QED
    BY <1>1, <1>4, <2>2, <2>5, <2>6, QuietReads DEF At
<1> QED
  BY <1>5, <1>6

\* A record whose header was cut short has no name to be found by.
LEMMA MarkScarRead == ASSUME Basic, ReadInv, MarkScar PROVE ReadInv'
<1> DEFINE s == Least(Unbegun)
           a == <<s, 0>>
<1>1. HeadIs("scars") /\ Plan(todo) /\ TypeInv /\ cache' = cache /\ lastDel' = lastDel /\ "scars" \in Late
  BY DEF MarkScar, Basic, TypeInv, ram, Late
<1>2. \/ Go(None) /\ UNCHANGED flash
      \/ Unbegun # {} /\ SetRec(a, Scar) /\ UNCHANGED todo
  BY DEF MarkScar, None
<1>3. CASE Go(None) /\ UNCHANGED flash
  BY <1>1, <1>3, NoStep, QuietReads DEF At
<1>4. CASE Unbegun # {} /\ SetRec(a, Scar) /\ UNCHANGED todo
  <2>1. s \in Sector /\ Fill(s) = 0
    <3>1. Unbegun \in SUBSET Nat
      BY Constants DEF Unbegun, With
    <3>2. s \in Unbegun
      BY <1>4, <3>1, LeastOf
    <3> QED
      BY <3>2 DEF Unbegun, With
  <2>2. a \in Addr /\ a[1] = s /\ a[2] = 0 /\ 0 \in Offset
    BY <2>1, Constants, Addresses
  <2>3. At(a) = Blank
    <3>1. flash[s].recs[0] = Blank
      BY <1>1, <2>1, <2>2, FillFacts DEF TypeInv
    <3> QED
      BY <2>2, <3>1 DEF At
  <2> HIDE DEF a, s
  <2>4. \A b \in Addr : At(b)' = IF b = a THEN Scar ELSE At(b)
    BY <1>1, <1>4, <2>2, KnownRecords, SetRecFacts DEF TypeInv
  <2>5. Scar.key \notin Key /\ ~Blank.whole
    BY KnownRecords, Constants
  <2>6. HitInv'
    <3>1. SUFFICES ASSUME NEW q \in Key, NEW c \in Addr, cache[q] = c, At(c)'.key = q
                   PROVE  W(c)'
      BY <1>1, <3>1 DEF HitInv, Sound
    <3>2. At(c)' = At(c)
      BY <2>4, <2>5, <3>1
    <3>3. Sound(c)
      BY <3>1, <3>2 DEF ReadInv, HitInv
    <3> QED
      BY <1>1, <3>2, <3>3, LateSound DEF W
  <2>7. LastInv'
    BY <1>1, LateOps, NotAhead DEF LastInv, ReadInv, Idlers
  <2>8. RenewInv'
    <3>1. todo' = todo /\ Head(todo).op = "scars"
      BY <1>1, <1>4, HeadFacts
    <3> QED
      BY <3>1 DEF RenewInv, Pre, HeadIs
  <2> QED
    BY <2>6, <2>7, <2>8 DEF ReadInv
<1> QED
  BY <1>2, <1>3, <1>4

\* The third invariant holds behind the begin of efd_load_env.
LEMMA StartRead == ASSUME Basic, Off, ReadInv, Start PROVE ReadInv'
<1>1. /\ CalmPart(todo') /\ todo' # <<>> /\ todo'[1].op = "repair"
      /\ UNCHANGED <<flash, cache, lastDel>> /\ power = "off"
  BY StartPart DEF Start
<1>2. Head(todo') = todo'[1]
  BY <1>1, SeqFacts DEF CalmPart, Part
<1>3. todo = <<>> /\ lastDel = FALSE
  BY <1>1 DEF Off
<1>4. HitInv'
  <2>1. SUFFICES ASSUME NEW q \in Key, NEW c \in Addr, cache[q] = c, At(c)'.key = q
                 PROVE  W(c)'
    BY <1>1, <2>1 DEF HitInv, Sound
  <2>2. At(c)' = At(c)
    BY <1>1 DEF At
  <2>3. Sound(c)
    BY <2>1, <2>2 DEF ReadInv, HitInv
  <2> QED
    BY <1>3, <2>2, <2>3, IdleSound DEF W
<1> QED
  BY <1>1, <1>2, <1>3, <1>4 DEF ReadInv, LastInv, RenewInv, Pre, HeadIs

\* A call fills the cache with what it found.
LEMMA CallRead ==
  ASSUME Basic, LiveInv, ReadInv, NEW k \in Key, NEW v \in Value, CallDelete(k) \/ CallGet(k) \/ CallSet(k, v)
  PROVE  ReadInv'
<1>1. todo = <<>> /\ UNCHANGED <<flash, lastDel>>
  BY DEF CallDelete, CallGet, CallSet, Call, caller, Idle
<1>2. cache' = FoundInCache(k) \/ cache' = cache
  BY DEF CallDelete, CallGet, CallSet
<1>3. HitInv'
  BY <1>1, <1>2, IdleSound, FillHits
<1>4. LastInv'
  <2>1. ~lastDel
    BY <1>1, NotAhead DEF HeadIs, ReadInv
  <2> QED
    BY <1>1, <2>1 DEF LastInv
<1>5. RenewInv'
  <2> DEFINE p == PutOf(k, v, FALSE)
             m == ReturnOf("missing")
             d == MarkOf(Find(k), "DELETED")
             e == ReturnOf("ok")
  <2>1. todo' = <<>> \/ todo' = <<p>> \/ todo' = <<m>> \/ todo' = <<d, e>>
    BY <1>1 DEF CallDelete, CallGet, CallSet, Idle
  <2>2. p.op = "put" /\ m.op = "return" /\ d.st = "DELETED"
    BY DEF PutOf, ReturnOf, MarkOf
  <2> HIDE DEF p, m, d, e
  <2>3. todo' # <<>> => Head(todo').op # "mark" \/ Head(todo').st = "DELETED"
    BY <2>1, <2>2
  <2> QED
    BY <2>3 DEF RenewInv, Pre, HeadIs
<1> QED
  BY <1>3, <1>4, <1>5 DEF ReadInv

\* The third invariant holds behind a loss of power: the cache is empty.
LEMMA EmptyRead ==
  ASSUME cache' = [k \in Key |-> NoAddr], lastDel' = FALSE, todo' = <<>>
  PROVE  ReadInv'
<1>1. \A c \in Addr : c # NoAddr
  BY Addresses
<1> QED
  BY <1>1 DEF ReadInv, HitInv, LastInv, RenewInv, Pre, HeadIs

\* The third invariant holds in the beginning.
LEMMA ReadInit == ASSUME Init PROVE ReadInv
<1>1. \A c \in Addr : c # NoAddr
  BY Addresses
<1> QED
  BY <1>1 DEF Init, ReadInv, HitInv, LastInv, RenewInv, Pre, HeadIs

\* The third invariant holds behind every step.
LEMMA ReadStep == ASSUME Basic, LiveInv, ReadInv, Room, Step PROVE ReadInv'
<1>1. CASE Mark
  BY <1>1, MarkRead
<1>2. CASE Dirty
  BY <1>2, DirtyRead
<1>3. CASE Use
  BY <1>3, UseRead
<1>4. CASE WriteHead
  BY <1>4, WriteHeadRead
<1>5. CASE WriteBody
  BY <1>5, WriteBodyRead
<1>6. CASE Commit
  BY <1>6, CommitRead
<1>7. CASE Put
  BY <1>7, PutRead
<1>8. CASE Return
  BY <1>8, ReturnRead
<1>9. CASE StartGc
  BY <1>9, StartGcRead
<1>10. CASE FinishGc
  BY <1>10, FinishGcRead
<1>11. CASE Collect
  BY <1>11, CollectRead
<1>12. CASE Sweep
  BY <1>12, SweepRead
<1>13. CASE Move
  BY <1>13, MoveRead
<1>14. CASE Erase
  BY <1>14, EraseRead
<1>15. CASE Header
  BY <1>15, HeaderRead
<1>16. CASE RepairSector
  BY <1>16, RepairRead
<1>17. CASE SetDefault
  BY <1>17, SetDefaultRead
<1>18. CASE MarkScar
  BY <1>18, MarkScarRead
<1>19. CASE ResumeGc
  BY <1>19, ResumeRead
<1>20. CASE Recover
  BY <1>20, RecoverRead
<1>21. CASE Recovered
  BY <1>21, RecoveredRead
<1> QED
  BY <1>1, <1>2, <1>3, <1>4, <1>5, <1>6, <1>7, <1>8, <1>9, <1>10, <1>11, <1>12, <1>13, <1>14,
     <1>15, <1>16, <1>17, <1>18, <1>19, <1>20, <1>21 DEF Step

\* The third invariant is inductive with the second while collections find room.
LEMMA ReadNext == ASSUME Basic, Off, LiveInv, ReadInv, Room, [Next]_vars PROVE ReadInv'
<1>1. CASE Start
  BY <1>1, StartRead
<1>2. CASE Step
  BY <1>2, ReadStep
<1>3. CASE \E k \in Key : CallDelete(k) \/ CallGet(k) \/ \E v \in Value : CallSet(k, v)
  <2>1. PICK k \in Key : CallDelete(k) \/ CallGet(k) \/ \E v \in Value : CallSet(k, v)
    BY <1>3
  <2>2. CASE CallDelete(k) \/ CallGet(k)
    BY <2>2, CallRead, Constants
  <2>3. CASE \E v \in Value : CallSet(k, v)
    BY <2>3, CallRead
  <2> QED
    BY <2>1, <2>2, <2>3
<1>4. CASE LosePower
  BY <1>4, EmptyRead DEF LosePower
<1>5. CASE UNCHANGED vars
  <2>1. UNCHANGED <<flash, cache, lastDel, todo>>
    BY <1>5 DEF vars, ram
  <2>2. HitInv'
    BY <2>1 DEF ReadInv, HitInv, Sound, Due, Coming, Pending, W, HeadIs, At
  <2>3. LastInv'
    BY <2>1 DEF ReadInv, LastInv, Gone, Ahead, Writing, Moving, Struck, Same, Succ, W, HeadIs, At
  <2>4. RenewInv'
    BY <2>1 DEF ReadInv, RenewInv, Pre, HeadIs, At
  <2> QED
    BY <2>2, <2>3, <2>4 DEF ReadInv
<1> QED
  BY <1>1, <1>2, <1>3, <1>4, <1>5 DEF Next

\* Between calls no record awaits its deletion, and a search finds the valid
\* record of a key if there is one.
LEMMA ReadsOf == ASSUME Basic, LiveInv, ReadInv PROVE ReadsStored
<1>1. SUFFICES ASSUME Idle, NEW k \in Key PROVE Reads(k) = Stored(k)
  BY DEF ReadsStored
<1> DEFINE V == {a \in Addr : At(a).whole /\ At(a).st = "WRITE" /\ At(a).key = k}
           P == {a \in Addr : At(a).whole /\ At(a).st = "PRE_DELETE" /\ At(a).key = k}
<1>2. Stored(k) = IF V # {} THEN At(First(V)).val ELSE IF P # {} THEN At(First(P)).val ELSE NoValue
  BY DEF Stored
<1>3. P = {}
  <2>1. todo = <<>> /\ power = "on"
    BY <1>1 DEF Idle
  <2>2. \A i \in DOMAIN todo : FALSE
    BY <2>1
  <2> QED
    BY <2>1, <2>2 DEF LiveInv, PendingInv, Pending, D
<1>4. /\ \A b \in V : b = Find(k)
      /\ Find(k) # NoAddr => Find(k) \in V
  <2>1. \A c \in Addr : Sound(c) => W(c)
    BY <1>1, IdleSound DEF Idle
  <2>2. Find(k) # NoAddr => Find(k) \in Addr /\ W(Find(k)) /\ At(Find(k)).key = k
    BY <2>1, FoundValid
  <2>3. \A b \in Addr : W(b) /\ At(b).key = k => b = Find(k)
    BY FoundLive DEF Basic, LiveInv
  <2> QED
    BY <2>2, <2>3 DEF W
<1> HIDE DEF V, P
<1>5. CASE V = {}
  BY <1>2, <1>3, <1>4, <1>5 DEF Reads
<1>6. CASE V # {}
  <2>1. PICK b : b \in V
    BY <1>6
  <2>2. b = Find(k) /\ V = {b} /\ Find(k) # NoAddr
    <3>1. b = Find(k) /\ \A c \in V : c = b
      BY <1>4, <2>1
    <3>2. b \in Addr
      BY <2>1 DEF V
    <3> QED
      BY <2>1, <3>1, <3>2, Addresses
  <2>3. First(V) = b
    BY <2>2 DEF First
  <2> QED
    BY <1>2, <1>6, <2>2, <2>3 DEF Reads
<1> QED
  BY <1>5, <1>6

\* What is read is what is on file, though the cache compares nothing but the
\* name and is cleared only by some of the deletions (get_env, find_env, del_env),
\* through collections, losses of power and recoveries, if every recovery comes to
\* its end and every collection finds room for what it moves.
THEOREM ReadsTrue ==
  ASSUME ~StrayName
  PROVE  Spec /\ []RecoveryComplete /\ []Room => []ReadsStored
<1>1. Named
  BY DEF Named
<1>2. Basic /\ Off /\ LiveInv /\ ReadInv /\ RecoveryComplete /\ Room /\ [Next]_vars => LiveInv' /\ ReadInv'
  BY <1>1, LiveNext, ReadNext
<1>3. Init => LiveInv /\ ReadInv
  BY LiveInit, ReadInit
<1>4. Basic /\ LiveInv /\ ReadInv => ReadsStored
  BY ReadsOf
<1> QED
  BY <1>2, <1>3, <1>4, BasicHolds, PTL DEF Spec

\* The third invariant holds until power is lost for the first time.
LEMMA FirstReads ==
  ASSUME Basic, Off, FirstInv, restarts = 0 => ReadInv, Room, [Next]_vars
  PROVE  restarts' = 0 => ReadInv'
<1>1. SUFFICES ASSUME restarts' = 0 PROVE ReadInv'
  OBVIOUS
<1>2. restarts \in Nat
  BY StoreAssumption DEF Basic, TypeInv
<1>3. restarts' = restarts \/ restarts' = restarts + 1
  <2>1. CASE Step
    BY <2>1, StepPower
  <2> QED
    BY <2>1 DEF Next, Start, Call, CallDelete, CallGet, CallSet, LosePower, vars
<1>4. restarts = 0
  BY <1>1, <1>2, <1>3
<1> QED
  BY <1>4, ReadNext DEF FirstInv

\* Until power is lost this holds if every collection finds room: nothing is
\* assumed of the recovery (efd_get_env_blob, do_gc).
THEOREM FirstReadsTrue == Spec /\ []Room => [](restarts = 0 => ReadsStored)
<1>1. Init => FirstInv /\ (restarts = 0 => ReadInv)
  BY FirstInit, ReadInit
<1>2. Basic /\ Off /\ FirstInv /\ (restarts = 0 => ReadInv) /\ Room /\ [Next]_vars
      => FirstInv' /\ (restarts = 0 => ReadInv)'
  BY FirstNext, FirstReads
<1>3. Basic /\ FirstInv /\ (restarts = 0 => ReadInv) => (restarts = 0 => ReadsStored)
  BY ReadsOf DEF FirstInv
<1> QED
  BY <1>1, <1>2, <1>3, BasicHolds, PTL DEF Spec

===================================================================================
