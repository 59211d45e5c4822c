---------------------------- MODULE RfHostProofs ----------------------------
(* Theorems about RfHost: for every number of callers, every length of the   *)
(* ring of causes and every radio that holds fewer things unread than the    *)
(* ring has places, the ring stays in order, no cause is lost, the task "rf" *)
(* does not sleep on one, and no confirmation is lost or doubled on its way  *)
(* to the callers.                                                           *)
EXTENDS RfHost, FunctionTheorems, FiniteSetTheorems, TLAPS

-----------------------------------------------------------------------------
(* The ring.                                                                 *)

LEMMA PlaceFinite ==
  ASSUME NEW q, NEW k
  PROVE  IsFiniteSet({i \in Place : q.cmd[i] = k}) /\ Count(q, k) \in Nat
<1>1. IsFiniteSet(Place)
  BY QueueAssumption, FS_Interval DEF Place
<1> QED
  BY <1>1, FS_Subset, FS_CardinalityType DEF Count

LEMMA EmptyInOrder ==
  /\ EmptyQueue \in Queue /\ InOrder(EmptyQueue) /\ Used(EmptyQueue) = 0
  /\ \A k \in Kind : Count(EmptyQueue, k) = 0
<1>1. EmptyQueue \in Queue /\ InOrder(EmptyQueue) /\ Used(EmptyQueue) = 0
  BY QueueAssumption DEF EmptyQueue, Queue, InOrder, Window, Used, Place
<1>2. ASSUME NEW k \in Kind PROVE {i \in Place : EmptyQueue.cmd[i] = k} = {}
  BY QueueAssumption DEF EmptyQueue
<1> QED
  BY <1>1, <1>2, FS_EmptySet DEF Count

\* A ring in order holds fewer causes than it has places.
LEMMA UsedBound ==
  ASSUME NEW q \in Queue
  PROVE  Used(q) \in 0..(QueueSize - 1)
  BY QueueAssumption DEF Queue, Used, Place

\* Push into a ring with room adds one cause behind the others.
LEMMA PushKeeps ==
  ASSUME NEW q \in Queue, InOrder(q), Used(q) + 1 < QueueSize, NEW k \in Kind
  PROVE  /\ Push(q, k) \in Queue /\ InOrder(Push(q, k))
         /\ Used(Push(q, k)) = Used(q) + 1
         /\ \A j \in Kind : Count(Push(q, k), j) = Count(q, j) + (IF j = k THEN 1 ELSE 0)
<1> DEFINE r == [q EXCEPT !.cmd[q.wp] = k, !.wp = After(q.wp)]
<1>1. q.rp \in Place /\ q.wp \in Place /\ q.cmd \in [Place -> Kind \cup {"none"}]
  BY DEF Queue
<1>2. q.wp \notin Window(q)
  BY <1>1 DEF Window, Place
<1>3. q.cmd[q.wp] = "none"
  BY <1>1, <1>2 DEF InOrder
<1>4. Push(q, k) = r
  BY <1>3 DEF Push
<1>5. After(q.wp) \in Place
  BY <1>1, QueueAssumption DEF After, Place
<1>6. r \in Queue /\ r.rp = q.rp /\ r.wp = After(q.wp)
      /\ r.cmd = [q.cmd EXCEPT ![q.wp] = k]
  BY <1>1, <1>5 DEF Queue
<1>7. Used(r) = Used(q) + 1
  BY <1>1, <1>6, QueueAssumption, SMTT(30) DEF Used, After, Place
<1>8. Window(r) = Window(q) \cup {q.wp}
  <2> HIDE DEF r
  <2>1. ASSUME NEW i \in Place
        PROVE  i \in Window(r) <=> i \in Window(q) \/ i = q.wp
    BY <1>1, <1>6, QueueAssumption DEF Window, Used, After, Place
  <2>2. Window(r) \subseteq Place /\ Window(q) \subseteq Place
    BY DEF Window
  <2> QED
    BY <1>1, <2>1, <2>2
<1>9. InOrder(r)
  BY <1>1, <1>2, <1>6, <1>8, QueueAssumption DEF InOrder
<1>10. ASSUME NEW j \in Kind
       PROVE  Count(r, j) = Count(q, j) + (IF j = k THEN 1 ELSE 0)
  <2> DEFINE Q == {i \in Place : q.cmd[i] = j}
             R == {i \in Place : r.cmd[i] = j}
  <2>1. q.wp \notin Q
    BY <1>3, QueueAssumption
  <2>2. IsFiniteSet(Q)
    BY PlaceFinite
  <2>3. CASE j = k
    <3>1. R = Q \cup {q.wp}
      BY <1>1, <1>6, <2>3
    <3> HIDE DEF Q, R
    <3>2. Cardinality(R) = Cardinality(Q) + 1
      BY <2>1, <2>2, <3>1, FS_AddElement
    <3> QED
      BY <2>3, <3>2 DEF Count, Q, R
  <2>4. CASE j # k
    <3>1. R = Q
      BY <1>1, <1>3, <1>6, <2>4, QueueAssumption
    <3>2. Count(r, j) = Count(q, j)
      BY <3>1 DEF Count
    <3>3. Count(q, j) \in Nat
      BY PlaceFinite
    <3> HIDE DEF r
    <3> QED
      BY <2>4, <3>2, <3>3
  <2> QED
    BY <2>3, <2>4
<1> QED
  BY <1>4, <1>6, <1>7, <1>9, <1>10

\* Pop takes the first cause away, and only that.
LEMMA PopKeeps ==
  ASSUME NEW q \in Queue, InOrder(q), Front(q) # "none"
  PROVE  /\ Pop(q) \in Queue /\ InOrder(Pop(q))
         /\ Used(Pop(q)) = Used(q) - 1
         /\ Front(q) \in Kind
         /\ Count(q, Front(q)) # 0
         /\ \A j \in Kind : Count(Pop(q), j) = Count(q, j) - (IF j = Front(q) THEN 1 ELSE 0)
<1> DEFINE n == IF q.rp <= q.wp THEN q.rp + 1 ELSE After(q.rp)
           r == [q EXCEPT !.cmd[q.rp] = "none", !.rp = n]
<1>1. q.rp \in Place /\ q.wp \in Place /\ q.cmd \in [Place -> Kind \cup {"none"}]
  BY DEF Queue
<1>2. q.rp \in Window(q) /\ Front(q) \in Kind
  BY <1>1 DEF InOrder, Front
<1>3. q.rp # q.wp
  BY <1>1, <1>2 DEF Window, Place
<1>4. n \in Place
  BY <1>1, <1>3, QueueAssumption DEF After, Place
<1>5. Pop(q) = r
  BY DEF Pop
<1>6. r \in Queue /\ r.rp = n /\ r.wp = q.wp /\ r.cmd = [q.cmd EXCEPT ![q.rp] = "none"]
  BY <1>1, <1>4 DEF Queue
<1>7. Used(r) = Used(q) - 1
  BY <1>1, <1>3, <1>6, QueueAssumption DEF Used, After, Place
<1>8. Window(r) = Window(q) \ {q.rp}
  BY <1>1, <1>3, <1>6, QueueAssumption DEF Window, After, Place
<1>9. InOrder(r)
  BY <1>1, <1>6, <1>8 DEF InOrder
<1>10. ASSUME NEW j \in Kind
       PROVE  /\ Count(r, j) = Count(q, j) - (IF j = Front(q) THEN 1 ELSE 0)
              /\ j = Front(q) => Count(q, j) # 0
  <2> DEFINE Q == {i \in Place : q.cmd[i] = j}
             R == {i \in Place : r.cmd[i] = j}
  <2>1. R = Q \ {q.rp}
    BY <1>1, <1>6, QueueAssumption
  <2>2. q.rp \in Q <=> j = Front(q)
    BY <1>1 DEF Front
  <2>3. IsFiniteSet(Q)
    BY PlaceFinite
  <2> HIDE DEF Q, R
  <2>4. /\ Cardinality(R) = IF j = Front(q) THEN Cardinality(Q) - 1 ELSE Cardinality(Q)
        /\ Cardinality(Q) \in Nat
        /\ Cardinality(Q) = 0 => Q = {}
    BY <2>1, <2>2, <2>3, FS_RemoveElement, FS_CardinalityType, FS_EmptySet
  <2>5. Cardinality(Q) = Count(q, j) /\ Cardinality(R) = Count(r, j)
    BY DEF Count, Q, R
  <2> QED
    BY <2>2, <2>4, <2>5
<1> QED
  BY <1>2, <1>5, <1>6, <1>7, <1>9, <1>10

\* 1 for a cause of the interrupt S, else 0.
One(S, k) == IF k \in S THEN 1 ELSE 0

LEMMA PushIfKeeps ==
  ASSUME NEW q \in Queue, InOrder(q), NEW S, NEW k \in Kind,
         Used(q) + One(S, k) < QueueSize
  PROVE  /\ PushIf(q, S, k) \in Queue /\ InOrder(PushIf(q, S, k))
         /\ Used(PushIf(q, S, k)) = Used(q) + One(S, k)
         /\ \A j \in Kind : Count(PushIf(q, S, k), j)
                              = Count(q, j) + (IF j = k THEN One(S, k) ELSE 0)
<1>1. Used(q) \in Nat
  BY UsedBound, QueueAssumption
<1>0. ASSUME NEW j \in Kind PROVE Count(q, j) \in Nat
  BY PlaceFinite
<1>2. CASE k \in S
  <2>1. PushIf(q, S, k) = Push(q, k) /\ One(S, k) = 1
    BY <1>2 DEF PushIf, One
  <2> QED
    BY <2>1, PushKeeps
<1>3. CASE k \notin S
  <2>1. PushIf(q, S, k) = q /\ One(S, k) = 0
    BY <1>3 DEF PushIf, One
  <2> QED
    BY <1>0, <1>1, <2>1
<1> QED
  BY <1>2, <1>3

\* The causes of one interrupt all find room, and each is queued once.
LEMMA PushAllKeeps ==
  ASSUME NEW q \in Queue, InOrder(q), NEW S \in SUBSET Kind,
         Used(q) + One(S, "event") + One(S, "tx") + One(S, "rx") + One(S, "wake")
           < QueueSize
  PROVE  /\ PushAll(q, S) \in Queue /\ InOrder(PushAll(q, S))
         /\ Used(PushAll(q, S)) = Used(q) + One(S, "event") + One(S, "tx")
                                   + One(S, "rx") + One(S, "wake")
         /\ \A j \in Kind : Count(PushAll(q, S), j) = Count(q, j) + One(S, j)
<1> DEFINE a == PushIf(q, S, "event")
           b == PushIf(a, S, "tx")
           c == PushIf(b, S, "rx")
           d == PushIf(c, S, "wake")
<1>1. Kind = {"event", "tx", "rx", "wake"}
  BY RadioAssumption
<1>2. Used(q) \in Nat /\ \A k : One(S, k) \in 0..1
  BY UsedBound, QueueAssumption DEF One
<1>3. PushAll(q, S) = d
  BY DEF PushAll
<1>4. /\ a \in Queue /\ InOrder(a)
      /\ Used(a) = Used(q) + One(S, "event")
      /\ \A j \in Kind : Count(a, j) = Count(q, j) + (IF j = "event" THEN One(S, j) ELSE 0)
  <2>1. Used(q) + One(S, "event") < QueueSize
    BY <1>2, QueueAssumption
  <2> QED
    BY <1>1, <2>1, PushIfKeeps
<1> HIDE DEF a
<1>5. /\ b \in Queue /\ InOrder(b)
      /\ Used(b) = Used(a) + One(S, "tx")
      /\ \A j \in Kind : Count(b, j) = Count(a, j) + (IF j = "tx" THEN One(S, j) ELSE 0)
  <2>1. Used(a) + One(S, "tx") < QueueSize
    BY <1>2, <1>4, QueueAssumption
  <2> QED
    BY <1>1, <1>4, <2>1, PushIfKeeps
<1> HIDE DEF b
<1>6. /\ c \in Queue /\ InOrder(c)
      /\ Used(c) = Used(b) + One(S, "rx")
      /\ \A j \in Kind : Count(c, j) = Count(b, j) + (IF j = "rx" THEN One(S, j) ELSE 0)
  <2>1. Used(b) + One(S, "rx") < QueueSize
    BY <1>2, <1>4, <1>5, QueueAssumption
  <2> QED
    BY <1>1, <1>5, <2>1, PushIfKeeps
<1> HIDE DEF c
<1>7. /\ d \in Queue /\ InOrder(d)
      /\ Used(d) = Used(c) + One(S, "wake")
      /\ \A j \in Kind : Count(d, j) = Count(c, j) + (IF j = "wake" THEN One(S, j) ELSE 0)
  <2>1. Used(c) + One(S, "wake") < QueueSize
    BY <1>2, <1>4, <1>5, <1>6, QueueAssumption
  <2> QED
    BY <1>1, <1>6, <2>1, PushIfKeeps
<1> HIDE DEF d
<1>8. ASSUME NEW j \in Kind PROVE Count(d, j) = Count(q, j) + One(S, j)
  <2>1. Count(q, j) \in Nat
    BY PlaceFinite
  <2> QED
    BY <1>1, <1>2, <1>4, <1>5, <1>6, <1>7, <2>1
<1> QED
  BY <1>3, <1>4, <1>5, <1>6, <1>7, <1>8

-----------------------------------------------------------------------------
(* The inductive invariant.                                                  *)

\* The radio holds no more than it has room for, and no more causes are queued
\* than it holds things unread: the ring has a place for what is still to come.
Room ==
  /\ \A k \in Kind : Waiting(k) \in Nat /\ Waiting(k) <= Slots[k]
  /\ Used(states) <= Waiting("event") + Waiting("tx") + Waiting("rx") + Waiting("wake")

\* The event that "rf" is sending is a caller's.
HeldIsConfirm == rf = "sending" => held \in Caller

IInv == /\ TypeOK
        /\ QueueInOrder
        /\ NothingStranded
        /\ NoMissedWakeup
        /\ Room
        /\ HeldIsConfirm

LEMMA InitIInv == Init => IInv
<1> SUFFICES ASSUME Init PROVE IInv
  OBVIOUS
<1> USE DEF Init
<1>1. Kind = {"event", "tx", "rx", "wake"} /\ Slots \in [Kind -> Nat]
  BY RadioAssumption
<1>2. \A k \in Kind : Waiting(k) = 0
  BY <1>1 DEF Waiting, OtherKind
<1>3. TypeOK
  <2>1. states \in Queue
    BY EmptyInOrder
  <2>2. /\ events \in Seq(Caller) /\ radioCmds \in Seq(Caller)
        /\ radioEvts \in Seq(Caller \cup {NoCaller})
    OBVIOUS
  <2>3. pc \in [Caller -> Pcs] /\ unread \in [OtherKind -> Nat]
    BY DEF Pcs
  <2> QED
    BY <2>1, <2>2, <2>3 DEF TypeOK
<1>4. QueueInOrder /\ NothingStranded
  BY <1>2, EmptyInOrder DEF QueueInOrder, NothingStranded
<1>5. NoMissedWakeup /\ HeldIsConfirm
  BY DEF NoMissedWakeup, HeldIsConfirm
<1>6. Room
  BY <1>1, <1>2, EmptyInOrder DEF Room
<1> QED
  BY <1>3, <1>4, <1>5, <1>6 DEF IInv

\* A step that leaves the ring and the radio's buffers alone.
LEMMA QuietStep ==
  ASSUME IInv, TypeOK', UNCHANGED <<states, radioEvts, unread>>,
         NoMissedWakeup', HeldIsConfirm'
  PROVE  IInv'
<1>1. \A k : Waiting(k)' = Waiting(k)
  BY DEF Waiting
<1>2. QueueInOrder' /\ NothingStranded'
  BY <1>1 DEF IInv, QueueInOrder, NothingStranded
<1>3. Room'
  BY <1>1 DEF IInv, Room
<1> QED
  BY <1>2, <1>3 DEF IInv
LEMMA InterruptStep == IInv /\ Interrupt => IInv'
<1> SUFFICES ASSUME IInv, Interrupt PROVE IInv'
  OBVIOUS
<1>1. PICK S \in SUBSET Kind :
        /\ \A k \in S : Waiting(k) < Slots[k]
        /\ ("event" \in S /\ Confirm) \/ Unasked(S)
        /\ unread' = [k \in OtherKind |-> IF k \in S THEN unread[k] + 1 ELSE unread[k]]
        /\ states' = PushAll(states, S)
        /\ notified' = TRUE
        /\ UNCHANGED <<rf, held, lock, events, pc, dropped, commands, fails>>
  BY DEF Interrupt
<1>2. /\ Kind = {"event", "tx", "rx", "wake"} /\ Slots \in [Kind -> Nat]
      /\ Slots["event"] + Slots["tx"] + Slots["rx"] + Slots["wake"] < QueueSize
      /\ QueueSize \in Nat
  BY RadioAssumption, QueueAssumption
<1>3. TypeOK /\ QueueInOrder /\ NothingStranded /\ Room /\ HeldIsConfirm
  BY DEF IInv
<1>4. \A k \in Kind :
        /\ Waiting(k) \in Nat /\ Waiting(k) <= Slots[k]
        /\ Slots[k] \in Nat /\ One(S, k) \in 0..1
        /\ k \in S => Waiting(k) < Slots[k]
  BY <1>1, <1>2, <1>3 DEF Room, One
<1>5. /\ radioCmds' \in Seq(Caller)
      /\ radioEvts' \in Seq(Caller \cup {NoCaller})
      /\ Len(radioEvts') = Len(radioEvts) + One(S, "event")
      /\ others' \in Nat
  <2>0. /\ radioCmds \in Seq(Caller) /\ radioEvts \in Seq(Caller \cup {NoCaller})
        /\ others \in Nat
    BY <1>3 DEF TypeOK
  <2>1. CASE "event" \in S /\ Confirm
    <3>1. radioCmds # <<>> /\ radioCmds' = Tail(radioCmds) /\ others' = others
          /\ radioEvts' = Append(radioEvts, Head(radioCmds))
      BY <2>1 DEF Confirm
    <3>2. Head(radioCmds) \in Caller /\ Tail(radioCmds) \in Seq(Caller)
      BY <2>0, <3>1
    <3> QED
      BY <2>0, <2>1, <3>1, <3>2 DEF One
  <2>2. CASE Unasked(S)
    BY <2>0, <2>2 DEF Unasked, One
  <2> QED
    BY <1>1, <2>1, <2>2
<1>6. \A k \in Kind : Waiting(k)' = Waiting(k) + One(S, k)
  <2>1. Waiting("event")' = Waiting("event") + One(S, "event")
    BY <1>5 DEF Waiting
  <2>2. ASSUME NEW k \in OtherKind PROVE Waiting(k)' = Waiting(k) + One(S, k)
    <3>1. k # "event" /\ unread[k] \in Nat
      BY <1>3, <2>2 DEF OtherKind, TypeOK
    <3> QED
      BY <1>1, <3>1 DEF Waiting, One
  <2> QED
    BY <2>1, <2>2 DEF OtherKind
<1>7. ASSUME NEW k \in Kind PROVE Waiting(k) + One(S, k) <= Slots[k]
  <2>1. /\ Waiting(k) \in Nat /\ Slots[k] \in Nat /\ Waiting(k) <= Slots[k]
        /\ k \in S => Waiting(k) < Slots[k]
    BY <1>4
  <2>2. One(S, k) = IF k \in S THEN 1 ELSE 0
    BY DEF One
  <2> QED
    BY <2>1, <2>2
<1>8. Used(states) \in Nat
       /\ Used(states) <= Waiting("event") + Waiting("tx") + Waiting("rx") + Waiting("wake")
  BY <1>2, <1>3, UsedBound DEF TypeOK, Room
<1>9. \A k \in {"event", "tx", "rx", "wake"} :
         /\ Waiting(k) \in Nat /\ One(S, k) \in Nat /\ Slots[k] \in Nat
         /\ Waiting(k) + One(S, k) <= Slots[k]
         /\ Waiting(k)' = Waiting(k) + One(S, k)
  BY <1>2, <1>4, <1>6, <1>7
<1>10. Used(states) + One(S, "event") + One(S, "tx") + One(S, "rx") + One(S, "wake")
        < QueueSize
  <2>1. Slots["event"] + Slots["tx"] + Slots["rx"] + Slots["wake"] < QueueSize
        /\ QueueSize \in Nat
    BY <1>2
  <2> QED
    BY <1>8, <1>9, <2>1
<1>11. /\ states' \in Queue /\ InOrder(states')
      /\ Used(states') = Used(states) + One(S, "event") + One(S, "tx")
                          + One(S, "rx") + One(S, "wake")
      /\ \A j \in Kind : Count(states', j) = Count(states, j) + One(S, j)
  BY <1>1, <1>3, <1>10, PushAllKeeps DEF TypeOK, QueueInOrder
<1>12. TypeOK'
  <2>1. unread' \in [OtherKind -> Nat]
    BY <1>1, <1>3 DEF TypeOK
  <2> QED
    BY <1>1, <1>3, <1>5, <1>11, <2>1 DEF TypeOK, lock
<1>13. QueueInOrder' /\ NothingStranded'
  BY <1>3, <1>6, <1>11 DEF QueueInOrder, NothingStranded
<1>14. Room'
  <2>1. \A k \in Kind : Waiting(k)' \in Nat /\ Waiting(k)' <= Slots[k]
    BY <1>2, <1>9
  <2>2. Used(states') = Used(states) + One(S, "event") + One(S, "tx")
                        + One(S, "rx") + One(S, "wake")
    BY <1>11
  <2>3. Used(states') <= Waiting("event")' + Waiting("tx")' + Waiting("rx")' + Waiting("wake")'
    BY <1>8, <1>9, <2>2
  <2> QED
    BY <2>1, <2>3 DEF Room
<1>15. NoMissedWakeup' /\ HeldIsConfirm'
  BY <1>1, <1>3 DEF NoMissedWakeup, HeldIsConfirm
<1> QED
  BY <1>12, <1>13, <1>14, <1>15 DEF IInv

\* A step of "rf" that takes cause k and what the radio holds of that kind.
LEMMA TakeStep ==
  ASSUME IInv, NEW k \in Kind, Front(states) = k, states' = Pop(states),
         Waiting(k)' = IF Waiting(k) = 0 THEN 0 ELSE Waiting(k) - 1,
         \A j \in Kind \ {k} : Waiting(j)' = Waiting(j)
  PROVE  states' \in Queue /\ QueueInOrder' /\ NothingStranded' /\ Room'
<1>1. TypeOK /\ QueueInOrder /\ NothingStranded /\ Room
  BY DEF IInv
<1>2. /\ Kind = {"event", "tx", "rx", "wake"} /\ Slots \in [Kind -> Nat]
      /\ k # "none"
  BY RadioAssumption, QueueAssumption
<1>3. /\ states' \in Queue /\ InOrder(states')
      /\ Used(states') = Used(states) - 1
      /\ Count(states, k) # 0
      /\ \A j \in Kind : Count(states', j) = Count(states, j) - (IF j = k THEN 1 ELSE 0)
  BY <1>1, <1>2, PopKeeps DEF TypeOK, QueueInOrder
<1>4. \A j \in Kind :
        /\ Waiting(j) \in Nat /\ Waiting(j) <= Slots[j] /\ Slots[j] \in Nat
        /\ Waiting(j) = Count(states, j)
  BY <1>1, <1>2 DEF Room, NothingStranded
<1>5. \A j \in Kind : Waiting(j)' = Waiting(j) - (IF j = k THEN 1 ELSE 0)
  BY <1>3, <1>4
<1>6. QueueInOrder' /\ NothingStranded'
  BY <1>3, <1>4, <1>5 DEF QueueInOrder, NothingStranded
<1>7. \A j \in Kind : Waiting(j)' \in Nat /\ Waiting(j)' <= Slots[j]
  BY <1>3, <1>4, <1>5
<1>8. Used(states) \in Nat
  BY <1>1, UsedBound, QueueAssumption DEF TypeOK
<1>9. Used(states') <= Waiting("event")' + Waiting("tx")' + Waiting("rx")' + Waiting("wake")'
  BY <1>1, <1>2, <1>3, <1>4, <1>5, <1>8 DEF Room
<1> QED
  BY <1>3, <1>6, <1>7, <1>9 DEF Room
LEMMA HandleEventStep == IInv /\ HandleEvent => IInv'
<1> SUFFICES ASSUME IInv, HandleEvent PROVE IInv'
  OBVIOUS
<1>1. TypeOK /\ HeldIsConfirm
  BY DEF IInv
<1>2. /\ Kind = {"event", "tx", "rx", "wake"}
      /\ events \in Seq(Caller) /\ radioEvts \in Seq(Caller \cup {NoCaller})
      /\ UNCHANGED unread
  BY <1>1, RadioAssumption DEF TypeOK, HandleEvent
<1>3. radioEvts' = IF radioEvts = <<>> THEN <<>> ELSE Tail(radioEvts)
  BY DEF HandleEvent
<1>4. /\ radioEvts' \in Seq(Caller \cup {NoCaller})
      /\ Len(radioEvts') = IF Len(radioEvts) = 0 THEN 0 ELSE Len(radioEvts) - 1
      /\ radioEvts # <<>> => Head(radioEvts) \in Caller \cup {NoCaller}
  BY <1>2, <1>3
<1>5. /\ Waiting("event")' = IF Waiting("event") = 0 THEN 0 ELSE Waiting("event") - 1
      /\ \A j \in Kind \ {"event"} : Waiting(j)' = Waiting(j)
  BY <1>2, <1>4 DEF Waiting
<1>6. states' \in Queue /\ QueueInOrder' /\ NothingStranded' /\ Room'
  BY <1>2, <1>5, TakeStep DEF HandleEvent
<1>7. take' \in Caller \cup {NoCaller} /\ sem' \in BOOLEAN
  BY <1>1 DEF HandleEvent, FreeLock, TypeOK, lock
<1>8. /\ events' \in Seq(Caller)
      /\ \/ rf' = "ready" /\ held' = held
         \/ rf' = "sending" /\ held' \in Caller
      /\ dropped' \in Nat
  <2>1. rf = "ready" /\ dropped \in Nat
    BY <1>1 DEF HandleEvent, TypeOK
  <2>2. CASE UNCHANGED <<rf, held, events>> /\ dropped' \in {dropped, dropped + 1}
    BY <1>2, <2>1, <2>2
  <2>3. CASE /\ radioEvts # <<>> /\ Head(radioEvts) # NoCaller
             /\ Deliver(Head(radioEvts)) /\ UNCHANGED dropped
    <3>1. Head(radioEvts) \in Caller
      BY <1>4, <2>3
    <3>2. CASE events' = Append(events, Head(radioEvts)) /\ UNCHANGED <<rf, held>>
      BY <1>2, <2>1, <2>3, <3>1, <3>2
    <3>3. CASE rf' = "sending" /\ held' = Head(radioEvts) /\ UNCHANGED events
      BY <1>2, <2>1, <2>3, <3>1, <3>3
    <3> QED
      BY <2>3, <3>2, <3>3 DEF Deliver
  <2> QED
    BY <2>2, <2>3 DEF HandleEvent
<1>9. TypeOK'
  BY <1>1, <1>4, <1>6, <1>7, <1>8 DEF TypeOK, HandleEvent, bounds
<1>10. NoMissedWakeup' /\ HeldIsConfirm'
  BY <1>8 DEF NoMissedWakeup, HeldIsConfirm
<1> QED
  BY <1>6, <1>9, <1>10 DEF IInv

LEMMA HandleOtherStep == IInv /\ HandleOther => IInv'
<1> SUFFICES ASSUME IInv, HandleOther PROVE IInv'
  OBVIOUS
<1>1. TypeOK /\ HeldIsConfirm
  BY DEF IInv
<1>0. PICK k \in OtherKind : Front(states) = k
  BY DEF HandleOther
<1>2. k \in OtherKind /\ k \in Kind /\ k # "event"
  BY DEF OtherKind
<1>3. /\ unread \in [OtherKind -> Nat]
      /\ unread' = [unread EXCEPT ![k] = IF @ = 0 THEN 0 ELSE @ - 1]
      /\ UNCHANGED radioEvts
  BY <1>0, <1>1 DEF HandleOther, TypeOK
<1>4. unread' \in [OtherKind -> Nat]
  BY <1>2, <1>3
<1>5. /\ Waiting(k)' = IF Waiting(k) = 0 THEN 0 ELSE Waiting(k) - 1
      /\ \A j \in Kind \ {k} : Waiting(j)' = Waiting(j)
  BY <1>2, <1>3 DEF Waiting, OtherKind
<1>6. states' \in Queue /\ QueueInOrder' /\ NothingStranded' /\ Room'
  <2>1. states' = Pop(states)
    BY DEF HandleOther
  <2> QED
    BY <1>0, <1>2, <1>5, <2>1, TakeStep
<1>7. TypeOK'
  BY <1>1, <1>4, <1>6 DEF TypeOK, HandleOther, lock, bounds
<1>8. NoMissedWakeup' /\ HeldIsConfirm'
  BY DEF NoMissedWakeup, HeldIsConfirm, HandleOther
<1> QED
  BY <1>6, <1>7, <1>8 DEF IInv

\* The steps that do not touch the ring: "rf" sleeps, wakes or sends, and the
\* callers run.
LEMMA OtherRfStep == IInv /\ (Wake \/ Sleep \/ SendHeld) => IInv'
<1> SUFFICES ASSUME IInv, Wake \/ Sleep \/ SendHeld PROVE IInv'
  OBVIOUS
<1>1. TypeOK /\ NoMissedWakeup /\ HeldIsConfirm
  BY DEF IInv
<1>2. CASE Wake
  <2>1. TypeOK' /\ UNCHANGED <<states, radioEvts, unread>>
    BY <1>1, <1>2 DEF Wake, TypeOK, lock, radio, bounds
  <2>2. NoMissedWakeup' /\ HeldIsConfirm'
    BY <1>2 DEF Wake, NoMissedWakeup, HeldIsConfirm
  <2> QED
    BY <2>1, <2>2, QuietStep
<1>3. CASE Sleep
  <2>1. states' = states
    BY <1>3 DEF Sleep, Pop
  <2>2. TypeOK' /\ UNCHANGED <<states, radioEvts, unread>>
    BY <1>1, <1>3, <2>1 DEF Sleep, TypeOK, lock, radio, bounds
  <2>3. NoMissedWakeup' /\ HeldIsConfirm'
    BY <1>3, <2>1 DEF Sleep, NoMissedWakeup, HeldIsConfirm
  <2> QED
    BY <2>2, <2>3, QuietStep
<1>4. CASE SendHeld
  <2>1. held \in Caller /\ events' = Append(events, held) /\ held' = NoCaller
    BY <1>1, <1>4 DEF SendHeld, HeldIsConfirm
  <2>2. events' \in Seq(Caller)
    BY <1>1, <2>1 DEF TypeOK
  <2>3. TypeOK' /\ UNCHANGED <<states, radioEvts, unread>>
    BY <1>1, <1>4, <2>1, <2>2 DEF SendHeld, TypeOK, lock, radio, bounds
  <2>4. NoMissedWakeup' /\ HeldIsConfirm'
    BY <1>4 DEF SendHeld, NoMissedWakeup, HeldIsConfirm
  <2> QED
    BY <2>3, <2>4, QuietStep
<1> QED
  BY <1>2, <1>3, <1>4

LEMMA CallerStep ==
  ASSUME IInv, NEW c \in Caller, Begin(c) \/ Command(c) PROVE IInv'
<1>1. TypeOK /\ NoMissedWakeup /\ HeldIsConfirm
  BY DEF IInv
<1>2. UNCHANGED <<host, radioEvts, unread>>
  BY DEF Begin, Command, Check, Take, Claim, Send, Give, Clear, ReadEvent, host, radio
<1>3. pc' \in [Caller -> Pcs]
  BY <1>1 DEF TypeOK, Pcs, GoTo, Begin, Command, Check, Take, Claim, Send, Give,
     Clear, ReadEvent
<1>4. /\ take' \in Caller \cup {NoCaller} /\ sem' \in BOOLEAN
      /\ dropped' \in Nat /\ commands' \in Nat /\ fails' \in Nat /\ others' \in Nat
  <2>1. take' \in Caller \cup {NoCaller} /\ sem' \in BOOLEAN
    BY <1>1 DEF TypeOK, Begin, Command, Check, Take, Claim, Send, Give, Clear,
       ReadEvent, lock
  <2>2. /\ dropped' = dropped /\ others' = others
        /\ commands' \in {commands, commands + 1} /\ fails' \in {fails, fails + 1}
    BY DEF Begin, Command, Check, Take, Claim, Send, Give, Clear, ReadEvent, bounds
  <2> QED
    BY <1>1, <2>1, <2>2 DEF TypeOK
<1>5. events' \in Seq(Caller) /\ radioCmds' \in Seq(Caller)
  <2>1. events \in Seq(Caller) /\ radioCmds \in Seq(Caller)
    BY <1>1 DEF TypeOK
  <2>2. \/ events' = events
        \/ events # <<>> /\ events' = Tail(events)
    BY DEF Begin, Command, Check, Take, Claim, Send, Give, Clear, ReadEvent
  <2>3. radioCmds' = radioCmds \/ radioCmds' = Append(radioCmds, c)
    BY DEF Begin, Command, Check, Take, Claim, Send, Give, Clear, ReadEvent, radio
  <2>4. events' \in Seq(Caller)
    BY <2>1, <2>2
  <2>5. radioCmds' \in Seq(Caller)
    BY <2>1, <2>3
  <2> QED
    BY <2>4, <2>5
<1>6. TypeOK'
  BY <1>1, <1>2, <1>3, <1>4, <1>5 DEF TypeOK, host
<1>7. NoMissedWakeup' /\ HeldIsConfirm'
  BY <1>1, <1>2 DEF host, NoMissedWakeup, HeldIsConfirm
<1> QED
  BY <1>2, <1>6, <1>7, QuietStep DEF host

LEMMA InvariantStep == IInv /\ [Next]_vars => IInv'
<1> SUFFICES ASSUME IInv, [Next]_vars PROVE IInv'
  OBVIOUS
<1>1. CASE Interrupt
  BY <1>1, InterruptStep
<1>2. CASE Rf
  BY <1>2, HandleEventStep, HandleOtherStep, OtherRfStep DEF Rf
<1>3. CASE \E c \in Caller : Begin(c) \/ Command(c)
  BY <1>3, CallerStep
<1>4. CASE UNCHANGED vars
  <2>1. TypeOK'
    BY <1>4 DEF IInv, TypeOK, vars, host, lock, radio, bounds
  <2>2. NoMissedWakeup' /\ HeldIsConfirm'
    BY <1>4 DEF IInv, NoMissedWakeup, HeldIsConfirm, vars, host
  <2> QED
    BY <1>4, <2>1, <2>2, QuietStep DEF vars, host, radio
<1> QED
  BY <1>1, <1>2, <1>3, <1>4 DEF Next

LEMMA Invariance == Spec => []IInv
<1> QED
  BY InitIInv, InvariantStep, PTL DEF Spec

-----------------------------------------------------------------------------
(* The confirmations on their way from the radio to the callers.             *)

\* Those of the radio's events that confirm a command.
Confirms(s) == {i \in DOMAIN s : s[i] # NoCaller}

LEMMA ConfirmsFinite ==
  ASSUME NEW s \in Seq(Caller \cup {NoCaller})
  PROVE  IsFiniteSet(Confirms(s)) /\ Cardinality(Confirms(s)) \in Nat
<1>1. Len(s) \in Nat /\ DOMAIN s = 1..Len(s)
  OBVIOUS
<1>2. IsFiniteSet(1..Len(s)) /\ Confirms(s) \subseteq 1..Len(s)
  BY <1>1, FS_Interval DEF Confirms
<1> QED
  BY <1>2, FS_Subset, FS_CardinalityType

\* The radio's next event is behind the others.
LEMMA ConfirmsAppend ==
  ASSUME NEW s \in Seq(Caller \cup {NoCaller}), NEW e \in Caller \cup {NoCaller}
  PROVE  Cardinality(Confirms(Append(s, e)))
           = Cardinality(Confirms(s)) + (IF e = NoCaller THEN 0 ELSE 1)
<1> DEFINE n == Len(s) + 1
           t == Append(s, e)
<1>1. /\ Len(s) \in Nat /\ DOMAIN s = 1..Len(s)
      /\ DOMAIN t = 1..n /\ \A i \in 1..Len(s) : t[i] = s[i]
      /\ t[n] = e
  OBVIOUS
<1>2. IsFiniteSet(Confirms(s)) /\ Cardinality(Confirms(s)) \in Nat
  BY ConfirmsFinite
<1>7. n \notin Confirms(s)
  BY <1>1 DEF Confirms
<1>3. 1..n = 1..Len(s) \cup {n}
  BY <1>1
<1> HIDE DEF n, t
<1>4. Confirms(t) = IF e = NoCaller THEN Confirms(s) ELSE Confirms(s) \cup {n}
  BY <1>1, <1>3 DEF Confirms
<1>5. CASE e = NoCaller
  BY <1>2, <1>4, <1>5 DEF t
<1>6. CASE e # NoCaller
  <2>1. Cardinality(Confirms(s) \cup {n}) = Cardinality(Confirms(s)) + 1
    BY <1>2, <1>7, FS_AddElement
  <2> QED
    BY <1>4, <1>6, <2>1 DEF t
<1> QED
  BY <1>5, <1>6

\* Reading the first event shifts the others.
LEMMA ConfirmsTail ==
  ASSUME NEW s \in Seq(Caller \cup {NoCaller}), s # <<>>
  PROVE  Cardinality(Confirms(s))
           = Cardinality(Confirms(Tail(s))) + (IF Head(s) = NoCaller THEN 0 ELSE 1)
<1> DEFINE t == Tail(s)
           A == Confirms(s) \ {1}
           B == Confirms(t)
           f == [i \in B |-> i + 1]
<1>1. /\ Len(s) \in Nat \ {0} /\ DOMAIN s = 1..Len(s)
      /\ DOMAIN t = 1..(Len(s) - 1) /\ \A i \in 1..(Len(s) - 1) : t[i] = s[i + 1]
      /\ t \in Seq(Caller \cup {NoCaller})
      /\ Head(s) = s[1]
  OBVIOUS
<1>2. IsFiniteSet(Confirms(s)) /\ Cardinality(Confirms(s)) \in Nat
      /\ IsFiniteSet(B) /\ Cardinality(B) \in Nat
  BY <1>1, ConfirmsFinite
<1>3. f \in Bijection(B, A)
  <2>1. \A i \in B : i + 1 \in A
    BY <1>1 DEF Confirms
  <2>2. \A i, j \in B : i + 1 = j + 1 => i = j
    BY <1>1 DEF Confirms
  <2>3. \A j \in A : j - 1 \in B /\ (j - 1) + 1 = j
    BY <1>1 DEF Confirms
  <2> HIDE DEF A, B
  <2>4. f \in [B -> A]
    BY <2>1
  <2>5. \A i, j \in B : f[i] = f[j] => i = j
    BY <2>2
  <2>6. \A j \in A : \E i \in B : f[i] = j
    BY <2>3
  <2> QED
    BY <2>4, <2>5, <2>6, Fun_IsBij
<1>5. Cardinality(A) = Cardinality(B)
  <2> HIDE DEF A, B, f
  <2>1. ExistsBijection(B, A)
    BY <1>3 DEF ExistsBijection
  <2> QED
    BY <1>2, <2>1, FS_Bijection
<1>6. 1 \in Confirms(s) <=> Head(s) # NoCaller
  BY <1>1 DEF Confirms
<1>7. Cardinality(A) = IF Head(s) = NoCaller THEN Cardinality(Confirms(s))
                       ELSE Cardinality(Confirms(s)) - 1
  BY <1>2, <1>6, FS_RemoveElement
<1> HIDE DEF A, B, f, t
<1>8. Cardinality(B) = Cardinality(Confirms(Tail(s)))
  BY DEF B, t
<1> DEFINE y == Cardinality(Confirms(s))
           z == Cardinality(Confirms(Tail(s)))
           h == Head(s)
<1>9. y \in Nat /\ z \in Nat /\ z = IF h = NoCaller THEN y ELSE y - 1
  BY <1>2, <1>5, <1>7, <1>8
<1> HIDE DEF y, z, h
<1>10. y = z + (IF h = NoCaller THEN 0 ELSE 1)
  BY <1>9
<1> QED
  BY <1>10 DEF y, z, h

\* As many callers wait as there are confirmations, and they are finitely many.
Conserved == IsFiniteSet(Readers) /\ ConfirmsConserved

Sending == IF rf = "sending" THEN 1 ELSE 0

LEMMA InitConserved == Init => Conserved
<1> SUFFICES ASSUME Init PROVE Conserved
  OBVIOUS
<1>1. Readers = {} /\ Confirming = {}
  BY DEF Init, Readers, Confirming
<1>2. Cardinality(Readers) = 0 /\ Cardinality(Confirming) = 0 /\ IsFiniteSet(Readers)
  BY <1>1, FS_EmptySet
<1>3. /\ Len(radioCmds) = 0 /\ Len(events) = 0 /\ dropped = 0 /\ rf # "sending"
  BY DEF Init
<1> QED
  BY <1>2, <1>3 DEF Conserved, ConfirmsConserved

\* What is under way are numbers.
LEMMA FlowNumbers ==
  ASSUME IInv, Conserved
  PROVE  /\ Cardinality(Readers) \in Nat /\ Cardinality(Confirming) \in Nat
         /\ Len(radioCmds) \in Nat /\ Len(events) \in Nat /\ dropped \in Nat
         /\ Sending \in Nat
         /\ Cardinality(Readers) = Len(radioCmds) + Cardinality(Confirming) + Len(events)
                                   + Sending + dropped
         /\ Confirming = Confirms(radioEvts)
         /\ radioEvts \in Seq(Caller \cup {NoCaller}) /\ radioCmds \in Seq(Caller)
         /\ events \in Seq(Caller)
<1>1. /\ radioEvts \in Seq(Caller \cup {NoCaller}) /\ radioCmds \in Seq(Caller)
      /\ events \in Seq(Caller) /\ dropped \in Nat
  BY DEF IInv, TypeOK
<1>2. Len(radioCmds) \in Nat /\ Len(events) \in Nat
  BY <1>1
<1>3. Confirming = Confirms(radioEvts)
  BY DEF Confirming, Confirms
<1>4. Cardinality(Confirming) \in Nat
  BY <1>1, <1>3, ConfirmsFinite
<1>5. Cardinality(Readers) \in Nat
  BY FS_CardinalityType DEF Conserved
<1>6. Sending \in Nat
  BY DEF Sending
<1>7. Cardinality(Readers) = Len(radioCmds) + Cardinality(Confirming) + Len(events)
                                   + Sending + dropped
  BY DEF Conserved, ConfirmsConserved, Sending
<1> QED
  BY <1>1, <1>2, <1>3, <1>4, <1>5, <1>6, <1>7

\* The interrupt carries a confirmation from the commands to the events.
LEMMA InterruptConserves == IInv /\ Conserved /\ Interrupt => Conserved'
<1> SUFFICES ASSUME IInv, Conserved, Interrupt PROVE Conserved'
  OBVIOUS
<1>1. UNCHANGED <<rf, events, pc, dropped>> /\ (Confirm \/ \E S \in SUBSET Kind : Unasked(S))
  BY DEF Interrupt
<1>2. /\ Cardinality(Confirming) \in Nat /\ Len(radioCmds) \in Nat
      /\ Confirming = Confirms(radioEvts) /\ Confirming' = Confirms(radioEvts')
      /\ radioEvts \in Seq(Caller \cup {NoCaller}) /\ radioCmds \in Seq(Caller)
  BY FlowNumbers DEF Confirming, Confirms
<1>3. Readers' = Readers
  BY <1>1 DEF Readers
<1>4. Len(radioCmds') + Cardinality(Confirming') = Len(radioCmds) + Cardinality(Confirming)
  <2>1. CASE Confirm
    <3>1. /\ radioCmds # <<>> /\ radioCmds' = Tail(radioCmds)
          /\ radioEvts' = Append(radioEvts, Head(radioCmds))
      BY <2>1 DEF Confirm
    <3>2. /\ Head(radioCmds) \in Caller /\ Head(radioCmds) # NoCaller
          /\ Len(radioCmds') = Len(radioCmds) - 1
      BY <1>2, <3>1, RadioAssumption
    <3>3. Cardinality(Confirming') = Cardinality(Confirming) + 1
      BY <1>2, <3>1, <3>2, ConfirmsAppend
    <3> QED
      BY <1>2, <3>2, <3>3
  <2>2. ASSUME NEW S \in SUBSET Kind, Unasked(S)
        PROVE  Len(radioCmds') + Cardinality(Confirming') = Len(radioCmds) + Cardinality(Confirming)
    <3>1. /\ radioCmds' = radioCmds
          /\ radioEvts' = radioEvts \/ radioEvts' = Append(radioEvts, NoCaller)
      BY <2>2 DEF Unasked
    <3>2. Cardinality(Confirms(Append(radioEvts, NoCaller))) = Cardinality(Confirming)
      BY <1>2, ConfirmsAppend
    <3> QED
      BY <1>2, <3>1, <3>2
  <2> QED
    BY <1>1, <2>1, <2>2
<1>5. Len(radioCmds') \in Nat /\ Cardinality(Confirming') \in Nat
  <2>1. TypeOK'
    BY InterruptStep DEF IInv
  <2>2. radioCmds' \in Seq(Caller) /\ radioEvts' \in Seq(Caller \cup {NoCaller})
    BY <2>1 DEF TypeOK
  <2> QED
    BY <1>2, <2>2, ConfirmsFinite
<1>6. Cardinality(Readers) = Len(radioCmds) + Cardinality(Confirming) + Len(events)
                             + Sending + dropped
      /\ Len(events) \in Nat /\ Sending \in Nat /\ dropped \in Nat
  BY FlowNumbers
<1>7. Cardinality(Readers) = Len(radioCmds') + Cardinality(Confirming') + Len(events)
                             + Sending + dropped
  BY <1>2, <1>4, <1>5, <1>6
<1> QED
  BY <1>1, <1>3, <1>7 DEF Conserved, ConfirmsConserved, Sending

\* "rf" takes an event, and passes it on, keeps it or drops it.
LEMMA HandleEventConserves == IInv /\ Conserved /\ HandleEvent => Conserved'
<1> SUFFICES ASSUME IInv, Conserved, HandleEvent PROVE Conserved'
  OBVIOUS
<1>1. /\ rf = "ready" /\ UNCHANGED <<pc, radioCmds>>
      /\ radioEvts' = IF radioEvts = <<>> THEN <<>> ELSE Tail(radioEvts)
  BY DEF HandleEvent
<1>2. Readers' = Readers
  BY <1>1 DEF Readers
<1>3. /\ Cardinality(Confirming) \in Nat /\ Len(radioCmds) \in Nat /\ Len(events) \in Nat
      /\ Confirming = Confirms(radioEvts) /\ Confirming' = Confirms(radioEvts')
      /\ radioEvts \in Seq(Caller \cup {NoCaller}) /\ events \in Seq(Caller)
      /\ dropped \in Nat
  BY FlowNumbers DEF Confirming, Confirms
<1>4. Cardinality(Confirming') \in Nat
  <2>1. radioEvts' \in Seq(Caller \cup {NoCaller})
    BY <1>1, <1>3
  <2> QED
    BY <1>3, <2>1, ConfirmsFinite
<1>5. Cardinality(Confirming') + Len(events') + Sending' + dropped'
        = Cardinality(Confirming) + Len(events) + Sending + dropped
  <2>1. ASSUME radioEvts = <<>> \/ Head(radioEvts) = NoCaller, UNCHANGED <<rf, events, dropped>>
        PROVE  Cardinality(Confirming') = Cardinality(Confirming) /\ Sending' = Sending
    <3>1. Sending' = Sending
      BY <2>1 DEF Sending
    <3>2. CASE radioEvts = <<>>
      BY <1>1, <1>3, <3>1, <3>2
    <3>3. CASE radioEvts # <<>>
      BY <1>1, <1>3, <1>4, <2>1, <3>1, <3>3, ConfirmsTail
    <3> QED
      BY <3>2, <3>3
  <2>2. ASSUME radioEvts # <<>>, Head(radioEvts) # NoCaller
        PROVE  Cardinality(Confirming) = Cardinality(Confirming') + 1
    BY <1>1, <1>3, <1>4, <2>2, ConfirmsTail
  <2>3. Sending = 0
    BY <1>1 DEF Sending
  <2>4. ASSUME Deliver(Head(radioEvts)), radioEvts # <<>>, Head(radioEvts) # NoCaller
        PROVE  Len(events') + Sending' = Len(events) + 1
    <3>1. Head(radioEvts) \in Caller
      BY <1>3, <2>4
    <3>2. CASE /\ events' = Append(events, Head(radioEvts)) /\ UNCHANGED <<rf, held>>
      BY <1>1, <1>3, <3>1, <3>2 DEF Sending
    <3>3. CASE rf' = "sending" /\ UNCHANGED events
      BY <1>3, <3>3 DEF Sending
    <3> QED
      BY <2>4, <3>2, <3>3 DEF Deliver
  <2>5. Len(events') \in Nat /\ Sending' \in Nat /\ dropped' \in Nat
    <3>1. TypeOK'
      BY HandleEventStep DEF IInv
    <3> QED
      BY <3>1 DEF TypeOK, Sending
  <2>6. CASE /\ radioEvts = <<>> \/ Head(radioEvts) = NoCaller
             /\ UNCHANGED <<rf, held, events, dropped>>
    BY <1>3, <1>4, <2>1, <2>3, <2>6
  <2>9. /\ Cardinality(Confirming) \in Nat /\ Cardinality(Confirming') \in Nat
        /\ Len(events) \in Nat /\ dropped \in Nat
    BY <1>3, <1>4
  <2>7. CASE /\ radioEvts # <<>> /\ Head(radioEvts) # NoCaller
             /\ Deliver(Head(radioEvts)) /\ UNCHANGED dropped
    <3>1. Cardinality(Confirming) = Cardinality(Confirming') + 1
      BY <2>2, <2>7
    <3>2. Len(events') + Sending' = Len(events) + 1 /\ dropped' = dropped
      BY <2>4, <2>7
    <3> QED
      BY <2>3, <2>5, <2>9, <3>1, <3>2
  <2>8. CASE /\ radioEvts # <<>> /\ Head(radioEvts) # NoCaller
             /\ dropped' = dropped + 1 /\ UNCHANGED <<rf, held, events>>
    <3>1. Sending' = Sending /\ Len(events') = Len(events) /\ dropped' = dropped + 1
      BY <2>8 DEF Sending
    <3>2. Cardinality(Confirming) = Cardinality(Confirming') + 1
      BY <2>2, <2>8
    <3> QED
      BY <2>3, <2>9, <3>1, <3>2
  <2> QED
    BY <2>6, <2>7, <2>8 DEF HandleEvent
<1>6. Cardinality(Readers) = Len(radioCmds) + Cardinality(Confirming) + Len(events)
                             + Sending + dropped
      /\ Sending \in Nat
  BY FlowNumbers
<1>7. Len(events') \in Nat /\ Sending' \in Nat /\ dropped' \in Nat
  <2>1. TypeOK'
    BY HandleEventStep DEF IInv
  <2> QED
    BY <2>1 DEF TypeOK, Sending
<1>8. Cardinality(Readers) = Len(radioCmds) + Cardinality(Confirming') + Len(events')
                             + Sending' + dropped'
  <2>1. /\ Cardinality(Confirming) \in Nat /\ Cardinality(Confirming') \in Nat
        /\ Len(events) \in Nat /\ dropped \in Nat /\ Len(radioCmds) \in Nat
    BY <1>3, <1>4
  <2>2. Cardinality(Readers) = Len(radioCmds) + (Cardinality(Confirming) + Len(events)
                                                 + Sending + dropped)
    BY <1>6, <2>1
  <2>3. Cardinality(Readers) = Len(radioCmds) + (Cardinality(Confirming') + Len(events')
                                                 + Sending' + dropped')
    BY <1>5, <2>2
  <2> QED
    BY <1>7, <2>1, <2>3
<1> QED
  BY <1>1, <1>2, <1>8 DEF Conserved, ConfirmsConserved, Sending

LEMMA RfConserves == IInv /\ Conserved /\ Rf => Conserved'
<1> SUFFICES ASSUME IInv, Conserved, Rf PROVE Conserved'
  OBVIOUS
<1>1. CASE HandleEvent
  BY <1>1, HandleEventConserves
<1>2. CASE SendHeld
  <2>1. /\ rf = "sending" /\ rf' = "ready" /\ events' = Append(events, held)
        /\ UNCHANGED <<pc, radioCmds, radioEvts, dropped>>
    BY <1>2 DEF SendHeld, radio
  <2>2. Readers' = Readers /\ Confirming' = Confirming
    BY <2>1 DEF Readers, Confirming
  <2>3. held \in Caller
    BY <2>1 DEF IInv, HeldIsConfirm
  <2>4. /\ Cardinality(Readers) = Len(radioCmds) + Cardinality(Confirming) + Len(events)
                                  + 1 + dropped
        /\ events \in Seq(Caller) /\ Len(events) \in Nat /\ dropped \in Nat
        /\ Len(radioCmds) \in Nat /\ Cardinality(Confirming) \in Nat
    BY <2>1, FlowNumbers DEF Sending
  <2>5. Len(events') = Len(events) + 1
    BY <2>1, <2>3, <2>4
  <2>6. Cardinality(Readers) = Len(radioCmds) + Cardinality(Confirming) + Len(events')
                               + 0 + dropped
    BY <2>4, <2>5
  <2> QED
    BY <2>1, <2>2, <2>6 DEF Conserved, ConfirmsConserved
<1>3. CASE Wake \/ Sleep \/ HandleOther
  <2>1. /\ UNCHANGED <<events, pc, radioCmds, radioEvts, dropped>>
        /\ rf # "sending" /\ rf' # "sending"
    BY <1>3 DEF Wake, Sleep, HandleOther, radio
  <2>2. Readers' = Readers /\ Confirming' = Confirming
    BY <2>1 DEF Readers, Confirming
  <2> QED
    BY <2>1, <2>2 DEF Conserved, ConfirmsConserved
<1> QED
  BY <1>1, <1>2, <1>3 DEF Rf

\* A caller begins to wait with the command it sends, and ends with an event.
LEMMA CallerConserves ==
  ASSUME IInv, Conserved, NEW c \in Caller, Begin(c) \/ Command(c)
  PROVE  Conserved'
<1>1. UNCHANGED <<rf, radioEvts, dropped>> /\ pc \in [Caller -> Pcs]
  BY DEF Begin, Command, Check, Take, Claim, Send, Give, Clear, ReadEvent, host, radio,
     IInv, TypeOK
<1>2. Confirming' = Confirming /\ Sending' = Sending
  BY <1>1 DEF Confirming, Sending
<1>3. /\ Cardinality(Readers) \in Nat /\ Cardinality(Confirming) \in Nat
      /\ Len(radioCmds) \in Nat /\ Len(events) \in Nat /\ dropped \in Nat
      /\ Sending \in Nat
      /\ Cardinality(Readers) = Len(radioCmds) + Cardinality(Confirming) + Len(events)
                                + Sending + dropped
      /\ radioCmds \in Seq(Caller) /\ events \in Seq(Caller)
  BY FlowNumbers
<1>4. IsFiniteSet(Readers)
  BY DEF Conserved
<1>5. CASE pc[c] = "send" /\ radioCmds' = Append(radioCmds, c) /\ GoTo(c, "read")
           /\ UNCHANGED events
  <2>1. Readers' = Readers \cup {c} /\ c \notin Readers
    BY <1>1, <1>5 DEF Readers, GoTo
  <2>2. IsFiniteSet(Readers') /\ Cardinality(Readers') = Cardinality(Readers) + 1
    BY <1>4, <2>1, FS_AddElement
  <2>3. Len(radioCmds') = Len(radioCmds) + 1
    BY <1>3, <1>5
  <2>4. Cardinality(Readers') = Len(radioCmds') + Cardinality(Confirming) + Len(events)
                                + Sending + dropped
    BY <1>3, <2>2, <2>3
  <2> QED
    BY <1>1, <1>2, <1>5, <2>2, <2>4 DEF Conserved, ConfirmsConserved, Sending
<1>6. CASE ReadEvent(c)
  <2>1. /\ pc[c] = "read" /\ events # <<>> /\ events' = Tail(events) /\ GoTo(c, "idle")
        /\ UNCHANGED radioCmds
    BY <1>6 DEF ReadEvent, Runs, radio
  <2>2. Readers' = Readers \ {c} /\ c \in Readers
    BY <1>1, <2>1 DEF Readers, GoTo
  <2>3. IsFiniteSet(Readers') /\ Cardinality(Readers') = Cardinality(Readers) - 1
    BY <1>4, <2>2, FS_RemoveElement
  <2>4. Len(events') = Len(events) - 1
    BY <1>3, <2>1
  <2>5. Cardinality(Readers') = Len(radioCmds) + Cardinality(Confirming) + Len(events')
                                + Sending + dropped
    BY <1>3, <2>3, <2>4
  <2> QED
    BY <1>1, <1>2, <2>1, <2>3, <2>5 DEF Conserved, ConfirmsConserved, Sending
<1>7. CASE UNCHANGED <<radioCmds, events>>
           /\ pc[c] # "read" /\ \E to \in Pcs \ {"read"} : GoTo(c, to)
  <2>1. Readers' = Readers
    BY <1>1, <1>7 DEF Readers, GoTo
  <2> QED
    BY <1>1, <1>2, <1>7, <2>1 DEF Conserved, ConfirmsConserved, Sending
<1>8. \/ pc[c] = "send" /\ radioCmds' = Append(radioCmds, c) /\ GoTo(c, "read")
         /\ UNCHANGED events
      \/ ReadEvent(c)
      \/ UNCHANGED <<radioCmds, events>>
         /\ pc[c] # "read" /\ \E to \in Pcs \ {"read"} : GoTo(c, to)
  <2>1. CASE Begin(c) \/ Take(c) \/ Claim(c) \/ Clear(c) \/ Check(c) \/ Give(c)
    BY <2>1 DEF Begin, Check, Take, Claim, Give, Clear, Runs, radio, Pcs
  <2>2. CASE Send(c)
    BY <2>2 DEF Send, Runs, Pcs
  <2>3. CASE ReadEvent(c)
    BY <2>3
  <2> QED
    BY <2>1, <2>2, <2>3 DEF Command
<1> QED
  BY <1>5, <1>6, <1>7, <1>8

LEMMA ConservedStep == IInv /\ Conserved /\ [Next]_vars => Conserved'
<1> SUFFICES ASSUME IInv, Conserved, [Next]_vars PROVE Conserved'
  OBVIOUS
<1>1. CASE Interrupt
  BY <1>1, InterruptConserves
<1>2. CASE Rf
  BY <1>2, RfConserves
<1>3. CASE \E c \in Caller : Begin(c) \/ Command(c)
  BY <1>3, CallerConserves
<1>4. CASE UNCHANGED vars
  <2>1. Readers' = Readers /\ Confirming' = Confirming
    BY <1>4 DEF Readers, Confirming, vars, radio
  <2> QED
    BY <1>4, <2>1 DEF Conserved, ConfirmsConserved, vars, host, radio
<1> QED
  BY <1>1, <1>2, <1>3, <1>4 DEF Next

-----------------------------------------------------------------------------
(* The theorems.                                                             *)

\* Every variable keeps its type, the indices of the ring in particular.
THEOREM TypeCorrect == Spec => []TypeOK
<1>1. IInv => TypeOK
  BY DEF IInv
<1> QED
  BY <1>1, Invariance, PTL

\* The causes fill the ring between its indices, without a gap: none is behind
\* the empty place at which __rf_check_state ends.
THEOREM RingInOrder == Spec => []QueueInOrder
<1>1. IInv => QueueInOrder
  BY DEF IInv
<1> QED
  BY <1>1, Invariance, PTL

\* As many causes of a kind are queued as the radio holds things of that kind.
THEOREM NoneStranded == Spec => []NothingStranded
<1>1. IInv => NothingStranded
  BY DEF IInv
<1> QED
  BY <1>1, Invariance, PTL

\* While "rf" sleeps with a cause in the ring, its notification is pending.
THEOREM NoWakeupMissed == Spec => []NoMissedWakeup
<1>1. IInv => NoMissedWakeup
  BY DEF IInv
<1> QED
  BY <1>1, Invariance, PTL

\* No confirmation is lost or doubled on its way through the radio, its task and
\* the queue of events: but for those dropped without memory, as many are under
\* way as callers wait for one.
THEOREM ConfirmsKept == Spec => []ConfirmsConserved
<1>1. Conserved => ConfirmsConserved
  BY DEF Conserved
<1> QED
  BY <1>1, Invariance, InitConserved, ConservedStep, PTL DEF Spec
=============================================================================
