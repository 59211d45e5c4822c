---------------------------- MODULE AppUartProofs ----------------------------
(* Theorems about AppUart, for a receiver and buffers of any size and any    *)
(* bounds: every buffer keeps to its size; a busy transmitter becomes free   *)
(* again, whichever tasks call, and with one caller it is never taken for    *)
(* free during a transfer, nor for busy when the caller waits for answers;   *)
(* and no byte stays unread without an event.                                *)
EXTENDS AppUart, SequenceTheorems, WellFoundedInduction, TLAPS

\* A call has started a transfer and not yet marked the transmitter busy.
Started == "started" \in {appAt, urgentAt}

\* What app_task has taken at each place of a round.
Round ==
  /\ events \subseteq {"in", "out"} /\ taken \subseteq {"in", "out"}
  /\ appAt \notin {"done", "read"} => taken = {}
  /\ appAt = "read" => taken = {"in"}

\* The end of a transfer is running, reported or taken.
Ending == /\ dma \in [on : BOOLEAN, whole : BOOLEAN]
          /\ ~txDone \/ Started => dma.on \/ "out" \in events \cup taken

\* A length that was counted has its event.
Counted == spent.oom = 0 => /\ cache # <<>> => recvLen # 0
                            /\ recvLen # 0 => "in" \in events \cup taken

Ledger == recvLen \in Nat /\ spent \in [Kinds -> Nat]

Cell == [frame : Nat, place : Nat]

\* The last place of the buffer stays free.
Buffers == /\ at \in Cell
           /\ fifo \in Seq(Cell) /\ cache \in Seq(Cell) /\ Len(cache) < Size

IInv == Round /\ Ending /\ Counted /\ Ledger /\ Buffers

-----------------------------------------------------------------------------
(* Steps that have nothing to do with a part of the invariant.               *)

LEMMA SameRound ==
  ASSUME IInv, UNCHANGED <<events, taken, appAt>>
  PROVE  Round'
BY DEF IInv, Round

LEMMA SameCount ==
  ASSUME IInv, UNCHANGED <<cache, recvLen, events, taken, spent>>
  PROVE  Counted' /\ Ledger'
BY DEF IInv, Counted, Ledger, Kinds, Disturbances

LEMMA SameEnding ==
  ASSUME IInv, UNCHANGED <<txDone, dma, events, taken, appAt, urgentAt>>
  PROVE  Ending'
BY DEF IInv, Ending, Started

\* Only the application's failures to allocate count against Counted.
LEMMA SpendsOther ==
  ASSUME IInv, NEW b \in Kinds \ {"oom"}, Spends(b)
  PROVE  spent'.oom = spent.oom /\ spent' \in [Kinds -> Nat]
BY DEF IInv, Ledger, Spends, Kinds, Disturbances

LEMMA OtherCount ==
  ASSUME IInv, NEW b \in Kinds \ {"oom"}, Spends(b),
         UNCHANGED <<cache, recvLen, events, taken>>
  PROVE  Counted' /\ Ledger'
<1>1. spent'.oom = spent.oom /\ spent' \in [Kinds -> Nat]
  BY SpendsOther
<1> QED
  BY <1>1 DEF IInv, Counted, Ledger, Kinds, Disturbances

-----------------------------------------------------------------------------
(* The meter and the interrupts.                                             *)

\* What the interrupt leaves: all that was there, in the buffer, or less when
\* the buffer starts over.
LEMMA Refill ==
  ASSUME NEW S, fifo \in Seq(S), cache \in Seq(S), Len(cache) < Size
  PROVE  /\ Refilled.cache \in Seq(S) /\ Refilled.fifo \in Seq(S)
         /\ Len(Refilled.cache) < Size
         /\ Len(Refilled.fifo) <= Len(fifo)
         /\ \/ Refilled = [cache |-> cache \o fifo, fifo |-> <<>>]
            \/ Len(Refilled.cache) + Len(Refilled.fifo) < Len(cache) + Len(fifo)
         /\ Len(cache) + Len(fifo) < Size - 1 =>
              Refilled = [cache |-> cache \o fifo, fifo |-> <<>>]
<1> DEFINE m == Size - Len(cache) - 1
           k == IF Len(fifo) < m THEN Len(fifo) ELSE m
           b == SubSeq(fifo, 1, k)
           c == SubSeq(fifo, k + 1, Len(fifo))
           i == IF Len(c) < Size - 1 THEN Len(c) ELSE Size - 1
           d == SubSeq(c, 1, i)
           e == SubSeq(c, i + 1, Len(c))
<1>0. Size \in Nat /\ Size > 1
  BY UartAssumption
<1>1. Len(cache) \in Nat /\ Len(fifo) \in Nat /\ m \in Nat
  BY <1>0, LenProperties
<1>2. k \in 0..Len(fifo) /\ k <= m /\ k \in Nat /\ (k # m => k = Len(fifo))
  BY <1>1
<1>3. SubSeq(cache, 1, Len(cache)) = cache
  BY SubSeqFull
<1>4. b \in Seq(S) /\ Len(b) = k
  BY <1>1, <1>2, SubSeqProperties, ElementOfSeq
<1>5. c \in Seq(S) /\ Len(c) = Len(fifo) - k
  BY <1>1, <1>2, SubSeqProperties, ElementOfSeq
<1>6. cache \o b \in Seq(S) /\ Len(cache \o b) = Len(cache) + k
  BY <1>4, ConcatProperties
<1> DEFINE r == Received(Len(cache), Size - Len(cache) - 1)
<1>7. r = [cache |-> cache \o b, fifo |-> c]
  BY <1>3 DEF Received
<1>16. Refilled = IF Len(r.cache) = Size - 1 THEN StartedOver(r.fifo) ELSE r
  BY DEF Refilled
<1>8. StartedOver(c) = [cache |-> d, fifo |-> e]
  BY DEF StartedOver
<1> HIDE DEF b, c, d, e, i, k, r
<1>15. Refilled = IF Len(cache \o b) = Size - 1 THEN [cache |-> d, fifo |-> e]
                  ELSE [cache |-> cache \o b, fifo |-> c]
  <2>1. r.cache = cache \o b /\ r.fifo = c
    BY <1>7
  <2> QED
    BY <1>7, <1>8, <1>16, <2>1
<1>9. i \in Nat /\ i <= Len(c) /\ i < Size /\ Len(c) \in Nat
  BY <1>0, <1>1, <1>2, <1>5 DEF i
<1>10. k = Len(fifo) => b = fifo /\ c = <<>>
  BY <1>1, SubSeqFull, SubSeqEmpty DEF b, c
<1>11. d \in Seq(S) /\ Len(d) = i
  BY <1>5, <1>9, SubSeqProperties, ElementOfSeq DEF d
<1>12. e \in Seq(S) /\ Len(e) = Len(c) - i
  BY <1>5, <1>9, SubSeqProperties, ElementOfSeq DEF e
<1>13. CASE Len(cache \o b) = Size - 1
  <2>1. Refilled.cache = d /\ Refilled.fifo = e
    BY <1>15, <1>13
  <2>2. Len(d) + Len(e) < Len(cache) + Len(fifo)
    BY <1>0, <1>1, <1>2, <1>5, <1>6, <1>9, <1>11, <1>12, <1>13
  <2>3. Len(e) <= Len(fifo)
    BY <1>1, <1>2, <1>5, <1>9, <1>12
  <2>4. ~(Len(cache) + Len(fifo) < Size - 1)
    BY <1>0, <1>1, <1>2, <1>6, <1>13
  <2> QED
    BY <1>9, <1>11, <1>12, <2>1, <2>2, <2>3, <2>4
<1>14. CASE Len(cache \o b) # Size - 1
  <2>1. k = Len(fifo)
    BY <1>0, <1>1, <1>2, <1>6, <1>14
  <2>2. Refilled = [cache |-> cache \o fifo, fifo |-> <<>>]
    BY <1>10, <1>14, <1>15, <2>1
  <2>3. Refilled.cache = cache \o fifo /\ Refilled.fifo = <<>> /\ Len(<<>>) = 0
    BY <2>2
  <2>4. cache \o fifo \in Seq(S) /\ Len(cache \o fifo) < Size
    BY <1>0, <1>1, <1>2, <1>6, <1>10, <1>14, <2>1
  <2>5. <<>> \in Seq(S)
    BY EmptySeq
  <2> QED
    BY <1>1, <2>2, <2>3, <2>4, <2>5
<1> QED
  BY <1>13, <1>14

LEMMA MeterKeeps ==
  ASSUME IInv, Meter
  PROVE  IInv'
<1>1. CASE MeterAnswer
  <2>1. UNCHANGED <<at, fifo, cache, recvLen, events, taken, spent, txDone, dma,
                    appAt, urgentAt>>
    BY <1>1 DEF MeterAnswer, rx, tx
  <2> QED
    BY <2>1, SameRound, SameCount, SameEnding DEF IInv, Buffers
<1>2. CASE MeterNote
  <2>1. /\ UNCHANGED <<at, fifo, cache, recvLen, events, taken, txDone, dma, appAt, urgentAt>>
        /\ Spends("note") /\ "note" \in Kinds \ {"oom"}
    BY <1>2 DEF MeterNote, rx, tx, Kinds, Disturbances
  <2> QED
    BY <2>1, SameRound, OtherCount, SameEnding DEF IInv, Buffers
<1>3. CASE MeterByte
  <2>1. /\ UNCHANGED <<cache, recvLen, events, taken, spent, txDone, dma, appAt, urgentAt>>
        /\ fifo' = Append(fifo, at)
        /\ at' \in {[frame |-> at.frame + 1, place |-> 1], [at EXCEPT !.place = @ + 1]}
    BY <1>3 DEF MeterByte, NextByte, tx
  <2>2. fifo' \in Seq(Cell)
    BY <2>1, AppendProperties DEF IInv, Buffers
  <2>3. at' \in Cell
    <3>1. at.frame \in Nat /\ at.place \in Nat /\ at \in Cell
      BY DEF IInv, Buffers, Cell
    <3>2. [frame |-> at.frame + 1, place |-> 1] \in Cell
      BY <3>1 DEF Cell
    <3>3. [at EXCEPT !.place = @ + 1] \in Cell
      BY <3>1 DEF Cell
    <3> QED
      BY <2>1, <3>2, <3>3
  <2>4. Buffers'
    BY <2>1, <2>2, <2>3 DEF IInv, Buffers
  <2> QED
    BY <2>1, <2>4, SameRound, SameCount, SameEnding DEF IInv
<1> QED
  BY <1>1, <1>2, <1>3 DEF Meter

LEMMA IsrKeeps ==
  ASSUME IInv, Isr
  PROVE  IInv'
<1>1. CASE RxCallback
  <2>1. /\ UNCHANGED <<at, taken, appAt, urgentAt, txDone, dma, spent>>
        /\ events' \in {events, events \cup {"in"}}
        /\ cache' = Refilled.cache /\ fifo' = Refilled.fifo
    BY <1>1 DEF RxCallback, tx, meter
  <2>2. Round'
    BY <2>1 DEF IInv, Round
  <2>3. Ending'
    BY <2>1 DEF IInv, Ending, Started
  <2>4. Buffers'
    BY <2>1, Refill DEF IInv, Buffers
  <2>5. Counted' /\ Ledger'
    <3>1. Len(cache') \in Nat /\ (cache' # <<>> => Len(cache') # 0)
      BY <2>4, LenProperties, EmptySeq DEF Buffers
    <3>2. CASE cache' # <<>> /\ Len(cache') # recvLen
      <4>1. recvLen' = Len(cache') /\ events' = events \cup {"in"}
        BY <1>1, <3>2 DEF RxCallback
      <4> QED
        BY <2>1, <3>1, <4>1 DEF IInv, Counted, Ledger, Kinds, Disturbances
    <3>3. CASE ~(cache' # <<>> /\ Len(cache') # recvLen)
      <4>1. UNCHANGED <<recvLen, events>>
        BY <1>1, <3>3 DEF RxCallback
      <4> QED
        BY <2>1, <3>1, <3>3, <4>1 DEF IInv, Counted, Ledger, Kinds, Disturbances
    <3> QED
      BY <3>2, <3>3
  <2> QED
    BY <2>2, <2>3, <2>4, <2>5 DEF IInv
<1>2. CASE TxCallback
  <2>1. /\ UNCHANGED <<at, fifo, cache, recvLen, taken, appAt, urgentAt, txDone, spent>>
        /\ events' = events \cup {"out"} /\ dma' = [on |-> FALSE, whole |-> FALSE]
    BY <1>2 DEF TxCallback, rx
  <2>2. Round' /\ Buffers'
    BY <2>1 DEF IInv, Round, Buffers
  <2>3. Ending'
    BY <2>1 DEF IInv, Ending, Started
  <2>4. Counted' /\ Ledger'
    BY <2>1 DEF IInv, Counted, Ledger, Kinds, Disturbances
  <2> QED
    BY <2>2, <2>3, <2>4 DEF IInv
<1> QED
  BY <1>1, <1>2 DEF Isr

-----------------------------------------------------------------------------
(* The tasks.                                                                *)

\* A call leaves a transfer running, or its end to come, where it has started.
LEMMA CallKeeps ==
  ASSUME IInv, NEW t, NEW l, NEW next, Call(t, l, next),
         UNCHANGED <<events, taken>>,
         l = "started" => Started,
         Started' => next = "started" \/ Started
  PROVE  Ending'
<1> dma \in [on : BOOLEAN, whole : BOOLEAN]
  BY DEF IInv, Ending
<1>3. dma' \in [on : BOOLEAN, whole : BOOLEAN]
  <2>1. ASSUME NEW h, Fill(t, h) PROVE dma' \in [on : BOOLEAN, whole : BOOLEAN]
    BY <2>1 DEF Fill
  <2>2. ASSUME Start(t) PROVE dma' \in [on : BOOLEAN, whole : BOOLEAN]
    <3>1. (~dma.on /\ txBuf["low"] = t /\ txBuf["high"] = t) \in BOOLEAN
      OBVIOUS
    <3> QED
      BY <2>2, <3>1 DEF Start
  <2> QED
    BY <2>1, <2>2 DEF Call, tx
<1>1. CASE dma'.on
  BY <1>1, <1>3 DEF Ending
<1>2. CASE ~dma'.on
  <2>1. dma'.on = dma.on
    BY <1>2 DEF Call, Fill, Start, tx
  <2>2. next # "started"
    BY <1>2 DEF Call, Start, tx
  <2>3. txDone' = txDone \/ Started
    BY DEF Call, Fill, Start, tx
  <2> QED
    BY <1>3, <2>1, <2>2, <2>3 DEF IInv, Ending
<1> QED
  BY <1>1, <1>2

\* The application task only moves on, to a place where it has taken nothing.
LEMMA AppMoves ==
  ASSUME IInv, appAt \in {"parse", "work"}, appAt' \in {"work", "wait"},
         UNCHANGED <<at, fifo, cache, recvLen, events, taken, txDone, dma, urgentAt, spent>>
  PROVE  IInv'
<1>1. Round' /\ Buffers'
  BY DEF IInv, Round, Buffers
<1>2. Ending'
  BY DEF IInv, Ending, Started
<1> QED
  BY <1>1, <1>2, SameCount DEF IInv

LEMMA UrgentKeeps ==
  ASSUME IInv, UrgentTask
  PROVE  IInv'
<1>1. CASE UrgentRequest
  <2>1. /\ UNCHANGED <<at, fifo, cache, recvLen, events, taken, txDone, dma, appAt>>
        /\ urgentAt' = "copy" /\ Spends("urgent") /\ "urgent" \in Kinds \ {"oom"}
    BY <1>1 DEF UrgentRequest, meter, rx, tx, Kinds, Disturbances
  <2>2. Round' /\ Counted' /\ Ledger' /\ Buffers'
    BY <2>1, SameRound, OtherCount DEF IInv, Buffers
  <2>3. Ending'
    BY <2>1 DEF IInv, Ending, Started
  <2> QED
    BY <2>2, <2>3 DEF IInv
<1>2. CASE UrgentCall
  <2>1. UNCHANGED <<at, fifo, cache, recvLen, events, taken, appAt, spent>>
    BY <1>2 DEF UrgentCall, meter, rx
  <2>2. PICK next \in Places \cup {"return"} :
          /\ Call("urgent", urgentAt, next)
          /\ urgentAt' = IF next = "return" THEN "idle" ELSE next
    BY <1>2 DEF UrgentCall
  <2>3. Ending'
    BY <2>1, <2>2, CallKeeps DEF Started
  <2> QED
    BY <2>1, <2>3, SameRound, SameCount DEF IInv, Buffers
<1> QED
  BY <1>1, <1>2 DEF UrgentTask

LEMMA AppKeeps ==
  ASSUME IInv, AppTask
  PROVE  IInv'
<1>1. CASE Wake
  <2>1. /\ UNCHANGED <<at, fifo, cache, recvLen, txDone, dma, urgentAt, spent>>
        /\ taken' = events /\ events' = {} /\ appAt = "wait" /\ appAt' = "done"
    BY <1>1 DEF Wake, App, meter, rx, tx
  <2>2. taken = {}
    BY <2>1 DEF IInv, Round
  <2>3. Round' /\ Buffers'
    BY <2>1 DEF IInv, Round, Buffers
  <2>4. Ending'
    BY <2>1, <2>2 DEF IInv, Ending, Started
  <2>5. Counted' /\ Ledger'
    BY <2>1, <2>2 DEF IInv, Counted, Ledger, Kinds, Disturbances
  <2> QED
    BY <2>3, <2>4, <2>5 DEF IInv
<1>2. CASE HandleDone
  <2>1. /\ UNCHANGED <<at, fifo, cache, recvLen, events, dma, urgentAt, spent>>
        /\ txDone' = (txDone \/ "out" \in taken) /\ taken' = taken \ {"out"}
        /\ appAt = "done" /\ urgentAt = "idle"
        /\ appAt' = IF "in" \in taken THEN "read" ELSE "work"
    BY <1>2 DEF HandleDone, App, Freed, meter, rx
  <2>2. Round' /\ Buffers'
    BY <2>1 DEF IInv, Round, Buffers
  <2>3. Ending'
    BY <2>1 DEF IInv, Ending, Started
  <2>4. Counted' /\ Ledger'
    BY <2>1 DEF IInv, Counted, Ledger, Kinds, Disturbances
  <2> QED
    BY <2>2, <2>3, <2>4 DEF IInv
<1>3. CASE Read
  <2>1. /\ UNCHANGED <<at, fifo, events, txDone, dma, urgentAt, spent>>
        /\ cache' = <<>> /\ recvLen' = 0 /\ taken' = {}
        /\ appAt = "read" /\ appAt' = "parse" /\ urgentAt = "idle"
    BY <1>3 DEF Read, App, meter, tx
  <2>2. taken = {"in"}
    BY <2>1 DEF IInv, Round
  <2>3. Len(cache') = 0 /\ cache' \in Seq(Cell) /\ 0 < Size
    BY <2>1, EmptySeq, UartAssumption
  <2>4. Round' /\ Buffers'
    BY <2>1, <2>3 DEF IInv, Round, Buffers
  <2>5. Ending'
    BY <2>1, <2>2 DEF IInv, Ending, Started
  <2>6. Counted' /\ Ledger'
    BY <2>1 DEF IInv, Counted, Ledger, Kinds, Disturbances
  <2> QED
    BY <2>4, <2>5, <2>6 DEF IInv
<1>4. CASE ReadFails
  <2>1. /\ UNCHANGED <<at, fifo, cache, recvLen, events, txDone, dma, urgentAt>>
        /\ taken' = {} /\ appAt = "read" /\ appAt' = "work" /\ urgentAt = "idle"
        /\ Spends("oom")
    BY <1>4 DEF ReadFails, App, meter, rx, tx
  <2>2. taken = {"in"}
    BY <2>1 DEF IInv, Round
  <2>3. Round' /\ Buffers'
    BY <2>1 DEF IInv, Round, Buffers
  <2>4. Ending'
    BY <2>1, <2>2 DEF IInv, Ending, Started
  <2>5. spent' \in [Kinds -> Nat] /\ spent'.oom # 0
    BY <2>1 DEF IInv, Ledger, Spends, Kinds, Disturbances
  <2>6. Counted' /\ Ledger'
    BY <2>1, <2>5 DEF IInv, Counted, Ledger, Kinds, Disturbances
  <2> QED
    BY <2>3, <2>4, <2>6 DEF IInv
<1>5. CASE Parse
  <2>1. /\ UNCHANGED <<at, fifo, cache, recvLen, events, taken, txDone, dma, urgentAt, spent>>
        /\ appAt = "parse" /\ appAt' = "work"
    BY <1>5 DEF Parse, App, meter, rx, tx
  <2> QED
    BY <2>1, AppMoves
<1>6. CASE Request
  <2>1. /\ UNCHANGED <<at, fifo, cache, recvLen, events, taken, txDone, dma, urgentAt>>
        /\ appAt = "work" /\ appAt' = "copy"
        /\ Spends("request") \/ Spends("early")
        /\ {"request", "early"} \subseteq Kinds \ {"oom"}
    BY <1>6 DEF Request, App, meter, rx, tx, Kinds, Disturbances
  <2>2. Round' /\ Buffers'
    BY <2>1 DEF IInv, Round, Buffers
  <2>3. Ending'
    BY <2>1 DEF IInv, Ending, Started
  <2> QED
    BY <2>1, <2>2, <2>3, OtherCount DEF IInv
<1>7. CASE Rest
  <2>1. /\ UNCHANGED <<at, fifo, cache, recvLen, events, taken, txDone, dma, urgentAt, spent>>
        /\ appAt = "work" /\ appAt' = "wait"
    BY <1>7 DEF Rest, App, meter, rx, tx
  <2> QED
    BY <2>1, AppMoves
<1>8. CASE AppCall
  <2>1. UNCHANGED <<at, fifo, cache, recvLen, events, taken, urgentAt, spent>>
    BY <1>8 DEF AppCall, meter, rx
  <2>2. PICK next \in Places \cup {"return"} :
          /\ Call("app", appAt, next)
          /\ appAt' = IF next = "return" THEN "work" ELSE next
    BY <1>8 DEF AppCall
  <2>3. appAt \in Places
    BY <2>2 DEF Call, Places
  <2>4. Ending'
    BY <2>1, <2>2, CallKeeps DEF Started
  <2>5. Round' /\ Buffers'
    BY <2>1, <2>2, <2>3 DEF IInv, Round, Buffers, Places
  <2> QED
    BY <2>1, <2>4, <2>5, SameCount DEF IInv
<1> QED
  BY <1>1, <1>2, <1>3, <1>4, <1>5, <1>6, <1>7, <1>8 DEF AppTask

-----------------------------------------------------------------------------
(* The theorems.                                                             *)

\* IInv holds at the start, and every step keeps it.
LEMMA Inductive ==
  /\ Init => IInv
  /\ IInv /\ [Next]_vars => IInv'
<1>1. ASSUME Init PROVE IInv
  <2>1. Buffers
    BY <1>1, EmptySeq, UartAssumption DEF Init, Buffers, Cell
  <2>2. Round /\ Ending /\ Counted /\ Ledger
    BY <1>1 DEF Init, Round, Ending, Started, Counted, Ledger, Kinds, Disturbances
  <2> QED
    BY <2>1, <2>2 DEF IInv
<1>2. ASSUME IInv, Next PROVE IInv'
  BY <1>2, MeterKeeps, IsrKeeps, AppKeeps, UrgentKeeps DEF Next
<1>3. ASSUME IInv, UNCHANGED vars PROVE IInv'
  <2>1. UNCHANGED <<at, fifo, cache, recvLen, events, taken, spent, txDone, dma,
                    appAt, urgentAt>>
    BY <1>3 DEF vars, meter, rx, tx
  <2> QED
    BY <1>3, <2>1, SameRound, SameCount, SameEnding DEF IInv, Buffers
<1> QED
  BY <1>1, <1>2, <1>3

\* A transmitter marked busy always has a transfer running or an end that is still
\* to be handled: no order of the two callers of app_uart_data_send, the interrupt
\* and __uart_task leaves __uart2_tx_done at 0 for good.
THEOREM BusyEnds == Spec => []DoneWillCome
<1>1. IInv => DoneWillCome
  BY DEF IInv, Ending, DoneWillCome
<1> QED
  BY <1>1, Inductive, PTL DEF Spec

\* While memory lasts, unread bytes have an event on its way to app_task: the
\* comparison with recvLen in __uart2_rx_callback withholds no event that is needed,
\* not even when the buffer starts over.
THEOREM BytesAreRead == Spec => []UnreadHasEvent
<1>1. IInv => UnreadHasEvent
  BY DEF IInv, Counted, UnreadHasEvent
<1> QED
  BY <1>1, Inductive, PTL DEF Spec

-----------------------------------------------------------------------------
(* One caller.  The step of a call, by its place.                            *)

LEMMA CallSteps ==
  ASSUME dma \in [on : BOOLEAN, whole : BOOLEAN],
         NEW t, NEW l, NEW next, Call(t, l, next)
  PROVE  \/ /\ l = "copy" /\ next = "copying" /\ UNCHANGED txDone /\ dma'.on = dma.on
         \/ /\ l = "copying" /\ next = "check" /\ UNCHANGED txDone /\ dma'.on = dma.on
         \/ /\ l = "check" /\ txDone /\ next = "started" /\ UNCHANGED txDone /\ dma'.on
         \/ /\ l = "check" /\ ~txDone /\ next = "return" /\ UNCHANGED <<txDone, dma>>
         \/ /\ l = "started" /\ next = "return" /\ txDone' = FALSE /\ UNCHANGED dma
<1>1. ASSUME NEW h, Fill(t, h) PROVE UNCHANGED txDone /\ dma'.on = dma.on
  BY <1>1 DEF Fill
<1>2. ASSUME Start(t) PROVE UNCHANGED txDone /\ dma'.on
  BY <1>2 DEF Start
<1> QED
  BY <1>1, <1>2 DEF Call, tx

\* With one caller, a transfer and its end are one at a time, and while there is
\* either the transmitter is marked busy, or about to be.
OneCaller ==
  spent.urgent = 0 =>
    /\ urgentAt = "idle"
    /\ dma.on => "out" \notin events \cup taken
    /\ ~("out" \in events /\ "out" \in taken)
    /\ dma.on \/ "out" \in events \cup taken => ~txDone \/ appAt = "started"

\* A caller that waits for its answer finds the transmitter free.
Waits ==
  spent.urgent = 0 /\ spent.early = 0 /\ appAt \in {"copy", "copying", "check"} => txDone

LEMMA SpendsUp ==
  ASSUME IInv, NEW b \in Kinds, Spends(b)
  PROVE  /\ spent'[b] = spent[b] + 1
         /\ \A c \in Kinds \ {b} : spent'[c] = spent[c]
         /\ \A c \in Kinds : spent[c] \in Nat
  BY DEF IInv, Ledger, Spends

LEMMA OneCallerNext ==
  ASSUME IInv, OneCaller, Waits, Next
  PROVE  OneCaller' /\ Waits'
<1> USE DEF OneCaller, Waits
<1> {"early", "urgent", "note", "request", "oom"} \subseteq Kinds
  BY DEF Kinds, Disturbances
<1> dma \in [on : BOOLEAN, whole : BOOLEAN]
  BY DEF IInv, Ending
<1>1. CASE UNCHANGED <<events, taken, txDone, dma, appAt, urgentAt, spent>>
  BY <1>1
<1>2. CASE Meter
  <2>1. UNCHANGED <<events, taken, txDone, dma, appAt, urgentAt>>
    BY <1>2 DEF Meter, MeterAnswer, MeterNote, MeterByte, tx
  <2>2. UNCHANGED spent \/ Spends("note")
    BY <1>2 DEF Meter, MeterAnswer, MeterNote, MeterByte
  <2>3. spent'.urgent = spent.urgent /\ spent'.early = spent.early
    BY <2>2, SpendsUp
  <2> QED
    BY <2>1, <2>3
<1>3. CASE RxCallback
  <2>1. /\ UNCHANGED <<taken, txDone, dma, appAt, urgentAt, spent>>
        /\ events' \in {events, events \cup {"in"}}
    BY <1>3 DEF RxCallback, tx
  <2> QED
    BY <2>1
<1>4. CASE TxCallback
  <2>1. /\ UNCHANGED <<taken, txDone, appAt, urgentAt, spent>> /\ dma.on
        /\ events' = events \cup {"out"} /\ ~dma'.on
    BY <1>4 DEF TxCallback
  <2> QED
    BY <2>1
<1>5. CASE Wake
  <2>1. /\ UNCHANGED <<txDone, dma, urgentAt, spent>>
        /\ taken' = events /\ events' = {} /\ appAt = "wait" /\ appAt' = "done"
    BY <1>5 DEF Wake, App, tx
  <2>2. taken = {}
    BY <2>1 DEF IInv, Round
  <2> QED
    BY <2>1, <2>2
<1>6. CASE HandleDone
  <2>1. /\ UNCHANGED <<events, dma, urgentAt, spent>>
        /\ txDone' = (txDone \/ "out" \in taken) /\ taken' = taken \ {"out"}
        /\ appAt = "done" /\ appAt' \in {"read", "work"}
    BY <1>6 DEF HandleDone, App, Freed
  <2> QED
    BY <2>1
<1>7. CASE Read \/ ReadFails
  <2>1. /\ UNCHANGED <<events, txDone, dma, urgentAt>>
        /\ taken' = {} /\ appAt = "read" /\ appAt' \in {"parse", "work"}
        /\ UNCHANGED spent \/ Spends("oom")
    BY <1>7 DEF Read, ReadFails, App, tx
  <2>2. taken = {"in"}
    BY <2>1 DEF IInv, Round
  <2>3. spent'.urgent = spent.urgent /\ spent'.early = spent.early
    BY <2>1, SpendsUp
  <2> QED
    BY <2>1, <2>2, <2>3
<1>8. CASE Parse \/ Rest
  <2>1. /\ UNCHANGED <<events, taken, txDone, dma, urgentAt, spent>>
        /\ appAt \in {"parse", "work"} /\ appAt' \in {"work", "wait"}
    BY <1>8 DEF Parse, Rest, App, tx
  <2> QED
    BY <2>1
<1>9. CASE Request
  <2>1. /\ UNCHANGED <<events, taken, txDone, dma, urgentAt>>
        /\ appAt = "work" /\ appAt' = "copy" /\ urgentAt = "idle"
        /\ IF Settled THEN Spends("request") ELSE Spends("early")
    BY <1>9 DEF Request, App, tx
  <2>2. taken = {}
    BY <2>1 DEF IInv, Round
  <2>3. CASE Settled
    <3>1. txDone
      BY <2>1, <2>2, <2>3 DEF IInv, Ending, Settled, Started
    <3> QED
      BY <2>1, <2>3, <3>1, SpendsUp
  <2>4. CASE ~Settled
    <3>1. spent'.early # 0 /\ spent'.urgent = spent.urgent
      BY <2>1, <2>4, SpendsUp
    <3> QED
      BY <2>1, <3>1
  <2> QED
    BY <2>3, <2>4
<1>10. CASE AppCall
  <2>1. UNCHANGED <<events, taken, urgentAt, spent>>
    BY <1>10 DEF AppCall
  <2>2. PICK next \in Places \cup {"return"} :
          /\ Call("app", appAt, next)
          /\ appAt' = IF next = "return" THEN "work" ELSE next
    BY <1>10 DEF AppCall
  <2> QED
    BY <2>1, <2>2, CallSteps
<1>11. CASE UrgentRequest
  <2>1. Spends("urgent")
    BY <1>11 DEF UrgentRequest
  <2>2. spent'.urgent # 0
    BY <2>1, SpendsUp
  <2> QED
    BY <2>2
<1>12. CASE UrgentCall
  <2>1. UNCHANGED spent
    BY <1>12 DEF UrgentCall
  <2>2. urgentAt \in Places
    BY <1>12 DEF UrgentCall, Call, Places
  <2>3. spent.urgent # 0
    BY <2>2 DEF Places
  <2> QED
    BY <2>1, <2>3
<1> QED
  BY <1>2, <1>3, <1>4, <1>5, <1>6, <1>7, <1>8, <1>9, <1>10, <1>11, <1>12
     DEF Next, Isr, AppTask, UrgentTask

LEMMA OneCallerInductive ==
  /\ Init => OneCaller /\ Waits
  /\ IInv /\ OneCaller /\ Waits /\ [Next]_vars => OneCaller' /\ Waits'
<1>1. Init => OneCaller /\ Waits
  BY DEF Init, OneCaller, Waits
<1>2. UNCHANGED vars /\ OneCaller /\ Waits => OneCaller' /\ Waits'
  BY DEF vars, tx, OneCaller, Waits
<1> QED
  BY <1>1, <1>2, OneCallerNext

\* With one caller the transmitter is never marked free while a transfer runs,
\* whenever the transfer ends relative to the call and to the round of app_task,
\* and a caller that waits for the answer before it asks again is never refused.
THEOREM OneCallerIsServed == Spec => []OneCallerServed
<1>1. OneCaller => DoneMeansIdle
  BY DEF OneCaller, DoneMeansIdle
<1>2. Waits => NeverRefused
  BY DEF Waits, NeverRefused
<1>3. OneCaller /\ Waits => OneCallerServed
  BY <1>1, <1>2 DEF OneCallerServed
<1> QED
  BY <1>3, Inductive, OneCallerInductive, PTL DEF Spec

-----------------------------------------------------------------------------
(* What is put together.                                                     *)

\* A nonempty set of places has a least one.
LEMMA MinPlace ==
  ASSUME NEW n \in Nat, NEW I \in SUBSET (1..n), I # {}
  PROVE  Min(I) \in I /\ \A j \in I : Min(I) <= j
<1>1. I \subseteq Nat
  OBVIOUS
<1>2. \E k \in I : \A j \in I : <<j, k>> \notin OpToRel(<, Nat)
  BY <1>1, NatLessThanWellFounded, WFMin
<1>3. \A k, j \in Nat : <<j, k>> \notin OpToRel(<, Nat) => k <= j
  BY DEF OpToRel
<1>4. \E k \in I : \A j \in I : k <= j
  BY <1>1, <1>2, <1>3
<1> QED
  BY <1>4 DEF Min

\* What is put together: all that was kept and read, or what was read from its
\* first flag on.
LEMMA StoredParts ==
  ASSUME NEW S, tmp \in Seq(S), dlmsBuf \in Seq(S)
  PROVE  /\ Stored \in Seq(S)
         /\ dlmsBuf # <<>> => Stored = dlmsBuf \o tmp
         /\ dlmsBuf = <<>> =>
              \E i \in 1..(Len(tmp) + 1) :
                /\ Stored = SubSeq(tmp, i, Len(tmp))
                /\ i <= Len(tmp) => Kind(tmp[i]) = "flag"
                /\ \A j \in 1..Len(tmp) : j < i => Kind(tmp[j]) # "flag"
<1> DEFINE I == {i \in 1..Len(tmp) : Kind(tmp[i]) = "flag"}
           first == IF I # {} THEN Min(I) ELSE 0
<1>1. Len(tmp) \in Nat
  BY LenProperties
<1>2. CASE dlmsBuf # <<>>
  BY <1>2, ConcatProperties DEF Stored
<1>3. CASE dlmsBuf = <<>>
  <2>1. Stored = IF first = 0 THEN <<>> ELSE SubSeq(tmp, first, Len(tmp))
    BY <1>3 DEF Stored, SelectInSeq
  <2>2. CASE I = {}
    <3>1. Stored = SubSeq(tmp, Len(tmp) + 1, Len(tmp)) /\ Stored = <<>>
      BY <1>1, <2>1, <2>2, SubSeqEmpty
    <3> QED
      BY <1>1, <1>3, <2>2, <3>1, EmptySeq
  <2>3. CASE I # {}
    <3>1. Min(I) \in I /\ \A j \in I : Min(I) <= j
      BY <1>1, <2>3, MinPlace
    <3> DEFINE i == Min(I)
    <3>5. first = i
      BY <2>3
    <3>6. i \in 1..Len(tmp) /\ Kind(tmp[i]) = "flag"
      BY <3>1
    <3>3. \A j \in 1..Len(tmp) : j < i => Kind(tmp[j]) # "flag"
      <4>1. ASSUME NEW j \in 1..Len(tmp), j < i, Kind(tmp[j]) = "flag" PROVE FALSE
        <5>1. j \in I /\ i \in Nat
          BY <1>1, <3>6, <4>1
        <5>2. i <= j
          BY <3>1, <5>1
        <5> HIDE DEF i
        <5> QED
          BY <4>1, <5>1, <5>2
      <4> QED
        BY <4>1
    <3> HIDE DEF i, first
    <3>2. i \in 1..Len(tmp) /\ Stored = SubSeq(tmp, i, Len(tmp)) /\ Kind(tmp[i]) = "flag"
      BY <1>1, <2>1, <3>5, <3>6
    <3> HIDE DEF i
    <3>4. SubSeq(tmp, i, Len(tmp)) \in Seq(S)
      BY <1>1, <3>2, SubSeqProperties, ElementOfSeq
    <3> QED
      BY <1>1, <1>3, <3>2, <3>3, <3>4, SMTT(30)
  <2> QED
    BY <2>2, <2>3
<1> QED
  BY <1>2, <1>3

-----------------------------------------------------------------------------
(* Types.                                                                    *)

Calling == {"copy", "copying", "check"}

Ones(p) == IF p THEN 1 ELSE 0

\* Requests on their way to the meter, and those that it has.
Pending == asked + Ones(dma.whole) + Ones(appAt \in Calling) + Ones(urgentAt \in Calling)

LineType ==
  /\ frames \in Seq(FrameLens) /\ at \in Cell
  /\ at.frame \in 1..(Len(frames) + 1)
  /\ at.place \in 1..(IF Sending THEN frames[at.frame] ELSE 1)

BufferType ==
  /\ fifo \in Seq(Byte) /\ cache \in Seq(Byte)
  /\ tmp \in Seq(Byte) /\ dlmsBuf \in Seq(Byte)
  /\ Len(fifo) <= FifoSize /\ Len(cache) < Size /\ Len(dlmsBuf) < Longest
  /\ recvLen \in 0..(Size - 1) /\ lost \in BOOLEAN
  /\ passed \in Seq(0..Len(frames))

CallType ==
  /\ appAt \in Places \cup {"wait", "done", "read", "parse", "work"}
  /\ urgentAt \in Places \cup {"idle"}
  /\ txDone \in BOOLEAN /\ dma \in [on : BOOLEAN, whole : BOOLEAN]
  /\ txBuf \in [{"low", "high"} -> {"none", "app", "urgent"}]

CountType ==
  /\ asked \in Nat /\ spent \in [Kinds -> Nat]
  /\ Pending <= spent.request + spent.early + spent.urgent
  /\ spent.request <= MaxRequests /\ Disturbed <= MaxDisturbed

TypeInv == LineType /\ BufferType /\ CallType /\ CountType

LEMMA FrameLength ==
  ASSUME frames \in Seq(FrameLens), NEW f \in 1..Len(frames)
  PROVE  frames[f] \in FrameLens /\ frames[f] \in Nat /\ frames[f] > 3 /\ frames[f] < Longest
<1>1. frames[f] \in FrameLens
  BY ElementOfSeq
<1> QED
  BY <1>1, UartAssumption

LEMMA TypesImply ==
  ASSUME IInv, TypeInv
  PROVE  TypeOK
<1>0. Len(frames) \in Nat /\ Longest \in Nat \ {0}
  BY LenProperties, UartAssumption DEF TypeInv, LineType
<1>1. DOMAIN frames = 1..Len(frames) /\ \A f \in DOMAIN frames : frames[f] \in FrameLens
  BY LenProperties, ElementOfSeq DEF TypeInv, LineType
<1>2. at.frame \in 1..(Len(frames) + 1) /\ Complete = at.frame - 1
  BY DEF TypeInv, LineType, Complete
<1>3. at.place \in 1..Longest
  <2>1. CASE Sending
    <3>1. at.frame \in 1..Len(frames)
      BY <1>0, <1>2, <2>1 DEF Sending
    <3>2. frames[at.frame] \in Nat /\ frames[at.frame] < Longest
      BY <3>1, FrameLength DEF TypeInv, LineType
    <3> QED
      BY <1>0, <2>1, <3>2 DEF TypeInv, LineType
  <2>2. CASE ~Sending
    BY <1>0, <2>2 DEF TypeInv, LineType
  <2> QED
    BY <2>1, <2>2
<1>4. asked \in 0..(MaxRequests + MaxDisturbed)
  <2>1. asked \in Nat /\ spent \in [Kinds -> Nat] /\ Pending \in Nat /\ asked <= Pending
    BY DEF TypeInv, CountType, Pending, Ones
  <2>2. \A k \in Kinds : spent[k] \in Nat
    BY <2>1
  <2>3. spent.request \in Nat /\ spent.early \in Nat /\ spent.urgent \in Nat
        /\ spent.note \in Nat /\ spent.oom \in Nat
    BY <2>2 DEF Kinds, Disturbances
  <2>4. /\ Pending <= spent.request + spent.early + spent.urgent
        /\ spent.request <= MaxRequests
        /\ spent.early + spent.note + spent.oom + spent.urgent <= MaxDisturbed
    BY DEF TypeInv, CountType, Disturbed
  <2> HIDE DEF Pending
  <2> QED
    BY <2>1, <2>3, <2>4, UartAssumption
<1>5. ASSUME NEW s \in Seq(Byte) PROVE \A i \in DOMAIN s : s[i] \in Byte
  BY LenProperties, ElementOfSeq
<1>6. \A i \in DOMAIN passed : passed[i] \in 0..Len(frames)
  BY LenProperties, ElementOfSeq DEF TypeInv, BufferType
<1>7. events \subseteq {"in", "out"} /\ taken \subseteq {"in", "out"}
  BY DEF IInv, Round
<1>8. Complete \in 0..Len(frames)
  BY <1>0, <1>2
<1>9. \A s \in {fifo, cache, tmp, dlmsBuf} : \A i \in DOMAIN s : s[i] \in Byte
  BY <1>5 DEF TypeInv, BufferType
<1> QED
  BY <1>1, <1>3, <1>4, <1>6, <1>7, <1>8, <1>9
     DEF TypeOK, TypeInv, LineType, BufferType, CallType

-----------------------------------------------------------------------------
(* The steps, part by part.                                                  *)

LEMMA SameBuffers ==
  ASSUME TypeInv, UNCHANGED <<frames, fifo, cache, tmp, dlmsBuf, recvLen, lost, passed>>
  PROVE  BufferType'
BY DEF TypeInv, BufferType, Byte

LEMMA SameLine ==
  ASSUME TypeInv, UNCHANGED <<frames, at>>
  PROVE  LineType'
BY DEF TypeInv, LineType, Sending

\* A frame that the meter will send changes nothing of those before it.
LEMMA QueueTypes ==
  ASSUME TypeInv, NEW l \in FrameLens, Queue(l),
         UNCHANGED <<at, fifo, cache, tmp, dlmsBuf, recvLen, lost, passed>>
  PROVE  LineType' /\ BufferType'
<1> USE DEF TypeInv, LineType, BufferType
<1>0. Len(frames) \in Nat
  BY LenProperties
<1>1. /\ frames' \in Seq(FrameLens) /\ Len(frames') = Len(frames) + 1
      /\ \A f \in 1..Len(frames) : frames'[f] = frames[f]
      /\ frames'[Len(frames) + 1] = l
  BY AppendProperties DEF Queue
<1>2. Byte \subseteq Byte'
  BY <1>0, <1>1 DEF Byte
<1>3. 0..Len(frames) \subseteq 0..Len(frames')
  BY <1>0, <1>1
<1>4. LineType'
  <2>1. CASE Sending
    <3>1. at.frame \in 1..Len(frames) /\ Sending'
      BY <1>0, <1>1, <2>1 DEF Sending
    <3> QED
      BY <1>0, <1>1, <2>1, <3>1
  <2>2. CASE ~Sending
    <3>1. at.frame = Len(frames) + 1 /\ Sending' /\ at.place = 1
      BY <1>0, <1>1, <2>2 DEF Sending
    <3>2. l \in Nat /\ l > 3
      BY UartAssumption
    <3> QED
      BY <1>0, <1>1, <3>1, <3>2
  <2> QED
    BY <2>1, <2>2
<1>5. BufferType'
  <2>1. /\ fifo \in Seq(Byte') /\ cache \in Seq(Byte')
        /\ tmp \in Seq(Byte') /\ dlmsBuf \in Seq(Byte')
    BY <1>2, SeqMonotonic
  <2>2. passed \in Seq(0..Len(frames'))
    BY <1>3, SeqMonotonic
  <2> QED
    BY <2>1, <2>2
<1> QED
  BY <1>4, <1>5

\* The next byte is one of a frame.
LEMMA AtIsByte ==
  ASSUME TypeInv, Sending
  PROVE  /\ at \in Byte /\ at.frame \in 1..Len(frames)
         /\ frames[at.frame] \in Nat /\ frames[at.frame] > 3 /\ frames[at.frame] < Longest
         /\ at.place \in 1..frames[at.frame]
<1> USE DEF TypeInv, LineType
<1>0. Len(frames) \in Nat /\ Longest \in Nat
  BY LenProperties, UartAssumption
<1>1. at.frame \in 1..Len(frames) /\ at.place \in 1..frames[at.frame]
  BY <1>0 DEF Sending
<1>2. frames[at.frame] \in Nat /\ frames[at.frame] > 3 /\ frames[at.frame] < Longest
  BY <1>1, FrameLength
<1>3. at.place \in 1..Longest
  BY <1>0, <1>1, <1>2
<1> QED
  BY <1>1, <1>2, <1>3 DEF Byte, Cell

LEMMA NextPlace ==
  ASSUME NEW b \in Cell
  PROVE  LET c == [b EXCEPT !.place = @ + 1]
         IN  c \in Cell /\ c.frame = b.frame /\ c.place = b.place + 1
BY DEF Cell

LEMMA MeterByteTypes ==
  ASSUME TypeInv, MeterByte
  PROVE  LineType' /\ BufferType'
<1> USE DEF TypeInv, LineType, BufferType
<1>1. /\ Sending /\ Len(fifo) < FifoSize /\ fifo' = Append(fifo, at)
      /\ at' = IF at.place = frames[at.frame]
                 THEN [frame |-> at.frame + 1, place |-> 1]
                 ELSE [at EXCEPT !.place = @ + 1]
      /\ UNCHANGED <<frames, cache, tmp, dlmsBuf, recvLen, lost, passed>>
  BY DEF MeterByte, NextByte, parse
<1>2. /\ at \in Byte /\ at.frame \in 1..Len(frames) /\ frames[at.frame] \in Nat
      /\ at.place \in 1..frames[at.frame] /\ Len(frames) \in Nat
  BY <1>1, AtIsByte, LenProperties
<1>3. LineType'
  <2>1. CASE at.place = frames[at.frame]
    <3>1. at'.frame = at.frame + 1 /\ at'.place = 1 /\ at' \in Cell
      BY <1>1, <1>2, <2>1 DEF Cell
    <3>2. 1 \in 1..(IF Sending' THEN frames[at.frame + 1] ELSE 1)
      <4>1. CASE Sending'
        <5>1. at.frame + 1 \in 1..Len(frames)
          BY <1>1, <1>2, <3>1, <4>1 DEF Sending
        <5> QED
          BY <4>1, <5>1, FrameLength
      <4>2. CASE ~Sending'
        BY <4>2
      <4> QED
        BY <4>1, <4>2
    <3> QED
      BY <1>1, <1>2, <3>1, <3>2, SMTT(30)
  <2>2. CASE at.place # frames[at.frame]
    <3>1. at'.frame = at.frame /\ at'.place = at.place + 1 /\ at' \in Cell
      <4>1. at' = [at EXCEPT !.place = @ + 1] /\ at \in Cell
        BY <1>1, <2>2
      <4> QED
        BY <4>1, NextPlace
    <3>2. Sending'
      BY <1>1, <3>1 DEF Sending
    <3> QED
      BY <1>1, <1>2, <2>2, <3>1, <3>2
  <2> QED
    BY <2>1, <2>2
<1>4. fifo' \in Seq(Byte) /\ Len(fifo') = Len(fifo) + 1
  BY <1>1, <1>2, AppendProperties
<1>5. Len(fifo') <= FifoSize
  BY <1>1, <1>4, LenProperties, UartAssumption
<1>6. BufferType'
  BY <1>1, <1>4, <1>5 DEF Byte
<1> QED
  BY <1>3, <1>6

LEMMA RxTypes ==
  ASSUME TypeInv, RxCallback
  PROVE  BufferType'
<1> USE DEF TypeInv, BufferType
<1>1. /\ cache' = Refilled.cache /\ fifo' = Refilled.fifo
      /\ lost' = (lost \/ Len(cache') + Len(fifo') < Len(cache) + Len(fifo))
      /\ recvLen' \in {recvLen, Len(cache')}
      /\ UNCHANGED <<frames, tmp, dlmsBuf, passed>>
  BY DEF RxCallback, meter, parse
<1>2. /\ Refilled.cache \in Seq(Byte) /\ Refilled.fifo \in Seq(Byte)
      /\ Len(Refilled.cache) < Size /\ Len(Refilled.fifo) <= Len(fifo)
  BY Refill
<1>3. /\ Len(Refilled.cache) \in Nat /\ Len(Refilled.fifo) \in Nat /\ Len(fifo) \in Nat
      /\ FifoSize \in Nat /\ Size \in Nat
  BY <1>2, LenProperties, UartAssumption
<1>4. recvLen' \in 0..(Size - 1)
  BY <1>1, <1>2, <1>3
<1>5. lost' \in BOOLEAN
  BY <1>1
<1>6. Len(fifo') <= FifoSize
  BY <1>1, <1>2, <1>3
<1> QED
  BY <1>1, <1>2, <1>4, <1>5, <1>6 DEF Byte

\* A frame is known by the number of one of its bytes.
LEMMA FrameOfType ==
  ASSUME frames \in Seq(FrameLens), NEW b \in Seq(Byte)
  PROVE  FrameOf(b) \in 0..Len(frames)
<1>1. Len(frames) \in Nat
  BY LenProperties
<1>2. b # <<>> => 1 \in 1..Len(b)
  BY EmptySeq
<1>3. b # <<>> => b[1] \in Byte
  BY <1>2, ElementOfSeq
<1>4. b # <<>> => b[1].frame \in 1..Len(frames)
  BY <1>3 DEF Byte
<1> QED
  BY <1>1, <1>4 DEF FrameOf

LEMMA ParseTypes ==
  ASSUME TypeInv, Parse
  PROVE  BufferType'
<1> USE DEF TypeInv, LineType, BufferType
<1>1. Stored \in Seq(Byte)
  BY StoredParts
<1>2. PICK n \in Announced(Stored) :
        /\ dlmsBuf' = IF n >= Longest \/ Len(Stored) >= Longest \/ Len(Stored) >= n
                        THEN <<>> ELSE Stored
        /\ passed' \in {passed, Append(passed, FrameOf(Stored))}
  BY DEF Parse
<1>3. /\ tmp' = <<>> /\ UNCHANGED <<frames, fifo, cache, recvLen, lost>>
  BY DEF Parse, meter, rx
<1>4. Longest \in Nat \ {0} /\ Len(Stored) \in Nat
  BY <1>1, UartAssumption, LenProperties
<1>5. <<>> \in Seq(Byte) /\ Len(<<>>) = 0
  BY EmptySeq
<1>6. dlmsBuf' \in Seq(Byte) /\ Len(dlmsBuf') < Longest
  <2>1. CASE n >= Longest \/ Len(Stored) >= Longest \/ Len(Stored) >= n
    BY <1>2, <1>4, <1>5, <2>1
  <2>2. CASE ~(n >= Longest \/ Len(Stored) >= Longest \/ Len(Stored) >= n)
    BY <1>1, <1>2, <1>4, <2>2
  <2> QED
    BY <2>1, <2>2
<1>7. FrameOf(Stored) \in 0..Len(frames)
  BY <1>1, FrameOfType
<1>8. passed' \in Seq(0..Len(frames))
  <2>1. passed \in Seq(0..Len(frames))
    OBVIOUS
  <2>2. Append(passed, FrameOf(Stored)) \in Seq(0..Len(frames))
    BY <1>7, <2>1, AppendProperties
  <2> QED
    BY <1>2, <2>1, <2>2
<1> QED
  BY <1>3, <1>5, <1>6, <1>8 DEF Byte

-----------------------------------------------------------------------------
(* Calls and counts.                                                         *)

LEMMA SameCalls ==
  ASSUME TypeInv, UNCHANGED <<appAt, urgentAt, txDone, dma, txBuf>>
  PROVE  CallType'
BY DEF TypeInv, CallType

LEMMA Numbers ==
  ASSUME TypeInv
  PROVE  /\ asked \in Nat /\ Pending \in Nat
         /\ spent.request \in Nat /\ spent.early \in Nat /\ spent.urgent \in Nat
         /\ spent.note \in Nat /\ spent.oom \in Nat
<1>1. \A k \in Kinds : spent[k] \in Nat
  BY DEF TypeInv, CountType
<1> QED
  BY <1>1 DEF TypeInv, CountType, Pending, Ones, Kinds, Disturbances

\* What is spent stays within its bound, and covers one request more if the
\* step is one.
LEMMA SpendCount ==
  ASSUME TypeInv, NEW b \in Kinds, Spends(b), asked' \in Nat, Pending' \in Nat,
         Pending' <= Pending + (IF b \in {"request", "early", "urgent"} THEN 1 ELSE 0)
  PROVE  CountType'
<1> USE Numbers DEF TypeInv, CountType
<1>1. /\ spent' = [spent EXCEPT ![b] = @ + 1]
      /\ IF b = "request" THEN spent.request < MaxRequests ELSE Disturbed < MaxDisturbed
  BY DEF Spends
<1>2. spent' \in [Kinds -> Nat]
  BY <1>1
<1>3. MaxRequests \in Nat /\ MaxDisturbed \in Nat
  BY UartAssumption
<1>4. b \in {"request", "early", "note", "oom", "urgent"}
  BY DEF Kinds, Disturbances
<1>5. /\ spent'.request = spent.request + Ones(b = "request")
      /\ spent'.early = spent.early + Ones(b = "early")
      /\ spent'.urgent = spent.urgent + Ones(b = "urgent")
      /\ spent'.note = spent.note + Ones(b = "note")
      /\ spent'.oom = spent.oom + Ones(b = "oom")
  BY <1>1 DEF Kinds, Disturbances, Ones
<1>6. /\ Pending' <= spent'.request + spent'.early + spent'.urgent
      /\ spent'.request <= MaxRequests
  BY <1>1, <1>3, <1>4, <1>5 DEF Ones
<1>7. Disturbed' <= MaxDisturbed
  BY <1>1, <1>3, <1>4, <1>5 DEF Ones, Disturbed
<1> QED
  BY <1>2, <1>6, <1>7

LEMMA NoMoreCount ==
  ASSUME TypeInv, UNCHANGED spent, asked' \in Nat, Pending' \in Nat, Pending' <= Pending
  PROVE  CountType'
BY Numbers DEF TypeInv, CountType, Disturbed

\* A call hands its request to the transfer, if there is not one already.
LEMMA CallTypes ==
  ASSUME TypeInv, NEW t \in {"app", "urgent"}, NEW l, NEW next, Call(t, l, next)
  PROVE  /\ txDone' \in BOOLEAN /\ dma' \in [on : BOOLEAN, whole : BOOLEAN]
         /\ txBuf' \in [{"low", "high"} -> {"none", "app", "urgent"}]
         /\ l \in Places /\ next \in Places \cup {"return"}
         /\ Ones(dma'.whole) + Ones(next \in Calling)
              <= Ones(dma.whole) + Ones(l \in Calling)
<1> USE DEF TypeInv, CallType
<1>1. ASSUME NEW h \in {"low", "high"}, Fill(t, h)
      PROVE  /\ txDone' = txDone /\ dma' \in [on : BOOLEAN, whole : BOOLEAN]
             /\ ~dma'.whole
             /\ txBuf' \in [{"low", "high"} -> {"none", "app", "urgent"}]
  BY <1>1 DEF Fill
<1>2. ASSUME Start(t)
      PROVE  /\ txDone' = txDone /\ dma' \in [on : BOOLEAN, whole : BOOLEAN]
             /\ UNCHANGED txBuf
  <2>1. (~dma.on /\ txBuf["low"] = t /\ txBuf["high"] = t) \in BOOLEAN
    OBVIOUS
  <2> QED
    BY <1>2, <2>1 DEF Start
<1>3. CASE l = "copy" /\ next = "copying" /\ Fill(t, "low")
  BY <1>1, <1>3 DEF Places, Calling, Ones
<1>4. CASE l = "copying" /\ next = "check" /\ Fill(t, "high")
  BY <1>1, <1>4 DEF Places, Calling, Ones
<1>5. CASE l = "check" /\ next = "started" /\ Start(t)
  BY <1>2, <1>5 DEF Places, Calling, Ones
<1>6. CASE l = "check" /\ next = "return" /\ UNCHANGED tx
  BY <1>6 DEF Places, Calling, Ones, tx
<1>7. CASE l = "started" /\ next = "return" /\ txDone' = FALSE /\ UNCHANGED <<txBuf, dma>>
  <2>1. l \notin Calling /\ next \notin Calling /\ dma' = dma
    BY <1>7 DEF Calling
  <2>2. Ones(dma.whole) \in Nat
    BY DEF Ones
  <2>3. Ones(dma'.whole) + Ones(next \in Calling) <= Ones(dma.whole) + Ones(l \in Calling)
    BY <2>1, <2>2 DEF Ones
  <2> HIDE DEF Ones
  <2> QED
    BY <1>7, <2>1, <2>3 DEF Places
<1> QED
  BY <1>3, <1>4, <1>5, <1>6, <1>7 DEF Call

KindNames == {"request", "early", "note", "oom", "urgent"}

LEMMA KindsNamed == Kinds = KindNames
BY DEF Kinds, Disturbances, KindNames

\* A step of the meter or of an interrupt.
LEMMA LineTypes ==
  ASSUME TypeInv, Meter \/ Isr
  PROVE  TypeInv'
<1>0. asked \in Nat /\ Pending \in Nat
  BY Numbers
<1>1. CASE MeterAnswer
  <2>1. /\ asked > 0 /\ asked' = asked - 1
        /\ UNCHANGED <<at, fifo, cache, tmp, dlmsBuf, recvLen, lost, passed, appAt,
                       urgentAt, txDone, dma, txBuf, spent>>
        /\ (\E l \in FrameLens : Queue(l)) \/ UNCHANGED frames
    BY <1>1 DEF MeterAnswer, rx, parse, tx
  <2>2. LineType' /\ BufferType'
    BY <2>1, QueueTypes, SameLine, SameBuffers
  <2>3. asked' \in Nat /\ Pending' \in Nat /\ Pending' <= Pending
    BY <1>0, <2>1 DEF Pending, Ones
  <2>4. CountType'
    BY <2>1, <2>3, NoMoreCount
  <2> QED
    BY <2>1, <2>2, <2>4, SameCalls DEF TypeInv
<1>2. CASE MeterNote
  <2>1. /\ Spends("note")
        /\ UNCHANGED <<at, asked, fifo, cache, tmp, dlmsBuf, recvLen, lost, passed, appAt,
                       urgentAt, txDone, dma, txBuf>>
        /\ \E l \in FrameLens : Queue(l)
    BY <1>2 DEF MeterNote, rx, parse, tx
  <2>2. LineType' /\ BufferType'
    BY <2>1, QueueTypes
  <2>3. asked' \in Nat /\ Pending' = Pending
    BY <1>0, <2>1 DEF Pending
  <2>4. CountType'
    BY <1>0, <2>1, <2>3, SpendCount, KindsNamed DEF KindNames
  <2> QED
    BY <2>1, <2>2, <2>4, SameCalls DEF TypeInv
<1>3. CASE MeterByte
  <2>1. UNCHANGED <<asked, appAt, urgentAt, txDone, dma, txBuf, spent>>
    BY <1>3 DEF MeterByte, tx
  <2>2. Pending' = Pending
    BY <2>1 DEF Pending
  <2>3. CountType'
    BY <1>0, <2>1, <2>2, NoMoreCount
  <2> QED
    BY <1>3, <2>1, <2>3, MeterByteTypes, SameCalls DEF TypeInv
<1>4. CASE RxCallback
  <2>1. UNCHANGED <<frames, at, asked, appAt, urgentAt, txDone, dma, txBuf, spent>>
    BY <1>4 DEF RxCallback, tx, meter
  <2>2. Pending' = Pending
    BY <2>1 DEF Pending
  <2>3. CountType'
    BY <1>0, <2>1, <2>2, NoMoreCount
  <2> QED
    BY <1>4, <2>1, <2>3, RxTypes, SameLine, SameCalls DEF TypeInv
<1>5. CASE TxCallback
  <2>1. /\ UNCHANGED <<frames, at, fifo, cache, tmp, dlmsBuf, recvLen, lost, passed, appAt,
                       urgentAt, txDone, txBuf, spent>>
        /\ dma' = [on |-> FALSE, whole |-> FALSE]
        /\ asked' = IF dma.whole THEN asked + 1 ELSE asked
    BY <1>5 DEF TxCallback, rx, parse
  <2>2. CallType'
    BY <2>1 DEF TypeInv, CallType
  <2>3. asked' \in Nat /\ Pending' = Pending
    BY <1>0, <2>1 DEF Pending, Ones
  <2>4. CountType'
    BY <1>0, <2>1, <2>3, NoMoreCount
  <2> QED
    BY <2>1, <2>2, <2>4, SameLine, SameBuffers DEF TypeInv
<1> QED
  BY <1>1, <1>2, <1>3, <1>4, <1>5 DEF Meter, Isr

LEMMA TaskTypes ==
  ASSUME TypeInv, AppTask \/ UrgentTask
  PROVE  TypeInv'
<1>0. asked \in Nat /\ Pending \in Nat
  BY Numbers
<1>1. UNCHANGED <<frames, at, asked>>
  BY DEF AppTask, UrgentTask, Wake, HandleDone, Read, ReadFails, Parse, Request, Rest,
         AppCall, UrgentRequest, UrgentCall, meter
<1>2. LineType'
  BY <1>1, SameLine
<1>3. ASSUME UNCHANGED <<urgentAt, txDone, txBuf, dma>>, appAt' \notin Calling,
             appAt' \in Places \cup {"wait", "done", "read", "parse", "work"},
             UNCHANGED spent \/ Spends("oom")
      PROVE  CallType' /\ CountType'
  <2>1. CallType'
    BY <1>3 DEF TypeInv, CallType
  <2>2. asked' \in Nat /\ Pending' \in Nat /\ Pending' <= Pending
    BY <1>0, <1>1, <1>3 DEF Pending, Ones
  <2>3. CountType'
    <3>1. CASE UNCHANGED spent
      BY <2>2, <3>1, NoMoreCount
    <3>2. CASE Spends("oom")
      BY <1>0, <2>2, <3>2, SpendCount, KindsNamed DEF KindNames
    <3> QED
      BY <1>3, <3>1, <3>2
  <2> QED
    BY <2>1, <2>3
<1>4. ASSUME UNCHANGED <<fifo, cache, recvLen, lost, tmp, dlmsBuf, passed>>
      PROVE  BufferType'
  BY <1>1, <1>4, SameBuffers
<1>5. CASE Wake \/ Rest \/ ReadFails
  <2>1. /\ UNCHANGED <<fifo, cache, recvLen, lost, tmp, dlmsBuf, passed, urgentAt, txDone,
                       txBuf, dma>>
        /\ appAt' \in {"done", "wait", "work"} /\ (UNCHANGED spent \/ Spends("oom"))
    BY <1>5 DEF Wake, Rest, ReadFails, rx, parse, tx
  <2> QED
    BY <1>2, <1>3, <1>4, <2>1 DEF TypeInv, Calling
<1>6. CASE HandleDone
  <2>1. /\ UNCHANGED <<fifo, cache, recvLen, lost, tmp, dlmsBuf, passed, urgentAt,
                       txBuf, dma, spent>>
        /\ appAt' \in {"read", "work"} /\ txDone' = (txDone \/ "out" \in taken)
    BY <1>6 DEF HandleDone, rx, parse, Freed
  <2>2. CallType'
    BY <2>1 DEF TypeInv, CallType
  <2>3. Pending' \in Nat /\ Pending' <= Pending
    BY <1>0, <1>1, <2>1 DEF Pending, Ones, Calling
  <2>4. CountType'
    BY <1>0, <1>1, <2>1, <2>3, NoMoreCount
  <2> QED
    BY <1>2, <1>4, <2>1, <2>2, <2>4 DEF TypeInv
<1>7. CASE Read
  <2>1. /\ UNCHANGED <<fifo, lost, dlmsBuf, passed, urgentAt, txDone, txBuf, dma, spent>>
        /\ appAt' = "parse" /\ tmp' = cache /\ cache' = <<>> /\ recvLen' = 0
    BY <1>7 DEF Read, tx
  <2>2. <<>> \in Seq(Byte) /\ Len(<<>>) = 0 /\ 0 < Size /\ 0 \in 0..(Size - 1)
    BY EmptySeq, UartAssumption
  <2>3. BufferType'
    BY <1>1, <2>1, <2>2 DEF TypeInv, BufferType, Byte
  <2> QED
    BY <1>2, <1>3, <2>1, <2>3 DEF TypeInv, Calling
<1>8. CASE Parse
  <2>1. UNCHANGED <<urgentAt, txDone, txBuf, dma, spent>> /\ appAt' = "work"
    BY <1>8 DEF Parse, tx
  <2> QED
    BY <1>2, <1>3, <1>8, <2>1, ParseTypes DEF TypeInv, Calling
<1>9. CASE Request
  <2>1. /\ UNCHANGED <<fifo, cache, recvLen, lost, tmp, dlmsBuf, passed, urgentAt, txDone,
                       txBuf, dma>>
        /\ appAt = "work" /\ appAt' = "copy"
        /\ \E b \in {"request", "early"} : Spends(b)
    BY <1>9 DEF Request, App, rx, parse, tx
  <2>2. CallType'
    BY <2>1 DEF TypeInv, CallType, Places
  <2>3. Pending' \in Nat /\ Pending' = Pending + 1
    BY <1>0, <1>1, <2>1 DEF Pending, Ones, Calling
  <2>4. CountType'
    BY <1>0, <1>1, <2>1, <2>3, SpendCount, KindsNamed DEF KindNames
  <2> QED
    BY <1>2, <1>4, <2>1, <2>2, <2>4 DEF TypeInv
<1>10. CASE AppCall
  <2>1. UNCHANGED <<fifo, cache, recvLen, lost, tmp, dlmsBuf, passed, urgentAt, spent>>
    BY <1>10 DEF AppCall, rx, parse
  <2>2. PICK next \in Places \cup {"return"} :
          /\ Call("app", appAt, next)
          /\ appAt' = IF next = "return" THEN "work" ELSE next
    BY <1>10 DEF AppCall
  <2>3. /\ txDone' \in BOOLEAN /\ dma' \in [on : BOOLEAN, whole : BOOLEAN]
        /\ txBuf' \in [{"low", "high"} -> {"none", "app", "urgent"}]
        /\ Ones(dma'.whole) + Ones(next \in Calling)
             <= Ones(dma.whole) + Ones(appAt \in Calling)
    BY <2>2, CallTypes
  <2>4. CallType'
    BY <2>1, <2>2, <2>3 DEF TypeInv, CallType
  <2>5. next \in Calling <=> appAt' \in Calling
    BY <2>2 DEF Calling, Places
  <2>6. Pending' \in Nat /\ Pending' <= Pending
    BY <1>0, <1>1, <2>1, <2>3, <2>5 DEF Pending, Ones
  <2>7. CountType'
    BY <1>0, <1>1, <2>1, <2>6, NoMoreCount
  <2> QED
    BY <1>2, <1>4, <2>1, <2>4, <2>7 DEF TypeInv
<1>11. CASE UrgentRequest
  <2>1. /\ UNCHANGED <<fifo, cache, recvLen, lost, tmp, dlmsBuf, passed, appAt, txDone,
                       txBuf, dma>>
        /\ urgentAt = "idle" /\ urgentAt' = "copy" /\ Spends("urgent")
    BY <1>11 DEF UrgentRequest, rx, parse, tx
  <2>2. CallType'
    BY <2>1 DEF TypeInv, CallType, Places
  <2>3. Pending' \in Nat /\ Pending' = Pending + 1
    BY <1>0, <1>1, <2>1 DEF Pending, Ones, Calling
  <2>4. CountType'
    BY <1>0, <1>1, <2>1, <2>3, SpendCount, KindsNamed DEF KindNames
  <2> QED
    BY <1>2, <1>4, <2>1, <2>2, <2>4 DEF TypeInv
<1>12. CASE UrgentCall
  <2>1. UNCHANGED <<fifo, cache, recvLen, lost, tmp, dlmsBuf, passed, appAt, spent>>
    BY <1>12 DEF UrgentCall, rx, parse
  <2>2. PICK next \in Places \cup {"return"} :
          /\ Call("urgent", urgentAt, next)
          /\ urgentAt' = IF next = "return" THEN "idle" ELSE next
    BY <1>12 DEF UrgentCall
  <2>3. /\ txDone' \in BOOLEAN /\ dma' \in [on : BOOLEAN, whole : BOOLEAN]
        /\ txBuf' \in [{"low", "high"} -> {"none", "app", "urgent"}]
        /\ Ones(dma'.whole) + Ones(next \in Calling)
             <= Ones(dma.whole) + Ones(urgentAt \in Calling)
    BY <2>2, CallTypes
  <2>4. CallType'
    BY <2>1, <2>2, <2>3 DEF TypeInv, CallType
  <2>5. next \in Calling <=> urgentAt' \in Calling
    BY <2>2 DEF Calling, Places
  <2>6. Pending' \in Nat /\ Pending' <= Pending
    BY <1>0, <1>1, <2>1, <2>3, <2>5 DEF Pending, Ones
  <2>7. CountType'
    BY <1>0, <1>1, <2>1, <2>6, NoMoreCount
  <2> QED
    BY <1>2, <1>4, <2>1, <2>4, <2>7 DEF TypeInv
<1> QED
  BY <1>5, <1>6, <1>7, <1>8, <1>9, <1>10, <1>11, <1>12 DEF AppTask, UrgentTask

LEMMA TypeInductive ==
  /\ Init => TypeInv
  /\ TypeInv /\ [Next]_vars => TypeInv'
<1>1. ASSUME Init PROVE TypeInv
  <2>1. Len(<<>>) = 0 /\ \A S : <<>> \in Seq(S)
    BY EmptySeq
  <2>2. LineType
    BY <1>1, <2>1 DEF Init, LineType, Sending, Cell
  <2>3. BufferType
    <3>1. <<>> \in Seq(Byte) /\ <<>> \in Seq(0..Len(frames))
      BY EmptySeq
    <3>2. 0 <= FifoSize /\ 0 < Size /\ 0 < Longest /\ 0 \in 0..(Size - 1)
      BY UartAssumption
    <3> QED
      BY <1>1, <2>1, <3>1, <3>2 DEF Init, BufferType
  <2>4. CallType
    BY <1>1 DEF Init, CallType
  <2>5. CountType
    <3>1. spent \in [Kinds -> Nat] /\ asked \in Nat
      BY <1>1 DEF Init
    <3>2. Pending = 0
      BY <1>1 DEF Init, Pending, Ones, Calling
    <3>3. spent.request = 0 /\ spent.early = 0 /\ spent.urgent = 0 /\ spent.note = 0
          /\ spent.oom = 0
      BY <1>1, KindsNamed DEF Init, KindNames
    <3> QED
      BY <3>1, <3>2, <3>3, UartAssumption DEF CountType, Disturbed
  <2> QED
    BY <2>2, <2>3, <2>4, <2>5 DEF TypeInv
<1>2. ASSUME TypeInv, UNCHANGED vars PROVE TypeInv'
  <2>1. UNCHANGED <<frames, at, asked, fifo, cache, recvLen, lost, tmp, dlmsBuf, passed,
                    txDone, txBuf, dma, appAt, urgentAt, spent>>
    BY <1>2 DEF vars, meter, rx, parse, tx
  <2>2. Pending' = Pending
    BY <2>1 DEF Pending
  <2>3. CountType'
    BY <1>2, <2>1, <2>2, Numbers, NoMoreCount
  <2> QED
    BY <1>2, <2>1, <2>3, SameLine, SameBuffers, SameCalls DEF TypeInv
<1> QED
  BY <1>1, <1>2, LineTypes, TaskTypes DEF Next

\* Every buffer holds bytes of frames and keeps within its size, no more requests
\* are with the meter than were made, and what is passed on is a frame or 0.
THEOREM TypeCorrect == Spec => []TypeOK
<1>1. IInv /\ TypeInv => TypeOK
  BY TypesImply
<1> QED
  BY <1>1, Inductive, TypeInductive, PTL DEF Spec
=============================================================================
