------------------------------- MODULE AppUart -------------------------------
(* The serial line to the meter (app_uart.c over hosal_uart.c): the receive  *)
(* interrupt and its buffer, the application task that reads the buffer and  *)
(* puts frames together (udf_Meter_received_task), and app_uart_data_send    *)
(* with its one transmit buffer, called by the application task and by a     *)
(* task that preempts it: the timer task (Rafael_Register, the count of the  *)
(* power pin) or the OpenThread task (mac_received_cb).                      *)
EXTENDS Integers, Sequences, SequencesExt

CONSTANTS
  FifoSize, Trigger,  \* the receiver: its depth, and when it interrupts
  Size,               \* RX_BUFF_SIZE
  FrameLens,          \* lengths of the meter's frames, flags included
  Longest,            \* a frame of this length is refused (1200)
  MaxRequests,        \* bounds: requests of the application task that wait for
                      \*   the answer to the one before,
  MaxDisturbed        \*   and whatever else happens, together

ASSUME UartAssumption ==
  /\ Trigger \in 1..FifoSize /\ FifoSize \in Nat
  /\ Size \in Nat \ {0, 1} /\ Longest \in Nat \ {0}
  /\ FrameLens \subseteq {l \in Nat : l > 3 /\ l < Longest}
  /\ MaxRequests \in Nat /\ MaxDisturbed \in Nat

VARIABLES
  frames,    \* lengths of the frames the meter has begun to send or will
  at,        \* frame and place of the next byte it sends
  asked,     \* requests it has received and not dealt with
  fifo,      \* the receiver of the UART
  cache,     \* g_uart2_rx_io: what is in uart_cache; end is 0 at all times
  recvLen,
  lost,      \* whether unread bytes have been dropped
  events,    \* the bits of UART 2 in g_app_task_evt_var
  taken,     \* the bits app_task has taken
  appAt,     \* where app_task is
  tmp,       \* tmp_buff of __uart2_data_parse
  dlmsBuf,   \* dlms_rx_buf, as far as dlms_rx_length
  passed,    \* frames udf_Meter_Process was called with, 0 for anything else
  txDone,    \* __uart2_tx_done
  txBuf,     \* whose bytes the two halves of g_tx_buf are
  dma,       \* the transfer to the meter: running, and still what was meant
  urgentAt,  \* where the task that preempts it is in app_uart_data_send
  spent      \* how often each kind of thing has happened

meter == <<frames, at, asked>>
rx    == <<fifo, cache, recvLen, lost>>
parse == <<tmp, dlmsBuf, passed>>
tx    == <<txDone, txBuf, dma>>
vars  == <<meter, rx, events, taken, appAt, parse, tx, urgentAt, spent>>

\* What disturbs the dialogue: a request that does not wait, a frame of the
\* meter nobody asked for, a failure of mem_malloc, a request of the task that
\* preempts.
Disturbances == {"early", "note", "oom", "urgent"}

Kinds == {"request"} \cup Disturbances

Disturbed == spent.early + spent.note + spent.oom + spent.urgent

Spends(b) == /\ IF b = "request" THEN spent[b] < MaxRequests
                               ELSE Disturbed < MaxDisturbed
             /\ spent' = [spent EXCEPT ![b] = @ + 1]

-----------------------------------------------------------------------------
(* Bytes.  A byte is known by its frame and its place in it.                 *)

Kind(b) == IF b.place \in {1, frames[b.frame]} THEN "flag"
      ELSE IF b.place = 2 THEN "format"
      ELSE IF b.place = 3 THEN "length" ELSE "body"

Bytes(f, n) == [i \in 1..n |-> [frame |-> f, place |-> i]]

Whole(f) == Bytes(f, frames[f])

\* The byte the meter sends after b.
NextByte(b) == IF b.place = frames[b.frame] THEN [frame |-> b.frame + 1, place |-> 1]
                                            ELSE [b EXCEPT !.place = @ + 1]

\* The frames whose last byte has been sent.
Complete == at.frame - 1

Sending == at.frame <= Len(frames)

-----------------------------------------------------------------------------
(* The meter.                                                                *)

Queue(l) == frames' = Append(frames, l)

\* It answers a request, or not.
MeterAnswer ==
  /\ asked > 0
  /\ asked' = asked - 1
  /\ \/ \E l \in FrameLens : Queue(l)
     \/ UNCHANGED frames
  /\ UNCHANGED <<at, rx, events, taken, appAt, parse, tx, urgentAt, spent>>

\* An event notification, which nobody asked for.
MeterNote ==
  /\ Spends("note")
  /\ \E l \in FrameLens : Queue(l)
  /\ UNCHANGED <<at, asked, rx, events, taken, appAt, parse, tx, urgentAt>>

\* The interrupt is served before the receiver overruns.
MeterByte ==
  /\ Sending /\ Len(fifo) < FifoSize
  /\ fifo' = Append(fifo, at)
  /\ at' = NextByte(at)
  /\ UNCHANGED <<frames, asked, cache, recvLen, lost, events, taken, appAt,
                 parse, tx, urgentAt, spent>>

-----------------------------------------------------------------------------
(* Interrupts of UART 2.                                                     *)

\* The receiver interrupts when it is full enough, or when the line is quiet:
\* the meter does not pause within a frame.
Interrupts == Len(fifo) >= Trigger \/ (fifo # <<>> /\ at.place = 1)

\* hosal_uart_receive into the buffer from place n on, at most m bytes.
Received(n, m) == LET k == IF Len(fifo) < m THEN Len(fifo) ELSE m
                  IN  [cache |-> SubSeq(cache, 1, n) \o SubSeq(fifo, 1, k),
                       fifo  |-> SubSeq(fifo, k + 1, Len(fifo))]

\* What is left of the bytes r when the buffer has started over.
StartedOver(r) == LET k == IF Len(r) < Size - 1 THEN Len(r) ELSE Size - 1
                  IN  [cache |-> SubSeq(r, 1, k), fifo |-> SubSeq(r, k + 1, Len(r))]

\* Mutant: the last place is filled as well.
RefilledFull ==
  LET r == Received(Len(cache), Size - Len(cache))
  IN  IF Len(r.cache) > Size THEN StartedOver(r.fifo) ELSE r

\* Mutant: the index is set to what was received, not advanced by it.
RefilledFront == Received(0, Size - 1)

\* At the end of the buffer it starts over, and what was not read is lost.
Refilled ==
  LET r == Received(Len(cache), Size - Len(cache) - 1)
  IN  IF Len(r.cache) = Size - 1 THEN StartedOver(r.fifo) ELSE r

RxCallback ==
  /\ Interrupts
  /\ cache' = Refilled.cache /\ fifo' = Refilled.fifo
  /\ lost' = (lost \/ Len(cache') + Len(fifo') < Len(cache) + Len(fifo))
  /\ IF cache' # <<>> /\ Len(cache') # recvLen
       THEN /\ recvLen' = Len(cache')
            /\ events' = events \cup {"in"}
       ELSE UNCHANGED <<recvLen, events>>
  /\ UNCHANGED <<meter, taken, appAt, parse, tx, urgentAt, spent>>

\* The transfer ends: the meter has the request, unless it was spoiled.
TxCallback ==
  /\ dma.on
  /\ dma' = [on |-> FALSE, whole |-> FALSE]
  /\ asked' = IF dma.whole THEN asked + 1 ELSE asked
  /\ events' = events \cup {"out"}
  /\ UNCHANGED <<frames, at, rx, taken, appAt, parse, txDone, txBuf, urgentAt, spent>>

-----------------------------------------------------------------------------
(* app_task.                                                                 *)

\* The application task has the processor and is at l.
App(l) == urgentAt = "idle" /\ appAt = l

\* It wakes up for the meter or for another part of the application.
Wake ==
  /\ App("wait")
  /\ taken' = events /\ events' = {}
  /\ appAt' = "done"
  /\ UNCHANGED <<meter, rx, parse, tx, urgentAt, spent>>

\* What __uart2_tx_done is after a round.  Mutant: the end of a transfer is
\* taken note of only if nothing has come in.
FreedElse == txDone \/ taken = {"out"}

Freed == txDone \/ "out" \in taken

\* __uart_task
HandleDone ==
  /\ App("done")
  /\ txDone' = Freed
  /\ appAt' = IF "in" \in taken THEN "read" ELSE "work"
  /\ taken' = taken \ {"out"}
  /\ UNCHANGED <<meter, rx, events, parse, txBuf, dma, urgentAt, spent>>

\* Mutant: what was counted stays counted.
ReadKeepsLength ==
  /\ App("read")
  /\ tmp' = cache
  /\ cache' = <<>> /\ UNCHANGED recvLen
  /\ appAt' = "parse"
  /\ taken' = {}
  /\ UNCHANGED <<meter, fifo, lost, events, dlmsBuf, passed, tx, urgentAt, spent>>

\* __uart2_read, with the interrupt disabled.
Read ==
  /\ App("read")
  /\ tmp' = cache
  /\ cache' = <<>> /\ recvLen' = 0
  /\ appAt' = "parse"
  /\ taken' = {}
  /\ UNCHANGED <<meter, fifo, lost, events, dlmsBuf, passed, tx, urgentAt, spent>>

\* Without memory for tmp_buff the bytes stay where they are.
ReadFails ==
  /\ App("read")
  /\ Spends("oom")
  /\ appAt' = "work"
  /\ taken' = {}
  /\ UNCHANGED <<meter, rx, events, parse, tx, urgentAt>>

\* Mutant: an empty buffer takes any byte.
StoredAll == dlmsBuf \o tmp

\* An empty buffer takes nothing before a flag.
Stored ==
  LET first == SelectInSeq(tmp, LAMBDA b : Kind(b) = "flag")
  IN  IF dlmsBuf # <<>> THEN dlmsBuf \o tmp
      ELSE IF first = 0 THEN <<>>
      ELSE SubSeq(tmp, first, Len(tmp))

\* The length b may announce in its second byte, and in its third; bytes that
\* have not come are 0.  A flag in the second is more than 1200; a byte of the
\* data may be anything.
High(b) == IF Len(b) < 2 THEN {0}
           ELSE CASE Kind(b[2]) = "format" -> {0}
                  [] Kind(b[2]) = "flag" -> {Longest}
                  [] OTHER -> {0, Longest - 1, Longest}

Low(b) == IF Len(b) < 3 THEN {0}
          ELSE IF Kind(b[3]) = "length" THEN {frames[b[3].frame] - 2}
          ELSE 0..(Longest - 1)

\* Mutant: one byte too many.
AnnouncedLong(b) == {h + l + 3 : h \in High(b), l \in Low(b)}

Announced(b) == {h + l + 2 : h \in High(b), l \in Low(b)}

\* The number of the frame b is, 0 if it is none.
FrameOf(b) == IF b # <<>> /\ b = Whole(b[1].frame) THEN b[1].frame ELSE 0

\* udf_Meter_received_task
Parse ==
  /\ App("parse")
  /\ \E n \in Announced(Stored) :
       LET b == Stored
           refused == n >= Longest \/ Len(b) >= Longest
       IN  /\ dlmsBuf' = IF refused \/ Len(b) >= n THEN <<>> ELSE b
           /\ passed' = IF ~refused /\ Len(b) = n THEN Append(passed, FrameOf(b))
                        ELSE passed
  /\ tmp' = <<>>
  /\ appAt' = "work"
  /\ UNCHANGED <<meter, rx, events, taken, tx, urgentAt, spent>>

\* Nothing is on its way to or from the meter.
Settled == /\ ~dma.on /\ asked = 0 /\ ~Sending
           /\ fifo = <<>> /\ cache = <<>> /\ events = {}

\* A part of the application sends a request to the meter; it need not have
\* waited for the answer to the one before.
Request ==
  /\ App("work")
  /\ IF Settled THEN Spends("request") ELSE Spends("early")
  /\ appAt' = "copy"
  /\ UNCHANGED <<meter, rx, events, taken, parse, tx, urgentAt>>

Rest ==
  /\ App("work")
  /\ appAt' = "wait"
  /\ UNCHANGED <<meter, rx, events, taken, parse, tx, urgentAt, spent>>

-----------------------------------------------------------------------------
(* app_uart_data_send, by one of two tasks.  Nothing is ever sent on UART 1, *)
(* so that the first check always lets the call copy.                        *)

Fill(t, half) == /\ txBuf' = [txBuf EXCEPT ![half] = t]
                 /\ dma' = [dma EXCEPT !.whole = FALSE]
                 /\ UNCHANGED txDone

\* HOSAL_UART_DMA_TX_START, which does not ask whether a transfer is running.
Start(t) == /\ dma' = [on |-> TRUE,
                       whole |-> ~dma.on /\ txBuf["low"] = t /\ txBuf["high"] = t]
            /\ UNCHANGED <<txDone, txBuf>>

\* The step of a call at place l, and the place after it.
Call(t, l, next) ==
  \/ l = "copy"   /\ next = "copying" /\ Fill(t, "low")
  \/ l = "copying" /\ next = "check"  /\ Fill(t, "high")
  \/ l = "check"  /\ txDone /\ next = "started" /\ Start(t)
  \/ l = "check"  /\ ~txDone /\ next = "return" /\ UNCHANGED tx
  \/ l = "started" /\ next = "return" /\ txDone' = FALSE /\ UNCHANGED <<txBuf, dma>>

Places == {"copy", "copying", "check", "started"}

AppCall ==
  /\ urgentAt = "idle"
  /\ \E next \in Places \cup {"return"} :
       /\ Call("app", appAt, next)
       /\ appAt' = IF next = "return" THEN "work" ELSE next
  /\ UNCHANGED <<meter, rx, events, taken, parse, urgentAt, spent>>

\* The timer task starts an authentication or asks for the meter's log, or an
\* evaluation board reads the meter by radio.
UrgentRequest ==
  /\ urgentAt = "idle"
  /\ Spends("urgent")
  /\ urgentAt' = "copy"
  /\ UNCHANGED <<meter, rx, events, taken, appAt, parse, tx>>

UrgentCall ==
  /\ \E next \in Places \cup {"return"} :
       /\ Call("urgent", urgentAt, next)
       /\ urgentAt' = IF next = "return" THEN "idle" ELSE next
  /\ UNCHANGED <<meter, rx, events, taken, appAt, parse, spent>>

-----------------------------------------------------------------------------
Init ==
  /\ frames = <<>> /\ at = [frame |-> 1, place |-> 1] /\ asked = 0
  /\ fifo = <<>> /\ cache = <<>> /\ recvLen = 0 /\ lost = FALSE
  /\ events = {} /\ taken = {}
  /\ appAt = "wait" /\ urgentAt = "idle"
  /\ tmp = <<>> /\ dlmsBuf = <<>> /\ passed = <<>>
  /\ txDone = TRUE
  /\ txBuf = [h \in {"low", "high"} |-> "none"]
  /\ dma = [on |-> FALSE, whole |-> FALSE]
  /\ spent = [b \in Kinds |-> 0]

Meter == MeterAnswer \/ MeterNote \/ MeterByte

Isr == RxCallback \/ TxCallback

AppTask == Wake \/ HandleDone \/ Read \/ ReadFails \/ Parse \/ Request \/ Rest \/ AppCall

UrgentTask == UrgentRequest \/ UrgentCall

Next == Meter \/ Isr \/ AppTask \/ UrgentTask

Spec == Init /\ [][Next]_vars

\* The meter sends a frame it has begun to its end, interrupts are served, the
\* urgent task finishes its call, and the application task gets the
\* processor again and again.
FairSpec == /\ Spec
            /\ WF_vars(MeterByte) /\ WF_vars(RxCallback) /\ WF_vars(TxCallback)
            /\ WF_vars(UrgentCall) /\ WF_vars(AppTask)

-----------------------------------------------------------------------------
(* Properties.                                                               *)

Byte == [frame : 1..Len(frames), place : 1..Longest]

\* The application asks and waits, and nothing else is on the line.
Dialogue == \A b \in Disturbances \ {"oom"} : spent[b] = 0

\* Every variable keeps its type; the buffer never fills its last place, which
\* would make its two indices equal (app_uart.c:199-206).
TypeOK ==
  /\ \A f \in DOMAIN frames : frames[f] \in FrameLens
  /\ Complete \in 0..Len(frames) /\ at.place \in 1..Longest
  /\ asked \in 0..(MaxRequests + MaxDisturbed)
  /\ \A s \in {fifo, cache, tmp, dlmsBuf} : \A i \in DOMAIN s : s[i] \in Byte
  /\ Len(fifo) <= FifoSize /\ Len(cache) < Size /\ Len(dlmsBuf) < Longest
  /\ recvLen \in 0..(Size - 1) /\ lost \in BOOLEAN
  /\ events \subseteq {"in", "out"} /\ taken \subseteq {"in", "out"}
  /\ appAt \in Places \cup {"wait", "done", "read", "parse", "work"}
  /\ urgentAt \in Places \cup {"idle"}
  /\ \A i \in DOMAIN passed : passed[i] \in 0..Len(frames)
  /\ txDone \in BOOLEAN /\ dma \in [on : BOOLEAN, whole : BOOLEAN]
  /\ txBuf \in [{"low", "high"} -> {"none", "app", "urgent"}]

\* While memory lasts, bytes in the buffer are never left unread with no event
\* to have them read, although the interrupt sends one only when the length of
\* what is unread changed (app_uart.c:216-221).
UnreadHasEvent ==
  cache # <<>> /\ spent.oom = 0 => "in" \in events \cup taken

\* A transmitter that is marked busy becomes free again: a transfer is running
\* or its end has not been handled yet (app_uart.c:253-259, 289).
DoneWillCome == ~txDone => dma.on \/ "out" \in events \cup taken

\* With one caller, the transmitter is not marked free during a transfer, but for
\* the moment in which the call that started it has not marked it busy
\* (app_uart.c:287-289).
DoneMeansIdle ==
  spent.urgent = 0 => (dma.on => ~txDone \/ "started" \in {appAt, urgentAt})

\* A single caller that waits is never refused because the end of the transfer
\* before has not been handled, although its answer is: the bits of one round are
\* handled with the end of the transfer first (app_uart.c:253-269).
NeverRefused ==
  spent.urgent = 0 /\ spent.early = 0 /\ appAt = "check" => txDone

\* The flag of the port is right whenever a single caller relies on it: it is not
\* up too soon, and not down too long.
OneCallerServed == DoneMeansIdle /\ NeverRefused

\* In a dialogue, all that the meter sent and that was not passed on is between it and the
\* parser, each byte once and in order, however interrupts and reads cut it: from the first
\* byte of the frame to be passed next to the one the meter sends next.
NoByteLost ==
  LET line == dlmsBuf \o tmp \o cache \o Append(fifo, at)
  IN  Dialogue => /\ line[1] = [frame |-> Len(passed) + 1, place |-> 1]
                  /\ \A i \in 1..(Len(line) - 1) : line[i + 1] = NextByte(line[i])

\* When all that the meter sent has been read and parsed, no part of a frame is
\* left in dlms_rx_buf to stand before the next one (das_dlms_cmd.c:4861-4883).
\* It holds of requests and their answers; an event that the meter sends back to
\* back with an answer breaks it, when a read takes in the end of the one and the
\* begin of the other: both are dropped, and what follows is skipped up to the
\* closing flag of the second, which stays.
CleanBetweenFrames ==
  at.place = 1 /\ fifo = <<>> /\ cache = <<>> /\ tmp = <<>> => dlmsBuf = <<>>

\* What udf_Meter_Process gets are whole frames of the meter, in their order,
\* unless the receive buffer has started over (das_dlms_cmd.c:4850-4884).
Line == INSTANCE FrameLine WITH complete <- Complete

PassesWholeFrames == Line!Spec

\* In a dialogue, while memory lasts, every answer is passed on in the end.
Answered ==
  \A f \in 1..MaxRequests :
    f \in DOMAIN frames ~> Contains(passed, f) \/ ~Dialogue \/ spent.oom > 0
=============================================================================
