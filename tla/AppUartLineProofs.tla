-------------------------- MODULE AppUartLineProofs --------------------------
(* Theorems about the bytes of AppUart on their way from the meter to the    *)
(* parser: what udf_Meter_Process gets, under any order of interrupts,       *)
(* reads, requests and failures, and that a dialogue loses nothing.  A byte  *)
(* is followed through four buffers; seen as one row, from the first byte    *)
(* not yet passed on to the next the meter sends, they change only at their  *)
(* two ends.                                                                 *)
EXTENDS AppUartProofs

-----------------------------------------------------------------------------
(* Bytes in a row.                                                           *)

\* Each byte is the one the meter sends after the one before it.
Linked(s) == \A i \in 1..(Len(s) - 1) : s[i + 1] = NextByte(s[i])

LEMMA NextIsLater ==
  ASSUME NEW b \in Cell
  PROVE  /\ NextByte(b) \in Cell
         /\ b.place = frames[b.frame] =>
              NextByte(b).frame = b.frame + 1 /\ NextByte(b).place = 1
         /\ b.place # frames[b.frame] =>
              NextByte(b).frame = b.frame /\ NextByte(b).place = b.place + 1
<1>1. CASE b.place = frames[b.frame]
  BY <1>1 DEF NextByte, Cell
<1>2. CASE b.place # frames[b.frame]
  BY <1>2, NextPlace DEF NextByte
<1> QED
  BY <1>1, <1>2

LEMMA LinkedSuffix ==
  ASSUME NEW s \in Seq(Cell), Linked(s), NEW k \in 1..Len(s)
  PROVE  LET t == SubSeq(s, k, Len(s))
         IN  t \in Seq(Cell) /\ Linked(t) /\ Len(t) = Len(s) - k + 1 /\ t[1] = s[k]
<1> DEFINE t == SubSeq(s, k, Len(s))
<1>1. Len(s) \in Nat
  BY LenProperties
<1>2. /\ t \in Seq(Cell) /\ Len(t) = Len(s) - k + 1
      /\ \A i \in 1..(Len(s) - k + 1) : t[i] = s[k + i - 1]
  BY <1>1, SubSeqProperties, ElementOfSeq
<1> HIDE DEF t
<1>3. ASSUME NEW i \in 1..(Len(t) - 1) PROVE t[i + 1] = NextByte(t[i])
  <2>1. t[i + 1] = s[k + (i + 1) - 1] /\ t[i] = s[k + i - 1]
    BY <1>1, <1>2
  <2>2. k + i - 1 \in 1..(Len(s) - 1) /\ (k + i - 1) + 1 = k + (i + 1) - 1
    BY <1>1, <1>2
  <2> QED
    BY <2>1, <2>2 DEF Linked
<1>4. t[1] = s[k]
  <2>1. 1 \in 1..(Len(s) - k + 1) /\ k + 1 - 1 = k
    BY <1>1
  <2> QED
    BY <1>2, <2>1
<1> QED
  BY <1>2, <1>3, <1>4 DEF Linked, t

\* None comes before the frame of the first.
LEMMA LinkedOrder ==
  ASSUME NEW s \in Seq(Cell), Linked(s), NEW k \in 1..Len(s)
  PROVE  s[1].frame <= s[k].frame
<1> DEFINE I == {i \in 1..Len(s) : ~(s[1].frame <= s[i].frame)}
<1>1. Len(s) \in Nat /\ \A i \in 1..Len(s) : s[i] \in Cell /\ s[i].frame \in Nat
  <2>1. \A i \in 1..Len(s) : s[i] \in Cell
    BY ElementOfSeq
  <2>2. \A b \in Cell : b.frame \in Nat
    BY DEF Cell
  <2> QED
    BY <2>1, <2>2, LenProperties
<1>2. ASSUME I # {} PROVE FALSE
  <2>1. PICK m \in I : \A j \in I : m <= j
    BY <1>1, <1>2, MinPlace
  <2>2. m \in 1..Len(s) /\ ~(s[1].frame <= s[m].frame)
    BY <2>1
  <2>3. m # 1 /\ 1 \in 1..Len(s)
    BY <1>1, <2>2
  <2>4. m - 1 \in 1..(Len(s) - 1) /\ (m - 1) + 1 = m /\ m - 1 < m /\ m - 1 \in 1..Len(s)
    BY <1>1, <2>2, <2>3
  <2>5. s[1].frame <= s[m - 1].frame
    <3>1. m - 1 \notin I
      BY <2>1, <2>2, <2>4
    <3> QED
      BY <2>4, <3>1
  <2>6. s[m] = NextByte(s[m - 1])
    BY <2>4 DEF Linked
  <2>7. s[m - 1].frame <= s[m].frame
    BY <1>1, <2>4, <2>6, NextIsLater
  <2> QED
    BY <1>1, <2>2, <2>3, <2>4, <2>5, <2>7
<1> QED
  BY <1>2

\* From the first byte of a frame to its last, the bytes are the frame.
LEMMA LinkedFrame ==
  ASSUME NEW s \in Seq(Cell), Linked(s), NEW f \in Nat, frames[f] \in Nat,
         s # <<>>, s[1] = [frame |-> f, place |-> 1], Len(s) <= frames[f]
  PROVE  s = Bytes(f, Len(s))
<1> DEFINE I == {i \in 1..Len(s) : s[i] # [frame |-> f, place |-> i]}
<1>1. Len(s) \in Nat \ {0}
  BY EmptySeq
<1>2. ASSUME I # {} PROVE FALSE
  <2>1. PICK m \in I : \A j \in I : m <= j
    BY <1>1, <1>2, MinPlace
  <2>2. m \in 1..Len(s) /\ s[m] # [frame |-> f, place |-> m]
    BY <2>1
  <2>3. m # 1
    BY <2>2
  <2>4. m - 1 \in 1..(Len(s) - 1) /\ (m - 1) + 1 = m /\ m - 1 < m /\ m - 1 \in 1..Len(s)
        /\ m - 1 # frames[f]
    BY <1>1, <2>2, <2>3
  <2>5. s[m - 1] = [frame |-> f, place |-> m - 1]
    <3>1. m - 1 \notin I
      BY <2>1, <2>2, <2>4
    <3> QED
      BY <2>4, <3>1
  <2>6. s[m] = NextByte(s[m - 1])
    BY <2>4 DEF Linked
  <2>7. s[m] = [[frame |-> f, place |-> m - 1] EXCEPT !.place = @ + 1]
    BY <2>4, <2>5, <2>6 DEF NextByte
  <2>8. s[m] = [frame |-> f, place |-> (m - 1) + 1]
    BY <2>7
  <2> QED
    BY <2>2, <2>4, <2>8
<1>3. \A i \in 1..Len(s) : s[i] = [frame |-> f, place |-> i]
  BY <1>2
<1>4. s = [i \in 1..Len(s) |-> s[i]]
  BY LenProperties
<1> QED
  BY <1>3, <1>4 DEF Bytes

\* A row goes on where its last byte says.
LEMMA LinkedAppend ==
  ASSUME NEW s \in Seq(Cell), Linked(s), s # <<>>, NEW b, b = NextByte(s[Len(s)])
  PROVE  Append(s, b) \in Seq(Cell) /\ Linked(Append(s, b))
<1>1. Len(s) \in Nat \ {0}
  BY EmptySeq
<1>2. s[Len(s)] \in Cell
  BY <1>1, ElementOfSeq
<1>3. b \in Cell
  BY <1>2, NextIsLater
<1>4. /\ Append(s, b) \in Seq(Cell) /\ Len(Append(s, b)) = Len(s) + 1
      /\ \A i \in 1..Len(s) : Append(s, b)[i] = s[i]
      /\ Append(s, b)[Len(s) + 1] = b
  BY <1>3, AppendProperties
<1>5. ASSUME NEW i \in 1..(Len(Append(s, b)) - 1)
      PROVE  Append(s, b)[i + 1] = NextByte(Append(s, b)[i])
  <2>1. i \in 1..Len(s) /\ Append(s, b)[i] = s[i]
    BY <1>1, <1>4
  <2>2. CASE i = Len(s)
    BY <1>4, <2>1, <2>2
  <2>3. CASE i # Len(s)
    <3>1. i \in 1..(Len(s) - 1) /\ i + 1 \in 1..Len(s)
      BY <1>1, <2>1, <2>3
    <3> QED
      BY <1>4, <2>1, <3>1 DEF Linked
  <2> QED
    BY <2>2, <2>3
<1> QED
  BY <1>4, <1>5 DEF Linked

\* The parts of a row.
LEMMA LinkedParts ==
  ASSUME NEW s \in Seq(Cell), NEW t \in Seq(Cell), Linked(s \o t)
  PROVE  /\ Linked(s) /\ Linked(t)
         /\ s # <<>> /\ t # <<>> => t[1] = NextByte(s[Len(s)])
<1>1. Len(s) \in Nat /\ Len(t) \in Nat
  BY LenProperties
<1>2. /\ Len(s \o t) = Len(s) + Len(t)
      /\ \A i \in 1 .. Len(s) + Len(t) :
           (s \o t)[i] = IF i <= Len(s) THEN s[i] ELSE t[i - Len(s)]
  BY ConcatProperties
<1>3. ASSUME NEW i \in 1..(Len(s) - 1) PROVE s[i + 1] = NextByte(s[i])
  <2>1. i \in 1..(Len(s) + Len(t) - 1) /\ i <= Len(s) /\ i + 1 <= Len(s)
        /\ i \in 1..(Len(s) + Len(t)) /\ i + 1 \in 1..(Len(s) + Len(t))
    BY <1>1
  <2>2. (s \o t)[i] = s[i] /\ (s \o t)[i + 1] = s[i + 1]
    BY <1>2, <2>1
  <2> QED
    BY <1>2, <2>1, <2>2 DEF Linked
<1>4. ASSUME NEW i \in 1..(Len(t) - 1) PROVE t[i + 1] = NextByte(t[i])
  <2> DEFINE j == i + Len(s)
  <2>1. j \in 1..(Len(s) + Len(t) - 1) /\ ~(j <= Len(s)) /\ ~(j + 1 <= Len(s))
        /\ j \in 1..(Len(s) + Len(t)) /\ j + 1 \in 1..(Len(s) + Len(t))
        /\ j - Len(s) = i /\ j + 1 - Len(s) = i + 1
    BY <1>1
  <2> HIDE DEF j
  <2>2. (s \o t)[j] = t[i] /\ (s \o t)[j + 1] = t[i + 1]
    BY <1>2, <2>1
  <2> QED
    BY <1>2, <2>1, <2>2 DEF Linked
<1>5. ASSUME s # <<>>, t # <<>> PROVE t[1] = NextByte(s[Len(s)])
  <2>1. Len(s) \in Nat \ {0} /\ Len(t) \in Nat \ {0}
    BY <1>5, EmptySeq
  <2>2. Len(s) \in 1..(Len(s) + Len(t) - 1) /\ ~(Len(s) + 1 <= Len(s))
        /\ Len(s) \in 1..(Len(s) + Len(t)) /\ Len(s) + 1 \in 1..(Len(s) + Len(t))
        /\ Len(s) + 1 - Len(s) = 1
    BY <2>1
  <2>3. (s \o t)[Len(s)] = s[Len(s)] /\ (s \o t)[Len(s) + 1] = t[1]
    BY <1>2, <2>2
  <2> QED
    BY <1>2, <2>2, <2>3 DEF Linked
<1> QED
  BY <1>3, <1>4, <1>5 DEF Linked

\* A part of a row, from place k on.
LEMMA SuffixOfConcat ==
  ASSUME NEW S, NEW s \in Seq(S), NEW t \in Seq(S), t # <<>>, NEW k \in 1..(Len(s) + 1)
  PROVE  SubSeq(s, k, Len(s)) \o t = SubSeq(s \o t, k, Len(s \o t))
<1>1. Len(s) \in Nat /\ Len(t) \in Nat \ {0}
  BY LenProperties, EmptySeq
<1> DEFINE a == SubSeq(s, k, Len(s))
           c == SubSeq(s \o t, k, Len(s \o t))
<1>2. /\ s \o t \in Seq(S) /\ Len(s \o t) = Len(s) + Len(t)
      /\ \A i \in 1 .. Len(s) + Len(t) :
           (s \o t)[i] = IF i <= Len(s) THEN s[i] ELSE t[i - Len(s)]
  BY ConcatProperties
<1>3. /\ a \in Seq(S) /\ Len(a) = Len(s) - k + 1
      /\ \A i \in 1..(Len(s) - k + 1) : a[i] = s[k + i - 1]
  BY <1>1, SubSeqProperties, ElementOfSeq
<1>4. /\ c \in Seq(S) /\ Len(c) = Len(s) + Len(t) - k + 1
      /\ \A i \in 1..(Len(s) + Len(t) - k + 1) : c[i] = (s \o t)[k + i - 1]
  BY <1>1, <1>2, SubSeqProperties, ElementOfSeq
<1> HIDE DEF a, c
<1>5. /\ a \o t \in Seq(S) /\ Len(a \o t) = Len(a) + Len(t)
      /\ \A i \in 1 .. Len(a) + Len(t) :
           (a \o t)[i] = IF i <= Len(a) THEN a[i] ELSE t[i - Len(a)]
  BY <1>3, ConcatProperties
<1>6. Len(a \o t) = Len(c)
  BY <1>1, <1>3, <1>4, <1>5
<1>7. ASSUME NEW i \in 1..Len(a \o t) PROVE (a \o t)[i] = c[i]
  <2>1. i \in 1..(Len(s) + Len(t) - k + 1) /\ k + i - 1 \in 1..(Len(s) + Len(t))
        /\ i \in 1..(Len(a) + Len(t))
    BY <1>1, <1>3, <1>5
  <2>2. CASE i <= Len(a)
    <3>1. i \in 1..(Len(s) - k + 1) /\ k + i - 1 <= Len(s)
      BY <1>1, <1>3, <2>1, <2>2
    <3> QED
      BY <1>2, <1>3, <1>4, <1>5, <2>1, <2>2, <3>1
  <2>3. CASE ~(i <= Len(a))
    <3>1. ~(k + i - 1 <= Len(s)) /\ k + i - 1 - Len(s) = i - Len(a)
      BY <1>1, <1>3, <2>1, <2>3
    <3>2. (s \o t)[k + i - 1] = t[k + i - 1 - Len(s)]
      BY <1>2, <2>1, <3>1
    <3>3. (a \o t)[i] = t[i - Len(a)]
      BY <1>5, <2>1, <2>3
    <3> QED
      BY <1>4, <2>1, <3>1, <3>2, <3>3
  <2> QED
    BY <2>2, <2>3
<1>8. a \o t = c
  BY <1>4, <1>5, <1>6, <1>7, SeqEqual
<1> QED
  BY <1>8 DEF a, c

-----------------------------------------------------------------------------
(* The bytes on their way.                                                   *)

\* The bytes the meter has sent.
Sent == {b \in Cell : b.frame < at.frame \/ (b.frame = at.frame /\ b.place < at.place)}

\* What has not been passed on or dropped, and the byte that comes next.
Unpassed == Append((dlmsBuf \o tmp) \o (cache \o fifo), at)

\* What begins with the first byte of a frame holds its head.
Begun(s) == s # <<>> /\ s[1].place = 1 => Len(s) >= 3

SentOnly == /\ fifo \in Seq(Sent) /\ cache \in Seq(Sent)
            /\ tmp \in Seq(Sent) /\ dlmsBuf \in Seq(Sent)

InPlace == /\ tmp # <<>> => appAt = "parse"
           /\ dlmsBuf # <<>> => Kind(dlmsBuf[1]) = "flag"

InRow == ~lost => /\ Linked(Unpassed)
                  /\ Line!Latest < Unpassed[1].frame
                  /\ Begun(cache) /\ Begun(tmp) /\ Begun(dlmsBuf)

LineInv == SentOnly /\ InPlace /\ InRow

LEMMA CellSeqs ==
  ASSUME TypeInv
  PROVE  /\ fifo \in Seq(Cell) /\ cache \in Seq(Cell)
         /\ tmp \in Seq(Cell) /\ dlmsBuf \in Seq(Cell) /\ at \in Cell
         /\ Byte \subseteq Cell
<1>1. Byte \subseteq Cell
  <2>1. Len(frames) \in Nat /\ Longest \in Nat
    BY LenProperties, UartAssumption DEF TypeInv, LineType
  <2> QED
    BY <2>1 DEF Byte, Cell
<1> QED
  BY <1>1, SeqMonotonic DEF TypeInv, BufferType, LineType

LEMMA AppendToConcat ==
  ASSUME NEW S, NEW s \in Seq(S), NEW t \in Seq(S), NEW e \in S
  PROVE  Append(s \o t, e) = s \o Append(t, e)
<1>1. s \o t \in Seq(S)
  BY ConcatProperties
<1>2. <<e>> \in Seq(S)
  OBVIOUS
<1>3. Append(s \o t, e) = (s \o t) \o <<e>> /\ Append(t, e) = t \o <<e>>
  BY <1>1, AppendIsConcat
<1> QED
  BY <1>2, <1>3, ConcatAssociative

\* The bytes in the buffers, without the one to come.
LEMMA UnpassedBytes ==
  ASSUME TypeInv
  PROVE  LET w == (dlmsBuf \o tmp) \o (cache \o fifo)
         IN  /\ w \in Seq(Byte) /\ w \in Seq(Cell) /\ Unpassed = Append(w, at)
             /\ Unpassed \in Seq(Cell) /\ Len(Unpassed) = Len(w) + 1 /\ Len(w) \in Nat
             /\ \A i \in 1..Len(w) : Unpassed[i] = w[i] /\ Unpassed[i] \in Byte
             /\ Unpassed[Len(w) + 1] = at
<1> DEFINE w == (dlmsBuf \o tmp) \o (cache \o fifo)
<1>1. dlmsBuf \o tmp \in Seq(Byte) /\ cache \o fifo \in Seq(Byte)
  BY ConcatProperties DEF TypeInv, BufferType
<1>2. w \in Seq(Byte)
  BY <1>1, ConcatProperties
<1> HIDE DEF w
<1>3. w \in Seq(Cell)
  BY <1>2, CellSeqs, SeqMonotonic
<1>4. /\ Append(w, at) \in Seq(Cell) /\ Len(Append(w, at)) = Len(w) + 1
      /\ \A i \in 1..Len(w) : Append(w, at)[i] = w[i]
      /\ Append(w, at)[Len(w) + 1] = at
  BY <1>3, CellSeqs, AppendProperties
<1>5. Unpassed = Append(w, at)
  BY DEF Unpassed, w
<1>6. \A i \in 1..Len(w) : w[i] \in Byte
  BY <1>2, ElementOfSeq
<1>7. Len(w) \in Nat
  BY <1>2, LenProperties
<1> QED
  BY <1>2, <1>3, <1>4, <1>5, <1>6, <1>7 DEF w

\* The same row, as what is put together and what is to be read.
LEMMA UnpassedParts ==
  ASSUME TypeInv
  PROVE  LET x == dlmsBuf \o tmp
             y == Append(cache \o fifo, at)
             z == Append(fifo, at)
         IN  /\ x \in Seq(Cell) /\ y \in Seq(Cell) /\ z \in Seq(Cell)
             /\ y # <<>> /\ z # <<>>
             /\ Unpassed = x \o y /\ y = cache \o z
<1>1. dlmsBuf \o tmp \in Seq(Cell) /\ cache \o fifo \in Seq(Cell) /\ at \in Cell
      /\ fifo \in Seq(Cell) /\ cache \in Seq(Cell)
  BY CellSeqs, ConcatProperties
<1>2. Append(cache \o fifo, at) \in Seq(Cell) /\ Append(cache \o fifo, at) # <<>>
      /\ Append(fifo, at) \in Seq(Cell) /\ Append(fifo, at) # <<>>
  BY <1>1, AppendProperties
<1>5. at \in Cell
  BY <1>1
<1>6. /\ dlmsBuf \o tmp \in Seq(Cell) /\ cache \o fifo \in Seq(Cell)
      /\ cache \in Seq(Cell) /\ fifo \in Seq(Cell)
  BY <1>1
<1>4. cache \o Append(fifo, at) = Append(cache \o fifo, at)
  BY <1>5, <1>6, AppendToConcat
<1>7. (dlmsBuf \o tmp) \o Append(cache \o fifo, at)
        = Append((dlmsBuf \o tmp) \o (cache \o fifo), at)
  BY <1>5, <1>6, AppendToConcat
<1>3. Unpassed = (dlmsBuf \o tmp) \o Append(cache \o fifo, at)
  BY <1>7 DEF Unpassed
<1> QED
  BY <1>1, <1>2, <1>3, <1>4

-----------------------------------------------------------------------------
(* The steps.                                                                *)

LEMMA SameRow ==
  ASSUME LineInv, UNCHANGED <<frames, at, fifo, cache, tmp, dlmsBuf, passed, lost>>,
         tmp # <<>> => appAt' = "parse"
  PROVE  LineInv'
BY DEF LineInv, SentOnly, InPlace, InRow, Sent, Kind, Linked, NextByte, Unpassed, Begun,
       Line!Latest

\* A frame that the meter will send later changes nothing of the row.
LEMMA QueueRow ==
  ASSUME TypeInv, LineInv, NEW l \in FrameLens, Queue(l),
         UNCHANGED <<at, fifo, cache, tmp, dlmsBuf, passed, lost, appAt>>
  PROVE  LineInv'
<1>1. \A f \in 1..Len(frames) : frames'[f] = frames[f]
  BY AppendProperties DEF Queue, TypeInv, LineType
<1>2. ASSUME NEW b \in Byte PROVE Kind(b)' = Kind(b) /\ NextByte(b)' = NextByte(b)
  <2>1. b.frame \in 1..Len(frames)
    BY DEF Byte
  <2>2. frames'[b.frame] = frames[b.frame]
    BY <1>1, <2>1
  <2> QED
    BY <2>2 DEF Kind, NextByte
<1>3. SentOnly'
  BY DEF LineInv, SentOnly, Sent
<1>4. InPlace'
  <2>1. ASSUME dlmsBuf # <<>> PROVE Kind(dlmsBuf[1])' = "flag"
    <3>1. dlmsBuf \in Seq(Byte)
      BY DEF TypeInv, BufferType
    <3>2. 1 \in 1..Len(dlmsBuf)
      BY <2>1, <3>1, EmptySeq
    <3>3. dlmsBuf[1] \in Byte
      BY <3>1, <3>2, ElementOfSeq
    <3>4. Kind(dlmsBuf[1]) = "flag"
      BY <2>1 DEF LineInv, InPlace
    <3>5. Kind(dlmsBuf[1])' = Kind(dlmsBuf[1])
      BY <1>1, <3>3 DEF Kind, Byte
    <3> QED
      BY <3>4, <3>5
  <2> QED
    BY <2>1 DEF LineInv, InPlace
<1>5. InRow'
  <2> SUFFICES ASSUME ~lost PROVE InRow'
    BY DEF InRow
  <2>1. Unpassed' = Unpassed
    BY DEF Unpassed
  <2>2. Linked(Unpassed)'
    <3>1. ASSUME NEW i \in 1..(Len(Unpassed) - 1)
          PROVE  Unpassed'[i + 1] = NextByte(Unpassed[i])'
      <4> DEFINE w == (dlmsBuf \o tmp) \o (cache \o fifo)
      <4>4. /\ Len(w) \in Nat /\ Len(Unpassed) = Len(w) + 1
            /\ \A j \in 1..Len(w) : Unpassed[j] \in Byte
        BY UnpassedBytes
      <4> HIDE DEF w
      <4>1. Unpassed[i] \in Byte
        BY <4>4
      <4>2. Unpassed[i + 1] = NextByte(Unpassed[i])
        BY DEF LineInv, InRow, Linked
      <4>3. NextByte(Unpassed[i])' = NextByte(Unpassed[i])
        BY <1>1, <2>1, <4>1 DEF NextByte, Byte
      <4> QED
        BY <2>1, <4>2, <4>3
    <3> QED
      BY <2>1, <3>1 DEF Linked
  <2> QED
    BY <2>1, <2>2 DEF LineInv, InRow, Begun, Line!Latest
<1> QED
  BY <1>3, <1>4, <1>5 DEF LineInv

\* The byte that was to come is in the row.
LEMMA MeterByteRow ==
  ASSUME TypeInv, LineInv, MeterByte
  PROVE  LineInv'
<1>1. /\ fifo' = Append(fifo, at) /\ at' = NextByte(at)
      /\ UNCHANGED <<frames, cache, tmp, dlmsBuf, passed, lost, appAt>>
  BY DEF MeterByte, parse
<1>2. at \in Cell /\ at.frame \in Nat /\ at.place \in Nat
  BY CellSeqs DEF Cell
<1>3. /\ at.place = frames[at.frame] => at'.frame = at.frame + 1 /\ at'.place = 1
      /\ at.place # frames[at.frame] => at'.frame = at.frame /\ at'.place = at.place + 1
  BY <1>1, <1>2, NextIsLater
<1>4. Sent \subseteq Sent' /\ at \in Sent'
  <2>1. ASSUME NEW b \in Sent PROVE b \in Sent'
    <3>1. b \in Cell /\ b.frame \in Nat /\ b.place \in Nat
      BY DEF Sent, Cell
    <3>2. b.frame < at.frame \/ (b.frame = at.frame /\ b.place < at.place)
      BY DEF Sent
    <3>3. b.frame < at'.frame \/ (b.frame = at'.frame /\ b.place < at'.place)
      BY <1>2, <1>3, <3>1, <3>2
    <3> QED
      BY <3>1, <3>3 DEF Sent
  <2>2. at.frame < at'.frame \/ (at.frame = at'.frame /\ at.place < at'.place)
    BY <1>2, <1>3
  <2> QED
    BY <1>2, <2>1, <2>2 DEF Sent
<1>5. SentOnly'
  <2>1. /\ fifo \in Seq(Sent') /\ cache \in Seq(Sent')
        /\ tmp \in Seq(Sent') /\ dlmsBuf \in Seq(Sent')
    BY <1>4, SeqMonotonic DEF LineInv, SentOnly
  <2>2. Append(fifo, at) \in Seq(Sent')
    BY <1>4, <2>1, AppendProperties
  <2> QED
    BY <1>1, <2>1, <2>2 DEF SentOnly
<1>6. InPlace'
  BY <1>1 DEF LineInv, InPlace, Kind
<1>7. InRow'
  <2> SUFFICES ASSUME ~lost PROVE InRow'
    BY <1>1 DEF InRow
  <2> DEFINE w == (dlmsBuf \o tmp) \o (cache \o fifo)
  <2>1. /\ w \in Seq(Cell) /\ Unpassed = Append(w, at) /\ Unpassed \in Seq(Cell)
        /\ Len(Unpassed) = Len(w) + 1 /\ Len(w) \in Nat /\ Unpassed[Len(w) + 1] = at
    BY UnpassedBytes
  <2>2. Unpassed' = Append(Unpassed, at')
    <3>1. /\ dlmsBuf \o tmp \in Seq(Cell) /\ cache \o fifo \in Seq(Cell)
          /\ cache \in Seq(Cell) /\ fifo \in Seq(Cell)
      BY CellSeqs, ConcatProperties
    <3>2. cache \o Append(fifo, at) = Append(cache \o fifo, at)
      BY <1>2, <3>1, AppendToConcat
    <3>3. (dlmsBuf \o tmp) \o Append(cache \o fifo, at) = Append(w, at)
      BY <1>2, <3>1, AppendToConcat, SMTT(30)
    <3> QED
      BY <1>1, <2>1, <3>2, <3>3 DEF Unpassed
  <2> HIDE DEF w
  <2>3. Unpassed # <<>> /\ Unpassed[Len(Unpassed)] = at
    BY <2>1, EmptySeq
  <2>4. Linked(Unpassed)
    BY DEF LineInv, InRow
  <2>5. Linked(Append(Unpassed, at'))
    BY <1>1, <2>1, <2>3, <2>4, LinkedAppend
  <2>6. Linked(Unpassed)'
    BY <1>1, <2>2, <2>5 DEF Linked, NextByte
  <2>7. Unpassed'[1] = Unpassed[1]
    <3>1. at' \in Cell /\ 1 \in 1..Len(Unpassed)
      BY <1>1, <1>2, <2>1, NextIsLater
    <3> QED
      BY <2>1, <2>2, <3>1, AppendProperties
  <2> QED
    BY <1>1, <2>6, <2>7 DEF LineInv, InRow, Begun, Line!Latest
<1> QED
  BY <1>5, <1>6, <1>7 DEF LineInv

\* With an interrupt not before the third byte or the end of a frame, what the
\* interrupt finds begins with the head of a frame or inside one.
LEMMA HeadComplete ==
  ASSUME TypeInv, Trigger >= 3, Interrupts, Linked(Append(fifo, at))
  PROVE  Begun(fifo)
<1> SUFFICES ASSUME fifo # <<>>, fifo[1].place = 1, ~(Len(fifo) >= 3)
             PROVE  FALSE
  BY DEF Begun
<1>1. fifo \in Seq(Byte) /\ fifo \in Seq(Cell) /\ at \in Cell /\ at.place \in Nat
  BY CellSeqs DEF TypeInv, BufferType, Cell
<1>2. Len(fifo) \in {1, 2}
  <2>1. Len(fifo) \in Nat \ {0}
    BY <1>1, EmptySeq
  <2>2. \A n \in Nat \ {0} : n >= 3 \/ n = 1 \/ n = 2
    OBVIOUS
  <2> QED
    BY <2>1, <2>2
<1>3. at.place = 1
  BY <1>2, UartAssumption DEF Interrupts
<1> DEFINE s == Append(fifo, at)
<1>4. /\ Len(s) = Len(fifo) + 1 /\ s[Len(fifo) + 1] = at
      /\ \A i \in 1..Len(fifo) : s[i] = fifo[i]
  BY <1>1, AppendProperties
<1> HIDE DEF s
<1>9. \A i \in 1..Len(fifo) : s[i + 1] = NextByte(s[i])
  BY <1>2, <1>4 DEF Linked, s
<1>5. s[1] = fifo[1] /\ s[2] = NextByte(s[1])
  BY <1>2, <1>4, <1>9
<1>6. s[1] \in Cell /\ s[1].frame \in 1..Len(frames) /\ s[1].place = 1
  <2>1. 1 \in 1..Len(fifo)
    BY <1>2
  <2>2. fifo[1] \in Byte /\ fifo[1] \in Cell
    BY <1>1, <2>1, ElementOfSeq
  <2> QED
    BY <1>5, <2>2 DEF Byte
<1>7. frames[s[1].frame] \in Nat /\ frames[s[1].frame] > 3
  BY <1>6, FrameLength DEF TypeInv, LineType
<1>8. s[2] \in Cell /\ s[2].frame = s[1].frame /\ s[2].place = 2
  BY <1>5, <1>6, <1>7, NextIsLater
<1>10. CASE Len(fifo) = 1
  BY <1>3, <1>4, <1>8, <1>10
<1>11. CASE Len(fifo) = 2
  <2>1. at = NextByte(s[2])
    BY <1>4, <1>9, <1>11
  <2>2. at.place = 3
    BY <1>7, <1>8, <2>1, NextIsLater
  <2> QED
    BY <1>3, <2>2
<1> QED
  BY <1>2, <1>10, <1>11

LEMMA RxRow ==
  ASSUME TypeInv, LineInv, Trigger >= 3, RxCallback
  PROVE  LineInv'
<1>1. /\ cache' = Refilled.cache /\ fifo' = Refilled.fifo
      /\ lost' = (lost \/ Len(cache') + Len(fifo') < Len(cache) + Len(fifo))
      /\ UNCHANGED <<frames, at, tmp, dlmsBuf, passed, appAt>> /\ Interrupts
  BY DEF RxCallback, meter, parse
<1>2. Len(cache) < Size
  BY DEF TypeInv, BufferType
<1>3. SentOnly'
  <2>1. fifo \in Seq(Sent) /\ cache \in Seq(Sent)
    BY DEF LineInv, SentOnly
  <2>2. Refilled.cache \in Seq(Sent) /\ Refilled.fifo \in Seq(Sent)
    BY <1>2, <2>1, Refill
  <2> QED
    BY <1>1, <2>2 DEF LineInv, SentOnly, Sent
<1>4. InPlace'
  BY <1>1 DEF LineInv, InPlace, Kind
<1>5. InRow'
  <2> SUFFICES ASSUME ~lost' PROVE InRow'
    BY DEF InRow
  <2>1. ~lost /\ ~(Len(Refilled.cache) + Len(Refilled.fifo) < Len(cache) + Len(fifo))
    BY <1>1
  <2>2. fifo \in Seq(Cell) /\ cache \in Seq(Cell)
    BY CellSeqs
  <2>3. Refilled = [cache |-> cache \o fifo, fifo |-> <<>>]
    BY <1>2, <2>1, <2>2, Refill
  <2>4. cache' = cache \o fifo /\ fifo' = <<>>
    BY <1>1, <2>3
  <2>5. cache' \o fifo' = cache \o fifo
    BY <2>2, <2>4, ConcatProperties, ConcatEmptySeq
  <2>6. Unpassed' = Unpassed
    BY <1>1, <2>5 DEF Unpassed
  <2>7. Linked(Append(fifo, at))
    <3> DEFINE x == dlmsBuf \o tmp
               y == Append(cache \o fifo, at)
               z == Append(fifo, at)
    <3>1. /\ x \in Seq(Cell) /\ y \in Seq(Cell) /\ z \in Seq(Cell)
          /\ Unpassed = x \o y /\ y = cache \o z
      BY UnpassedParts
    <3>2. Linked(Unpassed)
      BY <2>1 DEF LineInv, InRow
    <3> HIDE DEF x, y, z
    <3>3. Linked(y)
      BY <3>1, <3>2, LinkedParts
    <3>4. Linked(z)
      BY <2>2, <3>1, <3>3, LinkedParts
    <3> QED
      BY <3>4 DEF z
  <2>8. Begun(fifo) /\ Begun(cache)
    BY <1>1, <2>1, <2>7, HeadComplete DEF LineInv, InRow
  <2>9. Begun(cache \o fifo)
    <3>1. Len(cache) \in Nat /\ Len(fifo) \in Nat
      BY <2>2, LenProperties
    <3>2. CASE cache = <<>>
      <4>1. cache \o fifo = fifo
        BY <2>2, <3>2, ConcatEmptySeq
      <4> QED
        BY <2>8, <4>1
    <3>3. CASE cache # <<>>
      <4>1. 1 \in 1..Len(cache) /\ 1 \in 1..(Len(cache) + Len(fifo))
        BY <2>2, <3>1, <3>3, EmptySeq
      <4>2. (cache \o fifo)[1] = cache[1] /\ Len(cache \o fifo) = Len(cache) + Len(fifo)
        BY <2>2, <4>1, ConcatProperties
      <4> QED
        BY <2>8, <3>1, <3>3, <4>2 DEF Begun
    <3> QED
      BY <3>2, <3>3
  <2>10. Linked(Unpassed)'
    BY <1>1, <2>1, <2>6 DEF LineInv, InRow, Linked, NextByte
  <2>11. Begun(cache)' /\ Begun(tmp)' /\ Begun(dlmsBuf)'
    BY <1>1, <2>1, <2>4, <2>9 DEF LineInv, InRow, Begun
  <2>12. (Line!Latest < Unpassed[1].frame)'
    BY <1>1, <2>1, <2>6 DEF LineInv, InRow, Line!Latest
  <2> QED
    BY <2>10, <2>11, <2>12 DEF InRow
<1> QED
  BY <1>3, <1>4, <1>5 DEF LineInv

LEMMA ReadRow ==
  ASSUME TypeInv, LineInv, Read
  PROVE  LineInv'
<1>1. /\ tmp' = cache /\ cache' = <<>> /\ appAt = "read" /\ appAt' = "parse"
      /\ UNCHANGED <<frames, at, fifo, dlmsBuf, passed, lost>>
  BY DEF Read, App, meter
<1>2. tmp = <<>>
  BY <1>1 DEF LineInv, InPlace
<1>3. SentOnly'
  <2>1. <<>> \in Seq(Sent)
    BY EmptySeq
  <2> QED
    BY <1>1, <2>1 DEF LineInv, SentOnly, Sent
<1>4. InPlace'
  BY <1>1 DEF LineInv, InPlace, Kind
<1>5. InRow'
  <2> SUFFICES ASSUME ~lost PROVE InRow'
    BY <1>1 DEF InRow
  <2>1. fifo \in Seq(Cell) /\ cache \in Seq(Cell) /\ dlmsBuf \in Seq(Cell)
    BY CellSeqs
  <2>2. dlmsBuf \o tmp = dlmsBuf /\ <<>> \o fifo = fifo
    BY <1>2, <2>1, ConcatEmptySeq
  <2>3. (dlmsBuf \o cache) \o fifo = dlmsBuf \o (cache \o fifo)
    BY <2>1, ConcatAssociative
  <2>4. Unpassed' = Unpassed
    BY <1>1, <2>2, <2>3 DEF Unpassed
  <2>5. Linked(Unpassed)'
    BY <1>1, <2>4 DEF LineInv, InRow, Linked, NextByte
  <2>6. Begun(cache)' /\ Begun(tmp)' /\ Begun(dlmsBuf)'
    BY <1>1 DEF LineInv, InRow, Begun
  <2>7. (Line!Latest < Unpassed[1].frame)'
    BY <1>1, <2>4 DEF LineInv, InRow, Line!Latest
  <2> QED
    BY <2>5, <2>6, <2>7 DEF InRow
<1> QED
  BY <1>3, <1>4, <1>5 DEF LineInv

\* What is put together is the end of what was kept and read; it begins with a
\* flag, and with no opening flag that does not have the head of its frame.
LEMMA StoredRow ==
  ASSUME TypeInv, LineInv
  PROVE  LET x == dlmsBuf \o tmp
         IN  /\ Stored \in Seq(Byte)
             /\ \E k \in 1..(Len(x) + 1) : Stored = SubSeq(x, k, Len(x))
             /\ Stored # <<>> => Kind(Stored[1]) = "flag"
             /\ ~lost => Begun(Stored)
<1>1. tmp \in Seq(Byte) /\ dlmsBuf \in Seq(Byte) /\ tmp \in Seq(Cell) /\ dlmsBuf \in Seq(Cell)
  BY CellSeqs DEF TypeInv, BufferType
<1>2. Stored \in Seq(Byte)
  BY <1>1, StoredParts
<1>3. CASE dlmsBuf # <<>>
  <2> DEFINE x == dlmsBuf \o tmp
  <2>1. /\ x \in Seq(Byte) /\ Len(x) = Len(dlmsBuf) + Len(tmp) /\ x[1] = dlmsBuf[1]
        /\ Len(dlmsBuf) \in Nat \ {0} /\ Len(tmp) \in Nat
    <3>1. Len(dlmsBuf) \in Nat \ {0} /\ Len(tmp) \in Nat
      BY <1>1, <1>3, EmptySeq, LenProperties
    <3>2. 1 \in 1..(Len(dlmsBuf) + Len(tmp)) /\ 1 <= Len(dlmsBuf)
      BY <3>1
    <3> QED
      BY <1>1, <3>1, <3>2, ConcatProperties
  <2>2. Stored = x
    BY <1>1, <1>3, StoredParts
  <2>3. x = SubSeq(x, 1, Len(x)) /\ 1 \in 1..(Len(x) + 1)
    BY <2>1, SubSeqFull
  <2>4. Kind(dlmsBuf[1]) = "flag"
    BY <1>3 DEF LineInv, InPlace
  <2>5. ~lost => Begun(dlmsBuf)
    BY DEF LineInv, InRow
  <2> HIDE DEF x
  <2>6. ~lost => Begun(Stored)
    BY <1>3, <2>1, <2>2, <2>5 DEF Begun
  <2>7. Kind(Stored[1]) = "flag"
    BY <2>1, <2>2, <2>4
  <2> QED
    BY <1>2, <2>2, <2>3, <2>6, <2>7 DEF x
<1>4. CASE dlmsBuf = <<>>
  <2>1. dlmsBuf \o tmp = tmp
    BY <1>1, <1>4, ConcatEmptySeq
  <2>2. PICK i \in 1..(Len(tmp) + 1) :
          /\ Stored = SubSeq(tmp, i, Len(tmp))
          /\ i <= Len(tmp) => Kind(tmp[i]) = "flag"
          /\ \A j \in 1..Len(tmp) : j < i => Kind(tmp[j]) # "flag"
    BY <1>1, <1>4, StoredParts
  <2>3. Len(tmp) \in Nat
    BY <1>1, LenProperties
  <2>4. CASE i = Len(tmp) + 1
    <3>1. Stored = <<>>
      BY <2>2, <2>3, <2>4, SubSeqEmpty
    <3> QED
      BY <1>2, <2>1, <2>2, <3>1 DEF Begun
  <2>5. CASE i # Len(tmp) + 1
    <3>1. i \in 1..Len(tmp)
      BY <2>3, <2>5
    <3>2. Stored[1] = tmp[i]
      <4>1. \A j \in i..Len(tmp) : tmp[j] \in Byte
        BY <1>1, <3>1, ElementOfSeq
      <4>2. 1 \in 1..(Len(tmp) - i + 1) /\ i + 1 - 1 = i
        BY <2>3, <3>1
      <4>3. \A j \in 1..(Len(tmp) - i + 1) : SubSeq(tmp, i, Len(tmp))[j] = tmp[i + j - 1]
        BY <2>3, <3>1, <4>1, SubSeqProperties
      <4> QED
        BY <2>2, <4>2, <4>3
    <3>3. ASSUME ~lost PROVE Begun(Stored)
      <4>1. CASE i = 1
        <5>1. Stored = tmp
          BY <1>1, <2>2, <4>1, SubSeqFull
        <5> QED
          BY <3>3, <5>1 DEF LineInv, InRow
      <4>2. CASE i # 1
        <5>1. i - 1 \in 1..(Len(tmp) - 1) /\ (i - 1) + 1 = i /\ i - 1 < i /\ i - 1 \in 1..Len(tmp)
          BY <2>3, <3>1, <4>2
        <5>2. Kind(tmp[i - 1]) # "flag"
          BY <2>2, <5>1
        <5>3. Linked(tmp)
          <6> DEFINE x == dlmsBuf \o tmp
                     y == Append(cache \o fifo, at)
          <6>1. x \in Seq(Cell) /\ y \in Seq(Cell) /\ Unpassed = x \o y
            BY UnpassedParts
          <6>2. Linked(Unpassed)
            BY <3>3 DEF LineInv, InRow
          <6> HIDE DEF x, y
          <6>3. Linked(x)
            BY <6>1, <6>2, LinkedParts
          <6> QED
            BY <2>1, <6>3 DEF x
        <5>4. tmp[i] = NextByte(tmp[i - 1])
          BY <5>1, <5>3 DEF Linked
        <5>5. tmp[i - 1] \in Cell /\ tmp[i - 1] \in Byte
          BY <1>1, <5>1, ElementOfSeq
        <5>6. tmp[i - 1].place # frames[tmp[i - 1].frame]
          BY <5>2 DEF Kind
        <5>7. tmp[i].place = tmp[i - 1].place + 1
          BY <5>4, <5>5, <5>6, NextIsLater
        <5>8. tmp[i - 1].place \in Nat \ {0}
          BY <5>5 DEF Byte
        <5>9. tmp[i].place # 1
          BY <5>7, <5>8
        <5> QED
          BY <3>2, <5>9 DEF Begun
      <4> QED
        BY <4>1, <4>2
    <3>4. Kind(Stored[1]) = "flag"
      BY <2>2, <2>3, <3>1, <3>2
    <3> QED
      BY <1>2, <2>1, <2>2, <3>3, <3>4
  <2> QED
    BY <2>4, <2>5
<1> QED
  BY <1>3, <1>4

\* The end of a row that goes on.
LEMMA RowSuffix ==
  ASSUME TypeInv, Linked(Unpassed), NEW k \in 1..(Len(dlmsBuf \o tmp) + 1),
         (dlmsBuf \o tmp)' = SubSeq(dlmsBuf \o tmp, k, Len(dlmsBuf \o tmp)),
         UNCHANGED <<frames, at, fifo, cache>>
  PROVE  /\ Linked(Unpassed)' /\ Unpassed'[1] = Unpassed[k]
         /\ Unpassed[1].frame <= Unpassed[k].frame
<1> DEFINE x == dlmsBuf \o tmp
           y == Append(cache \o fifo, at)
<1>1. x \in Seq(Cell) /\ y \in Seq(Cell) /\ y # <<>> /\ Unpassed = x \o y
  BY UnpassedParts
<1>2. Unpassed' = SubSeq(x, k, Len(x)) \o y
  <2>1. SubSeq(x, k, Len(x)) \in Seq(Cell)
    <3>1. Len(x) \in Nat /\ \A j \in k..Len(x) : x[j] \in Cell
      BY <1>1, LenProperties, ElementOfSeq
    <3> QED
      BY <3>1, SubSeqProperties
  <2>2. cache \o fifo \in Seq(Cell) /\ at \in Cell
    BY CellSeqs, ConcatProperties
  <2> DEFINE a == SubSeq(x, k, Len(x))
             c == cache \o fifo
  <2>4. Unpassed' = Append(a \o c, at) /\ a \in Seq(Cell) /\ c \in Seq(Cell) /\ y = Append(c, at)
    BY <2>1, <2>2 DEF Unpassed
  <2> HIDE DEF a, c, x, y
  <2>3. a \o Append(c, at) = Append(a \o c, at)
    BY <2>2, <2>4, AppendToConcat
  <2> QED
    BY <2>3, <2>4 DEF a
<1> HIDE DEF x, y
<1>6. k \in 1..(Len(x) + 1)
  BY DEF x
<1>3. Unpassed' = SubSeq(Unpassed, k, Len(Unpassed))
  BY <1>1, <1>2, <1>6, SuffixOfConcat
<1>4. Unpassed \in Seq(Cell) /\ k \in 1..Len(Unpassed) /\ Linked(Unpassed)
  <2>1. Len(x) \in Nat /\ Len(y) \in Nat \ {0} /\ Len(x \o y) = Len(x) + Len(y)
        /\ x \o y \in Seq(Cell)
    BY <1>1, LenProperties, EmptySeq, ConcatProperties
  <2> QED
    BY <1>1, <1>6, <2>1
<1>5. Linked(Unpassed') /\ Unpassed'[1] = Unpassed[k]
  BY <1>3, <1>4, LinkedSuffix
<1> QED
  BY <1>4, <1>5, LinkedOrder DEF Linked, NextByte

\* The length that the head of a frame announces is its own; behind a closing
\* flag the next opening flag announces too much.
LEMMA AnnouncedByHead ==
  ASSUME TypeInv, NEW b \in Seq(Byte), Linked(b), b # <<>>, Kind(b[1]) = "flag", Begun(b),
         NEW n \in Announced(b)
  PROVE  \/ b[1].place = 1 /\ n = frames[b[1].frame]
         \/ b[1].place # 1 /\ Len(b) = 1 /\ n = 2
         \/ b[1].place # 1 /\ n >= Longest
<1> DEFINE f == b[1].frame
           L == frames[f]
<1>1. Len(b) \in Nat \ {0} /\ b \in Seq(Cell)
  BY EmptySeq, CellSeqs, SeqMonotonic
<1>2. \A i \in 1..Len(b) : b[i] \in Byte /\ b[i] \in Cell
  BY <1>1, ElementOfSeq
<1>3. b[1] \in Byte /\ b[1] \in Cell
  BY <1>1, <1>2
<1>4. f \in 1..Len(frames)
  BY <1>3 DEF Byte
<1>5. L \in Nat /\ L > 3
  BY <1>4, FrameLength DEF TypeInv, LineType
<1>6. PICK h \in High(b), l \in Low(b) : n = h + l + 2
  BY DEF Announced
<1>7. CASE b[1].place = 1
  <2>1. Len(b) >= 3
    BY <1>7 DEF Begun
  <2>2. b[2] = NextByte(b[1]) /\ b[3] = NextByte(b[2])
    <3>1. 1 \in 1..(Len(b) - 1) /\ 2 \in 1..(Len(b) - 1) /\ 1 + 1 = 2 /\ 2 + 1 = 3
      BY <1>1, <2>1
    <3> QED
      BY <3>1 DEF Linked
  <2>3. b[2] \in Cell /\ b[2].frame = f /\ b[2].place = 2
    BY <1>3, <1>5, <1>7, <2>2, NextIsLater
  <2>4. b[3].frame = f /\ b[3].place = 3
    BY <1>5, <2>2, <2>3, NextIsLater
  <2> HIDE DEF f, L
  <2>5. Kind(b[2]) = "format" /\ Kind(b[3]) = "length"
    BY <1>5, <2>3, <2>4 DEF Kind, L
  <2>6. h = 0
    BY <1>1, <1>6, <2>1, <2>5 DEF High
  <2>7. l = L - 2
    BY <1>1, <1>6, <2>1, <2>4, <2>5 DEF Low, L
  <2> QED
    BY <1>5, <1>6, <1>7, <2>6, <2>7 DEF f, L
<1>8. CASE b[1].place # 1
  <2>1. b[1].place = L
    BY <1>8 DEF Kind
  <2>2. CASE Len(b) = 1
    BY <1>6, <1>8, <2>2 DEF High, Low
  <2>3. CASE Len(b) # 1
    <3>1. 1 \in 1..(Len(b) - 1) /\ Len(b) >= 2
      <4>1. \A i \in Nat \ {0} : i # 1 => i >= 2 /\ 1 \in 1..(i - 1)
        OBVIOUS
      <4> QED
        BY <1>1, <2>3, <4>1
    <3>2. b[2] = NextByte(b[1])
      <4>1. b[1 + 1] = NextByte(b[1])
        BY <3>1 DEF Linked
      <4> QED
        BY <4>1
    <3>3. b[2].place = 1
      BY <1>3, <2>1, <3>2, NextIsLater
    <3>4. Kind(b[2]) = "flag"
      BY <3>3 DEF Kind
    <3>5. h = Longest
      BY <1>6, <3>1, <3>4 DEF High
    <3>6. l \in Nat
      <4>1. CASE Len(b) < 3
        BY <1>6, <4>1 DEF Low
      <4>2. CASE ~(Len(b) < 3)
        <5>1. 3 \in 1..Len(b)
          BY <1>1, <4>2
        <5>2. b[3].frame \in 1..Len(frames)
          BY <1>2, <5>1 DEF Byte
        <5>3. frames[b[3].frame] \in Nat /\ frames[b[3].frame] > 3
          BY <5>2, FrameLength DEF TypeInv, LineType
        <5>4. l = frames[b[3].frame] - 2 \/ l \in 0..(Longest - 1)
          BY <1>6, <4>2 DEF Low
        <5> QED
          BY <5>3, <5>4, UartAssumption
      <4> QED
        BY <4>1, <4>2
    <3>7. n >= Longest
      <4>1. Longest \in Nat
        BY UartAssumption
      <4> QED
        BY <1>6, <3>5, <3>6, <4>1
    <3> QED
      BY <1>8, <3>7
  <2> QED
    BY <2>2, <2>3
<1> QED
  BY <1>7, <1>8

\* The frame that a row of sent bytes is has been sent to its end.
LEMMA FrameOfSent ==
  ASSUME TypeInv, NEW b \in Seq(Byte), b \in Seq(Sent)
  PROVE  FrameOf(b) \in 0..Complete
<1>0. Complete \in Nat /\ at.frame \in Nat /\ at.place \in Nat /\ Len(frames) \in Nat
      /\ Complete = at.frame - 1
  BY LenProperties DEF TypeInv, LineType, Complete, Cell
<1>1. CASE b # <<>> /\ b = Whole(b[1].frame)
  <2> DEFINE f == b[1].frame
             L == frames[f]
  <2>1. f \in 1..Len(frames)
    <3>1. 1 \in 1..Len(b)
      BY <1>1, EmptySeq
    <3>2. b[1] \in Byte
      BY <3>1, ElementOfSeq
    <3> QED
      BY <3>2 DEF Byte
  <2>2. L \in Nat /\ L > 3
    BY <2>1, FrameLength DEF TypeInv, LineType
  <2>3. FrameOf(b) = f
    BY <1>1 DEF FrameOf
  <2>4. DOMAIN b = 1..Len(b) /\ DOMAIN b = 1..L
    BY <1>1, LenProperties DEF Whole, Bytes
  <2>5. b[L] = [frame |-> f, place |-> L]
    BY <1>1, <2>2 DEF Whole, Bytes
  <2> HIDE DEF f, L
  <2>6. L \in 1..Len(b)
    BY <2>2, <2>4
  <2>7. b[L] \in Sent
    BY <2>6, ElementOfSeq
  <2>8. f < at.frame \/ (f = at.frame /\ L < at.place)
    BY <2>5, <2>7 DEF Sent
  <2>9. ASSUME f = at.frame, L < at.place PROVE FALSE
    <3>1. at.place \in 1..L
      BY <1>0, <2>1, <2>9 DEF TypeInv, LineType, Sending, L
    <3> QED
      BY <2>2, <2>9, <3>1
  <2> QED
    BY <1>0, <2>1, <2>3, <2>8, <2>9
<1>2. CASE ~(b # <<>> /\ b = Whole(b[1].frame))
  BY <1>0, <1>2 DEF FrameOf
<1> QED
  BY <1>1, <1>2

\* What is passed on is the frame of the row that was put together.
LEMMA PassedInOrder ==
  ASSUME TypeInv, LineInv, ~lost, NEW n \in Announced(Stored),
         n < Longest, Len(Stored) = n, Linked(Stored)
  PROVE  /\ Stored # <<>> /\ FrameOf(Stored) = Stored[1].frame
         /\ Stored = Bytes(Stored[1].frame, frames[Stored[1].frame])
<1> DEFINE b == Stored
<1>1. b \in Seq(Byte) /\ (b # <<>> => Kind(b[1]) = "flag") /\ Begun(b)
  BY StoredRow
<1> HIDE DEF b
<1>2. b \in Seq(Cell)
  BY <1>1, CellSeqs, SeqMonotonic
<1>5. n = Len(b) /\ n \in Nat /\ Longest \in Nat
  BY <1>1, LenProperties, UartAssumption DEF b
<1>3. b # <<>>
  <2>1. ASSUME b = <<>> PROVE FALSE
    <3>1. Len(b) = 0
      BY <2>1
    <3>3. n \in Announced(b)
      BY DEF b
    <3>2. n = 2
      BY <3>1, <3>3 DEF Announced, High, Low
    <3> QED
      BY <1>5, <3>1, <3>2
  <2> QED
    BY <2>1
<1>4. \/ b[1].place = 1 /\ n = frames[b[1].frame]
      \/ b[1].place # 1 /\ Len(b) = 1 /\ n = 2
      \/ b[1].place # 1 /\ n >= Longest
  BY <1>1, <1>3, AnnouncedByHead DEF b
<1>6. b[1].place = 1 /\ n = frames[b[1].frame]
  BY <1>4, <1>5
<1>7. b[1] \in Cell
  <2>1. 1 \in 1..Len(b)
    BY <1>2, <1>3, EmptySeq
  <2> QED
    BY <1>2, <2>1, ElementOfSeq
<1>8. b[1] = [frame |-> b[1].frame, place |-> 1] /\ b[1].frame \in Nat
  BY <1>6, <1>7 DEF Cell
<1>9. b = Bytes(b[1].frame, Len(b))
  <2>1. Linked(b) /\ frames[b[1].frame] \in Nat /\ Len(b) <= frames[b[1].frame]
    BY <1>5, <1>6 DEF b
  <2> QED
    BY <1>2, <1>3, <1>8, <2>1, LinkedFrame
<1> QED
  BY <1>3, <1>5, <1>6, <1>9 DEF b, FrameOf, Whole

\* One step of the parser passes on what FrameLine allows, and keeps the row.
LEMMA ParseRow ==
  ASSUME TypeInv, LineInv, Parse
  PROVE  /\ LineInv'
         /\ \/ UNCHANGED passed
            \/ lost /\ \E f \in 0..Complete : passed' = Append(passed, f)
            \/ \E f \in (Line!Latest + 1)..Complete : passed' = Append(passed, f)
<1> DEFINE x == dlmsBuf \o tmp
           b == Stored
<1>1. PICK n \in Announced(b) :
        /\ dlmsBuf' = IF n >= Longest \/ Len(b) >= Longest \/ Len(b) >= n THEN <<>> ELSE b
        /\ passed' = IF ~(n >= Longest \/ Len(b) >= Longest) /\ Len(b) = n
                       THEN Append(passed, FrameOf(b)) ELSE passed
  BY DEF Parse
<1>2. tmp' = <<>> /\ UNCHANGED <<frames, at, fifo, cache, lost>>
  BY DEF Parse, meter, rx
<1>3. b \in Seq(Byte) /\ (b # <<>> => Kind(b[1]) = "flag") /\ (~lost => Begun(b))
  BY StoredRow
<1>4. PICK k \in 1..(Len(x) + 1) : b = SubSeq(x, k, Len(x))
  BY StoredRow
<1>5. b \in Seq(Sent)
  BY StoredParts DEF LineInv, SentOnly
<1>6. FrameOf(b) \in 0..Complete
  BY <1>3, <1>5, FrameOfSent
<1>7. x \in Seq(Cell) /\ Len(x) \in Nat
  BY UnpassedParts, LenProperties
<1>8. b \in Seq(Cell) /\ Len(b) \in Nat /\ Longest \in Nat
  BY <1>3, CellSeqs, SeqMonotonic, LenProperties, UartAssumption
<1>9. dlmsBuf' = <<>> \/ dlmsBuf' = b
  BY <1>1
<1> HIDE DEF b
<1>10. SentOnly'
  <2>1. <<>> \in Seq(Sent)
    BY EmptySeq
  <2> QED
    BY <1>2, <1>5, <1>9, <2>1 DEF LineInv, SentOnly, Sent
<1>11. InPlace'
  BY <1>2, <1>3, <1>9 DEF InPlace, Kind
<1>12. ASSUME ~lost
       PROVE  /\ InRow'
              /\ \/ UNCHANGED passed
                 \/ \E f \in (Line!Latest + 1)..Complete : passed' = Append(passed, f)
  <2>1. Linked(Unpassed) /\ Line!Latest < Unpassed[1].frame
    BY <1>12 DEF LineInv, InRow
  <2>2. PICK j \in 1..(Len(x) + 1) :
          /\ (dlmsBuf \o tmp)' = SubSeq(x, j, Len(x))
          /\ dlmsBuf' = <<>> => j = Len(x) + 1
    <3>1. dlmsBuf' \in Seq(Cell)
      BY <1>8, <1>9, EmptySeq
    <3>2. (dlmsBuf \o tmp)' = dlmsBuf'
      BY <1>2, <3>1, ConcatEmptySeq
    <3>3. CASE dlmsBuf' = <<>>
      <4>1. SubSeq(x, Len(x) + 1, Len(x)) = <<>>
        BY <1>7, SubSeqEmpty
      <4>2. Len(x) + 1 \in 1..(Len(x) + 1)
        BY <1>7
      <4> HIDE DEF x
      <4> QED
        BY <3>2, <3>3, <4>1, <4>2
    <3>4. CASE dlmsBuf' # <<>>
      <4> HIDE DEF x
      <4> QED
        BY <1>4, <1>9, <3>2, <3>4
    <3> QED
      BY <3>3, <3>4
  <2>3. /\ Linked(Unpassed)' /\ Unpassed'[1] = Unpassed[j]
        /\ Unpassed[1].frame <= Unpassed[j].frame
    BY <1>2, <2>1, <2>2, RowSuffix
  <2>4. Begun(cache)' /\ Begun(tmp)' /\ Begun(dlmsBuf)'
    BY <1>2, <1>3, <1>9, <1>12 DEF LineInv, InRow, Begun
  <2>5. Line!Latest \in Nat
    <3>1. passed \in Seq(0..Len(frames))
      BY DEF TypeInv, BufferType
    <3>2. passed # <<>> => Len(passed) \in 1..Len(passed)
      BY <3>1, EmptySeq
    <3>3. passed # <<>> => passed[Len(passed)] \in Nat
      BY <3>1, <3>2, ElementOfSeq
    <3> QED
      BY <3>3 DEF Line!Latest
  <2>6. Unpassed[1].frame \in Nat /\ Unpassed[j].frame \in Nat
    <3> DEFINE y == Append(cache \o fifo, at)
    <3>1. Unpassed \in Seq(Cell) /\ y \in Seq(Cell) /\ y # <<>> /\ Unpassed = x \o y
      BY UnpassedBytes, UnpassedParts
    <3> HIDE DEF x, y
    <3>2. Len(y) \in Nat \ {0} /\ Len(Unpassed) = Len(x) + Len(y)
      BY <1>7, <3>1, EmptySeq, ConcatProperties
    <3>3. 1 \in 1..Len(Unpassed) /\ j \in 1..Len(Unpassed)
      BY <1>7, <3>2
    <3>4. Unpassed[1] \in Cell /\ Unpassed[j] \in Cell
      BY <3>1, <3>3, ElementOfSeq
    <3> QED
      BY <3>4 DEF Cell
  <2>7. CASE UNCHANGED passed
    <3>1. (Line!Latest < Unpassed[1].frame)'
      BY <2>1, <2>3, <2>5, <2>6, <2>7 DEF Line!Latest
    <3> QED
      BY <2>3, <2>4, <2>7, <3>1 DEF InRow
  <2>8. CASE ~UNCHANGED passed
    <3>1. /\ ~(n >= Longest) /\ Len(b) = n /\ passed' = Append(passed, FrameOf(b))
          /\ dlmsBuf' = <<>>
      BY <1>1, <1>8, <2>8
    <3>2. n < Longest /\ n \in Nat
      BY <1>8, <3>1
    <3> DEFINE y == Append(cache \o fifo, at)
    <3>3. x \in Seq(Cell) /\ y \in Seq(Cell) /\ y # <<>> /\ Unpassed = x \o y
      BY UnpassedParts
    <3> HIDE DEF x, y
    <3>4. Linked(x)
      BY <2>1, <3>3, LinkedParts
    <3>5. k \in 1..Len(x) \/ b = <<>>
      BY <1>4, <1>7, SubSeqEmpty
    <3>13. Linked(b)
      <4>1. CASE b = <<>>
        BY <4>1 DEF Linked
      <4>2. CASE b # <<>>
        BY <1>4, <3>3, <3>4, <3>5, <4>2, LinkedSuffix
      <4> QED
        BY <4>1, <4>2
    <3> DEFINE f == b[1].frame
    <3>6. b # <<>> /\ FrameOf(b) = f /\ b = Bytes(f, frames[f])
      BY <1>12, <3>1, <3>2, <3>13, PassedInOrder DEF b
    <3>7. k \in 1..Len(x) /\ b[1] = x[k] /\ Len(b) = Len(x) - k + 1
      BY <1>4, <3>3, <3>4, <3>5, <3>6, LinkedSuffix
    <3>8. Len(x) \in 1..Len(x) /\ Len(y) \in Nat \ {0} /\ x # <<>>
          /\ Len(Unpassed) = Len(x) + Len(y)
          /\ \A i \in 1..Len(x) : Unpassed[i] = x[i]
      <4>1. /\ Len(Unpassed) = Len(x) + Len(y)
            /\ \A i \in 1 .. Len(x) + Len(y) :
                 Unpassed[i] = IF i <= Len(x) THEN x[i] ELSE y[i - Len(x)]
        BY <3>3, ConcatProperties
      <4>2. Len(y) \in Nat \ {0}
        BY <3>3, EmptySeq
      <4> QED
        BY <1>7, <3>3, <3>7, <4>1, <4>2, EmptySeq
    <3>9. Line!Latest < f /\ f \in Nat
      <4>1. f = Unpassed[k].frame
        BY <3>7, <3>8
      <4>2. Unpassed[1].frame <= Unpassed[k].frame
        <5>1. Unpassed \in Seq(Cell)
          BY UnpassedBytes
        <5>2. k \in 1..Len(Unpassed)
          BY <1>7, <3>7, <3>8
        <5> QED
          BY <2>1, <5>1, <5>2, LinkedOrder
      <4>3. f \in Nat
        BY <1>6, <3>6
      <4> QED
        BY <2>1, <2>5, <2>6, <4>1, <4>2, <4>3
    <3>10. Unpassed'[1].frame = f + 1
      <4>1. j = Len(x) + 1
        BY <2>2, <3>1 DEF x
      <4>2. Unpassed[Len(x) + 1] = NextByte(x[Len(x)])
        <5>1. Unpassed[Len(x) + 1] = NextByte(Unpassed[Len(x)])
          BY <2>1, <1>7, <3>8 DEF Linked
        <5> QED
          BY <3>8, <5>1
      <4>3. x[Len(x)] = b[Len(b)]
        <5>1. \A i \in 1..(Len(x) - k + 1) : SubSeq(x, k, Len(x))[i] = x[k + i - 1]
          <6>1. \A i \in k..Len(x) : x[i] \in Cell
            BY <1>7, <3>3, <3>7, ElementOfSeq
          <6> QED
            BY <1>7, <3>7, <6>1, SubSeqProperties
        <5>2. Len(b) \in 1..(Len(x) - k + 1) /\ k + Len(b) - 1 = Len(x)
          BY <1>7, <3>7
        <5> QED
          BY <1>4, <5>1, <5>2
      <4>4. b[Len(b)] = [frame |-> f, place |-> frames[f]]
        <5>1. DOMAIN b = 1..Len(b) /\ DOMAIN b = 1..frames[f] /\ Len(b) \in 1..Len(b)
          BY <1>8, <3>6, <3>7, LenProperties, EmptySeq DEF Bytes
        <5>2. b[Len(b)] = [frame |-> f, place |-> Len(b)]
          BY <3>6, <5>1 DEF Bytes
        <5>3. frames[f] = Len(b)
          <6>1. f \in 1..Len(frames)
            <7>1. 1 \in 1..Len(b)
              BY <5>1
            <7>2. b[1] \in Byte
              BY <1>3, <7>1, ElementOfSeq
            <7> QED
              BY <7>2 DEF Byte
          <6>2. frames[f] \in Nat
            BY <6>1, FrameLength DEF TypeInv, LineType
          <6> QED
            BY <1>8, <5>1, <6>2
        <5> QED
          BY <5>2, <5>3
      <4>5. NextByte(b[Len(b)]) = [frame |-> f + 1, place |-> 1]
        BY <4>4 DEF NextByte
      <4> QED
        BY <2>3, <4>1, <4>2, <4>3, <4>5
    <3>11. Line!Latest' = f
      <4>1. passed \in Seq(Nat) /\ f \in Nat
        <5>1. passed \in Seq(0..Len(frames)) /\ 0..Len(frames) \subseteq Nat
          BY DEF TypeInv, BufferType
        <5> QED
          BY <3>9, <5>1, SeqMonotonic
      <4>2. /\ passed' = Append(passed, f) /\ passed' # <<>> /\ Len(passed') = Len(passed) + 1
            /\ passed'[Len(passed) + 1] = f
        BY <3>1, <3>6, <4>1, AppendProperties
      <4> QED
        BY <4>2 DEF Line!Latest
    <3>12. (Line!Latest < Unpassed[1].frame)'
      BY <3>9, <3>10, <3>11
    <3>14. f \in (Line!Latest + 1)..Complete
      <4>1. Complete \in Int
        BY DEF Complete, TypeInv, LineType
      <4> QED
        BY <1>6, <2>5, <3>6, <3>9, <4>1
    <3>15. InRow'
      BY <2>3, <2>4, <3>12 DEF InRow
    <3> QED
      BY <3>1, <3>6, <3>14, <3>15
  <2> QED
    BY <2>7, <2>8
<1>13. CASE lost
  <2>1. InRow'
    BY <1>2, <1>13 DEF InRow
  <2> QED
    BY <1>1, <1>6, <1>10, <1>11, <1>13, <2>1 DEF LineInv
<1>14. CASE ~lost
  BY <1>10, <1>11, <1>12, <1>14 DEF LineInv
<1> QED
  BY <1>13, <1>14

-----------------------------------------------------------------------------
(* The line keeps what FrameLine promises.                                   *)

\* A step that neither moves a byte nor parses one.
LEMMA OtherSteps ==
  ASSUME LineInv, Next, ~(Meter \/ RxCallback \/ Read \/ Parse)
  PROVE  LineInv' /\ UNCHANGED <<at, lost, passed>>
<1>1. UNCHANGED <<frames, at, fifo, cache, lost, tmp, dlmsBuf, passed>>
  BY DEF Next, Isr, AppTask, UrgentTask, TxCallback, Wake, HandleDone, ReadFails, Request,
         Rest, AppCall, UrgentRequest, UrgentCall, meter, rx, parse
<1>2. tmp # <<>> => appAt' = "parse"
  <2>1. ASSUME tmp # <<>> PROVE appAt = "parse"
    BY <2>1 DEF LineInv, InPlace
  <2>2. appAt = "parse" => UNCHANGED appAt
    BY DEF Next, Isr, AppTask, UrgentTask, TxCallback, Wake, HandleDone, ReadFails, Request,
           Rest, AppCall, UrgentRequest, UrgentCall, App, Call
  <2> QED
    BY <2>1, <2>2
<1> QED
  BY <1>1, <1>2, SameRow

LEMMA RowInductive ==
  ASSUME Trigger >= 3
  PROVE  /\ Init => LineInv
         /\ TypeInv /\ LineInv /\ [Next]_vars => LineInv'
<1>1. ASSUME Init PROVE LineInv
  <2>1. /\ fifo = <<>> /\ cache = <<>> /\ tmp = <<>> /\ dlmsBuf = <<>> /\ passed = <<>>
        /\ at = [frame |-> 1, place |-> 1]
    BY <1>1 DEF Init
  <2>2. SentOnly
    BY <2>1, EmptySeq DEF SentOnly
  <2>3. Unpassed = <<at>>
    <3>1. <<>> \o <<>> = <<>>
      BY EmptySeq, ConcatEmptySeq
    <3>2. Unpassed = Append(<<>>, at)
      BY <2>1, <3>1 DEF Unpassed
    <3> QED
      BY <3>2
  <2>4. Linked(Unpassed) /\ Line!Latest < Unpassed[1].frame
    BY <2>1, <2>3 DEF Linked, Line!Latest
  <2> QED
    BY <2>1, <2>2, <2>4 DEF LineInv, InPlace, InRow, Begun
<1>2. ASSUME TypeInv, LineInv, Next PROVE LineInv'
  <2>1. CASE MeterAnswer \/ MeterNote
    <3>1. UNCHANGED <<at, fifo, cache, tmp, dlmsBuf, passed, lost, appAt>>
      BY <2>1 DEF MeterAnswer, MeterNote, rx, parse
    <3>2. UNCHANGED frames \/ \E l \in FrameLens : Queue(l)
      BY <2>1 DEF MeterAnswer, MeterNote
    <3>3. CASE UNCHANGED frames
      <4>1. tmp # <<>> => appAt' = "parse"
        BY <1>2, <3>1 DEF LineInv, InPlace
      <4> QED
        BY <1>2, <3>1, <3>3, <4>1, SameRow
    <3>4. CASE \E l \in FrameLens : Queue(l)
      BY <1>2, <3>1, <3>4, QueueRow
    <3> QED
      BY <3>2, <3>3, <3>4
  <2> QED
    BY <1>2, <2>1, MeterByteRow, RxRow, ReadRow, ParseRow, OtherSteps DEF Meter
<1>3. ASSUME LineInv, UNCHANGED vars PROVE LineInv'
  <2>1. UNCHANGED <<frames, at, fifo, cache, tmp, dlmsBuf, passed, lost, appAt>>
    BY <1>3 DEF vars, meter, rx, parse
  <2>2. tmp # <<>> => appAt' = "parse"
    BY <1>3, <2>1 DEF LineInv, InPlace
  <2> QED
    BY <1>3, <2>1, <2>2, SameRow
<1> QED
  BY <1>1, <1>2, <1>3

\* A step of the line is one that FrameLine allows, or changes nothing it knows.
LEMMA LineStep ==
  ASSUME TypeInv, LineInv, [Next]_vars
  PROVE  [Line!Next]_(Line!vars)
<1>1. CASE MeterAnswer \/ MeterNote \/ UNCHANGED vars
  <2>1. UNCHANGED <<at, lost, passed>>
    BY <1>1 DEF MeterAnswer, MeterNote, vars, meter, rx, parse
  <2> QED
    BY <2>1 DEF Line!vars, Complete
<1>2. CASE MeterByte
  <2>1. UNCHANGED <<lost, passed>> /\ at' = NextByte(at)
    BY <1>2 DEF MeterByte, parse
  <2>2. at \in Cell /\ at.frame \in Nat
    BY CellSeqs DEF Cell
  <2>3. at'.frame = at.frame + 1 \/ at'.frame = at.frame
    BY <2>1, <2>2, NextIsLater
  <2>4. Complete' = Complete + 1 \/ Complete' = Complete
    BY <2>2, <2>3 DEF Complete
  <2> QED
    BY <2>1, <2>4 DEF Line!Next, Line!Send, Line!vars
<1>3. CASE RxCallback
  <2>1. UNCHANGED <<at, passed>> /\ (lost' = TRUE \/ lost' = lost)
    <3>1. UNCHANGED <<at, passed>>
      BY <1>3 DEF RxCallback, meter, parse
    <3>2. lost \in BOOLEAN /\ lost' = (lost \/ Len(cache') + Len(fifo') < Len(cache) + Len(fifo))
      BY <1>3 DEF RxCallback, TypeInv, BufferType
    <3> QED
      BY <3>1, <3>2
  <2> QED
    BY <2>1 DEF Line!Next, Line!Lose, Line!vars, Complete
<1>4. CASE Read
  <2>1. UNCHANGED <<at, lost, passed>>
    BY <1>4 DEF Read, meter
  <2> QED
    BY <2>1 DEF Line!vars, Complete
<1>5. CASE Parse
  <2>1. UNCHANGED <<at, lost>>
    BY <1>5 DEF Parse, meter, rx
  <2>2. \/ UNCHANGED passed
        \/ lost /\ \E f \in 0..Complete : passed' = Append(passed, f)
        \/ \E f \in (Line!Latest + 1)..Complete : passed' = Append(passed, f)
    BY <1>5, ParseRow
  <2> QED
    BY <2>1, <2>2 DEF Line!Next, Line!Garble, Line!Pass, Line!vars, Complete
<1>6. CASE Next /\ ~(Meter \/ RxCallback \/ Read \/ Parse)
  <2>1. UNCHANGED <<at, lost, passed>>
    BY <1>6, OtherSteps
  <2> QED
    BY <2>1 DEF Line!vars, Complete
<1> QED
  BY <1>1, <1>2, <1>3, <1>4, <1>5, <1>6 DEF Meter

\* If the receiver does not interrupt before the third byte, what udf_Meter_Process gets
\* are whole frames of the meter, in their order and each at most once, however
\* interrupts, reads and requests fall; only after the receive buffer has started over may
\* it get something else.
THEOREM ImplementsFrameLine ==
  ASSUME Trigger >= 3
  PROVE  Spec => PassesWholeFrames
<1>1. Init => Line!Init
  BY DEF Init, Line!Init, Complete
<1> QED
  BY <1>1, TypeInductive, RowInductive, LineStep, PTL DEF Spec, PassesWholeFrames, Line!Spec

-----------------------------------------------------------------------------
(* A dialogue.                                                               *)

\* A row that stays in one frame is no longer than the frame.
LEMMA RowInFrame ==
  ASSUME NEW s \in Seq(Cell), Linked(s), NEW f \in Nat, frames[f] \in Nat \ {0},
         s # <<>> => s[1] = [frame |-> f, place |-> 1],
         \A i \in 1..Len(s) : s[i].frame <= f
  PROVE  Len(s) <= frames[f] /\ s = Bytes(f, Len(s))
<1> DEFINE L == frames[f]
<1>1. Len(s) \in Nat
  BY LenProperties
<1>2. CASE Len(s) <= L
  <2>1. CASE s = <<>>
    <3>1. Len(s) = 0 /\ 1..0 = {}
      BY <2>1
    <3>2. s \in [1..0 -> Cell]
      BY <3>1, LenProperties
    <3> QED
      BY <1>2, <3>1, <3>2 DEF Bytes
  <2>2. CASE s # <<>>
    BY <1>2, <2>2, LinkedFrame
  <2> QED
    BY <2>1, <2>2
<1>3. ASSUME ~(Len(s) <= L) PROVE FALSE
  <2> DEFINE a == SubSeq(s, 1, L)
             c == SubSeq(s, L + 1, Len(s))
  <2>1. L \in 1..Len(s) /\ L + 1 \in 1..Len(s) /\ L \in Nat \ {0}
    BY <1>1, <1>3
  <2>2. \A i \in 1..Len(s) : s[i] \in Cell
    BY ElementOfSeq
  <2>3. /\ a \in Seq(Cell) /\ Len(a) = L /\ \A i \in 1..L : a[i] = s[i]
    <3>1. \A i \in 1..L : s[i] \in Cell
      BY <1>1, <2>1, <2>2
    <3>2. /\ a \in Seq(Cell) /\ Len(a) = IF 1 <= L THEN L - 1 + 1 ELSE 0
          /\ \A i \in 1..(L - 1 + 1) : a[i] = s[1 + i - 1]
      BY <2>1, <3>1, SubSeqProperties
    <3> HIDE DEF a, L
    <3>3. Len(a) = L
      BY <2>1, <3>2
    <3>4. ASSUME NEW i \in 1..L PROVE a[i] = s[i]
      <4>1. i \in 1..(L - 1 + 1) /\ 1 + i - 1 = i
        BY <2>1
      <4> QED
        BY <3>2, <4>1
    <3> QED
      BY <3>2, <3>3, <3>4
  <2>4. c \in Seq(Cell)
    <3>1. \A i \in (L + 1)..Len(s) : s[i] \in Cell
      BY <1>1, <2>1, <2>2
    <3> QED
      BY <1>1, <2>1, <3>1, SubSeqProperties
  <2>5. a \o c = s
    <3>1. SubSeq(s, 1, L) \o SubSeq(s, L + 1, Len(s)) = SubSeq(s, 1, Len(s))
      <4>1. 1 \in 1..(Len(s) + 1) /\ L \in (1 - 1)..Len(s) /\ Len(s) \in L..Len(s)
        BY <1>1, <2>1
      <4> HIDE DEF L
      <4> QED
        BY <4>1, ConcatAdjacentSubSeq
    <3> QED
      BY <3>1, SubSeqFull
  <2> HIDE DEF a, c, L
  <2>6. Linked(a)
    BY <2>3, <2>4, <2>5, LinkedParts
  <2>7. a # <<>> /\ a[1] = [frame |-> f, place |-> 1]
    <3>1. s # <<>> /\ 1 \in 1..L
      BY <2>1
    <3>2. Len(a) # 0
      BY <2>1, <2>3
    <3> QED
      BY <2>3, <3>1, <3>2
  <2>8. a = Bytes(f, L)
    BY <2>1, <2>3, <2>6, <2>7, LinkedFrame DEF L
  <2>9. s[L] = [frame |-> f, place |-> L]
    <3>1. a[L] = [frame |-> f, place |-> L]
      BY <2>1, <2>8 DEF Bytes
    <3>2. L \in 1..L
      BY <2>1
    <3> QED
      BY <2>3, <3>1, <3>2
  <2>10. s[L + 1] = NextByte(s[L])
    <3>1. L \in 1..(Len(s) - 1)
      BY <1>1, <2>1
    <3> QED
      BY <3>1 DEF Linked
  <2>11. s[L + 1].frame = f + 1
    BY <2>9, <2>10 DEF NextByte, L
  <2>12. s[L + 1].frame <= f
    BY <2>1
  <2> QED
    BY <2>11, <2>12
<1> QED
  BY <1>2, <1>3

\* The frame that is on its way, or will be the next.
Current == Len(passed) + 1

\* In a dialogue there is one request or one frame at a time, and what is in the
\* buffers is the begin of that frame.
OneAtATime ==
  /\ dma.whole => dma.on
  /\ Dialogue =>
       /\ ~lost
       /\ Unpassed[1] = [frame |-> Current, place |-> 1]
       /\ Len(passed) <= Len(frames)
       /\ Pending + Len(frames) - Len(passed) <= 1
       /\ dlmsBuf # <<>> => Len(dlmsBuf) < frames[Current]

LEMMA DialogueNames ==
  Dialogue <=> spent.early = 0 /\ spent.note = 0 /\ spent.urgent = 0
BY DEF Dialogue, Disturbances

\* In a dialogue the buffers hold bytes of one frame, from its first on.
LEMMA OneFrame ==
  ASSUME TypeInv, LineInv, OneAtATime, Dialogue
  PROVE  LET x == dlmsBuf \o tmp
             w == x \o (cache \o fifo)
         IN  /\ Len(x) \in Nat /\ Len(w) = Len(x) + Len(cache) + Len(fifo)
             /\ w # <<>> => /\ Current \in 1..Len(frames)
                            /\ Len(w) <= frames[Current]
                            /\ x = Bytes(Current, Len(x))
<1> DEFINE x == dlmsBuf \o tmp
           y == cache \o fifo
           w == x \o y
<1>1. /\ w \in Seq(Byte) /\ w \in Seq(Cell) /\ Unpassed = Append(w, at)
      /\ Unpassed \in Seq(Cell) /\ Len(Unpassed) = Len(w) + 1 /\ Len(w) \in Nat
      /\ \A i \in 1..Len(w) : Unpassed[i] = w[i]
  BY UnpassedBytes
<1>2. x \in Seq(Cell) /\ y \in Seq(Cell) /\ Len(y) = Len(cache) + Len(fifo)
      /\ Len(x) \in Nat /\ Len(cache) \in Nat /\ Len(fifo) \in Nat
  <2>1. fifo \in Seq(Cell) /\ cache \in Seq(Cell) /\ x \in Seq(Cell)
    BY CellSeqs, UnpassedParts
  <2> HIDE DEF x
  <2> QED
    BY <2>1, ConcatProperties, LenProperties
<1>3. Len(w) = Len(x) + Len(y)
  BY <1>2, ConcatProperties
<1>4. ~lost /\ Linked(Unpassed) /\ Unpassed[1] = [frame |-> Current, place |-> 1]
      /\ Len(passed) <= Len(frames) /\ Pending + Len(frames) - Len(passed) <= 1
  BY DEF OneAtATime, LineInv, InRow
<1>5. Len(passed) \in Nat /\ Len(frames) \in Nat /\ Pending \in Nat
  BY Numbers, LenProperties DEF TypeInv, LineType, BufferType
<1>6. Len(frames) <= Current /\ Current \in Nat
  BY <1>4, <1>5 DEF Current
<1> HIDE DEF x, y, w
<1>7. ASSUME w # <<>>
      PROVE  Current \in 1..Len(frames) /\ Len(w) <= frames[Current] /\ x = Bytes(Current, Len(x))
  <2>1. \A i \in 1..Len(w) : w[i].frame \in 1..Len(frames)
    <3>1. \A i \in 1..Len(w) : w[i] \in Byte
      BY <1>1, ElementOfSeq
    <3> QED
      BY <3>1 DEF Byte
  <2>2. 1 \in 1..Len(w) /\ w[1] = [frame |-> Current, place |-> 1]
    <3>1. Len(w) \in Nat \ {0}
      BY <1>1, <1>7, EmptySeq
    <3>2. 1 \in 1..Len(w)
      BY <3>1
    <3> QED
      BY <1>1, <1>4, <3>2
  <2>3. Current \in 1..Len(frames)
    BY <2>1, <2>2
  <2>4. frames[Current] \in Nat \ {0}
    BY <2>3, FrameLength DEF TypeInv, LineType
  <2>5. Linked(w)
    <3>1. ASSUME NEW i \in 1..(Len(w) - 1) PROVE w[i + 1] = NextByte(w[i])
      <4>1. i \in 1..Len(w) /\ i + 1 \in 1..Len(w) /\ i \in 1..(Len(Unpassed) - 1)
        BY <1>1
      <4>2. Unpassed[i + 1] = NextByte(Unpassed[i])
        BY <1>4, <4>1 DEF Linked
      <4> QED
        BY <1>1, <4>1, <4>2
    <3> QED
      BY <3>1 DEF Linked
  <2>6. \A i \in 1..Len(w) : w[i].frame <= Current
    BY <1>5, <1>6, <2>1
  <2>7. Len(w) <= frames[Current] /\ w = Bytes(Current, Len(w))
    BY <1>1, <1>6, <2>2, <2>4, <2>5, <2>6, RowInFrame
  <2>8. x = Bytes(Current, Len(x))
    <3>1. \A i \in 1..Len(x) : x[i] = w[i] /\ i \in 1..Len(w)
      <4>1. \A i \in 1..(Len(x) + Len(y)) : w[i] = IF i <= Len(x) THEN x[i] ELSE y[i - Len(x)]
        BY <1>2, ConcatProperties DEF w
      <4> QED
        BY <1>2, <1>3, <4>1
    <3>2. \A i \in 1..Len(x) : x[i] = [frame |-> Current, place |-> i]
      BY <2>7, <3>1 DEF Bytes
    <3>3. x = [i \in 1..Len(x) |-> x[i]]
      BY <1>2, LenProperties
    <3> QED
      BY <3>2, <3>3 DEF Bytes
  <2> QED
    BY <2>3, <2>7, <2>8
<1> QED
  BY <1>2, <1>3, <1>7 DEF x, y, w

\* A dialogue has been one from the start.
LEMMA DialogueBefore ==
  ASSUME IInv, Next, Dialogue'
  PROVE  Dialogue /\ ~(\E b \in {"early", "note", "urgent"} : Spends(b))
<1>1. {"request", "early", "note", "oom", "urgent"} \subseteq Kinds
  BY DEF Kinds, Disturbances
<1>2. UNCHANGED spent \/ \E b \in {"request", "early", "note", "oom", "urgent"} : Spends(b)
  BY DEF Next, Meter, Isr, AppTask, UrgentTask, MeterAnswer, MeterNote, MeterByte, RxCallback,
         TxCallback, Wake, HandleDone, Read, ReadFails, Parse, Request, Rest, AppCall,
         UrgentRequest, UrgentCall
<1>3. spent'.early = 0 /\ spent'.note = 0 /\ spent'.urgent = 0
  BY DEF Dialogue, Disturbances
<1>4. CASE UNCHANGED spent
  <2>1. ASSUME NEW b \in {"early", "note", "urgent"}, Spends(b) PROVE FALSE
    BY <1>1, <1>4, <2>1, SpendsUp
  <2> QED
    BY <1>3, <1>4, <2>1, DialogueNames
<1>5. CASE \E b \in {"request", "early", "note", "oom", "urgent"} : Spends(b)
  <2>1. PICK b \in {"request", "early", "note", "oom", "urgent"} : Spends(b)
    BY <1>5
  <2>2. spent'[b] = spent[b] + 1 /\ spent[b] \in Nat
        /\ \A c \in Kinds \ {b} : spent'[c] = spent[c]
    BY <1>1, <2>1, SpendsUp
  <2>3. b \notin {"early", "note", "urgent"}
    BY <1>3, <2>2
  <2>4. spent.early = 0 /\ spent.note = 0 /\ spent.urgent = 0
    BY <1>1, <1>3, <2>2, <2>3
  <2>5. ASSUME NEW c \in {"early", "note", "urgent"}, Spends(c) PROVE FALSE
    <3>1. spent'[c] = spent[c] + 1 /\ spent[c] \in Nat
      BY <1>1, <2>5, SpendsUp
    <3> QED
      BY <1>3, <3>1
  <2> QED
    BY <2>4, <2>5, DialogueNames
<1> QED
  BY <1>2, <1>4, <1>5

\* A step that leaves the line as it is, and makes no request.
LEMMA SameDialogue ==
  ASSUME TypeInv, OneAtATime, Dialogue' => Dialogue,
         UNCHANGED <<frames, passed, lost, dlmsBuf>>, Unpassed'[1] = Unpassed[1],
         dma'.whole => dma'.on, Pending' \in Nat, Pending' <= Pending
  PROVE  OneAtATime'
<1>1. Len(passed) \in Nat /\ Len(frames) \in Nat /\ Pending \in Nat
  BY Numbers, LenProperties DEF TypeInv, LineType, BufferType
<1>2. SUFFICES ASSUME Dialogue'
      PROVE  /\ ~lost' /\ Unpassed'[1] = [frame |-> Current', place |-> 1]
             /\ Len(passed') <= Len(frames')
             /\ Pending' + Len(frames') - Len(passed') <= 1
             /\ dlmsBuf' # <<>> => Len(dlmsBuf') < frames'[Current']
  BY DEF OneAtATime
<1>3. /\ ~lost /\ Unpassed[1] = [frame |-> Current, place |-> 1]
      /\ Len(passed) <= Len(frames) /\ Pending + Len(frames) - Len(passed) <= 1
      /\ dlmsBuf # <<>> => Len(dlmsBuf) < frames[Current]
  BY <1>2 DEF OneAtATime
<1>4. Pending' + Len(frames) - Len(passed) <= 1
  BY <1>1, <1>3
<1> QED
  BY <1>3, <1>4 DEF Current

\* The meter answers the one request it has.
LEMMA AnswerDialogue ==
  ASSUME IInv, TypeInv, LineInv, OneAtATime, MeterAnswer, Dialogue' => Dialogue
  PROVE  OneAtATime'
<1>0. asked \in Nat /\ Pending \in Nat /\ Len(passed) \in Nat /\ Len(frames) \in Nat
  BY Numbers, LenProperties DEF TypeInv, LineType, BufferType
<1>1. /\ asked > 0 /\ asked' = asked - 1
      /\ UNCHANGED <<at, fifo, cache, tmp, dlmsBuf, lost, passed, appAt, urgentAt, dma, spent>>
      /\ (\E l \in FrameLens : Queue(l)) \/ UNCHANGED frames
  BY DEF MeterAnswer, rx, parse, tx
<1>2. Pending' = Pending - 1 /\ Pending' \in Nat
  BY <1>0, <1>1 DEF Pending, Ones
<1>3. Unpassed' = Unpassed
  BY <1>1 DEF Unpassed
<1>4. dma'.whole => dma'.on
  BY <1>1 DEF OneAtATime
<1>5. CASE UNCHANGED frames
  BY <1>0, <1>1, <1>2, <1>3, <1>4, <1>5, SameDialogue
<1>6. CASE \E l \in FrameLens : Queue(l)
  <2>1. PICK l \in FrameLens : Queue(l)
    BY <1>6
  <2>2. Len(frames') = Len(frames) + 1 /\ \A f \in 1..Len(frames) : frames'[f] = frames[f]
    BY <2>1, AppendProperties DEF Queue, TypeInv, LineType
  <2> SUFFICES ASSUME Dialogue'
      PROVE  /\ ~lost' /\ Unpassed'[1] = [frame |-> Current', place |-> 1]
             /\ Len(passed') <= Len(frames')
             /\ Pending' + Len(frames') - Len(passed') <= 1
             /\ dlmsBuf' # <<>> => Len(dlmsBuf') < frames'[Current']
    BY <1>4 DEF OneAtATime
  <2>3. /\ ~lost /\ Unpassed[1] = [frame |-> Current, place |-> 1]
        /\ Len(passed) <= Len(frames) /\ Pending + Len(frames) - Len(passed) <= 1
        /\ dlmsBuf # <<>> => Len(dlmsBuf) < frames[Current]
    BY DEF OneAtATime
  <2>4. dlmsBuf # <<>> => Current \in 1..Len(frames)
    <3>1. ASSUME dlmsBuf # <<>> PROVE (dlmsBuf \o tmp) \o (cache \o fifo) # <<>>
      <4>1. dlmsBuf \in Seq(Cell) /\ tmp \in Seq(Cell) /\ cache \o fifo \in Seq(Cell)
            /\ dlmsBuf \o tmp \in Seq(Cell)
        BY CellSeqs, ConcatProperties
      <4>2. dlmsBuf \o tmp # <<>>
        BY <3>1, <4>1, ConcatEqualIffEmpty
      <4> QED
        BY <4>1, <4>2, ConcatEqualIffEmpty
    <3> QED
      BY <3>1, OneFrame
  <2> QED
    BY <1>0, <1>1, <1>2, <1>3, <2>2, <2>3, <2>4 DEF Current
<1> QED
  BY <1>1, <1>5, <1>6

LEMMA RxDialogue ==
  ASSUME IInv, TypeInv, LineInv, OneAtATime, RxCallback, \A l \in FrameLens : l + 1 < Size
  PROVE  OneAtATime'
<1>1. /\ cache' = Refilled.cache /\ fifo' = Refilled.fifo
      /\ lost' = (lost \/ Len(cache') + Len(fifo') < Len(cache) + Len(fifo))
      /\ UNCHANGED <<frames, at, asked, tmp, dlmsBuf, passed, appAt, urgentAt, dma, spent>>
  BY DEF RxCallback, meter, parse, tx
<1>2. Pending' = Pending
  BY <1>1 DEF Pending
<1>3. fifo \in Seq(Cell) /\ cache \in Seq(Cell) /\ Len(cache) < Size
      /\ Len(cache) \in Nat /\ Len(fifo) \in Nat
  BY CellSeqs, LenProperties DEF TypeInv, BufferType
<1>4. CASE Dialogue
  <2> DEFINE x == dlmsBuf \o tmp
             w == x \o (cache \o fifo)
  <2>1. /\ Len(x) \in Nat /\ Len(w) = Len(x) + Len(cache) + Len(fifo)
        /\ w # <<>> => Current \in 1..Len(frames) /\ Len(w) <= frames[Current]
    BY <1>4, OneFrame
  <2> HIDE DEF x, w
  <2>2. Len(cache) + Len(fifo) < Size - 1
    <3>0. Size \in Nat /\ Size > 1
      BY UartAssumption
    <3>1. CASE w # <<>>
      <4>1. frames[Current] \in FrameLens /\ frames[Current] \in Nat
        BY <2>1, <3>1, FrameLength DEF TypeInv, LineType
      <4>2. frames[Current] + 1 < Size /\ Len(w) <= frames[Current]
        BY <2>1, <3>1, <4>1
      <4> QED
        BY <1>3, <2>1, <3>0, <4>1, <4>2
    <3>2. CASE w = <<>>
      <4>1. Len(x) + Len(cache) + Len(fifo) = 0 /\ Len(x) \in Nat
        BY <2>1, <3>2
      <4>2. Len(cache) = 0 /\ Len(fifo) = 0
        BY <1>3, <4>1
      <4> QED
        BY <3>0, <4>2
    <3> QED
      BY <3>1, <3>2
  <2>3. Refilled = [cache |-> cache \o fifo, fifo |-> <<>>]
    BY <1>3, <2>2, Refill
  <2>4. cache' = cache \o fifo /\ fifo' = <<>>
    BY <1>1, <2>3
  <2>5. cache' \o fifo' = cache \o fifo /\ Len(cache') + Len(fifo') = Len(cache) + Len(fifo)
    <3>1. cache \o fifo \in Seq(Cell) /\ Len(cache \o fifo) = Len(cache) + Len(fifo)
      BY <1>3, ConcatProperties
    <3>2. (cache \o fifo) \o <<>> = cache \o fifo /\ Len(<<>>) = 0
      BY <3>1, ConcatEmptySeq
    <3> QED
      BY <1>3, <2>4, <3>1, <3>2
  <2>6. Unpassed' = Unpassed
    BY <1>1, <2>5 DEF Unpassed
  <2>7. lost' = lost
    <3>1. lost' = (lost \/ Len(cache) + Len(fifo) < Len(cache) + Len(fifo))
      BY <1>1, <2>5
    <3>2. ~(Len(cache) + Len(fifo) < Len(cache) + Len(fifo))
      BY <1>3
    <3>3. lost \in BOOLEAN
      BY DEF TypeInv, BufferType
    <3> QED
      BY <3>1, <3>2, <3>3
  <2>8. dma'.whole => dma'.on
    BY <1>1 DEF OneAtATime
  <2>9. Pending' \in Nat /\ Pending' <= Pending /\ Unpassed'[1] = Unpassed[1]
    BY <1>2, <2>6, Numbers
  <2> QED
    BY <1>1, <1>4, <2>7, <2>8, <2>9, SameDialogue
<1>5. CASE ~Dialogue
  <2>1. ~Dialogue'
    BY <1>1, <1>5 DEF Dialogue
  <2> QED
    BY <1>1, <2>1 DEF OneAtATime
<1> QED
  BY <1>4, <1>5

LEMMA ByteDialogue ==
  ASSUME TypeInv, OneAtATime, MeterByte
  PROVE  OneAtATime'
<1>1. /\ fifo' = Append(fifo, at) /\ at' = NextByte(at)
      /\ UNCHANGED <<frames, asked, cache, tmp, dlmsBuf, passed, lost, appAt, urgentAt, dma, spent>>
  BY DEF MeterByte, parse, tx
<1>2. Pending' \in Nat /\ Pending' <= Pending
  BY <1>1, Numbers DEF Pending
<1>3. Unpassed'[1] = Unpassed[1]
  <2>1. cache \in Seq(Cell) /\ fifo \in Seq(Cell) /\ dlmsBuf \o tmp \in Seq(Cell)
        /\ cache \o fifo \in Seq(Cell) /\ at \in Cell /\ at' \in Cell
    BY <1>1, CellSeqs, ConcatProperties, NextIsLater
  <2> DEFINE w == (dlmsBuf \o tmp) \o (cache \o fifo)
  <2>2. cache \o Append(fifo, at) = Append(cache \o fifo, at)
    BY <2>1, AppendToConcat
  <2>3. (dlmsBuf \o tmp) \o Append(cache \o fifo, at) = Append(w, at)
    BY <2>1, AppendToConcat
  <2>4. /\ Unpassed = Append(w, at) /\ Unpassed \in Seq(Cell) /\ Len(w) \in Nat
        /\ Len(Unpassed) = Len(w) + 1
    BY UnpassedBytes
  <2> HIDE DEF w
  <2>5. Unpassed' = Append(Unpassed, at')
    BY <1>1, <2>2, <2>3, <2>4 DEF Unpassed
  <2>6. 1 \in 1..Len(Unpassed)
    BY <2>4
  <2> QED
    BY <2>1, <2>4, <2>5, <2>6, AppendProperties
<1>4. dma'.whole => dma'.on
  BY <1>1 DEF OneAtATime
<1>5. Dialogue' => Dialogue
  BY <1>1 DEF Dialogue
<1> QED
  BY <1>1, <1>2, <1>3, <1>4, <1>5, SameDialogue

\* In a dialogue a frame is kept until it is whole, and passed on when it is.
LEMMA ParseDialogue ==
  ASSUME TypeInv, LineInv, OneAtATime, Parse
  PROVE  OneAtATime'
<1> DEFINE x == dlmsBuf \o tmp
           b == Stored
<1>1. PICK n \in Announced(b) :
        /\ dlmsBuf' = IF n >= Longest \/ Len(b) >= Longest \/ Len(b) >= n THEN <<>> ELSE b
        /\ passed' = IF ~(n >= Longest \/ Len(b) >= Longest) /\ Len(b) = n
                       THEN Append(passed, FrameOf(b)) ELSE passed
  BY DEF Parse
<1>2. /\ tmp' = <<>> /\ appAt = "parse" /\ appAt' = "work"
      /\ UNCHANGED <<frames, at, asked, fifo, cache, lost, dma, urgentAt, spent>>
  BY DEF Parse, App, meter, rx, tx
<1>3. dma'.whole => dma'.on
  BY <1>2 DEF OneAtATime
<1>4. Pending' = Pending
  BY <1>2 DEF Pending, Calling
<1> SUFFICES ASSUME Dialogue'
    PROVE  /\ ~lost' /\ Unpassed'[1] = [frame |-> Current', place |-> 1]
           /\ Len(passed') <= Len(frames')
           /\ Pending' + Len(frames') - Len(passed') <= 1
           /\ dlmsBuf' # <<>> => Len(dlmsBuf') < frames'[Current']
  BY <1>3 DEF OneAtATime
<1>5. Dialogue
  BY <1>2 DEF Dialogue
<1>6. /\ ~lost /\ Unpassed[1] = [frame |-> Current, place |-> 1]
      /\ Len(passed) <= Len(frames) /\ Pending + Len(frames) - Len(passed) <= 1
      /\ dlmsBuf # <<>> => Len(dlmsBuf) < frames[Current]
  BY <1>5 DEF OneAtATime
<1>7. /\ Len(passed) \in Nat /\ Len(frames) \in Nat /\ Pending \in Nat /\ Longest \in Nat
      /\ passed \in Seq(0..Len(frames))
  BY Numbers, LenProperties, UartAssumption DEF TypeInv, LineType, BufferType
<1> DEFINE y == Append(cache \o fifo, at)
<1>8. x \in Seq(Cell) /\ y \in Seq(Cell) /\ y # <<>> /\ Unpassed = x \o y /\ Len(x) \in Nat
  BY UnpassedParts, LenProperties
<1>9. x # <<>> => /\ Current \in 1..Len(frames) /\ Len(x) <= frames[Current]
                  /\ x = Bytes(Current, Len(x))
  <2>1. x # <<>> => x \o (cache \o fifo) # <<>>
    <3>1. cache \o fifo \in Seq(Cell)
      BY CellSeqs, ConcatProperties
    <3> HIDE DEF x
    <3> QED
      BY <1>8, <3>1, ConcatEqualIffEmpty
  <2>2. /\ Len(x) \in Nat /\ Len(x \o (cache \o fifo)) = Len(x) + Len(cache) + Len(fifo)
        /\ x \o (cache \o fifo) # <<>> =>
             /\ Current \in 1..Len(frames) /\ x = Bytes(Current, Len(x))
             /\ Len(x \o (cache \o fifo)) <= frames[Current]
    BY <1>5, OneFrame
  <2>3. Len(cache) \in Nat /\ Len(fifo) \in Nat
    BY CellSeqs, LenProperties
  <2> HIDE DEF x
  <2>4. ASSUME x # <<>> PROVE Len(x) <= frames[Current]
    <3>1. frames[Current] \in Nat
      BY <2>1, <2>2, <2>4, FrameLength DEF TypeInv, LineType
    <3> QED
      BY <2>1, <2>2, <2>3, <2>4, <3>1
  <2> QED
    BY <2>1, <2>2, <2>4
<1>10. b = x
  <2>1. tmp \in Seq(Cell) /\ dlmsBuf \in Seq(Cell)
    BY CellSeqs
  <2>2. CASE dlmsBuf # <<>>
    BY <2>1, <2>2, StoredParts
  <2>3. CASE dlmsBuf = <<>>
    <3>1. x = tmp
      BY <2>1, <2>3, ConcatEmptySeq
    <3>2. PICK i \in 1..(Len(tmp) + 1) :
            /\ b = SubSeq(tmp, i, Len(tmp))
            /\ \A j \in 1..Len(tmp) : j < i => Kind(tmp[j]) # "flag"
      BY <2>1, <2>3, StoredParts
    <3>3. i = 1
      <4>1. CASE tmp = <<>>
        <5>1. Len(tmp) = 0
          BY <4>1
        <5> QED
          BY <3>2, <5>1
      <4>2. CASE tmp # <<>>
        <5>1. tmp = Bytes(Current, Len(tmp)) /\ 1 \in 1..Len(tmp)
          BY <1>9, <2>1, <3>1, <4>2, EmptySeq
        <5>2. tmp[1] = [frame |-> Current, place |-> 1]
          BY <5>1 DEF Bytes
        <5>3. Kind(tmp[1]) = "flag"
          BY <5>2 DEF Kind
        <5> QED
          BY <3>2, <5>1, <5>3
      <4> QED
        BY <4>1, <4>2
    <3>4. SubSeq(tmp, 1, Len(tmp)) = tmp
      BY <2>1, SubSeqFull
    <3> QED
      BY <3>1, <3>2, <3>3, <3>4
  <2> QED
    BY <2>2, <2>3
<1>11. b \in Seq(Byte) /\ Begun(b)
  BY <1>6, StoredRow
<1> HIDE DEF b, x, y
<1>12. Linked(x) /\ (x # <<>> => y[1] = NextByte(x[Len(x)]))
  <2>1. Linked(Unpassed)
    BY <1>6 DEF LineInv, InRow
  <2> QED
    BY <1>8, <2>1, LinkedParts
<1>13. x = <<>> => dlmsBuf' = <<>>
  <2>1. ASSUME x = <<>> PROVE dlmsBuf' = <<>>
    BY <1>1, <1>10, <2>1
  <2> QED
    BY <2>1
<1>14. x # <<>> => n = frames[Current]
  <2>1. ASSUME x # <<>> PROVE n = frames[Current]
    <3>1. 1 \in 1..Len(x)
      BY <1>8, <2>1, EmptySeq
    <3>2. x[1] = [frame |-> Current, place |-> 1]
      BY <1>9, <2>1, <3>1 DEF Bytes
    <3>3. Kind(x[1]) = "flag"
      BY <3>2 DEF Kind
    <3>4. x[1].place = 1 /\ x[1].frame = Current
      BY <3>2
    <3> QED
      BY <1>1, <1>10, <1>11, <1>12, <2>1, <3>3, <3>4, AnnouncedByHead
  <2> QED
    BY <2>1
<1>15. x = <<>> => UNCHANGED passed
  <2>1. ASSUME x = <<>> PROVE Len(b) # n
    <3>1. Len(b) = 0
      BY <1>10, <2>1
    <3>2. n = 2
      BY <1>1, <3>1 DEF Announced, High, Low
    <3> QED
      BY <3>1, <3>2
  <2> QED
    BY <1>1, <2>1
<1>16. (x \o y)[1] = IF x = <<>> THEN y[1] ELSE x[1]
  <2>1. Len(y) \in Nat \ {0}
    BY <1>8, EmptySeq
  <2>2. CASE x = <<>>
    BY <1>8, <2>2, ConcatEmptySeq
  <2>3. CASE x # <<>>
    <3>1. 1 \in 1..(Len(x) + Len(y)) /\ 1 <= Len(x)
      BY <1>8, <2>1, <2>3, EmptySeq
    <3> QED
      BY <1>8, <2>3, <3>1, ConcatProperties
  <2> QED
    BY <2>2, <2>3
<1>17. dlmsBuf' \in Seq(Cell) => Unpassed' = dlmsBuf' \o y
  <2>1. ASSUME dlmsBuf' \in Seq(Cell) PROVE Unpassed' = dlmsBuf' \o y
    <3>1. cache \o fifo \in Seq(Cell) /\ at \in Cell
      BY CellSeqs, ConcatProperties
    <3>2. dlmsBuf' \o Append(cache \o fifo, at) = Append(dlmsBuf' \o (cache \o fifo), at)
      BY <2>1, <3>1, AppendToConcat
    <3>3. dlmsBuf' \o <<>> = dlmsBuf'
      BY <2>1, ConcatEmptySeq
    <3> QED
      BY <1>2, <3>2, <3>3 DEF Unpassed, y
  <2> QED
    BY <2>1
<1>18. <<>> \o y = y /\ <<>> \in Seq(Cell)
  BY <1>8, ConcatEmptySeq, EmptySeq
<1>19. CASE x = <<>>
  <2>1. Unpassed'[1] = Unpassed[1]
    BY <1>8, <1>13, <1>16, <1>17, <1>18, <1>19
  <2> QED
    BY <1>2, <1>4, <1>6, <1>13, <1>15, <1>19, <2>1 DEF Current
<1>20. CASE x # <<>> /\ Len(x) < frames[Current]
  <2>1. frames[Current] \in Nat /\ frames[Current] < Longest
    BY <1>9, <1>20, FrameLength DEF TypeInv, LineType
  <2>2. dlmsBuf' = x /\ UNCHANGED passed
    BY <1>1, <1>7, <1>8, <1>10, <1>14, <1>20, <2>1
  <2>3. Unpassed'[1] = Unpassed[1]
    BY <1>8, <1>17, <2>2
  <2> QED
    BY <1>2, <1>4, <1>6, <1>20, <2>2, <2>3 DEF Current
<1>21. CASE x # <<>> /\ ~(Len(x) < frames[Current])
  <2>1. frames[Current] \in Nat /\ frames[Current] < Longest /\ frames[Current] > 3
    BY <1>9, <1>21, FrameLength DEF TypeInv, LineType
  <2>2. Len(x) = frames[Current]
    BY <1>8, <1>9, <1>21, <2>1
  <2>3. dlmsBuf' = <<>> /\ passed' = Append(passed, FrameOf(x))
    BY <1>1, <1>7, <1>8, <1>10, <1>14, <1>21, <2>1, <2>2
  <2>4. x[Len(x)] = [frame |-> Current, place |-> frames[Current]]
    <3>1. Len(x) \in 1..Len(x)
      BY <2>1, <2>2
    <3> QED
      BY <1>9, <1>21, <2>2, <3>1 DEF Bytes
  <2>5. Unpassed'[1] = [frame |-> Current + 1, place |-> 1]
    <3>1. NextByte(x[Len(x)]) = [frame |-> Current + 1, place |-> 1]
      BY <2>4 DEF NextByte
    <3> QED
      BY <1>12, <1>17, <1>18, <1>21, <2>3, <3>1
  <2>6. Len(passed') = Len(passed) + 1
    <3>1. x \in Seq(Byte)
      BY <1>10, <1>11
    <3>2. FrameOf(x) \in 0..Len(frames)
      BY <3>1, FrameOfType DEF TypeInv, LineType
    <3> QED
      BY <1>7, <2>3, <3>2, AppendProperties
  <2>7. Current' = Current + 1
    BY <2>6 DEF Current
  <2>8. Len(passed') <= Len(frames) /\ Pending + Len(frames) - Len(passed') <= 1
    BY <1>6, <1>7, <1>9, <1>21, <2>6 DEF Current
  <2> QED
    BY <1>2, <1>4, <1>6, <2>3, <2>5, <2>7, <2>8
<1> QED
  BY <1>19, <1>20, <1>21

\* A request is made when the dialogue has come to rest.
LEMMA RequestDialogue ==
  ASSUME IInv, TypeInv, LineInv, OneCaller, OneAtATime, Request, Dialogue' => Dialogue
  PROVE  OneAtATime'
<1>1. /\ appAt = "work" /\ appAt' = "copy" /\ urgentAt = "idle"
      /\ IF Settled THEN Spends("request") ELSE Spends("early")
      /\ UNCHANGED <<frames, at, asked, fifo, cache, lost, tmp, dlmsBuf, passed, dma, urgentAt>>
  BY DEF Request, App, meter, rx, parse, tx
<1>2. dma'.whole => dma'.on
  BY <1>1 DEF OneAtATime
<1> SUFFICES ASSUME Dialogue'
    PROVE  /\ ~lost' /\ Unpassed'[1] = [frame |-> Current', place |-> 1]
           /\ Len(passed') <= Len(frames')
           /\ Pending' + Len(frames') - Len(passed') <= 1
           /\ dlmsBuf' # <<>> => Len(dlmsBuf') < frames'[Current']
  BY <1>2 DEF OneAtATime
<1>3. /\ ~lost /\ Unpassed[1] = [frame |-> Current, place |-> 1]
      /\ Len(passed) <= Len(frames) /\ Pending + Len(frames) - Len(passed) <= 1
      /\ dlmsBuf # <<>> => Len(dlmsBuf) < frames[Current]
  BY DEF OneAtATime
<1>4. Len(passed) \in Nat /\ Len(frames) \in Nat /\ Current \in Nat
  BY LenProperties DEF TypeInv, LineType, BufferType, Current
<1>5. Settled
  <2>1. ASSUME ~Settled PROVE FALSE
    <3>1. Spends("early") /\ "early" \in Kinds
      BY <1>1, <2>1 DEF Kinds, Disturbances
    <3>2. spent'.early = spent.early + 1 /\ spent.early \in Nat
      BY <3>1, SpendsUp
    <3>3. spent'.early = 0
      BY DEF Dialogue, Disturbances
    <3> QED
      BY <3>2, <3>3
  <2> QED
    BY <2>1
<1>6. Pending = 0 /\ Pending' = 1
  <2>1. ~dma.whole /\ asked = 0 /\ appAt \notin Calling /\ urgentAt \notin Calling
        /\ appAt' \in Calling /\ UNCHANGED <<dma, asked, urgentAt>>
    BY <1>1, <1>5 DEF OneAtATime, Settled, Calling
  <2> QED
    BY <2>1 DEF Pending, Ones
<1>7. Len(frames) = Len(passed)
  <2>1. /\ fifo = <<>> /\ cache = <<>> /\ tmp = <<>> /\ ~Sending
    BY <1>1, <1>5 DEF Settled, LineInv, InPlace
  <2>2. at.frame = Len(frames) + 1
    BY <1>4, <2>1 DEF Sending, TypeInv, LineType
  <2>3. dlmsBuf \in Seq(Cell) /\ at \in Cell /\ Len(dlmsBuf) \in Nat
    BY CellSeqs, LenProperties
  <2>4. dlmsBuf \o tmp = dlmsBuf /\ cache \o fifo = <<>> /\ dlmsBuf \o <<>> = dlmsBuf
    BY <2>1, <2>3, ConcatEmptySeq, EmptySeq
  <2>5. Unpassed = Append(dlmsBuf, at)
    BY <2>4 DEF Unpassed
  <2>6. /\ Len(Unpassed) = Len(dlmsBuf) + 1 /\ Unpassed[Len(dlmsBuf) + 1] = at
        /\ \A i \in 1..Len(dlmsBuf) : Unpassed[i] = dlmsBuf[i]
    BY <2>3, <2>5, AppendProperties
  <2>7. CASE dlmsBuf = <<>>
    <3>1. Len(dlmsBuf) = 0
      BY <2>7
    <3>2. at.frame = Current
      BY <1>3, <2>6, <3>1
    <3> QED
      BY <1>4, <2>2, <3>2 DEF Current
  <2>8. CASE dlmsBuf # <<>>
    <3>1. Len(dlmsBuf) \in 1..Len(dlmsBuf) /\ Len(dlmsBuf) \in 1..(Len(Unpassed) - 1)
      BY <2>3, <2>6, <2>8, EmptySeq
    <3>2. Current \in 1..Len(frames) /\ dlmsBuf = Bytes(Current, Len(dlmsBuf))
      <4>1. (dlmsBuf \o tmp) \o (cache \o fifo) = dlmsBuf
        BY <2>4
      <4>2. Dialogue
        OBVIOUS
      <4> QED
        BY <2>4, <2>8, <4>1, <4>2, OneFrame
    <3>3. dlmsBuf[Len(dlmsBuf)] = [frame |-> Current, place |-> Len(dlmsBuf)]
      BY <3>1, <3>2 DEF Bytes
    <3>4. at = NextByte(dlmsBuf[Len(dlmsBuf)])
      <4>1. Linked(Unpassed)
        BY <1>3 DEF LineInv, InRow
      <4>2. Unpassed[Len(dlmsBuf) + 1] = NextByte(Unpassed[Len(dlmsBuf)])
        BY <3>1, <4>1 DEF Linked
      <4> QED
        BY <2>6, <3>1, <4>2
    <3>5. frames[Current] \in Nat
      BY <3>2, FrameLength DEF TypeInv, LineType
    <3>6. Len(dlmsBuf) # frames[Current]
      BY <1>3, <2>3, <2>8, <3>5
    <3>7. dlmsBuf[Len(dlmsBuf)] \in Cell
      BY <2>3, <3>1, ElementOfSeq
    <3>8. at.frame = Current
      BY <3>3, <3>4, <3>6, <3>7, NextIsLater
    <3> QED
      BY <1>4, <2>2, <3>2, <3>8
  <2> QED
    BY <2>7, <2>8
<1>8. Unpassed' = Unpassed
  BY <1>1 DEF Unpassed
<1> QED
  BY <1>1, <1>3, <1>4, <1>6, <1>7, <1>8 DEF Current

\* The other steps make no request and move no byte past another.
LEMMA OtherDialogue ==
  ASSUME IInv, TypeInv, LineInv, OneCaller, OneAtATime, Dialogue' => Dialogue,
         TxCallback \/ Wake \/ HandleDone \/ Read \/ ReadFails \/ Rest \/ AppCall
  PROVE  OneAtATime'
<1>1. UNCHANGED <<frames, passed, lost, dlmsBuf, at, fifo, urgentAt>>
  BY DEF TxCallback, Wake, HandleDone, Read, ReadFails, Rest, AppCall, meter, rx, parse
<1>2. Unpassed' = Unpassed
  <2>1. CASE Read
    <3>1. tmp' = cache /\ cache' = <<>> /\ appAt = "read"
      BY <2>1 DEF Read, App
    <3>2. tmp = <<>>
      BY <3>1 DEF LineInv, InPlace
    <3>3. fifo \in Seq(Cell) /\ cache \in Seq(Cell) /\ dlmsBuf \in Seq(Cell)
      BY CellSeqs
    <3>4. dlmsBuf \o tmp = dlmsBuf /\ <<>> \o fifo = fifo
      BY <3>2, <3>3, ConcatEmptySeq
    <3>5. (dlmsBuf \o cache) \o fifo = dlmsBuf \o (cache \o fifo)
      BY <3>3, ConcatAssociative
    <3> QED
      BY <1>1, <3>1, <3>4, <3>5 DEF Unpassed
  <2>2. CASE ~Read
    <3>1. UNCHANGED <<tmp, cache>>
      BY <2>2 DEF TxCallback, Wake, HandleDone, ReadFails, Rest, AppCall, rx, parse
    <3> QED
      BY <1>1, <3>1 DEF Unpassed
  <2> QED
    BY <2>1, <2>2
<1>0. asked \in Nat /\ Pending \in Nat
  BY Numbers
<1>3. (dma'.whole => dma'.on) /\ Pending' \in Nat /\ Pending' <= Pending
  <2>1. CASE TxCallback
    <3>1. /\ dma' = [on |-> FALSE, whole |-> FALSE] /\ UNCHANGED <<appAt, urgentAt>>
          /\ asked' = IF dma.whole THEN asked + 1 ELSE asked
      BY <2>1 DEF TxCallback
    <3>2. Pending' = Pending
      BY <1>0, <3>1 DEF Pending, Ones
    <3> QED
      BY <1>0, <3>1, <3>2
  <2>2. CASE Wake \/ HandleDone \/ Read \/ ReadFails \/ Rest
    <3>1. UNCHANGED <<dma, asked, urgentAt>> /\ appAt' \notin Calling
      BY <2>2 DEF Wake, HandleDone, Read, ReadFails, Rest, meter, tx, Calling
    <3>2. Pending' \in Nat /\ Pending' <= Pending
      BY <1>0, <3>1 DEF Pending, Ones
    <3> QED
      BY <3>1, <3>2 DEF OneAtATime
  <2>3. CASE AppCall
    <3>1. UNCHANGED <<asked, urgentAt>>
      BY <2>3 DEF AppCall, meter
    <3>2. PICK next \in Places \cup {"return"} :
            /\ Call("app", appAt, next)
            /\ appAt' = IF next = "return" THEN "work" ELSE next
      BY <2>3 DEF AppCall
    <3>3. /\ dma' \in [on : BOOLEAN, whole : BOOLEAN]
          /\ Ones(dma'.whole) + Ones(next \in Calling)
               <= Ones(dma.whole) + Ones(appAt \in Calling)
      BY <3>2, CallTypes
    <3>4. next \in Calling <=> appAt' \in Calling
      BY <3>2 DEF Calling, Places
    <3>5. Pending' \in Nat /\ Pending' <= Pending
      BY <1>0, <3>1, <3>3, <3>4 DEF Pending, Ones
    <3>6. dma \in [on : BOOLEAN, whole : BOOLEAN]
      BY DEF TypeInv, CallType
    <3>7. dma'.whole => dma'.on
      <4>1. ASSUME NEW h, Fill("app", h) PROVE ~dma'.whole
        BY <3>6, <4>1 DEF Fill
      <4>2. ASSUME Start("app") PROVE dma'.on
        BY <4>2 DEF Start
      <4>3. dma' = dma => (dma'.whole => dma'.on)
        BY DEF OneAtATime
      <4> QED
        BY <3>2, <4>1, <4>2, <4>3 DEF Call, tx
    <3> QED
      BY <3>5, <3>7
  <2> QED
    BY <2>1, <2>2, <2>3
<1> QED
  BY <1>1, <1>2, <1>3, SameDialogue

LEMMA DialogueInductive ==
  ASSUME \A l \in FrameLens : l + 1 < Size
  PROVE  /\ Init => OneAtATime
         /\ /\ IInv /\ TypeInv /\ LineInv /\ OneCaller /\ OneAtATime /\ [Next]_vars
            => OneAtATime'
<1>1. ASSUME Init PROVE OneAtATime
  <2>1. /\ fifo = <<>> /\ cache = <<>> /\ tmp = <<>> /\ dlmsBuf = <<>> /\ passed = <<>>
        /\ at = [frame |-> 1, place |-> 1] /\ frames = <<>> /\ ~lost /\ asked = 0
        /\ ~dma.whole /\ appAt = "wait" /\ urgentAt = "idle"
    BY <1>1 DEF Init
  <2>2. Unpassed = <<at>>
    <3>1. <<>> \o <<>> = <<>>
      BY EmptySeq, ConcatEmptySeq
    <3>2. Unpassed = Append(<<>>, at)
      BY <2>1, <3>1 DEF Unpassed
    <3> QED
      BY <3>2
  <2>3. Len(passed) = 0 /\ Len(frames) = 0 /\ Current = 1
    BY <2>1 DEF Current
  <2>4. Pending = 0
    BY <2>1 DEF Pending, Ones, Calling
  <2> QED
    BY <2>1, <2>2, <2>3, <2>4 DEF OneAtATime
<1>2. ASSUME IInv, TypeInv, LineInv, OneCaller, OneAtATime, Next PROVE OneAtATime'
  <2>1. CASE Dialogue'
    <3>1. Dialogue /\ ~(\E b \in {"early", "note", "urgent"} : Spends(b))
      BY <1>2, <2>1, DialogueBefore
    <3>2. ~MeterNote /\ ~UrgentRequest
      BY <3>1 DEF MeterNote, UrgentRequest
    <3>3. ~UrgentCall
      <4>1. urgentAt = "idle"
        BY <1>2, <3>1, DialogueNames DEF OneCaller
      <4> QED
        BY <4>1 DEF UrgentCall, Call
    <3> QED
      BY <1>1, <1>2, <3>1, <3>2, <3>3, AnswerDialogue, ByteDialogue, RxDialogue, ParseDialogue,
         RequestDialogue, OtherDialogue DEF Next, Meter, Isr, AppTask, UrgentTask
  <2>2. CASE ~Dialogue'
    <3>1. dma'.whole => dma'.on
      <4>0. dma \in [on : BOOLEAN, whole : BOOLEAN] /\ (dma.whole => dma.on)
        BY <1>2 DEF TypeInv, CallType, OneAtATime
      <4>1. CASE dma' = dma
        BY <4>0, <4>1
      <4>2. CASE TxCallback
        BY <4>2 DEF TxCallback
      <4>3. ASSUME NEW t, NEW l, NEW next, Call(t, l, next) PROVE dma'.whole => dma'.on
        <5>1. ASSUME NEW h, Fill(t, h) PROVE ~dma'.whole
          BY <4>0, <5>1 DEF Fill
        <5>2. ASSUME Start(t) PROVE dma'.on
          BY <5>2 DEF Start
        <5> QED
          BY <4>0, <4>3, <5>1, <5>2 DEF Call, tx
      <4>4. CASE AppCall \/ UrgentCall
        BY <4>3, <4>4 DEF AppCall, UrgentCall
      <4>5. dma' = dma \/ TxCallback \/ AppCall \/ UrgentCall
        BY <1>2 DEF Next, Meter, Isr, AppTask, UrgentTask, MeterAnswer, MeterNote, MeterByte,
           RxCallback, Wake, HandleDone, Read, ReadFails, Parse, Request, Rest,
           UrgentRequest, tx
      <4> QED
        BY <4>1, <4>2, <4>4, <4>5
    <3> QED
      BY <2>2, <3>1 DEF OneAtATime
  <2> QED
    BY <2>1, <2>2
<1>3. ASSUME OneAtATime, UNCHANGED vars PROVE OneAtATime'
  BY <1>3 DEF vars, meter, rx, parse, tx, OneAtATime, Dialogue, Unpassed, Current, Pending
<1> QED
  BY <1>1, <1>2, <1>3

\* While the application asks and waits, and no frame fills the receive buffer, every
\* byte of the meter that was not passed on is still on its way, once and in order:
\* no interleaving of interrupts, reads and failing allocations loses or doubles one.
THEOREM NothingLost ==
  ASSUME Trigger >= 3, \A l \in FrameLens : l + 1 < Size
  PROVE  Spec => []NoByteLost
<1>1. TypeInv /\ LineInv /\ OneAtATime => NoByteLost
  <2> SUFFICES ASSUME TypeInv, LineInv, OneAtATime, Dialogue
               PROVE  LET line == dlmsBuf \o tmp \o cache \o Append(fifo, at)
                      IN  /\ line[1] = [frame |-> Len(passed) + 1, place |-> 1]
                          /\ \A i \in 1..(Len(line) - 1) : line[i + 1] = NextByte(line[i])
    BY DEF NoByteLost
  <2> DEFINE x == dlmsBuf \o tmp
             z == Append(fifo, at)
             y == Append(cache \o fifo, at)
  <2>1. /\ x \in Seq(Cell) /\ z \in Seq(Cell) /\ cache \in Seq(Cell)
        /\ Unpassed = x \o y /\ y = cache \o z
    BY CellSeqs, UnpassedParts
  <2> HIDE DEF x, y, z
  <2>2. (x \o cache) \o z = Unpassed
    BY <2>1, ConcatAssociative
  <2>3. dlmsBuf \o tmp \o cache \o Append(fifo, at) = Unpassed
    BY <2>2 DEF x, z
  <2>4. ~lost /\ Unpassed[1] = [frame |-> Len(passed) + 1, place |-> 1]
    BY DEF OneAtATime, Current
  <2>5. Linked(Unpassed)
    BY <2>4 DEF LineInv, InRow
  <2> QED
    BY <2>3, <2>4, <2>5 DEF Linked
<1> QED
  BY <1>1, Inductive, TypeInductive, OneCallerInductive, RowInductive, DialogueInductive, PTL
     DEF Spec
=============================================================================
