----------------------------- MODULE RfStateQueue -----------------------------
(* The queue of causes of interrupts in hosal_rf.c: a ring of places, where   *)
(* an empty place holds "none", and two indices.  The interrupt pushes, the   *)
(* task pops, both with the radio's interrupt disabled.                       *)
EXTENDS Integers, FiniteSets

CONSTANTS QueueSize,  \* HOSAL_RF_Q_MAX_SIZE (16)
          Kind        \* causes of an interrupt

ASSUME QueueAssumption == /\ QueueSize \in Nat \ {0}
                          /\ "none" \notin Kind

Place == 0..(QueueSize - 1)

Queue == [cmd : [Place -> Kind \cup {"none"}], rp : Place, wp : Place]

EmptyQueue == [cmd |-> [i \in Place |-> "none"], rp |-> 0, wp |-> 0]

\* The next place, round the ring.
After(i) == IF i + 1 = QueueSize THEN 0 ELSE i + 1

\* __rf_push_state: a push into a full queue is dropped.
Push(q, k) ==
  IF q.cmd[q.wp] # "none" THEN q
  ELSE [q EXCEPT !.cmd[q.wp] = k, !.wp = After(q.wp)]

Front(q) == q.cmd[q.rp]

\* Mutant: the index of the reader is never set back.
PopOn(q) ==
  IF Front(q) = "none" THEN q
  ELSE [q EXCEPT !.cmd[q.rp] = "none", !.rp = q.rp + 1]

\* Mutant: the index of the writer, too, ends the ring.
PopWraps(q) ==
  IF Front(q) = "none" THEN q
  ELSE [q EXCEPT !.cmd[q.rp] = "none",
                 !.rp = IF q.rp < q.wp THEN q.rp + 1 ELSE 0]

\* __rf_pop_state: behind the writer the index only counts on.
Pop(q) ==
  IF Front(q) = "none" THEN q
  ELSE [q EXCEPT !.cmd[q.rp] = "none",
                 !.rp = IF q.rp <= q.wp THEN q.rp + 1 ELSE After(q.rp)]

\* The places from the reader up to the writer.
Window(q) == {i \in Place : IF q.rp <= q.wp THEN q.rp <= i /\ i < q.wp
                                            ELSE q.rp <= i \/ i < q.wp}

\* How many there are.
Used(q) == IF q.rp <= q.wp THEN q.wp - q.rp ELSE QueueSize - q.rp + q.wp

\* Every place between the indices holds a cause, and no other place does:
\* the task takes the causes in the order in which the interrupt put them.
InOrder(q) == \A i \in Place : q.cmd[i] # "none" <=> i \in Window(q)

\* How often a cause is queued.
Count(q, k) == Cardinality({i \in Place : q.cmd[i] = k})
=============================================================================
