---------------------------- MODULE NodeRegistry ----------------------------
(* What the registration tables of the devices promise: each is a map from   *)
(* device to lease, of bounded size.  A device enters it, or has its lease   *)
(* renewed, by an Enter or a Report; it leaves only when its lease has run   *)
(* out or when the table is dropped.  Slots, their order and their reuse do  *)
(* not show, nor do the tasks and messages that write the table.             *)
EXTENDS Integers, FiniteSets

CONSTANTS Node, NoNode, Capacity, Lease

VARIABLE reg   \* for each device, a function from the registered to records

NoRegistry == [x \in {} |-> NoNode]

HasRoom(f, a) == a \in DOMAIN f \/ Cardinality(DOMAIN f) < Capacity

With(f, r, p, a) ==
  [x \in DOMAIN f \cup {a} |->
     IF x = a THEN [role |-> r, parent |-> p, lease |-> Lease] ELSE f[x]]

\* f with the children in S marked as gone; they stay on file.
Without(f, S) ==
  [x \in DOMAIN f |-> IF x \in S /\ f[x].role = "Child"
                        THEN [f[x] EXCEPT !.role = "Detached"] ELSE f[x]]

Becomes(n, f) == reg' = [reg EXCEPT ![n] = f]

Init == reg = [n \in Node |-> NoRegistry]

\* Device n enters its own child or a reported one.
Enter(n, p, a) ==
  HasRoom(reg[n], a) /\ Becomes(n, With(reg[n], "Child", p, a))

Leave(n, a) == Becomes(n, Without(reg[n], {a}))

\* Router a reports: it is entered if there is room, and those of its children
\* that it does not list are gone.
Report(n, p, a, kids) ==
  LET f == IF HasRoom(reg[n], a) THEN With(reg[n], "Router", p, a) ELSE reg[n]
  IN  Becomes(n, Without(f, {x \in DOMAIN f : f[x].parent = a} \ kids))

Second(n) ==
  Becomes(n, [x \in {y \in DOMAIN reg[n] : reg[n][y].lease > 1} |->
                [reg[n][x] EXCEPT !.lease = @ - 1]])

Drop(n) == Becomes(n, NoRegistry)

Next == \E n \in Node :
          \/ Second(n)
          \/ Drop(n)
          \/ \E a \in Node :
               \/ Leave(n, a)
               \/ \E p \in Node \cup {NoNode} :
                    \/ Enter(n, p, a)
                    \/ \E kids \in SUBSET Node : Report(n, p, a, kids)

Spec == Init /\ [][Next]_reg
=============================================================================
