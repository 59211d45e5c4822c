------------------------------ MODULE RegTable ------------------------------
(* The leader's registration table of network_management.c: a fixed array of *)
(* slots, each holding one registered device until its lease runs out.       *)
(* Every operator is the effect of one critical section of that file.  The   *)
(* rssi and rloc fields, which no decision reads, are left out; a device is  *)
(* named by its extended address, and a router's rloc16 by the router.       *)
EXTENDS Integers

CONSTANTS Node,       \* the devices, each standing for its extended address
          NoNode,     \* "no device": a zeroed address or rloc
          TableSize,  \* NWK_MGM_CHILD_REQ_TATLE_SIZE (30)
          Lease,      \* NWK_MGM_CHILD_REQ_ENTRIES_TIME (300 s)
          Null        \* the table pointer before mem_malloc and after mem_free

ASSUME RegTableAssumption ==
  /\ NoNode \notin Node
  /\ TableSize \in Nat \ {0}
  /\ Lease \in Nat /\ Lease >= 2

Slots == 1..TableSize

Roles == {"Disabled", "Detached", "Child", "Router", "Leader"}

Entry == [used : BOOLEAN, role : Roles, parent : Node \cup {NoNode},
          addr : Node \cup {NoNode}, validtime : 0..Lease]

Tables == [Slots -> Entry]

ASSUME NullAssumption == Null \notin Tables

\* What memset(.., 0, ..) leaves in a slot; role 0 is OT_DEVICE_ROLE_DISABLED.
FreeEntry == [used |-> FALSE, role |-> "Disabled", parent |-> NoNode,
              addr |-> NoNode, validtime |-> 0]

EmptyTable == [i \in Slots |-> FreeEntry]

Holding(t, a) == {i \in Slots : t[i].used /\ t[i].addr = a}

Unused(t) == {i \in Slots : ~t[i].used}

FirstOf(S) == CHOOSE i \in S : \A j \in S : i <= j

\* Mutant: a full table refuses the devices it already holds.
AddFailsForgetful(t, a) == t # Null /\ Unused(t) = {}

\* nwk_mgm_child_reg_table_add returns 1: the loop variable reached the size.
\* Without a table it never enters the loop and returns 0.
AddFails(t, a) == /\ t # Null
                  /\ Holding(t, a) = {}
                  /\ Unused(t) = {}

NewEntry(r, p, a) == [used |-> TRUE, role |-> r, parent |-> p, addr |-> a,
                      validtime |-> Lease]

\* Mutant: the first free slot is taken before looking for the address.
AddSlotFreeFirst(t, a) ==
  FirstOf(IF Unused(t) # {} THEN Unused(t) ELSE Holding(t, a))

\* The slot an add writes: the one that holds the address, else the first free.
AddSlot(t, a) ==
  FirstOf(IF Holding(t, a) # {} THEN Holding(t, a) ELSE Unused(t))

\* Mutant: the update of a known device renews the lease and no more.
AddedLeaseOnly(t, r, p, a) ==
  IF t = Null \/ AddFails(t, a)
    THEN t
    ELSE [t EXCEPT ![AddSlot(t, a)] =
            IF Holding(t, a) # {} THEN [@ EXCEPT !.validtime = Lease]
                                  ELSE NewEntry(r, p, a)]

Added(t, r, p, a) ==
  IF t = Null \/ AddFails(t, a)
    THEN t
    ELSE [t EXCEPT ![AddSlot(t, a)] = NewEntry(r, p, a)]

\* Mutant: the role of the entry is not compared.
RemovedAnyRole(t, r, a) ==
  IF t = Null
    THEN t
    ELSE [i \in Slots |-> IF i \in Holding(t, a)
                            THEN [t[i] EXCEPT !.role = "Detached"]
                            ELSE t[i]]

\* nwk_mgm_child_reg_table_remove: the entry stays in use, marked detached, and
\* only if it still has the role the caller expects.
Removed(t, r, a) ==
  IF t = Null
    THEN t
    ELSE [i \in Slots |-> IF i \in Holding(t, a) /\ t[i].role = r
                            THEN [t[i] EXCEPT !.role = "Detached"]
                            ELSE t[i]]

\* The "check child table" loop of nwk_mgm_childs_register_proccess: children
\* on file for router p that its report no longer lists.
Swept(t, p, kids) ==
  IF t = Null
    THEN t
    ELSE [i \in Slots |-> IF /\ t[i].used
                             /\ t[i].parent = p
                             /\ t[i].addr \notin kids
                             /\ t[i].role = "Child"
                            THEN [t[i] EXCEPT !.role = "Detached"]
                            ELSE t[i]]

\* Mutant: an expired entry is not cleared.
AgedEntryKept(e) ==
  IF e.used /\ e.validtime > 0 THEN [e EXCEPT !.validtime = @ - 1] ELSE e

\* nwk_mgm_child_reg_table_time_handler: one second of every lease.
AgedEntry(e) ==
  IF e.used /\ e.validtime > 0
    THEN IF e.validtime = 1 THEN FreeEntry
                            ELSE [e EXCEPT !.validtime = @ - 1]
    ELSE e

Aged(t) == IF t = Null THEN t ELSE [i \in Slots |-> AgedEntry(t[i])]

\* otPlatFindNwkMgmChildRegTable
Found(t, a) == t # Null /\ Holding(t, a) # {}

Registered(t) == {a \in Node : Found(t, a)}
=============================================================================
