---------------------- MODULE NetworkManagementProofs ----------------------
(* Theorems about the registration protocol, for any number of devices, any  *)
(* table size and any timing, and their proofs.                              *)
EXTENDS NetworkManagement, FunctionTheorems, FiniteSetTheorems, WellFoundedInduction, TLAPS

(* The operators of RegTable, for a table of any size: what each critical   *)
(* section of network_management.c does to the slots.                        *)

\* No address is on file twice in table t.
Unique(t) == \A i, j \in Slots :
  t[i].used /\ t[j].used /\ t[i].addr = t[j].addr => i = j

\* The devices on file in t with at least v seconds of their lease left.
Fresh(t, v) ==
  {a \in Node : \E i \in Slots : t[i].used /\ t[i].addr = a /\ t[i].validtime >= v}

\* No slot goes from a router's entry to a detached one when t becomes u.
KeepsRouters(t, u) ==
  \A i \in Slots : ~ /\ t[i].used /\ t[i].role = "Router"
                     /\ u[i].used /\ u[i].role = "Detached"

\* What a memset table holds is a table, with nobody on file.
LEMMA FreeEntryType == FreeEntry \in Entry
  BY RegTableAssumption DEF FreeEntry, Entry, Roles

LEMMA EmptyTableType == EmptyTable \in Tables /\ Unique(EmptyTable)
  BY FreeEntryType DEF EmptyTable, Tables, Unique, FreeEntry

\* A non-empty set of slots has a first one.
LEMMA FirstOfMember ==
  ASSUME NEW S \in SUBSET Slots, S # {} PROVE FirstOf(S) \in S
<1>1. S \subseteq Nat
  BY RegTableAssumption DEF Slots
<1>2. \E i \in S : \A j \in S : <<j, i>> \notin OpToRel(<, Nat)
  BY <1>1, NatLessThanWellFounded, WFMin
<1>3. \A i, j \in Nat : <<j, i>> \notin OpToRel(<, Nat) => i <= j
  BY DEF OpToRel
<1>4. \E i \in S : \A j \in S : i <= j
  BY <1>1, <1>2, <1>3
<1> QED
  BY <1>4 DEF FirstOf

\* An add that succeeds writes the slot of the address, or a free one.
LEMMA AddSlotPlace ==
  ASSUME NEW t \in Tables, NEW a, ~AddFails(t, a)
  PROVE  /\ AddSlot(t, a) \in Slots
         /\ Holding(t, a) # {} => AddSlot(t, a) \in Holding(t, a)
         /\ Holding(t, a) = {} => AddSlot(t, a) \in Unused(t)
<1>1. Holding(t, a) \in SUBSET Slots /\ Unused(t) \in SUBSET Slots
  BY DEF Holding, Unused
<1>2. t # Null
  BY NullAssumption
<1>3. CASE Holding(t, a) # {}
  <2>1. AddSlot(t, a) = FirstOf(Holding(t, a))
    BY <1>3 DEF AddSlot
  <2> QED
    BY <1>1, <1>3, <2>1, FirstOfMember
<1>4. CASE Holding(t, a) = {}
  <2>1. Unused(t) # {}
    BY <1>2, <1>4 DEF AddFails
  <2>2. AddSlot(t, a) = FirstOf(Unused(t))
    BY <1>4 DEF AddSlot
  <2> QED
    BY <1>1, <1>4, <2>1, <2>2, FirstOfMember
<1> QED
  BY <1>3, <1>4

\* nwk_mgm_child_reg_table_add on a table: the result is a table, no address is
\* doubled, no lease is shortened, and a is on file unless the add fails.
LEMMA AddedTable ==
  ASSUME NEW t \in Tables, NEW r \in Roles, NEW p \in Node \cup {NoNode},
         NEW a \in Node
  PROVE  /\ Added(t, r, p, a) \in Tables
         /\ Unique(t) => Unique(Added(t, r, p, a))
         /\ \A v \in 0..Lease : Fresh(t, v) \subseteq Fresh(Added(t, r, p, a), v)
         /\ ~AddFails(t, a) => a \in Fresh(Added(t, r, p, a), Lease)
         /\ r # "Detached" => KeepsRouters(t, Added(t, r, p, a))
         /\ r = "Router" =>
              \A i \in Slots : t[i].used /\ t[i].role = "Router" =>
                 Added(t, r, p, a)[i].used /\ Added(t, r, p, a)[i].role = "Router"
<1> DEFINE u == Added(t, r, p, a)
           s == AddSlot(t, a)
<1>1. t # Null
  BY NullAssumption
<1>2. CASE AddFails(t, a)
  <2>1. u = t
    BY <1>2 DEF Added
  <2> QED
    BY <1>2, <2>1 DEF KeepsRouters
<1>3. CASE ~AddFails(t, a)
  <2>1. u = [t EXCEPT ![s] = NewEntry(r, p, a)]
    BY <1>1, <1>3 DEF Added
  <2>2. /\ s \in Slots
        /\ Holding(t, a) # {} => s \in Holding(t, a)
        /\ Holding(t, a) = {} => s \in Unused(t)
    BY <1>3, AddSlotPlace
  <2>3. NewEntry(r, p, a) \in Entry
    BY RegTableAssumption DEF NewEntry, Entry
  <2>4. u \in Tables
    BY <2>1, <2>2, <2>3 DEF Tables
  <2>5. /\ u[s] = NewEntry(r, p, a)
        /\ \A i \in Slots : i # s => u[i] = t[i]
    BY <2>1, <2>2 DEF Tables
  <2>6. /\ u[s].used /\ u[s].addr = a
        /\ u[s].validtime = Lease /\ u[s].role = r
    BY <2>5 DEF NewEntry
  <2> HIDE DEF u, s
  <2>7. ASSUME Unique(t) PROVE Unique(u)
    <3> SUFFICES ASSUME NEW i \in Slots, NEW j \in Slots,
                        u[i].used, u[j].used, u[i].addr = u[j].addr
                 PROVE  i = j
      BY DEF Unique
    <3>1. \A k \in Slots : k # s /\ u[k].used => u[k].addr # a
      BY <2>2, <2>5, <2>7 DEF Holding, Unused, Unique
    <3> QED
      BY <2>5, <2>6, <2>7, <3>1 DEF Unique
  <2>8. ASSUME NEW v \in 0..Lease PROVE Fresh(t, v) \subseteq Fresh(u, v)
    <3> SUFFICES ASSUME NEW b \in Fresh(t, v) PROVE b \in Fresh(u, v)
      OBVIOUS
    <3>1. PICK i \in Slots : /\ t[i].used /\ t[i].addr = b
                             /\ t[i].validtime >= v
      BY DEF Fresh
    <3>2. b \in Node
      BY DEF Fresh
    <3>3. CASE i = s
      <4>1. b = a
        BY <2>2, <3>1, <3>3 DEF Holding, Unused
      <4>2. Lease >= v
        BY RegTableAssumption
      <4> QED
        BY <2>2, <2>6, <3>2, <4>1, <4>2 DEF Fresh
    <3>4. CASE i # s
      BY <2>5, <3>1, <3>2, <3>4 DEF Fresh
    <3> QED
      BY <3>3, <3>4
  <2>9. a \in Fresh(u, Lease)
    BY <2>2, <2>6, RegTableAssumption DEF Fresh
  <2>10. r # "Detached" => KeepsRouters(t, u)
    BY <2>5, <2>6 DEF KeepsRouters
  <2>11. r = "Router" => \A i \in Slots : t[i].used /\ t[i].role = "Router" =>
                                           u[i].used /\ u[i].role = "Router"
    BY <2>5, <2>6
  <2> QED
    BY <2>4, <2>7, <2>8, <2>9, <2>10, <2>11 DEF u
<1> QED
  BY <1>2, <1>3

\* nwk_mgm_child_reg_table_remove changes the roles of entries that had the
\* expected one, and nothing else.
LEMMA RemovedTable ==
  ASSUME NEW t \in Tables, NEW r \in Roles, NEW a
  PROVE  /\ Removed(t, r, a) \in Tables
         /\ Unique(t) => Unique(Removed(t, r, a))
         /\ \A v \in 0..Lease : Fresh(t, v) \subseteq Fresh(Removed(t, r, a), v)
         /\ r # "Router" => KeepsRouters(t, Removed(t, r, a))
<1> DEFINE u == Removed(t, r, a)
<1>1. t # Null
  BY NullAssumption
<1>2. u = [i \in Slots |-> IF i \in Holding(t, a) /\ t[i].role = r
                             THEN [t[i] EXCEPT !.role = "Detached"]
                             ELSE t[i]]
  BY <1>1 DEF Removed
<1>3. \A i \in Slots : /\ u[i] \in Entry
                       /\ u[i].used = t[i].used
                       /\ u[i].addr = t[i].addr
                       /\ u[i].validtime = t[i].validtime
                       /\ t[i].role # r => u[i].role = t[i].role
  BY <1>2 DEF Tables, Entry, Roles
<1>4. u \in Tables
  BY <1>2, <1>3 DEF Tables
<1> HIDE DEF u
<1> QED
  BY <1>3, <1>4 DEF u, Unique, Fresh, KeepsRouters

\* The sweep of a report changes the roles of children's entries, and nothing
\* else.
LEMMA SweptTable ==
  ASSUME NEW t \in Tables, NEW p, NEW kids
  PROVE  /\ Swept(t, p, kids) \in Tables
         /\ Unique(t) => Unique(Swept(t, p, kids))
         /\ \A v \in 0..Lease : Fresh(t, v) \subseteq Fresh(Swept(t, p, kids), v)
         /\ KeepsRouters(t, Swept(t, p, kids))
<1> DEFINE u == Swept(t, p, kids)
<1>1. t # Null
  BY NullAssumption
<1>2. u = [i \in Slots |-> IF /\ t[i].used
                              /\ t[i].parent = p
                              /\ t[i].addr \notin kids
                              /\ t[i].role = "Child"
                             THEN [t[i] EXCEPT !.role = "Detached"]
                             ELSE t[i]]
  BY <1>1 DEF Swept
<1>3. \A i \in Slots : /\ u[i] \in Entry
                       /\ u[i].used = t[i].used
                       /\ u[i].addr = t[i].addr
                       /\ u[i].validtime = t[i].validtime
                       /\ t[i].role # "Child" => u[i].role = t[i].role
  BY <1>2 DEF Tables, Entry, Roles
<1>4. u \in Tables
  BY <1>2, <1>3 DEF Tables
<1> HIDE DEF u
<1> QED
  BY <1>3, <1>4 DEF u, Unique, Fresh, KeepsRouters

\* nwk_mgm_child_reg_table_time_handler: a lease loses one second, and only one
\* that is at its end leaves the table.
LEMMA AgedTable ==
  ASSUME NEW t \in Tables
  PROVE  /\ Aged(t) \in Tables
         /\ Unique(t) => Unique(Aged(t))
         /\ \A v \in 2..Lease : Fresh(t, v) \subseteq Fresh(Aged(t), v - 1)
         /\ KeepsRouters(t, Aged(t))
<1> DEFINE u == Aged(t)
<1>1. t # Null
  BY NullAssumption
<1>2. u = [i \in Slots |-> AgedEntry(t[i])]
  BY <1>1 DEF Aged
<1>3. \A e \in Entry :
        /\ AgedEntry(e) \in Entry
        /\ AgedEntry(e).used =>
              e.used /\ AgedEntry(e).addr = e.addr /\ AgedEntry(e).role = e.role
        /\ e.used /\ e.validtime >= 2 =>
              /\ AgedEntry(e).used
              /\ AgedEntry(e).addr = e.addr
              /\ AgedEntry(e).validtime = e.validtime - 1
  <2> SUFFICES ASSUME NEW e \in Entry
               PROVE  /\ AgedEntry(e) \in Entry
                      /\ AgedEntry(e).used =>
                           /\ e.used
                           /\ AgedEntry(e).addr = e.addr
                           /\ AgedEntry(e).role = e.role
                      /\ e.used /\ e.validtime >= 2 =>
                           /\ AgedEntry(e).used
                           /\ AgedEntry(e).addr = e.addr
                           /\ AgedEntry(e).validtime = e.validtime - 1
    OBVIOUS
  <2>1. CASE e.used /\ e.validtime > 0 /\ e.validtime # 1
    <3>1. AgedEntry(e) = [e EXCEPT !.validtime = e.validtime - 1]
      BY <2>1 DEF AgedEntry
    <3>2. e.validtime - 1 \in 0..Lease
      BY <2>1, RegTableAssumption DEF Entry
    <3> QED
      BY <2>1, <3>1, <3>2 DEF Entry
  <2>2. CASE e.used /\ e.validtime = 1
    BY <2>2, FreeEntryType DEF AgedEntry, FreeEntry
  <2>3. CASE ~(e.used /\ e.validtime > 0)
    BY <2>3, RegTableAssumption DEF AgedEntry, Entry
  <2> QED
    BY <2>1, <2>2, <2>3
<1>4. \A i \in Slots : t[i] \in Entry /\ u[i] = AgedEntry(t[i])
  BY <1>2 DEF Tables
<1>5. u \in Tables
  BY <1>2, <1>3, <1>4 DEF Tables
<1>6. Unique(t) => Unique(u)
  BY <1>3, <1>4 DEF Unique
<1>7. KeepsRouters(t, u)
  BY <1>3, <1>4 DEF KeepsRouters
<1>8. ASSUME NEW v \in 2..Lease PROVE Fresh(t, v) \subseteq Fresh(u, v - 1)
  <2> SUFFICES ASSUME NEW b \in Fresh(t, v) PROVE b \in Fresh(u, v - 1)
    OBVIOUS
  <2>1. PICK i \in Slots : t[i].used /\ t[i].addr = b /\ t[i].validtime >= v
    BY DEF Fresh
  <2>2. t[i].validtime \in Int /\ t[i].validtime >= 2
    BY <1>4, <2>1, RegTableAssumption DEF Entry
  <2>3. u[i].used /\ u[i].addr = b /\ u[i].validtime = t[i].validtime - 1
    BY <1>3, <1>4, <2>1, <2>2
  <2>4. u[i].validtime >= v - 1
    BY <2>1, <2>2, <2>3, RegTableAssumption
  <2> QED
    BY <2>3, <2>4 DEF Fresh
<1> HIDE DEF u
<1> QED
  BY <1>5, <1>6, <1>7, <1>8 DEF u

----------------------------------------------------------------------------
(* The protocol.                                                             *)

MaybeTables == Tables \cup {Null}

LEMMA KeepAliveType == KeepAlive \in Nat \ {0}
  BY RegTableAssumption DEF KeepAlive

LEMMA LessType ==
  ASSUME NEW k \in Nat, NEW x \in 0..k
  PROVE  Less(x) \in 0..k
  BY DEF Less

LEMMA NextUpType ==
  ASSUME NEW x \in 0..KeepAlive
  PROVE  NextUp(x) \in 0..KeepAlive
  BY KeepAliveType DEF NextUp, Less

\* Every operation on a table pointer yields a table pointer, and none but
\* mem_free makes it Null.
LEMMA TableOperations ==
  ASSUME NEW t \in MaybeTables
  PROVE  /\ \A r \in Roles, p \in Node \cup {NoNode}, a \in Node :
              /\ Added(t, r, p, a) \in MaybeTables
              /\ Removed(t, r, a) \in MaybeTables
         /\ \A p, kids : Swept(t, p, kids) \in MaybeTables
         /\ Aged(t) \in MaybeTables
<1>1. CASE t = Null
  BY <1>1 DEF MaybeTables, Added, Removed, Swept, Aged
<1>2. CASE t \in Tables
  BY <1>2, AddedTable, RemovedTable, SweptTable, AgedTable DEF MaybeTables
<1> QED
  BY <1>1, <1>2 DEF MaybeTables

LEMMA MessageTypes ==
  ASSUME TypeOK, NEW n \in Node
  PROVE  /\ Report(n) \subseteq RegMsg
         /\ \A S \in SUBSET Node : Kicks(S) \subseteq KickMsg
  BY DEF TypeOK, Report, RegMsg, Kicks, KickMsg

-----------------------------------------------------------------------------
(* TypeOK is inductive.                                                      *)

LEMMA TypeInit == Init => TypeOK
<1> SUFFICES ASSUME Init PROVE TypeOK
  OBVIOUS
<1>1. KeepAlive \in Nat
  BY KeepAliveType
<1>2. Idle \in Hands /\ Quiet \in Refreshes
  BY DEF Quiet, Hands, Refreshes
<1> QED
  BY <1>1, <1>2, ProtocolAssumption DEF Init, TypeOK, Roles

LEMMA LeaderTableType ==
  ASSUME TypeOK, NEW p \in Node
  PROVE  LeaderTable(p) \in Tables
  BY EmptyTableType DEF TypeOK, LeaderTable

LEMMA ChildAddedType ==
  ASSUME TypeOK, NEW p \in Node, NEW c \in Node, ChildAdded(p, c)
  PROVE  /\ children' \in [Node -> SUBSET Node]
         /\ table' \in [Node -> MaybeTables]
         /\ regSendTimer' \in [Node -> 0..RegDelay]
         /\ routerUpTimer' \in [Node -> 0..KeepAlive]
         /\ net' \subseteq RegMsg \cup AckMsg \cup KickMsg
<1>1. KeepAlive \in 0..KeepAlive /\ RegDelay \in 0..RegDelay
  BY KeepAliveType, ProtocolAssumption
<1>2. LeaderTable(p) \in MaybeTables /\ "Child" \in Roles
  BY LeaderTableType DEF MaybeTables, Roles
<1>3. Added(LeaderTable(p), "Child", p, c) \in MaybeTables
  BY <1>2, TableOperations
<1>4. Kicks({c}) \subseteq KickMsg
  BY MessageTypes
<1>5. CASE role[p] = "Leader"
  <2>1. table' = [table EXCEPT ![p] = Added(LeaderTable(p), "Child", p, c)]
    BY <1>5 DEF ChildAdded
  <2>2. table' \in [Node -> MaybeTables]
    BY <1>3, <2>1 DEF TypeOK, MaybeTables
  <2>3. /\ routerUpTimer' \in [Node -> 0..KeepAlive]
        /\ regSendTimer' \in [Node -> 0..RegDelay]
    BY <1>1, <1>5 DEF ChildAdded, TypeOK
  <2>4. children' \in [Node -> SUBSET Node]
    BY <1>5 DEF ChildAdded, TypeOK
  <2>5. net' \subseteq RegMsg \cup AckMsg \cup KickMsg
    BY <1>4, <1>5 DEF ChildAdded, TypeOK
  <2> QED
    BY <2>2, <2>3, <2>4, <2>5
<1>6. CASE role[p] # "Leader"
  <2>1. table' \in [Node -> MaybeTables]
    BY <1>6 DEF ChildAdded, TypeOK, MaybeTables
  <2>2. regSendTimer' \in [Node -> 0..RegDelay]
    BY <1>1, <1>6 DEF ChildAdded, TypeOK
  <2>3. children' \in [Node -> SUBSET Node]
    BY <1>6 DEF ChildAdded, TypeOK
  <2> QED
    BY <1>6, <2>1, <2>2, <2>3 DEF ChildAdded, TypeOK
<1> QED
  BY <1>5, <1>6

LEMMA ChildRemovedType ==
  ASSUME TypeOK, NEW p \in Node, NEW c \in Node, ChildRemoved(p, c)
  PROVE  /\ table' \in [Node -> MaybeTables]
         /\ regSendTimer' \in [Node -> 0..RegDelay]
<1>1. RegDelay \in 0..RegDelay
  BY ProtocolAssumption
<1>2. LeaderTable(p) \in MaybeTables /\ "Child" \in Roles
  BY LeaderTableType DEF MaybeTables, Roles
<1>3. Removed(LeaderTable(p), "Child", c) \in MaybeTables
  BY <1>2, TableOperations
<1>4. CASE role[p] = "Leader"
  <2>1. table' = [table EXCEPT ![p] = Removed(LeaderTable(p), "Child", c)]
    BY <1>4 DEF ChildRemoved
  <2> QED
    BY <1>3, <1>4, <2>1 DEF TypeOK, ChildRemoved, MaybeTables
<1>5. CASE role[p] # "Leader"
  <2>1. table' \in [Node -> MaybeTables]
    BY <1>5 DEF TypeOK, ChildRemoved, MaybeTables
  <2>2. regSendTimer' \in [Node -> 0..RegDelay]
    BY <1>1, <1>5 DEF TypeOK, ChildRemoved
  <2> QED
    BY <2>1, <2>2
<1> QED
  BY <1>4, <1>5

LEMMA BecomeDetachedType ==
  ASSUME TypeOK, NEW n \in Node, BecomeDetached(n)
  PROVE  /\ role' \in [Node -> Roles]
         /\ parent' \in [Node -> Node \cup {NoNode}]
         /\ children' \in [Node -> SUBSET Node]
  BY DEF TypeOK, BecomeDetached, Roles

LEMMA FaultType ==
  ASSUME TypeOK, NEW k, Fault(k) PROVE churn' \in 0..MaxChurn
  BY ProtocolAssumption DEF TypeOK, Fault

LEMMA RebootType ==
  ASSUME TypeOK, NEW n \in Node, Reboot(n)
  PROVE  /\ role' \in [Node -> Roles]
         /\ parent' \in [Node -> Node \cup {NoNode}]
         /\ children' \in [Node -> SUBSET Node]
         /\ table' \in [Node -> MaybeTables]
         /\ regSendTimer' \in [Node -> 0..RegDelay]
         /\ routerUpTimer' \in [Node -> 0..KeepAlive]
         /\ blacklisted' \in [Node -> BOOLEAN]
         /\ hand' \in [Node -> Hands]
         /\ tmr' \in [Node -> Refreshes]
<1>1. BecomeDetached(n)
  BY DEF Reboot
<1>2. 0 \in 0..RegDelay /\ 0 \in 0..KeepAlive
  BY KeepAliveType, ProtocolAssumption
<1>3. Idle \in Hands /\ Quiet \in Refreshes
  BY DEF Quiet, Hands, Refreshes
<1> QED
  BY <1>1, <1>2, <1>3, BecomeDetachedType DEF TypeOK, Reboot, MaybeTables

LEMMA TypeNext == TypeOK /\ [Next]_vars => TypeOK'
<1> SUFFICES ASSUME TypeOK, [Next]_vars PROVE TypeOK'
  OBVIOUS
<1> USE DEF devVars, timers, envVars
<1>1. CASE UNCHANGED vars
  BY <1>1 DEF vars, TypeOK
<1>2. ASSUME NEW p \in Node, NEW c \in Node, Attach(p, c) PROVE TypeOK'
  <2>1. churn' \in 0..MaxChurn
    BY <1>2, ProtocolAssumption DEF Attach, TypeOK
  <2>2. /\ role' \in [Node -> Roles]
        /\ parent' \in [Node -> Node \cup {NoNode}]
    BY <1>2 DEF Attach, TypeOK, Roles
  <2>3. CASE c \in children[p]
    BY <1>2, <2>1, <2>2, <2>3 DEF Attach, TypeOK
  <2>4. CASE c \notin children[p]
    <3>1. ChildAdded(p, c)
      BY <1>2, <2>4 DEF Attach
    <3> QED
      BY <1>2, <2>1, <2>2, <3>1, ChildAddedType DEF Attach, TypeOK, MaybeTables
  <2> QED
    BY <2>3, <2>4
<1>3. ASSUME NEW p \in Node, NEW c \in Node, ChildTimeout(p, c) PROVE TypeOK'
  <2>1. ChildRemoved(p, c)
    BY <1>3 DEF ChildTimeout
  <2> QED
    BY <1>3, <2>1, ChildRemovedType DEF ChildTimeout, TypeOK, MaybeTables
<1>4. ASSUME NEW l \in Node, NEW c \in Node, Promote(l, c) PROVE TypeOK'
  <2>1. churn' \in 0..MaxChurn
    BY <1>4, FaultType DEF Promote
  <2>2. KeepAlive \in 0..KeepAlive
    BY KeepAliveType
  <2>3. Report(c) \subseteq RegMsg
    BY MessageTypes
  <2> QED
    BY <1>4, <2>1, <2>2, <2>3 DEF Promote, TypeOK, Roles
<1>5. ASSUME NEW n \in Node, NEW c \in Node, RegisterAdd(n, c) PROVE TypeOK'
  <2>1. table[n] \in MaybeTables /\ "Child" \in Roles
    BY DEF TypeOK, MaybeTables, Roles
  <2>2. hand[n].src \in Node \cup {NoNode}
    <3>1. hand[n] \in Hands
      BY DEF TypeOK
    <3>2. \A h \in Reports : h.src \in Node
      BY DEF Reports
    <3>3. Idle.src = NoNode
      BY DEF Idle
    <3> QED
      BY <3>1, <3>2, <3>3 DEF Hands
  <2>3. Added(table[n], "Child", hand[n].src, c) \in MaybeTables
    BY <2>1, <2>2, TableOperations
  <2>4. table' \in [Node -> Tables \cup {Null}]
    BY <1>5, <2>3 DEF RegisterAdd, TypeOK, MaybeTables
  <2>5. hand' \in [Node -> Hands]
    <3>1. hand[n] \in Reports
      BY <1>5 DEF RegisterAdd, TypeOK, Hands, Idle
    <3>2. \A k \in SUBSET Node :
            [hand[n] EXCEPT !.todo = @ \ {c}, !.kick = k] \in Reports
      BY <3>1 DEF Reports
    <3>3. hand[n].kick \subseteq Node
      BY <3>1 DEF Reports
    <3> QED
      BY <1>5, <3>2, <3>3 DEF RegisterAdd, TypeOK, Hands
  <2> QED
    BY <1>5, <2>4, <2>5 DEF RegisterAdd, TypeOK
<1>6. ASSUME NEW n \in Node, RegisterAck(n) PROVE TypeOK'
  <2>1. hand[n] \in Reports
    BY <1>6 DEF RegisterAck, TypeOK, Hands, Idle
  <2>2. [type |-> "ack", dst |-> hand[n].src, kick |-> hand[n].kick] \in AckMsg
    BY <2>1 DEF Reports, AckMsg
  <2> QED
    BY <1>6, <2>2 DEF RegisterAck, TypeOK, Hands
<1>7. ASSUME NEW n \in Node, OrphanDetach(n) PROVE TypeOK'
  BY <1>7, BecomeDetachedType DEF OrphanDetach, TypeOK
<1>8. ASSUME NEW n \in Node, Roam(n) PROVE TypeOK'
  BY <1>8, BecomeDetachedType, FaultType DEF Roam, TypeOK
<1>9. ASSUME NEW n \in Node, Restart(n) PROVE TypeOK'
  BY <1>9, RebootType, FaultType DEF Restart, TypeOK, MaybeTables
<1>10. ASSUME NEW n \in Node, StepDown(n) PROVE TypeOK'
  BY <1>10, BecomeDetachedType, FaultType DEF StepDown, TypeOK
<1>11. ASSUME NEW n \in Node, BecomeLeader(n) PROVE TypeOK'
  <2>1. churn' \in 0..MaxChurn
    BY <1>11, FaultType DEF BecomeLeader
  <2> QED
    BY <1>11, <2>1 DEF BecomeLeader, TypeOK, Roles
<1>12. ASSUME NEW n \in Node, BlacklistExpire(n) PROVE TypeOK'
  BY <1>12 DEF BlacklistExpire, TypeOK
<1>13. ASSUME NEW n \in Node, RouterEvent(n) PROVE TypeOK'
  BY <1>13, LeaderTableType DEF RouterEvent, TypeOK
<1>14. ASSUME NEW n \in Node, Tick(n) PROVE TypeOK'
  <2>1. PICK sent \in PostOutcomes :
          LET resend == regSendTimer[n] = 1 /\ role[n] = "Router"
              up     == IF resend /\ sent THEN KeepAlive ELSE routerUpTimer[n]
              fires  == up = 1
          IN
          /\ PassSecond(n)
          /\ regSendTimer' = [regSendTimer EXCEPT ![n] = Less(@)]
          /\ routerUpTimer' = [routerUpTimer EXCEPT ![n] = NextUp(up)]
          /\ net' = IF sent /\ (resend \/ (fires /\ role[n] = "Router"))
                      THEN net \cup Report(n) ELSE net
          /\ IF fires /\ role[n] = "Leader"
               THEN /\ tmr' = [tmr EXCEPT ![n] = [busy |-> TRUE,
                                                  todo |-> children[n]]]
                    /\ UNCHANGED table
               ELSE /\ table' = [table EXCEPT ![n] = IF fires THEN Null ELSE Aged(@)]
                    /\ UNCHANGED tmr
          /\ hand' = [hand EXCEPT ![n].ticked = hand[n].busy]
          /\ UNCHANGED <<devVars, missed, churn>>
    BY <1>14 DEF Tick
  <2> DEFINE up == IF regSendTimer[n] = 1 /\ role[n] = "Router" /\ sent
                     THEN KeepAlive ELSE routerUpTimer[n]
  <2>2. up \in 0..KeepAlive
    BY KeepAliveType DEF TypeOK
  <2>3. NextUp(up) \in 0..KeepAlive
    BY <2>2, NextUpType
  <2>4. routerUpTimer' \in [Node -> 0..KeepAlive]
    BY <2>1, <2>3 DEF TypeOK
  <2>5. regSendTimer' \in [Node -> 0..RegDelay]
    BY <2>1, LessType, ProtocolAssumption DEF TypeOK
  <2>6. Report(n) \subseteq RegMsg
    BY MessageTypes
  <2>7. net' \subseteq RegMsg \cup AckMsg \cup KickMsg
    BY <2>1, <2>6 DEF TypeOK
  <2>8. table[n] \in MaybeTables
    BY DEF TypeOK, MaybeTables
  <2>9. Aged(table[n]) \in MaybeTables
    BY <2>8, TableOperations
  <2>10. table' \in [Node -> MaybeTables]
    BY <2>1, <2>9 DEF TypeOK, MaybeTables
  <2>11. tmr' \in [Node -> Refreshes]
    <3>1. [busy |-> TRUE, todo |-> children[n]] \in Refreshes
      BY DEF TypeOK, Refreshes
    <3> QED
      BY <2>1, <3>1 DEF TypeOK
  <2>12. hand' \in [Node -> Hands]
    <3>1. hand[n] \in Hands
      BY DEF TypeOK
    <3>2. [hand[n] EXCEPT !.ticked = hand[n].busy] \in Hands
      <4>1. CASE hand[n] \in Reports
        BY <4>1 DEF Hands, Reports
      <4>2. CASE hand[n] = Idle
        <5>1. Idle.busy = FALSE /\ Idle.ticked = FALSE
          BY DEF Idle
        <5>2. Idle \in [busy : BOOLEAN, src : {NoNode}, reported : {{}},
                        todo : {{}}, kick : {{}}, ticked : BOOLEAN]
          BY DEF Idle
        <5>3. [Idle EXCEPT !.ticked = FALSE] = Idle
          BY <5>1, <5>2
        <5> QED
          BY <4>2, <5>1, <5>3 DEF Hands
      <4> QED
        BY <3>1, <4>1, <4>2 DEF Hands
    <3> QED
      BY <2>1, <3>2 DEF TypeOK
  <2>13. ticked' \subseteq Node
    BY <2>1 DEF TypeOK, PassSecond
  <2> QED
    BY <2>1, <2>4, <2>5, <2>7, <2>10, <2>11, <2>12, <2>13 DEF TypeOK, MaybeTables
<1>15. ASSUME NEW n \in Node, NEW c \in Node, ReAdd(n, c) PROVE TypeOK'
  <2>1. table[n] \in MaybeTables /\ "Child" \in Roles
    BY DEF TypeOK, MaybeTables, Roles
  <2>2. Added(table[n], "Child", n, c) \in MaybeTables
    BY <2>1, TableOperations
  <2> QED
    BY <1>15, <2>2 DEF ReAdd, TypeOK, MaybeTables, Refreshes
<1>16. ASSUME NEW n \in Node, FinishTick(n) PROVE TypeOK'
  <2>1. table[n] \in MaybeTables
    BY DEF TypeOK, MaybeTables
  <2>2. Aged(table[n]) \in MaybeTables
    BY <2>1, TableOperations
  <2> QED
    BY <1>16, <2>2 DEF FinishTick, TypeOK, MaybeTables, Quiet, Refreshes
<1>17. ASSUME NEW m \in net, DeliverReg(m) PROVE TypeOK'
  <2>1. m \in RegMsg /\ 0 \in 0..MaxMissed
    BY <1>17, ProtocolAssumption DEF DeliverReg, TypeOK, RegMsg, AckMsg, KickMsg
  <2>2. /\ m.src \in Node /\ m.dst \in Node
        /\ m.parent \in Node \cup {NoNode} /\ m.kids \subseteq Node
    BY <2>1 DEF RegMsg
  <2>3. table[m.dst] \in MaybeTables /\ "Router" \in Roles
    BY <2>2 DEF TypeOK, MaybeTables, Roles
  <2>4. Added(table[m.dst], "Router", m.parent, m.src) \in MaybeTables
    BY <2>2, <2>3, TableOperations
  <2>5. Swept(Added(table[m.dst], "Router", m.parent, m.src), m.src, m.kids)
          \in MaybeTables
    BY <2>4, TableOperations
  <2>6. table' \in [Node -> MaybeTables]
    BY <1>17, <2>2, <2>5 DEF DeliverReg, TypeOK, MaybeTables
  <2>7. net' \subseteq RegMsg \cup AckMsg \cup KickMsg
    BY <1>17, <2>2 DEF DeliverReg, TypeOK, AckMsg
  <2>8. hand' \in [Node -> Hands]
    <3>1. \A k \in SUBSET Node :
            [busy |-> TRUE, src |-> m.src, reported |-> m.kids \cup {m.src},
             todo |-> m.kids, kick |-> k, ticked |-> FALSE] \in Hands
      BY <2>2 DEF Hands, Reports
    <3>2. (IF AddFails(table[m.dst], m.src) THEN {m.src} ELSE {}) \in SUBSET Node
      BY <2>2
    <3> QED
      BY <1>17, <3>1, <3>2 DEF DeliverReg, TypeOK
  <2> QED
    BY <1>17, <2>1, <2>2, <2>6, <2>7, <2>8 DEF DeliverReg, TypeOK, MaybeTables
<1>18. ASSUME NEW m \in net, DeliverAck(m) PROVE TypeOK'
  <2>1. m \in AckMsg /\ RegDelay \in 0..RegDelay
    BY <1>18, ProtocolAssumption DEF DeliverAck, TypeOK, RegMsg, AckMsg, KickMsg
  <2>2. m.dst \in Node /\ m.kick \subseteq Node
    BY <2>1 DEF AckMsg
  <2>3. CASE role[m.dst] # "Router" \/ m.kick = {}
    BY <1>18, <2>3 DEF DeliverAck, TypeOK
  <2>4. CASE ~(role[m.dst] # "Router" \/ m.kick = {}) /\ m.dst \in m.kick
    BY <1>18, <2>2, <2>4, BecomeDetachedType DEF DeliverAck, LeaveNetwork, TypeOK
  <2>5. CASE ~(role[m.dst] # "Router" \/ m.kick = {}) /\ m.dst \notin m.kick
    <3>1. Kicks(m.kick) \subseteq KickMsg
      BY <2>2, MessageTypes
    <3>2. /\ net' = (net \ {m}) \cup Kicks(m.kick)
          /\ children' = [children EXCEPT ![m.dst] = @ \ m.kick]
          /\ UNCHANGED <<role, parent, blacklisted>>
          /\ UNCHANGED <<routerUpTimer, hand, tmr, envVars>>
      BY <1>18, <2>5 DEF DeliverAck
    <3>3. net' \subseteq RegMsg \cup AckMsg \cup KickMsg
      BY <3>1, <3>2 DEF TypeOK
    <3>4. children' \in [Node -> SUBSET Node]
      BY <2>2, <3>2 DEF TypeOK
    <3>5. table' \in [Node -> Tables \cup {Null}]
      BY <1>18, <2>5 DEF DeliverAck, TypeOK
    <3>6. regSendTimer' \in [Node -> 0..RegDelay]
      BY <1>18, <2>1, <2>5 DEF DeliverAck, TypeOK
    <3> QED
      BY <3>2, <3>3, <3>4, <3>5, <3>6 DEF TypeOK
  <2> QED
    BY <2>3, <2>4, <2>5
<1>19. ASSUME NEW m \in net, DeliverKick(m) PROVE TypeOK'
  <2>1. m.dst \in Node
    BY <1>19 DEF DeliverKick, TypeOK, RegMsg, AckMsg, KickMsg
  <2> QED
    BY <1>19, <2>1, BecomeDetachedType DEF DeliverKick, LeaveNetwork, TypeOK
<1>20. ASSUME NEW m \in net, Lose(m) PROVE TypeOK'
  <2>1. missed' \in [Node -> 0..MaxMissed]
    BY <1>20, ProtocolAssumption DEF Lose, TypeOK, RegMsg, AckMsg, KickMsg
  <2>2. CASE UNCHANGED <<devVars, table, timers, hand, tmr, churn>>
    BY <1>20, <2>1, <2>2 DEF Lose, TypeOK
  <2>3. CASE m.type = "reg" /\ Fault("restart") /\ Reboot(m.src)
    <3>1. m.src \in Node
      BY <2>3 DEF TypeOK, RegMsg, AckMsg, KickMsg
    <3> QED
      BY <1>20, <2>1, <2>3, <3>1, RebootType, FaultType DEF Lose, TypeOK, MaybeTables
  <2> QED
    BY <1>20, <2>2, <2>3 DEF Lose
<1> QED
  BY <1>1, <1>2, <1>3, <1>4, <1>5, <1>6, <1>7, <1>8, <1>9, <1>10, <1>11, <1>12,
     <1>13, <1>14, <1>15, <1>16, <1>17, <1>18, <1>19, <1>20
     DEF Next, OpenThreadTask, TimerTask, Deliver

\* Type correctness: timers stay within their periods, pointers are Null or
\* point to whole tables, and messages name devices.
THEOREM TypeCorrect == Spec => []TypeOK
  BY TypeInit, TypeNext, PTL DEF Spec
-----------------------------------------------------------------------------
(* What one step may do to one table.                                        *)

Opened(t) == IF t = Null THEN EmptyTable ELSE t

TableMove(t, u) ==
  \/ u \in {t, Null, Aged(t), Opened(t)}
  \/ \E p \in Node \cup {NoNode}, a \in Node :
       \/ u = Added(t, "Child", p, a)
       \/ u = Added(Opened(t), "Child", p, a)
       \/ u = Removed(Opened(t), "Child", a)
       \/ \E kids : u = Swept(Added(t, "Router", p, a), a, kids)

\* Every step of the system changes each table by one of these operations.
LEMMA TableSteps ==
  ASSUME TypeOK, [Next]_vars, NEW n \in Node
  PROVE  TableMove(table[n], table'[n])
<1> USE DEF devVars, timers, envVars
<1>0. ASSUME UNCHANGED table PROVE TableMove(table[n], table'[n])
  BY <1>0 DEF TableMove
<1>1. CASE UNCHANGED vars
  BY <1>0, <1>1 DEF vars
<1>2. ASSUME NEW p \in Node, NEW c \in Node, Attach(p, c)
      PROVE  TableMove(table[n], table'[n])
  <2>1. CASE UNCHANGED table
    BY <1>0, <2>1
  <2>2. CASE ChildAdded(p, c) /\ role[p] = "Leader"
    <3>1. LeaderTable(p) = Opened(table[p])
      BY DEF LeaderTable, Opened
    <3>2. table' = [table EXCEPT ![p] = Added(Opened(table[p]), "Child", p, c)]
      BY <2>2, <3>1 DEF ChildAdded
    <3> QED
      BY <3>2 DEF TypeOK, TableMove
  <2>3. CASE ChildAdded(p, c) /\ role[p] # "Leader"
    BY <2>3 DEF ChildAdded, TypeOK, TableMove
  <2> QED
    BY <1>2, <2>1, <2>2, <2>3 DEF Attach
<1>3. ASSUME NEW p \in Node, NEW c \in Node, ChildTimeout(p, c)
      PROVE  TableMove(table[n], table'[n])
  <2>1. ChildRemoved(p, c)
    BY <1>3 DEF ChildTimeout
  <2>2. CASE role[p] = "Leader"
    <3>1. LeaderTable(p) = Opened(table[p])
      BY DEF LeaderTable, Opened
    <3>2. table' = [table EXCEPT ![p] = Removed(Opened(table[p]), "Child", c)]
      BY <2>1, <2>2, <3>1 DEF ChildRemoved
    <3> QED
      BY <3>2 DEF TypeOK, TableMove
  <2>3. CASE role[p] # "Leader"
    BY <2>1, <2>3 DEF ChildRemoved, TypeOK, TableMove
  <2> QED
    BY <2>2, <2>3
<1>4. ASSUME NEW m \in Node, NEW c \in Node, RegisterAdd(m, c)
      PROVE  TableMove(table[n], table'[n])
  <2>1. hand[m].src \in Node
    <3>1. hand[m] \in Reports
      BY <1>4 DEF RegisterAdd, TypeOK, Hands, Idle
    <3> QED
      BY <3>1 DEF Reports
  <2> QED
    BY <1>4, <2>1 DEF RegisterAdd, TypeOK, TableMove
<1>5. ASSUME NEW m \in Node, Reboot(m) PROVE TableMove(table[n], table'[n])
  BY <1>5 DEF Reboot, TypeOK, TableMove
<1>6. ASSUME NEW m \in Node, RouterEvent(m) PROVE TableMove(table[n], table'[n])
  BY <1>6 DEF RouterEvent, LeaderTable, Opened, TypeOK, TableMove
<1>7. ASSUME NEW m \in Node, Tick(m) PROVE TableMove(table[n], table'[n])
  <2>1. \/ UNCHANGED table
        \/ table' = [table EXCEPT ![m] = Null]
        \/ table' = [table EXCEPT ![m] = Aged(table[m])]
    BY <1>7 DEF Tick
  <2> QED
    BY <2>1 DEF TypeOK, TableMove
<1>8. ASSUME NEW m \in Node, NEW c \in Node, ReAdd(m, c)
      PROVE  TableMove(table[n], table'[n])
  BY <1>8 DEF ReAdd, TypeOK, TableMove
<1>9. ASSUME NEW m \in Node, FinishTick(m) PROVE TableMove(table[n], table'[n])
  BY <1>9 DEF FinishTick, TypeOK, TableMove
<1>10. ASSUME NEW m \in net, DeliverReg(m) PROVE TableMove(table[n], table'[n])
  <2>1. m \in RegMsg
    BY <1>10 DEF DeliverReg, TypeOK, RegMsg, AckMsg, KickMsg
  <2>2. m.src \in Node /\ m.dst \in Node /\ m.parent \in Node \cup {NoNode}
    BY <2>1 DEF RegMsg
  <2>3. \/ UNCHANGED table
        \/ table' = [table EXCEPT ![m.dst] =
             Swept(Added(table[m.dst], "Router", m.parent, m.src), m.src, m.kids)]
    BY <1>10 DEF DeliverReg
  <2> QED
    BY <2>2, <2>3 DEF TypeOK, TableMove
<1>11. ASSUME NEW m \in net, DeliverAck(m) PROVE TableMove(table[n], table'[n])
  <2>1. UNCHANGED table \/ table' = [table EXCEPT ![m.dst] = Null]
    BY <1>11 DEF DeliverAck
  <2> QED
    BY <2>1 DEF TypeOK, TableMove
<1>12. ASSUME NEW m \in net, Lose(m) PROVE TableMove(table[n], table'[n])
  <2>1. CASE UNCHANGED table
    BY <1>0, <2>1
  <2>2. CASE m.type = "reg" /\ Reboot(m.src)
    <3>1. m.src \in Node
      BY <2>2 DEF TypeOK, RegMsg, AckMsg, KickMsg
    <3> QED
      BY <1>5, <2>2, <3>1
  <2> QED
    BY <1>12, <2>1, <2>2 DEF Lose
<1>13. ASSUME NEW m \in Node, NEW c \in Node,
              \/ Promote(m, c) \/ RegisterAck(m) \/ OrphanDetach(m) \/ Roam(m)
              \/ StepDown(m) \/ BecomeLeader(m) \/ BlacklistExpire(m)
       PROVE  UNCHANGED table
  BY <1>13 DEF Promote, RegisterAck, OrphanDetach, Roam, StepDown, BecomeLeader,
               BlacklistExpire
<1>14. ASSUME NEW m \in net, DeliverKick(m) PROVE UNCHANGED table
  BY <1>14 DEF DeliverKick
<1>15. ASSUME NEW m \in Node, Restart(m) PROVE TableMove(table[n], table'[n])
  BY <1>5, <1>15 DEF Restart
<1> QED
  BY <1>0, <1>1, <1>2, <1>3, <1>4, <1>6, <1>7, <1>8, <1>9, <1>10, <1>11, <1>12,
     <1>13, <1>14, <1>15 DEF Next, OpenThreadTask, TimerTask, Deliver

Whole(t) == t # Null => Unique(t)

LEMMA TableMoveFacts ==
  ASSUME NEW t \in MaybeTables, NEW u, TableMove(t, u)
  PROVE  /\ Whole(t) => Whole(u)
         /\ t # Null /\ u # Null => KeepsRouters(t, u)
<1>1. Opened(t) \in Tables /\ (Whole(t) => Unique(Opened(t)))
  BY EmptyTableType DEF MaybeTables, Opened, Whole
<1>2. {"Child", "Router"} \subseteq Roles
  BY DEF Roles
<1>3. CASE u = t
  BY <1>3 DEF Whole, KeepsRouters
<1>4. CASE u = Null
  BY <1>4 DEF Whole
<1>5. CASE u = Opened(t)
  BY <1>1, <1>5 DEF Whole, KeepsRouters, Opened
<1>6. CASE u = Aged(t)
  <2>1. CASE t = Null
    BY <1>6, <2>1 DEF Aged, Whole
  <2>2. CASE t \in Tables
    BY <1>6, <2>2, AgedTable, NullAssumption DEF Whole
  <2> QED
    BY <2>1, <2>2 DEF MaybeTables
<1>7. ASSUME NEW p \in Node \cup {NoNode}, NEW a \in Node,
             u = Added(t, "Child", p, a)
      PROVE  /\ Whole(t) => Whole(u)
             /\ t # Null /\ u # Null => KeepsRouters(t, u)
  <2>1. CASE t = Null
    BY <1>7, <2>1 DEF Added, Whole
  <2>2. CASE t \in Tables
    BY <1>2, <1>7, <2>2, AddedTable, NullAssumption DEF Whole
  <2> QED
    BY <2>1, <2>2 DEF MaybeTables
<1>8. ASSUME NEW p \in Node \cup {NoNode}, NEW a \in Node,
             u = Added(Opened(t), "Child", p, a)
      PROVE  /\ Whole(t) => Whole(u)
             /\ t # Null /\ u # Null => KeepsRouters(t, u)
  <2>1. /\ Unique(Opened(t)) => Unique(u)
        /\ KeepsRouters(Opened(t), u)
    BY <1>1, <1>2, <1>8, AddedTable
  <2> QED
    BY <1>1, <2>1 DEF Whole, Opened
<1>9. ASSUME NEW a \in Node, u = Removed(Opened(t), "Child", a)
      PROVE  /\ Whole(t) => Whole(u)
             /\ t # Null /\ u # Null => KeepsRouters(t, u)
  <2>1. /\ Unique(Opened(t)) => Unique(u)
        /\ KeepsRouters(Opened(t), u)
    BY <1>1, <1>2, <1>9, RemovedTable
  <2> QED
    BY <1>1, <2>1 DEF Whole, Opened
<1>10. ASSUME NEW p \in Node \cup {NoNode}, NEW a \in Node, NEW kids,
              u = Swept(Added(t, "Router", p, a), a, kids)
       PROVE  /\ Whole(t) => Whole(u)
              /\ t # Null /\ u # Null => KeepsRouters(t, u)
  <2>1. CASE t = Null
    BY <1>10, <2>1 DEF Added, Swept, Whole
  <2>2. CASE t \in Tables
    <3> DEFINE s == Added(t, "Router", p, a)
    <3>1. /\ s \in Tables
          /\ Unique(t) => Unique(s)
          /\ \A i \in Slots : t[i].used /\ t[i].role = "Router" =>
                              s[i].used /\ s[i].role = "Router"
      BY <1>2, <2>2, AddedTable
    <3>2. /\ Unique(s) => Unique(u)
          /\ KeepsRouters(s, u)
      BY <1>10, <3>1, SweptTable
    <3>3. KeepsRouters(t, u)
      BY <3>1, <3>2 DEF KeepsRouters
    <3> QED
      BY <2>2, <3>1, <3>2, <3>3, NullAssumption DEF Whole
  <2> QED
    BY <2>1, <2>2 DEF MaybeTables
<1> QED
  BY <1>3, <1>4, <1>5, <1>6, <1>7, <1>8, <1>9, <1>10 DEF TableMove

\* However reports, child events, refreshes and leases running out are
\* interleaved, no device has two slots: TypeOK makes it inductive.
THEOREM OneSlot == Spec => []OneSlotPerDevice
<1> DEFINE AllWhole == \A n \in Node : Whole(table[n])
<1>1. Init => AllWhole
  BY DEF Init, Whole
<1>2. TypeOK /\ AllWhole /\ [Next]_vars => AllWhole'
  <2> SUFFICES ASSUME TypeOK, AllWhole, [Next]_vars, NEW n \in Node
               PROVE  Whole(table'[n])
    OBVIOUS
  <2>1. table[n] \in MaybeTables
    BY DEF TypeOK, MaybeTables
  <2>2. TableMove(table[n], table'[n])
    BY TableSteps
  <2> QED
    BY <2>1, <2>2, TableMoveFacts
<1>3. AllWhole => OneSlotPerDevice
  BY DEF Whole, Unique, OneSlotPerDevice
<1> QED
  BY <1>1, <1>2, <1>3, TypeCorrect, PTL DEF Spec

\* However late the events of a former parent come, a router's entry is not
\* marked detached.
THEOREM RouterStays == Spec => RouterNotDetached
<1>1. TypeOK /\ [Next]_vars =>
        \A n \in Node : table[n] # Null /\ table'[n] # Null =>
                          KeepsRouters(table[n], table'[n])
  <2> SUFFICES ASSUME TypeOK, [Next]_vars, NEW n \in Node,
                      table[n] # Null, table'[n] # Null
               PROVE  KeepsRouters(table[n], table'[n])
    OBVIOUS
  <2>1. table[n] \in MaybeTables
    BY DEF TypeOK, MaybeTables
  <2> QED
    BY <2>1, TableSteps, TableMoveFacts
<1>2. TypeOK /\ [Next]_vars =>
        [\A n \in Node : \A i \in Slots :
           table[n] # Null /\ table'[n] # Null =>
             ~ /\ table[n][i].used /\ table[n][i].role = "Router"
               /\ table'[n][i].used /\ table'[n][i].role = "Detached"]_vars
  BY <1>1 DEF KeepsRouters
<1> QED
  BY <1>2, TypeCorrect, PTL DEF Spec, RouterNotDetached

-----------------------------------------------------------------------------
(* Reports are accounted for.                                                *)

\* The steps that touch a report that is being handled: all others leave its
\* device's table, report and refresh alone, for they need an idle task.
LEMMA ReportSteps ==
  ASSUME TypeOK, [Next]_vars, NEW n \in Node, hand'[n].busy
  PROVE  \/ UNCHANGED <<table[n], hand[n], tmr[n]>>
         \/ \E c \in Node : RegisterAdd(n, c) \/ ReAdd(n, c)
         \/ Tick(n)
         \/ FinishTick(n)
         \/ \E m \in net : DeliverReg(m) /\ m.dst = n /\ role[n] = "Leader"
<1> DEFINE Goal == \/ UNCHANGED <<table[n], hand[n], tmr[n]>>
                   \/ \E c \in Node : RegisterAdd(n, c) \/ ReAdd(n, c)
                   \/ Tick(n)
                   \/ FinishTick(n)
                   \/ \E m \in net : /\ DeliverReg(m) /\ m.dst = n
                                     /\ role[n] = "Leader"
<1> USE DEF devVars, timers, envVars
<1>0. Idle.busy = FALSE
  BY DEF Idle
<1>1. CASE UNCHANGED vars
  BY <1>1 DEF vars
<1>2. ASSUME NEW m \in Node, OTIdle(m), UNCHANGED <<hand, tmr>>,
             table' = [table EXCEPT ![m] = table'[m]]
      PROVE  Goal
  <2>1. n # m
    BY <1>2 DEF OTIdle
  <2> QED
    BY <1>2, <2>1 DEF TypeOK
<1>3. ASSUME NEW p \in Node, NEW c \in Node, Attach(p, c) PROVE Goal
  <2>1. OTIdle(p) /\ UNCHANGED <<hand, tmr>>
    BY <1>3 DEF Attach
  <2>2. UNCHANGED table \/ \E x : table' = [table EXCEPT ![p] = x]
    BY <1>3 DEF Attach, ChildAdded
  <2>3. table' = [table EXCEPT ![p] = table'[p]]
    BY <2>2 DEF TypeOK
  <2> QED
    BY <1>2, <2>1, <2>3
<1>4. ASSUME NEW p \in Node, NEW c \in Node, ChildTimeout(p, c) PROVE Goal
  <2>1. OTIdle(p) /\ UNCHANGED <<hand, tmr>>
    BY <1>4 DEF ChildTimeout
  <2>2. \E x : table' = [table EXCEPT ![p] = x]
    BY <1>4 DEF ChildTimeout, ChildRemoved
  <2>3. table' = [table EXCEPT ![p] = table'[p]]
    BY <2>2 DEF TypeOK
  <2> QED
    BY <1>2, <2>1, <2>3
<1>5. ASSUME NEW m \in Node, NEW c \in Node, RegisterAdd(m, c) PROVE Goal
  BY <1>5 DEF RegisterAdd, TypeOK
<1>6. ASSUME NEW m \in Node, RegisterAck(m) PROVE Goal
  <2>1. n # m
    BY <1>0, <1>6 DEF RegisterAck, TypeOK
  <2> QED
    BY <1>6, <2>1 DEF RegisterAck, TypeOK
<1>7. ASSUME NEW m \in Node, Reboot(m) PROVE Goal
  <2>1. n # m
    BY <1>0, <1>7 DEF Reboot, TypeOK
  <2> QED
    BY <1>7, <2>1 DEF Reboot, TypeOK
<1>8. ASSUME NEW m \in Node, RouterEvent(m) PROVE Goal
  <2>1. OTIdle(m) /\ UNCHANGED <<hand, tmr>>
    BY <1>8 DEF RouterEvent
  <2>2. table' = [table EXCEPT ![m] = table'[m]]
    BY <1>8 DEF RouterEvent, TypeOK
  <2> QED
    BY <1>2, <2>1, <2>2
<1>9. ASSUME NEW m \in Node, Tick(m) PROVE Goal
  <2>1. CASE n = m
    BY <1>9, <2>1
  <2>2. CASE n # m
    BY <1>9, <2>2 DEF Tick, TypeOK
  <2> QED
    BY <2>1, <2>2
<1>10. ASSUME NEW m \in Node, NEW c \in Node, ReAdd(m, c) PROVE Goal
  BY <1>10 DEF ReAdd, TypeOK
<1>11. ASSUME NEW m \in Node, FinishTick(m) PROVE Goal
  BY <1>11 DEF FinishTick, TypeOK
<1>12. ASSUME NEW m \in net, DeliverReg(m) PROVE Goal
  <2>1. CASE n = m.dst /\ role[n] = "Leader"
    BY <1>12, <2>1
  <2>2. CASE n # m.dst \/ role[n] # "Leader"
    BY <1>12, <2>2 DEF DeliverReg, TypeOK
  <2> QED
    BY <2>1, <2>2
<1>13. ASSUME NEW m \in net, DeliverAck(m) PROVE Goal
  <2>1. m.dst \in Node
    BY <1>13 DEF DeliverAck, TypeOK, RegMsg, AckMsg, KickMsg
  <2>2. OTIdle(m.dst) /\ UNCHANGED <<hand, tmr>>
    BY <1>13 DEF DeliverAck
  <2>3. UNCHANGED table \/ table' = [table EXCEPT ![m.dst] = Null]
    BY <1>13 DEF DeliverAck
  <2>4. table' = [table EXCEPT ![m.dst] = table'[m.dst]]
    BY <2>1, <2>3 DEF TypeOK
  <2> QED
    BY <1>2, <2>1, <2>2, <2>4
<1>14. ASSUME NEW m \in net, DeliverKick(m) PROVE Goal
  BY <1>14 DEF DeliverKick
<1>15. ASSUME NEW m \in net, Lose(m) PROVE Goal
  <2>1. CASE UNCHANGED <<table, hand, tmr>>
    BY <2>1
  <2>2. CASE m.type = "reg" /\ Reboot(m.src)
    <3>1. m.src \in Node
      BY <2>2 DEF TypeOK, RegMsg, AckMsg, KickMsg
    <3> QED
      BY <1>7, <2>2, <3>1
  <2> QED
    BY <1>15, <2>1, <2>2 DEF Lose
<1>16. ASSUME NEW m \in Node, NEW c \in Node,
              \/ Promote(m, c) \/ OrphanDetach(m) \/ Roam(m)
              \/ StepDown(m) \/ BecomeLeader(m) \/ BlacklistExpire(m)
       PROVE  Goal
  BY <1>16 DEF Promote, OrphanDetach, Roam, StepDown, BecomeLeader,
               BlacklistExpire
<1>17. ASSUME NEW m \in Node, Restart(m) PROVE Goal
  BY <1>7, <1>17 DEF Restart
<1> QED
  BY <1>1, <1>3, <1>4, <1>5, <1>6, <1>8, <1>9, <1>10, <1>11, <1>12,
     <1>13, <1>14, <1>15, <1>16, <1>17 DEF Next, OpenThreadTask, TimerTask, Deliver

\* The lease a handled device has at least.
Remaining(n) == IF hand[n].ticked /\ ~tmr[n].busy THEN Lease - 1 ELSE Lease

\* The inductive invariant: at most one second passes during a report, so that
\* what the report entered is still on file at its end.
AccountInv ==
  \A n \in Node : hand[n].busy =>
    /\ tmr[n].busy => hand[n].ticked
    /\ table[n] # Null =>
         Handled(n) \subseteq Fresh(table[n], Remaining(n)) \cup hand[n].kick

LEMMA AccountNext == TypeOK /\ AccountInv /\ [Next]_vars => AccountInv'
<1> SUFFICES ASSUME TypeOK, AccountInv, [Next]_vars,
                    NEW n \in Node, hand'[n].busy
             PROVE  /\ tmr'[n].busy => hand'[n].ticked
                    /\ table'[n] # Null =>
                         Handled(n)' \subseteq
                           Fresh(table'[n], Remaining(n)') \cup hand'[n].kick
  BY DEF AccountInv
<1> DEFINE Goal == /\ tmr'[n].busy => hand'[n].ticked
                   /\ table'[n] # Null =>
                        Handled(n)' \subseteq
                          Fresh(table'[n], Remaining(n)') \cup hand'[n].kick
<1> USE DEF devVars, timers, envVars
<1>0. /\ Lease \in 0..Lease /\ Lease - 1 \in 0..Lease /\ Lease \in 2..Lease
      /\ Remaining(n) \in 0..Lease
      /\ {"Child", "Router"} \subseteq Roles
  BY RegTableAssumption DEF Remaining, Roles
<1>1. CASE UNCHANGED <<table[n], hand[n], tmr[n]>>
  BY <1>1 DEF AccountInv, Handled, Remaining
<1>2. ASSUME NEW c \in Node, RegisterAdd(n, c) PROVE Goal
  <2>1. /\ hand[n].busy /\ ~tmr[n].busy
        /\ table'[n] = Added(table[n], "Child", hand[n].src, c)
        /\ UNCHANGED tmr
    BY <1>2 DEF RegisterAdd, TypeOK
  <2>2. hand[n] \in Reports
    BY <2>1 DEF TypeOK, Hands, Idle
  <2>3. hand[n].src \in Node
    BY <2>2 DEF Reports
  <2>4. /\ hand'[n].todo = hand[n].todo \ {c}
        /\ hand'[n].reported = hand[n].reported
        /\ hand'[n].ticked = hand[n].ticked
        /\ hand'[n].kick = IF AddFails(table[n], c) THEN hand[n].kick \cup {c}
                                                     ELSE hand[n].kick
    BY <1>2, <2>2 DEF RegisterAdd, TypeOK, Reports
  <2>5. Remaining(n)' = Remaining(n) /\ Handled(n)' \subseteq Handled(n) \cup {c}
    BY <2>1, <2>4 DEF Remaining, Handled
  <2>6. ASSUME table'[n] # Null
        PROVE  Handled(n)' \subseteq Fresh(table'[n], Remaining(n)) \cup hand'[n].kick
    <3>1. table[n] \in Tables
      BY <2>1, <2>6 DEF TypeOK, Added
    <3>2. Fresh(table[n], Remaining(n)) \subseteq Fresh(table'[n], Remaining(n))
      BY <1>0, <2>1, <2>3, <3>1, AddedTable
    <3>3. c \in Fresh(table'[n], Remaining(n)) \cup hand'[n].kick
      <4>1. CASE AddFails(table[n], c)
        BY <2>4, <4>1
      <4>2. CASE ~AddFails(table[n], c)
        <5>1. c \in Fresh(table'[n], Lease)
          BY <1>0, <2>1, <2>3, <3>1, <4>2, AddedTable
        <5>2. Fresh(table'[n], Lease) \subseteq Fresh(table'[n], Remaining(n))
          <6>1. table'[n] \in Tables
            BY <1>0, <2>1, <2>3, <3>1, AddedTable
          <6>2. \A i \in Slots : table'[n][i].validtime \in 0..Lease
            BY <6>1 DEF Tables, Entry
          <6> QED
            BY <1>0, <6>2, RegTableAssumption DEF Fresh
        <5> QED
          BY <5>1, <5>2
      <4> QED
        BY <4>1, <4>2
    <3>4. table[n] # Null
      BY <3>1, NullAssumption
    <3>5. Handled(n) \subseteq Fresh(table[n], Remaining(n)) \cup hand[n].kick
      BY <2>1, <3>4 DEF AccountInv
    <3>6. hand[n].kick \subseteq hand'[n].kick
      BY <2>4
    <3> QED
      BY <2>5, <3>2, <3>3, <3>5, <3>6
  <2> QED
    BY <2>1, <2>5, <2>6
<1>3. ASSUME NEW c \in Node, ReAdd(n, c) PROVE Goal
  <2>1. /\ tmr[n].busy
        /\ table'[n] = Added(table[n], "Child", n, c)
        /\ UNCHANGED hand
    BY <1>3 DEF ReAdd, TypeOK
  <2>2. tmr'[n].busy
    BY <1>3, <2>1 DEF ReAdd, TypeOK, Refreshes
  <2>3. Remaining(n)' = Remaining(n) /\ Handled(n)' = Handled(n)
    BY <2>1, <2>2 DEF Remaining, Handled
  <2>4. ASSUME table'[n] # Null
        PROVE  /\ table[n] # Null
               /\ Fresh(table[n], Remaining(n)) \subseteq Fresh(table'[n], Remaining(n))
    <3>1. table[n] \in Tables
      BY <2>1, <2>4 DEF TypeOK, Added
    <3> QED
      BY <1>0, <2>1, <3>1, AddedTable, NullAssumption
  <2> QED
    BY <2>1, <2>3, <2>4 DEF AccountInv
<1>4. ASSUME Tick(n) PROVE Goal
  <2>1. /\ hand' = [hand EXCEPT ![n].ticked = hand[n].busy]
        /\ SecondMayPass(n)
        /\ \/ /\ UNCHANGED table
              /\ tmr' = [tmr EXCEPT ![n] = [busy |-> TRUE, todo |-> children[n]]]
           \/ table' = [table EXCEPT ![n] = Null] /\ UNCHANGED tmr
           \/ table' = [table EXCEPT ![n] = Aged(table[n])] /\ UNCHANGED tmr
    BY <1>4 DEF Tick
  <2>2. hand[n] \in Hands
    BY DEF TypeOK
  <2>3. hand[n].busy /\ hand[n] \in Reports
    <3>1. hand'[n].busy = hand[n].busy
      BY <2>1, <2>2 DEF TypeOK, Hands, Reports, Idle
    <3> QED
      BY <2>2, <3>1 DEF Hands, Idle
  <2>4. /\ hand'[n].ticked /\ hand'[n].todo = hand[n].todo
        /\ hand'[n].reported = hand[n].reported /\ hand'[n].kick = hand[n].kick
    BY <2>1, <2>3 DEF TypeOK, Reports
  <2>5. ~tmr[n].busy /\ ~hand[n].ticked
    BY <2>1, <2>3 DEF SecondMayPass
  <2>6. Remaining(n) = Lease /\ Handled(n)' = Handled(n)
    BY <2>4, <2>5 DEF Remaining, Handled
  <2>7. CASE /\ UNCHANGED table
             /\ tmr' = [tmr EXCEPT ![n] = [busy |-> TRUE, todo |-> children[n]]]
    <3>1. tmr'[n].busy
      BY <2>7 DEF TypeOK
    <3>2. Remaining(n)' = Lease
      BY <3>1 DEF Remaining
    <3> QED
      BY <2>3, <2>4, <2>6, <2>7, <3>2 DEF AccountInv
  <2>8. CASE table' = [table EXCEPT ![n] = Null]
    BY <2>4, <2>8 DEF TypeOK
  <2>9. CASE table' = [table EXCEPT ![n] = Aged(table[n])] /\ UNCHANGED tmr
    <3>1. table'[n] = Aged(table[n]) /\ Remaining(n)' = Lease - 1
      BY <2>4, <2>5, <2>9 DEF TypeOK, Remaining
    <3>2. ASSUME table'[n] # Null
          PROVE  /\ table[n] # Null
                 /\ Fresh(table[n], Lease) \subseteq Fresh(table'[n], Lease - 1)
      <4>1. table[n] \in Tables
        BY <3>1, <3>2 DEF TypeOK, Aged
      <4> QED
        BY <1>0, <3>1, <4>1, AgedTable, NullAssumption
    <3> QED
      BY <2>3, <2>4, <2>6, <3>1, <3>2 DEF AccountInv
  <2>10. CASE table' = [table EXCEPT ![n] = Null] /\ UNCHANGED tmr
    BY <2>8, <2>10, <2>4
  <2> QED
    BY <2>1, <2>7, <2>9, <2>10
<1>5. ASSUME FinishTick(n) PROVE Goal
  <2>1. /\ tmr[n].busy /\ UNCHANGED hand
        /\ table'[n] = Aged(table[n]) /\ ~tmr'[n].busy
    BY <1>5 DEF FinishTick, TypeOK, Quiet
  <2>2. hand[n].ticked
    BY <2>1 DEF AccountInv
  <2>3. /\ Remaining(n) = Lease /\ Remaining(n)' = Lease - 1
        /\ Handled(n)' = Handled(n)
    BY <2>1, <2>2 DEF Remaining, Handled
  <2>4. ASSUME table'[n] # Null
        PROVE  /\ table[n] # Null
               /\ Fresh(table[n], Lease) \subseteq Fresh(table'[n], Lease - 1)
    <3>1. table[n] \in Tables
      BY <2>1, <2>4 DEF TypeOK, Aged
    <3> QED
      BY <1>0, <2>1, <3>1, AgedTable, NullAssumption
  <2> QED
    BY <2>1, <2>3, <2>4 DEF AccountInv
<1>6. ASSUME NEW m \in net, DeliverReg(m), m.dst = n, role[n] = "Leader" PROVE Goal
  <2>1. m \in RegMsg
    BY <1>6 DEF DeliverReg, TypeOK, RegMsg, AckMsg, KickMsg
  <2>2. m.src \in Node /\ m.parent \in Node \cup {NoNode}
    BY <2>1 DEF RegMsg
  <2> DEFINE s == Added(table[n], "Router", m.parent, m.src)
  <2>3. /\ table'[n] = Swept(s, m.src, m.kids)
        /\ hand'[n] = [busy |-> TRUE, src |-> m.src,
                       reported |-> m.kids \cup {m.src}, todo |-> m.kids,
                       kick |-> IF AddFails(table[n], m.src) THEN {m.src} ELSE {},
                       ticked |-> FALSE]
        /\ ~tmr[n].busy /\ UNCHANGED tmr
    BY <1>6 DEF DeliverReg, TypeOK, OTIdle
  <2>4. /\ Remaining(n)' = Lease /\ Handled(n)' \subseteq {m.src}
    BY <2>3 DEF Remaining, Handled
  <2>5. ASSUME table'[n] # Null
        PROVE  m.src \in Fresh(table'[n], Lease) \cup hand'[n].kick
    <3>1. table[n] \in Tables
      BY <2>3, <2>5 DEF TypeOK, Added, Swept
    <3>2. CASE AddFails(table[n], m.src)
      BY <2>3, <3>2
    <3>3. CASE ~AddFails(table[n], m.src)
      <4>1. s \in Tables /\ m.src \in Fresh(s, Lease)
        BY <1>0, <2>2, <3>1, <3>3, AddedTable
      <4> HIDE DEF s
      <4>2. Fresh(s, Lease) \subseteq Fresh(table'[n], Lease)
        BY <1>0, <2>3, <4>1, SweptTable
      <4> QED
        BY <4>1, <4>2
    <3> QED
      BY <3>2, <3>3
  <2> QED
    BY <2>3, <2>4, <2>5
<1> QED
  BY <1>1, <1>2, <1>3, <1>4, <1>5, <1>6, ReportSteps

\* A report is answered with the truth: whatever the timer task does between
\* two of its steps, a device the leader dealt with is on file or kicked.
THEOREM ReportsAccounted == Spec => []ReportAccounted
<1>1. Init => AccountInv
  BY DEF Init, AccountInv, Idle
<1>2. TypeOK /\ AccountInv => ReportAccounted
  <2> SUFFICES ASSUME TypeOK, AccountInv, NEW n \in Node, hand[n].busy,
                      table[n] # Null
               PROVE  Handled(n) \subseteq Registered(table[n]) \cup hand[n].kick
    BY DEF ReportAccounted
  <2>1. Fresh(table[n], Remaining(n)) \subseteq Registered(table[n])
    BY DEF Fresh, Registered, Found, Holding
  <2> QED
    BY <2>1 DEF AccountInv
<1> QED
  BY <1>1, <1>2, AccountNext, TypeCorrect, PTL DEF Spec

-----------------------------------------------------------------------------
(* Kicks and keep-alives.                                                    *)

\* A device on file is never put on the kick list: the only step that adds a
\* device to it finds the device in no slot.
THEOREM RegisteredStays == Spec => RegisteredNotKicked
<1> DEFINE Kept == \A n \in Node :
             hand[n].busy => hand'[n].kick \ hand[n].kick
                               \subseteq Node \ Registered(table[n])
<1>1. TypeOK /\ [Next]_vars => Kept
  <2> SUFFICES ASSUME TypeOK, [Next]_vars, NEW n \in Node, hand[n].busy,
                      NEW d \in hand'[n].kick, d \notin hand[n].kick
               PROVE  d \in Node \ Registered(table[n])
    OBVIOUS
  <2>1. TypeOK'
    BY TypeNext
  <2>2. hand'[n] \in Reports
    <3>1. hand'[n] \in Hands
      BY <2>1 DEF TypeOK
    <3> QED
      BY <3>1 DEF Hands, Idle
  <2>3. hand'[n].busy
    BY <2>2 DEF Reports
  <2>4. hand[n] \in Reports
    BY DEF TypeOK, Hands, Idle
  <2>5. CASE UNCHANGED <<table[n], hand[n], tmr[n]>>
    BY <2>5
  <2>6. ASSUME NEW c \in Node, RegisterAdd(n, c)
        PROVE  d \in Node \ Registered(table[n])
    <3>1. d = c /\ AddFails(table[n], c)
      BY <2>4, <2>6 DEF RegisterAdd, TypeOK, Reports
    <3> QED
      BY <3>1 DEF AddFails, Registered, Found
  <2>7. ASSUME NEW c \in Node, ReAdd(n, c) PROVE FALSE
    BY <2>7 DEF ReAdd, TypeOK
  <2>8. CASE Tick(n)
    BY <2>4, <2>8 DEF Tick, TypeOK, Reports
  <2>9. CASE FinishTick(n)
    BY <2>9 DEF FinishTick
  <2>10. ASSUME NEW m \in net, DeliverReg(m), m.dst = n PROVE FALSE
    BY <2>10 DEF DeliverReg, OTIdle
  <2> QED
    BY <2>3, <2>5, <2>6, <2>7, <2>8, <2>9, <2>10, ReportSteps
<1>2. TypeOK /\ [Next]_vars => [Kept]_vars
  BY <1>1
<1> QED
  BY <1>2, TypeCorrect, PTL DEF Spec, RegisteredNotKicked

\* The inductive invariant: a detached device, which may become the leader, has
\* no children yet.
ArmedInv == /\ KeepAliveArmed
            /\ \A n \in Node : role[n] = "Detached" => children[n] = {}

LEMMA DetachedArmed ==
  ASSUME TypeOK, ArmedInv, NEW n \in Node, BecomeDetached(n),
         \A x \in Node \ {n} : routerUpTimer'[x] = routerUpTimer[x]
  PROVE  ArmedInv'
  BY DEF TypeOK, ArmedInv, KeepAliveArmed, BecomeDetached

LEMMA ArmedNext ==
  ASSUME "oom" \notin Faults, TypeOK, ArmedInv, [Next]_vars
  PROVE  ArmedInv'
<1> USE DEF devVars, timers, envVars
<1>0. KeepAlive > 0 /\ KeepAlive \in Nat
  BY KeepAliveType
<1>1. CASE UNCHANGED <<role, children, routerUpTimer>>
  BY <1>1 DEF ArmedInv, KeepAliveArmed
<1>2. CASE UNCHANGED vars
  BY <1>1, <1>2 DEF vars
<1>3. ASSUME NEW p \in Node, NEW c \in Node, Attach(p, c) PROVE ArmedInv'
  <2>1. /\ p # c /\ role[p] \in {"Router", "Leader"} /\ role[c] = "Detached"
        /\ role' = [role EXCEPT ![c] = "Child"]
    BY <1>3 DEF Attach, IsRouting
  <2>2. CASE UNCHANGED <<children, routerUpTimer>>
    BY <2>1, <2>2 DEF TypeOK, ArmedInv, KeepAliveArmed
  <2>3. CASE ChildAdded(p, c) /\ role[p] = "Leader"
    <3>1. routerUpTimer' = [routerUpTimer EXCEPT ![p] = KeepAlive]
      BY <2>3 DEF ChildAdded
    <3>2. \A x \in Node \ {p} : children'[x] = children[x]
      BY <2>3 DEF ChildAdded, TypeOK
    <3> QED
      BY <1>0, <2>1, <3>1, <3>2 DEF TypeOK, ArmedInv, KeepAliveArmed
  <2>4. CASE ChildAdded(p, c) /\ role[p] # "Leader"
    <3>1. /\ UNCHANGED routerUpTimer
          /\ children' = [children EXCEPT ![p] = @ \cup {c}]
      BY <2>4 DEF ChildAdded
    <3> QED
      BY <2>1, <2>4, <3>1 DEF TypeOK, ArmedInv, KeepAliveArmed
  <2> QED
    BY <1>3, <2>2, <2>3, <2>4 DEF Attach
<1>4. ASSUME NEW p \in Node, NEW c \in Node, ChildTimeout(p, c) PROVE ArmedInv'
  BY <1>4 DEF ChildTimeout, TypeOK, ArmedInv, KeepAliveArmed
<1>5. ASSUME NEW l \in Node, NEW c \in Node, Promote(l, c) PROVE ArmedInv'
  <2>1. /\ role' = [role EXCEPT ![c] = "Router"]
        /\ routerUpTimer' = [routerUpTimer EXCEPT ![c] = KeepAlive]
        /\ UNCHANGED children
    BY <1>5 DEF Promote, PostOutcomes
  <2> QED
    BY <1>0, <2>1 DEF TypeOK, ArmedInv, KeepAliveArmed
<1>6. ASSUME NEW n \in Node, Reboot(n) PROVE ArmedInv'
  BY <1>6, DetachedArmed DEF Reboot, TypeOK
<1>7. ASSUME NEW n \in Node, BecomeLeader(n) PROVE ArmedInv'
  BY <1>7 DEF BecomeLeader, TypeOK, ArmedInv, KeepAliveArmed
<1>8. ASSUME NEW n \in Node, Tick(n) PROVE ArmedInv'
  <2>1. PICK sent \in PostOutcomes :
          routerUpTimer' = [routerUpTimer EXCEPT ![n] =
            NextUp(IF regSendTimer[n] = 1 /\ role[n] = "Router" /\ sent
                     THEN KeepAlive ELSE routerUpTimer[n])]
    BY <1>8 DEF Tick
  <2>2. routerUpTimer[n] \in Nat
    BY <1>0 DEF TypeOK
  <2>3. \A x \in Nat : x > 0 => NextUp(x) > 0
    BY <1>0 DEF NextUp, Less
  <2>4. routerUpTimer[n] > 0 => routerUpTimer'[n] > 0
    BY <1>0, <2>1, <2>2, <2>3 DEF TypeOK
  <2>5. \A x \in Node \ {n} : routerUpTimer'[x] = routerUpTimer[x]
    BY <2>1 DEF TypeOK
  <2>6. UNCHANGED <<role, children>>
    BY <1>8 DEF Tick
  <2> QED
    BY <2>4, <2>5, <2>6 DEF ArmedInv, KeepAliveArmed
<1>9. ASSUME NEW m \in net, DeliverAck(m) PROVE ArmedInv'
  <2>1. m.dst \in Node /\ UNCHANGED routerUpTimer
    BY <1>9 DEF DeliverAck, TypeOK, RegMsg, AckMsg, KickMsg
  <2>2. CASE UNCHANGED <<role, children>>
    BY <1>1, <2>1, <2>2
  <2>3. CASE BecomeDetached(m.dst)
    BY <2>1, <2>3, DetachedArmed
  <2>4. CASE /\ UNCHANGED role
             /\ children' = [children EXCEPT ![m.dst] = @ \ m.kick]
    BY <2>1, <2>4 DEF TypeOK, ArmedInv, KeepAliveArmed
  <2> QED
    BY <1>9, <2>2, <2>3, <2>4 DEF DeliverAck, LeaveNetwork
<1>10. ASSUME NEW m \in net, DeliverKick(m) PROVE ArmedInv'
  <2>1. m.dst \in Node /\ UNCHANGED routerUpTimer
    BY <1>10 DEF DeliverKick, TypeOK, RegMsg, AckMsg, KickMsg
  <2>2. UNCHANGED <<role, children>> \/ BecomeDetached(m.dst)
    BY <1>10 DEF DeliverKick, LeaveNetwork
  <2> QED
    BY <1>1, <2>1, <2>2, DetachedArmed
<1>11. ASSUME NEW m \in net, Lose(m) PROVE ArmedInv'
  <2>1. CASE UNCHANGED <<role, children, routerUpTimer>>
    BY <1>1, <2>1
  <2>2. CASE m.type = "reg" /\ Reboot(m.src)
    <3>1. m.src \in Node
      BY <2>2 DEF TypeOK, RegMsg, AckMsg, KickMsg
    <3> QED
      BY <1>6, <2>2, <3>1
  <2> QED
    BY <1>11, <2>1, <2>2 DEF Lose
<1>12. ASSUME NEW n \in Node, OrphanDetach(n) \/ Roam(n) \/ StepDown(n)
       PROVE  ArmedInv'
  <2>1. BecomeDetached(n) /\ UNCHANGED routerUpTimer
    BY <1>12 DEF OrphanDetach, Roam, StepDown
  <2> QED
    BY <2>1, DetachedArmed
<1>13. ASSUME NEW n \in Node, Restart(n) PROVE ArmedInv'
  BY <1>6, <1>13 DEF Restart
<1>14. ASSUME NEW n \in Node, NEW c \in Node,
              \/ RegisterAdd(n, c) \/ RegisterAck(n) \/ BlacklistExpire(n)
              \/ RouterEvent(n) \/ ReAdd(n, c) \/ FinishTick(n)
       PROVE  ArmedInv'
  BY <1>1, <1>14 DEF RegisterAdd, RegisterAck, BlacklistExpire, RouterEvent,
                     ReAdd, FinishTick
<1>15. ASSUME NEW m \in net, DeliverReg(m) PROVE ArmedInv'
  BY <1>1, <1>15 DEF DeliverReg
<1> QED
  BY <1>2, <1>3, <1>4, <1>5, <1>7, <1>8, <1>9, <1>10, <1>11, <1>12, <1>13,
     <1>14, <1>15 DEF Next, OpenThreadTask, TimerTask, Deliver

\* Unless a payload cannot be allocated, a router, and a leader with children,
\* never runs without its keep-alive.
THEOREM Armed == ASSUME "oom" \notin Faults PROVE Spec => []KeepAliveArmed
<1>1. Init => ArmedInv
  BY DEF Init, ArmedInv, KeepAliveArmed
<1>2. TypeOK /\ ArmedInv /\ [Next]_vars => ArmedInv'
  BY ArmedNext
<1>3. ArmedInv => KeepAliveArmed
  BY DEF ArmedInv
<1> QED
  BY <1>1, <1>2, <1>3, TypeCorrect, PTL DEF Spec

-----------------------------------------------------------------------------
(* The tables refine NodeRegistry.                                          *)

\* Every slot in use holds a device whose lease has not run out.
Filled(t) == \A i \in Slots : t[i].used => t[i].addr \in Node /\ t[i].validtime >= 1

Proper(t) == t = Null \/ (t \in Tables /\ Unique(t) /\ Filled(t))

\* What the registry says of the device of a slot.
View(e) == [role |-> e.role, parent |-> e.parent, lease |-> e.validtime]

\* A device of a proper table is in the slot it is looked up in.
LEMMA ContentsOf ==
  ASSUME NEW t \in Tables, Unique(t), Filled(t)
  PROVE  /\ DOMAIN Contents(t) = Registered(t)
         /\ \A i \in Slots : t[i].used => /\ t[i].addr \in Registered(t)
                                          /\ Contents(t)[t[i].addr] = View(t[i])
         /\ \A a \in Registered(t) : \E i \in Slots : t[i].used /\ t[i].addr = a
<1>1. DOMAIN Contents(t) = Registered(t)
  BY DEF Contents
<1>2. ASSUME NEW i \in Slots, t[i].used
      PROVE  t[i].addr \in Registered(t) /\ Contents(t)[t[i].addr] = View(t[i])
  <2> DEFINE a == t[i].addr
  <2>1. Holding(t, a) = {i}
    BY <1>2 DEF Holding, Unique
  <2>2. FirstOf(Holding(t, a)) = i
    BY <2>1, FirstOfMember
  <2>3. a \in Registered(t)
    BY <1>2, <2>1, NullAssumption DEF Registered, Found, Filled
  <2> QED
    BY <2>2, <2>3 DEF Contents, View
<1>3. ASSUME NEW a \in Registered(t) PROVE \E i \in Slots : t[i].used /\ t[i].addr = a
  BY DEF Registered, Found, Holding
<1> QED
  BY <1>1, <1>2, <1>3

\* What is in a proper table is determined slot by slot.
LEMMA ContentsAre ==
  ASSUME NEW u \in Tables, Unique(u), Filled(u),
         NEW f, f = [x \in DOMAIN f |-> f[x]], DOMAIN f = Registered(u),
         \A i \in Slots : u[i].used => f[u[i].addr] = View(u[i])
  PROVE  Contents(u) = f
<1>1. ASSUME NEW a \in Registered(u) PROVE Contents(u)[a] = f[a]
  <2>1. PICK i \in Slots : u[i].used /\ u[i].addr = a
    BY ContentsOf
  <2> QED
    BY <2>1, ContentsOf
<1>2. Contents(u) = [x \in Registered(u) |-> Contents(u)[x]]
  BY DEF Contents
<1> QED
  BY <1>1, <1>2

\* Nobody is on file in a table that is missing or was just cleared.
LEMMA NothingOnFile ==
  /\ Contents(Null) = Registries!NoRegistry
  /\ Contents(EmptyTable) = Registries!NoRegistry
  /\ Filled(EmptyTable)
<1>1. Registered(Null) = {}
  BY DEF Registered, Found
<1>2. Registered(EmptyTable) = {} /\ Filled(EmptyTable)
  BY DEF Registered, Found, Holding, EmptyTable, FreeEntry, Filled
<1> QED
  BY <1>1, <1>2 DEF Contents, Registries!NoRegistry

\* The array has a free slot exactly when the map has room: as many devices are
\* on file as slots are in use.
LEMMA RoomForOneMore ==
  ASSUME NEW t \in Tables, Unique(t), Filled(t), NEW a \in Node
  PROVE  AddFails(t, a) <=> ~Registries!HasRoom(Contents(t), a)
<1> DEFINE U == {i \in Slots : t[i].used}
           R == Registered(t)
           f == [i \in U |-> t[i].addr]
<1>1. IsFiniteSet(Slots) /\ Cardinality(Slots) = TableSize
  BY FS_Interval, RegTableAssumption DEF Slots
<1>2. IsFiniteSet(U) /\ Cardinality(U) \in Nat /\ (Cardinality(U) = TableSize <=> U = Slots)
      /\ Cardinality(U) <= TableSize
  <2>1. U \in SUBSET Slots
    OBVIOUS
  <2> HIDE DEF U
  <2> QED
    BY <1>1, <2>1, FS_Subset, FS_CardinalityType
<1>3. f \in Bijection(U, R)
  <2>1. f \in [U -> R]
    BY ContentsOf
  <2>2. \A i, j \in U : f[i] = f[j] => i = j
    BY DEF Unique
  <2>3. \A b \in R : \E i \in U : f[i] = b
    BY ContentsOf
  <2> HIDE DEF f, U, R
  <2> QED
    BY <2>1, <2>2, <2>3, Fun_IsBij
<1>4. Cardinality(R) = Cardinality(U)
  BY <1>2, <1>3, FS_Bijection DEF ExistsBijection
<1>5. U = Slots <=> Unused(t) = {}
  BY DEF Unused
<1>6. Holding(t, a) = {} <=> a \notin R
  BY NullAssumption DEF Registered, Found
<1>7. DOMAIN Contents(t) = R
  BY ContentsOf
<1>8. TableSize \in Nat
  BY RegTableAssumption
<1> HIDE DEF U, R, f
<1>9. Cardinality(R) < TableSize <=> Unused(t) # {}
  BY <1>2, <1>4, <1>5, <1>8
<1>10. Registries!Cardinality(R) = Cardinality(R)
  BY DEF Registries!Cardinality, Cardinality
<1> QED
  BY <1>6, <1>7, <1>9, <1>10, NullAssumption DEF AddFails, Registries!HasRoom

\* A lease of the full length, in the slot that is looked for first, is what
\* the registry calls With.
LEMMA AddedContents ==
  ASSUME NEW t \in Tables, Unique(t), Filled(t), NEW r \in Roles,
         NEW p \in Node \cup {NoNode}, NEW a \in Node
  PROVE  /\ Filled(Added(t, r, p, a))
         /\ Contents(Added(t, r, p, a)) =
              IF Registries!HasRoom(Contents(t), a)
                THEN Registries!With(Contents(t), r, p, a) ELSE Contents(t)
<1> DEFINE u == Added(t, r, p, a)
           s == AddSlot(t, a)
           f == Registries!With(Contents(t), r, p, a)
<1>1. CASE AddFails(t, a)
  <2>1. u = t
    BY <1>1 DEF Added
  <2> QED
    BY <1>1, <2>1, RoomForOneMore
<1>2. CASE ~AddFails(t, a)
  <2>1. u = [t EXCEPT ![s] = NewEntry(r, p, a)]
    BY <1>2, NullAssumption DEF Added
  <2>2. /\ s \in Slots
        /\ Holding(t, a) # {} => s \in Holding(t, a)
        /\ Holding(t, a) = {} => s \in Unused(t)
    BY <1>2, AddSlotPlace
  <2>3. /\ u[s] = NewEntry(r, p, a)
        /\ \A i \in Slots : i # s => u[i] = t[i]
    BY <2>1, <2>2 DEF Tables
  <2>4. u \in Tables /\ Unique(u)
    BY AddedTable
  <2> HIDE DEF u, s
  <2>5. Filled(u)
    BY <2>2, <2>3, RegTableAssumption DEF Filled, NewEntry
  <2>6. \A i \in Slots : i # s /\ t[i].used => t[i].addr # a
    BY <2>2 DEF Holding, Unused, Unique
  <2>7. Registered(u) = Registered(t) \cup {a}
    <3>1. ASSUME NEW b \in Registered(u) PROVE b \in Registered(t) \cup {a}
      <4>1. PICK i \in Slots : u[i].used /\ u[i].addr = b
        BY <2>4, <2>5, ContentsOf
      <4> QED
        BY <2>3, <4>1, ContentsOf DEF NewEntry
    <3>2. ASSUME NEW b \in Registered(t) PROVE b \in Registered(u)
      <4>1. PICK i \in Slots : t[i].used /\ t[i].addr = b
        BY ContentsOf
      <4>2. CASE i = s
        <5>1. b = a
          BY <2>2, <4>1, <4>2 DEF Holding, Unused
        <5> QED
          BY <2>2, <2>3, <2>4, <2>5, <5>1, ContentsOf DEF NewEntry
      <4>3. CASE i # s
        BY <2>3, <2>4, <2>5, <4>1, <4>3, ContentsOf
      <4> QED
        BY <4>2, <4>3
    <3>3. a \in Registered(u)
      BY <2>2, <2>3, <2>4, <2>5, ContentsOf DEF NewEntry
    <3> QED
      BY <3>1, <3>2, <3>3
  <2>8. DOMAIN f = Registered(u) /\ f = [x \in DOMAIN f |-> f[x]]
    BY <2>7, ContentsOf DEF Registries!With
  <2>9. ASSUME NEW i \in Slots, u[i].used PROVE f[u[i].addr] = View(u[i])
    <3>1. CASE i = s
      BY <2>3, <3>1 DEF Registries!With, NewEntry, View
    <3>2. CASE i # s
      <4>1. t[i].used /\ t[i].addr # a /\ u[i] = t[i]
        BY <2>3, <2>6, <2>9, <3>2
      <4>2. t[i].addr \in DOMAIN Contents(t) /\ Contents(t)[t[i].addr] = View(t[i])
        BY <4>1, ContentsOf
      <4> QED
        BY <4>1, <4>2 DEF Registries!With
    <3> QED
      BY <3>1, <3>2
  <2> HIDE DEF f
  <2>10. Contents(u) = f
    BY <2>4, <2>5, <2>8, <2>9, ContentsAre
  <2> QED
    BY <1>2, <2>5, <2>10, RoomForOneMore DEF u, f
<1> QED
  BY <1>1, <1>2

\* Slots that change nothing but roles: the map changes the same roles.
LEMMA MarkedContents ==
  ASSUME NEW t \in Tables, Unique(t), Filled(t), NEW u \in Tables, NEW S,
         \A i \in Slots :
           u[i] = IF t[i].used /\ t[i].addr \in S /\ t[i].role = "Child"
                    THEN [t[i] EXCEPT !.role = "Detached"] ELSE t[i]
  PROVE  /\ Filled(u)
         /\ Contents(u) = Registries!Without(Contents(t), S)
<1> DEFINE f == Registries!Without(Contents(t), S)
<1>1. \A i \in Slots : t[i] \in Entry
  BY DEF Tables
<1>2. \A i \in Slots : /\ u[i].used = t[i].used /\ u[i].addr = t[i].addr
                       /\ u[i].parent = t[i].parent /\ u[i].validtime = t[i].validtime
  BY <1>1 DEF Entry
<1>3. Filled(u) /\ Unique(u)
  BY <1>2 DEF Filled, Unique
<1>4. Registered(u) = Registered(t)
  <2>1. \A a : Holding(u, a) = Holding(t, a)
    BY <1>2 DEF Holding
  <2> QED
    BY <2>1, NullAssumption DEF Registered, Found
<1>5. DOMAIN f = Registered(u) /\ f = [x \in DOMAIN f |-> f[x]]
  BY <1>4, ContentsOf DEF Registries!Without
<1>6. ASSUME NEW i \in Slots, u[i].used PROVE f[u[i].addr] = View(u[i])
  <2>1. /\ t[i].used /\ t[i].addr \in DOMAIN Contents(t)
        /\ Contents(t)[t[i].addr] = View(t[i]) /\ u[i].addr = t[i].addr
    BY <1>2, <1>6, ContentsOf
  <2>2. f[t[i].addr] = IF t[i].addr \in S /\ View(t[i]).role = "Child"
                         THEN [View(t[i]) EXCEPT !.role = "Detached"] ELSE View(t[i])
    BY <2>1 DEF Registries!Without
  <2>3. View(t[i]).role = t[i].role
    BY DEF View
  <2>4. CASE t[i].addr \in S /\ t[i].role = "Child"
    <3>1. u[i] = [t[i] EXCEPT !.role = "Detached"]
      BY <2>1, <2>4
    <3> QED
      BY <1>1, <1>2, <2>1, <2>2, <2>3, <2>4, <3>1 DEF View, Entry
  <2>5. CASE ~(t[i].addr \in S /\ t[i].role = "Child")
    BY <2>1, <2>2, <2>3, <2>5
  <2> QED
    BY <2>4, <2>5
<1> HIDE DEF f
<1>7. Contents(u) = f
  BY <1>3, <1>5, <1>6, ContentsAre
<1> QED
  BY <1>3, <1>7 DEF f

\* A second takes one from every lease, and those that have one left go.
LEMMA AgedContents ==
  ASSUME NEW t \in Tables, Unique(t), Filled(t)
  PROVE  /\ Filled(Aged(t))
         /\ Contents(Aged(t)) =
              [x \in {y \in DOMAIN Contents(t) : Contents(t)[y].lease > 1} |->
                 [Contents(t)[x] EXCEPT !.lease = @ - 1]]
<1> DEFINE u == Aged(t)
           g == Contents(t)
           f == [x \in {y \in DOMAIN g : g[y].lease > 1} |-> [g[x] EXCEPT !.lease = @ - 1]]
<1>1. u \in Tables /\ Unique(u)
  BY AgedTable
<1>2. \A i \in Slots : t[i] \in Entry /\ u[i] = AgedEntry(t[i])
  BY NullAssumption DEF Aged, Tables
<1>3. ASSUME NEW i \in Slots
      PROVE  /\ u[i].used <=> t[i].used /\ t[i].validtime > 1
             /\ u[i].used => u[i] = [t[i] EXCEPT !.validtime = @ - 1]
             /\ u[i].used => u[i].validtime >= 1 /\ u[i].addr = t[i].addr
  <2>1. t[i] \in Entry /\ u[i] = AgedEntry(t[i]) /\ (t[i].used => t[i].validtime >= 1)
        /\ t[i].validtime \in Int
    BY <1>2, RegTableAssumption DEF Filled, Entry
  <2> HIDE DEF u
  <2> QED
    BY <2>1 DEF AgedEntry, FreeEntry, Entry
<1> HIDE DEF u
<1>4. Filled(u)
  BY <1>3 DEF Filled
<1>5. ASSUME NEW i \in Slots, t[i].used PROVE g[t[i].addr].lease = t[i].validtime
  <2>1. g[t[i].addr] = View(t[i])
    BY <1>5, ContentsOf
  <2> HIDE DEF g
  <2> QED
    BY <2>1 DEF View
<1>6. Registered(u) = {y \in DOMAIN g : g[y].lease > 1}
  <2>1. ASSUME NEW b \in Registered(u) PROVE b \in DOMAIN g /\ g[b].lease > 1
    <3>1. PICK i \in Slots : u[i].used /\ u[i].addr = b
      BY <1>1, <1>4, ContentsOf
    <3> QED
      BY <1>3, <1>5, <3>1, ContentsOf
  <2>2. ASSUME NEW b \in DOMAIN g, g[b].lease > 1 PROVE b \in Registered(u)
    <3>1. PICK i \in Slots : t[i].used /\ t[i].addr = b
      BY ContentsOf
    <3> QED
      BY <1>1, <1>3, <1>4, <1>5, <2>2, <3>1, ContentsOf
  <2> QED
    BY <2>1, <2>2
<1>7. DOMAIN f = Registered(u) /\ f = [x \in DOMAIN f |-> f[x]]
  BY <1>6
<1>8. ASSUME NEW i \in Slots, u[i].used PROVE f[u[i].addr] = View(u[i])
  <2>1. /\ t[i].used /\ t[i].addr \in DOMAIN g /\ g[t[i].addr] = View(t[i])
        /\ u[i].addr = t[i].addr /\ t[i] \in Entry
        /\ u[i] = [t[i] EXCEPT !.validtime = @ - 1]
    BY <1>2, <1>3, <1>8, ContentsOf
  <2>2. t[i].addr \in DOMAIN f
    BY <1>1, <1>4, <1>7, <1>8, <2>1, ContentsOf
  <2>3. f[t[i].addr] = [View(t[i]) EXCEPT !.lease = @ - 1]
    BY <2>1, <2>2
  <2> QED
    BY <2>1, <2>3 DEF View, Entry
<1> HIDE DEF f
<1>9. Contents(u) = f
  BY <1>1, <1>4, <1>7, <1>8, ContentsAre
<1> QED
  BY <1>4, <1>9 DEF u, f

\* How the map of one device may change: the operations of NodeRegistry.
ContentsMove(f, g) ==
  \/ g = f
  \/ g = Registries!NoRegistry
  \/ g = [x \in {y \in DOMAIN f : f[y].lease > 1} |-> [f[x] EXCEPT !.lease = @ - 1]]
  \/ \E a \in Node :
       \/ g = Registries!Without(f, {a})
       \/ \E p \in Node \cup {NoNode} :
            \/ Registries!HasRoom(f, a) /\ g = Registries!With(f, "Child", p, a)
            \/ \E kids \in SUBSET Node :
                 LET h == IF Registries!HasRoom(f, a)
                            THEN Registries!With(f, "Router", p, a) ELSE f
                 IN  g = Registries!Without(h, {x \in DOMAIN h : h[x].parent = a} \ kids)

\* The role of one child changes in the map as in its slot.
LEMMA RemovedContents ==
  ASSUME NEW t \in Tables, Unique(t), Filled(t), NEW a \in Node
  PROVE  /\ Filled(Removed(t, "Child", a))
         /\ Contents(Removed(t, "Child", a)) = Registries!Without(Contents(t), {a})
<1> DEFINE u == Removed(t, "Child", a)
<1>1. u \in Tables
  BY RemovedTable DEF Roles
<1>2. \A i \in Slots :
        u[i] = IF t[i].used /\ t[i].addr \in {a} /\ t[i].role = "Child"
                 THEN [t[i] EXCEPT !.role = "Detached"] ELSE t[i]
  BY NullAssumption DEF Removed, Holding
<1> HIDE DEF u
<1>3. Filled(u) /\ Contents(u) = Registries!Without(Contents(t), {a})
  BY <1>1, <1>2, MarkedContents
<1> QED
  BY <1>3 DEF u

\* The children that a report does not list are those of the map.
LEMMA SweptContents ==
  ASSUME NEW t \in Tables, Unique(t), Filled(t), NEW a \in Node, NEW kids
  PROVE  /\ Filled(Swept(t, a, kids))
         /\ Contents(Swept(t, a, kids)) =
              Registries!Without(Contents(t),
                {x \in DOMAIN Contents(t) : Contents(t)[x].parent = a} \ (kids \cap Node))
<1> DEFINE u == Swept(t, a, kids)
           g == Contents(t)
           S == {x \in DOMAIN g : g[x].parent = a} \ (kids \cap Node)
<1>1. u \in Tables
  BY SweptTable
<1>2. \A i \in Slots :
        u[i] = IF t[i].used /\ t[i].parent = a /\ t[i].addr \notin kids /\ t[i].role = "Child"
                 THEN [t[i] EXCEPT !.role = "Detached"] ELSE t[i]
  BY NullAssumption DEF Swept
<1>3. ASSUME NEW i \in Slots, t[i].used
      PROVE  t[i].addr \in S <=> t[i].parent = a /\ t[i].addr \notin kids
  <2>1. t[i].addr \in DOMAIN g /\ g[t[i].addr] = View(t[i]) /\ t[i].addr \in Node
    BY <1>3, ContentsOf DEF Filled
  <2> HIDE DEF g
  <2> QED
    BY <2>1 DEF View
<1> HIDE DEF u, S
<1>4. \A i \in Slots :
        u[i] = IF t[i].used /\ t[i].addr \in S /\ t[i].role = "Child"
                 THEN [t[i] EXCEPT !.role = "Detached"] ELSE t[i]
  BY <1>2, <1>3
<1>5. Filled(u) /\ Contents(u) = Registries!Without(Contents(t), S)
  BY <1>1, <1>4, MarkedContents
<1> QED
  BY <1>5 DEF u, S

\* An operation on the array is an operation of the map, or none.
LEMMA ProperMoves ==
  ASSUME NEW t, Proper(t), NEW u, TableMove(t, u)
  PROVE  Proper(u) /\ ContentsMove(Contents(t), Contents(u))
<1> DEFINE f == Contents(t)
           o == Opened(t)
           Goal == Proper(u) /\ ContentsMove(f, Contents(u))
<1> SUFFICES Goal
  OBVIOUS
<1>0. {"Child", "Router"} \subseteq Roles
  BY DEF Roles
<1>1. o \in Tables /\ Unique(o) /\ Filled(o) /\ Contents(o) = f
  BY EmptyTableType, NothingOnFile DEF Opened, Proper
<1>2. CASE u = t
  BY <1>2 DEF ContentsMove
<1>3. CASE u = Null
  BY <1>3, NothingOnFile DEF Proper, ContentsMove
<1>4. CASE u = o
  BY <1>1, <1>4 DEF Proper, ContentsMove
<1>5. ASSUME NEW p \in Node \cup {NoNode}, NEW a \in Node, u = Added(o, "Child", p, a)
      PROVE  Goal
  <2> HIDE DEF f, o
  <2>1. /\ Filled(u) /\ u \in Tables /\ Unique(u)
        /\ Contents(u) = IF Registries!HasRoom(f, a)
                           THEN Registries!With(f, "Child", p, a) ELSE f
    BY <1>0, <1>1, <1>5, AddedContents, AddedTable
  <2> QED
    BY <2>1 DEF Proper, ContentsMove
<1>6. ASSUME NEW a \in Node, u = Removed(o, "Child", a) PROVE Goal
  <2>1. /\ Filled(u) /\ u \in Tables /\ Unique(u)
        /\ Contents(u) = Registries!Without(f, {a})
    BY <1>1, <1>6, RemovedContents, RemovedTable DEF Roles
  <2> HIDE DEF f, o
  <2> QED
    BY <2>1 DEF Proper, ContentsMove
<1>7. CASE t = Null
  <2>1. ASSUME NEW r, NEW p, NEW a PROVE Added(t, r, p, a) = t
    BY <1>7 DEF Added
  <2>2. ASSUME NEW p, NEW kids PROVE Swept(t, p, kids) = t
    BY <1>7 DEF Swept
  <2>3. Aged(t) = t
    BY <1>7 DEF Aged
  <2> HIDE DEF Goal
  <2> QED
    BY <1>2, <1>3, <1>4, <1>5, <1>6, <2>1, <2>2, <2>3 DEF TableMove
<1>8. CASE t # Null
  <2>1. o = t /\ t \in Tables /\ Unique(t) /\ Filled(t)
    BY <1>8 DEF Opened, Proper
  <2>2. CASE u = Aged(t)
    <3>1. Filled(u) /\ u \in Tables /\ Unique(u)
      BY <2>1, <2>2, AgedContents, AgedTable
    <3>2. Contents(u) = [x \in {y \in DOMAIN f : f[y].lease > 1} |->
                           [f[x] EXCEPT !.lease = @ - 1]]
      BY <2>1, <2>2, AgedContents
    <3> HIDE DEF f, o
    <3> QED
      BY <3>1, <3>2 DEF Proper, ContentsMove
  <2>3. ASSUME NEW p \in Node \cup {NoNode}, NEW a \in Node, NEW kids,
               u = Swept(Added(t, "Router", p, a), a, kids)
        PROVE  Goal
    <3> DEFINE s == Added(t, "Router", p, a)
               h == IF Registries!HasRoom(f, a)
                      THEN Registries!With(f, "Router", p, a) ELSE f
    <3>1. s \in Tables /\ Unique(s) /\ Filled(s) /\ Contents(s) = h
      BY <1>0, <2>1, AddedContents, AddedTable
    <3> HIDE DEF s, f, h
    <3>2. u = Swept(s, a, kids)
      BY <2>3 DEF s
    <3>3. u \in Tables /\ Unique(u)
      BY <3>1, <3>2, SweptTable
    <3>6. /\ Filled(u)
          /\ Contents(u) = Registries!Without(Contents(s),
               {x \in DOMAIN Contents(s) : Contents(s)[x].parent = a} \ (kids \cap Node))
      BY <3>1, <3>2, SweptContents
    <3>7. Contents(u) = Registries!Without(h,
               {x \in DOMAIN h : h[x].parent = a} \ (kids \cap Node))
      BY <3>1, <3>6
    <3>4. kids \cap Node \in SUBSET Node
      OBVIOUS
    <3>5. ContentsMove(f, Contents(u))
      BY <3>4, <3>7 DEF ContentsMove, h
    <3> QED
      BY <3>3, <3>5, <3>6 DEF Proper
  <2> HIDE DEF Goal
  <2> QED
    BY <1>2, <1>3, <1>4, <1>5, <1>6, <2>1, <2>2, <2>3 DEF TableMove
<1> QED
  BY <1>7, <1>8

\* No step writes the tables of two devices.
LEMMA OneTable ==
  ASSUME TypeOK, [Next]_vars
  PROVE  \E n \in Node : \A x \in Node \ {n} : table'[x] = table[x]
<1> USE DEF devVars, timers, envVars
<1> DEFINE Goal == \E n \in Node : \A x \in Node \ {n} : table'[x] = table[x]
<1> SUFFICES Goal
  OBVIOUS
<1>0. ASSUME UNCHANGED table PROVE Goal
  <2>1. FirstLeader \in Node /\ \A x \in Node \ {FirstLeader} : table'[x] = table[x]
    BY <1>0, ProtocolAssumption
  <2> QED
    BY <2>1
<1>1. ASSUME NEW n \in Node, NEW v, table' = [table EXCEPT ![n] = v] PROVE Goal
  BY <1>1 DEF TypeOK
<1> HIDE DEF Goal
<1>2. CASE UNCHANGED vars
  BY <1>0, <1>2 DEF vars
<1>3. ASSUME NEW p \in Node, NEW c \in Node, Attach(p, c) \/ ChildTimeout(p, c)
      PROVE  Goal
  BY <1>0, <1>1, <1>3 DEF Attach, ChildAdded, ChildTimeout, ChildRemoved
<1>4. ASSUME NEW n \in Node, NEW c \in Node, RegisterAdd(n, c) \/ ReAdd(n, c)
      PROVE  Goal
  BY <1>1, <1>4 DEF RegisterAdd, ReAdd
<1>5. ASSUME NEW n \in Node, Reboot(n) \/ RouterEvent(n) \/ FinishTick(n) PROVE Goal
  BY <1>1, <1>5 DEF Reboot, RouterEvent, FinishTick
<1>6. ASSUME NEW n \in Node, Tick(n) PROVE Goal
  BY <1>0, <1>1, <1>6 DEF Tick
<1>7. ASSUME NEW m \in net, DeliverReg(m) PROVE Goal
  <2>1. m.dst \in Node
    BY <1>7 DEF DeliverReg, TypeOK, RegMsg, AckMsg, KickMsg
  <2> QED
    BY <1>0, <1>1, <1>7, <2>1 DEF DeliverReg
<1>8. ASSUME NEW m \in net, DeliverAck(m) PROVE Goal
  <2>1. m.dst \in Node
    BY <1>8 DEF DeliverAck, TypeOK, RegMsg, AckMsg, KickMsg
  <2> QED
    BY <1>0, <1>1, <1>8, <2>1 DEF DeliverAck
<1>9. ASSUME NEW m \in net, Lose(m) PROVE Goal
  <2>1. CASE UNCHANGED table
    BY <1>0, <2>1
  <2>2. CASE m.type = "reg" /\ Reboot(m.src)
    <3>1. m.src \in Node
      BY <2>2 DEF TypeOK, RegMsg, AckMsg, KickMsg
    <3> QED
      BY <1>5, <2>2, <3>1
  <2> QED
    BY <1>9, <2>1, <2>2 DEF Lose
<1>10. ASSUME NEW m \in Node, NEW c \in Node,
              \/ Promote(m, c) \/ RegisterAck(m) \/ OrphanDetach(m) \/ Roam(m)
              \/ StepDown(m) \/ BecomeLeader(m) \/ BlacklistExpire(m)
       PROVE  Goal
  BY <1>0, <1>10 DEF Promote, RegisterAck, OrphanDetach, Roam, StepDown,
                     BecomeLeader, BlacklistExpire
<1>11. ASSUME NEW m \in net, DeliverKick(m) PROVE Goal
  BY <1>0, <1>11 DEF DeliverKick
<1>12. ASSUME NEW m \in Node, Restart(m) PROVE Goal
  BY <1>5, <1>12 DEF Restart
<1>13. ASSUME NEW n \in Node, OpenThreadTask(n) PROVE Goal
  BY <1>3, <1>4, <1>5, <1>10, <1>12, <1>13 DEF OpenThreadTask
<1>14. ASSUME NEW n \in Node, TimerTask(n) PROVE Goal
  BY <1>4, <1>5, <1>6, <1>14 DEF TimerTask
<1>15. ASSUME NEW m \in net, Deliver(m) PROVE Goal
  BY <1>7, <1>8, <1>11, <1>15 DEF Deliver
<1> QED
  BY <1>2, <1>9, <1>13, <1>14, <1>15 DEF Next

\* The table of every device, written by the tasks of that device while reports
\* and child events come and go, behaves as the bounded map of leases.
THEOREM ImplementsRegistries == Spec => TablesImplementRegistries
<1> DEFINE AllProper == \A n \in Node : Proper(table[n])
           maps == [n \in Node |-> Contents(table[n])]
<1>1. Init => AllProper
  BY DEF Init, Proper
<1>2. Init => Registries!Init
  BY NothingOnFile DEF Init, Registries!Init
<1>3. TypeOK /\ AllProper /\ [Next]_vars => AllProper'
  BY TableSteps, ProperMoves
<1>4. TypeOK /\ AllProper /\ [Next]_vars => [Registries!Next]_maps
  <2> SUFFICES ASSUME TypeOK, AllProper, [Next]_vars PROVE [Registries!Next]_maps
    OBVIOUS
  <2>1. PICK n \in Node : \A x \in Node \ {n} : table'[x] = table[x]
    BY OneTable
  <2> DEFINE f == Contents(table[n])
             g == Contents(table'[n])
  <2>2. maps' = [maps EXCEPT ![n] = g] /\ maps[n] = f
    BY <2>1
  <2>3. ContentsMove(f, g)
    BY TableSteps, ProperMoves
  <2>4. [x \in Node |-> Contents(table[x])][n] = f
    OBVIOUS
  <2>5. ASSUME maps' = [maps EXCEPT ![n] = g] PROVE Registries!Becomes(n, g)
    BY <2>5 DEF Registries!Becomes
  <2>6. CASE g = f
    <3>1. maps' = maps
      BY <2>2, <2>6
    <3> QED
      BY <3>1
  <2> HIDE DEF f, g, maps
  <2>7. Registries!Becomes(n, g)
    BY <2>2, <2>5
  <2>8. CASE g = Registries!NoRegistry
    BY <2>7, <2>8 DEF Registries!Next, Registries!Drop
  <2>9. CASE g = [x \in {y \in DOMAIN f : f[y].lease > 1} |->
                    [f[x] EXCEPT !.lease = @ - 1]]
    <3>1. Registries!Second(n)
      BY <2>4, <2>7, <2>9 DEF Registries!Second
    <3> QED
      BY <3>1 DEF Registries!Next
  <2>10. ASSUME NEW a \in Node, g = Registries!Without(f, {a}) PROVE Registries!Next
    <3>1. Registries!Leave(n, a)
      BY <2>4, <2>7, <2>10 DEF Registries!Leave
    <3> QED
      BY <3>1 DEF Registries!Next
  <2>11. ASSUME NEW a \in Node, NEW p \in Node \cup {NoNode}, Registries!HasRoom(f, a),
                g = Registries!With(f, "Child", p, a)
         PROVE  Registries!Next
    <3>1. Registries!Enter(n, p, a)
      BY <2>4, <2>7, <2>11 DEF Registries!Enter
    <3> QED
      BY <3>1 DEF Registries!Next
  <2>12. ASSUME NEW a \in Node, NEW p \in Node \cup {NoNode}, NEW kids \in SUBSET Node,
                LET h == IF Registries!HasRoom(f, a)
                           THEN Registries!With(f, "Router", p, a) ELSE f
                IN  g = Registries!Without(h, {x \in DOMAIN h : h[x].parent = a} \ kids)
         PROVE  Registries!Next
    <3>1. Registries!Report(n, p, a, kids)
      BY <2>4, <2>7, <2>12 DEF Registries!Report
    <3> QED
      BY <3>1 DEF Registries!Next
  <2> QED
    BY <2>3, <2>6, <2>8, <2>9, <2>10, <2>11, <2>12 DEF ContentsMove
<1> QED
  BY <1>1, <1>2, <1>3, <1>4, TypeCorrect, PTL
     DEF Spec, TablesImplementRegistries, Registries!Spec
=============================================================================
