-------------------------- MODULE NetworkManagement --------------------------
(* The registration protocol of network_management.c, run by every device of *)
(* the mesh.  Routers report themselves and their children to the leader,    *)
(* which keeps them in its table (RegTable), answers with the devices that   *)
(* did not fit, and lets a device become a router only if the table has it.  *)
(*                                                                           *)
(* Each device runs two tasks: the OpenThread task (CoAP handlers, neighbor  *)
(* callbacks, role changes) and the FreeRTOS timer task, of the highest      *)
(* priority, which preempts it between two critical sections.  A report is   *)
(* therefore handled in several steps; the timer handler runs to its end.    *)
(* OpenThread itself (attaching, roles, delivery) is the environment.        *)
EXTENDS RegTable, FiniteSets

CONSTANTS FirstLeader,  \* the device that formed the network
          RegDelay,     \* seconds a router waits after a child change (10)
          Faults,       \* what the environment may do, see FaultKinds
          Lockstep,     \* TRUE: seconds pass at the same rate on every device
          MaxChurn,     \* bound: environment actions in one behaviour
          MaxMissed,    \* bound: reports of one router lost in a row
          MaxNet        \* bound: messages in flight when a second passes

FaultKinds == {"roam", "promote", "restart", "election", "loss", "oom"}

ASSUME ProtocolAssumption ==
  /\ FirstLeader \in Node
  /\ RegDelay \in Nat \ {0}
  /\ Faults \subseteq FaultKinds
  /\ Lockstep \in BOOLEAN
  /\ MaxChurn \in Nat /\ MaxMissed \in Nat /\ MaxNet \in Nat

\* Mutant: reports go out twice in a lease instead of three times.
KeepAliveHalf == Lease \div 2

\* NWK_MGM_ROUTER_KEEP_ALIVE_TIME
KeepAlive == (Lease \div 3) + 1

VARIABLES
  role,           \* OpenThread's role of each device
  parent,         \* the router a child attached to (kept by a router)
  children,       \* OpenThread's child table of each device
  table,          \* nwk_mgm_child_reg_table: Null or an array of slots
  regSendTimer,   \* mgm_reg_send_timer
  routerUpTimer,  \* mgm_router_up_timer
  blacklisted,    \* OpenThread's PAN blacklist holds the network's PAN
  hand,           \* the report the OpenThread task is in the middle of
  tmr,            \* the leader's refresh the timer task is in the middle of
  net,            \* CoAP messages in flight
  missed,         \* reports of each router lost in a row
  ticked,         \* devices whose second has passed in this round (Lockstep)
  churn           \* environment actions so far

devVars == <<role, parent, children, blacklisted>>
timers  == <<regSendTimer, routerUpTimer>>
envVars == <<missed, ticked, churn>>
vars    == <<devVars, table, timers, hand, tmr, net, envVars>>

-----------------------------------------------------------------------------
(* Messages.  The "dst" of a report is the device the leader's anycast       *)
(* address named when it was sent.                                           *)

RegMsg  == [type : {"reg"}, src : Node, dst : Node,
            parent : Node \cup {NoNode}, kids : SUBSET Node]
AckMsg  == [type : {"ack"}, dst : Node, kick : SUBSET Node]
KickMsg == [type : {"kick"}, dst : Node]

Idle == [busy |-> FALSE, src |-> NoNode, reported |-> {}, todo |-> {},
         kick |-> {}, ticked |-> FALSE]

Reports == [busy : {TRUE}, src : Node, reported : SUBSET Node,
            todo : SUBSET Node, kick : SUBSET Node, ticked : BOOLEAN]

Hands == Reports \cup {Idle}

Refreshes == [busy : BOOLEAN, todo : SUBSET Node]

Quiet == [busy |-> FALSE, todo |-> {}]

IsRouting(n) == role[n] \in {"Router", "Leader"}

\* The OpenThread task of n can start something new.
OTIdle(n) == ~hand[n].busy /\ ~tmr[n].busy

Fault(kind) == /\ kind \in Faults
               /\ churn < MaxChurn
               /\ churn' = churn + 1

\* nwk_mgm_child_register_post: the message, none if there is no leader.
Report(n) == {[type |-> "reg", src |-> n, dst |-> l,
               parent |-> parent[n], kids |-> children[n]] :
               l \in {x \in Node : role[x] = "Leader"}}

Kicks(S) == {[type |-> "kick", dst |-> c] : c \in S}

\* mem_malloc of the payload may fail; then nothing is sent.
PostOutcomes == IF "oom" \in Faults THEN BOOLEAN ELSE {TRUE}

-----------------------------------------------------------------------------
(* nwk_mgm_neighbor_Change_Callback, in the OpenThread task of p.            *)

LeaderTable(p) == IF table[p] = Null THEN EmptyTable ELSE table[p]

ChildAdded(p, c) ==
  IF role[p] = "Leader"
    THEN LET t == LeaderTable(p) IN
         /\ table' = [table EXCEPT ![p] = Added(t, "Child", p, c)]
         /\ routerUpTimer' = [routerUpTimer EXCEPT ![p] = KeepAlive]
         /\ IF AddFails(t, c)
              THEN /\ net' = net \cup Kicks({c})
                   /\ UNCHANGED children
              ELSE /\ children' = [children EXCEPT ![p] = @ \cup {c}]
                   /\ UNCHANGED net
         /\ UNCHANGED regSendTimer
    ELSE /\ children' = [children EXCEPT ![p] = @ \cup {c}]
         /\ regSendTimer' = [regSendTimer EXCEPT ![p] = RegDelay]
         /\ table' = [table EXCEPT ![p] = Null]
         /\ UNCHANGED <<routerUpTimer, net>>

\* The event CHILD_REMOVED for child c of p.
ChildRemoved(p, c) ==
  IF role[p] = "Leader"
    THEN /\ table' = [table EXCEPT ![p] = Removed(LeaderTable(p), "Child", c)]
         /\ UNCHANGED regSendTimer
    ELSE /\ table' = [table EXCEPT ![p] = Null]
         /\ regSendTimer' = [regSendTimer EXCEPT
                               ![p] = IF role[p] = "Router" THEN RegDelay
                                                            ELSE @]

\* Any other event: a router neighbor came or went.
RouterEvent(p) ==
  /\ "election" \in Faults
  /\ OTIdle(p)
  /\ table' = [table EXCEPT ![p] = IF role[p] = "Leader" THEN LeaderTable(p)
                                                         ELSE Null]
  /\ UNCHANGED <<devVars, timers, hand, tmr, net, envVars>>

-----------------------------------------------------------------------------
(* OpenThread: attaching, leaving, changing role, failing.                   *)

\* Child c attaches to p; a child entry p still has valid is reused silently.
\* A device sends no parent request while its PAN is blacklisted (Mle).
Attach(p, c) ==
  /\ churn < MaxChurn /\ churn' = churn + 1
  /\ p # c /\ OTIdle(p) /\ OTIdle(c)
  /\ IsRouting(p)
  /\ role[c] = "Detached" /\ ~blacklisted[c]
  /\ role' = [role EXCEPT ![c] = "Child"]
  /\ parent' = [parent EXCEPT ![c] = p]
  /\ IF c \in children[p]
       THEN UNCHANGED <<children, table, timers, net>>
       ELSE ChildAdded(p, c)
  /\ UNCHANGED <<blacklisted, hand, tmr, missed, ticked>>

\* p ages out, or learns of the departure of, a child that is no longer its own.
ChildTimeout(p, c) ==
  /\ OTIdle(p)
  /\ c \in children[p]
  /\ ~(role[c] = "Child" /\ parent[c] = p)
  /\ children' = [children EXCEPT ![p] = @ \ {c}]
  /\ ChildRemoved(p, c)
  /\ UNCHANGED <<role, parent, blacklisted, routerUpTimer, hand, tmr, net,
                 envVars>>

BecomeDetached(n) ==
  /\ role' = [role EXCEPT ![n] = "Detached"]
  /\ parent' = [parent EXCEPT ![n] = NoNode]
  /\ children' = [children EXCEPT ![n] = {}]

\* A child whose parent no longer has it, or no longer routes, notices.
OrphanDetach(c) ==
  /\ OTIdle(c)
  /\ role[c] = "Child"
  /\ ~(c \in children[parent[c]] /\ IsRouting(parent[c]))
  /\ BecomeDetached(c)
  /\ UNCHANGED <<table, timers, blacklisted, hand, tmr, net, envVars>>

\* A child leaves its parent of its own accord (it roams).
Roam(c) ==
  /\ Fault("roam")
  /\ OTIdle(c)
  /\ role[c] = "Child"
  /\ BecomeDetached(c)
  /\ UNCHANGED <<table, timers, blacklisted, hand, tmr, net, missed, ticked>>

\* Address Solicit: the leader grants a router id only to a registered device;
\* the new router reports at once (ot_stateChangeCallback).
Promote(l, c) ==
  /\ Fault("promote")
  /\ OTIdle(l) /\ OTIdle(c)
  /\ role[l] = "Leader" /\ role[c] = "Child"
  /\ Found(table[l], c)
  /\ role' = [role EXCEPT ![c] = "Router"]
  /\ \E sent \in PostOutcomes :
       IF sent
         THEN /\ net' = net \cup Report(c)
              /\ routerUpTimer' = [routerUpTimer EXCEPT ![c] = KeepAlive]
         ELSE UNCHANGED <<net, routerUpTimer>>
  /\ UNCHANGED <<parent, children, table, regSendTimer, blacklisted, hand, tmr,
                 missed, ticked>>

\* A device resets: everything but its address is in RAM.
Reboot(n) ==
  /\ BecomeDetached(n)
  /\ table' = [table EXCEPT ![n] = Null]
  /\ regSendTimer' = [regSendTimer EXCEPT ![n] = 0]
  /\ routerUpTimer' = [routerUpTimer EXCEPT ![n] = 0]
  /\ blacklisted' = [blacklisted EXCEPT ![n] = FALSE]
  /\ hand' = [hand EXCEPT ![n] = Idle]
  /\ tmr' = [tmr EXCEPT ![n] = Quiet]

Restart(n) ==
  /\ Fault("restart")
  /\ role[n] # "Leader" \/ "election" \in Faults
  /\ Reboot(n)
  /\ UNCHANGED <<net, missed, ticked>>

\* A leader leaves its partition for another one.
StepDown(l) ==
  /\ Fault("election")
  /\ OTIdle(l)
  /\ role[l] = "Leader"
  /\ BecomeDetached(l)
  /\ UNCHANGED <<table, timers, blacklisted, hand, tmr, net, missed, ticked>>

\* A router, or a detached device, takes over when there is no leader.
BecomeLeader(n) ==
  /\ Fault("election")
  /\ OTIdle(n)
  /\ \A x \in Node : role[x] # "Leader"
  /\ role[n] \in {"Router", "Detached"}
  /\ role' = [role EXCEPT ![n] = "Leader"]
  /\ parent' = [parent EXCEPT ![n] = NoNode]
  /\ UNCHANGED <<children, table, timers, blacklisted, hand, tmr, net, missed,
                 ticked>>

BlacklistExpire(n) ==
  /\ blacklisted[n]
  /\ blacklisted' = [blacklisted EXCEPT ![n] = FALSE]
  /\ UNCHANGED <<role, parent, children, table, timers, hand, tmr, net, envVars>>

-----------------------------------------------------------------------------
(* The CoAP resource "nwk".                                                  *)

\* nwk_mgm_childs_register_proccess up to the loop over the reported children:
\* the router itself, then the children it no longer reports.  A device that
\* is no leader answers "state 0" with nothing done.
DeliverReg(m) ==
  LET n == m.dst IN
  /\ m \in net /\ m.type = "reg"
  /\ OTIdle(n)
  /\ missed' = [missed EXCEPT ![m.src] = 0]
  /\ IF role[n] = "Leader"
       THEN /\ hand' = [hand EXCEPT ![n] =
                 [busy |-> TRUE, src |-> m.src,
                  reported |-> m.kids \cup {m.src}, todo |-> m.kids,
                  kick |-> IF AddFails(table[n], m.src) THEN {m.src} ELSE {},
                  ticked |-> FALSE]]
            /\ table' = [table EXCEPT ![n] =
                 Swept(Added(@, "Router", m.parent, m.src), m.src, m.kids)]
            /\ net' = net \ {m}
       ELSE /\ net' = (net \ {m}) \cup
                      {[type |-> "ack", dst |-> m.src, kick |-> {}]}
            /\ UNCHANGED <<hand, table>>
  /\ UNCHANGED <<devVars, timers, tmr, ticked, churn>>

\* Mutant: a child that did not fit is not put on the kick list.
RegisterAddSilent(n, c) ==
  /\ hand[n].busy /\ ~tmr[n].busy
  /\ c \in hand[n].todo
  /\ table' = [table EXCEPT ![n] = Added(@, "Child", hand[n].src, c)]
  /\ hand' = [hand EXCEPT ![n].todo = @ \ {c}]
  /\ UNCHANGED <<devVars, timers, tmr, net, envVars>>

\* One iteration of the "updata child table" loop.
RegisterAdd(n, c) ==
  /\ hand[n].busy /\ ~tmr[n].busy
  /\ c \in hand[n].todo
  /\ table' = [table EXCEPT ![n] = Added(@, "Child", hand[n].src, c)]
  /\ hand' = [hand EXCEPT ![n].todo = @ \ {c},
                          ![n].kick = IF AddFails(table[n], c) THEN @ \cup {c}
                                                               ELSE @]
  /\ UNCHANGED <<devVars, timers, tmr, net, envVars>>

\* The answer: state is 1 exactly when there is a device to kick.
RegisterAck(n) ==
  /\ hand[n].busy /\ ~tmr[n].busy
  /\ hand[n].todo = {}
  /\ net' = net \cup {[type |-> "ack", dst |-> hand[n].src,
                       kick |-> hand[n].kick]}
  /\ hand' = [hand EXCEPT ![n] = Idle]
  /\ UNCHANGED <<devVars, table, timers, tmr, envVars>>

\* Blacklist the PAN, then nwk_mgm_reset.
LeaveNetwork(n) ==
  /\ blacklisted' = [blacklisted EXCEPT ![n] = TRUE]
  /\ BecomeDetached(n)

\* nwk_mgm_childs_register_ack_proccess.  A router that is to go itself goes
\* and kicks nobody: it is the first of the list and the loop stops there.
DeliverAck(m) ==
  LET n == m.dst IN
  /\ m \in net /\ m.type = "ack"
  /\ OTIdle(n)
  /\ IF role[n] # "Router" \/ m.kick = {}
       THEN /\ net' = net \ {m}
            /\ UNCHANGED <<devVars, table, regSendTimer>>
     ELSE IF n \in m.kick
       THEN /\ LeaveNetwork(n)
            /\ net' = net \ {m}
            /\ UNCHANGED <<table, regSendTimer>>
     ELSE /\ net' = (net \ {m}) \cup Kicks(m.kick)
          /\ children' = [children EXCEPT ![n] = @ \ m.kick]
          /\ IF m.kick \cap children[n] = {}
               THEN UNCHANGED <<table, regSendTimer>>
               ELSE /\ regSendTimer' = [regSendTimer EXCEPT ![n] = RegDelay]
                    /\ table' = [table EXCEPT ![n] = Null]
          /\ UNCHANGED <<role, parent, blacklisted>>
  /\ UNCHANGED <<routerUpTimer, hand, tmr, envVars>>

\* nwk_mgm_kick_child_proccess
DeliverKick(m) ==
  LET n == m.dst IN
  /\ m \in net /\ m.type = "kick"
  /\ OTIdle(n)
  /\ net' = net \ {m}
  /\ IF role[n] \in {"Child", "Router"} THEN LeaveNetwork(n)
                                        ELSE UNCHANGED devVars
  /\ UNCHANGED <<table, timers, hand, tmr, envVars>>

Deliver(m) == DeliverReg(m) \/ DeliverAck(m) \/ DeliverKick(m)

\* A message is lost.  A report that was never answered calls
\* nwk_mgm_ack_process with a null message, which it reads all the same: the
\* device goes on, or faults and resets.
Lose(m) ==
  /\ "loss" \in Faults
  /\ m \in net
  /\ net' = net \ {m}
  /\ IF m.type = "reg"
       THEN /\ missed[m.src] < MaxMissed
            /\ missed' = [missed EXCEPT ![m.src] = @ + 1]
       ELSE UNCHANGED missed
  /\ \/ UNCHANGED <<devVars, table, timers, hand, tmr, churn>>
     \/ /\ m.type = "reg"
        /\ Fault("restart")
        /\ role[m.src] # "Leader"
        /\ Reboot(m.src)
  /\ UNCHANGED ticked

-----------------------------------------------------------------------------
(* The timer task: nwk_mgm_timer_handler, once a second.                     *)

\* A handler is over well within a second, so one is passed at most once by
\* the timer; in Lockstep a message and its handling fit between two seconds.
SecondMayPass(n) ==
  /\ ~tmr[n].busy
  /\ ~(hand[n].busy /\ hand[n].ticked)
  /\ Cardinality(net) <= MaxNet
  /\ Lockstep => /\ n \notin ticked
                 /\ net = {}
                 /\ \A x \in Node : ~hand[x].busy /\ ~tmr[x].busy

PassSecond(n) ==
  ticked' = IF ~Lockstep \/ ticked \cup {n} = Node THEN {} ELSE ticked \cup {n}

\* Mutant: a timer is counted down without looking whether it runs.
LessAlways(x) == x - 1

Less(x) == IF x > 0 THEN x - 1 ELSE 0

\* Mutant: the keep-alive fires once.
NextUpOnce(up) == Less(up)

\* mgm_router_update_timer_handler arms the timer anew in every role.
NextUp(up) == IF up = 1 THEN KeepAlive ELSE Less(up)

\* The leader's keep-alive enters its children one by one (ReAdd) before the
\* leases age (FinishTick); any other device is done in this step.
Tick(n) ==
  \E sent \in PostOutcomes :
    LET resend == regSendTimer[n] = 1 /\ role[n] = "Router"
        up     == IF resend /\ sent THEN KeepAlive ELSE routerUpTimer[n]
        fires  == up = 1
    IN
    /\ SecondMayPass(n)
    /\ PassSecond(n)
    /\ regSendTimer' = [regSendTimer EXCEPT ![n] = Less(@)]
    /\ routerUpTimer' = [routerUpTimer EXCEPT ![n] = NextUp(up)]
    /\ net' = IF sent /\ (resend \/ (fires /\ role[n] = "Router"))
                THEN net \cup Report(n) ELSE net
    /\ IF fires /\ role[n] = "Leader"
         THEN /\ tmr' = [tmr EXCEPT ![n] = [busy |-> TRUE,
                                            todo |-> children[n]]]
              /\ UNCHANGED table
         ELSE /\ table' = [table EXCEPT ![n] = IF fires THEN Null ELSE Aged(@)]
              /\ UNCHANGED tmr
    /\ hand' = [hand EXCEPT ![n].ticked = hand[n].busy]
    /\ UNCHANGED <<devVars, missed, churn>>

\* mgm_router_update_timer_handler in a leader: one of its own children.
ReAdd(n, c) ==
  /\ tmr[n].busy
  /\ c \in tmr[n].todo
  /\ table' = [table EXCEPT ![n] = Added(@, "Child", n, c)]
  /\ tmr' = [tmr EXCEPT ![n].todo = @ \ {c}]
  /\ UNCHANGED <<devVars, timers, hand, net, envVars>>

FinishTick(n) ==
  /\ tmr[n].busy
  /\ tmr[n].todo = {}
  /\ table' = [table EXCEPT ![n] = Aged(@)]
  /\ tmr' = [tmr EXCEPT ![n] = Quiet]
  /\ UNCHANGED <<devVars, timers, hand, net, envVars>>

-----------------------------------------------------------------------------
Init ==
  /\ role = [n \in Node |-> IF n = FirstLeader THEN "Leader" ELSE "Detached"]
  /\ parent = [n \in Node |-> NoNode]
  /\ children = [n \in Node |-> {}]
  /\ table = [n \in Node |-> Null]
  /\ regSendTimer = [n \in Node |-> 0]
  /\ routerUpTimer = [n \in Node |-> 0]
  /\ blacklisted = [n \in Node |-> FALSE]
  /\ hand = [n \in Node |-> Idle]
  /\ tmr = [n \in Node |-> Quiet]
  /\ net = {}
  /\ missed = [n \in Node |-> 0]
  /\ ticked = {}
  /\ churn = 0

OpenThreadTask(n) ==
  \/ \E c \in Node : \/ Attach(n, c)
                     \/ ChildTimeout(n, c)
                     \/ Promote(n, c)
                     \/ RegisterAdd(n, c)
  \/ RegisterAck(n)
  \/ OrphanDetach(n) \/ Roam(n) \/ Restart(n)
  \/ StepDown(n) \/ BecomeLeader(n)
  \/ BlacklistExpire(n) \/ RouterEvent(n)

TimerTask(n) == \/ Tick(n)
                \/ \E c \in Node : ReAdd(n, c)
                \/ FinishTick(n)

Next == \/ \E n \in Node : OpenThreadTask(n) \/ TimerTask(n)
        \/ \E m \in net : Deliver(m) \/ Lose(m)

Spec == Init /\ [][Next]_vars

\* Both tasks are scheduled, messages arrive unless they are lost, and
\* OpenThread, between two handlers, notices that a child or a parent is gone.
Fairness ==
  /\ \A n \in Node :
       /\ WF_vars(TimerTask(n))
       /\ WF_vars(RegisterAck(n) \/ \E c \in Node : RegisterAdd(n, c))
       /\ SF_vars(OrphanDetach(n))
       /\ SF_vars(\E c \in Node : ChildTimeout(n, c))
  /\ WF_vars(\E m \in net : Deliver(m))

FairSpec == Spec /\ Fairness

-----------------------------------------------------------------------------
(* Properties                                                                *)

\* Every variable has the values the C types and tables can hold.
TypeOK ==
  /\ role \in [Node -> Roles]
  /\ parent \in [Node -> Node \cup {NoNode}]
  /\ children \in [Node -> SUBSET Node]
  /\ table \in [Node -> Tables \cup {Null}]
  /\ regSendTimer \in [Node -> 0..RegDelay]
  /\ routerUpTimer \in [Node -> 0..KeepAlive]
  /\ blacklisted \in [Node -> BOOLEAN]
  /\ hand \in [Node -> Hands]
  /\ tmr \in [Node -> Refreshes]
  /\ net \subseteq RegMsg \cup AckMsg \cup KickMsg
  /\ missed \in [Node -> 0..MaxMissed]
  /\ ticked \subseteq Node
  /\ churn \in 0..MaxChurn

\* No device is on file twice: whatever order reports, child events, leases
\* running out and refreshes come in, an address has at most one slot.
OneSlotPerDevice ==
  \A n \in Node : table[n] # Null =>
    \A i, j \in Slots :
      table[n][i].used /\ table[n][j].used
        /\ table[n][i].addr = table[n][j].addr => i = j

Handled(n) == hand[n].reported \ hand[n].todo

\* Every device of a report that was dealt with is on file or on the kick
\* list, although the timer task may free slots in the middle of the report
\* (nwk_mgm_childs_register_proccess in a leader that has a table).
ReportAccounted ==
  \A n \in Node : hand[n].busy /\ table[n] # Null =>
    Handled(n) \subseteq Registered(table[n]) \cup hand[n].kick

\* A router, and a leader with children, always has its keep-alive armed: no
\* path through the role change, the callbacks, the reset and the two timers
\* leaves it without one (then its entries would run out for good).
KeepAliveArmed ==
  \A n \in Node :
    role[n] = "Router" \/ (role[n] = "Leader" /\ children[n] # {})
      => routerUpTimer[n] > 0

\* A router's entry is never marked detached, however late the event that its
\* old parent lost it as a child, and whatever its old parent reports.
RouterNotDetached ==
  [][\A n \in Node : \A i \in Slots :
       table[n] # Null /\ table'[n] # Null =>
         ~ /\ table[n][i].used /\ table[n][i].role = "Router"
           /\ table'[n][i].used /\ table'[n][i].role = "Detached"]_vars

\* A device on file is never put on the kick list, even if every slot is taken.
RegisteredNotKicked ==
  [][\A n \in Node :
       hand[n].busy => hand'[n].kick \ hand[n].kick
                         \subseteq Node \ Registered(table[n])]_vars

\* The device of an entry is where the entry says: a router, or a child of the
\* router it was last reported by.
EntryIsLive(e) ==
  /\ e.used
  /\ \/ e.role = "Router" /\ role[e.addr] = "Router"
     \/ /\ e.role = "Child" /\ role[e.addr] = "Child"
        /\ role[e.parent] = "Router"
        /\ e.addr \in children[e.parent]

\* While the network stays put, no lease of a router or of a router's child
\* runs out in the leader's table, with one report in two lost and the
\* seconds of leader and router out of step: two keep-alive periods fit into
\* one lease (NWK_MGM_ROUTER_KEEP_ALIVE_TIME against
\* NWK_MGM_CHILD_REQ_ENTRIES_TIME).
LiveLeaseHolds ==
  [][\A n \in Node : \A i \in Slots :
       (role[n] = "Leader" /\ table[n] # Null /\ table'[n] # Null) =>
         (EntryIsLive(table[n][i]) => table'[n][i].used)]_vars

\* The table of leader l says what the network is.
Accurate(l) ==
  \A n \in Node \ {l} :
    LET e == table[l][FirstOf(Holding(table[l], n))] IN
    CASE role[n] = "Router" -> Found(table[l], n) /\ e.role = "Router"
      [] role[n] = "Child"  -> /\ Found(table[l], n)
                               /\ e.role = "Child" /\ e.parent = parent[n]
      [] OTHER -> Found(table[l], n) => e.role # "Child"

\* Once devices stop roaming and failing, the leader's table becomes right and
\* stays right: reports that crossed a move are corrected by later ones.
Converges ==
  <>[](\A l \in Node : role[l] = "Leader" /\ table[l] # Null => Accurate(l))

\* The registry the table of device n implements.
Contents(t) ==
  [a \in Registered(t) |->
     LET e == t[FirstOf(Holding(t, a))]
     IN  [role |-> e.role, parent |-> e.parent, lease |-> e.validtime]]

Registries == INSTANCE NodeRegistry
                WITH reg <- [n \in Node |-> Contents(table[n])],
                     Capacity <- TableSize

\* The array of slots of every device, written by two tasks, behaves as the
\* bounded map of leases that NodeRegistry specifies.
TablesImplementRegistries == Registries!Spec

\* "success = 0, fail = 1": an answer of 0 means that the router and its
\* children are on file.
AckSuccessMeansRegistered ==
  \A n \in Node :
    hand[n].busy /\ hand[n].todo = {} /\ hand[n].kick = {} =>
      hand[n].reported \subseteq Registered(table[n])

=============================================================================
