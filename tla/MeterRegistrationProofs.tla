----------------------- MODULE MeterRegistrationProofs -----------------------
(* Proofs about the registration of a node in das_dlms_cmd.c, for any times   *)
(* and limits, any number of faults and any order of the timer, the tasks and *)
(* the interrupt.                                                             *)
(*                                                                            *)
(* The parts of a handler are operators on the node's record.  NodeInv holds  *)
(* before and after each of them, and Bounded between two handlers; Goes says *)
(* what a handler may do to the registration.  That it never goes back rests  *)
(* on Known: the authentication is under way exactly until the meter accepts  *)
(* a key, no key is offered before it begins, and the log, whose answer       *)
(* completes the registration, is asked for only behind an accepted key.      *)
EXTENDS MeterRegistration, TLAPS

-----------------------------------------------------------------------------
(* The node's record.                                                        *)

\* The fields of the node's record.
Fields ==
  {"boot", "bootCount", "role", "success", "roleCount", "maa", "steps", "timeout", "retry",
   "sst", "maaFirst", "aaCheck", "flagMAA", "a2", "keyError", "key", "stored", "discFlag",
   "mcDone", "statusCount", "firstPowerOn", "refuse", "registerFlag", "first", "hour",
   "off", "npOff", "gotOn", "onCount", "anomaly", "evBoot", "evRegister", "out", "asked"}

\* What the meter is asked.
Message == {"disc1", "snrm1", "aarq1", "get", "disc", "snrm", "aarq", "auth", "authBad", "log"}

\* The types of the fields, with the counts that one handler checks by itself.
Typed(d) ==
  /\ DOMAIN d = Fields
  /\ d.boot \in 0..Done /\ d.bootCount \in Nat
  /\ d.maa \in Status /\ d.steps \in {0, 2} /\ d.maaFirst \in 0..2
  /\ d.timeout \in Nat /\ d.retry \in Nat \ {0}
  /\ d.role \in Roles \cup {"none"} /\ d.roleCount \in Nat
  /\ d.statusCount \in 0..(StatusLimit - 1) /\ d.hour \in 0..(HourLimit - 1)
  /\ d.onCount \in 0..OnLimit /\ d.anomaly \in 0..(PowerLimit - 1)
  /\ d.refuse \in 0..2
  /\ d.out \in Seq(Message)

\* The countdown runs, or has raised its event, while the node waits for a key.
Armed(d) == d.boot = Done /\ d.maa = "none" => d.timeout > 0 \/ d.evRegister

\* The meter has still to answer m.
Pending(d, m) == \E i \in 1..Len(d.out) : d.out[i] = m

\* The authentication is under way (1) until the meter has accepted a key (2),
\* and not before there is one; the log is asked for only behind it.
Known(d) ==
  /\ d.maa = "none" <=> d.maaFirst # 2
  /\ d.key => d.maaFirst # 0
  /\ Pending(d, "auth") => d.maaFirst # 0
  /\ Pending(d, "log") => d.maa # "none"

\* What holds between any two parts of a handler.
NodeInv(d) == Typed(d) /\ Armed(d) /\ Known(d)

\* The registration does not go back.
Onward(d, e) == Rank[e.maa] >= Rank[d.maa]

\* What most of the helpers leave alone.
Same(d, e) ==
  /\ e.boot = d.boot /\ e.bootCount = d.bootCount
  /\ e.role = d.role /\ e.roleCount = d.roleCount
  /\ e.timeout = d.timeout /\ e.evRegister = d.evRegister
  /\ e.maaFirst = d.maaFirst /\ e.key = d.key /\ e.stored = d.stored

\* What is asked after a request more, and after an answer.
LEMMA AppendPending ==
  ASSUME NEW s \in Seq(Message), NEW m \in Message
  PROVE  /\ Append(s, m) \in Seq(Message)
         /\ \A i \in 1..Len(Append(s, m)) :
              Append(s, m)[i] = m \/ \E j \in 1..Len(s) : s[j] = Append(s, m)[i]
<1>1. /\ Append(s, m) \in Seq(Message) /\ Len(Append(s, m)) = Len(s) + 1 /\ Len(s) \in Nat
      /\ \A i \in 1..(Len(s) + 1) : Append(s, m)[i] = IF i <= Len(s) THEN s[i] ELSE m
  OBVIOUS
<1>2. \A i \in 1..(Len(s) + 1) : i <= Len(s) => i \in 1..Len(s)
  BY <1>1
<1> QED
  BY <1>1, <1>2

\* What is asked for after the oldest request is answered.
LEMMA TailPending ==
  ASSUME NEW s \in Seq(Message), s # <<>>
  PROVE  /\ Tail(s) \in Seq(Message) /\ Head(s) \in Message
         /\ \E j \in 1..Len(s) : s[j] = Head(s)
         /\ \A i \in 1..Len(Tail(s)) : \E j \in 1..Len(s) : s[j] = Tail(s)[i]
<1>1. /\ Len(s) \in Nat \ {0} /\ Tail(s) \in Seq(Message) /\ Len(Tail(s)) = Len(s) - 1
      /\ \A i \in 1..(Len(s) - 1) : Tail(s)[i] = s[i + 1]
      /\ Head(s) = s[1] /\ s[1] \in Message
  OBVIOUS
<1>2. 1 \in 1..Len(s) /\ \A i \in 1..(Len(s) - 1) : i + 1 \in 1..Len(s)
  BY <1>1
<1> QED
  BY <1>1, <1>2

\* How the state of registration may move.
LEMMA OnwardOn ==
  ASSUME NEW d, NEW e, NEW f, d.maa \in Status, e.maa \in Status, f.maa \in Status
  PROVE  /\ Onward(d, e) /\ Onward(e, f) => Onward(d, f)
         /\ e.maa = d.maa => Onward(d, e)
         /\ d.maa = "none" => Onward(d, e)
         /\ e.maa = "complete" => Onward(d, e)
         /\ Onward(d, e) /\ d.maa # "none" => e.maa # "none"
BY DEF Onward, Status, Rank

\* A request more leaves the node as it was.
LEMMA TransmitInv ==
  ASSUME NEW d, NodeInv(d), NEW m \in Message,
         m = "auth" => d.maaFirst # 0, m = "log" => d.maa # "none"
  PROVE  /\ NodeInv(Transmit(d, m)) /\ Same(d, Transmit(d, m))
         /\ \A f \in Fields \ {"out"} : Transmit(d, m)[f] = d[f]
<1> DEFINE e == Transmit(d, m)
<1>1. DOMAIN d = Fields /\ d.out \in Seq(Message)
  BY DEF NodeInv, Typed
<1>2. /\ DOMAIN e = Fields /\ e.out = Append(d.out, m)
      /\ \A f \in Fields \ {"out"} : e[f] = d[f]
  BY <1>1 DEF Transmit, Fields
<1> HIDE DEF e
<1>3. e.out \in Seq(Message) /\ \A x : Pending(e, x) => Pending(d, x) \/ x = m
  BY <1>1, <1>2, AppendPending DEF Pending
<1>4. Same(d, e) /\ e.maa = d.maa
  BY <1>2 DEF Same, Fields
<1>5. Typed(e)
  BY <1>2, <1>3 DEF NodeInv, Typed, Fields
<1>6. Armed(e) /\ Known(e)
  BY <1>3, <1>4 DEF NodeInv, Armed, Known, Same
<1> QED
  BY <1>2, <1>4, <1>5, <1>6 DEF e, NodeInv

\* A change of fields that the invariant does not speak of together.
LEMMA QuietInv ==
  ASSUME NEW d, NodeInv(d), NEW e, Typed(e), Same(d, e), e.maa = d.maa, e.out = d.out
  PROVE  NodeInv(e)
BY DEF NodeInv, Armed, Known, Same, Pending

\* register_command leaves the countdown and the authentication alone.
LEMMA RegisterCommandInv ==
  ASSUME NEW d, NodeInv(d)
  PROVE  LET e == RegisterCommand(d) IN
         NodeInv(e) /\ Same(d, e) /\ e.maa = d.maa /\ e.asked = TRUE
<1> DEFINE e == RegisterCommand(d)
<1>1. Typed(e) /\ Same(d, e) /\ e.maa = d.maa /\ e.out = d.out /\ e.asked = TRUE
  BY DEF NodeInv, Typed, Fields, RegisterCommand, Same
<1> HIDE DEF e
<1>2. NodeInv(e)
  BY <1>1, QuietInv
<1> QED
  BY <1>1, <1>2 DEF e

\* udf_Send_DISC asks the meter to begin anew, and changes nothing else.
LEMMA SendDiscInv ==
  ASSUME NEW d, NodeInv(d)
  PROVE  LET e == SendDisc(d) IN
         /\ NodeInv(e) /\ Same(d, e)
         /\ \A f \in Fields \ {"out", "discFlag"} : e[f] = d[f]
<1> DEFINE c == [d EXCEPT !.discFlag = TRUE]
           e == Transmit(c, "disc")
<1>1. Typed(c) /\ Same(d, c) /\ c.maa = d.maa /\ c.out = d.out
      /\ \A f \in Fields \ {"out", "discFlag"} : c[f] = d[f]
  BY DEF NodeInv, Typed, Fields, Same
<1> HIDE DEF c
<1>2. NodeInv(c)
  BY <1>1, QuietInv
<1>3. "disc" \in Message /\ "disc" # "auth" /\ "disc" # "log"
  BY DEF Message
<1>4. NodeInv(e) /\ Same(c, e) /\ \A f \in Fields \ {"out"} : e[f] = c[f]
  BY <1>2, <1>3, TransmitInv
<1>5. Same(d, e)
  BY <1>1, <1>4 DEF Same
<1> QED
  BY <1>1, <1>4, <1>5 DEF SendDisc, c

\* Auto_MAA does so for an authentication.
LEMMA AutoMAAInv ==
  ASSUME NEW d, NodeInv(d)
  PROVE  LET e == AutoMAA(d) IN
         /\ NodeInv(e) /\ Same(d, e)
         /\ \A f \in Fields \ {"out", "discFlag", "flagMAA"} : e[f] = d[f]
<1> DEFINE c == SendDisc(d)
           e == [c EXCEPT !.flagMAA = TRUE]
<1>1. NodeInv(c) /\ Same(d, c) /\ \A f \in Fields \ {"out", "discFlag"} : c[f] = d[f]
  BY SendDiscInv
<1> HIDE DEF c
<1>2. Typed(e) /\ Same(c, e) /\ e.maa = c.maa /\ e.out = c.out
      /\ \A f \in Fields \ {"flagMAA"} : e[f] = c[f]
  BY <1>1 DEF NodeInv, Typed, Fields, Same
<1> HIDE DEF e
<1>3. NodeInv(e)
  BY <1>1, <1>2, QuietInv
<1>4. Same(d, e)
  BY <1>1, <1>2 DEF Same
<1> QED
  BY <1>1, <1>2, <1>3, <1>4 DEF AutoMAA, c, e

-----------------------------------------------------------------------------
(* What a second does.                                                       *)

\* Rafael_Register: an acknowledged key, and requests of the head end and of the
\* meter; only an attached node asks the head end.
LEMMA RafaelRegisterInv ==
  ASSUME NEW d, NodeInv(d)
  PROVE  LET e == RafaelRegister(d) IN
         /\ NodeInv(e) /\ Same(d, e) /\ Onward(d, e)
         /\ e.asked = d.asked \/ (d.boot = Done /\ d.role # "none")
<1> DEFINE asks  == d.boot = Done /\ Attached(d) /\ d.steps = 0 /\ d.maa = "none"
           acks  == d.sst /\ d.maa = "key" /\ d.steps = 2
           reads == (acks \/ d.maa = "acked") /\ d.firstPowerOn /\ Attached(d)
           auths == d.aaCheck /\ ~d.flagMAA
           asked == IF asks THEN RegisterCommand(d) ELSE d
           acked == IF acks THEN [asked EXCEPT !.sst = FALSE, !.maa = "acked"] ELSE asked
           log   == IF reads /\ ~d.npOff THEN Transmit(acked, "log") ELSE acked
           read  == [log EXCEPT !.firstPowerOn = @ /\ ~reads]
           e     == IF auths THEN AutoMAA(read) ELSE read
<1>1. RafaelRegister(d) = e
  BY DEF RafaelRegister
<1>2. Same(d, d) /\ DOMAIN d = Fields /\ d.maa \in Status
  BY DEF Same, NodeInv, Typed, Known
<1>3. NodeInv(asked) /\ Same(d, asked) /\ asked.maa = d.maa
      /\ (asked.asked = d.asked \/ (d.boot = Done /\ d.role # "none"))
  <2>1. asks => d.boot = Done /\ d.role # "none"
    BY DEF Attached
  <2> HIDE DEF asks
  <2>2. CASE asks
    BY <2>1, <2>2, RegisterCommandInv
  <2>3. CASE ~asks
    BY <1>2, <2>3
  <2> QED
    BY <2>2, <2>3
<1> HIDE DEF asked
<1>4. /\ NodeInv(acked) /\ Same(d, acked) /\ acked.asked = asked.asked
      /\ acked.maa = IF acks THEN "acked" ELSE d.maa
      /\ acks => d.maa = "key"
  <2>1. CASE acks
    <3> DEFINE c == [asked EXCEPT !.sst = FALSE]
               f == [c EXCEPT !.maa = "acked"]
    <3>1. acked = f
      BY <2>1
    <3>2. DOMAIN c = Fields /\ \A x \in Fields \ {"sst"} : c[x] = asked[x]
      BY <1>3 DEF NodeInv, Typed, Fields
    <3> HIDE DEF c
    <3>3. DOMAIN f = Fields /\ f.maa = "acked" /\ \A x \in Fields \ {"sst", "maa"} : f[x] = asked[x]
      BY <3>2 DEF Fields
    <3> HIDE DEF f
    <3>4. Same(asked, f) /\ f.out = asked.out /\ f.asked = asked.asked
      BY <3>3 DEF Fields, Same
    <3>5. /\ f.steps = asked.steps /\ f.retry = asked.retry /\ f.hour = asked.hour
          /\ f.statusCount = asked.statusCount /\ f.onCount = asked.onCount
          /\ f.anomaly = asked.anomaly /\ f.refuse = asked.refuse
      BY <3>3 DEF Fields
    <3>6. Typed(f)
      BY <1>3, <3>3, <3>4, <3>5 DEF NodeInv, Typed, Same, Status
    <3>7. asked.maa # "none"
      BY <1>3, <2>1
    <3>8. NodeInv(f)
      BY <1>3, <3>3, <3>4, <3>6, <3>7 DEF NodeInv, Armed, Known, Same, Pending
    <3>9. Same(d, f)
      BY <1>3, <3>4 DEF Same
    <3> QED
      BY <2>1, <3>1, <3>3, <3>4, <3>8, <3>9
  <2>2. CASE ~acks
    BY <1>3, <2>2
  <2> QED
    BY <2>1, <2>2
<1>5. reads => acked.maa = "acked"
  BY <1>4
<1> HIDE DEF acked, acks, reads, auths
<1>6. Onward(d, acked)
  BY <1>2, <1>4 DEF Onward, Status, Rank
<1>7. NodeInv(log) /\ Same(d, log) /\ log.maa = acked.maa /\ log.asked = acked.asked
  <2>1. CASE reads /\ ~d.npOff
    <3>1. "log" \in Message /\ "log" # "auth" /\ acked.maa # "none" /\ log = Transmit(acked, "log")
      BY <1>5, <2>1 DEF Message
    <3>2. NodeInv(log) /\ Same(acked, log) /\ \A f \in Fields \ {"out"} : log[f] = acked[f]
      BY <1>4, <3>1, TransmitInv
    <3>3. log.maa = acked.maa /\ log.asked = acked.asked
      BY <3>2 DEF Fields
    <3>4. Same(d, log)
      BY <1>4, <3>2 DEF Same
    <3> QED
      BY <3>2, <3>3, <3>4
  <2>2. CASE ~(reads /\ ~d.npOff)
    BY <1>4, <2>2
  <2> QED
    BY <2>1, <2>2
<1> HIDE DEF log
<1>8. NodeInv(read) /\ Same(d, read) /\ read.maa = acked.maa /\ read.asked = acked.asked
  <2>1. DOMAIN read = Fields /\ \A f \in Fields \ {"firstPowerOn"} : read[f] = log[f]
    BY <1>7 DEF NodeInv, Typed, Fields
  <2> HIDE DEF read
  <2>2. Typed(read) /\ Same(log, read) /\ read.maa = log.maa /\ read.out = log.out
        /\ read.asked = log.asked
    BY <1>7, <2>1, SMTT(30) DEF NodeInv, Typed, Fields, Same
  <2>3. NodeInv(read)
    BY <1>7, <2>2, QuietInv
  <2>4. Same(d, read)
    BY <1>7, <2>2 DEF Same
  <2> QED
    BY <1>7, <2>2, <2>3, <2>4
<1> HIDE DEF read
<1>9. NodeInv(e) /\ Same(d, e) /\ e.maa = acked.maa /\ e.asked = acked.asked
  <2>1. CASE auths
    <3>1. e = AutoMAA(read)
      BY <2>1
    <3> HIDE DEF e
    <3>2. NodeInv(e) /\ Same(read, e)
          /\ \A f \in Fields \ {"out", "discFlag", "flagMAA"} : e[f] = read[f]
      BY <1>8, <3>1, AutoMAAInv
    <3>3. e.maa = read.maa /\ e.asked = read.asked
      BY <3>2 DEF Fields
    <3>4. Same(d, e)
      BY <1>8, <3>2 DEF Same
    <3> QED
      BY <1>8, <3>2, <3>3, <3>4
  <2>2. CASE ~auths
    BY <1>8, <2>2
  <2> QED
    BY <2>1, <2>2
<1> HIDE DEF e
<1>10. Onward(d, e)
  BY <1>6, <1>9 DEF Onward
<1> QED
  BY <1>1, <1>3, <1>4, <1>9, <1>10

\* The counts of a second.
LEMMA CountBootInv ==
  ASSUME NEW d, NodeInv(d)
  PROVE  LET e == CountBoot(d) IN
         /\ NodeInv(e) /\ \A f \in Fields \ {"bootCount"} : e[f] = d[f]
         /\ d.boot = Done => e.bootCount = d.bootCount
<1> DEFINE e == CountBoot(d)
<1>1. /\ Typed(e) /\ \A f \in Fields \ {"bootCount"} : e[f] = d[f]
      /\ d.boot = Done => e.bootCount = d.bootCount
  BY DEF NodeInv, Typed, Fields, CountBoot
<1> HIDE DEF e
<1>2. NodeInv(e)
  BY <1>1 DEF NodeInv, Armed, Known, Pending, Fields
<1> QED
  BY <1>1, <1>2 DEF e

\* The countdown raises the event of the next request in its last second.
LEMMA CountDownInv ==
  ASSUME NEW d, NodeInv(d)
  PROVE  LET e == CountDown(d) IN
         NodeInv(e) /\ \A f \in Fields \ {"timeout", "evRegister"} : e[f] = d[f]
<1> DEFINE e == CountDown(d)
<1>1. DOMAIN d = Fields /\ d.timeout \in Nat /\ d.maa \in Status
  BY DEF NodeInv, Typed
<1>2. CASE d.maa = "none" /\ d.steps = 2 /\ d.timeout > 0
  <2> DEFINE c == [d EXCEPT !.timeout = @ - 1]
             f == [c EXCEPT !.evRegister = @ \/ d.timeout = 1]
  <2>1. CountDown(d) = f
    BY <1>1, <1>2 DEF CountDown, Fields
  <2>2. DOMAIN c = Fields /\ c.timeout = d.timeout - 1
        /\ \A x \in Fields \ {"timeout"} : c[x] = d[x]
    BY <1>1 DEF Fields
  <2> HIDE DEF c
  <2>3. DOMAIN f = Fields /\ f.evRegister = (c.evRegister \/ d.timeout = 1)
        /\ \A x \in Fields \ {"evRegister"} : f[x] = c[x]
    BY <2>2 DEF Fields
  <2> HIDE DEF f
  <2>4. f.timeout = d.timeout - 1 /\ c.evRegister = d.evRegister
        /\ \A x \in Fields \ {"timeout", "evRegister"} : f[x] = d[x]
    BY <2>2, <2>3 DEF Fields
  <2>5. f.timeout \in Nat /\ (f.timeout > 0 \/ d.timeout = 1)
    BY <1>1, <1>2, <2>4
  <2>6. f.timeout > 0 \/ f.evRegister
    BY <2>3, <2>5
  <2>7. Typed(f)
    BY <2>3, <2>4, <2>5 DEF NodeInv, Typed, Fields
  <2>8. NodeInv(f)
    BY <2>4, <2>6, <2>7 DEF NodeInv, Armed, Known, Pending, Fields
  <2> QED
    BY <2>1, <2>4, <2>8
<1>3. CASE ~(d.maa = "none" /\ d.steps = 2 /\ d.timeout > 0)
  BY <1>3 DEF CountDown
<1> QED
  BY <1>2, <1>3

\* A node with a role counts no seconds without one.
LEMMA CountRoleInv ==
  ASSUME NEW d, NodeInv(d)
  PROVE  LET e == CountRole(d) IN
         /\ NodeInv(e) /\ \A f \in Fields \ {"roleCount"} : e[f] = d[f]
         /\ d.role # "none" => e.roleCount = 0
<1> DEFINE e == CountRole(d)
<1>1. /\ Typed(e) /\ \A f \in Fields \ {"roleCount"} : e[f] = d[f]
      /\ d.role # "none" => e.roleCount = 0
  BY DEF NodeInv, Typed, Fields, CountRole
<1> HIDE DEF e
<1>2. NodeInv(e)
  BY <1>1 DEF NodeInv, Armed, Known, Pending, Fields
<1> QED
  BY <1>1, <1>2 DEF e

\* A node that has a key may be taken for registered, never for less.
LEMMA CountStatusInv ==
  ASSUME NEW d, NodeInv(d)
  PROVE  LET e == CountStatus(d) IN
         /\ NodeInv(e) /\ Same(d, e) /\ Onward(d, e)
<1> DEFINE e == CountStatus(d)
<1>1. DOMAIN d = Fields /\ d.maa \in Status /\ StatusLimit \in Nat \ {0}
      /\ d.statusCount \in 0..(StatusLimit - 1)
  BY MeterAssumption DEF NodeInv, Typed
<1>2. /\ Typed(e) /\ Same(d, e) /\ e.out = d.out
      /\ e.maa = d.maa \/ (e.maa = "complete" /\ d.maa # "none")
  BY <1>1 DEF NodeInv, Typed, Fields, CountStatus, Same, Status
<1> HIDE DEF e
<1>3. NodeInv(e)
  BY <1>2 DEF NodeInv, Armed, Known, Same, Pending
<1>4. Onward(d, e)
  BY <1>1, <1>2 DEF Onward, Status, Rank
<1> QED
  BY <1>2, <1>3, <1>4 DEF e

\* The counts of a power failure leave the registration alone.
LEMMA CountPowerInv ==
  ASSUME NEW d, NodeInv(d)
  PROVE  LET e == CountPower(d) IN
         NodeInv(e) /\ Same(d, e) /\ e.maa = d.maa
<1> DEFINE w == [d EXCEPT !.onCount = 0, !.gotOn = TRUE]
           v == [d EXCEPT !.onCount = @ + 1]
           a == IF d.off \/ ~d.npOff \/ d.gotOn THEN d
                ELSE IF d.onCount + 1 > OnLimit THEN SendDisc(w) ELSE v
           b == [a EXCEPT !.anomaly = @ + 1]
           c == [a EXCEPT !.off = FALSE, !.npOff = FALSE, !.gotOn = FALSE,
                          !.onCount = 0, !.anomaly = 0]
<1>1. CountPower(d) = IF ~(a.off \/ a.npOff) THEN a
                      ELSE IF a.anomaly + 1 < PowerLimit THEN b ELSE c
  BY DEF CountPower
<1>2. DOMAIN d = Fields /\ d.onCount \in 0..OnLimit /\ OnLimit \in Nat /\ PowerLimit \in Nat \ {0}
  BY MeterAssumption DEF NodeInv, Typed
<1>3. NodeInv(w) /\ Same(d, w) /\ w.maa = d.maa
  <2>1. Typed(w) /\ Same(d, w) /\ w.maa = d.maa /\ w.out = d.out
    BY <1>2 DEF NodeInv, Typed, Fields, Same
  <2> QED
    BY <2>1, QuietInv
<1>4. d.onCount + 1 <= OnLimit => NodeInv(v) /\ Same(d, v) /\ v.maa = d.maa
  <2>1. d.onCount + 1 <= OnLimit => Typed(v) /\ Same(d, v) /\ v.maa = d.maa /\ v.out = d.out
    BY <1>2 DEF NodeInv, Typed, Fields, Same
  <2> HIDE DEF v
  <2> QED
    BY <2>1, QuietInv
<1> HIDE DEF w, v
<1>5. NodeInv(a) /\ Same(d, a) /\ a.maa = d.maa
  <2>1. CASE d.off \/ ~d.npOff \/ d.gotOn
    BY <2>1 DEF Same
  <2>2. CASE ~(d.off \/ ~d.npOff \/ d.gotOn) /\ d.onCount + 1 > OnLimit
    <3>1. a = SendDisc(w)
      BY <2>2
    <3> HIDE DEF a
    <3>2. NodeInv(a) /\ Same(w, a) /\ \A f \in Fields \ {"out", "discFlag"} : a[f] = w[f]
      BY <1>3, <3>1, SendDiscInv
    <3>3. a.maa = w.maa
      BY <3>2 DEF Fields
    <3>4. Same(d, a)
      BY <1>3, <3>2 DEF Same
    <3> QED
      BY <1>3, <3>2, <3>3, <3>4
  <2>3. CASE ~(d.off \/ ~d.npOff \/ d.gotOn) /\ ~(d.onCount + 1 > OnLimit)
    <3>1. a = v /\ d.onCount + 1 <= OnLimit
      BY <1>2, <2>3
    <3> HIDE DEF a
    <3> QED
      BY <1>4, <3>1
  <2> QED
    BY <2>1, <2>2, <2>3
<1> HIDE DEF a
<1>6. a.anomaly + 1 < PowerLimit => NodeInv(b) /\ Same(d, b) /\ b.maa = d.maa
  <2>1. a.anomaly + 1 < PowerLimit => Typed(b) /\ Same(a, b) /\ b.maa = a.maa /\ b.out = a.out
    BY <1>2, <1>5, SMTT(30) DEF NodeInv, Typed, Fields, Same
  <2> HIDE DEF b
  <2>2. a.anomaly + 1 < PowerLimit => NodeInv(b)
    BY <1>5, <2>1, QuietInv
  <2> QED
    BY <1>5, <2>1, <2>2 DEF Same
<1>7. NodeInv(c) /\ Same(d, c) /\ c.maa = d.maa
  <2>1. Typed(c) /\ Same(a, c) /\ c.maa = a.maa /\ c.out = a.out
    <3>1. DOMAIN a = Fields
      BY <1>5 DEF NodeInv, Typed
    <3>2. /\ DOMAIN c = Fields /\ c.onCount = 0 /\ c.anomaly = 0
          /\ \A f \in Fields \ {"off", "npOff", "gotOn", "onCount", "anomaly"} : c[f] = a[f]
      BY <3>1 DEF Fields
    <3> HIDE DEF c
    <3>3. /\ c.boot = a.boot /\ c.bootCount = a.bootCount /\ c.role = a.role
          /\ c.roleCount = a.roleCount /\ c.maa = a.maa /\ c.steps = a.steps
          /\ c.timeout = a.timeout /\ c.retry = a.retry /\ c.evRegister = a.evRegister
          /\ c.maaFirst = a.maaFirst /\ c.key = a.key /\ c.stored = a.stored
          /\ c.statusCount = a.statusCount /\ c.hour = a.hour /\ c.refuse = a.refuse
          /\ c.out = a.out
      BY <3>2 DEF Fields
    <3>4. Same(a, c) /\ c.maa = a.maa /\ c.out = a.out
      BY <3>3 DEF Same
    <3>5. Typed(c)
      <4>1. Typed(a)
        BY <1>5 DEF NodeInv
      <4>2. 0 \in 0..OnLimit /\ 0 \in 0..(PowerLimit - 1)
        BY <1>2
      <4> QED
        BY <3>2, <3>3, <4>1, <4>2 DEF Typed
    <3> QED
      BY <3>4, <3>5
  <2> HIDE DEF c
  <2>2. NodeInv(c)
    BY <1>5, <2>1, QuietInv
  <2> QED
    BY <1>5, <2>1, <2>2 DEF Same
<1> HIDE DEF b, c
<1> QED
  BY <1>1, <1>5, <1>6, <1>7

\* So do the repeated requests of a registered node.
LEMMA RepeatInv ==
  ASSUME NEW d, NodeInv(d)
  PROVE  LET e == Repeat(d) IN
         NodeInv(e) /\ Same(d, e) /\ e.maa = d.maa
<1> DEFINE r == RegisterCommand(d)
           a == IF d.first THEN d ELSE [r EXCEPT !.first = TRUE, !.hour = 0]
           q == RegisterCommand(a)
           b == [a EXCEPT !.hour = @ + 1]
           c == [q EXCEPT !.hour = 0]
<1>1. Repeat(d) = IF ~(d.registerFlag /\ d.maa = "complete") THEN d
                  ELSE IF a.hour + 1 < HourLimit THEN b ELSE c
  BY DEF Repeat
<1>2. HourLimit \in Nat \ {0} /\ 0 \in 0..(HourLimit - 1)
  BY MeterAssumption
<1>3. NodeInv(r) /\ Same(d, r) /\ r.maa = d.maa
  BY RegisterCommandInv
<1> HIDE DEF r
<1>4. NodeInv(a) /\ Same(d, a) /\ a.maa = d.maa
  <2>1. CASE d.first
    BY <2>1 DEF Same
  <2>2. CASE ~d.first
    <3>1. a = [r EXCEPT !.first = TRUE, !.hour = 0]
      BY <2>2
    <3>2. Typed(a) /\ Same(r, a) /\ a.maa = r.maa /\ a.out = r.out
      BY <1>2, <1>3, <3>1 DEF NodeInv, Typed, Fields, Same
    <3> HIDE DEF a
    <3>3. NodeInv(a)
      BY <1>3, <3>2, QuietInv
    <3> QED
      BY <1>3, <3>2, <3>3 DEF Same
  <2> QED
    BY <2>1, <2>2
<1> HIDE DEF a
<1>5. NodeInv(q) /\ Same(a, q) /\ q.maa = a.maa
  BY <1>4, RegisterCommandInv
<1> HIDE DEF q
<1>6. NodeInv(c) /\ Same(d, c) /\ c.maa = d.maa
  <2>1. Typed(c) /\ Same(q, c) /\ c.maa = q.maa /\ c.out = q.out
    BY <1>2, <1>5 DEF NodeInv, Typed, Fields, Same
  <2> HIDE DEF c
  <2>2. NodeInv(c)
    BY <1>5, <2>1, QuietInv
  <2> QED
    BY <1>4, <1>5, <2>1, <2>2 DEF Same
<1>7. a.hour + 1 < HourLimit => NodeInv(b) /\ Same(d, b) /\ b.maa = d.maa
  <2>1. a.hour + 1 < HourLimit => Typed(b) /\ Same(a, b) /\ b.maa = a.maa /\ b.out = a.out
    BY <1>2, <1>4, SMTT(30) DEF NodeInv, Typed, Fields, Same
  <2> HIDE DEF b
  <2>2. a.hour + 1 < HourLimit => NodeInv(b)
    BY <1>4, <2>1, QuietInv
  <2> QED
    BY <1>4, <2>1, <2>2 DEF Same
<1> HIDE DEF b, c
<1> QED
  BY <1>1, <1>4, <1>6, <1>7 DEF Same

\* A reset forgets all but the key in flash.
LEMMA StartInv ==
  ASSUME NEW s, NEW a
  PROVE  LET e == Start(s, a) IN
         NodeInv(e) /\ e.maa = "none" /\ e.bootCount = 0 /\ e.roleCount = 0
<1> DEFINE e == Start(s, a)
           o == <<"disc1">>
<1>1. o \in Seq(Message) /\ Len(o) = 1 /\ o[1] = "disc1"
  BY DEF Message
<1> HIDE DEF o
<1>2. /\ DOMAIN e = Fields /\ e.boot = 0 /\ e.bootCount = 0 /\ e.maa = "none" /\ e.steps = 0
      /\ e.maaFirst = 0 /\ e.timeout = FirstDelay /\ e.retry = RetryTime /\ e.role = "none"
      /\ e.roleCount = 0 /\ e.statusCount = 0 /\ e.hour = 0 /\ e.onCount = 0 /\ e.anomaly = 0
      /\ e.refuse = 0 /\ e.out = o /\ e.key = FALSE
  BY DEF Start, Fields, o
<1> HIDE DEF e
<1>3. Typed(e)
  BY <1>1, <1>2, MeterAssumption DEF Typed, Done, Status
<1>4. Armed(e) /\ Known(e)
  <2>1. ~Pending(e, "auth") /\ ~Pending(e, "log")
    <3>1. \A i \in 1..1 : o[i] = "disc1"
      BY <1>1
    <3> QED
      BY <1>1, <1>2, <3>1 DEF Pending
  <2>2. ~e.key
    BY <1>2
  <2> QED
    BY <1>2, <2>1, <2>2 DEF Armed, Known, Done
<1> QED
  BY <1>2, <1>3, <1>4 DEF e, NodeInv

\* The counts that end with a reset.
Bounded(d) == d.bootCount <= BootLimit /\ d.roleCount < RoleLimit

\* TaskcheckSystemActiveFlagfunction: a reset is the one way back, and takes place
\* in the state it was asked in, as a node that asks the head end has a role and
\* all boot steps behind it.
LEMMA SecondInv ==
  ASSUME NEW d, NodeInv(d), Bounded(d)
  PROVE  LET e == Second(d) IN
         NodeInv(e) /\ Bounded(e) /\ (e = Restart(d) \/ Onward(d, e))
<1> DEFINE b == CountBoot(d)
           r == Attempt(b)
           w == CountDown(r)
           x == CountRole(w)
           s == CountStatus(x)
           p == CountPower(s)
           e == Repeat(p)
<1>1. Second(d) = Check(x)
  BY DEF Second, Then
<1>2. Check(x) = IF (x.boot # Done /\ x.bootCount > BootLimit) \/ x.roleCount >= RoleLimit
                   THEN Restart(x) ELSE e
  BY DEF Check, Then
<1>3. /\ NodeInv(b) /\ \A f \in Fields \ {"bootCount"} : b[f] = d[f]
      /\ d.boot = Done => b.bootCount = d.bootCount
  BY CountBootInv
<1> HIDE DEF b
<1>4. /\ NodeInv(r) /\ Same(b, r) /\ Onward(b, r)
      /\ r.asked = b.asked \/ (b.boot = Done /\ b.role # "none")
  <2>1. CASE b.success
    BY <1>3, <2>1, RafaelRegisterInv DEF Attempt
  <2>2. CASE ~b.success
    <3>1. b.maa \in Status
      BY <1>3 DEF NodeInv, Typed
    <3>2. Onward(b, b)
      BY <3>1, OnwardOn
    <3> QED
      BY <1>3, <2>2, <3>2 DEF Attempt, Same
  <2> QED
    BY <2>1, <2>2
<1> HIDE DEF r
<1>5. NodeInv(w) /\ \A f \in Fields \ {"timeout", "evRegister"} : w[f] = r[f]
  BY <1>4, CountDownInv
<1> HIDE DEF w
<1>6. NodeInv(x) /\ (\A f \in Fields \ {"roleCount"} : x[f] = w[f])
      /\ (w.role # "none" => x.roleCount = 0)
  BY <1>5, CountRoleInv
<1> HIDE DEF x
<1>7. /\ x.boot = d.boot /\ x.role = d.role /\ x.stored = d.stored
      /\ x.asked = d.asked \/ (d.boot = Done /\ d.role # "none")
      /\ d.boot = Done => x.bootCount = d.bootCount
      /\ d.role # "none" => x.roleCount = 0
  <2>1. b.boot = d.boot /\ b.role = d.role /\ b.stored = d.stored /\ b.asked = d.asked
    BY <1>3 DEF Fields
  <2>2. r.boot = b.boot /\ r.role = b.role /\ r.stored = b.stored /\ r.bootCount = b.bootCount
    BY <1>4 DEF Same
  <2>3. w.boot = r.boot /\ w.role = r.role /\ w.stored = r.stored /\ w.asked = r.asked
        /\ w.bootCount = r.bootCount
    BY <1>5 DEF Fields
  <2>4. x.boot = w.boot /\ x.role = w.role /\ x.stored = w.stored /\ x.asked = w.asked
        /\ x.bootCount = w.bootCount
    BY <1>6 DEF Fields
  <2> QED
    BY <1>3, <1>4, <1>6, <2>1, <2>2, <2>3, <2>4
<1>8. Onward(d, x)
  <2>1. b.maa = d.maa /\ w.maa = r.maa /\ x.maa = w.maa
    BY <1>3, <1>5, <1>6 DEF Fields
  <2> QED
    BY <1>4, <2>1 DEF Onward
<1>9. BootLimit \in Nat /\ RoleLimit \in Nat \ {0} /\ x.bootCount \in Nat /\ x.roleCount \in Nat
  BY <1>6, MeterAssumption DEF NodeInv, Typed
<1>10. CASE (x.boot # Done /\ x.bootCount > BootLimit) \/ x.roleCount >= RoleLimit
  <2>1. ~(d.boot = Done /\ d.role # "none")
    BY <1>7, <1>9, <1>10
  <2>2. Restart(x) = Restart(d)
    BY <1>7, <2>1 DEF Restart
  <2>3. Second(d) = Restart(d)
    BY <1>1, <1>2, <1>10, <2>2
  <2>4. NodeInv(Restart(d)) /\ Restart(d).bootCount = 0 /\ Restart(d).roleCount = 0
    BY StartInv DEF Restart
  <2>5. Bounded(Restart(d))
    BY <1>9, <2>4 DEF Bounded
  <2> QED
    BY <2>3, <2>4, <2>5
<1>11. CASE ~((x.boot # Done /\ x.bootCount > BootLimit) \/ x.roleCount >= RoleLimit)
  <2>1. Second(d) = e
    BY <1>1, <1>2, <1>11
  <2>2. Bounded(x)
    BY <1>7, <1>9, <1>11 DEF Bounded
  <2>3. NodeInv(s) /\ Same(x, s) /\ Onward(x, s)
    BY <1>6, CountStatusInv
  <2> HIDE DEF s
  <2>4. NodeInv(p) /\ Same(s, p) /\ p.maa = s.maa
    BY <2>3, CountPowerInv
  <2> HIDE DEF p
  <2>5. NodeInv(e) /\ Same(p, e) /\ e.maa = p.maa
    BY <2>4, RepeatInv
  <2> HIDE DEF e
  <2>6. Bounded(e)
    BY <2>2, <2>3, <2>4, <2>5 DEF Bounded, Same
  <2>7. Onward(x, e)
    BY <2>3, <2>4, <2>5 DEF Onward
  <2>8. d.maa \in Status /\ x.maa \in Status /\ e.maa \in Status
    BY <1>6, <2>5 DEF NodeInv, Typed
  <2>9. Onward(d, e)
    BY <1>8, <2>7, <2>8, OnwardOn
  <2> QED
    BY <2>1, <2>5, <2>6, <2>9
<1> QED
  BY <1>10, <1>11

-----------------------------------------------------------------------------
(* What an answer of the meter does.                                         *)

\* The node after an answer: registered no less than before, or reset.
Goes(d, e) ==
  /\ NodeInv(e)
  /\ Bounded(d) => Bounded(e)
  /\ Onward(d, e) \/ e = Restart(d)

\* A part of a handler that does not reset.
LEMMA GoesOn ==
  ASSUME NEW d, NodeInv(d), NEW e, NodeInv(e), Bounded(d) => Bounded(e), Onward(d, e)
  PROVE  Goes(d, e)
BY DEF Goes

\* A reset.
LEMMA RestartGoes == ASSUME NEW d PROVE Goes(d, Restart(d))
<1>1. NodeInv(Restart(d)) /\ Restart(d).bootCount = 0 /\ Restart(d).roleCount = 0
  BY StartInv DEF Restart
<1>2. BootLimit \in Nat /\ RoleLimit \in Nat \ {0}
  BY MeterAssumption
<1> QED
  BY <1>1, <1>2 DEF Goes, Bounded

\* The boot steps do not touch the registration; with the last of them the
\* countdown begins.
LEMMA BootStepGoes ==
  ASSUME NEW d, NodeInv(d), d.boot # Done, NEW answer
  PROVE  Goes(d, BootStep(d, answer))
<1> DEFINE next == [d EXCEPT !.boot = @ + 1]
           last == [next EXCEPT !.timeout = FirstDelay, !.evBoot = TRUE]
           e == BootStep(d, answer)
<1>1. DOMAIN d = Fields /\ d.boot \in 0..7 /\ d.maa \in Status /\ FirstDelay \in Nat \ {0}
  <2>1. DOMAIN d = Fields /\ d.boot \in 0..8 /\ d.maa \in Status
    BY DEF NodeInv, Typed, Done
  <2>2. d.boot # 8
    BY DEF Done
  <2>3. FirstDelay \in Nat \ {0}
    BY MeterAssumption
  <2> QED
    BY <2>1, <2>2, <2>3
<1>2. Onward(d, d) /\ NodeInv(d)
  BY <1>1, OnwardOn
<1>3. /\ DOMAIN next = Fields /\ next.boot = d.boot + 1
      /\ \A f \in Fields \ {"boot"} : next[f] = d[f]
  BY <1>1 DEF Fields
<1> HIDE DEF next
<1>4. d.boot # 7 => NodeInv(next)
  <2>1. Typed(next) /\ Known(next)
    BY <1>1, <1>3, SMTT(30) DEF NodeInv, Typed, Known, Pending, Fields, Done
  <2>2. d.boot # 7 => next.boot # Done
    BY <1>1, <1>3 DEF Done
  <2> QED
    BY <2>1, <2>2 DEF NodeInv, Armed
<1>5. ASSUME NEW m \in Message, m # "auth", m # "log", d.boot # 7
      PROVE  Goes(d, Transmit(next, m)) /\ Goes(d, next)
  <2>1. NodeInv(Transmit(next, m)) /\ \A f \in Fields \ {"out"} : Transmit(next, m)[f] = next[f]
    BY <1>4, <1>5, TransmitInv
  <2>2. next.maa = d.maa /\ next.bootCount = d.bootCount /\ next.roleCount = d.roleCount
    BY <1>3 DEF Fields
  <2>3. /\ Transmit(next, m).maa = d.maa /\ Transmit(next, m).bootCount = d.bootCount
        /\ Transmit(next, m).roleCount = d.roleCount
    BY <2>1, <2>2 DEF Fields
  <2>4. Onward(d, next) /\ Onward(d, Transmit(next, m))
    BY <1>2, <2>2, <2>3 DEF Onward
  <2> QED
    BY <1>4, <1>5, <2>1, <2>2, <2>3, <2>4 DEF Goes, Bounded
<1>6. Goes(d, last)
  <2>1. /\ DOMAIN last = Fields /\ last.timeout = FirstDelay /\ last.boot = d.boot + 1
        /\ \A f \in Fields \ {"boot", "timeout", "evBoot"} : last[f] = d[f]
    BY <1>3 DEF Fields
  <2> HIDE DEF last
  <2>2. Typed(last) /\ Known(last)
    <3>1. /\ last.bootCount = d.bootCount /\ last.role = d.role /\ last.roleCount = d.roleCount
          /\ last.maa = d.maa /\ last.steps = d.steps /\ last.retry = d.retry
          /\ last.maaFirst = d.maaFirst /\ last.key = d.key
          /\ last.statusCount = d.statusCount /\ last.hour = d.hour /\ last.refuse = d.refuse
          /\ last.onCount = d.onCount /\ last.anomaly = d.anomaly /\ last.out = d.out
      BY <2>1 DEF Fields
    <3>2. last.boot \in 0..Done /\ last.timeout \in Nat
      <4>1. \A n \in 0..7 : n + 1 \in 0..8
        OBVIOUS
      <4>2. d.boot + 1 \in 0..8
        BY <1>1, <4>1
      <4> QED
        BY <1>1, <2>1, <4>2 DEF Done
    <3>3. Typed(last)
      BY <2>1, <3>1, <3>2 DEF NodeInv, Typed
    <3> QED
      BY <3>1, <3>3 DEF NodeInv, Known, Pending
  <2>3. Armed(last)
    BY <1>1, <2>1 DEF Armed
  <2>4. last.maa = d.maa /\ last.bootCount = d.bootCount /\ last.roleCount = d.roleCount
    BY <2>1 DEF Fields
  <2> QED
    BY <1>2, <2>2, <2>3, <2>4 DEF Goes, NodeInv, Bounded, Onward
<1>7. Goes(d, d)
  BY <1>2 DEF Goes
<1>8. {"snrm1", "aarq1", "get"} \subseteq Message \ {"auth", "log"}
  BY DEF Message
<1> HIDE DEF last
<1>9. CASE d.boot = 0
  <2>1. e = IF answer \in {"dm1", "ua1"} THEN Transmit(next, "snrm1") ELSE next
    BY <1>9 DEF BootStep, next
  <2> QED
    BY <1>5, <1>8, <1>9, <2>1
<1>10. CASE d.boot = 1
  <2>1. e = IF answer \in From21 THEN Transmit(next, "aarq1") ELSE next
    BY <1>10 DEF BootStep, next
  <2> QED
    BY <1>5, <1>8, <1>10, <2>1
<1>11. CASE d.boot = 2
  <2>1. e = IF answer \in {"aare1", "aare"} THEN Transmit(next, "get") ELSE d
    BY <1>11 DEF BootStep, next
  <2> QED
    BY <1>5, <1>7, <1>8, <1>11, <2>1
<1>12. CASE d.boot \in 3..6
  <2>1. e = IF answer = "data" THEN Transmit(next, "get") ELSE d
    BY <1>12 DEF BootStep, next
  <2> QED
    BY <1>5, <1>7, <1>8, <1>12, <2>1
<1>13. CASE d.boot = 7
  <2>1. e = IF answer = "data" THEN last ELSE d
    BY <1>13 DEF BootStep, next, last
  <2> QED
    BY <1>6, <1>7, <2>1
<1> QED
  BY <1>1, <1>9, <1>10, <1>11, <1>12, <1>13

\* case 11: only an authentication under way makes the key the node's own.
LEMMA AcceptedGoes ==
  ASSUME NEW d, NodeInv(d), d.maaFirst # 0
  PROVE  Goes(d, Accepted(d))
<1> DEFINE a == IF d.maaFirst # 1 THEN d
                ELSE [d EXCEPT !.maa = "key", !.sst = TRUE, !.stored = d.key,
                               !.keyError = FALSE, !.steps = 2, !.maaFirst = 2]
           b == IF a.npOff THEN Transmit(a, "log") ELSE a
           e == [b EXCEPT !.mcDone = TRUE]
<1>1. Accepted(d) = e
  BY DEF Accepted
<1>2. DOMAIN d = Fields /\ d.maa \in Status /\ d.maaFirst \in {1, 2}
      /\ (d.maa = "none" <=> d.maaFirst # 2)
  BY DEF NodeInv, Typed, Known
<1>3. NodeInv(a) /\ Onward(d, a) /\ a.maa # "none"
      /\ a.bootCount = d.bootCount /\ a.roleCount = d.roleCount
  <2>1. CASE d.maaFirst # 1
    <3>1. a = d
      BY <2>1
    <3>2. Onward(d, d)
      BY <1>2, OnwardOn
    <3> QED
      BY <1>2, <2>1, <3>1, <3>2
  <2>2. CASE d.maaFirst = 1
    <3>1. a = [d EXCEPT !.maa = "key", !.sst = TRUE, !.stored = d.key,
                        !.keyError = FALSE, !.steps = 2, !.maaFirst = 2]
      BY <2>2
    <3>2. /\ DOMAIN a = Fields /\ a.maa = "key" /\ a.steps = 2 /\ a.maaFirst = 2
          /\ \A f \in Fields \ {"maa", "sst", "stored", "keyError", "steps", "maaFirst"} :
               a[f] = d[f]
      BY <1>2, <3>1 DEF Fields
    <3> HIDE DEF a
    <3>3. /\ a.boot = d.boot /\ a.bootCount = d.bootCount /\ a.role = d.role
          /\ a.roleCount = d.roleCount /\ a.timeout = d.timeout /\ a.retry = d.retry
          /\ a.statusCount = d.statusCount /\ a.hour = d.hour /\ a.onCount = d.onCount
          /\ a.anomaly = d.anomaly /\ a.refuse = d.refuse /\ a.out = d.out
      BY <3>2 DEF Fields
    <3>4. Typed(a)
      BY <3>2, <3>3 DEF NodeInv, Typed, Status
    <3>5. Armed(a) /\ Known(a)
      BY <3>2 DEF Armed, Known
    <3>6. Onward(d, a)
      BY <1>2, <2>2, <3>2 DEF Onward, Rank
    <3> QED
      BY <3>2, <3>3, <3>4, <3>5, <3>6 DEF NodeInv
  <2> QED
    BY <2>1, <2>2
<1> HIDE DEF a
<1>4. NodeInv(b) /\ Same(a, b) /\ b.maa = a.maa
  <2>1. "log" \in Message /\ "log" # "auth"
    BY DEF Message
  <2>2. NodeInv(Transmit(a, "log")) /\ Same(a, Transmit(a, "log"))
        /\ \A f \in Fields \ {"out"} : Transmit(a, "log")[f] = a[f]
    BY <1>3, <2>1, TransmitInv
  <2>3. Transmit(a, "log").maa = a.maa
    BY <2>2 DEF Fields
  <2> QED
    BY <1>3, <2>2, <2>3 DEF Same
<1> HIDE DEF b
<1>5. Typed(e) /\ Same(b, e) /\ e.maa = b.maa /\ e.out = b.out
  BY <1>4 DEF NodeInv, Typed, Fields, Same
<1> HIDE DEF e
<1>6. NodeInv(e)
  BY <1>4, <1>5, QuietInv
<1>7. Onward(d, e) /\ e.bootCount = d.bootCount /\ e.roleCount = d.roleCount
  BY <1>3, <1>4, <1>5 DEF Onward, Same
<1> QED
  BY <1>1, <1>6, <1>7 DEF Goes, Bounded

\* case 2: the log is read behind an accepted key.
LEMMA LogReadGoes ==
  ASSUME NEW d, NodeInv(d), d.maa # "none"
  PROVE  Goes(d, LogRead(d))
<1> DEFINE a == [d EXCEPT !.maa = "complete", !.npOff = FALSE, !.gotOn = FALSE, !.refuse = 0]
           b == [d EXCEPT !.refuse = 0]
<1>1. LogRead(d) \in {a, b, d}
  BY DEF LogRead
<1>2. DOMAIN d = Fields /\ d.maa \in Status
  BY DEF NodeInv, Typed
<1>3. Goes(d, d)
  BY <1>2, OnwardOn DEF Goes
<1>4. Goes(d, b)
  <2>1. Typed(b) /\ Same(d, b) /\ b.maa = d.maa /\ b.out = d.out
    BY DEF NodeInv, Typed, Fields, Same
  <2> HIDE DEF b
  <2>2. NodeInv(b)
    BY <2>1, QuietInv
  <2>3. Onward(d, b)
    BY <1>2, <2>1, OnwardOn
  <2> QED
    BY <2>1, <2>2, <2>3 DEF Goes, Bounded, Same
<1>5. Goes(d, a)
  <2>1. /\ DOMAIN a = Fields /\ a.maa = "complete" /\ a.refuse = 0
        /\ \A f \in Fields \ {"maa", "npOff", "gotOn", "refuse"} : a[f] = d[f]
    BY <1>2 DEF Fields
  <2> HIDE DEF a
  <2>2. Typed(a) /\ Same(d, a) /\ a.out = d.out
    BY <2>1, SMTT(30) DEF NodeInv, Typed, Fields, Same, Status
  <2>3. NodeInv(a)
    BY <2>1, <2>2 DEF NodeInv, Armed, Known, Same, Pending
  <2>4. Onward(d, a)
    BY <1>2, <2>1 DEF Onward, Status, Rank
  <2> QED
    BY <2>2, <2>3, <2>4 DEF Goes, Bounded, Same
<1> HIDE DEF a, b
<1> QED
  BY <1>1, <1>3, <1>4, <1>5

\* case 33: the third refusal resets the node.
LEMMA RefusedGoes ==
  ASSUME NEW d, NodeInv(d)
  PROVE  Goes(d, Refused(d))
<1> DEFINE w == [d EXCEPT !.refuse = @ + 1]
           e == SendDisc(w)
<1>1. DOMAIN d = Fields /\ d.maa \in Status /\ d.refuse \in 0..2
  BY DEF NodeInv, Typed
<1>2. CASE d.maa # "complete"
  <2>1. Onward(d, d)
    BY <1>1, OnwardOn
  <2> QED
    BY <1>2, <2>1 DEF Goes, Refused
<1>3. CASE d.maa = "complete" /\ d.refuse + 1 >= 3
  BY <1>3, RestartGoes DEF Refused
<1>4. CASE d.maa = "complete" /\ ~(d.refuse + 1 >= 3)
  <2>1. Refused(d) = e
    BY <1>4 DEF Refused
  <2>2. Typed(w) /\ Same(d, w) /\ w.maa = d.maa /\ w.out = d.out
    BY <1>1, <1>4 DEF NodeInv, Typed, Fields, Same
  <2> HIDE DEF w
  <2>3. NodeInv(w)
    BY <2>2, QuietInv
  <2>4. NodeInv(e) /\ Same(w, e) /\ \A f \in Fields \ {"out", "discFlag"} : e[f] = w[f]
    BY <2>3, SendDiscInv
  <2> HIDE DEF e
  <2>5. e.maa = d.maa
    BY <2>2, <2>4 DEF Fields
  <2>6. Onward(d, e)
    BY <1>1, <2>5, OnwardOn
  <2> QED
    BY <2>1, <2>2, <2>4, <2>6 DEF Goes, Bounded, Same
<1> QED
  BY <1>2, <1>3, <1>4

\* An event of the meter begins an authentication only where none has ended.
LEMMA NotificationGoes ==
  ASSUME NEW d, NodeInv(d)
  PROVE  Goes(d, Notification(d))
<1> DEFINE e == [d EXCEPT !.aaCheck = TRUE, !.flagMAA = FALSE, !.maaFirst = 1]
<1>1. DOMAIN d = Fields /\ d.maa \in Status
  BY DEF NodeInv, Typed
<1>2. CASE d.maa # "none"
  <2>1. Onward(d, d)
    BY <1>1, OnwardOn
  <2> QED
    BY <1>2, <2>1 DEF Goes, Notification
<1>3. CASE d.maa = "none"
  <2>1. Notification(d) = e
    BY <1>3 DEF Notification
  <2>2. /\ DOMAIN e = Fields /\ e.maaFirst = 1
        /\ \A f \in Fields \ {"aaCheck", "flagMAA", "maaFirst"} : e[f] = d[f]
    BY <1>1 DEF Fields
  <2> HIDE DEF e
  <2>3. Typed(e) /\ e.bootCount = d.bootCount /\ e.roleCount = d.roleCount /\ e.maa = d.maa
        /\ e.out = d.out
    BY <2>2, SMTT(30) DEF NodeInv, Typed, Fields
  <2>4. Armed(e)
    BY <2>2 DEF NodeInv, Armed, Fields
  <2>5. Known(e)
    BY <1>3, <2>2, <2>3 DEF NodeInv, Known, Pending
  <2>6. Onward(d, e)
    BY <1>1, <2>3, OnwardOn
  <2> QED
    BY <2>1, <2>3, <2>4, <2>5, <2>6 DEF Goes, NodeInv, Bounded
<1> QED
  BY <1>2, <1>3

\* What the meter is asked for is what it answers to.
LEMMA ReplyTo ==
  ASSUME NEW m \in Message
  PROVE  /\ Reply(m) = "accept" => m = "auth"
         /\ Reply(m) = "log" => m = "log"
<1>1. m = "disc1" => Reply(m) = "dm1"
  BY DEF Reply
<1>2. m = "snrm1" => Reply(m) = "ua1"
  BY DEF Reply
<1>3. m = "aarq1" => Reply(m) = "aare1"
  BY DEF Reply
<1>4. m = "get" => Reply(m) = "data"
  BY DEF Reply
<1>5. m = "disc" => Reply(m) \in {"dm", "ua"}
  BY DEF Reply
<1>6. m = "snrm" => Reply(m) = "ua"
  BY DEF Reply
<1>7. m = "aarq" => Reply(m) \in {"none", "aare"}
  BY DEF Reply
<1>8. m = "authBad" => Reply(m) \in {"refusal", "none"}
  BY DEF Reply
<1>9. m = "auth" => Reply(m) \in {"accept", "none"}
  BY DEF Reply
<1>10. m = "log" => Reply(m) \in {"log", "none"}
  BY DEF Reply
<1> QED
  BY <1>1, <1>2, <1>3, <1>4, <1>5, <1>6, <1>7, <1>8, <1>9, <1>10 DEF Message

\* A request more, as an answer.
LEMMA AskGoes ==
  ASSUME NEW d, NodeInv(d), NEW m \in Message,
         m = "auth" => d.maaFirst # 0, m = "log" => d.maa # "none"
  PROVE  Goes(d, Transmit(d, m))
<1>1. NodeInv(Transmit(d, m)) /\ Same(d, Transmit(d, m))
      /\ \A f \in Fields \ {"out"} : Transmit(d, m)[f] = d[f]
  BY TransmitInv
<1>2. Transmit(d, m).maa = d.maa /\ d.maa \in Status
  BY <1>1 DEF Fields, NodeInv, Typed
<1>3. Onward(d, Transmit(d, m))
  BY <1>2, OnwardOn
<1> QED
  BY <1>1, <1>3 DEF Goes, Bounded, Same

\* A flag more or less after that.
LEMMA FlagGoes ==
  ASSUME NEW d, NEW e, Goes(d, e), Onward(d, e), NEW f \in {"discFlag", "mcDone"}, NEW v
  PROVE  Goes(d, [e EXCEPT ![f] = v])
<1> DEFINE c == [e EXCEPT ![f] = v]
<1>1. Typed(c) /\ Same(e, c) /\ c.maa = e.maa /\ c.out = e.out
  BY DEF Goes, NodeInv, Typed, Fields, Same
<1> HIDE DEF c
<1>2. NodeInv(c)
  BY <1>1, QuietInv DEF Goes
<1>3. Onward(d, c)
  BY <1>1 DEF Onward
<1> QED
  BY <1>1, <1>2, <1>3 DEF Goes, Bounded, Same, c

\* udf_Meter_Process: an acceptance comes for a key that was tried, the log for one
\* that was accepted.
LEMMA ProcessGoes ==
  ASSUME NEW d, NodeInv(d), NEW answer,
         answer = "accept" => d.maaFirst # 0, answer = "log" => d.maa # "none"
  PROVE  Goes(d, Process(d, answer))
<1> DEFINE e == IF answer = "refusal" THEN [d EXCEPT !.keyError = TRUE] ELSE d
<1>r. PICK r : r = Process(d, answer)
  OBVIOUS
<1>0. SUFFICES Goes(d, r)
  BY <1>r
<1>1. NodeInv(e) /\ Same(d, e) /\ e.maa = d.maa /\ Restart(e) = Restart(d)
      /\ e.discFlag = d.discFlag /\ (answer # "refusal" => e = d)
  <2>1. Typed(e) /\ Same(d, e) /\ e.maa = d.maa /\ e.out = d.out /\ e.asked = d.asked
        /\ e.discFlag = d.discFlag /\ (answer # "refusal" => e = d)
    BY DEF NodeInv, Typed, Fields, Same
  <2> HIDE DEF e
  <2>2. Restart(e) = Restart(d)
    BY <2>1 DEF Same, Restart
  <2>3. NodeInv(e)
    BY <2>1, QuietInv
  <2> QED
    BY <2>1, <2>2, <2>3
<1>2. r = IF answer = "notice" /\ d.mcDone THEN Notification(d)
          ELSE IF d.boot # Done THEN BootStep(e, answer)
          ELSE CASE answer = "dm" \/ (answer = "ua" /\ d.discFlag) ->
                      [Transmit(e, "snrm") EXCEPT !.discFlag = FALSE]
                 [] answer = "ua" /\ ~d.discFlag -> [Transmit(e, "aarq") EXCEPT !.mcDone = TRUE]
                 [] answer = "aare" -> Transmit(e, IF d.key THEN "auth" ELSE "authBad")
                 [] answer = "accept" -> Accepted(e)
                 [] answer = "refusal" -> Refused(e)
                 [] answer = "log" -> LogRead(e)
                 [] OTHER -> e
  BY <1>r DEF Process
<1> HIDE DEF e
<1>3. ASSUME NEW x, Goes(e, x) PROVE Goes(d, x)
  BY <1>1, <1>3 DEF Goes, Bounded, Same, Onward
<1>4. d.maa \in Status /\ e.maa \in Status /\ {"snrm", "aarq", "auth", "authBad", "log"} \subseteq Message
  BY <1>1 DEF NodeInv, Typed, Message
<1>5. CASE answer = "notice" /\ d.mcDone
  BY <1>2, <1>5, NotificationGoes
<1>6. CASE ~(answer = "notice" /\ d.mcDone) /\ d.boot # Done
  <2>1. e.boot # Done
    BY <1>1, <1>6 DEF Same
  <2>2. Goes(e, BootStep(e, answer))
    BY <1>1, <2>1, BootStepGoes
  <2> QED
    BY <1>2, <1>3, <1>6, <2>2
<1>7. CASE ~(answer = "notice" /\ d.mcDone) /\ d.boot = Done
  <2>0. r = CASE answer = "dm" \/ (answer = "ua" /\ d.discFlag) ->
                      [Transmit(e, "snrm") EXCEPT !.discFlag = FALSE]
                 [] answer = "ua" /\ ~d.discFlag -> [Transmit(e, "aarq") EXCEPT !.mcDone = TRUE]
                 [] answer = "aare" -> Transmit(e, IF d.key THEN "auth" ELSE "authBad")
                 [] answer = "accept" -> Accepted(e)
                 [] answer = "refusal" -> Refused(e)
                 [] answer = "log" -> LogRead(e)
                 [] OTHER -> e
    BY <1>2, <1>7
  <2>1. ASSUME NEW m \in Message, m # "auth", m # "log"
        PROVE  Goes(e, Transmit(e, m)) /\ Onward(e, Transmit(e, m)) /\ NodeInv(Transmit(e, m))
    <3>1. NodeInv(Transmit(e, m)) /\ \A f \in Fields \ {"out"} : Transmit(e, m)[f] = e[f]
      BY <1>1, <2>1, TransmitInv
    <3>2. Transmit(e, m).maa = e.maa
      BY <3>1 DEF Fields
    <3>3. Onward(e, Transmit(e, m))
      BY <1>4, <3>2, OnwardOn
    <3> QED
      BY <1>1, <2>1, <3>1, <3>3, AskGoes
  <2>2. CASE answer = "dm" \/ (answer = "ua" /\ d.discFlag)
    <3>1. r = [Transmit(e, "snrm") EXCEPT !["discFlag"] = FALSE]
      BY <2>0, <2>2
    <3>2. Goes(e, [Transmit(e, "snrm") EXCEPT !["discFlag"] = FALSE])
      BY <1>4, <2>1, FlagGoes
    <3> QED
      BY <1>3, <3>1, <3>2
  <2>3. CASE answer = "ua" /\ ~d.discFlag
    <3>1. r = [Transmit(e, "aarq") EXCEPT !["mcDone"] = TRUE]
      BY <2>0, <2>3
    <3>2. Goes(e, [Transmit(e, "aarq") EXCEPT !["mcDone"] = TRUE])
      BY <1>4, <2>1, FlagGoes
    <3> QED
      BY <1>3, <3>1, <3>2
  <2>4. CASE answer = "aare"
    <3>1. r = Transmit(e, IF d.key THEN "auth" ELSE "authBad")
      BY <2>0, <2>4
    <3>2. CASE d.key
      <4>1. e.maaFirst # 0
        BY <1>1, <3>2 DEF NodeInv, Known, Same
      <4>2. Goes(e, Transmit(e, "auth"))
        BY <1>1, <1>4, <4>1, AskGoes
      <4> QED
        BY <1>3, <3>1, <3>2, <4>2
    <3>3. CASE ~d.key
      <4>1. Goes(e, Transmit(e, "authBad"))
        BY <1>4, <2>1
      <4> QED
        BY <1>3, <3>1, <3>3, <4>1
    <3> QED
      BY <3>2, <3>3
  <2>5. CASE answer = "accept"
    <3>1. r = Accepted(e)
      BY <2>0, <2>5
    <3>2. e.maaFirst # 0
      BY <1>1, <2>5 DEF Same
    <3> QED
      BY <1>1, <1>3, <3>1, <3>2, AcceptedGoes
  <2>6. CASE answer = "refusal"
    <3>1. r = Refused(e)
      BY <2>0, <2>6
    <3> QED
      BY <1>1, <1>3, <3>1, RefusedGoes
  <2>7. CASE answer = "log"
    <3>1. r = LogRead(e)
      BY <2>0, <2>7
    <3>2. e.maa # "none"
      BY <1>1, <2>7
    <3> QED
      BY <1>1, <1>3, <3>1, <3>2, LogReadGoes
  <2>8. CASE answer \notin {"dm", "ua", "aare", "accept", "refusal", "log"}
    <3>1. r = e
      BY <2>0, <2>8
    <3>2. Onward(e, e)
      BY <1>4, OnwardOn
    <3> QED
      BY <1>1, <1>3, <3>1, <3>2 DEF Goes
  <2> QED
    BY <2>2, <2>3, <2>4, <2>5, <2>6, <2>7, <2>8
<1> QED
  BY <1>5, <1>6, <1>7

-----------------------------------------------------------------------------
(* The steps.                                                                *)

\* A step that leaves the registration alone.
LEMMA QuietGoes ==
  ASSUME NEW d, NodeInv(d), NEW e, Typed(e),
         e.boot = d.boot, e.bootCount = d.bootCount, e.roleCount = d.roleCount,
         e.maa = d.maa, e.maaFirst = d.maaFirst, e.key = d.key,
         e.timeout = d.timeout \/ d.maa # "none", e.evRegister = d.evRegister \/ d.maa # "none",
         \A m : Pending(e, m) => Pending(d, m)
  PROVE  Goes(d, e)
<1>1. Armed(e) /\ Known(e)
  BY DEF NodeInv, Armed, Known
<1>2. Onward(d, e)
  BY OnwardOn DEF NodeInv, Typed
<1> QED
  BY <1>1, <1>2 DEF Goes, NodeInv, Bounded

\* The oldest request is answered, or lost.
LEMMA Oldest ==
  ASSUME NEW d, NodeInv(d), d.out # <<>>
  PROVE  LET e == [d EXCEPT !.out = Tail(@)] IN
         /\ Goes(d, e) /\ Restart(e) = Restart(d)
         /\ e.maa = d.maa /\ e.maaFirst = d.maaFirst
         /\ Head(d.out) \in Message /\ Pending(d, Head(d.out))
<1> DEFINE e == [d EXCEPT !.out = Tail(@)]
<1>1. DOMAIN d = Fields /\ d.out \in Seq(Message)
  BY DEF NodeInv, Typed
<1>2. /\ DOMAIN e = Fields /\ e.out = Tail(d.out)
      /\ \A f \in Fields \ {"out"} : e[f] = d[f]
  BY <1>1 DEF Fields
<1> HIDE DEF e
<1>3. /\ e.out \in Seq(Message) /\ Head(d.out) \in Message /\ Pending(d, Head(d.out))
      /\ \A m : Pending(e, m) => Pending(d, m)
  BY <1>1, <1>2, TailPending DEF Pending
<1>4. Typed(e)
  BY <1>2, <1>3 DEF NodeInv, Typed, Fields
<1>5. /\ e.boot = d.boot /\ e.bootCount = d.bootCount /\ e.roleCount = d.roleCount
      /\ e.maa = d.maa /\ e.maaFirst = d.maaFirst /\ e.key = d.key
      /\ e.timeout = d.timeout /\ e.evRegister = d.evRegister
      /\ e.stored = d.stored /\ e.asked = d.asked
  BY <1>2 DEF Fields
<1>6. Goes(d, e)
  BY <1>3, <1>4, <1>5, QuietGoes
<1> QED
  BY <1>3, <1>5, <1>6 DEF e, Restart

\* A handler behind a step that leaves what a reset starts from.
LEMMA GoesFrom ==
  ASSUME NEW d, NEW e, Goes(d, e), e.maa = d.maa, Restart(e) = Restart(d), NEW f, Goes(e, f)
  PROVE  Goes(d, f)
BY DEF Goes, Onward

\* EVENT_METER_BOOT_STEP begins an authentication only where none has ended.
LEMMA BootEventGoes ==
  ASSUME NodeInv(dev), BootEvent
  PROVE  Goes(dev, dev')
<1> DEFINE d == [dev EXCEPT !.evBoot = FALSE]
           a == [d EXCEPT !.key = d.stored, !.maaFirst = 1]
           e == AutoMAA(a)
<1>1. DOMAIN dev = Fields /\ dev.maa \in Status
  BY DEF NodeInv, Typed
<1>2. DOMAIN d = Fields /\ \A f \in Fields \ {"evBoot"} : d[f] = dev[f]
  BY <1>1 DEF Fields
<1>3. dev' = IF d.maa = "none" THEN e ELSE d
  BY DEF BootEvent
<1> HIDE DEF d
<1>4. d.maa = dev.maa
  BY <1>2 DEF Fields
<1>5. CASE dev.maa # "none"
  <2>1. Typed(d)
    BY <1>2 DEF NodeInv, Typed, Fields
  <2>2. /\ d.boot = dev.boot /\ d.bootCount = dev.bootCount /\ d.roleCount = dev.roleCount
        /\ d.maa = dev.maa /\ d.maaFirst = dev.maaFirst /\ d.key = dev.key
        /\ d.timeout = dev.timeout /\ d.evRegister = dev.evRegister /\ d.out = dev.out
    BY <1>2 DEF Fields
  <2>3. Goes(dev, d)
    BY <2>1, <2>2, QuietGoes DEF Pending
  <2> QED
    BY <1>3, <1>4, <1>5, <2>3
<1>6. CASE dev.maa = "none"
  <2>1. /\ DOMAIN a = Fields /\ a.maaFirst = 1
        /\ \A f \in Fields \ {"evBoot", "key", "maaFirst"} : a[f] = dev[f]
    BY <1>2 DEF Fields
  <2> HIDE DEF a
  <2>2. Typed(a)
    BY <2>1, SMTT(30) DEF NodeInv, Typed, Fields
  <2>3. /\ a.boot = dev.boot /\ a.bootCount = dev.bootCount /\ a.roleCount = dev.roleCount
        /\ a.maa = dev.maa /\ a.out = dev.out
        /\ a.timeout = dev.timeout /\ a.evRegister = dev.evRegister
    BY <2>1 DEF Fields
  <2>4. NodeInv(a)
    BY <1>6, <2>1, <2>2, <2>3 DEF NodeInv, Armed, Known, Pending
  <2>5. NodeInv(e) /\ Same(a, e) /\ \A f \in Fields \ {"out", "discFlag", "flagMAA"} : e[f] = a[f]
    BY <2>4, AutoMAAInv
  <2> HIDE DEF e
  <2>6. e.maa = dev.maa
    BY <2>3, <2>5 DEF Fields
  <2>7. Onward(dev, e)
    BY <1>1, <2>6, OnwardOn
  <2>8. Goes(dev, e)
    BY <2>3, <2>5, <2>7 DEF Goes, Bounded, Same
  <2> QED
    BY <1>3, <1>4, <1>6, <2>8
<1> QED
  BY <1>5, <1>6

\* Retry_Register_task arms the countdown anew while the node waits for a key.
LEMMA RegisterEventGoes ==
  ASSUME NodeInv(dev), RegisterEvent
  PROVE  Goes(dev, dev')
<1> DEFINE d == [dev EXCEPT !.evRegister = FALSE]
           a == [d EXCEPT !.timeout = 0]
           r == RegisterCommand(d)
           e == [r EXCEPT !.timeout = d.retry]
<1>1. DOMAIN dev = Fields /\ dev.maa \in Status /\ dev.retry \in Nat \ {0}
  BY DEF NodeInv, Typed
<1>2. DOMAIN d = Fields /\ \A f \in Fields \ {"evRegister"} : d[f] = dev[f]
  BY <1>1 DEF Fields
<1>3. dev' = IF d.maa # "none" THEN a ELSE e
  BY DEF RegisterEvent
<1> HIDE DEF d
<1>4. d.maa = dev.maa /\ d.retry = dev.retry
  BY <1>2 DEF Fields
<1>5. CASE dev.maa # "none"
  <2>1. /\ DOMAIN a = Fields /\ a.timeout = 0
        /\ \A f \in Fields \ {"evRegister", "timeout"} : a[f] = dev[f]
    BY <1>2 DEF Fields
  <2> HIDE DEF a
  <2>2. Typed(a)
    BY <2>1, SMTT(30) DEF NodeInv, Typed, Fields
  <2>3. /\ a.boot = dev.boot /\ a.bootCount = dev.bootCount /\ a.roleCount = dev.roleCount
        /\ a.maa = dev.maa /\ a.maaFirst = dev.maaFirst /\ a.key = dev.key /\ a.out = dev.out
    BY <2>1 DEF Fields
  <2>4. Goes(dev, a)
    BY <1>5, <2>2, <2>3, QuietGoes DEF Pending
  <2> QED
    BY <1>3, <1>4, <1>5, <2>4
<1>6. CASE dev.maa = "none"
  <2>1. /\ DOMAIN e = Fields /\ e.timeout = dev.retry /\ e.steps = 2
        /\ \A f \in Fields \ {"evRegister", "timeout", "asked", "steps"} : e[f] = dev[f]
    BY <1>2, <1>4 DEF RegisterCommand, Fields
  <2> HIDE DEF e
  <2>2. Typed(e)
    BY <1>1, <2>1 DEF NodeInv, Typed, Fields
  <2>3. /\ e.boot = dev.boot /\ e.bootCount = dev.bootCount /\ e.roleCount = dev.roleCount
        /\ e.maa = dev.maa /\ e.maaFirst = dev.maaFirst /\ e.key = dev.key /\ e.out = dev.out
    BY <2>1 DEF Fields
  <2>4. Armed(e) /\ Known(e)
    BY <1>1, <2>1, <2>3 DEF NodeInv, Armed, Known, Pending
  <2>5. Onward(dev, e)
    BY <1>1, <2>3, OnwardOn
  <2>6. Goes(dev, e)
    BY <2>2, <2>3, <2>4, <2>5 DEF Goes, NodeInv, Bounded
  <2> QED
    BY <1>3, <1>4, <1>6, <2>6
<1> QED
  BY <1>5, <1>6

\* A key is tried only while the node waits for one.
LEMMA TakeKeyGoes ==
  ASSUME NEW d, NodeInv(d), NEW k
  PROVE  Goes(d, TakeKey(d, k)) /\ Onward(d, TakeKey(d, k))
<1> DEFINE a == [d EXCEPT !.sst = TRUE, !.aaCheck = TRUE, !.flagMAA = FALSE,
                          !.maaFirst = 1, !.key = k, !.a2 = TRUE]
           b == [a EXCEPT !.retry = LateRetry]
           c == [d EXCEPT !.registerFlag = FALSE, !.a2 = TRUE]
<1>1. TakeKey(d, k) = IF d.maa = "none" /\ ~d.a2 THEN a
                      ELSE IF d.maa = "none" /\ d.keyError THEN b ELSE c
  BY DEF TakeKey
<1>2. DOMAIN d = Fields /\ d.maa \in Status
  BY DEF NodeInv, Typed
<1>3. LateRetry \in Nat \ {0}
  BY MeterAssumption
<1>4. /\ DOMAIN a = Fields /\ a.maaFirst = 1
      /\ \A f \in Fields \ {"sst", "aaCheck", "flagMAA", "maaFirst", "key", "a2"} : a[f] = d[f]
  BY <1>2 DEF Fields
<1> HIDE DEF a
<1>5. /\ DOMAIN b = Fields /\ b.maaFirst = 1 /\ b.retry = LateRetry
      /\ \A f \in Fields \ {"sst", "aaCheck", "flagMAA", "maaFirst", "key", "a2", "retry"} :
           b[f] = d[f]
  BY <1>4 DEF Fields
<1> HIDE DEF b
<1>6. ASSUME d.maa = "none", NEW e, DOMAIN e = Fields, e.maaFirst = 1, e.retry \in Nat \ {0},
             \A f \in Fields \ {"sst", "aaCheck", "flagMAA", "maaFirst", "key", "a2", "retry"} :
               e[f] = d[f]
      PROVE  Goes(d, e) /\ Onward(d, e)
  <2>1. /\ e.boot = d.boot /\ e.bootCount = d.bootCount /\ e.role = d.role
        /\ e.roleCount = d.roleCount /\ e.maa = d.maa /\ e.steps = d.steps
        /\ e.timeout = d.timeout /\ e.statusCount = d.statusCount /\ e.hour = d.hour
        /\ e.onCount = d.onCount /\ e.anomaly = d.anomaly /\ e.refuse = d.refuse
        /\ e.evRegister = d.evRegister /\ e.out = d.out
    BY <1>6 DEF Fields
  <2>2. Typed(e)
    BY <1>6, <2>1 DEF NodeInv, Typed
  <2>3. Armed(e) /\ Known(e)
    BY <1>6, <2>1 DEF NodeInv, Armed, Known, Pending
  <2>4. Onward(d, e)
    BY <1>2, <2>1, OnwardOn
  <2> QED
    BY <2>1, <2>2, <2>3, <2>4 DEF Goes, NodeInv, Bounded
<1>7. a.retry \in Nat \ {0}
  BY <1>4 DEF NodeInv, Typed, Fields
<1>8. Goes(d, c) /\ Onward(d, c)
  <2>1. Typed(c)
    BY <1>2 DEF NodeInv, Typed, Fields
  <2>2. /\ c.boot = d.boot /\ c.bootCount = d.bootCount /\ c.roleCount = d.roleCount
        /\ c.maa = d.maa /\ c.maaFirst = d.maaFirst /\ c.key = d.key
        /\ c.timeout = d.timeout /\ c.evRegister = d.evRegister /\ c.out = d.out
    BY <1>2 DEF Fields
  <2> HIDE DEF c
  <2>3. Goes(d, c)
    BY <2>1, <2>2, QuietGoes DEF Pending
  <2> QED
    BY <1>2, <2>2, <2>3, OnwardOn
<1> HIDE DEF c
<1>9. CASE d.maa = "none" /\ ~d.a2
  <2>1. Goes(d, a) /\ Onward(d, a)
    BY <1>4, <1>6, <1>7, <1>9
  <2> QED
    BY <1>1, <1>9, <2>1
<1>10. CASE d.maa = "none" /\ d.a2 /\ d.keyError
  <2>1. Goes(d, b) /\ Onward(d, b)
    BY <1>3, <1>5, <1>6, <1>10
  <2> QED
    BY <1>1, <1>10, <2>1
<1>11. CASE d.maa # "none" \/ (d.a2 /\ ~d.keyError)
  BY <1>1, <1>8, <1>11
<1> QED
  BY <1>9, <1>10, <1>11

\* An answer of the head end arrives: the request is done.
LEMMA HeadEndGoes ==
  ASSUME NodeInv(dev), NEW k, HeadEndAnswers(k)
  PROVE  Goes(dev, dev')
<1> DEFINE d == [dev EXCEPT !.asked = FALSE]
<1>1. DOMAIN dev = Fields /\ dev.maa \in Status
  BY DEF NodeInv, Typed
<1>2. dev' = TakeKey(d, k)
  BY DEF HeadEndAnswers
<1>3. Goes(dev, d) /\ d.maa = dev.maa /\ d.maa \in Status
  <2>1. DOMAIN d = Fields /\ \A f \in Fields \ {"asked"} : d[f] = dev[f]
    BY <1>1 DEF Fields
  <2> HIDE DEF d
  <2>2. Typed(d)
    BY <2>1 DEF NodeInv, Typed, Fields
  <2>3. /\ d.boot = dev.boot /\ d.bootCount = dev.bootCount /\ d.roleCount = dev.roleCount
        /\ d.maa = dev.maa /\ d.maaFirst = dev.maaFirst /\ d.key = dev.key
        /\ d.timeout = dev.timeout /\ d.evRegister = dev.evRegister /\ d.out = dev.out
    BY <2>1 DEF Fields
  <2> QED
    BY <1>1, <2>2, <2>3, QuietGoes DEF Pending
<1> HIDE DEF d
<1>4. Goes(d, dev') /\ Onward(d, dev')
  <2>1. NodeInv(d)
    BY <1>3 DEF Goes
  <2> QED
    BY <1>2, <2>1, TakeKeyGoes
<1> QED
  BY <1>3, <1>4 DEF Goes, Onward

\* What the timer of one second does.
LEMMA TickGoes ==
  ASSUME NodeInv(dev), Bounded(dev), Tick
  PROVE  Goes(dev, dev')
<1>1. dev' = Second(dev)
  BY DEF Tick
<1>2. PICK e : e = Second(dev)
  OBVIOUS
<1>3. NodeInv(e) /\ Bounded(e) /\ (e = Restart(dev) \/ Onward(dev, e))
  BY <1>2, SecondInv
<1> QED
  BY <1>1, <1>2, <1>3 DEF Goes

\* udf_Meter_Process on an answer: a key is accepted only while the authentication
\* is under way, and a log comes only behind an accepted key, for what was asked
\* for under these conditions is answered under them.
LEMMA AnswerGoes ==
  ASSUME NodeInv(dev), MeterAnswers
  PROVE  Goes(dev, dev')
<1> DEFINE m == Head(dev.out)
           d == [dev EXCEPT !.out = Tail(@)]
<1>1. dev.out # <<>> /\ dev' = IF Reply(m) = "none" THEN d ELSE Process(d, Reply(m))
  BY DEF MeterAnswers
<1>2. /\ Goes(dev, d) /\ Restart(d) = Restart(dev)
      /\ d.maa = dev.maa /\ d.maaFirst = dev.maaFirst
      /\ m \in Message /\ Pending(dev, m)
  BY <1>1, Oldest
<1>3. /\ Reply(m) = "accept" => d.maaFirst # 0
      /\ Reply(m) = "log" => d.maa # "none"
  BY <1>2, ReplyTo DEF NodeInv, Known
<1> HIDE DEF d
<1>4. Goes(d, Process(d, Reply(m)))
  BY <1>2, <1>3, ProcessGoes DEF Goes
<1> QED
  BY <1>1, <1>2, <1>4, GoesFrom

\* An event of the meter starts the authentication only where none has ended.
LEMMA NotifyGoes ==
  ASSUME NodeInv(dev), MeterNotifies
  PROVE  Goes(dev, dev')
<1>1. dev' = Process(dev, "notice")
  BY DEF MeterNotifies
<1> QED
  BY <1>1, ProcessGoes

\* What the environment does leaves the registration alone.
LEMMA EnvironmentGoes ==
  ASSUME NodeInv(dev), LoseRequest \/ Attach \/ Detach \/ PowerPin \/ UNCHANGED vars
  PROVE  Goes(dev, dev')
<1>1. DOMAIN dev = Fields
  BY DEF NodeInv, Typed
<1>2. PICK e : e = dev'
  OBVIOUS
<1>3. /\ DOMAIN e = Fields
      /\ e.boot = dev.boot /\ e.bootCount = dev.bootCount /\ e.roleCount = dev.roleCount
      /\ e.maa = dev.maa /\ e.maaFirst = dev.maaFirst /\ e.key = dev.key
      /\ e.timeout = dev.timeout /\ e.evRegister = dev.evRegister /\ e.out = dev.out
      /\ e.steps = dev.steps /\ e.retry = dev.retry /\ e.statusCount = dev.statusCount
      /\ e.hour = dev.hour /\ e.refuse = dev.refuse
  <2>1. CASE LoseRequest
    <3>1. e = [dev EXCEPT !.asked = FALSE]
      BY <1>2, <2>1 DEF LoseRequest
    <3> QED
      BY <1>1, <3>1 DEF Fields
  <2>2. CASE Attach
    <3>1. \E r \in Roles : e = [dev EXCEPT !.role = r, !.success = TRUE]
      BY <1>2, <2>2 DEF Attach
    <3> QED
      BY <1>1, <3>1 DEF Fields
  <2>3. CASE Detach
    <3>1. e = [dev EXCEPT !.role = "none"]
      BY <1>2, <2>3 DEF Detach
    <3> QED
      BY <1>1, <3>1 DEF Fields
  <2>4. CASE PowerPin
    <3>1. e = [dev EXCEPT !.off = ~@, !.npOff = dev.off, !.gotOn = FALSE,
                           !.onCount = 0, !.anomaly = 0]
      BY <1>2, <2>4 DEF PowerPin
    <3> QED
      BY <1>1, <3>1 DEF Fields
  <2>5. CASE UNCHANGED vars
    BY <1>1, <1>2, <2>5 DEF vars
  <2> QED
    BY <2>1, <2>2, <2>3, <2>4, <2>5
<1>4. e.role \in Roles \cup {"none"}
  <2>1. CASE LoseRequest
    BY <1>1, <1>2, <2>1 DEF LoseRequest, Fields, NodeInv, Typed
  <2>2. CASE Attach
    BY <1>1, <1>2, <2>2 DEF Attach, Fields
  <2>3. CASE Detach
    BY <1>1, <1>2, <2>3 DEF Detach, Fields
  <2>4. CASE PowerPin
    BY <1>1, <1>2, <2>4 DEF PowerPin, Fields, NodeInv, Typed
  <2>5. CASE UNCHANGED vars
    BY <1>2, <2>5 DEF vars, NodeInv, Typed
  <2> QED
    BY <2>1, <2>2, <2>3, <2>4, <2>5
<1>5. e.onCount \in 0..OnLimit /\ e.anomaly \in 0..(PowerLimit - 1)
  <2>1. 0 \in 0..OnLimit /\ 0 \in 0..(PowerLimit - 1)
    BY MeterAssumption
  <2>2. CASE PowerPin
    BY <1>1, <1>2, <2>1, <2>2 DEF PowerPin, Fields
  <2>3. CASE LoseRequest \/ Attach \/ Detach \/ UNCHANGED vars
    <3>1. e.onCount = dev.onCount /\ e.anomaly = dev.anomaly
      BY <1>1, <1>2, <2>3 DEF LoseRequest, Attach, Detach, vars, Fields
    <3> QED
      BY <3>1 DEF NodeInv, Typed
  <2> QED
    BY <2>2, <2>3
<1>6. Typed(e)
  BY <1>3, <1>4, <1>5 DEF NodeInv, Typed
<1>7. Goes(dev, e)
  BY <1>3, <1>6, QuietGoes DEF Pending
<1> QED
  BY <1>2, <1>7

-----------------------------------------------------------------------------
(* The theorems.                                                             *)

\* The invariant: the node between two handlers.
IInv == NodeInv(dev) /\ Bounded(dev)

\* It holds at the start.
LEMMA InitInv == Init => IInv
<1> SUFFICES ASSUME Init PROVE IInv
  OBVIOUS
<1>1. PICK stored \in BOOLEAN : dev = Start(stored, FALSE)
  BY DEF Init
<1>2. NodeInv(dev) /\ dev.bootCount = 0 /\ dev.roleCount = 0
  BY <1>1, StartInv
<1> QED
  BY <1>2, MeterAssumption DEF IInv, Bounded

\* No step of any task, of the timer, the interrupt or the environment takes the
\* registration back without a reset.
LEMMA NextGoes ==
  ASSUME IInv, [Next]_vars
  PROVE  Goes(dev, dev')
<1>1. NodeInv(dev) /\ Bounded(dev)
  BY DEF IInv
<1>2. CASE Tick
  BY <1>1, <1>2, TickGoes
<1>3. CASE MeterAnswers
  BY <1>1, <1>3, AnswerGoes
<1>4. CASE LoseFrame
  BY <1>1, <1>4, Oldest DEF LoseFrame
<1>5. CASE MeterNotifies
  BY <1>1, <1>5, NotifyGoes
<1>6. CASE BootEvent
  BY <1>1, <1>6, BootEventGoes
<1>7. CASE RegisterEvent
  BY <1>1, <1>7, RegisterEventGoes
<1>8. CASE \E k \in Keys : HeadEndAnswers(k)
  BY <1>1, <1>8, HeadEndGoes
<1>9. CASE LoseRequest \/ Attach \/ Detach \/ PowerPin \/ UNCHANGED vars
  BY <1>1, <1>9, EnvironmentGoes
<1> QED
  BY <1>2, <1>3, <1>4, <1>5, <1>6, <1>7, <1>8, <1>9 DEF Next

\* It holds in the next state.
LEMMA NextInv == IInv /\ [Next]_vars => IInv'
<1> SUFFICES ASSUME IInv, [Next]_vars PROVE IInv'
  OBVIOUS
<1>1. Goes(dev, dev')
  BY NextGoes
<1>2. NodeInv(dev') /\ Bounded(dev')
  BY <1>1 DEF Goes, IInv
<1> QED
  BY <1>2 DEF IInv, NodeInv, Typed, Armed, Known, Pending, Bounded

\* No count of TaskcheckSystemActiveFlagfunction passes the limit at which it is
\* acted on, for any limits and any order of the timer and the tasks: each is set
\* back, or ends with a reset, in the second in which it gets there.
THEOREM CountsStayBelow == Spec => []CountsBelowLimits
<1>1. IInv => CountsBelowLimits
  <2> SUFFICES ASSUME IInv PROVE CountsBelowLimits
    OBVIOUS
  <2>1. Typed(dev) /\ Bounded(dev)
    BY DEF IInv, NodeInv
  <2>2. /\ dev.bootCount \in Nat /\ dev.bootCount <= BootLimit
        /\ dev.roleCount \in Nat /\ dev.roleCount < RoleLimit
    BY <2>1 DEF Typed, Bounded
  <2>3. BootLimit \in Nat /\ RoleLimit \in Nat
    BY MeterAssumption
  <2>4. dev.bootCount \in 0..BootLimit /\ dev.roleCount \in 0..(RoleLimit - 1)
    BY <2>2, <2>3
  <2> QED
    BY <2>1, <2>4 DEF Typed, CountsBelowLimits
<1> QED
  BY <1>1, InitInv, NextInv, PTL DEF Spec

\* A node that waits for a key never stops asking: its countdown runs, or the
\* event for Retry_Register_task is raised, in every order of answers, timer,
\* interrupts and lost frames.
THEOREM RetryStaysArmed == Spec => []RetryArmed
<1>1. IInv => RetryArmed
  BY DEF IInv, NodeInv, Armed, RetryArmed
<1> QED
  BY <1>1, InitInv, NextInv, PTL DEF Spec

\* Without a reset the state of registration never goes back, whatever key comes
\* late or twice, whatever the meter reports and however power fails.
THEOREM RegistrationStays == Spec => NeverBack
<1>1. IInv /\ [Next]_vars => [dev' = Restart(dev) \/ Rank[dev'.maa] >= Rank[dev.maa]]_vars
  <2> SUFFICES ASSUME IInv, [Next]_vars
               PROVE  dev' = Restart(dev) \/ Rank[dev'.maa] >= Rank[dev.maa]
    OBVIOUS
  <2> QED
    BY NextGoes DEF Goes, Onward
<1> QED
  BY <1>1, InitInv, NextInv, PTL DEF Spec, NeverBack

-----------------------------------------------------------------------------
(* How many requests are under way.                                          *)

Weight(p) == IF p THEN 1 ELSE 0

\* Power has failed, and the pin or the timer has not cleared that.
Power(d) == d.off \/ d.npOff

\* The requests the node will still send unasked, each of them once: to
\* authenticate, behind the boot steps, for the log, and behind a failure of power.
Owed(d) == Weight(d.aaCheck /\ ~d.flagMAA) + Weight(d.evBoot) + Weight(d.firstPowerOn)
           + Weight(Power(d) /\ ~d.gotOn)

Load(d) == Len(d.out) + Owed(d)

\* The meter is asked about a failure only when power is back.
Settled(d) == d.off => ~d.gotOn

Row(d) == DOMAIN d = Fields /\ d.out \in Seq(Message)

\* A part of a handler sends n requests more than the node owed.
Sends(d, e, n) ==
  /\ Row(e) /\ Load(e) <= Load(d) + n
  /\ (Power(e) => Power(d)) /\ (Settled(d) => Settled(e))

\* What the node owes is the same.
Alike(d, e) ==
  /\ e.aaCheck = d.aaCheck /\ e.flagMAA = d.flagMAA /\ e.evBoot = d.evBoot
  /\ e.firstPowerOn = d.firstPowerOn /\ e.off = d.off /\ e.npOff = d.npOff
  /\ e.gotOn = d.gotOn

\* Every request that is owed counts once.
LEMMA LoadType ==
  ASSUME NEW d, Row(d)
  PROVE  Len(d.out) \in Nat /\ Owed(d) \in 0..4 /\ Load(d) \in Nat /\ \A p : Weight(p) \in 0..1
<1>1. \A p : Weight(p) \in 0..1
  BY DEF Weight
<1>2. Owed(d) \in 0..4
  BY <1>1 DEF Owed
<1>3. Len(d.out) \in Nat
  BY DEF Row
<1> QED
  BY <1>1, <1>2, <1>3 DEF Load

\* Nothing that counts has changed.
LEMMA AlikeOwed ==
  ASSUME NEW d, NEW e, Alike(d, e)
  PROVE  Owed(e) = Owed(d) /\ (Power(e) <=> Power(d)) /\ (Settled(e) <=> Settled(d))
BY DEF Alike, Owed, Power, Settled

\* A handler that changes nothing else sends what it adds to the requests under way.
LEMMA AlikeSends ==
  ASSUME NEW d, Row(d), NEW e, Row(e), Alike(d, e), NEW n \in Nat,
         Len(e.out) <= Len(d.out) + n
  PROVE  Sends(d, e, n)
<1>1. Owed(e) = Owed(d) /\ (Power(e) <=> Power(d)) /\ (Settled(e) <=> Settled(d))
  BY AlikeOwed
<1>2. Len(d.out) \in Nat /\ Len(e.out) \in Nat /\ Owed(d) \in 0..4
  BY LoadType
<1>3. Load(e) <= Load(d) + n
  BY <1>1, <1>2 DEF Load
<1> QED
  BY <1>1, <1>3 DEF Sends

\* What two parts of a handler send adds up.
LEMMA SendsOn ==
  ASSUME NEW d, Row(d), NEW e, NEW f, NEW m \in Nat, NEW n \in Nat,
         Sends(d, e, m), Sends(e, f, n)
  PROVE  Sends(d, f, m + n)
BY LoadType DEF Sends

\* A request that is sent.
LEMMA TransmitLoad ==
  ASSUME NEW d, Row(d), NEW m \in Message
  PROVE  LET e == Transmit(d, m) IN Row(e) /\ Alike(d, e) /\ Len(e.out) = Len(d.out) + 1
<1>1. DOMAIN d = Fields /\ d.out \in Seq(Message)
  BY DEF Row
<1>2. Len(Append(d.out, m)) = Len(d.out) + 1 /\ Append(d.out, m) \in Seq(Message)
  BY <1>1
<1> QED
  BY <1>1, <1>2 DEF Transmit, Fields, Alike, Row

\* A discovery is a request as well.
LEMMA SendDiscLoad ==
  ASSUME NEW d, Row(d)
  PROVE  LET e == SendDisc(d) IN Row(e) /\ Alike(d, e) /\ Len(e.out) = Len(d.out) + 1
<1> DEFINE c == [d EXCEPT !.discFlag = TRUE]
<1>1. Row(c) /\ Alike(d, c) /\ c.out = d.out
  BY DEF Row, Fields, Alike
<1>2. SendDisc(d) = Transmit(c, "disc") /\ "disc" \in Message
  BY DEF SendDisc, Message
<1> HIDE DEF c
<1> QED
  BY <1>1, <1>2, TransmitLoad DEF Alike

\* Auto_MAA sends what was owed, if the authentication was asked for.
LEMMA AutoMAALoad ==
  ASSUME NEW d, Row(d)
  PROVE  LET e == AutoMAA(d) IN
         /\ Row(e) /\ Len(e.out) = Len(d.out) + 1
         /\ Owed(e) = Owed(d) - Weight(d.aaCheck /\ ~d.flagMAA)
         /\ (Power(e) <=> Power(d)) /\ (Settled(e) <=> Settled(d))
<1> DEFINE c == SendDisc(d)
           e == [c EXCEPT !.flagMAA = TRUE]
<1>1. Row(c) /\ Alike(d, c) /\ Len(c.out) = Len(d.out) + 1
  BY SendDiscLoad
<1> HIDE DEF c
<1>2. DOMAIN e = Fields /\ e.flagMAA = TRUE /\ \A f \in Fields \ {"flagMAA"} : e[f] = c[f]
  BY <1>1 DEF Row, Fields
<1> HIDE DEF e
<1>3. /\ e.aaCheck = d.aaCheck /\ e.evBoot = d.evBoot
      /\ e.firstPowerOn = d.firstPowerOn /\ e.off = d.off /\ e.npOff = d.npOff
      /\ e.gotOn = d.gotOn /\ e.out = c.out
  BY <1>1, <1>2 DEF Fields, Alike
<1>4. Weight(e.aaCheck /\ ~e.flagMAA) = 0 /\ \A p : Weight(p) \in 0..1
  BY <1>2 DEF Weight
<1>5. Owed(e) = Owed(d) - Weight(d.aaCheck /\ ~d.flagMAA)
  BY <1>3, <1>4 DEF Owed, Power
<1>6. Row(e)
  BY <1>1, <1>2, <1>3 DEF Row
<1> QED
  BY <1>1, <1>3, <1>5, <1>6 DEF Power, Settled, AutoMAA, c, e

\* Rafael_Register asks for the log once, and sends an authentication that is owed.
LEMMA RafaelRegisterLoad ==
  ASSUME NEW d, Row(d)
  PROVE  Sends(d, RafaelRegister(d), 0)
<1> DEFINE asks  == d.boot = Done /\ Attached(d) /\ d.steps = 0 /\ d.maa = "none"
           acks  == d.sst /\ d.maa = "key" /\ d.steps = 2
           reads == (acks \/ d.maa = "acked") /\ d.firstPowerOn /\ Attached(d)
           auths == d.aaCheck /\ ~d.flagMAA
           asked == IF asks THEN RegisterCommand(d) ELSE d
           acked == IF acks THEN [asked EXCEPT !.sst = FALSE, !.maa = "acked"] ELSE asked
           log   == IF reads /\ ~d.npOff THEN Transmit(acked, "log") ELSE acked
           read  == [log EXCEPT !.firstPowerOn = @ /\ ~reads]
<1>1. RafaelRegister(d) = IF auths THEN AutoMAA(read) ELSE read
  BY DEF RafaelRegister
<1>2. reads => d.firstPowerOn
  OBVIOUS
<1> HIDE DEF asks, acks, reads, auths
<1>3. Row(asked) /\ Alike(d, asked) /\ asked.out = d.out
  BY DEF RegisterCommand, Row, Fields, Alike
<1> HIDE DEF asked
<1>4. Row(acked) /\ Alike(d, acked) /\ acked.out = d.out
  BY <1>3 DEF Row, Fields, Alike
<1> HIDE DEF acked
<1>5. /\ Row(log) /\ Alike(d, log) /\ Len(log.out) \in Nat /\ Len(log.out) <= Len(d.out) + 1
      /\ ~reads => Len(log.out) = Len(d.out)
  <2>1. "log" \in Message
    BY DEF Message
  <2>2. Len(d.out) \in Nat
    BY LoadType
  <2>3. CASE reads /\ ~d.npOff
    <3>1. log = Transmit(acked, "log")
      BY <2>3
    <3> HIDE DEF log
    <3>2. Row(log) /\ Alike(acked, log) /\ Len(log.out) = Len(acked.out) + 1
      BY <1>4, <2>1, <3>1, TransmitLoad
    <3> QED
      BY <1>4, <2>2, <2>3, <3>2 DEF Alike
  <2>4. CASE ~(reads /\ ~d.npOff)
    <3>1. log = acked
      BY <2>4
    <3> HIDE DEF log
    <3> QED
      BY <1>4, <2>2, <3>1
  <2> QED
    BY <2>3, <2>4
<1> HIDE DEF log
<1>6. /\ DOMAIN read = Fields /\ \A f \in Fields \ {"firstPowerOn"} : read[f] = log[f]
      /\ read.firstPowerOn <=> log.firstPowerOn /\ ~reads
  BY <1>5 DEF Row, Fields
<1> HIDE DEF read
<1>7. /\ read.aaCheck = d.aaCheck /\ read.flagMAA = d.flagMAA /\ read.evBoot = d.evBoot
      /\ read.off = d.off /\ read.npOff = d.npOff /\ read.gotOn = d.gotOn /\ read.out = log.out
      /\ read.firstPowerOn <=> d.firstPowerOn /\ ~reads
  BY <1>5, <1>6 DEF Fields, Alike
<1>8. Row(read) /\ (Power(read) <=> Power(d)) /\ (Settled(read) <=> Settled(d))
      /\ (read.aaCheck /\ ~read.flagMAA <=> auths)
  BY <1>5, <1>6, <1>7 DEF Row, Power, Settled, auths
<1>9. Weight(TRUE) = 1 /\ Weight(FALSE) = 0
  BY DEF Weight
<1>10. Owed(read) = Owed(d) - (IF reads THEN 1 ELSE 0)
  <2>1. Weight(read.firstPowerOn) = Weight(d.firstPowerOn) - (IF reads THEN 1 ELSE 0)
    BY <1>2, <1>7 DEF Weight
  <2>2. Weight(read.aaCheck /\ ~read.flagMAA) = Weight(d.aaCheck /\ ~d.flagMAA)
        /\ Weight(read.evBoot) = Weight(d.evBoot)
        /\ Weight(Power(read) /\ ~read.gotOn) = Weight(Power(d) /\ ~d.gotOn)
    BY <1>7, <1>8 DEF Weight
  <2> QED
    BY <2>1, <2>2, LoadType DEF Owed
<1>11. Sends(d, read, 0)
  <2>1. /\ Len(read.out) \in Nat /\ Len(read.out) <= Len(d.out) + 1
        /\ ~reads => Len(read.out) = Len(d.out)
    BY <1>5, <1>7
  <2>2. Len(d.out) \in Nat /\ Owed(d) \in 0..4
    BY LoadType
  <2>3. Load(read) <= Load(d) + 0
    <3>1. CASE reads
      <4>1. Owed(read) = Owed(d) - 1
        BY <1>10, <3>1
      <4> QED
        BY <2>1, <2>2, <4>1 DEF Load
    <3>2. CASE ~reads
      <4>1. Owed(read) = Owed(d) /\ Len(read.out) = Len(d.out)
        BY <1>10, <2>1, <2>2, <3>2
      <4> QED
        BY <2>2, <4>1 DEF Load
    <3> QED
      BY <3>1, <3>2
  <2> QED
    BY <1>8, <2>3 DEF Sends
<1>12. CASE auths
  <2>1. Weight(read.aaCheck /\ ~read.flagMAA) = 1
    BY <1>8, <1>12 DEF Weight
  <2>2. Sends(read, AutoMAA(read), 0)
    <3> DEFINE e == AutoMAA(read)
    <3>1. /\ Row(e) /\ Len(e.out) = Len(read.out) + 1
          /\ Owed(e) = Owed(read) - 1
          /\ (Power(e) <=> Power(read)) /\ (Settled(e) <=> Settled(read))
      BY <1>8, <2>1, AutoMAALoad
    <3>2. Len(read.out) \in Nat /\ Owed(read) \in 0..4
      BY <1>8, LoadType
    <3> HIDE DEF e
    <3>3. Load(e) <= Load(read) + 0
      BY <3>1, <3>2 DEF Load
    <3>4. Sends(read, e, 0)
      BY <3>1, <3>3 DEF Sends
    <3> QED
      BY <3>4 DEF e
  <2>3. Sends(d, AutoMAA(read), 0)
    BY <1>11, <2>2, SendsOn
  <2> QED
    BY <1>1, <1>12, <2>3
<1>13. CASE ~auths
  BY <1>1, <1>11, <1>13
<1> QED
  BY <1>12, <1>13

\* The counts of a second send nothing.
LEMMA CountsLoad ==
  ASSUME NEW d, Row(d)
  PROVE  /\ Sends(d, CountBoot(d), 0) /\ Sends(d, CountDown(d), 0) /\ Sends(d, CountRole(d), 0)
         /\ Sends(d, CountStatus(d), 0)
<1>1. Row(CountBoot(d)) /\ Alike(d, CountBoot(d)) /\ CountBoot(d).out = d.out
  BY DEF CountBoot, Row, Fields, Alike
<1>2. Row(CountDown(d)) /\ Alike(d, CountDown(d)) /\ CountDown(d).out = d.out
  BY DEF CountDown, Row, Fields, Alike
<1>3. Row(CountRole(d)) /\ Alike(d, CountRole(d)) /\ CountRole(d).out = d.out
  BY DEF CountRole, Row, Fields, Alike
<1>4. Row(CountStatus(d)) /\ Alike(d, CountStatus(d)) /\ CountStatus(d).out = d.out
  BY DEF CountStatus, Row, Fields, Alike
<1>5. \A e : Row(e) /\ Alike(d, e) /\ e.out = d.out => Sends(d, e, 0)
  BY AlikeSends, LoadType
<1> QED
  BY <1>1, <1>2, <1>3, <1>4, <1>5

\* A registered node asks the head end, not the meter.
LEMMA RepeatLoad ==
  ASSUME NEW d, Row(d)
  PROVE  Sends(d, Repeat(d), 0)
<1> DEFINE b == [RegisterCommand(d) EXCEPT !.first = TRUE, !.hour = 0]
           a == IF d.first THEN d ELSE b
           c == [RegisterCommand(a) EXCEPT !.hour = 0]
           g == [a EXCEPT !.hour = @ + 1]
<1>1. Repeat(d) \in {d, c, g}
  BY DEF Repeat
<1>2. Row(b) /\ Alike(d, b) /\ b.out = d.out
  BY DEF RegisterCommand, Row, Fields, Alike
<1>3. Alike(d, d)
  BY DEF Alike
<1> HIDE DEF b
<1>4. Row(a) /\ Alike(d, a) /\ a.out = d.out
  BY <1>2, <1>3
<1> HIDE DEF a
<1>5. Row(c) /\ Alike(d, c) /\ c.out = d.out
  BY <1>4 DEF RegisterCommand, Row, Fields, Alike
<1>6. Row(g) /\ Alike(d, g) /\ g.out = d.out
  BY <1>4 DEF Row, Fields, Alike
<1> HIDE DEF c, g
<1>7. \A e : Row(e) /\ Alike(d, e) /\ e.out = d.out => Sends(d, e, 0)
  BY AlikeSends, LoadType
<1>8. Sends(d, c, 0) /\ Sends(d, g, 0) /\ Sends(d, d, 0)
  BY <1>3, <1>5, <1>6, <1>7
<1> QED
  BY <1>1, <1>8

\* Power that is back for some time: the one request that is owed for it.
LEMMA CountPowerLoad ==
  ASSUME NEW d, Row(d)
  PROVE  Sends(d, CountPower(d), 0)
<1> DEFINE w == [d EXCEPT !.onCount = 0, !.gotOn = TRUE]
           v == [d EXCEPT !.onCount = @ + 1]
           a == IF d.off \/ ~d.npOff \/ d.gotOn THEN d
                ELSE IF d.onCount + 1 > OnLimit THEN SendDisc(w) ELSE v
           b == [a EXCEPT !.anomaly = @ + 1]
           c == [a EXCEPT !.off = FALSE, !.npOff = FALSE, !.gotOn = FALSE,
                          !.onCount = 0, !.anomaly = 0]
<1>1. CountPower(d) \in {a, b, c}
  BY DEF CountPower
<1>2. \A x : Row(x) => \A e : Row(e) /\ Alike(x, e) /\ e.out = x.out => Sends(x, e, 0)
  BY AlikeSends, LoadType
<1>3. Sends(d, d, 0)
  BY <1>2 DEF Alike
<1>4. Sends(d, v, 0)
  <2>1. Row(v) /\ Alike(d, v) /\ v.out = d.out
    BY DEF Row, Fields, Alike
  <2> HIDE DEF v
  <2> QED
    BY <1>2, <2>1
<1>5. ASSUME ~d.off, d.npOff, ~d.gotOn PROVE Sends(d, SendDisc(w), 0)
  <2>1. /\ DOMAIN w = Fields /\ w.out = d.out /\ w.gotOn = TRUE
        /\ w.aaCheck = d.aaCheck /\ w.flagMAA = d.flagMAA /\ w.evBoot = d.evBoot
        /\ w.firstPowerOn = d.firstPowerOn /\ w.off = d.off /\ w.npOff = d.npOff
    BY DEF Row, Fields
  <2> HIDE DEF w
  <2>2. Row(w) /\ Power(w) /\ Power(d) /\ Settled(w)
    BY <1>5, <2>1 DEF Row, Power, Settled
  <2>3. Weight(Power(d) /\ ~d.gotOn) = 1 /\ Weight(Power(w) /\ ~w.gotOn) = 0
    BY <1>5, <2>1, <2>2 DEF Weight
  <2>4. Owed(w) = Owed(d) - 1
    BY <2>1, <2>3, LoadType DEF Owed
  <2> DEFINE e == SendDisc(w)
  <2>5. Row(e) /\ Alike(w, e) /\ Len(e.out) = Len(w.out) + 1
    BY <2>2, SendDiscLoad
  <2> HIDE DEF e
  <2>6. Owed(e) = Owed(w) /\ (Settled(e) <=> Settled(w))
    BY <2>5, AlikeOwed
  <2>7. Len(d.out) \in Nat /\ Owed(d) \in 0..4
    BY LoadType
  <2>8. Load(e) <= Load(d) + 0
    BY <2>1, <2>4, <2>5, <2>6, <2>7 DEF Load
  <2>9. Sends(d, e, 0)
    BY <2>2, <2>5, <2>6, <2>8 DEF Sends
  <2> QED
    BY <2>9 DEF e
<1> HIDE DEF v, w
<1>6. Sends(d, a, 0)
  <2>1. CASE d.off \/ ~d.npOff \/ d.gotOn
    <3>1. a = d
      BY <2>1
    <3> QED
      BY <1>3, <3>1
  <2>2. CASE ~(d.off \/ ~d.npOff \/ d.gotOn)
    <3>1. a \in {v, SendDisc(w)}
      BY <2>2
    <3> HIDE DEF a
    <3> QED
      BY <1>4, <1>5, <2>2, <3>1
  <2> QED
    BY <2>1, <2>2
<1> HIDE DEF a
<1>7. Row(a)
  BY <1>6 DEF Sends
<1>8. Sends(a, b, 0)
  <2>1. Row(b) /\ Alike(a, b) /\ b.out = a.out
    BY <1>7 DEF Row, Fields, Alike
  <2> HIDE DEF b
  <2> QED
    BY <1>2, <1>7, <2>1
<1>9. Sends(a, c, 0)
  <2>1. /\ DOMAIN c = Fields /\ c.out = a.out /\ c.off = FALSE /\ c.npOff = FALSE
        /\ c.aaCheck = a.aaCheck /\ c.flagMAA = a.flagMAA /\ c.evBoot = a.evBoot
        /\ c.firstPowerOn = a.firstPowerOn
    BY <1>7 DEF Row, Fields
  <2> HIDE DEF c
  <2>2. Row(c) /\ ~Power(c) /\ Settled(c)
    BY <1>7, <2>1 DEF Row, Power, Settled
  <2>3. Weight(Power(c) /\ ~c.gotOn) = 0
    BY <2>2 DEF Weight
  <2>4. Owed(c) <= Owed(a) /\ Owed(c) \in Nat /\ Owed(a) \in Nat
    BY <1>7, <2>1, <2>2, <2>3, LoadType DEF Owed
  <2>5. Len(a.out) \in Nat
    BY <1>7, LoadType
  <2>6. Load(c) <= Load(a) + 0
    BY <2>1, <2>4, <2>5 DEF Load
  <2> QED
    BY <2>2, <2>6 DEF Sends
<1> HIDE DEF b, c
<1>10. Sends(d, b, 0) /\ Sends(d, c, 0)
  <2>1. 0 \in Nat /\ 0 + 0 = 0
    OBVIOUS
  <2>2. Sends(d, b, 0 + 0) /\ Sends(d, c, 0 + 0)
    BY <1>6, <1>8, <1>9, <2>1, SendsOn
  <2> QED
    BY <2>1, <2>2
<1> QED
  BY <1>1, <1>6, <1>10

\* The invariant of the requests: those of a chain, one more for an authentication, a
\* start, and one for each failure of power.
LoadInv(d, f) ==
  /\ Row(d) /\ Settled(d)
  /\ Power(d) => f > 0
  /\ Load(d) <= MaxRequests + 2 + f

\* It holds where no more is sent than was owed, and behind a reset.
LEMMA SendsInv ==
  ASSUME NEW d, NEW e, NEW f \in Nat, LoadInv(d, f), Sends(d, e, 0)
  PROVE  LoadInv(e, f)
<1>1. Load(d) \in Nat /\ Load(e) \in Nat /\ MaxRequests \in Nat
  BY LoadType, MeterAssumption DEF LoadInv, Sends
<1> QED
  BY <1>1 DEF LoadInv, Sends

\* A start asks for a discovery and owes what a start owes.
LEMMA StartLoad ==
  ASSUME NEW s, NEW a, NEW f \in Nat
  PROVE  LoadInv(Start(s, a), f)
<1> DEFINE e == Start(s, a)
           o == <<"disc1">>
<1>1. o \in Seq(Message) /\ Len(o) = 1
  BY DEF Message
<1> HIDE DEF o
<1>2. /\ DOMAIN e = Fields /\ e.out = o /\ e.aaCheck = FALSE /\ e.evBoot = FALSE
      /\ e.firstPowerOn = TRUE /\ e.off = FALSE /\ e.npOff = FALSE
  BY DEF Start, Fields, o
<1> HIDE DEF e
<1>3. Row(e) /\ ~Power(e) /\ Settled(e)
  BY <1>1, <1>2 DEF Row, Power, Settled
<1>4. Owed(e) = 1
  BY <1>2, <1>3 DEF Owed, Weight
<1>5. Load(e) <= MaxRequests + 2 + f
  <2>1. MaxRequests \in Nat /\ Len(e.out) = 1
    BY <1>1, <1>2, MeterAssumption
  <2> QED
    BY <1>4, <2>1 DEF Load
<1> QED
  BY <1>3, <1>5 DEF LoadInv, e

\* TaskcheckSystemActiveFlagfunction
LEMMA SecondLoad ==
  ASSUME NEW d, NEW f \in Nat, LoadInv(d, f)
  PROVE  LoadInv(Second(d), f)
<1> DEFINE b == CountBoot(d)
           r == Attempt(b)
           w == CountDown(r)
           x == CountRole(w)
           s == CountStatus(x)
           p == CountPower(s)
           e == Repeat(p)
<1>1. Second(d) = Check(x)
  BY DEF Second, Then
<1>2. Check(x) \in {Restart(x), e}
  BY DEF Check, Then
<1>3. LoadInv(b, f)
  BY CountsLoad, SendsInv DEF LoadInv
<1> HIDE DEF b
<1>4. LoadInv(r, f)
  BY <1>3, RafaelRegisterLoad, SendsInv DEF LoadInv, Attempt
<1> HIDE DEF r
<1>5. LoadInv(w, f)
  BY <1>4, CountsLoad, SendsInv DEF LoadInv
<1> HIDE DEF w
<1>6. LoadInv(x, f)
  BY <1>5, CountsLoad, SendsInv DEF LoadInv
<1> HIDE DEF x
<1>7. LoadInv(s, f)
  BY <1>6, CountsLoad, SendsInv DEF LoadInv
<1> HIDE DEF s
<1>8. LoadInv(p, f)
  BY <1>7, CountPowerLoad, SendsInv DEF LoadInv
<1> HIDE DEF p
<1>9. LoadInv(e, f)
  BY <1>8, RepeatLoad, SendsInv DEF LoadInv
<1> HIDE DEF e
<1>10. LoadInv(Restart(x), f)
  BY StartLoad DEF Restart
<1> QED
  BY <1>1, <1>2, <1>9, <1>10

\* An event of the meter: one authentication is owed.
LEMMA NotificationLoad ==
  ASSUME NEW d, Row(d)
  PROVE  Sends(d, Notification(d), 1)
<1> DEFINE e == [d EXCEPT !.aaCheck = TRUE, !.flagMAA = FALSE, !.maaFirst = 1]
<1>1. Notification(d) \in {d, e}
  BY DEF Notification
<1>2. Sends(d, d, 1)
  BY AlikeSends, LoadType DEF Alike
<1>3. /\ DOMAIN e = Fields /\ e.out = d.out /\ e.evBoot = d.evBoot
      /\ e.firstPowerOn = d.firstPowerOn /\ e.off = d.off /\ e.npOff = d.npOff
      /\ e.gotOn = d.gotOn
  BY DEF Row, Fields
<1> HIDE DEF e
<1>4. Row(e) /\ (Power(e) <=> Power(d)) /\ (Settled(e) <=> Settled(d))
  BY <1>3 DEF Row, Power, Settled
<1>5. Owed(e) <= Owed(d) + 1 /\ Owed(e) \in Nat /\ Owed(d) \in Nat
  BY <1>3, <1>4, LoadType DEF Owed
<1>6. Load(e) <= Load(d) + 1
  BY <1>3, <1>5, LoadType DEF Load
<1>7. Sends(d, e, 1)
  BY <1>4, <1>6 DEF Sends
<1> QED
  BY <1>1, <1>2, <1>7

\* meter_Boot_Step sends the next request, or raises the event behind the last.
LEMMA BootStepLoad ==
  ASSUME NEW d, Row(d), d.boot \in 0..7, NEW answer
  PROVE  Sends(d, BootStep(d, answer), 1)
<1> DEFINE n == [d EXCEPT !.boot = @ + 1]
           g == [n EXCEPT !.timeout = FirstDelay, !.evBoot = TRUE]
<1>1. PICK r : r = BootStep(d, answer)
  OBVIOUS
<1>2. r \in {d, n, Transmit(n, "snrm1"), Transmit(n, "aarq1"), Transmit(n, "get"), g}
  <2>1. CASE d.boot = 0
    BY <1>1, <2>1 DEF BootStep
  <2>2. CASE d.boot = 1
    BY <1>1, <2>2 DEF BootStep
  <2>3. CASE d.boot = 2
    BY <1>1, <2>3 DEF BootStep
  <2>4. CASE d.boot \in 3..6
    <3>1. d.boot # 0 /\ d.boot # 1 /\ d.boot # 2 /\ d.boot # 7
      BY <2>4
    <3> QED
      BY <1>1, <2>4, <3>1 DEF BootStep
  <2>5. CASE d.boot = 7
    <3>1. d.boot # 0 /\ d.boot # 1 /\ d.boot # 2 /\ d.boot \notin 3..6
      BY <2>5
    <3> QED
      BY <1>1, <2>5, <3>1 DEF BootStep
  <2> QED
    BY <2>1, <2>2, <2>3, <2>4, <2>5
<1>3. Row(n) /\ Alike(d, n) /\ n.out = d.out
  BY DEF Row, Fields, Alike
<1>4. Sends(d, g, 1)
  <2>1. /\ DOMAIN g = Fields /\ g.out = d.out /\ g.aaCheck = d.aaCheck /\ g.flagMAA = d.flagMAA
        /\ g.firstPowerOn = d.firstPowerOn /\ g.off = d.off /\ g.npOff = d.npOff
        /\ g.gotOn = d.gotOn
    BY DEF Row, Fields
  <2> HIDE DEF g
  <2>2. Row(g) /\ (Power(g) <=> Power(d)) /\ (Settled(g) <=> Settled(d))
    BY <2>1 DEF Row, Power, Settled
  <2>3. Owed(g) <= Owed(d) + 1 /\ Owed(g) \in Nat /\ Owed(d) \in Nat
    BY <2>1, <2>2, LoadType DEF Owed
  <2>4. Load(g) <= Load(d) + 1
    BY <2>1, <2>3, LoadType DEF Load
  <2> QED
    BY <2>2, <2>4 DEF Sends
<1> HIDE DEF n, g
<1>5. Sends(d, n, 1) /\ Sends(d, d, 1)
  BY <1>3, AlikeSends, LoadType DEF Alike
<1>6. ASSUME NEW m \in Message PROVE Sends(d, Transmit(n, m), 1)
  <2> DEFINE e == Transmit(n, m)
  <2>1. Row(e) /\ Alike(n, e) /\ Len(e.out) = Len(n.out) + 1
    BY <1>3, TransmitLoad
  <2> HIDE DEF e
  <2>2. Alike(d, e) /\ Len(e.out) <= Len(d.out) + 1
    BY <1>3, <2>1, LoadType DEF Alike
  <2>3. Sends(d, e, 1)
    BY <2>1, <2>2, AlikeSends
  <2> QED
    BY <2>3 DEF e
<1>7. {"snrm1", "aarq1", "get"} \subseteq Message
  BY DEF Message
<1> QED
  BY <1>1, <1>2, <1>4, <1>5, <1>6, <1>7

\* An accepted key: the log is asked for if power failed before.
LEMMA AcceptedLoad ==
  ASSUME NEW d, Row(d)
  PROVE  Sends(d, Accepted(d), 1)
<1> DEFINE k == [d EXCEPT !.maa = "key", !.sst = TRUE, !.stored = d.key,
                          !.keyError = FALSE, !.steps = 2, !.maaFirst = 2]
           a == IF d.maaFirst # 1 THEN d ELSE k
           g == IF a.npOff THEN Transmit(a, "log") ELSE a
           e == [g EXCEPT !.mcDone = TRUE]
<1>1. Accepted(d) = e
  BY DEF Accepted
<1>2. Row(k) /\ Alike(d, k) /\ k.out = d.out
  BY DEF Row, Fields, Alike
<1> HIDE DEF k
<1>3. Row(a) /\ Alike(d, a) /\ a.out = d.out
  BY <1>2 DEF Alike
<1> HIDE DEF a
<1>4. Row(g) /\ Alike(d, g) /\ Len(g.out) <= Len(d.out) + 1
  <2>1. CASE a.npOff
    <3>1. g = Transmit(a, "log") /\ "log" \in Message
      BY <2>1 DEF Message
    <3> HIDE DEF g
    <3>2. Row(g) /\ Alike(a, g) /\ Len(g.out) = Len(a.out) + 1
      BY <1>3, <3>1, TransmitLoad
    <3> QED
      BY <1>3, <3>2, LoadType DEF Alike
  <2>2. CASE ~a.npOff
    <3>1. g = a
      BY <2>2
    <3> HIDE DEF g
    <3> QED
      BY <1>3, <3>1, LoadType
  <2> QED
    BY <2>1, <2>2
<1> HIDE DEF g
<1>5. Row(e) /\ Alike(g, e) /\ e.out = g.out
  BY <1>4 DEF Row, Fields, Alike
<1> HIDE DEF e
<1>6. Alike(d, e) /\ Len(e.out) <= Len(d.out) + 1
  BY <1>4, <1>5 DEF Alike
<1> QED
  BY <1>1, <1>5, <1>6, AlikeSends

\* A log that was read: power is taken to be back.
LEMMA LogReadLoad ==
  ASSUME NEW d, Row(d)
  PROVE  Sends(d, LogRead(d), 1)
<1> DEFINE a == [d EXCEPT !.maa = "complete", !.npOff = FALSE, !.gotOn = FALSE, !.refuse = 0]
           b == [d EXCEPT !.refuse = 0]
<1>1. LogRead(d) \in {a, b, d}
  BY DEF LogRead
<1>2. Sends(d, b, 1) /\ Sends(d, d, 1)
  <2>1. Row(b) /\ Alike(d, b) /\ b.out = d.out
    BY DEF Row, Fields, Alike
  <2> HIDE DEF b
  <2> QED
    BY <2>1, AlikeSends, LoadType DEF Alike
<1>3. Sends(d, a, 1)
  <2>1. /\ DOMAIN a = Fields /\ a.out = d.out /\ a.aaCheck = d.aaCheck /\ a.flagMAA = d.flagMAA
        /\ a.firstPowerOn = d.firstPowerOn /\ a.off = d.off /\ a.npOff = FALSE
        /\ a.gotOn = FALSE /\ a.evBoot = d.evBoot
    BY DEF Row, Fields
  <2> HIDE DEF a
  <2>2. Row(a) /\ (Power(a) => Power(d)) /\ Settled(a)
    BY <2>1 DEF Row, Power, Settled
  <2>3. Owed(a) <= Owed(d) + 1 /\ Owed(a) \in Nat /\ Owed(d) \in Nat
    BY <2>1, <2>2, LoadType DEF Owed
  <2>4. Load(a) <= Load(d) + 1
    BY <2>1, <2>3, LoadType DEF Load
  <2> QED
    BY <2>2, <2>4 DEF Sends
<1> HIDE DEF a, b
<1> QED
  BY <1>1, <1>2, <1>3

\* A refused key.
LEMMA RefusedLoad ==
  ASSUME NEW d, Row(d)
  PROVE  Sends(d, Refused(d), 1) \/ \E x : Refused(d) = Restart(x)
<1> DEFINE c == [d EXCEPT !.refuse = @ + 1]
<1>1. Refused(d) \in {d, Restart(d), SendDisc(c)}
  BY DEF Refused
<1>2. Row(c) /\ Alike(d, c) /\ c.out = d.out
  BY DEF Row, Fields, Alike
<1> HIDE DEF c
<1>3. Sends(d, d, 1)
  BY AlikeSends, LoadType DEF Alike
<1>4. Sends(d, SendDisc(c), 1)
  <2> DEFINE e == SendDisc(c)
  <2>1. Row(e) /\ Alike(c, e) /\ Len(e.out) = Len(c.out) + 1
    BY <1>2, SendDiscLoad
  <2> HIDE DEF e
  <2>2. Alike(d, e) /\ Len(e.out) <= Len(d.out) + 1
    BY <1>2, <2>1, LoadType DEF Alike
  <2>3. Sends(d, e, 1)
    BY <2>1, <2>2, AlikeSends
  <2> QED
    BY <2>3 DEF e
<1> QED
  BY <1>1, <1>3, <1>4

\* udf_Meter_Process sends one request, or owes one, or resets.
LEMMA ProcessLoad ==
  ASSUME NEW d, Row(d), d.boot \in 0..Done, NEW answer
  PROVE  Sends(d, Process(d, answer), 1) \/ \E x : Process(d, answer) = Restart(x)
<1> DEFINE e == IF answer = "refusal" THEN [d EXCEPT !.keyError = TRUE] ELSE d
           sn == [Transmit(e, "snrm") EXCEPT !.discFlag = FALSE]
           aa == [Transmit(e, "aarq") EXCEPT !.mcDone = TRUE]
<1>1. PICK r : r = Process(d, answer)
  OBVIOUS
<1>2. Row(e) /\ Alike(d, e) /\ e.out = d.out /\ e.boot = d.boot
  BY DEF Row, Fields, Alike
<1>3. r = IF answer = "notice" /\ d.mcDone THEN Notification(d)
          ELSE IF d.boot # Done THEN BootStep(e, answer)
          ELSE CASE answer = "dm" \/ (answer = "ua" /\ d.discFlag) -> sn
                 [] answer = "ua" /\ ~d.discFlag -> aa
                 [] answer = "aare" -> Transmit(e, IF d.key THEN "auth" ELSE "authBad")
                 [] answer = "accept" -> Accepted(e)
                 [] answer = "refusal" -> Refused(e)
                 [] answer = "log" -> LogRead(e)
                 [] OTHER -> e
  BY <1>1 DEF Process
<1> HIDE DEF e, sn, aa
<1>4. \/ r = Notification(d)
      \/ (d.boot # Done /\ r = BootStep(e, answer))
      \/ r \in {sn, aa, Transmit(e, "auth"), Transmit(e, "authBad"), Accepted(e), Refused(e),
                LogRead(e), e}
  <2>1. CASE (answer = "notice" /\ d.mcDone) \/ d.boot # Done
    BY <1>3, <2>1
  <2>2. CASE ~((answer = "notice" /\ d.mcDone) \/ d.boot # Done)
    <3>1. r = CASE answer = "dm" \/ (answer = "ua" /\ d.discFlag) -> sn
                 [] answer = "ua" /\ ~d.discFlag -> aa
                 [] answer = "aare" -> Transmit(e, IF d.key THEN "auth" ELSE "authBad")
                 [] answer = "accept" -> Accepted(e)
                 [] answer = "refusal" -> Refused(e)
                 [] answer = "log" -> LogRead(e)
                 [] OTHER -> e
      BY <1>3, <2>2
    <3>2. CASE answer \in {"dm", "ua"}
      BY <3>1, <3>2
    <3>3. CASE answer = "aare"
      BY <3>1, <3>3
    <3>4. CASE answer \in {"accept", "refusal", "log"}
      BY <3>1, <3>4
    <3>5. CASE answer \notin {"dm", "ua", "aare", "accept", "refusal", "log"}
      BY <3>1, <3>5
    <3> QED
      BY <3>2, <3>3, <3>4, <3>5
  <2> QED
    BY <2>1, <2>2
<1>5. ASSUME NEW m \in Message PROVE Sends(e, Transmit(e, m), 1)
  BY <1>2, TransmitLoad, AlikeSends, LoadType
<1>6. {"snrm", "aarq", "auth", "authBad"} \subseteq Message
  BY DEF Message
<1>7. Sends(e, sn, 1) /\ Sends(e, aa, 1)
  <2>1. ASSUME NEW m \in Message, NEW f \in {"discFlag", "mcDone"}, NEW v
        PROVE  Sends(e, [Transmit(e, m) EXCEPT ![f] = v], 1)
    <3> DEFINE t == Transmit(e, m)
               u == [t EXCEPT ![f] = v]
    <3>1. Row(t) /\ Alike(e, t) /\ Len(t.out) = Len(e.out) + 1
      BY <1>2, TransmitLoad
    <3> HIDE DEF t
    <3>2. Row(u) /\ Alike(t, u) /\ u.out = t.out
      BY <2>1, <3>1 DEF Row, Fields, Alike
    <3> HIDE DEF u
    <3>3. Alike(e, u) /\ Len(u.out) <= Len(e.out) + 1
      BY <1>2, <3>1, <3>2, LoadType DEF Alike
    <3>4. Sends(e, u, 1)
      BY <1>2, <3>2, <3>3, AlikeSends
    <3> QED
      BY <3>4 DEF t, u
  <2>2. Sends(e, [Transmit(e, "snrm") EXCEPT !["discFlag"] = FALSE], 1)
        /\ Sends(e, [Transmit(e, "aarq") EXCEPT !["mcDone"] = TRUE], 1)
    BY <1>6, <2>1
  <2> QED
    BY <2>2 DEF sn, aa
<1>8. Sends(e, e, 1)
  BY <1>2, AlikeSends, LoadType DEF Alike
<1>9. d.boot # Done => Sends(e, BootStep(e, answer), 1)
  <2>1. d.boot # Done => e.boot \in 0..7
    BY <1>2 DEF Done
  <2> QED
    BY <1>2, <2>1, BootStepLoad
<1>10. \A x : Sends(e, x, 1) => Sends(d, x, 1)
  <2>1. Owed(e) = Owed(d) /\ (Power(e) <=> Power(d)) /\ (Settled(e) <=> Settled(d))
    BY <1>2, AlikeOwed
  <2>2. Load(e) = Load(d)
    BY <1>2, <2>1 DEF Load
  <2> QED
    BY <2>1, <2>2 DEF Sends
<1>11. Sends(d, r, 1) \/ \E x : r = Restart(x)
  <2>1. CASE r = Notification(d)
    BY <2>1, NotificationLoad
  <2>2. CASE d.boot # Done /\ r = BootStep(e, answer)
    BY <1>9, <1>10, <2>2
  <2>3. CASE r \in {sn, aa, Transmit(e, "auth"), Transmit(e, "authBad"), e}
    BY <1>5, <1>6, <1>7, <1>8, <1>10, <2>3
  <2>4. CASE r \in {Accepted(e), LogRead(e)}
    BY <1>2, <1>10, <2>4, AcceptedLoad, LogReadLoad
  <2>5. CASE r = Refused(e)
    BY <1>2, <1>10, <2>5, RefusedLoad
  <2> QED
    BY <1>4, <2>1, <2>2, <2>3, <2>4, <2>5
<1> QED
  BY <1>1, <1>11

\* One more is sent than was owed, with one fault more.
LEMMA SendsMore ==
  ASSUME NEW d, NEW e, NEW f \in Nat, LoadInv(d, f), Sends(d, e, 1)
  PROVE  LoadInv(e, f + 1)
<1>1. Load(d) \in Nat /\ Load(e) \in Nat /\ MaxRequests \in Nat
  BY LoadType, MeterAssumption DEF LoadInv, Sends
<1> QED
  BY <1>1 DEF LoadInv, Sends

\* Handlers that leave alone what counts.
LEMMA AlikeInv ==
  ASSUME NEW d, NEW e, NEW f \in Nat, LoadInv(d, f), Row(e), Alike(d, e), e.out = d.out
  PROVE  LoadInv(e, f) /\ LoadInv(e, f + 1)
<1>1. Sends(d, e, 0) /\ Sends(d, e, 1)
  BY AlikeSends, LoadType DEF LoadInv
<1> QED
  BY <1>1, SendsInv, SendsMore

\* The oldest request is gone.
LEMMA TailLoad ==
  ASSUME NEW d, NEW f \in Nat, LoadInv(d, f), d.out # <<>>
  PROVE  LET e == [d EXCEPT !.out = Tail(@)] IN
         /\ Row(e) /\ Alike(d, e) /\ e.boot = d.boot /\ Load(e) = Load(d) - 1 /\ LoadInv(e, f)
<1> DEFINE e == [d EXCEPT !.out = Tail(@)]
<1>1. DOMAIN d = Fields /\ d.out \in Seq(Message)
  BY DEF LoadInv, Row
<1>2. Tail(d.out) \in Seq(Message) /\ Len(Tail(d.out)) = Len(d.out) - 1 /\ Len(d.out) \in Nat
  BY <1>1
<1>3. Row(e) /\ Alike(d, e) /\ e.out = Tail(d.out) /\ e.boot = d.boot
  BY <1>1, <1>2 DEF Row, Fields, Alike
<1> HIDE DEF e
<1>4. Owed(e) = Owed(d) /\ Owed(d) \in 0..4
  BY <1>3, AlikeOwed, LoadType DEF LoadInv
<1>5. Load(e) = Load(d) - 1
  BY <1>2, <1>3, <1>4 DEF Load
<1>6. Sends(d, e, 0)
  <2>1. Row(d) /\ 0 \in Nat /\ Len(e.out) <= Len(d.out) + 0
    BY <1>2, <1>3 DEF LoadInv
  <2> QED
    BY <1>3, <2>1, AlikeSends
<1>7. LoadInv(e, f)
  BY <1>6, SendsInv
<1> QED
  BY <1>3, <1>5, <1>7 DEF e

\* What holds of the node between two handlers.
LInv == LoadInv(dev, faults) /\ faults \in 0..MaxFaults /\ link \in {"off", "linked", "open", "auth"}

\* An answer takes one request away, and causes one at most.
LEMMA AnswerLoad ==
  ASSUME IInv, LInv, MeterAnswers
  PROVE  LoadInv(dev', faults)
<1> DEFINE m == Head(dev.out)
           d == [dev EXCEPT !.out = Tail(@)]
<1>1. dev.out # <<>> /\ dev' = IF Reply(m) = "none" THEN d ELSE Process(d, Reply(m))
  BY DEF MeterAnswers
<1>2. faults \in Nat /\ dev.boot \in 0..Done
  BY MeterAssumption DEF LInv, IInv, NodeInv, Typed
<1>3. Row(d) /\ Alike(dev, d) /\ d.boot = dev.boot /\ Load(d) = Load(dev) - 1 /\ LoadInv(d, faults)
  BY <1>1, <1>2, TailLoad DEF LInv
<1> HIDE DEF d
<1>4. PICK e : e = Process(d, Reply(m))
  OBVIOUS
<1>5. CASE Sends(d, e, 1)
  <2>1. Power(d) => Power(dev)
    BY <1>3, AlikeOwed
  <2>2. Row(dev) /\ Load(dev) \in Nat /\ Load(d) \in Nat /\ Load(e) \in Nat
    BY <1>3, <1>5, LoadType DEF LInv, LoadInv, Sends
  <2>3. Sends(dev, e, 0)
    BY <1>3, <1>5, <2>1, <2>2, AlikeOwed DEF Sends
  <2>4. LoadInv(e, faults)
    BY <1>2, <2>3, SendsInv DEF LInv
  <2> QED
    BY <1>1, <1>3, <1>4, <2>4
<1>6. CASE \E x : e = Restart(x)
  <2>1. LoadInv(e, faults)
    BY <1>2, <1>6, StartLoad DEF Restart
  <2> QED
    BY <1>1, <1>3, <1>4, <2>1
<1> QED
  BY <1>2, <1>3, <1>4, <1>5, <1>6, ProcessLoad

\* An event of the meter is one of the faults.
LEMMA NotifyLoad ==
  ASSUME IInv, LInv, MeterNotifies
  PROVE  LoadInv(dev', faults')
<1>1. dev' = Process(dev, "notice") /\ faults' = faults + 1
  BY DEF MeterNotifies, Fault
<1>2. faults \in Nat /\ dev.boot \in 0..Done /\ Row(dev)
  BY MeterAssumption DEF LInv, LoadInv, IInv, NodeInv, Typed
<1>3. Sends(dev, dev', 1) \/ \E x : dev' = Restart(x)
  BY <1>1, <1>2, ProcessLoad
<1>4. CASE Sends(dev, dev', 1)
  BY <1>1, <1>2, <1>4, SendsMore DEF LInv
<1>5. CASE \E x : dev' = Restart(x)
  BY <1>1, <1>2, <1>5, StartLoad DEF Restart
<1> QED
  BY <1>3, <1>4, <1>5

\* EVENT_METER_BOOT_STEP sends the request that was owed for it.
LEMMA BootEventLoad ==
  ASSUME LInv, BootEvent
  PROVE  LoadInv(dev', faults)
<1> DEFINE d == [dev EXCEPT !.evBoot = FALSE]
           a == [d EXCEPT !.key = d.stored, !.maaFirst = 1]
           e == AutoMAA(a)
<1>1. dev' \in {d, e} /\ dev.evBoot
  BY DEF BootEvent
<1>2. Row(dev) /\ LoadInv(dev, faults) /\ faults \in Nat
  BY MeterAssumption DEF LInv, LoadInv
<1>3. /\ DOMAIN d = Fields /\ d.out = dev.out /\ d.evBoot = FALSE
      /\ d.aaCheck = dev.aaCheck /\ d.flagMAA = dev.flagMAA
      /\ d.firstPowerOn = dev.firstPowerOn /\ d.off = dev.off /\ d.npOff = dev.npOff
      /\ d.gotOn = dev.gotOn
  BY <1>2 DEF Row, Fields
<1> HIDE DEF d
<1>4. Row(d) /\ (Power(d) <=> Power(dev)) /\ (Settled(d) <=> Settled(dev))
  BY <1>2, <1>3 DEF Row, Power, Settled
<1>5. Weight(dev.evBoot) = 1 /\ Weight(d.evBoot) = 0
  BY <1>1, <1>3 DEF Weight
<1>6. Owed(d) = Owed(dev) - 1 /\ Owed(dev) \in Nat /\ Len(dev.out) \in Nat
  BY <1>2, <1>3, <1>4, <1>5, LoadType DEF Owed
<1>7. Sends(dev, d, 0)
  <2>1. Load(d) <= Load(dev) + 0
    BY <1>3, <1>6 DEF Load
  <2> QED
    BY <1>4, <2>1 DEF Sends
<1>8. Row(a) /\ Alike(d, a) /\ a.out = d.out
  BY <1>4 DEF Row, Fields, Alike
<1> HIDE DEF a
<1>9. Sends(dev, e, 0)
  <2>1. /\ Row(e) /\ Len(e.out) = Len(a.out) + 1
        /\ Owed(e) = Owed(a) - Weight(a.aaCheck /\ ~a.flagMAA)
        /\ (Power(e) <=> Power(a)) /\ (Settled(e) <=> Settled(a))
    BY <1>8, AutoMAALoad
  <2> HIDE DEF e
  <2>2. Owed(a) = Owed(d) /\ (Power(a) <=> Power(d)) /\ (Settled(a) <=> Settled(d))
        /\ Owed(d) \in Nat /\ Weight(a.aaCheck /\ ~a.flagMAA) \in 0..1
    BY <1>4, <1>8, AlikeOwed, LoadType
  <2>3. Load(e) <= Load(dev) + 0
    BY <1>3, <1>6, <1>8, <2>1, <2>2 DEF Load
  <2> QED
    BY <1>4, <2>1, <2>2, <2>3 DEF Sends
<1> HIDE DEF e
<1> QED
  BY <1>1, <1>2, <1>7, <1>9, SendsInv

\* A key from the head end: an authentication is owed, and few requests are under way.
LEMMA HeadEndLoad ==
  ASSUME LInv, NEW k \in Keys, HeadEndAnswers(k)
  PROVE  LoadInv(dev', faults)
<1> DEFINE d == [dev EXCEPT !.asked = FALSE]
<1>1. Row(dev) /\ LoadInv(dev, faults) /\ faults \in Nat /\ MaxRequests \in Nat
      /\ Len(dev.out) \in Nat /\ Len(dev.out) < MaxRequests
  BY MeterAssumption, LoadType DEF LInv, LoadInv, HeadEndAnswers
<1>2. dev' = TakeKey(d, k)
  BY DEF HeadEndAnswers
<1>3. Row(d) /\ Alike(dev, d) /\ d.out = dev.out
  BY <1>1 DEF Row, Fields, Alike
<1> HIDE DEF d
<1>4. PICK e : e = TakeKey(d, k)
  OBVIOUS
<1>5. /\ DOMAIN e = Fields /\ e.out = d.out /\ e.off = d.off /\ e.npOff = d.npOff
      /\ e.gotOn = d.gotOn
  <2> DEFINE a == [d EXCEPT !.sst = TRUE, !.aaCheck = TRUE, !.flagMAA = FALSE,
                            !.maaFirst = 1, !.key = k, !.a2 = TRUE]
             b == [a EXCEPT !.retry = LateRetry]
             c == [d EXCEPT !.registerFlag = FALSE, !.a2 = TRUE]
  <2>1. e \in {a, b, c}
    BY <1>4 DEF TakeKey
  <2>2. DOMAIN d = Fields
    BY <1>3 DEF Row
  <2>3. /\ DOMAIN a = Fields /\ a.out = d.out /\ a.off = d.off /\ a.npOff = d.npOff
        /\ a.gotOn = d.gotOn
    BY <2>2 DEF Fields
  <2>4. /\ DOMAIN c = Fields /\ c.out = d.out /\ c.off = d.off /\ c.npOff = d.npOff
        /\ c.gotOn = d.gotOn
    BY <2>2 DEF Fields
  <2> HIDE DEF a, c
  <2>5. /\ DOMAIN b = Fields /\ b.out = d.out /\ b.off = d.off /\ b.npOff = d.npOff
        /\ b.gotOn = d.gotOn
    BY <2>3 DEF Fields
  <2> HIDE DEF b
  <2> QED
    BY <2>1, <2>3, <2>4, <2>5
<1>6. Row(e) /\ (Power(e) <=> Power(dev)) /\ Settled(e) /\ e.out = dev.out
  BY <1>1, <1>3, <1>5 DEF Row, Alike, Power, Settled, LoadInv
<1>7. Weight(Power(e) /\ ~e.gotOn) <= faults
  BY <1>1, <1>6 DEF LoadInv, Weight
<1>8. \A p : Weight(p) \in 0..1
  BY <1>6, LoadType
<1>9. Owed(e) <= 3 + faults /\ Owed(e) \in Nat
  BY <1>1, <1>7, <1>8 DEF Owed
<1>10. Load(e) <= MaxRequests + 2 + faults
  BY <1>1, <1>6, <1>9 DEF Load
<1> QED
  BY <1>1, <1>2, <1>4, <1>6, <1>10 DEF LoadInv

\* The pin of the power supply: a failure is one of the faults, its end is not.
LEMMA PowerPinLoad ==
  ASSUME LInv, PowerPin
  PROVE  LoadInv(dev', faults')
<1> DEFINE e == [dev EXCEPT !.off = ~@, !.npOff = dev.off, !.gotOn = FALSE,
                            !.onCount = 0, !.anomaly = 0]
<1>1. Row(dev) /\ LoadInv(dev, faults) /\ faults \in Nat /\ MaxRequests \in Nat
  BY MeterAssumption DEF LInv, LoadInv
<1>2. dev' = e /\ faults' = IF dev.off THEN faults ELSE faults + 1
  BY DEF PowerPin, Fault
<1>3. /\ DOMAIN e = Fields /\ e.out = dev.out /\ e.evBoot = dev.evBoot
      /\ e.aaCheck = dev.aaCheck /\ e.flagMAA = dev.flagMAA
      /\ e.firstPowerOn = dev.firstPowerOn /\ (e.off <=> ~dev.off) /\ (e.npOff <=> dev.off)
      /\ e.gotOn = FALSE
  BY <1>1 DEF Row, Fields
<1> HIDE DEF e
<1>4. Row(e) /\ Power(e) /\ Settled(e)
  BY <1>1, <1>3 DEF Row, Power, Settled
<1>5. Weight(Power(e) /\ ~e.gotOn) = 1
  BY <1>3, <1>4 DEF Weight
<1>6. dev.off => Weight(Power(dev) /\ ~dev.gotOn) = 1 /\ faults > 0
  BY <1>1 DEF LoadInv, Power, Settled, Weight
<1>7. \A p : Weight(p) \in 0..1
  BY <1>4, LoadType
<1>8. /\ Owed(e) <= Owed(dev) + 1 /\ (dev.off => Owed(e) <= Owed(dev))
      /\ Owed(e) \in Nat /\ Owed(dev) \in Nat
  BY <1>3, <1>5, <1>6, <1>7 DEF Owed
<1>9. Len(dev.out) \in Nat
  BY <1>1, LoadType
<1>10. CASE dev.off
  <2>1. Load(e) <= MaxRequests + 2 + faults
    BY <1>1, <1>3, <1>8, <1>9, <1>10 DEF Load, LoadInv
  <2> QED
    BY <1>1, <1>2, <1>4, <1>6, <1>10, <2>1 DEF LoadInv
<1>11. CASE ~dev.off
  <2>1. Load(e) <= MaxRequests + 2 + (faults + 1)
    BY <1>1, <1>3, <1>8, <1>9 DEF Load, LoadInv
  <2> QED
    BY <1>1, <1>2, <1>4, <1>11, <2>1 DEF LoadInv
<1> QED
  BY <1>10, <1>11

\* Steps that ask the meter for nothing.
LEMMA QuietLoad ==
  ASSUME LInv, RegisterEvent \/ LoseRequest \/ Attach \/ Detach \/ UNCHANGED vars
  PROVE  LoadInv(dev', faults')
<1>1. LoadInv(dev, faults) /\ Row(dev) /\ faults \in Nat
  BY MeterAssumption DEF LInv, LoadInv
<1>2. PICK e : e = dev'
  OBVIOUS
<1>3. Row(e) /\ Alike(dev, e) /\ e.out = dev.out
  <2>1. CASE RegisterEvent
    <3> DEFINE d == [dev EXCEPT !.evRegister = FALSE]
               a == [d EXCEPT !.timeout = 0]
               b == [RegisterCommand(d) EXCEPT !.timeout = d.retry]
    <3>1. e \in {a, b}
      BY <1>2, <2>1 DEF RegisterEvent
    <3>2. Row(d) /\ Alike(dev, d) /\ d.out = dev.out
      BY <1>1 DEF Row, Fields, Alike
    <3> HIDE DEF d
    <3>3. Row(a) /\ Alike(d, a) /\ a.out = d.out
      BY <3>2 DEF Row, Fields, Alike
    <3>4. Row(b) /\ Alike(d, b) /\ b.out = d.out
      BY <3>2 DEF RegisterCommand, Row, Fields, Alike
    <3> HIDE DEF a, b
    <3> QED
      BY <3>1, <3>2, <3>3, <3>4 DEF Alike
  <2>2. CASE LoseRequest
    <3>1. e = [dev EXCEPT !.asked = FALSE]
      BY <1>2, <2>2 DEF LoseRequest
    <3> QED
      BY <1>1, <3>1 DEF Row, Fields, Alike
  <2>3. CASE Attach
    <3>1. \E r \in Roles : e = [dev EXCEPT !.role = r, !.success = TRUE]
      BY <1>2, <2>3 DEF Attach
    <3> QED
      BY <1>1, <3>1 DEF Row, Fields, Alike
  <2>4. CASE Detach
    <3>1. e = [dev EXCEPT !.role = "none"]
      BY <1>2, <2>4 DEF Detach
    <3> QED
      BY <1>1, <3>1 DEF Row, Fields, Alike
  <2>5. CASE UNCHANGED vars
    BY <1>1, <1>2, <2>5 DEF vars, Alike
  <2> QED
    BY <2>1, <2>2, <2>3, <2>4, <2>5
<1>4. faults' \in {faults, faults + 1}
  BY DEF RegisterEvent, LoseRequest, Attach, Detach, Fault, vars
<1> QED
  BY <1>1, <1>2, <1>3, <1>4, AlikeInv

\* The meter knows four states of the client, and the faults are bounded.
LEMMA LinkNext ==
  ASSUME LInv, [Next]_vars
  PROVE  link' \in {"off", "linked", "open", "auth"} /\ faults' \in 0..MaxFaults
<1>1. \A m : Linked(m) \in {"off", "linked", "open", "auth"}
  BY DEF Linked, LInv
<1>2. link' = link \/ \E m : link' = Linked(m)
  BY DEF Next, Tick, MeterAnswers, LoseFrame, MeterNotifies, BootEvent, RegisterEvent,
         HeadEndAnswers, LoseRequest, Attach, Detach, PowerPin, vars
<1>3. faults' = faults \/ Fault
  BY DEF Next, Tick, MeterAnswers, LoseFrame, MeterNotifies, BootEvent, RegisterEvent,
         HeadEndAnswers, LoseRequest, Attach, Detach, PowerPin, vars
<1>4. faults' \in 0..MaxFaults
  BY <1>3, MeterAssumption DEF Fault, LInv
<1> QED
  BY <1>1, <1>2, <1>4 DEF LInv

\* No step sends more requests than the bound allows.
LEMMA NextLoad == IInv /\ LInv /\ [Next]_vars => LInv'
<1> SUFFICES ASSUME IInv, LInv, [Next]_vars PROVE LInv'
  OBVIOUS
<1>1. LoadInv(dev, faults) /\ faults \in Nat
  BY MeterAssumption DEF LInv
<1>2. LoadInv(dev', faults')
  <2>1. CASE Tick
    <3>1. dev' = Second(dev) /\ faults' = faults
      BY <2>1 DEF Tick
    <3> QED
      BY <1>1, <3>1, SecondLoad
  <2>2. CASE MeterAnswers
    <3>1. faults' = faults
      BY <2>2 DEF MeterAnswers
    <3> QED
      BY <2>2, <3>1, AnswerLoad
  <2>3. CASE LoseFrame
    <3> DEFINE d == [dev EXCEPT !.out = Tail(@)]
    <3>1. dev.out # <<>> /\ dev' = d /\ faults' = faults + 1
      BY <2>3 DEF LoseFrame, Fault
    <3>2. LoadInv(d, faults)
      BY <1>1, <3>1, TailLoad
    <3> HIDE DEF d
    <3>3. LoadInv(d, faults + 1)
      BY <1>1, <3>2, AlikeInv DEF Alike, LoadInv
    <3> QED
      BY <3>1, <3>3
  <2>4. CASE MeterNotifies
    BY <2>4, NotifyLoad
  <2>5. CASE BootEvent
    <3>1. faults' = faults
      BY <2>5 DEF BootEvent
    <3> QED
      BY <2>5, <3>1, BootEventLoad
  <2>6. CASE \E k \in Keys : HeadEndAnswers(k)
    <3>1. faults' = faults
      BY <2>6 DEF HeadEndAnswers
    <3> QED
      BY <2>6, <3>1, HeadEndLoad
  <2>7. CASE PowerPin
    BY <2>7, PowerPinLoad
  <2>8. CASE RegisterEvent \/ LoseRequest \/ Attach \/ Detach \/ UNCHANGED vars
    BY <2>8, QuietLoad
  <2> QED
    BY <2>1, <2>2, <2>3, <2>4, <2>5, <2>6, <2>7, <2>8 DEF Next
<1>3. link' \in {"off", "linked", "open", "auth"} /\ faults' \in 0..MaxFaults
  BY LinkNext
<1> QED
  BY <1>2, <1>3 DEF LInv, LoadInv, Row, Load, Owed, Power, Settled

\* Every state has its types, and the meter is asked few things at a time, however
\* keys, events, failures of power and resets come together.
THEOREM TypeCorrect == Spec => []TypeOK
<1>1. Init => LInv
  <2> SUFFICES ASSUME Init PROVE LInv
    OBVIOUS
  <2>1. PICK stored \in BOOLEAN : dev = Start(stored, FALSE)
    BY DEF Init
  <2>2. faults = 0 /\ link = "off"
    BY DEF Init
  <2>3. LoadInv(dev, 0)
    BY <2>1, StartLoad
  <2> QED
    BY <2>2, <2>3, MeterAssumption DEF LInv
<1>2. IInv /\ LInv /\ CountsBelowLimits => TypeOK
  <2> SUFFICES ASSUME LInv, CountsBelowLimits PROVE TypeOK
    OBVIOUS
  <2>1. Row(dev) /\ Load(dev) <= MaxRequests + 2 + faults /\ faults <= MaxFaults /\ faults \in Nat
    BY MeterAssumption DEF LInv, LoadInv
  <2>2. MaxRequests \in Nat /\ MaxFaults \in Nat
    BY MeterAssumption
  <2>3. Len(dev.out) <= MaxRequests + MaxFaults + 2
    BY <2>1, <2>2, LoadType DEF Load
  <2> QED
    BY <2>3 DEF TypeOK, LInv
<1> QED
  BY <1>1, <1>2, InitInv, NextInv, NextLoad, CountsStayBelow, PTL DEF Spec
==============================================================================
