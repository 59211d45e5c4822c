--------------------------- MODULE MeterRegistration ---------------------------
(* A node of das_dlms_cmd.c between its meter and the head end: it reads the  *)
(* meter's identity after a start, asks the head end for a key, authenticates *)
(* with the meter, acknowledges, and reads the log of power failures, after   *)
(* which it is registered.  A timer of one second drives it, answers of the   *)
(* meter and commands of the head end are handled by the task app_task, and   *)
(* power failures come as interrupts.  The meter and the head end belong to   *)
(* the environment.                                                           *)
EXTENDS Integers, Sequences

CONSTANTS BootLimit,    \* seconds for the boot steps (10)
          FirstDelay,   \* Register_Timeout after Broadcast_delay
          RetryTime,    \* registerRetrytime, in seconds
          LateRetry,    \* the same after a second key (3600)
          StatusLimit,  \* keyObtainedStatusIncorrecttimeout (300)
          RoleLimit,    \* Rafael_reset, in seconds
          HourLimit,    \* until a registration is repeated (3600)
          OnLimit,      \* power must be back for so long (10)
          PowerLimit,   \* power flags are cleared after so long (300)
          Keys,         \* keys the head end sends: TRUE is the meter's
          Roles,        \* roles a node can get in the mesh
          MaxWait,      \* the meter answers within so many seconds
          MaxRequests,  \* bound: requests under way when another chain begins
          MaxFaults     \* bound: frames lost between node and meter, events
                        \* of the meter, lost roles and failures of power

ASSUME MeterAssumption ==
  /\ {BootLimit, FirstDelay, RetryTime, LateRetry, StatusLimit, RoleLimit,
      HourLimit, OnLimit, PowerLimit, MaxWait, MaxRequests} \subseteq Nat \ {0}
  /\ MaxFaults \in Nat
  /\ Keys \subseteq BOOLEAN
  /\ Roles \subseteq {"child", "router", "leader"}

VARIABLES
  dev,     \* what the node holds in RAM and flash, and has sent to the meter
  link,    \* the meter's view of the management client
  wait,    \* seconds since the meter's last answer
  lost,    \* a frame between node and meter was lost
  faults

vars == <<dev, link, wait, lost, faults>>

\* meterBootStep counts DISC, SNRM, AARQ, the four identities and the time.
Done == 8

Status == {"none", "key", "acked", "complete"}

\* STATUS_NOT_OBTAINED_KEY to STATUS_REGISTRATION_COMPLETE are 0 to 3.
Rank == [none |-> 0, key |-> 1, acked |-> 2, complete |-> 3]

\* The state after a reset: "stored" is in flash, and a request to the head end
\* may still be answered.
Start(stored, asked) ==
  [boot |-> 0, bootCount |-> 0,
   role |-> "none", success |-> FALSE, roleCount |-> 0,
   maa |-> "none", steps |-> 0, timeout |-> FirstDelay, retry |-> RetryTime,
   sst |-> FALSE, maaFirst |-> 0, aaCheck |-> FALSE, flagMAA |-> FALSE,
   a2 |-> FALSE, keyError |-> FALSE, key |-> FALSE, stored |-> stored,
   discFlag |-> FALSE, mcDone |-> FALSE, statusCount |-> 0,
   firstPowerOn |-> TRUE, refuse |-> 0,
   registerFlag |-> TRUE, first |-> FALSE, hour |-> 0,
   off |-> FALSE, npOff |-> FALSE, gotOn |-> FALSE, onCount |-> 0, anomaly |-> 0,
   evBoot |-> FALSE, evRegister |-> FALSE,
   out |-> <<"disc1">>, asked |-> asked]

Restart(d) == Start(d.stored, d.asked)

-----------------------------------------------------------------------------
(* Parts of the handlers.                                                    *)

\* F applied to the value of d, which TLC so evaluates once.
Then(d, F(_)) == CHOOSE e \in {F(c) : c \in {d}} : TRUE

Transmit(d, m) == [d EXCEPT !.out = Append(@, m)]

\* udf_Send_DISC(2)
SendDisc(d) == Transmit([d EXCEPT !.discFlag = TRUE], "disc")

AutoMAA(d) == [SendDisc(d) EXCEPT !.flagMAA = TRUE]

\* register_command: the head end is asked for a key.
RegisterCommand(d) == [d EXCEPT !.asked = TRUE, !.steps = 2]

Attached(d) == d.role \in {"child", "router"}

\* Rafael_Register
RafaelRegister(d) ==
  LET asks  == d.boot = Done /\ Attached(d) /\ d.steps = 0 /\ d.maa = "none"
      acks  == d.sst /\ d.maa = "key" /\ d.steps = 2
      reads == (acks \/ d.maa = "acked") /\ d.firstPowerOn /\ Attached(d)
      auths == d.aaCheck /\ ~d.flagMAA
      asked == IF asks THEN RegisterCommand(d) ELSE d
      acked == IF acks THEN [asked EXCEPT !.sst = FALSE, !.maa = "acked"] ELSE asked
      read  == [IF reads /\ ~d.npOff THEN Transmit(acked, "log") ELSE acked
                  EXCEPT !.firstPowerOn = @ /\ ~reads]
  IN  IF auths THEN AutoMAA(read) ELSE read

\* Mutant: the countdown ends without raising the event.
CountDownQuiet(d) ==
  IF d.maa = "none" /\ d.steps = 2
    THEN [d EXCEPT !.timeout = IF @ > 0 THEN @ - 1 ELSE 0]
    ELSE d

\* The countdown to a new request.
CountDown(d) ==
  IF d.maa = "none" /\ d.steps = 2 /\ d.timeout > 0
    THEN [d EXCEPT !.timeout = @ - 1, !.evRegister = @ \/ d.timeout = 1]
    ELSE d

\* Mutant: the count keeps its last value.
CountStatusOn(d) ==
  IF d.maa \notin {"key", "acked"} THEN d
  ELSE [d EXCEPT !.statusCount = @ + 1,
                 !.maa = IF d.statusCount + 1 < StatusLimit THEN @ ELSE "complete"]

\* A node that is almost registered is taken for registered after a time.
CountStatus(d) ==
  IF d.maa \notin {"key", "acked"} THEN d
  ELSE IF d.statusCount + 1 < StatusLimit
         THEN [d EXCEPT !.statusCount = @ + 1]
         ELSE [d EXCEPT !.statusCount = 0, !.sst = FALSE, !.maa = "complete"]

\* Power that is back for some time: the meter is asked what happened.
CountPower(d) ==
  LET a == IF d.off \/ ~d.npOff \/ d.gotOn THEN d
           ELSE IF d.onCount + 1 > OnLimit
                  THEN SendDisc([d EXCEPT !.onCount = 0, !.gotOn = TRUE])
                  ELSE [d EXCEPT !.onCount = @ + 1]
  IN  IF ~(a.off \/ a.npOff) THEN a
      ELSE IF a.anomaly + 1 < PowerLimit THEN [a EXCEPT !.anomaly = @ + 1]
      ELSE [a EXCEPT !.off = FALSE, !.npOff = FALSE, !.gotOn = FALSE,
                     !.onCount = 0, !.anomaly = 0]

\* A registered node repeats its request until the head end answers.
Repeat(d) ==
  IF ~(d.registerFlag /\ d.maa = "complete") THEN d
  ELSE LET a == IF d.first THEN d
                ELSE [RegisterCommand(d) EXCEPT !.first = TRUE, !.hour = 0]
       IN  IF a.hour + 1 < HourLimit THEN [a EXCEPT !.hour = @ + 1]
           ELSE [RegisterCommand(a) EXCEPT !.hour = 0]

-----------------------------------------------------------------------------
(* Answers of the meter.                                                     *)

\* Client 0x21 reads the identity, client 0x23 manages.
From21 == {"dm1", "ua1", "aare1", "data"}

\* meter_Boot_Step: the first two steps are left whatever came.
BootStep(d, answer) ==
  LET next == [d EXCEPT !.boot = @ + 1]
  IN  CASE d.boot = 0 -> IF answer \in {"dm1", "ua1"} THEN Transmit(next, "snrm1") ELSE next
        [] d.boot = 1 -> IF answer \in From21 THEN Transmit(next, "aarq1") ELSE next
        [] d.boot = 2 -> IF answer \in {"aare1", "aare"} THEN Transmit(next, "get") ELSE d
        [] d.boot \in 3..6 -> IF answer = "data" THEN Transmit(next, "get") ELSE d
        [] d.boot = 7 -> IF answer = "data"
                           THEN [next EXCEPT !.timeout = FirstDelay, !.evBoot = TRUE]
                           ELSE d

\* case 11: the meter accepted the key.
Accepted(d) ==
  LET a == IF d.maaFirst # 1 THEN d
           ELSE [d EXCEPT !.maa = "key", !.sst = TRUE, !.stored = d.key,
                          !.keyError = FALSE, !.steps = 2, !.maaFirst = 2]
  IN  [IF a.npOff THEN Transmit(a, "log") ELSE a EXCEPT !.mcDone = TRUE]

\* case 2: the log of power failures.
LogRead(d) ==
  IF d.maa = "acked" \/ d.npOff
    THEN [d EXCEPT !.maa = "complete", !.npOff = FALSE, !.gotOn = FALSE, !.refuse = 0]
    ELSE IF d.maa = "complete" /\ ~d.off THEN [d EXCEPT !.refuse = 0] ELSE d

\* case 33: the meter refuses the key.
Refused(d) ==
  IF d.maa # "complete" THEN d
  ELSE IF d.refuse + 1 >= 3 THEN Restart(d)
  ELSE SendDisc([d EXCEPT !.refuse = @ + 1])

\* An event of the meter starts the authentication anew.
Notification(d) ==
  IF d.maa = "none"
    THEN [d EXCEPT !.aaCheck = TRUE, !.flagMAA = FALSE, !.maaFirst = 1]
    ELSE d

\* udf_Meter_Process
Process(d, answer) ==
  LET e == IF answer = "refusal" THEN [d EXCEPT !.keyError = TRUE] ELSE d
  IN  IF answer = "notice" /\ d.mcDone THEN Notification(d)
      ELSE IF d.boot # Done THEN BootStep(e, answer)
      ELSE CASE answer = "dm" \/ (answer = "ua" /\ d.discFlag) ->
                  [Transmit(e, "snrm") EXCEPT !.discFlag = FALSE]
             [] answer = "ua" /\ ~d.discFlag -> [Transmit(e, "aarq") EXCEPT !.mcDone = TRUE]
             [] answer = "aare" -> Transmit(e, IF d.key THEN "auth" ELSE "authBad")
             [] answer = "accept" -> Accepted(e)
             [] answer = "refusal" -> Refused(e)
             [] answer = "log" -> LogRead(e)
             [] OTHER -> e

\* What the meter answers, and what it thinks of the client then.
Reply(m) ==
  CASE m = "disc1" -> "dm1" [] m = "snrm1" -> "ua1" [] m = "aarq1" -> "aare1"
    [] m = "get"   -> "data"
    [] m = "disc"  -> IF link = "off" THEN "dm" ELSE "ua"
    [] m = "snrm"  -> "ua"
    [] m = "aarq"  -> IF link = "off" THEN "none" ELSE "aare"
    [] m = "auth"  -> IF link \in {"open", "auth"} THEN "accept" ELSE "none"
    [] m = "authBad" -> IF link \in {"open", "auth"} THEN "refusal" ELSE "none"
    [] m = "log"   -> IF link = "auth" THEN "log" ELSE "none"

Linked(m) ==
  CASE m = "disc" -> "off"
    [] m = "snrm" -> "linked"
    [] m = "aarq" /\ link # "off" -> "open"
    [] m = "auth" /\ link \in {"open", "auth"} -> "auth"
    [] OTHER -> link

-----------------------------------------------------------------------------
(* Actions.                                                                  *)

\* Mutant: the seconds of the boot steps are not counted.
CountNoBoot(d) == d

\* Seconds of the boot steps, and seconds without a role.
CountBoot(d) == IF d.boot = Done THEN d ELSE [d EXCEPT !.bootCount = @ + 1]

CountRole(d) == [d EXCEPT !.roleCount = IF d.role = "none" THEN @ + 1 ELSE 0]

Fault == faults < MaxFaults /\ faults' = faults + 1

\* A node that got a role tries to register.
Attempt(d) == IF d.success THEN RafaelRegister(d) ELSE d

\* The counts that end with a reset, and those that follow them.
Check(d) ==
  IF (d.boot # Done /\ d.bootCount > BootLimit) \/ d.roleCount >= RoleLimit
    THEN Restart(d)
    ELSE Then(Then(Then(d, CountStatus), CountPower), Repeat)

\* TaskcheckSystemActiveFlagfunction, called every second by the timer.
Second(d) ==
  Then(Then(Then(Then(CountBoot(d), Attempt), CountDown), CountRole), Check)

Tick ==
  /\ dev.out # <<>> => wait < MaxWait
  /\ dev' = Second(dev)
  /\ wait' = IF dev.out = <<>> THEN 0 ELSE wait + 1
  /\ UNCHANGED <<link, lost, faults>>

\* The meter answers the oldest request.
MeterAnswers ==
  /\ dev.out # <<>> /\ ~dev.evBoot
  /\ LET m == Head(dev.out)
         d == [dev EXCEPT !.out = Tail(@)]
     IN  /\ dev' = IF Reply(m) = "none" THEN d ELSE Process(d, Reply(m))
         /\ link' = Linked(m)
  /\ wait' = 0
  /\ UNCHANGED <<lost, faults>>

\* A request or its answer is lost.
LoseFrame ==
  /\ dev.out # <<>> /\ Fault
  /\ lost' = TRUE
  /\ dev' = [dev EXCEPT !.out = Tail(@)]
  /\ link' \in {link, Linked(Head(dev.out))}
  /\ wait' = 0

\* The meter reports an event of its own.
MeterNotifies ==
  /\ Len(dev.out) < MaxRequests /\ ~dev.evBoot
  /\ Fault
  /\ dev' = Process(dev, "notice")
  /\ UNCHANGED <<link, wait, lost>>

\* EVENT_METER_BOOT_STEP, AAFIRST: the key in flash is tried.
BootEvent ==
  /\ dev.evBoot
  /\ LET d == [dev EXCEPT !.evBoot = FALSE]
     IN  dev' = IF d.maa = "none"
                  THEN AutoMAA([d EXCEPT !.key = d.stored, !.maaFirst = 1]) ELSE d
  /\ UNCHANGED <<link, wait, lost, faults>>

\* EVENT_REGISTER, Retry_Register_task
RegisterEvent ==
  /\ dev.evRegister
  /\ LET d == [dev EXCEPT !.evRegister = FALSE]
     IN  dev' = IF d.maa # "none" THEN [d EXCEPT !.timeout = 0]
                ELSE [RegisterCommand(d) EXCEPT !.timeout = d.retry]
  /\ UNCHANGED <<link, wait, lost, faults>>

\* Mutant: a key is taken whenever it comes.
TakeKeyAlways(d, k) ==
  [d EXCEPT !.sst = TRUE, !.aaCheck = TRUE, !.flagMAA = FALSE, !.maaFirst = 1,
            !.key = k, !.a2 = TRUE]

\* Mutant: the authentication is not asked for again.
TakeKeyQuietly(d, k) ==
  [d EXCEPT !.sst = TRUE, !.aaCheck = TRUE, !.maaFirst = 1, !.key = k, !.a2 = TRUE]

\* Command 0xA1 in DASprocessCommand: a key is taken once, and again only after
\* the meter has refused one.
TakeKey(d, k) ==
  LET a == [d EXCEPT !.sst = TRUE, !.aaCheck = TRUE, !.flagMAA = FALSE,
                     !.maaFirst = 1, !.key = k, !.a2 = TRUE]
  IN  IF d.maa = "none" /\ ~d.a2 THEN a
      ELSE IF d.maa = "none" /\ d.keyError THEN [a EXCEPT !.retry = LateRetry]
      ELSE [d EXCEPT !.registerFlag = FALSE, !.a2 = TRUE]

\* The head end answers a request, sooner or later.
HeadEndAnswers(k) ==
  /\ dev.asked /\ Attached(dev) /\ Len(dev.out) < MaxRequests
  /\ dev' = TakeKey([dev EXCEPT !.asked = FALSE], k)
  /\ UNCHANGED <<link, wait, lost, faults>>

\* The request or the answer is lost on the way, or there was no memory for it.
LoseRequest ==
  /\ dev.asked
  /\ dev' = [dev EXCEPT !.asked = FALSE]
  /\ UNCHANGED <<link, wait, lost, faults>>

\* ot_stateChangeCallback
Attach ==
  /\ dev.role = "none"
  /\ \E r \in Roles : dev' = [dev EXCEPT !.role = r, !.success = TRUE]
  /\ UNCHANGED <<link, wait, lost, faults>>

Detach ==
  /\ dev.role # "none" /\ Fault
  /\ dev' = [dev EXCEPT !.role = "none"]
  /\ UNCHANGED <<link, wait, lost>>

\* user_gpio29_isr_handler: power fails, or comes back.
PowerPin ==
  /\ IF dev.off THEN UNCHANGED faults ELSE Fault
  /\ dev' = [dev EXCEPT !.off = ~@, !.npOff = dev.off, !.gotOn = FALSE,
                        !.onCount = 0, !.anomaly = 0]
  /\ UNCHANGED <<link, wait, lost>>

Init ==
  /\ \E stored \in BOOLEAN : dev = Start(stored, FALSE)
  /\ link = "off" /\ wait = 0
  /\ lost = FALSE /\ faults = 0

Next == \/ Tick \/ MeterAnswers \/ LoseFrame \/ MeterNotifies
        \/ BootEvent \/ RegisterEvent
        \/ (\E k \in Keys : HeadEndAnswers(k)) \/ LoseRequest
        \/ Attach \/ Detach \/ PowerPin

Spec == Init /\ [][Next]_vars

\* The timer and the tasks run; the meter answers; the node gets a role; the
\* head end answers one of many requests with the right key.
FairSpec ==
  /\ Spec
  /\ WF_vars(Tick) /\ WF_vars(MeterAnswers) /\ WF_vars(BootEvent) /\ WF_vars(RegisterEvent)
  /\ WF_vars(Attach)
  /\ SF_vars(HeadEndAnswers(TRUE))

-----------------------------------------------------------------------------
(* Properties                                                                *)

\* Every count stays below the limit at which TaskcheckSystemActiveFlagfunction
\* acts on it.
CountsBelowLimits ==
  /\ dev.boot \in 0..Done /\ dev.bootCount \in 0..BootLimit
  /\ dev.maa \in Status /\ dev.steps \in {0, 2} /\ dev.maaFirst \in 0..2
  /\ dev.role \in Roles \cup {"none"} /\ dev.roleCount \in 0..(RoleLimit - 1)
  /\ dev.statusCount \in 0..(StatusLimit - 1) /\ dev.hour \in 0..(HourLimit - 1)
  /\ dev.onCount \in 0..OnLimit /\ dev.anomaly \in 0..(PowerLimit - 1)
  /\ dev.refuse \in 0..2

\* The counts stay below their limits, and the meter is asked few things at a time.
TypeOK ==
  /\ CountsBelowLimits
  /\ Len(dev.out) <= MaxRequests + MaxFaults + 2
  /\ link \in {"off", "linked", "open", "auth"}

\* A node that waits for a key has its countdown running, or the event of the
\* next request is raised: in no order of answers, timer and interrupts do
\* Retry_Register_task and the timer leave each other waiting.
RetryArmed ==
  dev.boot = Done /\ dev.maa = "none" => dev.timeout > 0 \/ dev.evRegister

\* Without a restart the state of registration never goes back: a late or second
\* key, an event of the meter or a power failure takes nothing from a node that
\* has registered.
NeverBack ==
  [][dev' = Restart(dev) \/ Rank[dev'.maa] >= Rank[dev.maa]]_vars

\* The boot steps are all taken, in the end, whatever frame was lost or came
\* unasked among them: the reset after ten seconds begins them anew.
BootCompletes == []<>(dev.boot = Done)

\* A node whose meter answers every request registers, with the key in its flash
\* or the one the head end sends, whatever happens in between.  After a single
\* lost frame it may never do so: nothing but an event of the meter or a wrong
\* key starts the authentication anew.
Registers ==
  dev.maa = "none" ~> dev.maa = "complete" \/ dev.role = "leader" \/ lost
=============================================================================
