---------------------------- MODULE CommandQueues ----------------------------
(* How das_dlms_cmd.c passes commands and answers between three tasks.       *)
(*   the OpenThread task queues the commands that come by UDP (receive_queue)*)
(*     and answers some of them itself;                                      *)
(*   the application task executes queued commands, handles the frames of    *)
(*     the meter, and sends the queued answers (send_queue);                 *)
(*   the timer task, once a second, ages the busy flags and wakes the        *)
(*     application task for what is still queued.                            *)
(* Their priorities are 31 (timer), 23 (OpenThread) and 5 (application), so  *)
(* the timer handler is one step, and the application task runs only while   *)
(* the OpenThread task waits.  The counters are shared without a lock: each  *)
(* change of one is a load and a store that a task of higher priority can    *)
(* come between.  A task is what it has left to do: a list of such steps.    *)
EXTENDS Integers, Sequences

CONSTANTS QueueSize,  \* QUEUE_SIZE (20), of either queue
          MaxBytes,   \* MAX_QUEUE_BYTES (2450), of both together
          Lens,       \* the lengths of commands and answers
          BusyTime,   \* seconds until a busy flag is dropped (30 and more)
          Oom,        \* TRUE: mem_malloc of a payload may fail
          MaxInputs   \* bound: what comes from outside in one behaviour

ASSUME QueuesAssumption ==
  /\ QueueSize \in Nat \ {0} /\ MaxBytes \in Nat
  /\ Lens \subseteq Nat \ {0}
  /\ BusyTime \in Nat \ {0}
  /\ Oom \in BOOLEAN
  /\ MaxInputs \in Nat

Counters == {"sendIndex", "receiveIndex", "currentQueueBytes"}

Flags == {"sendbusyflag", "receivebusyflag", "CONTINUE_BUSY",
          "On_Demand_Reading_Type"}

\* In the order app_task looks at them.
Events == {"meter", "block", "send", "register"}

Before == [meter |-> {}, block |-> {"meter"}, send |-> {"meter", "block"},
           register |-> {"meter", "block", "send"}]

VARIABLES
  recvQ, sendQ,  \* the two FreeRTOS queues, as the lengths of their payloads
  counter,       \* the counters kept beside the queues
  flag,          \* the busy flags
  count,         \* seconds each flag has been set
  finished,      \* TASKCOMMAND is TASK_FINISHED_FLAG
  attached,      \* target_pos is child or router
  events,        \* g_app_task_evt_var
  todo,          \* events the application task has taken and not handled
  prog,          \* what each task has left to do
  reg,           \* the register between a load and its store
  inputs

queues == <<recvQ, sendQ>>
flags  == <<flag, count, finished>>
wake   == <<events, todo>>
vars   == <<queues, counter, flags, attached, wake, prog, reg, inputs>>

Task == {"app", "ot"}

Notify(e) == events' = events \cup {e}

Begins(t, op) == prog[t] # <<>> /\ Head(prog[t]).op = op

Drops(t, n) == prog' = [prog EXCEPT ![t] = SubSeq(@, n + 1, Len(@))]

Sets(f, b) == flag' = [flag EXCEPT ![f] = b]

OtBlocked == Begins("ot", "accept") /\ Len(recvQ) = QueueSize

\* The application task has the processor.
AppRuns == prog["ot"] = <<>> \/ OtBlocked

AppFree == AppRuns /\ prog["app"] = <<>>

Runs(t) == IF t = "app" THEN AppRuns ELSE TRUE

-----------------------------------------------------------------------------
(* Steps on a counter.                                                       *)

Change(c, k) == <<[op |-> "load", of |-> c, by |-> k],
                  [op |-> "store", of |-> c, by |-> k]>>

Load(t) ==
  /\ Runs(t) /\ Begins(t, "load")
  /\ reg' = [reg EXCEPT ![t] = counter[Head(prog[t]).of]]
  /\ Drops(t, 1)
  /\ UNCHANGED <<queues, counter, flags, attached, wake, inputs>>

\* Mutant: nothing is compared before a counter is taken down.
SumUnguarded(x, k) == x + k

\* A counter is not taken below zero.
Sum(x, k) == IF x + k >= 0 THEN x + k ELSE x

Store(t) ==
  /\ Runs(t) /\ Begins(t, "store")
  /\ counter' = [counter EXCEPT ![Head(prog[t]).of] = Sum(reg[t], Head(prog[t]).by)]
  /\ Drops(t, 1)
  /\ UNCHANGED <<queues, flags, attached, wake, reg, inputs>>

-----------------------------------------------------------------------------
(* send_queue, in the application and the OpenThread task.                   *)

Post(l) == <<[op |-> "check", len |-> l], [op |-> "queue", len |-> l]>>
           \o Change("sendIndex", 1) \o Change("currentQueueBytes", l)
           \o <<[op |-> "posted"]>>

PostLength == 7

Fits(l) == counter["currentQueueBytes"] + l <= MaxBytes

\* Without memory the busy flag stays up.
PostCheck(t) ==
  /\ Runs(t) /\ Begins(t, "check")
  /\ IF Fits(Head(prog[t]).len)
       THEN /\ Sets("sendbusyflag", TRUE)
            /\ \/ Drops(t, 1)
               \/ (Oom /\ Drops(t, PostLength))
            /\ UNCHANGED events
       ELSE /\ Notify("send")
            /\ Drops(t, PostLength)
            /\ UNCHANGED flag
  /\ UNCHANGED <<queues, counter, count, finished, attached, todo, reg, inputs>>

\* xQueueSend does not wait; if it fails the payload is lost, its memory with
\* it, and the busy flag stays up.
PostQueue(t) ==
  /\ Runs(t) /\ Begins(t, "queue")
  /\ IF Len(sendQ) < QueueSize
       THEN /\ sendQ' = Append(sendQ, Head(prog[t]).len)
            /\ Drops(t, 1)
       ELSE /\ UNCHANGED sendQ
            /\ Drops(t, PostLength - 1)
  /\ UNCHANGED <<recvQ, counter, flags, attached, wake, reg, inputs>>

Posted(t) ==
  /\ Runs(t) /\ Begins(t, "posted")
  /\ Sets("sendbusyflag", FALSE)
  /\ Notify("send")
  /\ Drops(t, 1)
  /\ UNCHANGED <<queues, counter, count, finished, attached, todo, reg, inputs>>

\* udf_Rafael_data of task t, which goes on with "after".  The answer is queued,
\* or is sent at once: in a continued transmission always, else in a power
\* failure or when the power comes back.
Answer(t, after) ==
  \/ /\ ~flag["CONTINUE_BUSY"]
     /\ \E l \in Lens : prog' = [prog EXCEPT ![t] = Post(l) \o after]
     /\ UNCHANGED finished
  \/ /\ prog' = [prog EXCEPT ![t] = after]
     /\ finished' = TRUE

-----------------------------------------------------------------------------
(* The OpenThread task.                                                      *)

Input == inputs < MaxInputs /\ inputs' = inputs + 1

Admission(l) == <<[op |-> "admit", len |-> l], [op |-> "accept", len |-> l]>>
                \o Change("receiveIndex", 1) \o Change("currentQueueBytes", l)
                \o <<[op |-> "accepted"]>>

\* evaluate_commandAM1 for a command that is to be queued.
OtCommand(l) ==
  /\ Input /\ prog["ot"] = <<>>
  /\ prog' = [prog EXCEPT !["ot"] = Admission(l)]
  /\ UNCHANGED <<queues, counter, flags, attached, wake, reg>>

\* evaluate_commandAM1 for a command that it answers itself.
OtAnswer ==
  /\ Input /\ prog["ot"] = <<>>
  /\ Answer("ot", <<>>)
  /\ UNCHANGED <<queues, counter, flag, count, attached, wake, reg>>

\* ot_stateChangeCallback, from the first role on.
OtRole ==
  /\ prog["ot"] = <<>>
  /\ attached' \in BOOLEAN
  /\ Notify("send")
  /\ UNCHANGED <<queues, counter, flags, todo, prog, reg, inputs>>

\* The command to reset: CONTINUE_BUSY is up until the restart.
OtReset ==
  /\ Input /\ prog["ot"] = <<>>
  /\ Sets("CONTINUE_BUSY", TRUE)
  /\ finished' = TRUE
  /\ UNCHANGED <<queues, counter, count, attached, wake, prog, reg>>

\* receive_queue.  A full queue is waited for.
Admit ==
  /\ Begins("ot", "admit")
  /\ IF Fits(Head(prog["ot"]).len)
       THEN /\ \/ /\ Sets("receivebusyflag", TRUE)
                  /\ Drops("ot", 1)
               \/ /\ Oom
                  /\ Sets("receivebusyflag", FALSE)
                  /\ Drops("ot", PostLength)
            /\ UNCHANGED events
       ELSE /\ Notify("block")
            /\ Drops("ot", PostLength)
            /\ UNCHANGED flag
  /\ UNCHANGED <<queues, counter, count, finished, attached, todo, reg, inputs>>

Accept ==
  /\ Begins("ot", "accept") /\ ~OtBlocked
  /\ recvQ' = Append(recvQ, Head(prog["ot"]).len)
  /\ Drops("ot", 1)
  /\ UNCHANGED <<sendQ, counter, flags, attached, wake, reg, inputs>>

Accepted ==
  /\ Begins("ot", "accepted")
  /\ Sets("receivebusyflag", FALSE)
  /\ Notify("block")
  /\ Drops("ot", 1)
  /\ UNCHANGED <<queues, counter, count, finished, attached, todo, reg, inputs>>

-----------------------------------------------------------------------------
(* The application task.                                                     *)

\* APP_EVENT_GET_NOTIFY
Wake ==
  /\ AppFree /\ todo = {} /\ events # {}
  /\ todo' = events
  /\ events' = {}
  /\ UNCHANGED <<queues, counter, flags, attached, prog, reg, inputs>>

Handles(e) == /\ AppFree
              /\ e \in todo /\ Before[e] \cap todo = {}
              /\ todo' = todo \ {e}

NotBusy(f) == ~flag[f] /\ ~flag["CONTINUE_BUSY"] /\ ~flag["On_Demand_Reading_Type"]

AppDoes(p) == prog' = [prog EXCEPT !["app"] = p]

\* udf_Meter_Process: the answer to a reading; one of several, "more", for which
\* the next is requested; the opening or the end of an on-demand reading; or
\* something that changes nothing here.
HandleMeter ==
  /\ Handles("meter")
  /\ \/ UNCHANGED <<flag, finished, prog>>
     \/ /\ Answer("app", <<>>)
        /\ UNCHANGED flag
     \/ /\ Sets("CONTINUE_BUSY", TRUE)
        /\ finished' = TRUE
        /\ UNCHANGED prog
     \/ /\ flag["CONTINUE_BUSY"]
        /\ Sets("CONTINUE_BUSY", FALSE)
        /\ finished' \in {TRUE, finished}
        /\ UNCHANGED prog
     \/ /\ Sets("On_Demand_Reading_Type", TRUE)
        /\ UNCHANGED <<finished, prog>>
     \/ /\ flag["On_Demand_Reading_Type"]
        /\ \/ Answer("app", <<[op |-> "read"]>>)
           \/ AppDoes(<<[op |-> "read"]>>) /\ UNCHANGED finished
        /\ UNCHANGED flag
  /\ UNCHANGED <<queues, counter, count, attached, events, reg, inputs>>

\* on_Demand_Task_Assembly, having answered or given up.
ReadOver ==
  /\ AppRuns /\ Begins("app", "read")
  /\ Sets("On_Demand_Reading_Type", FALSE)
  /\ Drops("app", 1)
  /\ UNCHANGED <<queues, counter, count, finished, attached, wake, reg, inputs>>

\* ReceiveCommand_Queue_processing: one command for each event.
HandleBlock ==
  /\ Handles("block")
  /\ IF NotBusy("receivebusyflag") THEN AppDoes(<<[op |-> "take"]>>)
                                   ELSE UNCHANGED prog
  /\ UNCHANGED <<queues, counter, flags, attached, events, reg, inputs>>

\* DASprocessCommand answers the command, or passes it to the meter.
Take ==
  /\ AppRuns /\ Begins("app", "take")
  /\ IF recvQ = <<>>
       THEN /\ Drops("app", 1)
            /\ UNCHANGED <<recvQ, finished>>
       ELSE LET after == Change("receiveIndex", -1)
                         \o Change("currentQueueBytes", -Head(recvQ))
            IN  /\ recvQ' = Tail(recvQ)
                /\ \/ Answer("app", after)
                   \/ AppDoes(after) /\ UNCHANGED finished
  /\ UNCHANGED <<sendQ, counter, flag, count, attached, wake, reg, inputs>>

\* Send_Queue_processing
HandleSend ==
  /\ Handles("send")
  /\ IF counter["sendIndex"] > 0 /\ NotBusy("sendbusyflag") /\ attached
       THEN AppDoes(<<[op |-> "drain"]>>)
       ELSE UNCHANGED prog
  /\ UNCHANGED <<queues, counter, flags, attached, events, reg, inputs>>

\* Mutant: one answer is sent for each event.
SendStepsOnce(l) == Change("sendIndex", -1) \o Change("currentQueueBytes", -l)

\* Mutant: the number of entries is left as it is.
SendStepsUncounted(l) == Change("currentQueueBytes", -l) \o <<[op |-> "drain"]>>

SendSteps(l) == Change("sendIndex", -1) \o Change("currentQueueBytes", -l)
                \o <<[op |-> "drain"]>>

\* Rafael_printFunction marks the task as finished.
Drain ==
  /\ AppRuns /\ Begins("app", "drain")
  /\ IF sendQ = <<>>
       THEN /\ Drops("app", 1)
            /\ UNCHANGED <<sendQ, finished>>
       ELSE /\ AppDoes(SendSteps(Head(sendQ)))
            /\ sendQ' = Tail(sendQ)
            /\ finished' = TRUE
  /\ UNCHANGED <<recvQ, counter, flag, count, attached, wake, reg, inputs>>

\* Retry_Register_task
HandleRegister ==
  /\ Handles("register")
  /\ (Answer("app", <<>>) \/ UNCHANGED <<prog, finished>>)
  /\ UNCHANGED <<queues, counter, flag, count, attached, events, reg, inputs>>

-----------------------------------------------------------------------------
(* Interrupts and the timer task.                                            *)

\* A frame of the meter has come in on the UART.
MeterFrame ==
  /\ Input
  /\ Notify("meter")
  /\ UNCHANGED <<queues, counter, flags, attached, todo, prog, reg>>

RegisterTimeout ==
  /\ Input
  /\ Notify("register")
  /\ UNCHANGED <<queues, counter, flags, attached, todo, prog, reg>>

\* send_queue in the timer task, of a registration or a power event: nothing
\* comes between its steps.
TimerPost(l) ==
  /\ Input
  /\ ~flag["CONTINUE_BUSY"]
  /\ IF ~Fits(l)
       THEN /\ Notify("send")
            /\ UNCHANGED <<sendQ, counter, flag>>
     ELSE \/ /\ Len(sendQ) < QueueSize
             /\ sendQ' = Append(sendQ, l)
             /\ counter' = [counter EXCEPT !["sendIndex"] = @ + 1,
                                           !["currentQueueBytes"] = @ + l]
             /\ Sets("sendbusyflag", FALSE)
             /\ Notify("send")
          \/ /\ Oom \/ Len(sendQ) = QueueSize
             /\ Sets("sendbusyflag", TRUE)
             /\ UNCHANGED <<sendQ, counter, events>>
  /\ UNCHANGED <<recvQ, count, finished, attached, todo, prog, reg>>

\* udf_Rafael_data past the queue, or the end of a broadcast's delay.
TimerSend ==
  /\ Input
  /\ finished' = TRUE
  /\ UNCHANGED <<queues, counter, flag, count, attached, wake, prog, reg>>

\* Mutant: a flag is dropped only by who set it.
AgedNever(f) == [flag |-> flag[f], count |-> 0]

\* HandleBusyFlagAndCount
Aged(f) == IF flag[f] /\ count[f] + 1 < BusyTime
             THEN [flag |-> TRUE, count |-> count[f] + 1]
             ELSE [flag |-> FALSE, count |-> 0]

\* TaskcheckSystemActiveFlagfunction
Second ==
  /\ flag' = [f \in Flags |-> Aged(f).flag]
  /\ count' = [f \in Flags |-> Aged(f).count]
  /\ LET idle(f) == ~flag'[f] /\ ~flag'["CONTINUE_BUSY"]
                              /\ ~flag'["On_Demand_Reading_Type"]
     IN
     IF counter["sendIndex"] > 0 /\ idle("sendbusyflag") /\ attached
       THEN /\ Notify("send")
            /\ UNCHANGED finished
     ELSE IF counter["receiveIndex"] > 0 /\ idle("receivebusyflag") /\ finished
       THEN /\ Notify("block")
            /\ finished' = FALSE
     ELSE UNCHANGED <<events, finished>>
  /\ UNCHANGED <<queues, counter, attached, todo, prog, reg, inputs>>

-----------------------------------------------------------------------------
Init ==
  /\ recvQ = <<>> /\ sendQ = <<>>
  /\ counter = [c \in Counters |-> 0]
  /\ flag = [f \in Flags |-> FALSE]
  /\ count = [f \in Flags |-> 0]
  /\ finished = TRUE
  /\ attached = FALSE
  /\ events = {} /\ todo = {}
  /\ prog = [t \in Task |-> <<>>]
  /\ reg = [t \in Task |-> 0]
  /\ inputs = 0

\* NVIC_SystemReset
Restart ==
  /\ Input
  /\ recvQ' = <<>> /\ sendQ' = <<>>
  /\ counter' = [c \in Counters |-> 0]
  /\ flag' = [f \in Flags |-> FALSE]
  /\ count' = [f \in Flags |-> 0]
  /\ finished' = TRUE
  /\ attached' = FALSE
  /\ events' = {} /\ todo' = {}
  /\ prog' = [t \in Task |-> <<>>]
  /\ reg' = [t \in Task |-> 0]

Steps(t) == Load(t) \/ Store(t) \/ PostCheck(t) \/ PostQueue(t) \/ Posted(t)

App == \/ Steps("app")
       \/ Wake \/ HandleMeter \/ HandleBlock \/ HandleSend \/ HandleRegister
       \/ ReadOver \/ Take \/ Drain

Ot == Steps("ot") \/ Admit \/ Accept \/ Accepted

Timer == (\E l \in Lens : TimerPost(l)) \/ TimerSend \/ Second

Outside == \/ \E l \in Lens : OtCommand(l)
           \/ OtAnswer \/ OtReset \/ OtRole \/ MeterFrame \/ RegisterTimeout \/ Restart

Next == App \/ Ot \/ Timer \/ Outside

Spec == Init /\ [][Next]_vars

\* A task that can run does so in the end, and the timer goes on.
FairSpec == Spec /\ WF_vars(App) /\ WF_vars(Ot) /\ WF_vars(Second)

-----------------------------------------------------------------------------
(* Properties                                                                *)

\* Task t has a step of this change of counter c left.
Owes(t, c, k) == \E i \in 1..Len(prog[t]), j \in 1..2 : prog[t][i] = Change(c, k)[j]

\* Task t has queued an answer that is not counted yet.
Counting(t) == Owes(t, "sendIndex", 1) /\ ~Begins(t, "check") /\ ~Begins(t, "queue")

Draining == \E i \in 1..Len(prog["app"]) : prog["app"][i].op = "drain"

\* Each variable has its type; the queues and the counters keep their bounds.
TypeOK ==
  /\ recvQ \in Seq(Lens) /\ Len(recvQ) <= QueueSize
  /\ sendQ \in Seq(Lens) /\ Len(sendQ) <= QueueSize
  /\ DOMAIN counter = Counters
  /\ counter["sendIndex"] \in 0..(QueueSize + 1)
  /\ counter["receiveIndex"] \in 0..(QueueSize + 1)
  /\ counter["currentQueueBytes"] \in Nat
  /\ flag \in [Flags -> BOOLEAN]
  /\ count \in [Flags -> 0..(BusyTime - 1)]
  /\ finished \in BOOLEAN /\ attached \in BOOLEAN
  /\ events \subseteq Events /\ todo \subseteq Events
  /\ DOMAIN prog = Task
  /\ reg \in [Task -> Nat]
  /\ inputs \in 0..MaxInputs

\* sendIndex never counts more answers than are queued: an entry too many would
\* have the timer task wake the application task for an empty queue for ever,
\* and never for a command (6018-6026).  It may be behind, by lost updates.
IndexTrails ==
  counter["sendIndex"] <= Len(sendQ) + (IF Owes("app", "sendIndex", -1) THEN 1 ELSE 0)

\* A queued answer is never forgotten, whatever updates of sendIndex are lost:
\* either it is counted, or the task that queued it is about to count it, or the
\* application task is in the loop that empties the queue (5697).
QueuedIsSeen ==
  sendQ # <<>> =>
    counter["sendIndex"] > 0 \/ Draining \/ \E t \in Task : Counting(t)

\* Once the device stays in the network, the queue of answers is emptied again
\* and again: no busy flag that is left up stops that for good.
QueuedIsSent == <>[]attached => []<>(sendQ = <<>>)

\* currentQueueBytes is "the number of bytes in the queues at present"
\* (das_dlms_cmd.c:54): when both queues are empty and no task is in the middle
\* of a change, it is zero.  What is left over is never taken off again, and
\* counts against MAX_QUEUE_BYTES for every later command and answer.
NothingLeftOver ==
  (\A t \in Task : prog[t] = <<>>) /\ recvQ = <<>> /\ sendQ = <<>> =>
    counter["currentQueueBytes"] = 0
=============================================================================
