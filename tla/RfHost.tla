-------------------------------- MODULE RfHost --------------------------------
(* The host's side of the radio processor (hosal_rf.c).  The radio raises     *)
(* interrupts for events, frames and finished transmissions; the interrupt    *)
(* queues their causes and wakes the task "rf", which has the highest         *)
(* priority and empties the queue.  Other tasks send commands and wait for    *)
(* the event that confirms them; a task handle and a binary semaphore are to  *)
(* keep the commands of two tasks apart.                                      *)
(*                                                                           *)
(* "rf" is not interrupted by the callers; the interrupt comes at any time.   *)
EXTENDS RfStateQueue, Sequences

CONSTANTS Caller,       \* tasks that call hosal_rf_ioctl
          NoCaller,
          Slots,        \* of each kind: how many the radio holds unread
          EventSize,    \* length of g_rf_evt_handle (16)
          MaxCommands,  \* bound: calls in one behaviour
          MaxFails,     \* bound: refusals by the radio
          MaxDrops,     \* bound: failures of mem_malloc
          MaxOther      \* bound: interrupts that confirm nothing

\* The radio's buffers fit into the queue of causes.
ASSUME RadioAssumption ==
  /\ Kind = {"event", "tx", "rx", "wake"}
  /\ NoCaller \notin Caller
  /\ Slots \in [Kind -> Nat]
  /\ Slots["event"] + Slots["tx"] + Slots["rx"] + Slots["wake"] < QueueSize
  /\ EventSize \in Nat \ {0}
  /\ MaxCommands \in Nat /\ MaxFails \in Nat /\ MaxDrops \in Nat /\ MaxOther \in Nat

VARIABLES
  states,     \* ghosal_rf_cmd_state_q
  notified,   \* the notification of the task "rf"
  rf,         \* it is "ready", "waiting", or "sending" to a full event queue
  held,       \* the event it is sending
  take,       \* g_take_taskHandle
  sem,        \* xSemaphore has its token
  events,     \* g_rf_evt_handle: whose command each event confirms
  pc,         \* where each caller is in hosal_rf_wrire_command and read_event
  radioCmds,  \* commands the radio has not executed
  radioEvts,  \* its events not yet read
  unread,     \* frames, transmissions, wake-ups not yet handled
  dropped,    \* confirmations lost because there was no memory for a copy
  commands, fails, others

host    == <<states, notified, rf, held>>
lock    == <<take, sem>>
radio   == <<radioCmds, radioEvts, unread>>
bounds  == <<commands, fails, others>>
vars    == <<host, lock, events, pc, radio, dropped, bounds>>

OtherKind == Kind \ {"event"}

Waiting(k) == IF k = "event" THEN Len(radioEvts) ELSE unread[k]

-----------------------------------------------------------------------------
(* The radio and its interrupt.                                              *)

\* Mutant: only the first cause of an interrupt is queued.
PushFirst(q, S) == IF "event" \in S THEN Push(q, "event")
                   ELSE Push(q, CHOOSE k \in S : TRUE)

PushIf(q, S, k) == IF k \in S THEN Push(q, k) ELSE q

\* __rf_event_callback: each cause in its turn.
PushAll(q, S) ==
  PushIf(PushIf(PushIf(PushIf(q, S, "event"), S, "tx"), S, "rx"), S, "wake")

\* The radio confirms a command, or has something to say that none asked for.
Confirm == /\ radioCmds # <<>>
           /\ radioCmds' = Tail(radioCmds)
           /\ radioEvts' = Append(radioEvts, Head(radioCmds))
           /\ UNCHANGED others

Unasked(S) ==
  /\ others < MaxOther
  /\ others' = others + 1
  /\ radioEvts' = IF "event" \in S THEN Append(radioEvts, NoCaller) ELSE radioEvts
  /\ UNCHANGED radioCmds

Interrupt ==
  \E S \in SUBSET Kind :
    /\ S # {}
    /\ \A k \in S : Waiting(k) < Slots[k]
    /\ ("event" \in S /\ Confirm) \/ Unasked(S)
    /\ unread' = [k \in OtherKind |-> IF k \in S THEN unread[k] + 1 ELSE unread[k]]
    /\ states' = PushAll(states, S)
    /\ notified' = TRUE
    /\ UNCHANGED <<rf, held, lock, events, pc, dropped, commands, fails>>

-----------------------------------------------------------------------------
(* The task "rf".                                                            *)

\* ulTaskNotifyTake returns.
Wake ==
  /\ rf = "waiting" /\ notified
  /\ rf' = "ready"
  /\ notified' = FALSE
  /\ UNCHANGED <<states, held, lock, events, pc, radio, bounds, dropped>>

\* __rf_check_state ends at an empty place.
Sleep ==
  /\ rf = "ready"
  /\ Front(states) = "none"
  /\ states' = Pop(states)
  /\ rf' = "waiting"
  /\ UNCHANGED <<notified, held, lock, events, pc, radio, bounds, dropped>>

\* Mutant: the handle is cleared, and nobody who waits is told.
FreeLockSilently == take' = NoCaller /\ UNCHANGED sem

\* The lock is freed if it is held.
FreeLock == IF take # NoCaller THEN take' = NoCaller /\ sem' = TRUE
                               ELSE UNCHANGED lock

\* Mutant: xQueueSend is tried once.
DeliverOnce(e) ==
  /\ events' = IF Len(events) < EventSize THEN Append(events, e) ELSE events
  /\ UNCHANGED <<rf, held>>

\* The event goes to the callers; the task is stuck while their queue is full.
Deliver(e) ==
  \/ /\ Len(events) < EventSize
     /\ events' = Append(events, e)
     /\ UNCHANGED <<rf, held>>
  \/ /\ Len(events) = EventSize
     /\ rf' = "sending" /\ held' = e
     /\ UNCHANGED events

\* An event frees the lock, and is read; one that confirms is for the callers,
\* if there is memory for a copy, and another is for a callback.
HandleEvent ==
  /\ rf = "ready"
  /\ Front(states) = "event"
  /\ states' = Pop(states)
  /\ FreeLock
  /\ radioEvts' = IF radioEvts = <<>> THEN <<>> ELSE Tail(radioEvts)
  /\ \/ /\ radioEvts = <<>> \/ Head(radioEvts) = NoCaller
        /\ UNCHANGED <<rf, held, events, dropped>>
     \/ /\ radioEvts # <<>> /\ Head(radioEvts) # NoCaller
        /\ Deliver(Head(radioEvts))
        /\ UNCHANGED dropped
     \/ /\ radioEvts # <<>> /\ Head(radioEvts) # NoCaller
        /\ dropped < MaxDrops
        /\ dropped' = dropped + 1
        /\ UNCHANGED <<rf, held, events>>
  /\ UNCHANGED <<notified, pc, radioCmds, unread, bounds>>

\* xQueueSend is tried again every tick.
SendHeld ==
  /\ rf = "sending"
  /\ Len(events) < EventSize
  /\ events' = Append(events, held)
  /\ held' = NoCaller
  /\ rf' = "ready"
  /\ UNCHANGED <<states, notified, lock, pc, radio, bounds, dropped>>

\* Mutant: one cause is handled for a notification.
HandleOne ==
  /\ rf = "ready"
  /\ Front(states) \in OtherKind
  /\ states' = Pop(states)
  /\ rf' = "waiting"
  /\ unread' = [unread EXCEPT ![Front(states)] = IF @ = 0 THEN 0 ELSE @ - 1]
  /\ UNCHANGED <<notified, held, lock, events, pc, radioCmds, radioEvts, bounds, dropped>>

\* Frames and finished transmissions go to callbacks, wake-ups nowhere.
HandleOther ==
  /\ rf = "ready"
  /\ Front(states) \in OtherKind
  /\ states' = Pop(states)
  /\ unread' = [unread EXCEPT ![Front(states)] = IF @ = 0 THEN 0 ELSE @ - 1]
  /\ UNCHANGED <<notified, rf, held, lock, events, pc, radioCmds, radioEvts, bounds, dropped>>

Rf == Wake \/ Sleep \/ HandleEvent \/ SendHeld \/ HandleOther

-----------------------------------------------------------------------------
(* The callers, which run when "rf" is blocked.                              *)

Runs(c, at) == /\ pc[c] = at
               /\ rf # "ready"
               /\ ~(rf = "waiting" /\ notified)

GoTo(c, to) == pc' = [pc EXCEPT ![c] = to]

\* A function of hosal_rf_ioctl begins.
Begin(c) ==
  /\ Runs(c, "idle")
  /\ commands < MaxCommands
  /\ commands' = commands + 1
  /\ GoTo(c, "check")
  /\ UNCHANGED <<host, lock, events, radio, fails, others, dropped>>

Check(c) ==
  /\ Runs(c, "check")
  /\ GoTo(c, IF take # NoCaller THEN "take" ELSE "claim")
  /\ UNCHANGED <<host, lock, events, radio, bounds, dropped>>

\* xSemaphoreTake, without a limit.
Take(c) ==
  /\ Runs(c, "take")
  /\ sem
  /\ sem' = FALSE
  /\ GoTo(c, "claim")
  /\ UNCHANGED <<host, take, events, radio, bounds, dropped>>

Claim(c) ==
  /\ Runs(c, "claim")
  /\ take' = c
  /\ GoTo(c, "send")
  /\ UNCHANGED <<host, sem, events, radio, bounds, dropped>>

\* The radio is awake and has room for the command, or not.
Send(c) ==
  /\ Runs(c, "send")
  /\ \/ /\ radioCmds' = Append(radioCmds, c)
        /\ GoTo(c, "read")
        /\ UNCHANGED fails
     \/ /\ fails < MaxFails
        /\ fails' = fails + 1
        /\ GoTo(c, "give")
        /\ UNCHANGED radioCmds
  /\ UNCHANGED <<host, lock, events, radioEvts, unread, commands, others, dropped>>

\* A refused command gives the semaphore back.
Give(c) ==
  /\ Runs(c, "give")
  /\ IF take # NoCaller THEN sem' = TRUE /\ GoTo(c, "clear")
                        ELSE UNCHANGED sem /\ GoTo(c, "check")
  /\ UNCHANGED <<host, take, events, radio, bounds, dropped>>

\* The handle is cleared, and the function of hosal_rf_ioctl tries again.
Clear(c) ==
  /\ Runs(c, "clear")
  /\ take' = NoCaller
  /\ GoTo(c, "check")
  /\ UNCHANGED <<host, sem, events, radio, bounds, dropped>>

\* hosal_rf_read_event takes the oldest event, whoever it is for.
ReadEvent(c) ==
  /\ Runs(c, "read")
  /\ events # <<>>
  /\ events' = Tail(events)
  /\ GoTo(c, "idle")
  /\ UNCHANGED <<host, lock, radio, bounds, dropped>>

Command(c) == \/ Check(c) \/ Take(c) \/ Claim(c) \/ Send(c)
              \/ Give(c) \/ Clear(c) \/ ReadEvent(c)

-----------------------------------------------------------------------------
Init ==
  /\ states = EmptyQueue
  /\ notified = FALSE /\ rf = "ready" /\ held = NoCaller
  /\ take = NoCaller /\ sem = FALSE
  /\ events = <<>>
  /\ pc = [c \in Caller |-> "idle"]
  /\ radioCmds = <<>> /\ radioEvts = <<>>
  /\ unread = [k \in OtherKind |-> 0]
  /\ dropped = 0 /\ commands = 0 /\ fails = 0 /\ others = 0

Next == Interrupt \/ Rf \/ \E c \in Caller : Begin(c) \/ Command(c)

Spec == Init /\ [][Next]_vars

\* The scheduler runs every ready task, the radio executes every command.
FairSpec == /\ Spec
            /\ WF_vars(Rf)
            /\ WF_vars(Interrupt /\ radioCmds # radioCmds')
            /\ \A c \in Caller : WF_vars(Command(c))

-----------------------------------------------------------------------------
(* Properties                                                                *)

Pcs == {"idle", "check", "take", "claim", "send", "give", "clear", "read"}

\* Every variable has its type; the ring's indices, above all, which the code
\* does not always set back, stay within the ring.
TypeOK ==
  /\ states \in Queue
  /\ notified \in BOOLEAN
  /\ rf \in {"ready", "waiting", "sending"}
  /\ held \in Caller \cup {NoCaller}
  /\ take \in Caller \cup {NoCaller}
  /\ sem \in BOOLEAN
  /\ events \in Seq(Caller)
  /\ pc \in [Caller -> Pcs]
  /\ radioCmds \in Seq(Caller) /\ radioEvts \in Seq(Caller \cup {NoCaller})
  /\ unread \in [OtherKind -> Nat]
  /\ dropped \in Nat /\ commands \in Nat /\ fails \in Nat /\ others \in Nat

\* The ring of causes has no gap between its indices and nothing outside, so
\* __rf_pop_state, which ends at an empty place, misses none.
QueueInOrder == InOrder(states)

\* For each event, frame or transmission that the radio holds a cause is queued:
\* nothing lies there unseen, and no cause stands for what was read before.
NothingStranded == \A k \in Kind : Waiting(k) = Count(states, k)

\* The task "rf" does not sleep on a queued cause: an interrupt between its last
\* look at the ring and ulTaskNotifyTake is not lost.
NoMissedWakeup == rf = "waiting" /\ Front(states) # "none" => notified

Confirming == {i \in DOMAIN radioEvts : radioEvts[i] # NoCaller}

Readers == {c \in Caller : pc[c] = "read"}

\* As many confirmations are under way, from the radio's queue of commands to
\* the callers' queue of events, as callers wait for one in hosal_rf_read_event,
\* but for those dropped because there was no memory.
ConfirmsConserved ==
  Cardinality(Readers) = Len(radioCmds) + Cardinality(Confirming) + Len(events)
                         + (IF rf = "sending" THEN 1 ELSE 0) + dropped

\* Every call of hosal_rf_ioctl returns, though a refused caller frees a lock
\* that may be another's and the semaphore's token may be an old one; unless a
\* confirmation was dropped, after which a caller waits for ever.
CommandReturns ==
  \A c \in Caller : pc[c] # "idle" ~> pc[c] = "idle" \/ dropped > 0
=============================================================================
