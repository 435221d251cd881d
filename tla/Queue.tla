------------------------------- MODULE Queue --------------------------------
(***************************************************************************)
(* queue.c: a queue that tasks send to, receive from, wait for and give    *)
(* up, and that interrupt handlers use without waiting.                    *)
(*                                                                         *)
(* Messages are copied between the buffer of the queue and the buffers of  *)
(* the tasks, which task->wait.item points to while a task waits.          *)
(***************************************************************************)
EXTENDS Application

CONSTANTS queue, Message, Length

ASSUME QueueAssumption ==
  /\ queue \in Object \ Mutex
  /\ NULL \notin Message \cup {"send", "receive"}
  /\ Length \in 1 .. 255

VARIABLES
  buffer, head, count,    \* of the queue
  item,                   \* what the buffer of a blocked task contains
  received                \* the message received last

vars == <<k, running, call, buffer, head, count, item, received>>
qvars == <<buffer, head, count>>

Init ==
  /\ ApplicationInit
  /\ buffer = [i \in 0 .. Length - 1 |-> NULL]
  /\ head = 0
  /\ count = 0
  /\ item = [t \in Thread |-> NULL]
  /\ received = NULL

----------------------------------------------------------------------------
\* Mutant: off by one at the end of the ring.
SlotLate(h, c) == IF h + c > Length THEN h + c - Length ELSE h + c

\* osQueueAppend, to a queue with that head and count.
Slot(h, c) == IF h + c >= Length THEN h + c - Length ELSE h + c

osQueueAppend(h, c, m) ==
  /\ buffer' = [buffer EXCEPT ![Slot(h, c)] = m]
  /\ count' = c + 1

Waiting == k.waiters[queue] # << >>
Waiter == Head(k.waiters[queue])

\* The call of a task ends with osSchedule, that of a handler need not.
Ends(kernel) ==
  /\ ~Returning
  /\ k' = osSchedule(kernel, 0) \/ k' = kernel
  /\ UNCHANGED <<running, call>>

\* The queue is empty, so whoever waits for it waits for a message.
Delivers == Waiting /\ count = 0

SendDelivers(m) ==
  /\ Delivers
  /\ item' = [item EXCEPT ![Waiter] = m]
  /\ Ends(osWake(k, Waiter, TRUE))
  /\ UNCHANGED <<buffer, head, count, received>>

SendAppends(m) ==
  /\ ~Delivers
  /\ count < Length
  /\ osQueueAppend(head, count, m)
  /\ Ends(k)
  /\ UNCHANGED <<head, item, received>>

\* The buffer of the task has the message: a receiver takes it from there.
SendWaits(m, timeout) ==
  /\ ~Returning
  /\ ~Delivers
  /\ count = Length
  /\ timeout # OS_NO_WAIT
  /\ k.current # osIdleTask
  /\ item' = [item EXCEPT ![k.current] = m]
  /\ Blocks(k, queue, timeout, "send")
  /\ UNCHANGED <<buffer, head, count, received>>

\* Mutant: the waiting sender stays where it is.
RefillLater(h, c) == /\ count' = c
                     /\ Ends(k)
                     /\ UNCHANGED buffer

\* Room for one more: it is filled with the message of the first sender.
Refill(h, c) ==
  IF Waiting
  THEN /\ osQueueAppend(h, c, item[Waiter])
       /\ Ends(osWake(k, Waiter, TRUE))
  ELSE /\ count' = c
       /\ Ends(k)
       /\ UNCHANGED buffer

Receive ==
  LET next == IF head + 1 = Length THEN 0 ELSE head + 1
  IN  /\ count > 0
      /\ received' = buffer[head]
      /\ head' = next
      /\ Refill(next, count - 1)
      /\ UNCHANGED item

ReceiveWaits(timeout) ==
  /\ ~Returning
  /\ count = 0
  /\ timeout # OS_NO_WAIT
  /\ k.current # osIdleTask
  /\ item' = [item EXCEPT ![k.current] = NULL]
  /\ Blocks(k, queue, timeout, "receive")
  /\ UNCHANGED <<buffer, head, count, received>>

\* No room or no message: with OS_NO_WAIT, or on behalf of the idle task.
Refused ==
  /\ count = 0 \/ (count = Length /\ ~Delivers)
  /\ Ends(k)
  /\ UNCHANGED <<buffer, head, count, item, received>>

\* The buffer of the task is its own again.
WaitReturns ==
  LET task == k.current
  IN  /\ Returns(osSchedule(k, 0))
      /\ received' = IF call[task] = "receive" /\ k.result[task] THEN item[task] ELSE received
      /\ item' = [item EXCEPT ![task] = NULL]
      /\ UNCHANGED <<buffer, head, count>>

Other ==
  /\ ApplicationNext
  /\ item' = [t \in Thread |-> IF k'.state[t] = "DEAD" THEN NULL ELSE item[t]]
  /\ UNCHANGED <<buffer, head, count, received>>

Next ==
  \/ \E m \in Message : SendDelivers(m) \/ SendAppends(m)
  \/ \E m \in Message, n \in Timeout : SendWaits(m, n)
  \/ Receive
  \/ \E n \in Timeout : ReceiveWaits(n)
  \/ Refused
  \/ WaitReturns
  \/ Other

Spec == Init /\ [][Next]_vars

----------------------------------------------------------------------------
\* Every variable has a value of its type.
TypeOK ==
  /\ ApplicationTypeOK({"send", "receive"})
  /\ buffer \in [0 .. Length - 1 -> Message \cup {NULL}]
  /\ head \in 0 .. Length - 1
  /\ count \in 0 .. Length
  /\ item \in [Thread -> Message \cup {NULL}]
  /\ received \in Message \cup {NULL}

(***************************************************************************)
(* One list serves senders and receivers: it has receivers only while the  *)
(* queue is empty and senders only while it is full (queue.c:55-57, 86).   *)
(***************************************************************************)
WaitersMatch ==
  \A t \in ToSet(k.waiters[queue]) :
    \/ call[t] = "receive" /\ count = 0
    \/ call[t] = "send" /\ count = Length

(***************************************************************************)
(* The queue is a bounded channel: messages are received in the order they *)
(* were sent, each once, through the ring or straight from sender to       *)
(* receiver, and a task whose wait ended is told what became of its        *)
(* message (queue.c:28-31).                                                *)
(***************************************************************************)
Place(t) ==
  IF call[t] = NULL THEN [at |-> "out"]
  ELSE IF k.state[t] = "BLOCKED"
  THEN IF call[t] = "send" THEN [at |-> "sending", msg |-> item[t]] ELSE [at |-> "receiving"]
  ELSE IF ~k.result[t] THEN [at |-> "failed"]
  ELSE IF call[t] = "send" THEN [at |-> "sent"] ELSE [at |-> "received", msg |-> item[t]]

Chan == INSTANCE Channel WITH
  Capacity <- Length,
  chan <- [i \in 1 .. count |-> buffer[(head + i - 1) % Length]],
  phase <- [t \in Thread |-> Place(t)]

BoundedChannel == Chan!ChannelSpec
=============================================================================
