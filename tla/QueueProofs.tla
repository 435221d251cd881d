---------------------------- MODULE QueueProofs -----------------------------
(***************************************************************************)
(* What holds of a queue of any length for any number of tasks and         *)
(* messages.                                                               *)
(***************************************************************************)
EXTENDS Queue, ApplicationProofs

Pending == {"send", "receive"}
Item == Message \cup {NULL}
Ring == [0 .. Length - 1 -> Item]

\* Everybody who waits does so for the queue, with a reason, and whoever has a
\* message to send still has it.
IInv ==
  /\ ApplicationInv(Pending)
  /\ buffer \in Ring
  /\ head \in 0 .. Length - 1 /\ count \in 0 .. Length
  /\ item \in [Thread -> Item]
  /\ received \in Item
  /\ \A t \in Thread :
       k.waitList[t] # NULL =>
         /\ k.waitList[t] = queue
         /\ \/ call[t] = "receive" /\ count = 0
            \/ call[t] = "send" /\ count = Length /\ item[t] \in Message

----------------------------------------------------------------------------
\* The ring.

\* What a ring contains, the oldest message first.
Contents(b, h, c) == [i \in 1 .. c |-> b[Slot(h, i - 1)]]

Following(h) == IF h + 1 = Length THEN 0 ELSE h + 1

\* Slot is addition modulo the length.
LEMMA SlotMod ==
  ASSUME NEW h \in 0 .. Length - 1, NEW i \in 0 .. Length - 1
  PROVE  (h + i) % Length = Slot(h, i) /\ Slot(h, i) \in 0 .. Length - 1
<1>1. Length \in Nat \ {0}
  BY QueueAssumption
<1>2. CASE h + i < Length
  <2>1. h + i \in 0 .. Length - 1
    BY <1>1, <1>2
  <2>. QED BY <1>1, <1>2, <2>1, ModTurn DEF Slot
<1>3. CASE h + i >= Length
  <2>. DEFINE x == h + i - Length
  <2>1. x \in 0 .. Length - 1 /\ x + Length = h + i
    BY <1>1, <1>3
  <2>. HIDE DEF x
  <2>2. (x + Length) % Length = x
    BY <1>1, <2>1, ModTurn
  <2>. QED BY <1>3, <2>1, <2>2 DEF Slot, x
<1>. QED
  BY <1>1, <1>2, <1>3

\* The slots of a ring are different ones.
LEMMA SlotsDiffer ==
  ASSUME NEW h \in 0 .. Length - 1, NEW i \in 0 .. Length - 1, NEW j \in 0 .. Length - 1, i # j
  PROVE  Slot(h, i) # Slot(h, j)
BY QueueAssumption DEF Slot

LEMMA RingType ==
  ASSUME NEW b \in Ring, NEW h \in 0 .. Length - 1, NEW c \in 0 .. Length
  PROVE  /\ Contents(b, h, c) \in Seq(Item) /\ Len(Contents(b, h, c)) = c
         /\ \A i \in 1 .. c : Contents(b, h, c)[i] = b[Slot(h, i - 1)]
<1>1. Length \in Nat /\ c \in Nat
  BY QueueAssumption
<1>2. \A i \in 1 .. c : b[Slot(h, i - 1)] \in Item
  <2>1. \A i \in 1 .. c : i - 1 \in 0 .. Length - 1
    BY <1>1
  <2>. QED BY <2>1, SlotMod DEF Ring
<1>3. Contents(b, h, c) \in [1 .. c -> Item]
  BY <1>2 DEF Contents
<1>4. Contents(b, h, c) \in Seq(Item)
  BY <1>1, <1>3
<1>. QED
  BY <1>1, <1>3, <1>4 DEF Contents

\* osQueueAppend appends.
LEMMA RingAppend ==
  ASSUME buffer \in Ring, NEW h \in 0 .. Length - 1,
         NEW c \in 0 .. Length - 1, NEW m \in Item, osQueueAppend(h, c, m)
  PROVE  /\ buffer' \in Ring /\ count' = c + 1
         /\ Contents(buffer', h, count') = Append(Contents(buffer, h, c), m)
<1>. DEFINE old == Contents(buffer, h, c)
            new == Contents(buffer', h, count')
<1>1. Length \in Nat /\ c \in Nat /\ c \in 0 .. Length /\ c + 1 \in 0 .. Length
  BY QueueAssumption
<1>2. Slot(h, c) \in 0 .. Length - 1
  BY SlotMod
<1>3. buffer' \in Ring /\ count' = c + 1
  BY <1>2 DEF osQueueAppend, Ring
<1>4. old \in Seq(Item) /\ Len(old) = c /\ \A i \in 1 .. c : old[i] = buffer[Slot(h, i - 1)]
  BY <1>1, RingType
<1>5. ASSUME NEW i \in 1 .. c + 1
      PROVE  buffer'[Slot(h, i - 1)] = IF i = c + 1 THEN m ELSE buffer[Slot(h, i - 1)]
  <2>1. i - 1 \in 0 .. Length - 1 /\ (i # c + 1 => i - 1 # c) /\ (i = c + 1 => i - 1 = c)
    BY <1>1
  <2>2. Slot(h, i - 1) \in 0 .. Length - 1 /\ (i # c + 1 => Slot(h, i - 1) # Slot(h, c))
    BY <2>1, SlotMod, SlotsDiffer
  <2>. QED BY <1>2, <2>1, <2>2 DEF osQueueAppend, Ring
<1>6. /\ new \in Seq(Item) /\ Len(new) = c + 1
      /\ \A i \in 1 .. c + 1 : new[i] = buffer'[Slot(h, i - 1)]
  <2>1. count' \in 0 .. Length
    BY <1>1, <1>3
  <2>2. new \in Seq(Item) /\ Len(new) = count' /\ \A i \in 1 .. count' : new[i] = buffer'[Slot(h, i - 1)]
    BY <1>3, <2>1, RingType
  <2>. QED BY <1>3, <2>2
<1>. HIDE DEF old, new
<1>7. ASSUME NEW i \in 1 .. c + 1
      PROVE  new[i] = IF i = c + 1 THEN m ELSE old[i]
  <2>1. new[i] = IF i = c + 1 THEN m ELSE buffer[Slot(h, i - 1)]
    BY <1>5, <1>6
  <2>2. i # c + 1 => i \in 1 .. c
    BY <1>1
  <2>. QED BY <1>4, <2>1, <2>2
<1>8. /\ Append(old, m) \in Seq(Item) /\ Len(Append(old, m)) = c + 1
      /\ \A i \in 1 .. c + 1 : Append(old, m)[i] = IF i = c + 1 THEN m ELSE old[i]
  BY <1>1, <1>4, AppendProperties
<1>9. new = Append(old, m)
  BY <1>6, <1>7, <1>8, SeqEqual
<1>. QED
  BY <1>3, <1>9 DEF new, old

\* Moving the head takes the oldest message.
LEMMA RingTail ==
  ASSUME NEW b \in Ring, NEW h \in 0 .. Length - 1, NEW c \in 1 .. Length
  PROVE  /\ Following(h) \in 0 .. Length - 1 /\ b[h] \in Item
         /\ Contents(b, h, c) # << >>
         /\ Head(Contents(b, h, c)) = b[h]
         /\ Contents(b, Following(h), c - 1) = Tail(Contents(b, h, c))
<1>. DEFINE old == Contents(b, h, c)
            new == Contents(b, Following(h), c - 1)
<1>1. Length \in Nat /\ c \in 0 .. Length /\ c - 1 \in 0 .. Length /\ 1 \in 1 .. c
  BY QueueAssumption
<1>2. Following(h) \in 0 .. Length - 1 /\ b[h] \in Item
  BY <1>1 DEF Following, Ring
<1>3. old \in Seq(Item) /\ Len(old) = c /\ \A i \in 1 .. c : old[i] = b[Slot(h, i - 1)]
  BY <1>1, RingType
<1>4. /\ new \in Seq(Item) /\ Len(new) = c - 1
      /\ \A i \in 1 .. c - 1 : new[i] = b[Slot(Following(h), i - 1)]
  BY <1>1, <1>2, RingType
<1>5. \A i \in 1 .. c - 1 : Slot(Following(h), i - 1) = Slot(h, i)
  BY <1>1 DEF Following, Slot
<1>6. Slot(h, 0) = h
  BY <1>1 DEF Slot
<1>. HIDE DEF old, new
<1>7. old # << >> /\ Head(old) = old[1]
  BY <1>1, <1>3
<1>8. /\ Tail(old) \in Seq(Item) /\ Len(Tail(old)) = c - 1
      /\ \A i \in 1 .. c - 1 : Tail(old)[i] = old[i + 1]
  BY <1>3, <1>7, HeadTailProperties
<1>9. \A i \in 1 .. c - 1 : old[i + 1] = b[Slot(h, i)]
  <2>1. \A i \in 1 .. c - 1 : i + 1 \in 1 .. c /\ (i + 1) - 1 = i
    BY <1>1
  <2>. QED BY <1>3, <2>1
<1>10. \A i \in 1 .. c - 1 : new[i] = Tail(old)[i]
  BY <1>4, <1>5, <1>8, <1>9
<1>11. new = Tail(old)
  BY <1>4, <1>8, <1>10, SeqEqual
<1>12. Head(old) = b[h]
  <2>1. old[1] = b[Slot(h, 1 - 1)]
    BY <1>1, <1>3
  <2>. QED BY <1>6, <1>7, <2>1
<1>. QED
  BY <1>2, <1>7, <1>11, <1>12 DEF old, new

----------------------------------------------------------------------------
\* The invariant.

LEMMA InitIInv == Init => IInv
<1>. SUFFICES ASSUME Init PROVE IInv
  OBVIOUS
<1>1. Length \in Nat \ {0}
  BY QueueAssumption
<1>2. ApplicationInv(Pending) /\ \A t \in Thread : k.waitList[t] = NULL
  BY ApplicationInitInv DEF Init
<1>. QED
  BY <1>1, <1>2 DEF Init, IInv, Ring, Item

\* The first task on the list waits, and if there is none nobody waits.
LEMMA Waiters ==
  ASSUME IInv
  PROVE  /\ ~Waiting => \A t \in Thread : k.waitList[t] = NULL
         /\ Waiting => Waiter \in Thread /\ k.waitList[Waiter] = queue
<1>1. /\ queue \in Object /\ k.waiters[queue] \in Seq(Thread)
      /\ ToSet(k.waiters[queue]) = {t \in Thread : k.waitList[t] = queue}
      /\ Injective(k.waiters[queue])
      /\ \A t \in Thread : k.waitList[t] \in {queue, NULL}
  BY QueueAssumption
     DEF IInv, ApplicationInv, KernelInv, Lists, WaitListsExact, KernelState
<1>2. ASSUME ~Waiting
      PROVE  \A t \in Thread : k.waitList[t] = NULL
  <2>1. ToSet(k.waiters[queue]) = {}
    BY <1>2 DEF ToSet, Waiting
  <2>. QED BY <1>1, <2>1
<1>3. ASSUME Waiting
      PROVE  Waiter \in ToSet(k.waiters[queue])
  BY <1>1, <1>3, HeadTail DEF Waiting, Waiter
<1>. QED
  BY <1>1, <1>2, <1>3

\* A call which wakes up nobody.
LEMMA EndsAlone ==
  ASSUME IInv, Ends(k)
  PROVE  ApplicationInv(Pending)' /\ \A t \in Thread : Steady(t)
<1>1. \A t \in Thread : Same(k, k, t)
  BY DEF Same
<1>. QED
  BY <1>1, GivesStep DEF IInv, ApplicationInv, Ends

\* A call which wakes up the first task on the list.
LEMMA EndsWaking ==
  ASSUME IInv, NEW w \in Thread, k.waitList[w] # NULL, Ends(osWake(k, w, TRUE))
  PROVE  /\ ApplicationInv(Pending)'
         /\ k.state[w] = "BLOCKED" /\ call[w] # NULL
         /\ Given(k', w) /\ call' = call
         /\ \A u \in Thread \ {w} : Steady(u)
<1>. DEFINE r == osWake(k, w, TRUE)
<1>1. KernelInv(k) /\ ApplicationInv(Pending)
  BY DEF IInv, ApplicationInv
<1>2. /\ KernelInv(r) /\ k.state[w] = "BLOCKED" /\ Given(r, w) /\ r.mutexes = k.mutexes
      /\ \A u \in Thread \ {w} : Same(r, k, u)
  BY <1>1, WakeGives
<1>3. (k' = r \/ k' = osSchedule(r, 0)) /\ running' = running /\ call' = call
  BY DEF Ends
<1>. HIDE DEF r
<1>4. ApplicationInv(Pending)' /\ Given(k', w) /\ \A u \in Thread \ {w} : Steady(u)
  BY <1>1, <1>2, <1>3, GivesStep
<1>5. call[w] # NULL
  BY <1>1 DEF ApplicationInv
<1>. QED
  BY <1>2, <1>3, <1>4, <1>5

\* What waits after a step waited before it, but for the given task.
LEMMA WaitKept ==
  ASSUME IInv, NEW t \in Thread,
         Steady(t) \/ Given(k', t) \/ Fails(t) \/ Delayed(t) \/ Dies(t)
  PROVE  k'.waitList[t] # NULL => k'.waitList[t] = k.waitList[t] /\ call'[t] = call[t]
BY DEF Steady, Same, Given, Fails, InVain, Delayed, Dies

LEMMA NextIInv == IInv /\ [Next]_vars => IInv'
<1>. SUFFICES ASSUME IInv, [Next]_vars PROVE IInv'
  OBVIOUS
<1>0. /\ ApplicationInv(Pending) /\ KernelInv(k)
      /\ buffer \in Ring
      /\ head \in 0 .. Length - 1 /\ count \in 0 .. Length
      /\ item \in [Thread -> Item]
      /\ received \in Item
      /\ Length \in Nat \ {0} /\ queue \in Object /\ queue # NULL
      /\ "send" \in Pending /\ "receive" \in Pending /\ "send" # NULL /\ "receive" # NULL
      /\ NULL \in Item /\ \A m \in Message : m \in Item
  BY QueueAssumption, KernelAssumption DEF IInv, ApplicationInv, Pending, Item
<1>. DEFINE Reason(t) ==
       k.waitList[t] # NULL =>
         /\ k.waitList[t] = queue
         /\ \/ call[t] = "receive" /\ count = 0
            \/ call[t] = "send" /\ count = Length /\ item[t] \in Message
<1>00. \A t \in Thread : Reason(t)
  BY DEF IInv
<1>1. ASSUME NEW m \in Message, SendDelivers(m)
      PROVE  IInv'
  <2>1. PICK w \in Thread : w = Waiter /\ k.waitList[w] = queue
    BY <1>1, Waiters DEF SendDelivers, Delivers
  <2>2. /\ count = 0 /\ count' = 0 /\ head' = head /\ buffer' = buffer /\ received' = received
        /\ item' = [item EXCEPT ![w] = m] /\ Ends(osWake(k, w, TRUE))
    BY <1>1, <2>1 DEF SendDelivers, Delivers
  <2>3. ApplicationInv(Pending)' /\ Given(k', w) /\ \A u \in Thread \ {w} : Steady(u)
    BY <1>0, <2>1, <2>2, EndsWaking
  <2>4. \A t \in Thread : Reason(t)'
    <3>1. ASSUME NEW t \in Thread, k'.waitList[t] # NULL
          PROVE  t # w /\ Steady(t)
      BY <2>3, <3>1 DEF Given
    <3>. QED BY <1>0, <1>00, <2>2, <3>1 DEF Steady, Same
  <2>5. item' \in [Thread -> Item]
    BY <1>0, <2>2
  <2>. QED BY <1>0, <2>2, <2>3, <2>4, <2>5 DEF IInv
<1>2. ASSUME NEW m \in Message, SendAppends(m)
      PROVE  IInv'
  <2>1. /\ count < Length /\ osQueueAppend(head, count, m) /\ Ends(k)
        /\ head' = head /\ item' = item /\ received' = received
        /\ (Waiting => count # 0)
    BY <1>2 DEF SendAppends, Delivers
  <2>2. ApplicationInv(Pending)' /\ \A t \in Thread : Steady(t)
    BY <2>1, EndsAlone
  <2>3. \A t \in Thread : k.waitList[t] = NULL
    <3>1. CASE Waiting
      BY <1>0, <1>00, <2>1, <3>1, Waiters
    <3>2. CASE ~Waiting
      BY <3>2, Waiters
    <3>. QED BY <3>1, <3>2
  <2>4. buffer' \in Ring /\ count' \in 0 .. Length
    <3>1. count \in 0 .. Length - 1
      BY <1>0, <2>1
    <3>2. buffer' \in Ring /\ count' = count + 1
      BY <1>0, <2>1, <3>1, RingAppend
    <3>. QED BY <3>1, <3>2, <1>0
  <2>5. \A t \in Thread : k'.waitList[t] = NULL
    BY <2>2, <2>3 DEF Steady, Same
  <2>. QED BY <1>0, <2>1, <2>2, <2>4, <2>5 DEF IInv
<1>3. ASSUME NEW m \in Message, NEW n \in Timeout, SendWaits(m, n)
      PROVE  IInv'
  <2>. PICK task \in Thread : task = k.current
    BY <1>0 DEF KernelInv, Lists, KernelState
  <2>1. /\ ~Returning /\ count = Length /\ task # osIdleTask
        /\ item' = [item EXCEPT ![task] = m]
        /\ Blocks(k, queue, n, "send") /\ n \in OsTick
        /\ buffer' = buffer /\ head' = head /\ count' = count /\ received' = received
    BY <1>3, ApplicationAssumption DEF SendWaits
  <2>2. /\ ApplicationInv(Pending)' /\ call'[task] = "send" /\ k'.waitList[task] = queue
        /\ \A u \in Thread \ {task} : Steady(u)
    BY <1>0, <2>1, BlocksStep
  <2>3. \A t \in Thread : Reason(t)'
    <3>1. ASSUME NEW t \in Thread PROVE Reason(t)'
      BY <1>0, <1>00, <2>1, <2>2 DEF Steady, Same
    <3>. QED BY <3>1
  <2>4. item' \in [Thread -> Item]
    BY <1>0, <2>1
  <2>. QED BY <1>0, <2>1, <2>2, <2>3, <2>4 DEF IInv
<1>4. CASE Receive
  <2>. DEFINE next == Following(head)
  <2>1. /\ count > 0 /\ received' = buffer[head] /\ head' = next /\ item' = item
        /\ Refill(next, count - 1)
    BY <1>4 DEF Receive, Following
  <2>2. /\ count \in 1 .. Length /\ next \in 0 .. Length - 1
        /\ received' \in Item
    <3>1. count \in 1 .. Length
      BY <1>0, <2>1
    <3>. QED BY <1>0, <2>1, <3>1, RingTail
  <2>. HIDE DEF next
  <2>3. CASE Waiting
    <3>1. PICK w \in Thread : w = Waiter /\ k.waitList[w] = queue
      BY <2>3, Waiters
    <3>2. osQueueAppend(next, count - 1, item[w]) /\ Ends(osWake(k, w, TRUE))
      BY <2>1, <2>3, <3>1 DEF Refill
    <3>3. count = Length /\ item[w] \in Message
      BY <1>0, <1>00, <2>1, <3>1
    <3>4. ApplicationInv(Pending)' /\ Given(k', w) /\ \A u \in Thread \ {w} : Steady(u)
      BY <1>0, <3>1, <3>2, EndsWaking
    <3>5. count' = count
      BY <1>0, <3>2 DEF osQueueAppend
    <3>6. \A t \in Thread : Reason(t)'
      <4>1. ASSUME NEW t \in Thread, k'.waitList[t] # NULL
            PROVE  t # w /\ Steady(t)
        BY <3>4, <4>1 DEF Given
      <4>. QED BY <1>0, <1>00, <2>1, <3>5, <4>1 DEF Steady, Same
    <3>7. buffer' \in Ring
      <4>1. count - 1 \in 0 .. Length - 1
        BY <1>0, <2>2
      <4>. QED BY <1>0, <2>2, <3>2, <3>3, <4>1, RingAppend
    <3>. QED BY <1>0, <2>1, <2>2, <3>4, <3>5, <3>6, <3>7 DEF IInv
  <2>4. CASE ~Waiting
    <3>1. count' = count - 1 /\ Ends(k) /\ buffer' = buffer
      BY <2>1, <2>4 DEF Refill
    <3>2. ApplicationInv(Pending)' /\ \A t \in Thread : Steady(t)
      BY <3>1, EndsAlone
    <3>3. \A t \in Thread : k'.waitList[t] = NULL
      BY <2>4, <3>2, Waiters DEF Steady, Same
    <3>4. count' \in 0 .. Length
      BY <1>0, <2>2, <3>1
    <3>. QED BY <1>0, <2>1, <2>2, <3>1, <3>2, <3>3, <3>4 DEF IInv
  <2>. QED BY <2>3, <2>4
<1>5. ASSUME NEW n \in Timeout, ReceiveWaits(n)
      PROVE  IInv'
  <2>. PICK task \in Thread : task = k.current
    BY <1>0 DEF KernelInv, Lists, KernelState
  <2>1. /\ ~Returning /\ count = 0 /\ task # osIdleTask
        /\ item' = [item EXCEPT ![task] = NULL]
        /\ Blocks(k, queue, n, "receive") /\ n \in OsTick
        /\ buffer' = buffer /\ head' = head /\ count' = count /\ received' = received
    BY <1>5, ApplicationAssumption DEF ReceiveWaits
  <2>2. /\ ApplicationInv(Pending)' /\ call'[task] = "receive" /\ k'.waitList[task] = queue
        /\ \A u \in Thread \ {task} : Steady(u)
    BY <1>0, <2>1, BlocksStep
  <2>3. \A t \in Thread : Reason(t)'
    <3>1. ASSUME NEW t \in Thread PROVE Reason(t)'
      BY <1>0, <1>00, <2>1, <2>2 DEF Steady, Same
    <3>. QED BY <3>1
  <2>4. item' \in [Thread -> Item]
    BY <1>0, <2>1
  <2>. QED BY <1>0, <2>1, <2>2, <2>3, <2>4 DEF IInv
<1>6. CASE Refused
  <2>1. Ends(k) /\ buffer' = buffer /\ head' = head /\ count' = count /\ item' = item
        /\ received' = received
    BY <1>6 DEF Refused
  <2>2. ApplicationInv(Pending)' /\ \A t \in Thread : Steady(t)
    BY <2>1, EndsAlone
  <2>3. \A t \in Thread : Reason(t)'
    BY <1>00, <2>1, <2>2 DEF Steady, Same
  <2>. QED BY <1>0, <2>1, <2>2, <2>3 DEF IInv
<1>7. CASE WaitReturns
  <2>. PICK task \in Thread : task = k.current
    BY <1>0 DEF KernelInv, Lists, KernelState
  <2>1. /\ Returns(osSchedule(k, 0)) /\ item' = [item EXCEPT ![task] = NULL]
        /\ received' = IF call[task] = "receive" /\ k.result[task] THEN item[task] ELSE received
        /\ buffer' = buffer /\ head' = head /\ count' = count
    BY <1>7 DEF WaitReturns
  <2>2. /\ ApplicationInv(Pending)' /\ k.state[task] = "RUNNING"
        /\ \A t \in Thread : Same(k', k, t)
        /\ \A u \in Thread \ {task} : call'[u] = call[u]
    <3>. DEFINE r == osSchedule(k, 0)
    <3>1. KernelInv(r) /\ Unaffected(r, k)
      BY <1>0, Schedule
    <3>. HIDE DEF r
    <3>. QED BY <1>0, <2>1, <3>1, ReturnsStep DEF r
  <2>3. ASSUME NEW t \in Thread PROVE Reason(t)'
    <3>1. CASE t = task
      <4>1. k.waitList[t] = NULL
        BY <1>0, <2>2, <3>1 DEF KernelInv, Lists, WaitListsExact
      <4>. QED BY <2>2, <4>1 DEF Same
    <3>2. CASE t # task
      BY <1>0, <1>00, <2>1, <2>2, <3>2 DEF Same
    <3>. QED BY <3>1, <3>2
  <2>4. item' \in [Thread -> Item] /\ received' \in Item
    BY <1>0, <2>1
  <2>. QED BY <1>0, <2>1, <2>2, <2>3, <2>4 DEF IInv
<1>8. CASE Other
  <2>1. /\ ApplicationNext /\ buffer' = buffer /\ head' = head /\ count' = count
        /\ received' = received
        /\ item' = [t \in Thread |-> IF k'.state[t] = "DEAD" THEN NULL ELSE item[t]]
    BY <1>8 DEF Other
  <2>2. ApplicationInv(Pending)' /\ ApplicationEffect
    BY <1>0, <2>1, ApplicationStep
  <2>3. ASSUME NEW t \in Thread PROVE Reason(t)'
    <3>1. Steady(t) \/ Fails(t) \/ Delayed(t) \/ Dies(t)
      BY <2>2 DEF ApplicationEffect
    <3>2. SUFFICES ASSUME k'.waitList[t] # NULL PROVE Reason(t)'
      OBVIOUS
    <3>3. k'.waitList[t] = k.waitList[t] /\ call'[t] = call[t]
      BY <3>1, <3>2, WaitKept
    <3>4. item'[t] = item[t]
      <4>1. k'.state[t] # "DEAD"
        BY <2>2, <3>2 DEF ApplicationInv
      <4>. QED BY <2>1, <4>1
    <3>. QED BY <1>00, <2>1, <3>3, <3>4
  <2>4. item' \in [Thread -> Item]
    BY <1>0, <2>1
  <2>. QED BY <1>0, <2>1, <2>2, <2>3, <2>4 DEF IInv
<1>9. CASE UNCHANGED vars
  BY <1>9 DEF vars, IInv, ApplicationInv
<1>. QED
  BY <1>1, <1>2, <1>3, <1>4, <1>5, <1>6, <1>7, <1>8, <1>9 DEF Next

\* In every state a task waits to receive only while the queue is empty and to
\* send only while it is full, with its message still in its hands, and head
\* and count stay within the ring (queue.c).
THEOREM QueueInvariant == Spec => []IInv
BY InitIInv, NextIInv, PTL DEF Spec

(***************************************************************************)
(* The kernel and the ring stay in order under queue.c: nothing is         *)
(* received that was not sent, head and count stay within the ring.        *)
(***************************************************************************)
THEOREM QueueTypeCorrect == Spec => []TypeOK
<1>1. IInv => TypeOK
  BY DEF IInv, ApplicationInv, KernelInv, Lists, TypeOK, ApplicationTypeOK, Pending, Ring, Item
<1>. QED
  BY <1>1, QueueInvariant, PTL

(***************************************************************************)
(* The one list never holds senders and receivers: receivers wait only     *)
(* while the queue is empty, senders only while it is full (queue.c:55-57, *)
(* 86), whoever times out or is deleted meanwhile.                         *)
(***************************************************************************)
THEOREM WaitersAlwaysMatch == Spec => []WaitersMatch
<1>1. IInv => WaitersMatch
  <2>. SUFFICES ASSUME IInv, NEW t \in ToSet(k.waiters[queue])
                PROVE  \/ call[t] = "receive" /\ count = 0
                       \/ call[t] = "send" /\ count = Length
    BY DEF WaitersMatch
  <2>1. t \in Thread /\ k.waitList[t] = queue /\ queue # NULL
    BY QueueAssumption, KernelAssumption
       DEF IInv, ApplicationInv, KernelInv, Lists, WaitListsExact
  <2>. QED BY <2>1 DEF IInv
<1>. QED
  BY <1>1, QueueInvariant, PTL

----------------------------------------------------------------------------
\* The queue is a channel.

\* Where a task is follows its waiting.
LEMMA PlaceSteps ==
  ASSUME IInv, ~MaySuspendWoken, NEW t \in Thread
  PROVE  /\ call[t] = NULL => Place(t) = [at |-> "out"]
         /\ k.waitList[t] # NULL /\ call[t] = "send" =>
              Place(t) = [at |-> "sending", msg |-> item[t]]
         /\ k.waitList[t] # NULL /\ call[t] = "receive" => Place(t) = [at |-> "receiving"]
         /\ k.waitList[t] = NULL => Place(t).at \notin {"sending", "receiving"}
         /\ Steady(t) /\ (item'[t] = item[t] \/ call[t] = NULL) => Place(t)' = Place(t)
         /\ Fails(t) => \/ Place(t)' = Place(t)
                        \/ /\ Place(t).at \in {"sending", "receiving"}
                           /\ Place(t)' = [at |-> "failed"]
         /\ Delayed(t) => Place(t)' = Place(t)
         /\ Dies(t) => Place(t)' = [at |-> "out"]
<1>1. /\ call[t] # NULL /\ k.state[t] = "BLOCKED" <=> k.waitList[t] # NULL
      /\ k.result[t] \in BOOLEAN
      /\ call[t] \in {"send", "receive", NULL} /\ NULL \notin {"send", "receive"}
  BY QueueAssumption DEF IInv, ApplicationInv, KernelInv, Lists, KernelState, Pending
<1>2. Place(t)' =
        IF call'[t] = NULL THEN [at |-> "out"]
        ELSE IF k'.state[t] = "BLOCKED"
        THEN IF call'[t] = "send" THEN [at |-> "sending", msg |-> item'[t]]
             ELSE [at |-> "receiving"]
        ELSE IF ~k'.result[t] THEN [at |-> "failed"]
        ELSE IF call'[t] = "send" THEN [at |-> "sent"] ELSE [at |-> "received", msg |-> item'[t]]
  BY DEF Place
<1>3. Steady(t) /\ (item'[t] = item[t] \/ call[t] = NULL) => Place(t)' = Place(t)
  BY <1>2 DEF Place, Steady, Same
<1>4. Fails(t) => \/ Place(t)' = Place(t)
                  \/ /\ Place(t).at \in {"sending", "receiving"}
                     /\ Place(t)' = [at |-> "failed"]
  BY <1>1, <1>2 DEF Place, Fails, InVain, Woken
<1>5. Delayed(t) => Place(t)' = Place(t)
  BY <1>2 DEF Place, Delayed
<1>6. Dies(t) => Place(t)' = [at |-> "out"]
  BY <1>2 DEF Dies
<1>7. k.waitList[t] = NULL => Place(t).at \notin {"sending", "receiving"}
  BY <1>1 DEF Place
<1>. QED
  BY <1>1, <1>3, <1>4, <1>5, <1>6, <1>7 DEF Place

LEMMA ChanIsContents ==
  ASSUME NEW b, NEW h \in 0 .. Length - 1, NEW c \in 0 .. Length
  PROVE  [i \in 1 .. c |-> b[(h + i - 1) % Length]] = Contents(b, h, c)
<1>1. ASSUME NEW i \in 1 .. c
      PROVE  (h + i - 1) % Length = Slot(h, i - 1)
  <2>1. i - 1 \in 0 .. Length - 1 /\ h + i - 1 = h + (i - 1)
    BY QueueAssumption
  <2>. QED BY <2>1, SlotMod
<1>. QED
  BY <1>1 DEF Contents

LEMMA RingLength ==
  ASSUME NEW b \in Ring, NEW h \in 0 .. Length - 1, NEW c \in 0 .. Length
  PROVE  Len(Contents(b, h, c)) = c /\ (c = 0 <=> Contents(b, h, c) = << >>)
<1>1. Contents(b, h, c) \in Seq(Item) /\ Len(Contents(b, h, c)) = c
  BY RingType
<1>. QED
  BY <1>1, EmptySeq

LEMMA ChannelStep ==
  ASSUME IInv, IInv', ~MaySuspendWoken, [Next]_vars
  PROVE  [Chan!ChannelNext]_(Chan!cvars)
<1>. DEFINE chan == [i \in 1 .. count |-> buffer[(head + i - 1) % Length]]
            phase == [t \in Thread |-> Place(t)]
<1>. PICK task \in Thread : task = k.current
  BY DEF IInv, ApplicationInv, KernelInv, Lists, KernelState
<1>0. /\ ApplicationInv(Pending) /\ KernelInv(k)
      /\ buffer \in Ring
      /\ head \in 0 .. Length - 1 /\ count \in 0 .. Length
      /\ item \in [Thread -> Item] /\ received \in Item
      /\ Length \in Nat \ {0} /\ queue \in Object /\ queue # NULL
      /\ "send" \in Pending /\ "receive" \in Pending /\ "send" # NULL /\ "receive" # NULL
      /\ k.state[task] = "RUNNING"
      /\ \A m \in Message : m \in Item
  <2>1. NULL \notin Object /\ NULL # "send" /\ NULL # "receive"
    BY QueueAssumption, KernelAssumption
  <2>. QED BY <2>1, QueueAssumption
           DEF IInv, ApplicationInv, KernelInv, CurrentExact, Pending, Item
<1>1. chan = Contents(buffer, head, count)
  BY <1>0, ChanIsContents
<1>2. chan' = Contents(buffer', head', count')
  <2>1. head' \in 0 .. Length - 1 /\ count' \in 0 .. Length
    BY DEF IInv
  <2>2. [i \in 1 .. count' |-> buffer'[(head' + i - 1) % Length]] = Contents(buffer', head', count')
    BY <2>1, ChanIsContents
  <2>. QED BY <2>2
<1>3. Len(chan) = count /\ (count = 0 <=> chan = << >>)
  <2>. HIDE DEF chan
  <2>. QED BY <1>0, <1>1, RingLength
<1>. HIDE DEF chan
<1>4. \A t \in Thread : phase[t] = Place(t)
  OBVIOUS
<1>5. phase' = [t \in Thread |-> Place(t)']
  OBVIOUS
<1>6. ASSUME NEW t \in Thread,
             \A u \in Thread \ {t} : Steady(u) /\ item'[u] = item[u]
      PROVE  phase' = [phase EXCEPT ![t] = Place(t)']
  <2>1. \A u \in Thread \ {t} : Place(u)' = Place(u)
    BY <1>6, PlaceSteps
  <2>. QED BY <2>1, <1>5
<1>7. ASSUME \A u \in Thread : Steady(u) /\ item'[u] = item[u]
      PROVE  phase' = phase
  <2>1. \A u \in Thread : Place(u)' = Place(u)
    BY <1>7, PlaceSteps
  <2>. QED BY <2>1, <1>5
<1>8. ~Returning => Place(task) = [at |-> "out"]
  BY PlaceSteps DEF Returning
<1>9. ASSUME buffer' = buffer, head' = head, count' = count
      PROVE  chan' = chan
  BY <1>1, <1>2, <1>9
<1>10. ASSUME NEW m \in Message, SendDelivers(m)
       PROVE  Chan!ChannelNext
  <2>1. PICK w \in Thread : w = Waiter /\ k.waitList[w] = queue
    BY <1>10, Waiters DEF SendDelivers, Delivers
  <2>2. /\ count = 0 /\ count' = 0 /\ head' = head /\ buffer' = buffer /\ received' = received
        /\ item' = [item EXCEPT ![w] = m] /\ Ends(osWake(k, w, TRUE))
    BY <1>10, <2>1 DEF SendDelivers, Delivers
  <2>3. Given(k', w) /\ call' = call /\ \A u \in Thread \ {w} : Steady(u)
    BY <1>0, <2>1, <2>2, EndsWaking
  <2>4. call[w] = "receive"
    BY <1>0, <2>1, <2>2 DEF IInv
  <2>5. Place(w) = [at |-> "receiving"] /\ Place(w)' = [at |-> "received", msg |-> m]
    <3>1. item'[w] = m
      BY <1>0, <2>2
    <3>. QED BY <1>0, <2>1, <2>3, <2>4, <3>1, PlaceSteps DEF Place, Given
  <2>6. phase' = [phase EXCEPT ![w] = [at |-> "received", msg |-> m]]
    BY <1>0, <1>6, <2>2, <2>3, <2>5
  <2>7. chan = << >> /\ chan' = chan
    BY <1>3, <1>9, <2>2
  <2>8. Chan!Deliver(m, w)
    BY <1>4, <2>2, <2>5, <2>6, <2>7 DEF Chan!Deliver, Chan!At, Chan!Enter, chan
  <2>. QED BY <2>8 DEF Chan!ChannelNext
<1>11. ASSUME NEW m \in Message, SendAppends(m)
       PROVE  Chan!ChannelNext
  <2>1. /\ count < Length /\ osQueueAppend(head, count, m) /\ Ends(k)
        /\ head' = head /\ item' = item /\ received' = received
        /\ (Waiting => count # 0)
    BY <1>11 DEF SendAppends, Delivers
  <2>2. phase' = phase
    BY <1>7, <2>1, EndsAlone
  <2>3. \A t \in Thread : k.waitList[t] = NULL
    <3>1. CASE Waiting
      BY <1>0, <2>1, <3>1, Waiters DEF IInv
    <3>2. CASE ~Waiting
      BY <3>2, Waiters
    <3>. QED BY <3>1, <3>2
  <2>4. chan' = Append(chan, m)
    <3>1. count \in 0 .. Length - 1 /\ m \in Item
      BY <1>0, <2>1
    <3>2. Contents(buffer', head, count') = Append(Contents(buffer, head, count), m)
      BY <1>0, <2>1, <3>1, RingAppend
    <3>. QED BY <1>1, <1>2, <2>1, <3>2
  <2>5. \A t \in Thread : phase[t].at # "receiving"
    BY <1>4, <2>3, PlaceSteps
  <2>6. Chan!Put(m)
    BY <1>3, <2>1, <2>2, <2>4, <2>5 DEF Chan!Put, Chan!Nobody, Chan!At, chan
  <2>. QED BY <2>6 DEF Chan!ChannelNext
<1>12. ASSUME NEW m \in Message, NEW n \in Timeout, SendWaits(m, n)
       PROVE  Chan!ChannelNext
  <2>1. /\ ~Returning /\ count = Length /\ task # osIdleTask
        /\ item' = [item EXCEPT ![task] = m]
        /\ Blocks(k, queue, n, "send") /\ n \in OsTick
        /\ buffer' = buffer /\ head' = head /\ count' = count /\ received' = received
    BY <1>12, ApplicationAssumption DEF SendWaits
  <2>2. /\ call'[task] = "send" /\ k'.state[task] = "BLOCKED"
        /\ \A u \in Thread \ {task} : Steady(u)
    BY <1>0, <2>1, BlocksStep
  <2>3. Place(task)' = [at |-> "sending", msg |-> m]
    <3>1. item'[task] = m
      BY <1>0, <2>1
    <3>. QED BY <1>0, <2>2, <3>1 DEF Place
  <2>4. phase' = [phase EXCEPT ![task] = [at |-> "sending", msg |-> m]]
    BY <1>0, <1>6, <2>1, <2>2, <2>3
  <2>5. chan' = chan /\ phase[task].at = "out"
    BY <1>4, <1>8, <1>9, <2>1
  <2>6. Chan!WaitToSend(task, m)
    BY <1>3, <2>1, <2>4, <2>5 DEF Chan!WaitToSend, Chan!At, Chan!Enter, chan
  <2>. QED BY <2>6 DEF Chan!ChannelNext
<1>13. CASE Receive
  <2>. DEFINE next == Following(head)
  <2>1. /\ count > 0 /\ received' = buffer[head] /\ head' = next /\ item' = item
        /\ Refill(next, count - 1)
    BY <1>13 DEF Receive, Following
  <2>2. count \in 1 .. Length
    BY <1>0, <2>1
  <2>3. /\ next \in 0 .. Length - 1
        /\ chan # << >> /\ received' = Head(chan)
        /\ Contents(buffer, next, count - 1) = Tail(chan)
    BY <1>0, <1>1, <2>1, <2>2, RingTail
  <2>. HIDE DEF next
  <2>4. CASE Waiting
    <3>1. PICK w \in Thread : w = Waiter /\ k.waitList[w] = queue
      BY <2>4, Waiters
    <3>2. osQueueAppend(next, count - 1, item[w]) /\ Ends(osWake(k, w, TRUE))
      BY <2>1, <2>4, <3>1 DEF Refill
    <3>3. call[w] = "send" /\ item[w] \in Message
      BY <1>0, <2>1, <3>1 DEF IInv
    <3>4. Given(k', w) /\ call' = call /\ \A u \in Thread \ {w} : Steady(u)
      BY <1>0, <3>1, <3>2, EndsWaking
    <3>5. Place(w) = [at |-> "sending", msg |-> item[w]] /\ Place(w)' = [at |-> "sent"]
      BY <1>0, <3>1, <3>3, <3>4, PlaceSteps DEF Place, Given
    <3>6. phase' = [phase EXCEPT ![w] = [at |-> "sent"]]
      BY <1>6, <2>1, <3>4, <3>5
    <3>7. chan' = Append(Tail(chan), phase[w].msg)
      <4>1. count - 1 \in 0 .. Length - 1 /\ item[w] \in Item
        BY <1>0, <2>2, <3>3
      <4>2. Contents(buffer', next, count') = Append(Contents(buffer, next, count - 1), item[w])
        BY <1>0, <2>3, <3>2, <4>1, RingAppend
      <4>3. phase[w].msg = item[w]
        BY <1>4, <3>5
      <4>. QED BY <1>2, <2>1, <2>3, <4>2, <4>3
    <3>8. phase[w].at = "sending"
      BY <1>4, <3>5
    <3>9. Chan!GetAndRefill(w)
      BY <2>3, <3>6, <3>7, <3>8 DEF Chan!GetAndRefill, Chan!At, Chan!Enter, chan
    <3>. QED BY <3>9 DEF Chan!ChannelNext
  <2>5. CASE ~Waiting
    <3>1. count' = count - 1 /\ Ends(k) /\ buffer' = buffer
      BY <2>1, <2>5 DEF Refill
    <3>2. phase' = phase
      BY <1>7, <2>1, <3>1, EndsAlone
    <3>3. \A t \in Thread : phase[t].at # "sending"
      BY <1>4, <2>5, Waiters, PlaceSteps
    <3>4. chan' = Tail(chan)
      BY <1>2, <2>1, <2>3, <3>1
    <3>5. Chan!Get
      BY <2>3, <3>2, <3>3, <3>4 DEF Chan!Get, Chan!Nobody, Chan!At, chan
    <3>. QED BY <3>5 DEF Chan!ChannelNext
  <2>. QED BY <2>4, <2>5
<1>14. ASSUME NEW n \in Timeout, ReceiveWaits(n)
       PROVE  Chan!ChannelNext
  <2>1. /\ ~Returning /\ count = 0 /\ task # osIdleTask
        /\ item' = [item EXCEPT ![task] = NULL]
        /\ Blocks(k, queue, n, "receive") /\ n \in OsTick
        /\ buffer' = buffer /\ head' = head /\ count' = count /\ received' = received
    BY <1>14, ApplicationAssumption DEF ReceiveWaits
  <2>2. /\ call'[task] = "receive" /\ k'.state[task] = "BLOCKED"
        /\ \A u \in Thread \ {task} : Steady(u)
    BY <1>0, <2>1, BlocksStep
  <2>3. Place(task)' = [at |-> "receiving"]
    BY <1>0, <2>2 DEF Place
  <2>4. phase' = [phase EXCEPT ![task] = [at |-> "receiving"]]
    BY <1>0, <1>6, <2>1, <2>2, <2>3
  <2>5. chan = << >> /\ chan' = chan /\ phase[task].at = "out"
    BY <1>3, <1>4, <1>8, <1>9, <2>1
  <2>6. Chan!WaitToReceive(task)
    BY <2>1, <2>4, <2>5 DEF Chan!WaitToReceive, Chan!At, Chan!Enter, chan
  <2>. QED BY <2>6 DEF Chan!ChannelNext
<1>15. CASE Refused
  <2>1. Ends(k) /\ buffer' = buffer /\ head' = head /\ count' = count /\ item' = item
        /\ received' = received
    BY <1>15 DEF Refused
  <2>2. phase' = phase
    BY <1>7, <2>1, EndsAlone
  <2>3. chan' = chan
    BY <1>9, <2>1
  <2>. QED BY <2>1, <2>2, <2>3 DEF Chan!cvars, chan
<1>16. CASE WaitReturns
  <2>1. /\ Returns(osSchedule(k, 0)) /\ item' = [item EXCEPT ![task] = NULL]
        /\ received' = IF call[task] = "receive" /\ k.result[task] THEN item[task] ELSE received
        /\ buffer' = buffer /\ head' = head /\ count' = count
    BY <1>16 DEF WaitReturns
  <2>2. /\ call[task] # NULL /\ call'[task] = NULL
        /\ \A t \in Thread : Same(k', k, t)
        /\ \A u \in Thread \ {task} : call'[u] = call[u]
    <3>. DEFINE r == osSchedule(k, 0)
    <3>1. KernelInv(r) /\ Unaffected(r, k)
      BY <1>0, Schedule
    <3>. HIDE DEF r
    <3>. QED BY <1>0, <2>1, <3>1, ReturnsStep DEF r
  <2>3. \A u \in Thread \ {task} : Steady(u) /\ item'[u] = item[u]
    BY <1>0, <2>1, <2>2 DEF Steady
  <2>4. Place(task)' = [at |-> "out"]
    BY <2>2 DEF Place
  <2>5. phase' = [phase EXCEPT ![task] = [at |-> "out"]]
    BY <1>6, <2>3, <2>4
  <2>6. /\ phase[task].at \in {"sent", "failed", "received"}
        /\ received' = IF phase[task].at = "received" THEN phase[task].msg ELSE received
    <3>1. k.result[task] \in BOOLEAN /\ call[task] \in {"send", "receive"}
      BY <1>0, <2>2 DEF ApplicationInv, KernelInv, Lists, KernelState, Pending
    <3>. QED BY <1>0, <1>4, <2>1, <2>2, <3>1 DEF Place
  <2>7. chan' = chan
    BY <1>9, <2>1
  <2>8. Chan!Return(task)
    BY <2>5, <2>6, <2>7 DEF Chan!Return, Chan!At, Chan!Enter, Chan!Out, chan
  <2>. QED BY <2>8 DEF Chan!ChannelNext
<1>17. CASE Other
  <2>1. /\ ApplicationNext /\ buffer' = buffer /\ head' = head /\ count' = count
        /\ received' = received
        /\ item' = [t \in Thread |-> IF k'.state[t] = "DEAD" THEN NULL ELSE item[t]]
    BY <1>17 DEF Other
  <2>2. ApplicationInv(Pending)' /\ ApplicationEffect
    BY <1>0, <2>1, ApplicationStep
  <2>3. chan' = chan
    BY <1>9, <2>1
  <2>4. ASSUME NEW t \in Thread, Steady(t)
        PROVE  item'[t] = item[t] \/ call[t] = NULL
    BY <1>0, <2>1, <2>2, <2>4 DEF Steady, Same, ApplicationInv
  <2>5. ASSUME \A t \in Thread : Steady(t) \/ Fails(t) \/ Delayed(t)
        PROVE  Chan!ChannelNext
    <3>. DEFINE S == {t \in Thread : /\ Place(t).at \in {"sending", "receiving"}
                                     /\ Place(t)' = [at |-> "failed"]}
    <3>1. \A t \in Thread : Place(t)' = IF t \in S THEN [at |-> "failed"] ELSE Place(t)
      BY <2>4, <2>5, PlaceSteps
    <3>2. phase' = [t \in Thread |-> IF t \in S THEN [at |-> "failed"] ELSE phase[t]]
      BY <1>4, <1>5, <3>1
    <3>3. \A t \in S : phase[t].at \in {"sending", "receiving"}
      BY <1>4
    <3>4. S \in SUBSET Thread
      OBVIOUS
    <3>. HIDE DEF S
    <3>5. Chan!Expire(S)
      BY <2>1, <2>3, <3>2, <3>3, <3>4 DEF Chan!Expire, Chan!At, chan
    <3>. QED BY <3>4, <3>5 DEF Chan!ChannelNext
  <2>6. ASSUME NEW t \in Task, Dies(t), \A u \in Thread \ {t} : Steady(u)
        PROVE  [Chan!ChannelNext]_(Chan!cvars)
    <3>1. t \in Thread
      BY DEF Thread
    <3>2. phase' = [phase EXCEPT ![t] = [at |-> "out"]]
      <4>1. \A u \in Thread \ {t} : Place(u)' = Place(u)
        BY <2>4, <2>6, PlaceSteps
      <4>2. Place(t)' = [at |-> "out"]
        BY <2>6, <3>1, PlaceSteps
      <4>. QED BY <1>5, <4>1, <4>2
    <3>3. CASE phase[t].at = "out"
      <4>1. phase[t] = [at |-> "out"]
        BY <1>4, <3>1, <3>3 DEF Place
      <4>2. phase' = phase
        BY <3>1, <3>2, <4>1
      <4>. QED BY <2>1, <2>3, <4>2 DEF Chan!cvars, chan
    <3>4. CASE phase[t].at # "out"
      <4>1. Chan!Die(t)
        BY <2>1, <2>3, <3>2, <3>4 DEF Chan!Die, Chan!At, Chan!Enter, Chan!Out, chan
      <4>. QED BY <3>1, <4>1 DEF Chan!ChannelNext
    <3>. QED BY <3>3, <3>4
  <2>. QED BY <2>2, <2>5, <2>6 DEF ApplicationEffect
<1>18. CASE UNCHANGED vars
  <2>1. phase' = phase /\ chan' = chan /\ received' = received
    BY <1>9, <1>18 DEF vars, Place
  <2>. QED BY <2>1 DEF Chan!cvars, chan
<1>. QED
  BY <1>10, <1>11, <1>12, <1>13, <1>14, <1>15, <1>16, <1>17, <1>18 DEF Next

(***************************************************************************)
(* queue.c is a bounded channel: messages come out in the order they went  *)
(* in, each once, whether through the ring or straight from the sender to  *)
(* a waiting receiver, and whoever waited is told the truth about its      *)
(* message (queue.c:28-31); provided nobody suspends a task that has been  *)
(* served and has not run since (osTaskSuspend, tasks.c:150).              *)
(***************************************************************************)
THEOREM QueueIsAChannel ==
  ASSUME ~MaySuspendWoken
  PROVE  Spec => BoundedChannel
<1>1. Init => Chan!ChannelInit
  <2>. SUFFICES ASSUME Init PROVE Chan!ChannelInit
    OBVIOUS
  <2>1. \A t \in Thread : Place(t) = [at |-> "out"]
    BY DEF Init, ApplicationInit, Place
  <2>2. count = 0 /\ received = NULL /\ NULL \notin Message
    BY QueueAssumption DEF Init
  <2>3. [i \in 1 .. count |-> buffer[(head + i - 1) % Length]] = << >>
    BY <2>2
  <2>. QED BY <2>1, <2>2, <2>3 DEF Chan!ChannelInit, Chan!Out
<1>2. IInv /\ IInv' /\ [Next]_vars => [Chan!ChannelNext]_(Chan!cvars)
  BY ChannelStep
<1>. QED
  BY <1>1, <1>2, QueueInvariant, PTL DEF Spec, BoundedChannel, Chan!ChannelSpec
=============================================================================
