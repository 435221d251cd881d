-------------------------- MODULE SchedulerProofs --------------------------
(***************************************************************************)
(* What holds of the scheduler for any number of tasks and any values of   *)
(* the configuration.                                                      *)
(***************************************************************************)
EXTENDS Scheduler, Timer, KernelProofs

\* The invariants need one another: osDispatch takes a task from the ready
\* list, which is not empty because the idle task is on it, which it is if
\* the list is exact, which it stays because no task is put on it twice.
IInv == TypeOK /\ KernelInv(k) /\ (pending \/ Top(k))

LEMMA InitIInv == Init => IInv
<1>. SUFFICES ASSUME Init PROVE IInv
  OBVIOUS
<1>1. KernelInv(k)
  BY InitInv DEF Init
<1>2. k \in KernelState
  BY <1>1 DEF KernelInv, Lists
<1>3. running \in BOOLEAN /\ pending \in BOOLEAN
  BY DEF Init
<1>4. left \in [Thread -> Int]
  BY DEF Init
<1>5. Top(k)
  <2>1. k.readyList = << >>
    BY DEF Init, osInit
  <2>. QED BY <2>1 DEF Top, ToSet
<1>. QED
  BY <1>1, <1>2, <1>3, <1>4, <1>5 DEF IInv, TypeOK

\* The counting of left changes no kernel.
LEMMA ElapseType ==
  ASSUME NEW count \in [Thread -> Int], Elapse(count)
  PROVE  left' \in [Thread -> Int]
BY DEF Elapse

LEMMA CallIInv ==
  ASSUME TypeOK, NEW kernel, KernelInv(kernel), Top(kernel), Call(kernel)
  PROVE  IInv'
<1>1. k' = kernel /\ pending' = FALSE /\ running' = running /\ left' \in [Thread -> Int]
  BY ElapseType DEF Call, TypeOK
<1>2. KernelInv(k)' /\ Top(k)'
  BY <1>1
<1>. QED
  BY <1>1, <1>2 DEF IInv, TypeOK, KernelInv, Lists

\* The ticks left of a period as osDelayUntil computes them, by the counter:
\* 0 and more than the period both mean that it is over.
LEMMA TicksLeft ==
  ASSUME NEW M \in Nat \ {0}, NEW ticks \in 0 .. M - 1, NEW late \in 0 .. M - 1,
         NEW interval \in 0 .. M - 1, NEW rest \in Int,
         rest = (((ticks - late) % M) + interval - ticks) % M
  PROVE  /\ late < interval => rest = interval - late
         /\ (rest - 1) % M < interval <=> late < interval
<1>. DEFINE previous == (ticks - late) % M
<1>1. previous = ticks - late \/ previous = ticks - late + M
  <2>1. CASE late <= ticks
    BY <2>1, ticks - late \in 0 .. M - 1, ModTurn
  <2>2. CASE late > ticks
    <3>1. ticks - late + M \in 0 .. M - 1
      BY <2>2
    <3>2. (ticks - late + M - M) % M = ticks - late + M
      BY <3>1, ModTurn
    <3>3. ticks - late + M - M = ticks - late
      OBVIOUS
    <3>. QED BY <3>2, <3>3
  <2>. QED BY <2>1, <2>2
<1>2. rest = (previous + interval - ticks) % M
  OBVIOUS
<1>. HIDE DEF previous
<1>3. previous + interval - ticks \in {interval - late, interval - late + M}
  BY <1>1
<1>4. CASE late < interval
  <2>1. interval - late \in 0 .. M - 1
    BY <1>4
  <2>2. rest = interval - late
    BY <1>2, <1>3, <2>1, ModTurn
  <2>3. (rest - 1) % M = rest - 1
    BY <1>4, <2>2, rest - 1 \in 0 .. M - 1, ModTurn
  <2>. QED BY <1>4, <2>2, <2>3
<1>5. CASE late = interval
  <2>1. rest = 0
    <3>1. 0 \in 0 .. M - 1 /\ interval - late = 0
      BY <1>5
    <3>2. 0 % M = 0 /\ (0 + M) % M = 0
      BY <3>1, ModTurn
    <3>. QED BY <1>2, <1>3, <3>1, <3>2
  <2>2. (rest - 1) % M = M - 1
    <3>1. (M - 1 - M) % M = M - 1
      BY M - 1 \in 0 .. M - 1, ModTurn
    <3>. QED BY <2>1, <3>1
  <2>. QED BY <1>5, <2>2
<1>6. CASE late > interval
  <2>1. interval - late + M \in 0 .. M - 1
    BY <1>6
  <2>2. rest = interval - late + M
    <3>1. (interval - late + M) % M = interval - late + M
          /\ (interval - late + M - M) % M = interval - late + M
      BY <2>1, ModTurn, SMTT(30)
    <3>2. interval - late + M - M = interval - late
      OBVIOUS
    <3>. QED BY <1>2, <1>3, <3>1, <3>2
  <2>3. (rest - 1) % M = rest - 1
    BY <1>6, <2>2, rest - 1 \in 0 .. M - 1, ModTurn
  <2>. QED BY <1>6, <2>2, <2>3
<1>. QED
  BY <1>4, <1>5, <1>6

\* osDelayUntil is osDelay for the rest of its period.
LEMMA UntilIsDelay ==
  ASSUME NEW kernel, kernel.ticks \in OsTick,
         NEW late \in OsTick, NEW interval \in 0 .. OS_WAIT_FOREVER - 1
  PROVE  osDelayUntil(kernel, (kernel.ticks - late) % OS_TICKS, interval) =
           IF late < interval THEN osDelay(kernel, interval - late) ELSE kernel
<1>. DEFINE previous == (kernel.ticks - late) % OS_TICKS
            rest == (previous + interval - kernel.ticks) % OS_TICKS
<1>1. OS_TICKS \in Nat \ {0} /\ OsTick = 0 .. OS_TICKS - 1 /\ interval \in 0 .. OS_TICKS - 1
  BY KernelAssumption DEF OsTick, OS_WAIT_FOREVER
<1>2. rest \in Int
  <2>1. OS_TICKS \in Nat \ {0} /\ kernel.ticks \in Int /\ late \in Int /\ interval \in Int
    BY <1>1
  <2>2. previous \in Int
    BY <2>1
  <2>. HIDE DEF previous
  <2>3. previous + interval - kernel.ticks \in Int
    BY <2>1, <2>2
  <2>. QED BY <2>1, <2>3
<1>3. /\ late < interval => rest = interval - late
      /\ (rest - 1) % OS_TICKS < interval <=> late < interval
  BY <1>1, <1>2, TicksLeft
<1>4. osDelayUntil(kernel, previous, interval) =
        IF (rest - 1) % OS_TICKS < interval THEN osBlock(kernel, NULL, rest) ELSE kernel
  BY DEF osDelayUntil
<1>5. late < interval => osDelay(kernel, interval - late) = osBlock(kernel, NULL, interval - late)
  BY <1>1 DEF osDelay
<1>. HIDE DEF rest, previous
<1>6. osDelayUntil(kernel, previous, interval) =
        IF late < interval THEN osDelay(kernel, interval - late) ELSE kernel
  BY <1>3, <1>4, <1>5
<1>. QED
  BY <1>6 DEF previous

----------------------------------------------------------------------------
(***************************************************************************)
(* What aging may do here, where nobody waits for a mutex: it is the only  *)
(* reason to be above the priority the application gave, and it ends at    *)
(* its limit.                                                              *)
(***************************************************************************)
Plain(r) ==
  \A t \in Thread :
    /\ r.mutexes[t] = << >> /\ r.waitList[t] = NULL /\ "MUTEX" \notin r.flags[t]
    /\ r.basePriority[t] <= r.priority[t]
    /\ \/ r.priority[t] = r.basePriority[t]
       \/ OS_CFG_AGING /\ r.priority[t] <= OS_CFG_AGING_LIMIT

\* A task that is not the current one any more, but may be again, has its own
\* priority back.
Ends(r, k0) ==
  r.current # k0.current /\ r.state[k0.current] \notin {"DEAD", "SUSPENDED"}
    => r.priority[k0.current] = r.basePriority[k0.current]

LEMMA EasedPlain ==
  ASSUME NEW k0, NEW r, Eased(r, k0), \A t \in Thread : r.mutexes[t] = k0.mutexes[t], Plain(k0)
  PROVE  Plain(r)
BY DEF Plain, Eased, WaitEased

LEMMA UnaffectedPlain ==
  ASSUME NEW k0, NEW r, Eased(r, k0), Unaffected(r, k0), Plain(k0)
  PROVE  Plain(r)
BY EasedPlain DEF Unaffected, Same

\* To fall back to what it inherits is to get the given priority back.
LEMMA LoweredPlain ==
  ASSUME NEW k0, Lists(k0), NEW t \in Thread, NEW r, Lowered(r, k0, t), Plain(k0)
  PROVE  Plain(r)
<1>1. osInheritedPriority(k0, t) = k0.basePriority[t]
  BY ListsQueued, InheritedBounds DEF Plain
<1>2. /\ k0.priority \in [Thread -> Priority] /\ k0.basePriority \in [Thread -> Priority]
      /\ Priority \subseteq Int
  BY KernelAssumption DEF Lists, KernelState, Priority, MainPriority
<1>3. k0.basePriority[t] \in Int
  <2>1. k0.basePriority[t] \in Priority
    BY <1>2
  <2>. QED BY <1>2, <2>1
<1>4. /\ r.mutexes = k0.mutexes /\ r.basePriority = k0.basePriority
      /\ r.flags = k0.flags /\ r.waitList = k0.waitList
      /\ \A u \in Thread \ {t} : r.priority[u] = k0.priority[u]
      /\ r.priority[t] \in {k0.priority[t], k0.basePriority[t]}
  BY <1>1, <1>2 DEF Lowered, Kept
<1>. QED
  BY <1>3, <1>4 DEF Plain

LEMMA SettledPlain ==
  ASSUME NEW k0, Lists(k0), NEW t \in Thread, Plain(k0)
  PROVE  osSettle(k0, t).priority[t] = k0.basePriority[t]
<1>1. osInheritedPriority(k0, t) = k0.basePriority[t]
  BY ListsQueued, InheritedBounds DEF Plain
<1>. QED
  BY <1>1 DEF Plain, osSettle, Lists, KernelState

\* The current task of a kernel and how it settles.
LEMMA CurrentSettles ==
  ASSUME NEW k0, KernelInv(k0), Plain(k0)
  PROVE  LET s == osSettle(k0, k0.current)
         IN  /\ k0.current \in Thread /\ Reordered(s, k0) /\ KernelInv(s) /\ Plain(s)
             /\ s.basePriority = k0.basePriority /\ s.readyList = k0.readyList
             /\ s.priority[k0.current] = k0.basePriority[k0.current]
<1>. DEFINE t == k0.current
            s == osSettle(k0, t)
<1>1. t \in Thread /\ k0.state[t] \notin {"READY", "BLOCKED"} /\ Lists(k0)
  BY DEF KernelInv, Lists, KernelState, CurrentExact
<1>2. Reordered(s, k0) /\ Lowered(s, k0, t) /\ s.readyList = k0.readyList
  BY <1>1, Settle
<1>3. s.priority[t] = k0.basePriority[t]
  BY <1>1, SettledPlain
<1>. HIDE DEF s
<1>4. KernelInv(s)
  BY <1>2, ReorderedInv
<1>5. Plain(s)
  BY <1>1, <1>2, LoweredPlain
<1>. QED
  BY <1>1, <1>2, <1>3, <1>4, <1>5 DEF Reordered, Kept, s, t

\* Whoever gives the processor away with osSchedule has settled.
LEMMA SchedulePlain ==
  ASSUME NEW k0, KernelInv(k0), NEW yield \in {0, 1}, Plain(k0)
  PROVE  Plain(osSchedule(k0, yield)) /\ Ends(osSchedule(k0, yield), k0)
<1>. DEFINE r == osSchedule(k0, yield)
            s == osSettle(k0, k0.current)
<1>1. Unaffected(r, k0) /\ (r = k0 \/ Eased(r, s))
  BY Schedule
<1>2. /\ k0.current \in Thread /\ Reordered(s, k0) /\ Plain(s)
      /\ s.basePriority = k0.basePriority
      /\ s.priority[k0.current] = k0.basePriority[k0.current]
  BY CurrentSettles
<1>. HIDE DEF r, s
<1>3. CASE r = k0
  BY <1>3 DEF Ends, r
<1>4. CASE Eased(r, s)
  <2>1. \A t \in Thread : r.mutexes[t] = s.mutexes[t]
    BY <1>1, <1>2 DEF Unaffected, Same, Reordered, Kept
  <2>2. Plain(r)
    BY <1>2, <1>4, <2>1, EasedPlain
  <2>. QED BY <1>2, <1>4, <2>2 DEF Eased, Ends, r
<1>. QED
  BY <1>1, <1>3, <1>4

LEMMA ScheduleAfter ==
  ASSUME NEW k0, NEW q, KernelInv(q), Plain(q), q.current = k0.current, NEW yield \in {0, 1}
  PROVE  Plain(osSchedule(q, yield)) /\ Ends(osSchedule(q, yield), k0)
BY SchedulePlain DEF Ends

LEMMA CreatePlain ==
  ASSUME NEW k0, KernelInv(k0), Plain(k0), NEW t \in Thread, k0.state[t] = "DEAD", NEW p \in Priority
  PROVE  Plain(osTaskCreate(k0, t, p)) /\ Ends(osTaskCreate(k0, t, p), k0)
<1>. DEFINE c == Cleared(k0, t, p)
            ready == osReady(c, t)
            q == osTaskPriority(p)
<1>1. /\ c.waitList = k0.waitList /\ c.flags = k0.flags
      /\ c.mutexes = [k0.mutexes EXCEPT ![t] = << >>]
      /\ c.priority = [k0.priority EXCEPT ![t] = q]
      /\ c.basePriority = [k0.basePriority EXCEPT ![t] = q]
      /\ KernelInv(ready) /\ ready.mutexes = c.mutexes /\ Eased(ready, c)
      /\ ready.current = k0.current
      /\ osTaskCreate(k0, t, p) = osSchedule(ready, 0)
  <2>. HIDE DEF c, ready, q
  <2>1. LET b == Cleared(k0, t, p)
            o == osReady(b, t)
        IN  /\ KernelInv(b) /\ b.state = k0.state /\ b.current = k0.current
            /\ b.waitList = k0.waitList /\ b.owner = k0.owner /\ b.flags = k0.flags
            /\ b.result = [k0.result EXCEPT ![t] = FALSE]
            /\ b.mutexes = [k0.mutexes EXCEPT ![t] = << >>]
            /\ b.priority = [k0.priority EXCEPT ![t] = osTaskPriority(p)]
            /\ b.basePriority = [k0.basePriority EXCEPT ![t] = osTaskPriority(p)]
            /\ KernelInv(o) /\ Kept(o, b) /\ o.waitList = b.waitList
            /\ o.state = [k0.state EXCEPT ![t] = "READY"] /\ o.current = k0.current
            /\ Eased(o, b)
            /\ osTaskCreate(k0, t, p) = osSchedule(o, 0)
    BY CreateParts
  <2>. QED BY <2>1 DEF c, ready, q, Kept
<1>4. q \in Int
  BY TaskPriorityType, KernelAssumption DEF Priority, MainPriority
<1>. HIDE DEF c, ready, q
<1>2. Plain(c)
  <2>1. /\ k0.priority \in [Thread -> Priority] /\ k0.basePriority \in [Thread -> Priority]
        /\ k0.mutexes \in [Thread -> Seq(Mutex)]
    BY DEF KernelInv, Lists, KernelState
  <2>2. ASSUME NEW u \in Thread
        PROVE  /\ c.mutexes[u] = IF u = t THEN << >> ELSE k0.mutexes[u]
               /\ c.priority[u] = IF u = t THEN q ELSE k0.priority[u]
               /\ c.basePriority[u] = IF u = t THEN q ELSE k0.basePriority[u]
    BY <1>1, <2>1
  <2>. QED BY <1>1, <1>4, <2>2 DEF Plain
<1>3. Plain(ready)
  BY <1>1, <1>2, EasedPlain
<1>. QED
  BY <1>1, <1>3, ScheduleAfter

LEMMA DeletePlain ==
  ASSUME NEW k0, KernelInv(k0), Plain(k0), NEW t \in Thread, t # osIdleTask, k0.state[t] # "DEAD"
  PROVE  Plain(osTaskDelete(k0, t)) /\ Ends(osTaskDelete(k0, t), k0)
<1>. DEFINE gone == Gone(k0, t)
            released == Emptied(k0, t)
            r == osTaskDelete(k0, t)
<1>1. /\ Eased(gone, k0) /\ gone.mutexes = k0.mutexes
      /\ Unaffected(r, released)
      /\ t = k0.current => Eased(r, released) /\ r.state[t] = "DEAD"
      /\ t # k0.current => /\ KernelInv(released) /\ released.current = k0.current
                          /\ r = osSchedule(released, 0)
  BY DeleteParts DEF Kept
<1>2. released = gone
  BY <1>1, ReleaseNothing DEF Emptied, Plain
<1>. HIDE DEF gone, released, r
<1>3. Plain(gone)
  BY <1>1, EasedPlain
<1>4. CASE t = k0.current
  <2>1. Plain(r)
    BY <1>1, <1>2, <1>3, <1>4, UnaffectedPlain
  <2>. QED BY <1>1, <1>4, <2>1 DEF Ends, r
<1>5. CASE t # k0.current
  BY <1>1, <1>2, <1>3, <1>5, ScheduleAfter DEF r
<1>. QED
  BY <1>4, <1>5

LEMMA SuspendPlain ==
  ASSUME NEW k0, KernelInv(k0), Plain(k0), NEW t \in Thread
  PROVE  Plain(osTaskSuspend(k0, t)) /\ Ends(osTaskSuspend(k0, t), k0)
<1>. DEFINE r == osTaskSuspend(k0, t)
<1>1. /\ Unaffected(r, k0) \/ Unavailing(r, k0, t)
      /\ Eased(r, k0) /\ (r.current = k0.current \/ r.state[k0.current] = "SUSPENDED")
  BY SuspendInv
<1>. HIDE DEF r
<1>2. \A u \in Thread : r.mutexes[u] = k0.mutexes[u]
  BY <1>1 DEF Unaffected, Unavailing, Only, Same
<1>. QED
  BY <1>1, <1>2, EasedPlain DEF Ends, r

\* A task that resumes is ready, before the scheduler is called or not.
LEMMA ResumePlain ==
  ASSUME NEW k0, KernelInv(k0), Plain(k0), NEW t \in Thread
  PROVE  LET q == osTaskResumeFromISR(k0, t)
         IN  /\ KernelInv(q) /\ Plain(q) /\ q.current = k0.current
             /\ Plain(osSchedule(q, 0)) /\ Ends(osSchedule(q, 0), k0)
<1>. DEFINE q == osTaskResumeFromISR(k0, t)
<1>1. KernelInv(q) /\ Unaffected(q, k0) /\ Eased(q, k0) /\ q.current = k0.current
  BY ResumeInv
<1>. HIDE DEF q
<1>2. Plain(q)
  BY <1>1, UnaffectedPlain
<1>. QED
  BY <1>1, <1>2, ScheduleAfter DEF q

\* The task has exactly the priority it is given, as it inherits none.
LEMMA SetPriorityPlain ==
  ASSUME NEW k0, KernelInv(k0), Plain(k0), NEW t \in Thread, NEW p \in Priority
  PROVE  Plain(osTaskSetPriority(k0, t, p)) /\ Ends(osTaskSetPriority(k0, t, p), k0)
<1>. DEFINE q == osTaskPriority(p)
            b == Rebased(k0, t, p)
            m == Repositioned(k0, t, p)
<1>1. /\ q \in Priority
      /\ KernelInv(b) /\ b.flags = k0.flags /\ b.waitList = k0.waitList
      /\ b.priority = k0.priority /\ b.owner = k0.owner /\ b.mutexes = k0.mutexes
      /\ b.basePriority = [k0.basePriority EXCEPT ![t] = q]
      /\ b.state = k0.state /\ b.current = k0.current
      /\ KernelInv(m) /\ Reordered(m, b) /\ m.current = k0.current
      /\ osTaskSetPriority(k0, t, p) = osSchedule(m, 0)
  BY SetPriorityParts
<1>2. m = IF osInheritedPriority(b, t) > k0.priority[t]
          THEN osPriorityRaise(b, t, osInheritedPriority(b, t)) ELSE LowerToInherited(b, t)
  BY DEF Repositioned
<1>. HIDE DEF q, b, m
<1>3. /\ k0.priority \in [Thread -> Priority] /\ k0.basePriority \in [Thread -> Priority]
      /\ Priority \subseteq Int
  BY KernelAssumption DEF KernelInv, Lists, KernelState, Priority, MainPriority
<1>4. ASSUME NEW u \in Thread
      PROVE  /\ k0.priority[u] \in Int /\ k0.basePriority[u] \in Int /\ q \in Int
             /\ b.basePriority[u] = IF u = t THEN q ELSE k0.basePriority[u]
  <2>1. k0.priority[u] \in Priority /\ k0.basePriority[u] \in Priority
    BY <1>3
  <2>. QED BY <1>1, <1>3, <2>1
<1>5. osInheritedPriority(b, t) = q
  <2>1. b.mutexes[t] = << >> /\ Queued(b)
    BY <1>1, ListsQueued DEF Plain, KernelInv
  <2>2. osInheritedPriority(b, t) = b.basePriority[t]
    BY <2>1, InheritedBounds
  <2>. QED BY <1>4, <2>2
<1>6. /\ m.priority[t] = q
      /\ \A u \in Thread \ {t} : m.priority[u] = k0.priority[u]
  <2>0. Lists(b)
    BY <1>1 DEF KernelInv
  <2>1. CASE q > k0.priority[t]
    <3>. DEFINE raised == osPriorityRaise(b, t, q)
    <3>1. /\ \A u \in Thread :
               \/ raised.priority[u] = b.priority[u]
               \/ b.priority[u] < q /\ raised.priority[u] = q /\ (u = t \/ IsOwner(b, u))
          /\ q <= raised.priority[t]
      BY <1>1, <2>0, PriorityRaise
    <3>. HIDE DEF raised
    <3>2. m = raised
      BY <1>2, <1>5, <2>1 DEF raised
    <3>3. \A u \in Thread : ~IsOwner(b, u)
      BY <1>1 DEF IsOwner, Plain
    <3>4. ASSUME NEW u \in Thread \ {t} PROVE m.priority[u] = k0.priority[u]
      BY <1>1, <3>1, <3>2, <3>3
    <3>5. m.priority[t] = q
      BY <1>1, <1>4, <2>1, <3>1, <3>2
    <3>. QED BY <3>4, <3>5
  <2>2. CASE ~(q > k0.priority[t])
    <3>1. m = LowerToInherited(b, t)
      BY <1>2, <1>5, <2>2
    <3>2. m.priority = IF q < b.priority[t] THEN [b.priority EXCEPT ![t] = q] ELSE b.priority
      BY <1>5, <2>0, <3>1, Lower
    <3>. QED BY <1>1, <1>3, <1>4, <2>2, <3>2
  <2>. QED BY <2>1, <2>2
<1>7. Plain(m)
  <2>1. m.flags = k0.flags /\ m.waitList = k0.waitList /\ m.mutexes = k0.mutexes
        /\ m.basePriority = b.basePriority
    BY <1>1 DEF Reordered, Kept
  <2>2. ASSUME NEW u \in Thread
        PROVE  /\ m.basePriority[u] <= m.priority[u]
               /\ \/ m.priority[u] = m.basePriority[u]
                  \/ OS_CFG_AGING /\ m.priority[u] <= OS_CFG_AGING_LIMIT
    BY <1>4, <1>6, <2>1 DEF Plain
  <2>. QED BY <2>1, <2>2 DEF Plain
<1>. QED
  BY <1>1, <1>7, ScheduleAfter

\* A task that blocks settles first.
LEMMA DelayPlain ==
  ASSUME NEW k0, KernelInv(k0), Plain(k0), NEW ticks \in OsTick
  PROVE  Plain(osDelay(k0, ticks)) /\ Ends(osDelay(k0, ticks), k0)
<1>1. CASE ticks = 0
  BY <1>1, SchedulePlain DEF osDelay
<1>2. CASE ticks # 0
  <2>. DEFINE r == osBlock(k0, NULL, ticks)
              t == k0.current
  <2>1. /\ t = osIdleTask => Unaffected(r, k0) /\ Eased(r, k0)
        /\ t # osIdleTask =>
             /\ Settled(r, k0, t) /\ r.mutexes = k0.mutexes
             /\ r.waitList[t] = NULL
    <3>. HIDE DEF r, t
    <3>1. LET b == osBlock(k0, NULL, ticks)
              task == k0.current
          IN  /\ KernelInv(b)
              /\ task = osIdleTask => Unaffected(b, k0) /\ (Top(k0) => Top(b)) /\ Eased(b, k0)
              /\ task # osIdleTask =>
                   /\ Top(b) /\ Settled(b, k0, task)
                   /\ Only(b, k0, task) /\ b.mutexes = k0.mutexes
                   /\ b.state[task] = "BLOCKED" /\ b.waitList[task] = NULL
      BY NULL \in Object \cup {NULL}, BlockInv, ZenonT(60)
    <3>. QED BY <3>1 DEF r, t
  <2>2. t = osIdleTask => r = SetState(k0, t, "RUNNING")
    BY DEF osBlock
  <2>3. osDelay(k0, ticks) = r
    BY <1>2 DEF osDelay
  <2>. HIDE DEF r
  <2>4. /\ t \in Thread /\ Plain(osSettle(k0, t))
        /\ osSettle(k0, t).basePriority = k0.basePriority
        /\ osSettle(k0, t).priority[t] = k0.basePriority[t]
    BY CurrentSettles
  <2>. HIDE DEF t
  <2>5. CASE t = osIdleTask
    <3>1. r.current = t
      BY <2>2, <2>5 DEF SetState, KernelInv, Lists, KernelState, t
    <3>. QED BY <2>1, <2>3, <2>5, <3>1, UnaffectedPlain DEF Ends, t
  <2>6. CASE t # osIdleTask
    <3>1. r.priority = osSettle(k0, t).priority /\ r.basePriority = k0.basePriority
      BY <2>1, <2>6 DEF Settled
    <3>2. r.priority[t] = r.basePriority[t]
      BY <2>4, <3>1
    <3>3. ASSUME NEW u \in Thread
          PROVE  r.mutexes[u] = << >> /\ r.waitList[u] = NULL /\ "MUTEX" \notin r.flags[u]
      BY <2>1, <2>6 DEF Plain, Settled, WaitEased
    <3>4. Plain(r)
      BY <2>4, <3>1, <3>3 DEF Plain
    <3>. QED BY <2>3, <3>2, <3>4 DEF Ends, t
  <2>. QED BY <2>5, <2>6
<1>. QED
  BY <1>1, <1>2

\* Aging ends at its limit and spares the current task.
LEMMA AgingPlain ==
  ASSUME NEW k0, KernelInv(k0), Plain(k0)
  PROVE  Plain(TickAging(k0)) /\ TickAging(k0).current = k0.current
<1>. DEFINE s == osSettle(k0, k0.current)
            older == [s EXCEPT !.aging = s.aging - 1]
            priority == [t \in Thread |-> IF Aged(s, t) THEN s.priority[t] + 1 ELSE s.priority[t]]
            aged == [s EXCEPT !.aging = OS_CFG_AGING_TICKS, !.priority = priority]
<1>1. KernelInv(s) /\ Plain(s) /\ s.current = k0.current
  BY CurrentSettles DEF Reordered
<1>2. TickAging(k0) = IF ~OS_CFG_AGING THEN k0 ELSE IF s.aging > 1 THEN older ELSE aged
  BY DEF TickAging
<1>. HIDE DEF s
<1>3. Plain(older) /\ older.current = s.current
  BY <1>1 DEF Plain, KernelInv, Lists, KernelState
<1>4. OS_CFG_AGING => Plain(aged) /\ aged.current = s.current
  <2>1. /\ s.priority \in [Thread -> Priority] /\ s.basePriority \in [Thread -> Priority]
        /\ Priority \subseteq Int /\ OS_CFG_AGING_LIMIT \in Int
    <3>1. s \in KernelState
      BY <1>1 DEF KernelInv, Lists
    <3>2. s.priority \in [Thread -> Priority] /\ s.basePriority \in [Thread -> Priority]
      BY <3>1 DEF KernelState
    <3>3. Priority \subseteq Int /\ OS_CFG_AGING_LIMIT \in Int
      BY KernelAssumption DEF Priority, MainPriority
    <3>. QED BY <3>2, <3>3
  <2>2. \A t \in Thread : priority[t] = IF Aged(s, t) THEN s.priority[t] + 1 ELSE s.priority[t]
    OBVIOUS
  <2>. HIDE DEF priority
  <2>3. /\ aged.current = s.current /\ aged.mutexes = s.mutexes /\ aged.waitList = s.waitList
        /\ aged.flags = s.flags /\ aged.basePriority = s.basePriority
        /\ aged.priority = priority
    BY <1>1 DEF KernelInv, Lists, KernelState
  <2>. HIDE DEF aged
  <2>4. ASSUME OS_CFG_AGING, NEW t \in Thread
        PROVE  /\ aged.basePriority[t] <= aged.priority[t]
               /\ \/ aged.priority[t] = aged.basePriority[t]
                  \/ aged.priority[t] <= OS_CFG_AGING_LIMIT
    <3>1. s.priority[t] \in Priority /\ s.basePriority[t] \in Priority
      BY <2>1
    <3>2. s.priority[t] \in Int /\ s.basePriority[t] \in Int
      BY <2>1, <3>1
    <3>3. CASE Aged(s, t)
      <4>1. priority[t] = s.priority[t] + 1 /\ s.priority[t] < OS_CFG_AGING_LIMIT
        BY <2>2, <3>3 DEF Aged
      <4>2. s.basePriority[t] <= s.priority[t]
        BY <1>1 DEF Plain
      <4>. QED BY <2>1, <2>3, <3>2, <4>1, <4>2
    <3>4. CASE ~Aged(s, t)
      <4>1. priority[t] = s.priority[t]
        BY <2>2, <3>4
      <4>. QED BY <1>1, <2>3, <4>1 DEF Plain
    <3>. QED BY <3>3, <3>4
  <2>. QED BY <1>1, <2>3, <2>4 DEF Plain
<1>. HIDE DEF older, aged
<1>. QED
  BY <1>1, <1>2, <1>3, <1>4

LEMMA TickPlain ==
  ASSUME NEW k0, KernelInv(k0), Plain(k0)
  PROVE  Plain(osTickHandler(k0)) /\ Ends(osTickHandler(k0), k0)
<1>. DEFINE late == TickTimeouts(k0)
            aged == TickAging(late)
<1>1. KernelInv(late) /\ late.current = k0.current /\ Expired(late, k0) /\ Eased(late, k0)
  BY Timeouts
<1>. HIDE DEF late
<1>2. Plain(late)
  BY <1>1, EasedPlain DEF Expired
<1>3. KernelInv(aged) /\ Plain(aged) /\ aged.current = k0.current
  BY <1>1, <1>2, AgingInv, AgingPlain
<1>. HIDE DEF aged
<1>4. OS_CFG_ROUND_ROBIN \in {0, 1}
  BY KernelAssumption
<1>. QED
  BY <1>3, <1>4, ScheduleAfter DEF osTickHandler, aged, late

LEMMA RunPlain ==
  ASSUME NEW k0, KernelInv(k0), Plain(k0), k0.current = osIdleTask
  PROVE  Plain(osRun(k0)) /\ Ends(osRun(k0), k0)
<1>. DEFINE r == Humbled(k0)
<1>1. /\ KernelInv(r) /\ r.current = k0.current
      /\ r.flags = k0.flags /\ r.waitList = k0.waitList /\ r.mutexes = k0.mutexes
      /\ r.priority = [k0.priority EXCEPT ![osIdleTask] = 0]
      /\ r.basePriority = [k0.basePriority EXCEPT ![osIdleTask] = 0]
      /\ osRun(k0) = osSchedule(r, 0)
  BY RunParts
<1>. HIDE DEF r
<1>2. k0.priority \in [Thread -> Priority] /\ k0.basePriority \in [Thread -> Priority]
  BY DEF KernelInv, Lists, KernelState
<1>3. Plain(r)
  BY <1>1, <1>2 DEF Plain
<1>. QED
  BY <1>1, <1>3, ScheduleAfter

LEMMA InitPlain == Plain(osInit)
<1>1. MainPriority \in Int
  BY KernelAssumption DEF MainPriority
<1>. QED
  BY <1>1 DEF Plain, osInit

----------------------------------------------------------------------------
(***************************************************************************)
(* The timers.  Most functions have nothing to do with them: it is enough  *)
(* that they leave the list and the clock alone, which needs little of the *)
(* record they are applied to.                                             *)
(***************************************************************************)

\* What the functions need of the record to leave the timers alone.
HasTimers(r) == {"timerList", "ticks", "state", "flags"} \subseteq DOMAIN r

\* The timers and the clock are as they were.
Untimed(r, k0) == HasTimers(r) /\ r.timerList = k0.timerList /\ r.ticks = k0.ticks

LEMMA SetStateUntimed ==
  ASSUME NEW k0, HasTimers(k0), NEW t, NEW s
  PROVE  Untimed(SetState(k0, t, s), k0)
BY DEF HasTimers, Untimed, SetState

LEMMA DispatchUntimed ==
  ASSUME NEW k0, HasTimers(k0)
  PROVE  Untimed(osDispatch(k0), k0)
<1>. DEFINE h == Head(k0.readyList)
            s == SetState(k0, h, "RUNNING")
<1>1. Untimed(s, k0)
  BY SetStateUntimed
<1>2. osDispatch(k0) = [s EXCEPT !.readyList = Tail(s.readyList), !.current = h]
  BY DEF osDispatch
<1>. HIDE DEF s, h
<1>. QED
  BY <1>1, <1>2 DEF HasTimers, Untimed

LEMMA ReadyUntimed ==
  ASSUME NEW k0, HasTimers(k0), NEW t
  PROVE  Untimed(osReady(k0, t), k0)
<1>. DEFINE s == SetState(k0, t, "READY")
<1>1. Untimed(s, k0)
  BY SetStateUntimed
<1>2. osReady(k0, t) = [s EXCEPT !.readyList = osListInsert(k0, s.readyList, t, k0.priority[t])]
  BY DEF osReady
<1>. HIDE DEF s
<1>. QED
  BY <1>1, <1>2 DEF HasTimers, Untimed

LEMMA SettleUntimed ==
  ASSUME NEW k0, HasTimers(k0), NEW t
  PROVE  Untimed(osSettle(k0, t), k0)
BY DEF HasTimers, Untimed, osSettle

LEMMA RequeueUntimed ==
  ASSUME NEW k0, HasTimers(k0), NEW t
  PROVE  Untimed(osRequeue(k0, t), k0)
<1>1. \A l : Untimed([k0 EXCEPT !.readyList = l], k0)
  BY DEF HasTimers, Untimed
<1>2. \A l, o : Untimed([k0 EXCEPT !.waiters[o] = l], k0)
  BY DEF HasTimers, Untimed
<1>3. Untimed(k0, k0)
  BY DEF Untimed
<1>. QED
  BY <1>1, <1>2, <1>3 DEF osRequeue

LEMMA ScheduleUntimed ==
  ASSUME NEW k0, HasTimers(k0), NEW yield
  PROVE  Untimed(osSchedule(k0, yield), k0)
<1>. DEFINE task == k0.current
            s == osSettle(k0, task)
            settled == SetState(s, task, "READY")
            key == settled.priority[task] + 1 - yield
            list == osListInsert(settled, settled.readyList, task, key)
            ready == [settled EXCEPT !.readyList = list]
<1>1. osSchedule(k0, yield) = IF osScheduleNeeded(k0, yield) THEN osDispatch(ready) ELSE k0
  BY DEF osSchedule
<1>2. Untimed(settled, k0)
  BY SettleUntimed, SetStateUntimed DEF Untimed
<1>. HIDE DEF settled, list
<1>3. Untimed(ready, k0)
  BY <1>2 DEF HasTimers, Untimed
<1>. HIDE DEF ready
<1>4. Untimed(osDispatch(ready), k0)
  BY <1>3, DispatchUntimed DEF Untimed
<1>. QED
  BY <1>1, <1>4 DEF Untimed

LEMMA LowerUntimed ==
  ASSUME NEW k0, HasTimers(k0), NEW t
  PROVE  Untimed(LowerToInherited(k0, t), k0)
<1>. DEFINE p == osInheritedPriority(k0, t)
            s == [k0 EXCEPT !.priority[t] = p]
<1>1. LowerToInherited(k0, t) = IF p < k0.priority[t] THEN osRequeue(s, t) ELSE k0
  BY DEF LowerToInherited
<1>. HIDE DEF p
<1>2. Untimed(s, k0)
  BY DEF HasTimers, Untimed
<1>. HIDE DEF s
<1>3. Untimed(osRequeue(s, t), k0)
  BY <1>2, RequeueUntimed DEF Untimed
<1>. QED
  BY <1>1, <1>3 DEF Untimed

LEMMA RaiseUntimed ==
  ASSUME NEW k0, HasTimers(k0), NEW t, NEW p
  PROVE  Untimed(osPriorityRaise(k0, t, p), k0)
<1>. DEFINE n == Cardinality(Mutex) + 1
            first == [kernel |-> k0, task |-> t]
            walk[i \in 0 .. n] == IF i = 0 THEN first ELSE RaiseNext(walk[i - 1], k0, p)
<1>1. n \in Nat
  BY KernelAssumption, FS_CardinalityType
<1>2. osPriorityRaise(k0, t, p) = walk[n].kernel
  BY DEF osPriorityRaise, RaiseNext, RaiseStep
<1>. HIDE DEF n, first
<1>3. walk = [i \in 0 .. n |-> IF i = 0 THEN first ELSE RaiseNext(walk[i - 1], k0, p)]
  <2>1. \E f : IsWalk(f, n, first, k0, p)
    BY <1>1, WalkExists
  <2>2. \E f : f = [i \in 0 .. n |-> IF i = 0 THEN first ELSE RaiseNext(f[i - 1], k0, p)]
    BY <2>1 DEF IsWalk
  <2>. QED BY <2>2
<1>. HIDE DEF walk
<1>. DEFINE Inv(i) == Untimed(walk[i].kernel, k0)
<1>4. Inv(0)
  BY <1>1, <1>3 DEF first, Untimed
<1>5. ASSUME NEW i \in 1 .. n, Inv(i - 1)
      PROVE  Inv(i)
  <2>. DEFINE s == walk[i - 1]
              raised == [s.kernel EXCEPT !.priority[s.task] = p]
  <2>0. i \in 0 .. n /\ i # 0
    BY <1>1
  <2>1. walk[i] = RaiseNext(s, k0, p)
    BY <1>3, <2>0
  <2>2. RaiseNext(s, k0, p).kernel \in {s.kernel, osRequeue(raised, s.task)}
    BY DEF RaiseNext, RaiseStep
  <2>3. Untimed(s.kernel, k0)
    BY <1>5
  <2>. HIDE DEF s
  <2>4. Untimed(raised, k0)
    BY <2>3 DEF HasTimers, Untimed
  <2>. HIDE DEF raised
  <2>5. Untimed(osRequeue(raised, s.task), k0)
    BY <2>4, RequeueUntimed DEF Untimed
  <2>. QED BY <2>1, <2>2, <2>3, <2>5
<1>6. Inv(n)
  <2>. HIDE DEF Inv
  <2>. DEFINE D == {i \in 0 .. n : ~Inv(i)}
  <2>1. SUFFICES ASSUME D # {} PROVE FALSE
    BY <1>1, <2>1
  <2>2. D \in SUBSET Nat
    OBVIOUS
  <2>3. PICK i \in D : \A j \in D : i <= j
    BY <2>1, <2>2, MinIsLeast
  <2>4. i # 0
    BY <1>4, <2>3
  <2>5. i \in 1 .. n /\ i - 1 \in 0 .. n /\ i - 1 \notin D
    BY <1>1, <2>3, <2>4
  <2>. QED BY <1>5, <2>3, <2>5
<1>. QED
  BY <1>2, <1>6

LEMMA AgingUntimed ==
  ASSUME NEW k0, HasTimers(k0)
  PROVE  Untimed(TickAging(k0), k0)
<1>. DEFINE s == osSettle(k0, k0.current)
            older == [s EXCEPT !.aging = s.aging - 1]
            priority == [t \in Thread |-> IF Aged(s, t) THEN s.priority[t] + 1 ELSE s.priority[t]]
            aged == [s EXCEPT !.aging = OS_CFG_AGING_TICKS, !.priority = priority]
<1>1. TickAging(k0) \in {k0, older, aged}
  BY DEF TickAging
<1>2. Untimed(s, k0)
  BY SettleUntimed
<1>. HIDE DEF s, priority
<1>3. Untimed(older, k0) /\ Untimed(aged, k0)
  BY <1>2 DEF HasTimers, Untimed
<1>. QED
  BY <1>1, <1>3 DEF Untimed

LEMMA CreateUntimed ==
  ASSUME NEW k0, HasTimers(k0), NEW t, NEW p
  PROVE  Untimed(osTaskCreate(k0, t, p), k0)
<1>. DEFINE c == Cleared(k0, t, p)
            ready == osReady(c, t)
<1>1. osTaskCreate(k0, t, p) = osSchedule(ready, 0)
  BY DEF osTaskCreate, Cleared
<1>2. Untimed(c, k0)
  BY DEF HasTimers, Untimed, Cleared
<1>. HIDE DEF c
<1>3. Untimed(ready, k0)
  BY <1>2, ReadyUntimed DEF Untimed
<1>. HIDE DEF ready
<1>. QED
  BY <1>1, <1>3, ScheduleUntimed DEF Untimed

LEMMA ResumeUntimed ==
  ASSUME NEW k0, HasTimers(k0), NEW t
  PROVE  LET q == osTaskResumeFromISR(k0, t)
         IN  Untimed(q, k0) /\ Untimed(osSchedule(q, 0), k0)
<1>. DEFINE q == osTaskResumeFromISR(k0, t)
<1>1. Untimed(q, k0)
  BY ReadyUntimed DEF osTaskResumeFromISR, Untimed
<1>. HIDE DEF q
<1>2. Untimed(osSchedule(q, 0), k0)
  BY <1>1, ScheduleUntimed DEF Untimed
<1>. QED
  BY <1>1, <1>2 DEF q

LEMMA SetPriorityUntimed ==
  ASSUME NEW k0, HasTimers(k0), NEW t, NEW p
  PROVE  Untimed(osTaskSetPriority(k0, t, p), k0)
<1>. DEFINE b == Rebased(k0, t, p)
            inherited == osInheritedPriority(b, t)
            m == IF inherited > k0.priority[t]
                 THEN osPriorityRaise(b, t, inherited) ELSE LowerToInherited(b, t)
<1>1. osTaskSetPriority(k0, t, p) = osSchedule(m, 0)
  BY DEF osTaskSetPriority, Rebased
<1>2. Untimed(b, k0)
  BY DEF HasTimers, Untimed, Rebased
<1>. HIDE DEF b, inherited
<1>3. Untimed(m, k0)
  BY <1>2, RaiseUntimed, LowerUntimed DEF Untimed
<1>. HIDE DEF m
<1>. QED
  BY <1>1, <1>3, ScheduleUntimed DEF Untimed

LEMMA RunUntimed ==
  ASSUME NEW k0, HasTimers(k0)
  PROVE  Untimed(osRun(k0), k0)
<1>. DEFINE r == Humbled(k0)
<1>1. osRun(k0) = osSchedule(r, 0)
  BY DEF osRun, Humbled
<1>2. Untimed(r, k0)
  BY DEF HasTimers, Untimed, Humbled
<1>. HIDE DEF r
<1>. QED
  BY <1>1, <1>2, ScheduleUntimed DEF Untimed

----------------------------------------------------------------------------
\* The timers have as many ticks left as count says, the next to expire first.
Exact(r, count) ==
  /\ \A i \in 1 .. Len(r.timerList) :
       /\ count[r.timerList[i].task] > 0
       /\ (r.timerList[i].wake - r.ticks) % OS_TICKS = count[r.timerList[i].task]
  /\ \A i, j \in 1 .. Len(r.timerList) :
       i < j => count[r.timerList[i].task] <= count[r.timerList[j].task]

\* The timer of t has been taken off the list, if it was on it.
Without(r, k0, t) ==
  /\ HasTimers(r) /\ r.ticks = k0.ticks
  /\ \/ r.timerList = k0.timerList
     \/ \E i \in 1 .. Len(k0.timerList) :
          k0.timerList[i].task = t /\ r.timerList = RemoveAt(k0.timerList, i)

LEMMA WithoutExact ==
  ASSUME NEW k0, k0.timerList \in Seq(TimerEntry), NEW r, NEW t, Without(r, k0, t),
         NEW count \in [Thread -> Int], Exact(k0, count)
  PROVE  Exact(r, count)
<1>1. CASE r.timerList = k0.timerList
  BY <1>1 DEF Without, Exact
<1>2. CASE r.timerList # k0.timerList
  <2>. DEFINE L == k0.timerList
              l == r.timerList
              n == Len(L)
  <2>1. r.ticks = k0.ticks /\ \E i \in 1 .. n : l = RemoveAt(L, i)
    BY <1>2 DEF Without
  <2>2. PICK i \in 1 .. n : l = RemoveAt(L, i)
    BY <2>1
  <2>3. n \in Nat /\ Len(l) = n - 1
        /\ (\A j \in 1 .. i - 1 : l[j] = L[j]) /\ \A j \in i .. n - 1 : l[j] = L[j + 1]
    <3>1. L \in Seq(TimerEntry) /\ n \in Nat
      OBVIOUS
    <3>. HIDE DEF L, l
    <3>2. /\ Len(RemoveAt(L, i)) = Len(L) - 1
          /\ \A j \in 1 .. i - 1 : RemoveAt(L, i)[j] = L[j]
          /\ \A j \in i .. Len(L) - 1 : RemoveAt(L, i)[j] = L[j + 1]
      BY <2>2, <3>1, RemoveAtType
    <3>. QED BY <2>2, <3>1, <3>2
  <2>. DEFINE origin(j) == IF j < i THEN j ELSE j + 1
  <2>4. \A j \in 1 .. Len(l) : origin(j) \in 1 .. n /\ l[j] = L[origin(j)]
    BY <2>3
  <2>5. \A j, m \in 1 .. Len(l) : j < m => origin(j) < origin(m)
    BY <2>3
  <2>6. /\ \A j \in 1 .. n : /\ count[L[j].task] > 0
                             /\ (L[j].wake - k0.ticks) % OS_TICKS = count[L[j].task]
        /\ \A j, m \in 1 .. n : j < m => count[L[j].task] <= count[L[m].task]
    BY DEF Exact
  <2>. HIDE DEF origin, L, l, n
  <2>7. /\ \A j \in 1 .. Len(l) : /\ count[l[j].task] > 0
                                  /\ (l[j].wake - r.ticks) % OS_TICKS = count[l[j].task]
        /\ \A j, m \in 1 .. Len(l) : j < m => count[l[j].task] <= count[l[m].task]
    BY <2>1, <2>4, <2>5, <2>6
  <2>. QED BY <2>7 DEF Exact, l
<1>. QED
  BY <1>1, <1>2

\* osUnblock takes the timer of the task along, if there is one.
LEMMA UnblockWithout ==
  ASSUME NEW k0, HasTimers(k0), k0.timerList \in Seq(TimerEntry), NEW t
  PROVE  LET r == osUnblock(k0, t)
         IN  /\ Without(r, k0, t)
             /\ "TIMED" \in k0.flags[t] /\ (\E i \in 1 .. Len(k0.timerList) : k0.timerList[i].task = t)
                  => \E i \in 1 .. Len(k0.timerList) :
                       k0.timerList[i].task = t /\ r.timerList = RemoveAt(k0.timerList, i)
<1>. DEFINE L == k0.timerList
            off == IF k0.waitList[t] = NULL THEN k0
                   ELSE [k0 EXCEPT !.waiters[k0.waitList[t]] = osListRemove(k0.waiters[k0.waitList[t]], t),
                                   !.waitList[t] = NULL]
            I == {i \in 1 .. Len(L) : L[i].task = t}
            i == SelectInSeq(L, LAMBDA it : it.task = t)
            list == IF i = 0 THEN L ELSE RemoveAt(L, i)
            removed == [off EXCEPT !.timerList = list]
            r == osUnblock(k0, t)
<1>1. Untimed(off, k0)
  BY DEF HasTimers, Untimed
<1>2. r = IF "TIMED" \in k0.flags[t] THEN osTimerListRemove(off, t) ELSE off
  BY DEF osUnblock
<1>. HIDE DEF off, r
<1>3. osTimerListRemove(off, t) = removed
  BY <1>1 DEF osTimerListRemove, Untimed
<1>4. i = IF I # {} THEN Min(I) ELSE 0
  BY DEF SelectInSeq
<1>. HIDE DEF i
<1>5. I # {} => i \in 1 .. Len(L) /\ L[i].task = t
  <2>1. I \in SUBSET (1 .. Len(L)) /\ Len(L) \in Nat
    OBVIOUS
  <2>2. I # {} => Min(I) \in I
    <3>. HIDE DEF I
    <3>. QED BY <2>1, LeastIndex
  <2>. QED BY <1>4, <2>2
<1>6. I = {} => list = L
  BY <1>4
<1>7. I # {} => list = RemoveAt(L, i)
  BY <1>5
<1>. HIDE DEF list
<1>8. HasTimers(removed) /\ removed.ticks = k0.ticks /\ removed.timerList = list
  BY <1>1 DEF HasTimers, Untimed
<1>. HIDE DEF removed
<1>9. Without(r, k0, t)
  <2>1. CASE I = {}
    BY <1>1, <1>2, <1>3, <1>6, <1>8, <2>1 DEF Without, Untimed
  <2>2. CASE I # {}
    <3>1. \E m \in 1 .. Len(L) : L[m].task = t /\ list = RemoveAt(L, m)
      BY <1>5, <1>7, <2>2
    <3>. QED BY <1>1, <1>2, <1>3, <1>8, <3>1 DEF Without, Untimed
  <2>. QED BY <2>1, <2>2
<1>10. ASSUME "TIMED" \in k0.flags[t], \E m \in 1 .. Len(L) : L[m].task = t
       PROVE  \E m \in 1 .. Len(L) : L[m].task = t /\ r.timerList = RemoveAt(L, m)
  <2>1. I # {}
    BY <1>10
  <2>. QED BY <1>2, <1>3, <1>5, <1>7, <1>8, <1>10, <2>1
<1>. QED
  BY <1>9, <1>10 DEF r

\* The same, from the other side.
LEMMA ModOutside ==
  ASSUME NEW M \in Nat \ {0}, NEW x \in Int
  PROVE  /\ x + M \in 0 .. M - 1 => x % M = x + M
         /\ x - M \in 0 .. M - 1 => x % M = x - M
<1>1. ASSUME x + M \in 0 .. M - 1 PROVE x % M = x + M
  <2>1. PICK y \in 0 .. M - 1 : y = x + M
    BY <1>1
  <2>2. y - M = x
    BY <2>1
  <2>. QED BY <2>1, <2>2, ModTurn
<1>2. ASSUME x - M \in 0 .. M - 1 PROVE x % M = x - M
  <2>1. PICK y \in 0 .. M - 1 : y = x - M
    BY <1>2
  <2>2. y + M = x
    BY <2>1
  <2>. QED BY <2>1, <2>2, ModTurn
<1>. QED
  BY <1>1, <1>2

\* With the sums in the code: the timer that is inserted has the whole timeout left.
LEMMA WholeTimeout ==
  ASSUME NEW M \in Nat \ {0}, NEW ticks \in 0 .. M - 1, NEW timeout \in 0 .. M - 1,
         NEW wake \in Int, wake = (ticks + timeout) % M
  PROVE  (wake - ticks) % M = timeout
<1>1. wake = ticks + timeout \/ wake = ticks + timeout - M
  <2>1. CASE ticks + timeout < M
    <3>1. ticks + timeout \in 0 .. M - 1
      BY <2>1
    <3>. QED BY <3>1, ModTurn
  <2>2. CASE ticks + timeout >= M
    <3>. DEFINE x == ticks + timeout
    <3>1. x - M \in 0 .. M - 1 /\ x \in Int
      BY <2>2
    <3>. HIDE DEF x
    <3>2. x % M = x - M
      BY <3>1, ModOutside
    <3>. QED BY <3>2 DEF x
  <2>. QED BY <2>1, <2>2
<1>2. wake - ticks = timeout \/ wake - ticks = timeout - M
  BY <1>1
<1>. QED
  BY <1>2, ModTurn

\* One tick later every timer has one tick less to go.
LEMMA OneTickLess ==
  ASSUME NEW ticks \in OsTick, NEW wake \in OsTick, (wake - ticks) % OS_TICKS > 0
  PROVE  LET now == (ticks + 1) % OS_TICKS
             rest == (wake - ticks) % OS_TICKS
         IN  /\ (wake - now) % OS_TICKS = rest - 1
             /\ wake = now <=> rest = 1
<1>. DEFINE M == OS_TICKS
            now == (ticks + 1) % M
            rest == (wake - ticks) % M
<1>0. M \in Nat \ {0} /\ ticks \in 0 .. M - 1 /\ wake \in 0 .. M - 1
  BY KernelAssumption DEF OsTick
<1>. USE <1>0
<1>. HIDE DEF M
<1>1. now \in 0 .. M - 1 /\ (now = ticks + 1 \/ (now = 0 /\ ticks = M - 1))
  <2>1. CASE ticks + 1 < M
    BY <2>1, ticks + 1 \in 0 .. M - 1, ModTurn
  <2>2. CASE ticks = M - 1
    <3>1. (0 + M) % M = 0 /\ ticks + 1 = 0 + M
      BY <2>2, 0 \in 0 .. M - 1, ModTurn
    <3>. QED BY <2>2, <3>1
  <2>. QED BY <2>1, <2>2
<1>2. rest = wake - ticks \/ rest = wake - ticks + M
  <2>1. CASE wake >= ticks
    BY <2>1, wake - ticks \in 0 .. M - 1, ModTurn
  <2>2. CASE wake < ticks
    <3>1. wake - ticks + M \in 0 .. M - 1
      BY <2>2
    <3>2. wake - ticks \in Int
      OBVIOUS
    <3>. QED BY <3>1, <3>2, ModOutside
  <2>. QED BY <2>1, <2>2
<1>3. rest \in 1 .. M - 1
  <2>1. wake - ticks \in Int
    OBVIOUS
  <2>2. (wake - ticks) % M \in 0 .. M - 1
    BY <2>1
  <2>3. rest > 0
    BY DEF M
  <2>. QED BY <2>2, <2>3
<1>4. wake - now \in {rest - 1, rest - 1 - M, rest - 1 + M}
  BY <1>1, <1>2
<1>5. rest - 1 \in 0 .. M - 1
  BY <1>3
<1>6. (wake - now) % M = rest - 1
  BY <1>4, <1>5, ModTurn
<1>7. wake = now <=> (wake - now) % M = 0
  <2>1. wake = now => (wake - now) % M = 0
    BY <1>1, 0 \in 0 .. M - 1, ModTurn
  <2>2. ASSUME (wake - now) % M = 0, wake # now PROVE FALSE
    <3>0. wake > now => wake - now \in 0 .. M - 1
      BY <1>1
    <3>1. wake > now => (wake - now) % M = wake - now
      BY <3>0, ModTurn
    <3>2. wake < now => wake - now + M \in 0 .. M - 1 /\ wake - now + M > 0
      BY <1>1
    <3>3. wake - now \in Int
      BY <1>1
    <3>4. wake < now => (wake - now) % M = wake - now + M
      BY <3>2, <3>3, ModOutside
    <3>. QED BY <1>1, <2>2, <3>0, <3>1, <3>2, <3>4
  <2>. QED BY <2>1, <2>2
<1>. QED
  BY <1>3, <1>6, <1>7 DEF M

\* A timer is put where its deadline belongs.
LEMMA InsertExact ==
  ASSUME NEW k0, HasTimers(k0), k0.timerList \in Seq(TimerEntry), k0.ticks \in OsTick,
         NEW t \in Thread, NEW timeout \in OsTick \ {0},
         \A i \in 1 .. Len(k0.timerList) : k0.timerList[i].task # t,
         NEW count \in [Thread -> Int], Exact(k0, count)
  PROVE  LET r == osTimerListInsert(k0, t, timeout)
         IN  HasTimers(r) /\ r.ticks = k0.ticks /\ Exact(r, [count EXCEPT ![t] = timeout])
<1>. DEFINE L == k0.timerList
            n == Len(L)
            timer == [task |-> t, wake |-> (k0.ticks + timeout) % OS_TICKS]
            I == {i \in 1 .. n : (L[i].wake - k0.ticks) % OS_TICKS > timeout}
            i == SelectInSeq(L, LAMBDA it : (it.wake - k0.ticks) % OS_TICKS > timeout)
            l == IF i = 0 THEN Append(L, timer) ELSE InsertAt(L, i, timer)
            spot == IF i = 0 THEN n + 1 ELSE i
            rest(j) == count[L[j].task]
            c == [count EXCEPT ![t] = timeout]
            r == [k0 EXCEPT !.timerList = l, !.flags[t] = k0.flags[t] \cup {"TIMED"}]
<1>1. osTimerListInsert(k0, t, timeout) = r
  BY DEF osTimerListInsert
<1>2. L \in Seq(TimerEntry) /\ n \in Nat
  OBVIOUS
<1>3. /\ OS_TICKS \in Nat \ {0} /\ k0.ticks \in 0 .. OS_TICKS - 1
      /\ timeout \in 0 .. OS_TICKS - 1 /\ timeout > 0
  BY KernelAssumption DEF OsTick
<1>4. timer \in TimerEntry /\ timer.task = t /\ (timer.wake - k0.ticks) % OS_TICKS = timeout
  <2>1. timer.wake \in 0 .. OS_TICKS - 1
    <3>1. k0.ticks + timeout \in Int
      BY <1>3
    <3>. QED BY <1>3, <3>1
  <2>2. (timer.wake - k0.ticks) % OS_TICKS = timeout
    <3>. DEFINE wake == (k0.ticks + timeout) % OS_TICKS
    <3>1. wake \in Int /\ timer.wake = wake
      BY <2>1
    <3>2. (wake - k0.ticks) % OS_TICKS = timeout
      <4>1. wake = (k0.ticks + timeout) % OS_TICKS
        OBVIOUS
      <4>. HIDE DEF wake
      <4>. QED BY <1>3, <3>1, <4>1, WholeTimeout
    <3>. HIDE DEF wake, timer
    <3>. QED BY <3>1, <3>2
  <2>. QED BY <2>1, <2>2 DEF TimerEntry, OsTick
<1>5. ASSUME NEW j \in 1 .. n
      PROVE  /\ rest(j) \in Int /\ rest(j) > 0 /\ (L[j].wake - k0.ticks) % OS_TICKS = rest(j)
             /\ L[j].task # t /\ c[L[j].task] = rest(j)
             /\ \A m \in 1 .. n : j < m => rest(j) <= rest(m)
  <2>1. L[j].task \in Thread
    <3>1. j \in 1 .. Len(L)
      OBVIOUS
    <3>. HIDE DEF L
    <3>2. L[j] \in TimerEntry
      BY <1>2, <3>1
    <3>. QED BY <3>2 DEF TimerEntry
  <2>. QED BY <2>1 DEF Exact
<1>6. c[t] = timeout
  OBVIOUS
<1>7. i = IF I # {} THEN Min(I) ELSE 0
  BY DEF SelectInSeq
<1>8. I = {j \in 1 .. n : rest(j) > timeout}
  BY <1>5
<1>. HIDE DEF i, rest, c, timer, L, n
<1>9. \/ I = {} /\ i = 0
      \/ i # 0 /\ i \in 1 .. n /\ i \in I /\ \A j \in 1 .. n : j < i => j \notin I
  <2>1. I \in SUBSET (1 .. n) /\ n \in Nat
    BY <1>2
  <2>. HIDE DEF I
  <2>2. I # {} => Min(I) \in I /\ Min(I) \in 1 .. n /\ \A j \in 1 .. n : j < Min(I) => j \notin I
    BY <2>1, LeastIndex
  <2>. QED BY <1>7, <2>2
<1>10. /\ spot \in 1 .. n + 1 /\ Len(l) = n + 1 /\ l[spot] = timer
       /\ \A j \in 1 .. n + 1 : /\ j < spot => j \in 1 .. n /\ l[j] = L[j]
                                /\ j > spot => j - 1 \in 1 .. n /\ l[j] = L[j - 1]
       /\ \A j \in 1 .. n : IF j < spot THEN rest(j) <= timeout ELSE rest(j) > timeout
  <2>1. CASE I = {} /\ i = 0
    <3>1. /\ Len(Append(L, timer)) = n + 1 /\ Append(L, timer)[n + 1] = timer
          /\ \A j \in 1 .. n : Append(L, timer)[j] = L[j]
      BY <1>2 DEF n
    <3>2. \A j \in 1 .. n : rest(j) <= timeout
      BY <1>3, <1>5, <1>8, <2>1
    <3>. QED BY <1>2, <2>1, <3>1, <3>2
  <2>2. CASE i # 0 /\ i \in 1 .. n /\ i \in I /\ \A j \in 1 .. n : j < i => j \notin I
    <3>. DEFINE q == InsertAt(L, i, timer)
    <3>1. /\ Len(q) = n + 1 /\ q[i] = timer
          /\ \A j \in 1 .. i - 1 : q[j] = L[j]
          /\ \A j \in i + 1 .. n + 1 : q[j] = L[j - 1]
      <4>1. L \in Seq(TimerEntry) /\ timer \in TimerEntry /\ i \in 1 .. Len(L)
        BY <1>2, <1>4, <2>2 DEF n
      <4>. HIDE DEF L, i, timer
      <4>. QED BY <4>1, InsertAtType DEF n
    <3>2. rest(i) > timeout
      BY <1>8, <2>2
    <3>3. \A j \in 1 .. n : IF j < i THEN rest(j) <= timeout ELSE rest(j) > timeout
      <4>1. \A j \in 1 .. n : j < i => rest(j) <= timeout
        BY <1>3, <1>5, <1>8, <2>2
      <4>2. \A j \in 1 .. n : j >= i => rest(j) >= rest(i)
        BY <1>5, <2>2
      <4>. QED BY <1>3, <1>5, <2>2, <3>2, <4>1, <4>2
    <3>4. l = q /\ spot = i
      BY <2>2
    <3>. HIDE DEF q, l, spot
    <3>. QED BY <1>2, <2>2, <3>1, <3>3, <3>4
  <2>. QED BY <1>9, <2>1, <2>2
<1>. HIDE DEF l, spot, I
<1>11. HasTimers(r) /\ r.ticks = k0.ticks /\ r.timerList = l
  BY DEF HasTimers
<1>. HIDE DEF r
<1>12. ASSUME NEW j \in 1 .. n + 1
       PROVE  /\ c[l[j].task] > 0 /\ (l[j].wake - k0.ticks) % OS_TICKS = c[l[j].task]
              /\ c[l[j].task] = IF j < spot THEN rest(j) ELSE IF j = spot THEN timeout ELSE rest(j - 1)
  <2>1. CASE j < spot
    BY <1>5, <1>10, <2>1
  <2>2. CASE j = spot
    BY <1>3, <1>4, <1>6, <1>10, <2>2
  <2>3. CASE j > spot
    <3>1. l[j] = L[j - 1] /\ j - 1 \in 1 .. n
      BY <1>10, <2>3
    <3>. QED BY <1>5, <1>10, <2>3, <3>1
  <2>. QED BY <1>10, <2>1, <2>2, <2>3
<1>13. ASSUME NEW j \in 1 .. n + 1, NEW m \in 1 .. n + 1, j < m
       PROVE  c[l[j].task] <= c[l[m].task]
  <2>1. CASE m < spot
    BY <1>5, <1>10, <1>12, <1>13, <2>1
  <2>2. CASE m = spot
    BY <1>5, <1>10, <1>12, <1>13, <2>2
  <2>3. CASE m > spot
    <3>1. m - 1 \in 1 .. n /\ c[l[m].task] = rest(m - 1) /\ rest(m - 1) > timeout
      BY <1>2, <1>10, <1>12, <2>3
    <3>2. CASE j < spot
      BY <1>3, <1>5, <1>10, <1>12, <3>1, <3>2
    <3>3. CASE j = spot
      BY <1>3, <1>5, <1>12, <3>1, <3>3
    <3>4. CASE j > spot
      <4>1. j - 1 \in 1 .. n /\ j - 1 < m - 1 /\ c[l[j].task] = rest(j - 1)
        BY <1>2, <1>10, <1>12, <1>13, <3>4
      <4>. QED BY <1>5, <3>1, <4>1
    <3>. QED BY <1>10, <3>2, <3>3, <3>4
  <2>. QED BY <1>10, <2>1, <2>2, <2>3
<1>14. Exact(r, c)
  BY <1>10, <1>11, <1>12, <1>13 DEF Exact
<1>. QED
  BY <1>1, <1>11, <1>14 DEF c

LEMMA ExactUntimed ==
  ASSUME NEW k0, NEW r, Untimed(r, k0), NEW count, Exact(k0, count)
  PROVE  Exact(r, count)
BY DEF Untimed, Exact

\* What the count says of tasks without a timer does not matter.
LEMMA ExactOther ==
  ASSUME NEW k0, k0.timerList \in Seq(TimerEntry), NEW t,
         \A i \in 1 .. Len(k0.timerList) : k0.timerList[i].task # t,
         NEW count \in [Thread -> Int], Exact(k0, count), NEW x
  PROVE  Exact(k0, [count EXCEPT ![t] = x])
<1>. DEFINE L == k0.timerList
            c == [count EXCEPT ![t] = x]
<1>1. \A i \in 1 .. Len(L) : c[L[i].task] = count[L[i].task]
  <2>1. \A i \in 1 .. Len(L) : L[i] \in TimerEntry /\ L[i].task # t
    OBVIOUS
  <2>. QED BY <2>1 DEF TimerEntry
<1>. HIDE DEF c
<1>. QED
  BY <1>1 DEF Exact, c

\* The current task has no timer.
LEMMA CurrentUntimed ==
  ASSUME NEW k0, KernelInv(k0)
  PROVE  /\ HasTimers(k0) /\ k0.timerList \in Seq(TimerEntry) /\ k0.ticks \in OsTick
         /\ k0.current \in Thread
         /\ \A i \in 1 .. Len(k0.timerList) : k0.timerList[i].task # k0.current
<1>1. HasTimers(k0) /\ k0.timerList \in Seq(TimerEntry) /\ k0.ticks \in OsTick /\ k0.current \in Thread
  BY DEF KernelInv, Lists, KernelState, HasTimers, TimerEntry
<1>2. k0.current \notin OnTimer(k0)
  BY <1>1 DEF KernelInv, CurrentExact, Lists, TimerListExact
<1>3. \A i \in 1 .. Len(k0.timerList) : k0.timerList[i] \in ToSet(k0.timerList)
  BY <1>1, InToSet
<1>. QED
  BY <1>1, <1>2, <1>3 DEF OnTimer

LEMMA DelayExact ==
  ASSUME NEW k0, KernelInv(k0), NEW timeout \in OsTick,
         NEW count \in [Thread -> Int], Exact(k0, count)
  PROVE  Exact(osDelay(k0, timeout), [count EXCEPT ![k0.current] = timeout])
<1>. DEFINE task == k0.current
            c == [count EXCEPT ![task] = timeout]
            s == osSettle(k0, task)
            waiters == [o \in Object |-> IF o = NULL
                                         THEN osListInsert(s, s.waiters[o], task, s.priority[task])
                                         ELSE s.waiters[o]]
            blocked == [s EXCEPT !.state[task] = "BLOCKED", !.waitList[task] = NULL,
                                 !.waiters = waiters]
            timed == osTimerListInsert(blocked, task, timeout)
            idle == SetState(k0, task, "RUNNING")
<1>0. /\ HasTimers(k0) /\ k0.timerList \in Seq(TimerEntry) /\ k0.ticks \in OsTick /\ task \in Thread
      /\ \A i \in 1 .. Len(k0.timerList) : k0.timerList[i].task # task
  BY CurrentUntimed
<1>1. Exact(k0, c)
  BY <1>0, ExactOther
<1>2. CASE timeout = 0
  <2>1. osDelay(k0, timeout) = osSchedule(k0, 1)
    BY <1>2 DEF osDelay
  <2>. QED BY <1>0, <1>1, <2>1, ScheduleUntimed, ExactUntimed
<1>3. CASE timeout # 0
  <2>1. osDelay(k0, timeout) \in {idle, osDispatch(blocked), osDispatch(timed)}
    BY <1>3 DEF osDelay, osBlock
  <2>2. Untimed(s, k0) /\ Untimed(idle, k0)
    BY <1>0, SettleUntimed, SetStateUntimed
  <2>. HIDE DEF s, idle, waiters
  <2>3. Untimed(blocked, k0)
    BY <2>2 DEF HasTimers, Untimed
  <2>. HIDE DEF blocked
  <2>4. Untimed(osDispatch(blocked), k0)
    BY <2>3, DispatchUntimed DEF Untimed
  <2>5. HasTimers(timed) /\ Exact(timed, c)
    <3>1. /\ HasTimers(blocked) /\ blocked.timerList \in Seq(TimerEntry) /\ blocked.ticks \in OsTick
          /\ \A i \in 1 .. Len(blocked.timerList) : blocked.timerList[i].task # task
          /\ Exact(blocked, count) /\ task \in Thread /\ timeout \in OsTick \ {0}
      BY <1>0, <1>3, <2>3, ExactUntimed DEF Untimed
    <3>. HIDE DEF task
    <3>2. LET r == osTimerListInsert(blocked, task, timeout)
          IN  HasTimers(r) /\ r.ticks = blocked.ticks /\ Exact(r, [count EXCEPT ![task] = timeout])
      BY <3>1, InsertExact
    <3>. QED BY <3>2
  <2>. HIDE DEF timed, c
  <2>6. Exact(osDispatch(timed), c)
    BY <2>5, DispatchUntimed, ExactUntimed
  <2>7. Exact(idle, c) /\ Exact(osDispatch(blocked), c)
    BY <1>1, <2>2, <2>4, ExactUntimed
  <2>. QED BY <2>1, <2>6, <2>7 DEF c
<1>. QED
  BY <1>2, <1>3

\* osTaskDetach.
LEMMA DetachWithout ==
  ASSUME NEW k0, HasTimers(k0), k0.timerList \in Seq(TimerEntry), NEW t
  PROVE  Without(osTaskDetach(k0, t), k0, t)
<1>1. \A l : Without([k0 EXCEPT !.readyList = l], k0, t)
  BY DEF HasTimers, Without
<1>. QED
  BY <1>1, UnblockWithout DEF osTaskDetach

LEMMA SuspendExact ==
  ASSUME NEW k0, KernelInv(k0), NEW t \in Thread, NEW count \in [Thread -> Int], Exact(k0, count)
  PROVE  Exact(osTaskSuspend(k0, t), count)
<1>. DEFINE d == osTaskDetach(k0, t)
            f == [d EXCEPT !.result[t] = FALSE]
            off == SetState(f, t, "SUSPENDED")
<1>1. osTaskSuspend(k0, t) \in {k0, off, osDispatch(off)}
  BY DEF osTaskSuspend
<1>2. Without(d, k0, t) /\ k0.timerList \in Seq(TimerEntry)
  BY CurrentUntimed, DetachWithout
<1>. HIDE DEF d
<1>3. HasTimers(d) /\ Exact(d, count)
  BY <1>2, WithoutExact DEF Without
<1>4. Untimed(f, d)
  BY <1>3 DEF HasTimers, Untimed
<1>. HIDE DEF f
<1>5. Untimed(off, f)
  BY <1>4, SetStateUntimed DEF Untimed
<1>. HIDE DEF off
<1>6. Untimed(osDispatch(off), off)
  BY <1>5, DispatchUntimed DEF Untimed
<1>. QED
  BY <1>1, <1>3, <1>4, <1>5, <1>6, ExactUntimed

\* Without a mutex to give back, which Plain says.
LEMMA DeleteExact ==
  ASSUME NEW k0, KernelInv(k0), Plain(k0), NEW t \in Thread,
         NEW count \in [Thread -> Int], Exact(k0, count)
  PROVE  Exact(osTaskDelete(k0, t), count)
<1>. DEFINE d == osTaskDetach(k0, t)
            gone == SetState(d, t, "DEAD")
            released == IF OS_CFG_MUTEX_INHERITANCE THEN osMutexReleaseAll(gone, t) ELSE gone
<1>1. osTaskDelete(k0, t) \in {k0, osDispatch(released), osSchedule(released, 0)}
  BY DEF osTaskDelete
<1>2. Without(d, k0, t) /\ k0.timerList \in Seq(TimerEntry) /\ d.mutexes = k0.mutexes
  <2>1. Lists(k0) /\ HasTimers(k0) /\ k0.timerList \in Seq(TimerEntry)
    BY CurrentUntimed DEF KernelInv
  <2>2. LET r == osTaskDetach(k0, t)
        IN  /\ Off(r, t) /\ r.state = k0.state /\ r.current = k0.current /\ Kept(r, k0)
            /\ r.priority = k0.priority /\ r.flags = k0.flags
            /\ r.waitList = [k0.waitList EXCEPT ![t] = NULL]
    BY <2>1, Detach
  <2>. QED BY <2>1, <2>2, DetachWithout DEF Kept
<1>3. gone.mutexes[t] = << >>
  <2>1. d \in KernelState
    BY Detach DEF KernelInv, Off
  <2>. HIDE DEF d
  <2>2. gone.mutexes = d.mutexes
    BY <2>1 DEF KernelState, SetState
  <2>. QED BY <1>2, <2>2 DEF Plain
<1>. HIDE DEF d
<1>4. HasTimers(d) /\ Exact(d, count)
  BY <1>2, WithoutExact DEF Without
<1>5. Untimed(gone, d)
  BY <1>4, SetStateUntimed
<1>. HIDE DEF gone
<1>6. released = gone
  BY <1>3, ReleaseNothing
<1>. HIDE DEF released
<1>7. Untimed(osDispatch(gone), gone) /\ Untimed(osSchedule(gone, 0), gone)
  BY <1>5, DispatchUntimed, ScheduleUntimed DEF Untimed
<1>. QED
  BY <1>1, <1>4, <1>5, <1>6, <1>7, ExactUntimed

\* The timers that expire on a tick are those with one tick left, first on the
\* list, and only their tasks are woken up.
LEMMA TimeoutsExact ==
  ASSUME NEW k0, KernelInv(k0), NEW count \in [Thread -> Int], Exact(k0, count)
  PROVE  LET r == TickTimeouts(k0)
         IN  /\ HasTimers(r) /\ r.ticks = (k0.ticks + 1) % OS_TICKS
             /\ Exact(r, [t \in Thread |-> count[t] - 1])
             /\ \A t \in Thread : r.state[t] = k0.state[t] \/ count[t] = 1
<1>. DEFINE now == (k0.ticks + 1) % OS_TICKS
            L == k0.timerList
            n == Len(L)
            I == {i \in 1 .. n : L[i].wake # now}
            later == SelectInSeq(L, LAMBDA it : it.wake # now)
            due == IF later = 0 THEN n ELSE later - 1
            first == [k0 EXCEPT !.ticks = now]
            rest(j) == count[L[j].task]
            woken[i \in 0 .. due] ==
              IF i = 0 THEN first ELSE osWake(woken[i - 1], L[i].task, FALSE)
<1>1. TickTimeouts(k0) = woken[due]
  BY DEF TickTimeouts
<1>2. L \in Seq(TimerEntry) /\ n \in Nat /\ k0.ticks \in OsTick
      /\ OS_TICKS \in Nat \ {0} /\ OsTick = 0 .. OS_TICKS - 1
  BY CurrentUntimed, KernelAssumption DEF OsTick
<1>3. now \in OsTick
  <2>1. k0.ticks + 1 \in Int
    BY <1>2
  <2>. QED BY <1>2, <2>1
<1>4. ASSUME NEW j \in 1 .. n
      PROVE  /\ L[j] \in TimerEntry /\ L[j].task \in Thread /\ L[j].wake \in OsTick
             /\ rest(j) \in Int /\ rest(j) > 0
             /\ (L[j].wake - now) % OS_TICKS = rest(j) - 1
             /\ L[j].wake = now <=> rest(j) = 1
             /\ \A m \in 1 .. n : j < m => rest(j) <= rest(m)
  <2>1. L[j] \in TimerEntry
    BY <1>2
  <2>2. L[j].task \in Thread /\ L[j].wake \in OsTick
    <3>. HIDE DEF L
    <3>. QED BY <2>1 DEF TimerEntry
  <2>3. /\ rest(j) \in Int /\ rest(j) > 0 /\ rest(j) = (L[j].wake - k0.ticks) % OS_TICKS
        /\ \A m \in 1 .. n : j < m => rest(j) <= rest(m)
    BY <2>2 DEF Exact
  <2>4. now \in Int /\ now = (k0.ticks + 1) % OS_TICKS
    BY <1>2, <1>3
  <2>5. /\ (L[j].wake - now) % OS_TICKS = rest(j) - 1
        /\ L[j].wake = now <=> rest(j) = 1
    <3>. DEFINE wake == L[j].wake
                ticks == k0.ticks
    <3>1. wake \in OsTick /\ ticks \in OsTick /\ (wake - ticks) % OS_TICKS > 0
      BY <1>2, <2>2, <2>3
    <3>. HIDE DEF wake, ticks
    <3>2. LET then == (ticks + 1) % OS_TICKS
              less == (wake - ticks) % OS_TICKS
          IN  (wake - then) % OS_TICKS = less - 1 /\ (wake = then <=> less = 1)
      BY <3>1, OneTickLess
    <3>. QED BY <2>3, <2>4, <3>2 DEF wake, ticks
  <2>. HIDE DEF L, rest, now, n
  <2>. QED BY <2>1, <2>2, <2>3, <2>5
<1>5. /\ due \in 0 .. n
      /\ \A j \in 1 .. n : j <= due <=> rest(j) = 1
  <2>1. later = IF I # {} THEN Min(I) ELSE 0
    BY DEF SelectInSeq
  <2>2. I = {j \in 1 .. n : rest(j) # 1}
    BY <1>4
  <2>3. I # {} => Min(I) \in I /\ Min(I) \in 1 .. n /\ \A j \in 1 .. n : j < Min(I) => j \notin I
    <3>1. I \in SUBSET (1 .. n)
      OBVIOUS
    <3>. HIDE DEF I
    <3>. QED BY <1>2, <3>1, LeastIndex
  <2>4. /\ \A j \in 1 .. n : rest(j) \in Int /\ rest(j) > 0
        /\ \A j, m \in 1 .. n : j < m => rest(j) <= rest(m)
    BY <1>4
  <2>. HIDE DEF later, rest, n, I
  <2>5. CASE I = {}
    BY <1>2, <2>1, <2>2, <2>5
  <2>6. CASE I # {}
    <3>1. /\ later \in 1 .. n /\ later # 0 /\ rest(later) > 1 /\ due = later - 1
          /\ \A j \in 1 .. n : j < later => rest(j) = 1
      BY <1>2, <2>1, <2>2, <2>3, <2>4, <2>6
    <3>2. \A j \in 1 .. n : j > later => rest(j) > 1
      BY <2>4, <3>1
    <3>. QED BY <1>2, <3>1, <3>2
  <2>. QED BY <2>5, <2>6
<1>6. /\ KernelInv(first) /\ first.timerList = L /\ first.ticks = now /\ first.state = k0.state
  <2>. HIDE DEF now
  <2>1. /\ first \in KernelState /\ first.state = k0.state /\ first.current = k0.current
        /\ first.flags = k0.flags /\ first.readyList = k0.readyList
        /\ first.waitList = k0.waitList /\ first.waiters = k0.waiters
        /\ first.timerList = k0.timerList
        /\ first.priority = k0.priority /\ first.ticks = now
    BY <1>3 DEF KernelInv, Lists, KernelState
  <2>. HIDE DEF first
  <2>2. KernelInv(first)
    BY <2>1, Unmoved DEF KernelInv, CurrentExact
  <2>. QED BY <2>1, <2>2
<1>7. \A j, m \in 1 .. n : L[j].task = L[m].task => j = m
  <2>1. \A j \in 1 .. n : L[j] \in ToSet(L)
    BY <1>2, InToSet
  <2>. QED BY <2>1 DEF KernelInv, Lists, TimerListExact, Injective
<1>. HIDE DEF due, first, now, rest
<1>8. woken = [i \in 0 .. due |-> IF i = 0 THEN first ELSE osWake(woken[i - 1], L[i].task, FALSE)]
  <2>1. due \in Nat
    BY <1>2, <1>5
  <2>2. \E f : IsWoken(f, due, first, L)
    BY <2>1, WokenExists
  <2>3. \E f : f = [i \in 0 .. due |-> IF i = 0 THEN first ELSE osWake(f[i - 1], L[i].task, FALSE)]
    BY <2>2 DEF IsWoken
  <2>. QED BY <2>3
<1>. HIDE DEF woken
<1>. DEFINE Inv(i) == /\ KernelInv(woken[i]) /\ woken[i].ticks = now
                      /\ Len(woken[i].timerList) = n - i
                      /\ \A j \in 1 .. n - i : woken[i].timerList[j] = L[i + j]
                      /\ \A t \in Thread : \/ woken[i].state[t] = k0.state[t]
                                           \/ \E j \in 1 .. i : L[j].task = t
<1>9. Inv(0)
  <2>1. woken[0] = first
    BY <1>5, <1>8
  <2>. QED BY <1>2, <1>6, <2>1
<1>10. ASSUME NEW i \in 1 .. due, Inv(i - 1)
       PROVE  Inv(i)
  <2>. DEFINE s == woken[i - 1]
              t == L[i].task
              r == osWake(s, t, FALSE)
  <2>0. i \in 1 .. n /\ i \in 0 .. due /\ i # 0 /\ i - 1 \in Nat
    BY <1>2, <1>5
  <2>1. woken[i] = r
    BY <1>8, <2>0
  <2>2. /\ KernelInv(s) /\ s.ticks = now /\ Len(s.timerList) = n - i + 1
        /\ \A j \in 1 .. n - i + 1 : s.timerList[j] = L[i - 1 + j]
        /\ \A u \in Thread : s.state[u] = k0.state[u] \/ \E j \in 1 .. i - 1 : L[j].task = u
    <3>1. n - (i - 1) = n - i + 1
      BY <1>2, <2>0
    <3>. QED BY <1>10, <3>1
  <2>3. t \in Thread
    BY <1>4, <2>0
  <2>. HIDE DEF s, t, r
  <2>4. HasTimers(s) /\ s.timerList \in Seq(TimerEntry)
    BY <2>2, CurrentUntimed
  <2>5. 1 \in 1 .. n - i + 1 /\ s.timerList[1].task = t
    <3>1. 1 \in 1 .. n - i + 1 /\ i - 1 + 1 = i
      BY <1>2, <2>0
    <3>. QED BY <2>2, <3>1 DEF t
  <2>6. "TIMED" \in s.flags[t] /\ s.state[t] = "BLOCKED"
    <3>1. s.timerList[1] \in ToSet(s.timerList)
      BY <2>2, <2>4, <2>5, InToSet
    <3>2. t \in OnTimer(s)
      BY <2>5, <3>1 DEF OnTimer
    <3>. QED BY <2>2, <2>3, <3>2 DEF KernelInv, Lists, TimerListExact
  <2>7. KernelInv(r) /\ r.state = [s.state EXCEPT ![t] = "READY"]
    BY <2>2, <2>3, <2>6, WakeBlocked DEF r
  <2>8. r.ticks = now /\ \E m \in 1 .. n - i + 1 : /\ s.timerList[m].task = t
                                                  /\ r.timerList = RemoveAt(s.timerList, m)
    <3>. DEFINE f == [s EXCEPT !.result[t] = FALSE]
                u == osUnblock(f, t)
    <3>1. r = osReady(u, t)
      BY DEF r, osWake
    <3>2. Untimed(f, s) /\ f.flags = s.flags
      BY <2>4 DEF HasTimers, Untimed
    <3>. HIDE DEF f
    <3>3. /\ Without(u, f, t)
          /\ \E m \in 1 .. Len(f.timerList) :
               f.timerList[m].task = t /\ u.timerList = RemoveAt(f.timerList, m)
      <4>1. HasTimers(f) /\ f.timerList = s.timerList
        BY <3>2 DEF Untimed
      <4>2. \E m \in 1 .. Len(f.timerList) : f.timerList[m].task = t
        BY <2>2, <2>5, <4>1
      <4>. QED BY <2>4, <2>6, <3>2, <4>1, <4>2, UnblockWithout
    <3>. HIDE DEF u
    <3>4. Untimed(r, u)
      BY <3>1, <3>3, ReadyUntimed DEF Without
    <3>. QED BY <2>2, <3>2, <3>3, <3>4 DEF Without, Untimed
  <2>9. r.timerList = RemoveAt(s.timerList, 1)
    <3>1. PICK m \in 1 .. n - i + 1 : s.timerList[m].task = t /\ r.timerList = RemoveAt(s.timerList, m)
      BY <2>8
    <3>2. i - 1 + m \in 1 .. n /\ L[i - 1 + m].task = t
      BY <1>2, <2>0, <2>2, <3>1
    <3>3. i - 1 + m = i
      BY <1>7, <2>0, <3>2 DEF t
    <3>4. m = 1
      BY <2>0, <3>1, <3>3
    <3>. QED BY <3>1, <3>4
  <2>10. /\ Len(r.timerList) = n - i
         /\ \A j \in 1 .. n - i : r.timerList[j] = L[i + j]
    <3>. DEFINE l == s.timerList
    <3>1. /\ l \in Seq(TimerEntry) /\ 1 \in 1 .. Len(l) /\ Len(l) = n - i + 1
          /\ \A j \in 1 .. n - i + 1 : l[j] = L[i - 1 + j]
      BY <2>2, <2>4, <2>5
    <3>. HIDE DEF l
    <3>2. /\ Len(RemoveAt(l, 1)) = Len(l) - 1
          /\ \A j \in 1 .. Len(l) - 1 : RemoveAt(l, 1)[j] = l[j + 1]
      BY <3>1, RemoveAtType
    <3>3. \A j \in 1 .. n - i : j + 1 \in 1 .. n - i + 1 /\ i - 1 + (j + 1) = i + j
      BY <1>2, <2>0
    <3>4. Len(l) - 1 = n - i
      BY <1>2, <2>0, <3>1
    <3>. QED BY <2>9, <3>1, <3>2, <3>3, <3>4 DEF l
  <2>11. \A u \in Thread : r.state[u] = k0.state[u] \/ \E j \in 1 .. i : L[j].task = u
    <3>1. s.state \in [Thread -> TaskState]
      BY <2>2 DEF KernelInv, Lists, KernelState
    <3>2. \A j \in 1 .. i - 1 : j \in 1 .. i
      BY <2>0
    <3>3. L[i].task = t /\ i \in 1 .. i
      BY <2>0 DEF t
    <3>. QED BY <2>2, <2>3, <2>7, <3>1, <3>2, <3>3
  <2>. QED BY <2>1, <2>7, <2>8, <2>10, <2>11
<1>11. Inv(due)
  <2>. HIDE DEF Inv
  <2>. DEFINE D == {i \in 0 .. due : ~Inv(i)}
  <2>1. SUFFICES ASSUME D # {} PROVE FALSE
    BY <1>2, <1>5, <2>1
  <2>2. D \in SUBSET Nat
    OBVIOUS
  <2>3. PICK i \in D : \A j \in D : i <= j
    BY <2>1, <2>2, MinIsLeast
  <2>4. i # 0
    BY <1>9, <2>3
  <2>5. i \in 1 .. due /\ i - 1 \in 0 .. due /\ i - 1 \notin D
    BY <1>5, <2>3, <2>4
  <2>. QED BY <1>10, <2>3, <2>5
<1>. DEFINE r == woken[due]
            c == [t \in Thread |-> count[t] - 1]
<1>12. ASSUME NEW j \in 1 .. n - due
       PROVE  /\ due + j \in 1 .. n /\ r.timerList[j] = L[due + j]
              /\ c[L[due + j].task] = rest(due + j) - 1 /\ rest(due + j) > 1
  <2>1. due + j \in 1 .. n /\ ~(due + j <= due)
    BY <1>2, <1>5
  <2>2. rest(due + j) \in Int /\ rest(due + j) > 0 /\ rest(due + j) # 1 /\ L[due + j].task \in Thread
    BY <1>4, <1>5, <2>1
  <2>. QED BY <1>11, <2>1, <2>2 DEF rest
<1>. HIDE DEF c
<1>13. Exact(r, c)
  <2>1. Len(r.timerList) = n - due /\ r.ticks = now
    BY <1>11
  <2>2. ASSUME NEW j \in 1 .. n - due
        PROVE  /\ c[r.timerList[j].task] > 0
               /\ (r.timerList[j].wake - now) % OS_TICKS = c[r.timerList[j].task]
               /\ c[r.timerList[j].task] = rest(due + j) - 1
    <3>1. rest(due + j) \in Int /\ (L[due + j].wake - now) % OS_TICKS = rest(due + j) - 1
      BY <1>4, <1>12
    <3>. QED BY <1>12, <3>1
  <2>3. ASSUME NEW j \in 1 .. n - due, NEW m \in 1 .. n - due, j < m
        PROVE  c[r.timerList[j].task] <= c[r.timerList[m].task]
    <3>1. due + j < due + m /\ due + j \in 1 .. n /\ due + m \in 1 .. n
      BY <1>2, <1>5, <2>3
    <3>2. rest(due + j) <= rest(due + m) /\ rest(due + j) \in Int /\ rest(due + m) \in Int
      BY <1>4, <3>1
    <3>. QED BY <2>2, <3>2
  <2>. HIDE DEF r
  <2>. QED BY <2>1, <2>2, <2>3 DEF Exact
<1>14. ASSUME NEW t \in Thread PROVE r.state[t] = k0.state[t] \/ count[t] = 1
  <2>1. \A j \in 1 .. due : j \in 1 .. n /\ count[L[j].task] = 1
    BY <1>2, <1>5 DEF rest
  <2>. QED BY <1>11, <2>1
<1>15. HasTimers(r)
  BY <1>11, CurrentUntimed
<1>. QED
  BY <1>1, <1>11, <1>13, <1>14, <1>15 DEF c, now

LEMMA TickExact ==
  ASSUME NEW k0, KernelInv(k0), NEW count \in [Thread -> Int], Exact(k0, count)
  PROVE  LET r == osTickHandler(k0)
         IN  /\ Exact(r, [t \in Thread |-> count[t] - 1])
             /\ r.ticks = (k0.ticks + 1) % OS_TICKS
             /\ \A t \in Thread : k0.state[t] = "BLOCKED" /\ r.state[t] # "BLOCKED" => count[t] = 1
<1>. DEFINE late == TickTimeouts(k0)
            aged == TickAging(late)
            r == osSchedule(aged, OS_CFG_ROUND_ROBIN)
            c == [t \in Thread |-> count[t] - 1]
<1>1. /\ HasTimers(late) /\ late.ticks = (k0.ticks + 1) % OS_TICKS /\ Exact(late, c)
      /\ \A t \in Thread : late.state[t] = k0.state[t] \/ count[t] = 1
  BY TimeoutsExact
<1>2. KernelInv(late)
  BY Timeouts
<1>. HIDE DEF late, c
<1>3. Untimed(aged, late) /\ KernelInv(aged) /\ Unaffected(aged, late)
  BY <1>1, <1>2, AgingUntimed, AgingInv
<1>. HIDE DEF aged
<1>4. Untimed(r, aged) /\ Unaffected(r, aged)
  BY <1>3, ScheduleUntimed, Schedule, KernelAssumption DEF Untimed
<1>. HIDE DEF r
<1>5. Exact(r, c) /\ r.ticks = late.ticks
  BY <1>1, <1>3, <1>4, ExactUntimed DEF Untimed
<1>6. \A t \in Thread : r.state[t] = "BLOCKED" <=> late.state[t] = "BLOCKED"
  BY <1>3, <1>4 DEF Unaffected, Same
<1>7. osTickHandler(k0) = r
  BY DEF osTickHandler, r, aged, late
<1>. QED
  BY <1>1, <1>5, <1>6, <1>7 DEF c

\* Delays that have ended are not on the list.
LEMMA ElapseExact ==
  ASSUME KernelInv(k)', NEW count \in [Thread -> Int], Exact(k', count), Elapse(count)
  PROVE  DeadlinesExact'
<1>. DEFINE L == k'.timerList
<1>1. \A i \in 1 .. Len(L) : L[i].task \in Thread /\ "TIMED" \in k'.flags[L[i].task]
  <2>1. L \in Seq(TimerEntry) /\ OnTimer(k') = {t \in Thread : "TIMED" \in k'.flags[t]}
    BY DEF KernelInv, Lists, KernelState, TimerEntry, TimerListExact
  <2>2. \A i \in 1 .. Len(L) : L[i] \in ToSet(L)
    BY <2>1, InToSet
  <2>. QED BY <2>1, <2>2 DEF OnTimer
<1>2. \A i \in 1 .. Len(L) : left'[L[i].task] = count[L[i].task]
  BY <1>1 DEF Elapse
<1>. QED
  BY <1>2 DEF Exact, DeadlinesExact

\* Without a tick nobody's delay ends.
Asleep(r, k0) == \A t \in Thread : k0.state[t] = "BLOCKED" => r.state[t] \notin {"READY", "RUNNING"}

LEMMA SuspendAsleep ==
  ASSUME NEW k0, KernelInv(k0), NEW t \in Thread
  PROVE  Asleep(osTaskSuspend(k0, t), k0)
<1>. DEFINE r == osTaskSuspend(k0, t)
            d == osTaskDetach(k0, t)
            off == SetState([d EXCEPT !.result[t] = FALSE], t, "SUSPENDED")
<1>1. Unaffected(r, k0) \/ Only(r, k0, t)
  BY SuspendInv DEF Unavailing
<1>2. k0.state[t] = "BLOCKED" /\ r # k0 => r = off
  BY DEF osTaskSuspend, KernelInv, CurrentExact
<1>3. off.state[t] = "SUSPENDED"
  <2>1. d \in KernelState
    BY Detach DEF KernelInv, Off
  <2>. HIDE DEF d
  <2>. QED BY <2>1 DEF SetState, KernelState
<1>. HIDE DEF r, off
<1>4. Asleep(r, k0)
  BY <1>1, <1>2, <1>3 DEF Asleep, Unaffected, Only, Same
<1>. QED
  BY <1>4 DEF r

\* Nothing becomes of the idle task.
LEMMA Spared == SpareIdle => k' = k /\ running' = running /\ pending' = pending
BY DEF SpareIdle, osTaskDelete, osTaskSuspend

----------------------------------------------------------------------------
LEMMA NextIInv == IInv /\ [Next]_vars => IInv'
<1>. SUFFICES ASSUME IInv, [Next]_vars PROVE IInv'
  OBVIOUS
<1>. USE DEF IInv
<1>0. KernelInv(k) /\ TypeOK /\ \A t \in Task : t \in Thread
  BY DEF Thread
<1>1. ASSUME NEW t \in Task, NEW p \in TaskPriority, TaskCreate(t, p)
      PROVE  IInv'
  <2>1. KernelInv(osTaskCreate(k, t, p)) /\ Top(osTaskCreate(k, t, p))
    BY <1>0, <1>1, CreateInv, SchedulerAssumption DEF TaskCreate
  <2>. QED BY <1>0, <1>1, <2>1, CallIInv DEF TaskCreate
<1>2. ASSUME NEW t \in Task, TaskDelete(t)
      PROVE  IInv'
  <2>1. t # osIdleTask
    BY KernelAssumption
  <2>2. KernelInv(osTaskDelete(k, t)) /\ Top(osTaskDelete(k, t))
    BY <1>0, <1>2, <2>1, DeleteInv DEF TaskDelete
  <2>. QED BY <1>0, <1>2, <2>2, CallIInv DEF TaskDelete
<1>3. ASSUME NEW t \in Task, TaskSuspend(t)
      PROVE  IInv'
  <2>1. KernelInv(k)' /\ (Top(k) \/ t = k.current => Top(k)')
    BY <1>0, <1>3, SuspendInv, KernelAssumption DEF TaskSuspend
  <2>2. left' \in [Thread -> Int] /\ pending' \in BOOLEAN /\ running' = running
    BY <1>0, <1>3, ElapseType DEF TaskSuspend, TypeOK
  <2>3. (pending \/ Top(k))'
    BY <1>0, <1>3, <2>1 DEF TaskSuspend, TypeOK
  <2>. QED BY <1>0, <2>1, <2>2, <2>3 DEF TypeOK, KernelInv, Lists
<1>4. ASSUME NEW t \in Task, TaskResume(t)
      PROVE  IInv'
  BY <1>0, <1>4, ResumeInv, CallIInv DEF TaskResume
<1>5. ASSUME NEW t \in Task, IsrResume(t)
      PROVE  IInv'
  <2>1. /\ KernelInv(osSchedule(osTaskResumeFromISR(k, t), 0))
        /\ Top(osSchedule(osTaskResumeFromISR(k, t), 0))
    BY <1>0, ResumeInv, Schedule
  <2>. QED BY <1>0, <1>5, <2>1, CallIInv DEF IsrResume
<1>6. ASSUME NEW t \in Task, PlainIsrResume(t)
      PROVE  IInv'
  <2>1. KernelInv(k)'
    BY <1>0, <1>6, ResumeInv DEF PlainIsrResume
  <2>2. pending' /\ running' = running /\ left' = left
    BY <1>6 DEF PlainIsrResume
  <2>. QED BY <1>0, <2>1, <2>2 DEF TypeOK, KernelInv, Lists
<1>7. ASSUME NEW ticks \in Delay, DelayFor(ticks)
      PROVE  IInv'
  <2>0. ticks \in OsTick /\ ticks \in Int
    BY SchedulerAssumption DEF OsTick
  <2>1. KernelInv(k)' /\ (Top(k) \/ ticks = 0 \/ k.current # osIdleTask => Top(k)')
    BY <1>0, <1>7, <2>0, DelayInv DEF DelayFor
  <2>2. [left EXCEPT ![k.current] = ticks] \in [Thread -> Int]
    BY <1>0, <2>0 DEF TypeOK
  <2>3. left' \in [Thread -> Int]
    BY <1>7, <2>2, ElapseType DEF DelayFor
  <2>4. pending' \in BOOLEAN /\ running' = running
    BY <1>0, <1>7 DEF DelayFor, TypeOK
  <2>5. (pending \/ Top(k))'
    BY <1>0, <1>7, <2>1 DEF DelayFor, TypeOK
  <2>. QED BY <1>0, <2>1, <2>3, <2>4, <2>5 DEF TypeOK, KernelInv, Lists
<1>8. ASSUME Yield
      PROVE  IInv'
  <2>1. KernelInv(osYield(k)) /\ Top(osYield(k))
    BY <1>0, Schedule DEF osYield
  <2>. QED BY <1>0, <1>8, <2>1, CallIInv DEF Yield
<1>9. ASSUME Tick
      PROVE  IInv'
  <2>1. KernelInv(k)' /\ Top(k)'
    BY <1>0, <1>9, TickHandler DEF Tick
  <2>2. [t \in Thread |-> left[t] - 1] \in [Thread -> Int]
    BY <1>0 DEF TypeOK
  <2>3. left' \in [Thread -> Int]
    BY <1>9, <2>2, ElapseType DEF Tick
  <2>4. pending' = FALSE /\ running' = running
    BY <1>9 DEF Tick
  <2>. QED BY <1>0, <2>1, <2>3, <2>4 DEF TypeOK, KernelInv, Lists
<1>10. ASSUME Run
       PROVE  IInv'
  <2>1. KernelInv(k)' /\ Top(k)'
    BY <1>0, <1>10, RunInv DEF Run
  <2>2. pending' = FALSE /\ running' = TRUE /\ left' = left
    BY <1>10 DEF Run
  <2>. QED BY <1>0, <2>1, <2>2 DEF TypeOK, KernelInv, Lists
<1>11. ASSUME NEW t \in Task, NEW p \in TaskPriority, TaskSetPriority(t, p)
       PROVE  IInv'
  <2>1. KernelInv(osTaskSetPriority(k, t, p)) /\ Top(osTaskSetPriority(k, t, p))
    BY <1>0, SetPriorityInv, SchedulerAssumption
  <2>. QED BY <1>0, <1>11, <2>1, CallIInv DEF TaskSetPriority
<1>13. ASSUME NEW late \in OsTick, NEW interval \in Delay \ {OS_WAIT_FOREVER},
              DelayUntil(late, interval)
       PROVE  IInv'
  <2>0. /\ interval \in 0 .. OS_WAIT_FOREVER - 1 /\ interval \in OsTick
        /\ interval \in Int /\ late \in Int
    BY SchedulerAssumption, KernelAssumption DEF OsTick, OS_WAIT_FOREVER
  <2>1. k.ticks \in OsTick
    BY <1>0 DEF TypeOK, KernelState
  <2>2. k' = IF late < interval THEN osDelay(k, interval - late) ELSE k
    BY <1>13, <2>0, <2>1, UntilIsDelay DEF DelayUntil
  <2>3. late < interval => interval - late \in OsTick
    <3>1. OS_TICKS \in Nat /\ late \in 0 .. OS_TICKS - 1 /\ interval \in 0 .. OS_TICKS - 1
      BY <2>0, KernelAssumption DEF OsTick
    <3>2. late < interval => interval - late \in 0 .. OS_TICKS - 1
      BY <3>1
    <3>. QED BY <3>2 DEF OsTick
  <2>4. KernelInv(k)' /\ (Top(k) => Top(k)') /\ (k'.current # k.current => Top(k)')
    <3>1. KernelInv(k) /\ (Top(k) => Top(k)) /\ (k.current # k.current => Top(k))
      BY <1>0
    <3>. DEFINE r == osDelay(k, interval - late)
    <3>2. late < interval => /\ KernelInv(r)
                             /\ Top(k) \/ interval - late = 0 \/ k.current # osIdleTask => Top(r)
      BY <1>0, <2>3, DelayInv
    <3>3. late < interval /\ k.current = osIdleTask => r.current = k.current
      <4>1. ASSUME late < interval, k.current = osIdleTask
            PROVE  r = SetState(k, k.current, "RUNNING")
        <5>1. interval - late # 0
          BY <2>0, <4>1
        <5>. QED BY <4>1, <5>1 DEF osDelay, osBlock
      <4>2. SetState(k, k.current, "RUNNING").current = k.current
        BY <1>0 DEF SetState, KernelInv, Lists, KernelState
      <4>. QED BY <4>1, <4>2
    <3>. HIDE DEF r
    <3>. QED BY <2>2, <3>1, <3>2, <3>3 DEF r
  <2>5. [left EXCEPT ![k.current] = interval - late] \in [Thread -> Int]
    <3>1. interval - late \in Int
      BY <2>0
    <3>2. left \in [Thread -> Int]
      BY <1>0 DEF TypeOK
    <3>. QED BY <3>1, <3>2
  <2>6. left' \in [Thread -> Int]
    BY <1>13, <2>5, ElapseType DEF DelayUntil
  <2>7. pending' \in BOOLEAN /\ running' = running
    BY <1>0, <1>13 DEF DelayUntil, TypeOK
  <2>8. (pending \/ Top(k))'
    BY <1>0, <1>13, <2>4 DEF DelayUntil, TypeOK
  <2>. QED BY <1>0, <2>4, <2>6, <2>7, <2>8 DEF TypeOK, KernelInv, Lists
<1>14. ASSUME SpareIdle
       PROVE  IInv'
  <2>1. k' = k /\ running' = running /\ pending' = pending
    BY <1>14, Spared
  <2>2. left' \in [Thread -> Int]
    BY <1>0, <1>14, ElapseType DEF SpareIdle, TypeOK
  <2>. QED BY <1>0, <2>1, <2>2 DEF TypeOK
<1>12. CASE UNCHANGED vars
  <2>1. k' = k /\ running' = running /\ pending' = pending /\ left' = left
    BY <1>12 DEF vars
  <2>2. TypeOK' /\ KernelInv(k)' /\ (pending \/ Top(k))'
    BY <1>0, <2>1 DEF TypeOK
  <2>. QED BY <2>2
<1>. QED
  BY <1>1, <1>2, <1>3, <1>4, <1>5, <1>6, <1>7, <1>8, <1>9, <1>10, <1>11, <1>12, <1>13, <1>14
     DEF Next, FixedPriorityNext, TaskCall

LEMMA NextPlain == IInv /\ Plain(k) /\ [Next]_vars => Plain(k)' /\ Ends(k', k)
<1>. SUFFICES ASSUME IInv, Plain(k), [Next]_vars PROVE Plain(k') /\ Ends(k', k)
  OBVIOUS
<1>0. KernelInv(k) /\ \A t \in Task : t \in Thread /\ t # osIdleTask
  BY KernelAssumption DEF IInv, Thread
<1>1. ASSUME NEW t \in Task, NEW p \in TaskPriority, TaskCreate(t, p)
      PROVE  Plain(k') /\ Ends(k', k)
  <2>1. k' = osTaskCreate(k, t, p) /\ k.state[t] = "DEAD" /\ p \in Priority
    BY <1>1, SchedulerAssumption DEF TaskCreate, Call
  <2>. QED BY <1>0, <2>1, CreatePlain
<1>2. ASSUME NEW t \in Task, TaskDelete(t)
      PROVE  Plain(k') /\ Ends(k', k)
  <2>1. k' = osTaskDelete(k, t) /\ k.state[t] # "DEAD"
    BY <1>2 DEF TaskDelete, Call
  <2>. QED BY <1>0, <2>1, DeletePlain
<1>3. ASSUME NEW t \in Task, TaskSuspend(t)
      PROVE  Plain(k') /\ Ends(k', k)
  BY <1>0, <1>3, SuspendPlain DEF TaskSuspend
<1>4. ASSUME NEW t \in Task, TaskResume(t) \/ IsrResume(t)
      PROVE  Plain(k') /\ Ends(k', k)
  <2>1. k' = osSchedule(osTaskResumeFromISR(k, t), 0)
    BY <1>4 DEF TaskResume, IsrResume, Call, osTaskResume
  <2>. QED BY <1>0, <2>1, ResumePlain
<1>5. ASSUME NEW t \in Task, PlainIsrResume(t)
      PROVE  Plain(k') /\ Ends(k', k)
  BY <1>0, <1>5, ResumePlain DEF PlainIsrResume, Ends
<1>6. ASSUME NEW ticks \in Delay, DelayFor(ticks)
      PROVE  Plain(k') /\ Ends(k', k)
  BY <1>0, <1>6, DelayPlain, SchedulerAssumption DEF DelayFor
<1>7. ASSUME NEW late \in OsTick, NEW interval \in Delay \ {OS_WAIT_FOREVER},
             DelayUntil(late, interval)
      PROVE  Plain(k') /\ Ends(k', k)
  <2>1. /\ interval \in 0 .. OS_WAIT_FOREVER - 1 /\ interval \in OsTick
    BY SchedulerAssumption, KernelAssumption DEF OsTick, OS_WAIT_FOREVER
  <2>2. k.ticks \in OsTick
    BY DEF IInv, TypeOK, KernelState
  <2>3. k' = IF late < interval THEN osDelay(k, interval - late) ELSE k
    BY <1>7, <2>1, <2>2, UntilIsDelay DEF DelayUntil
  <2>4. late < interval => interval - late \in OsTick
    <3>1. OS_TICKS \in Nat /\ late \in 0 .. OS_TICKS - 1 /\ interval \in 0 .. OS_TICKS - 1
      BY <2>1, KernelAssumption DEF OsTick
    <3>2. late < interval => interval - late \in 0 .. OS_TICKS - 1
      BY <3>1
    <3>. QED BY <3>2 DEF OsTick
  <2>. QED BY <1>0, <2>3, <2>4, DelayPlain DEF Ends
<1>8. ASSUME Yield
      PROVE  Plain(k') /\ Ends(k', k)
  BY <1>0, <1>8, SchedulePlain DEF Yield, Call, osYield
<1>9. ASSUME Tick
      PROVE  Plain(k') /\ Ends(k', k)
  BY <1>0, <1>9, TickPlain DEF Tick
<1>10. ASSUME Run
       PROVE  Plain(k') /\ Ends(k', k)
  BY <1>0, <1>10, RunPlain DEF Run
<1>11. ASSUME NEW t \in Task, NEW p \in TaskPriority, TaskSetPriority(t, p)
       PROVE  Plain(k') /\ Ends(k', k)
  <2>1. k' = osTaskSetPriority(k, t, p) /\ p \in Priority
    BY <1>11, SchedulerAssumption DEF TaskSetPriority, Call
  <2>. QED BY <1>0, <2>1, SetPriorityPlain
<1>12. CASE UNCHANGED vars
  BY <1>12 DEF vars, Ends
<1>13. CASE SpareIdle
  BY <1>13, Spared DEF Ends
<1>. QED
  BY <1>1, <1>2, <1>3, <1>4, <1>5, <1>6, <1>7, <1>8, <1>9, <1>10, <1>11, <1>12, <1>13
     DEF Next, FixedPriorityNext, TaskCall

LEMMA PlainInvariant == Spec => [](IInv /\ Plain(k))
<1>1. Init => IInv /\ Plain(k)
  BY InitIInv, InitPlain DEF Init
<1>2. IInv /\ Plain(k) /\ [Next]_vars => (IInv /\ Plain(k))'
  BY NextIInv, NextPlain
<1>. QED
  BY <1>1, <1>2, PTL DEF Spec

\* What a step does to the timers, and to the tasks that wait for them.
Timely ==
  /\ DeadlinesExact'
  /\ \A t \in Thread : k.state[t] = "BLOCKED" /\ k'.state[t] \in {"READY", "RUNNING"}
                         => left[t] = 1 /\ k'.ticks = (k.ticks + 1) % OS_TICKS

LEMMA NextTimely == IInv /\ Plain(k) /\ DeadlinesExact /\ [Next]_vars => Timely
<1>. SUFFICES ASSUME IInv, Plain(k), DeadlinesExact, [Next]_vars PROVE Timely
  OBVIOUS
<1>0. /\ KernelInv(k) /\ TypeOK /\ IInv' /\ KernelInv(k')
      /\ HasTimers(k) /\ k.timerList \in Seq(TimerEntry) /\ k.ticks \in OsTick
      /\ left \in [Thread -> Int] /\ Exact(k, left)
      /\ \A t \in Task : t \in Thread /\ t # osIdleTask
  <2>1. KernelInv(k) /\ TypeOK /\ IInv' /\ left \in [Thread -> Int]
    BY NextIInv DEF IInv, TypeOK
  <2>2. KernelInv(k')
    BY <2>1 DEF IInv
  <2>3. Exact(k, left)
    BY DEF DeadlinesExact, Exact
  <2>. QED BY <2>1, <2>2, <2>3, CurrentUntimed, KernelAssumption DEF Thread
<1>1. ASSUME Untimed(k', k), Unaffected(k', k), Elapse(left) \/ left' = left
      PROVE  Timely
  <2>1. Exact(k', left)
    BY <1>0, <1>1, ExactUntimed
  <2>2. DeadlinesExact'
    <3>1. CASE left' = left
      BY <2>1, <3>1 DEF Exact, DeadlinesExact
    <3>2. CASE Elapse(left)
      BY <1>0, <2>1, <3>2, ElapseExact
    <3>. QED BY <1>1, <3>1, <3>2
  <2>. QED BY <1>1, <2>2 DEF Timely, Unaffected, Same
<1>2. ASSUME Exact(k', left), Asleep(k', k), Elapse(left)
      PROVE  Timely
  BY <1>0, <1>2, ElapseExact DEF Timely, Asleep
<1>3. ASSUME NEW t \in Task, NEW p \in TaskPriority, TaskCreate(t, p)
      PROVE  Timely
  <2>1. k' = osTaskCreate(k, t, p) /\ k.state[t] = "DEAD" /\ p \in Priority /\ Elapse(left)
    BY <1>3, SchedulerAssumption DEF TaskCreate, Call
  <2>2. Exact(k', left)
    BY <1>0, <2>1, CreateUntimed, ExactUntimed
  <2>3. Asleep(k', k)
    BY <1>0, <2>1, CreateInv DEF Asleep, Only, Same
  <2>. QED BY <1>2, <2>1, <2>2, <2>3
<1>4. ASSUME NEW t \in Task, TaskDelete(t)
      PROVE  Timely
  <2>1. k' = osTaskDelete(k, t) /\ Elapse(left)
    BY <1>4 DEF TaskDelete, Call
  <2>2. Exact(k', left)
    BY <1>0, <2>1, DeleteExact
  <2>3. k.mutexes[t] = << >>
    BY <1>0 DEF Plain
  <2>4. Asleep(k', k)
    BY <1>0, <2>1, <2>3, DeleteInv DEF Asleep, Only, Same
  <2>. QED BY <1>2, <2>1, <2>2, <2>4
<1>5. ASSUME NEW t \in Task, TaskSuspend(t)
      PROVE  Timely
  <2>1. k' = osTaskSuspend(k, t) /\ Elapse(left)
    BY <1>5 DEF TaskSuspend
  <2>. QED BY <1>0, <1>2, <2>1, SuspendExact, SuspendAsleep
<1>6. ASSUME NEW t \in Task, TaskResume(t) \/ IsrResume(t)
      PROVE  Timely
  <2>1. k' = osSchedule(osTaskResumeFromISR(k, t), 0) /\ k' = osTaskResume(k, t) /\ Elapse(left)
    BY <1>6 DEF TaskResume, IsrResume, Call, osTaskResume
  <2>. QED BY <1>0, <1>1, <2>1, ResumeUntimed, ResumeInv
<1>7. ASSUME NEW t \in Task, PlainIsrResume(t)
      PROVE  Timely
  <2>1. k' = osTaskResumeFromISR(k, t) /\ left' = left
    BY <1>7 DEF PlainIsrResume
  <2>. QED BY <1>0, <1>1, <2>1, ResumeUntimed, ResumeInv
<1>8. ASSUME NEW ticks \in OsTick, k' = osDelay(k, ticks),
             Elapse([left EXCEPT ![k.current] = ticks])
      PROVE  Timely
  <2>. DEFINE c == [left EXCEPT ![k.current] = ticks]
  <2>1. ticks \in Int /\ k.current \in Thread /\ k.state[k.current] = "RUNNING"
    BY <1>0, KernelAssumption, CurrentUntimed DEF OsTick, KernelInv, CurrentExact
  <2>2. c \in [Thread -> Int] /\ Exact(k', c)
    BY <1>0, <1>8, <2>1, DelayExact
  <2>. HIDE DEF c
  <2>3. DeadlinesExact'
    BY <1>0, <1>8, <2>2, ElapseExact DEF c
  <2>4. Unaffected(k', k) \/ Only(k', k, k.current)
    BY <1>0, <1>8, DelayInv
  <2>. QED BY <2>1, <2>3, <2>4 DEF Timely, Unaffected, Only, Same
<1>9. ASSUME NEW ticks \in Delay, DelayFor(ticks)
      PROVE  Timely
  BY <1>8, <1>9, SchedulerAssumption DEF DelayFor
<1>10. ASSUME NEW late \in OsTick, NEW interval \in Delay \ {OS_WAIT_FOREVER},
              DelayUntil(late, interval)
       PROVE  Timely
  <2>1. /\ interval \in 0 .. OS_WAIT_FOREVER - 1 /\ interval \in OsTick
        /\ interval \in Int /\ late \in Int
    BY SchedulerAssumption, KernelAssumption DEF OsTick, OS_WAIT_FOREVER
  <2>2. k' = IF late < interval THEN osDelay(k, interval - late) ELSE k
    BY <1>0, <1>10, <2>1, UntilIsDelay DEF DelayUntil
  <2>3. Elapse([left EXCEPT ![k.current] = interval - late])
    BY <1>10 DEF DelayUntil
  <2>4. CASE late < interval
    <3>1. interval - late \in OsTick
      <4>1. OS_TICKS \in Nat /\ late \in 0 .. OS_TICKS - 1 /\ interval \in 0 .. OS_TICKS - 1
        BY <2>1, KernelAssumption DEF OsTick
      <4>2. interval - late \in 0 .. OS_TICKS - 1
        BY <2>4, <4>1
      <4>. QED BY <4>2 DEF OsTick
    <3>. QED BY <1>8, <2>2, <2>3, <2>4, <3>1
  <2>5. CASE ~(late < interval)
    <3>. DEFINE c == [left EXCEPT ![k.current] = interval - late]
    <3>1. interval - late \in Int
      BY <2>1
    <3>2. c \in [Thread -> Int]
      BY <1>0, <3>1
    <3>3. k' = k
      BY <2>2, <2>5
    <3>4. Exact(k', c)
      BY <1>0, <3>3, CurrentUntimed, ExactOther
    <3>. HIDE DEF c
    <3>5. DeadlinesExact'
      BY <1>0, <2>3, <3>2, <3>4, ElapseExact DEF c
    <3>. QED BY <3>3, <3>5 DEF Timely
  <2>. QED BY <2>4, <2>5
<1>11. ASSUME Yield
       PROVE  Timely
  <2>1. k' = osSchedule(k, 1) /\ Elapse(left)
    BY <1>11 DEF Yield, Call, osYield
  <2>. QED BY <1>0, <1>1, <2>1, ScheduleUntimed, Schedule
<1>12. ASSUME Tick
       PROVE  Timely
  <2>. DEFINE c == [t \in Thread |-> left[t] - 1]
  <2>1. k' = osTickHandler(k) /\ Elapse(c) /\ c \in [Thread -> Int]
    BY <1>0, <1>12 DEF Tick
  <2>2. /\ Exact(k', c) /\ k'.ticks = (k.ticks + 1) % OS_TICKS
        /\ \A t \in Thread : k.state[t] = "BLOCKED" /\ k'.state[t] # "BLOCKED" => left[t] = 1
    BY <1>0, <2>1, TickExact
  <2>. HIDE DEF c
  <2>3. DeadlinesExact'
    BY <1>0, <2>1, <2>2, ElapseExact
  <2>. QED BY <2>2, <2>3 DEF Timely
<1>13. ASSUME Run
       PROVE  Timely
  <2>1. k' = osRun(k) /\ left' = left /\ k.current = osIdleTask
    BY <1>13 DEF Run
  <2>. QED BY <1>0, <1>1, <2>1, RunUntimed, RunInv
<1>14. ASSUME NEW t \in Task, NEW p \in TaskPriority, TaskSetPriority(t, p)
       PROVE  Timely
  <2>1. k' = osTaskSetPriority(k, t, p) /\ Elapse(left) /\ p \in Priority
    BY <1>14, SchedulerAssumption DEF TaskSetPriority, Call
  <2>. QED BY <1>0, <1>1, <2>1, SetPriorityUntimed, SetPriorityInv
<1>15. CASE UNCHANGED vars
  BY <1>15 DEF vars, Timely, DeadlinesExact
<1>16. ASSUME SpareIdle
       PROVE  Timely
  <2>1. k' = k /\ Elapse(left)
    BY <1>16, Spared DEF SpareIdle
  <2>2. Exact(k', left)
    BY <1>0, <2>1
  <2>3. DeadlinesExact'
    BY <1>0, <2>1, <2>2, ElapseExact
  <2>. QED BY <2>1, <2>3 DEF Timely
<1>. QED
  BY <1>3, <1>4, <1>5, <1>6, <1>7, <1>9, <1>10, <1>11, <1>12, <1>13, <1>14, <1>15, <1>16
     DEF Next, FixedPriorityNext, TaskCall

LEMMA DeadlinesInvariant == Spec => [](IInv /\ Plain(k) /\ DeadlinesExact)
<1>1. Init => DeadlinesExact
  BY DEF Init, osInit, DeadlinesExact
<1>2. IInv /\ Plain(k) /\ DeadlinesExact /\ [Next]_vars => DeadlinesExact'
  BY NextTimely DEF Timely
<1>. QED
  BY <1>1, <1>2, PlainInvariant, PTL DEF Spec

\* The inductive invariant holds in every state.
THEOREM KernelInvariant == Spec => []IInv
BY InitIInv, NextIInv, PTL DEF Spec

(***************************************************************************)
(* Every step of the scheduler leaves values of their types: the functions *)
(* of scheduler.c and tasks.c are never applied outside their domain.      *)
(***************************************************************************)
THEOREM TypeCorrect == Spec => []TypeOK
<1>1. IInv => TypeOK
  BY DEF IInv
<1>. QED
  BY <1>1, KernelInvariant, PTL

(***************************************************************************)
(* The lists and the fields of the tasks agree, whatever the application   *)
(* calls and whenever an interrupt arrives.                                *)
(***************************************************************************)
THEOREM ListsCorrect == Spec => []ListsExact
<1>1. IInv => ListsExact
  BY DEF IInv, KernelInv, Lists, ListsExact
<1>. QED
  BY <1>1, KernelInvariant, PTL

(***************************************************************************)
(* The ready list is ordered, whatever changes priorities: aging does not  *)
(* move anybody and need not, as it keeps the order (scheduler.c:276-290). *)
(***************************************************************************)
THEOREM ReadyListIsSorted == Spec => []ReadyListSorted
<1>1. IInv => ReadyListSorted
  BY DEF IInv, KernelInv, Lists, Ordered, ReadyListSorted
<1>. QED
  BY <1>1, KernelInvariant, PTL

(***************************************************************************)
(* The processor always has the most important of the tasks that can run,  *)
(* but for the time from an interrupt handler without OS_ISR to the next   *)
(* call of the scheduler: since the list is ordered it is enough that the  *)
(* scheduler looks at its first task (scheduler.c:178-203).                *)
(***************************************************************************)
THEOREM MostImportantAlwaysRuns == Spec => []MostImportantRuns
<1>1. IInv => MostImportantRuns
  BY DEF IInv, Top, MostImportantRuns
<1>. QED
  BY <1>1, KernelInvariant, PTL

(***************************************************************************)
(* Whatever the width of the tick counter and whatever it reads, a task    *)
(* that is late by less than a turn of it waits with osDelayUntil for      *)
(* exactly what is left of its period (scheduler.c:328-340).               *)
(***************************************************************************)
THEOREM PeriodsAlwaysKept == Spec => []PeriodsKept
<1>1. IInv => PeriodsKept
  <2>. SUFFICES ASSUME IInv PROVE PeriodsKept
    OBVIOUS
  <2>1. k.ticks \in OsTick
    BY DEF IInv, TypeOK, KernelState
  <2>. QED BY <2>1, UntilIsDelay DEF PeriodsKept
<1>. QED
  BY <1>1, KernelInvariant, PTL

\* There is always a task to dispatch.
THEOREM IdleAlwaysAvailable == Spec => []IdleAvailable
<1>1. IInv => IdleAvailable
  BY DEF IInv, KernelInv, IdleAvailable
<1>. QED
  BY <1>1, KernelInvariant, PTL

(***************************************************************************)
(* Whatever OS_CFG_AGING_TICKS and the number of tasks, nobody who has     *)
(* waited for long keeps the processor from a task created above           *)
(* OS_CFG_AGING_LIMIT: only aging lifts a task that owns no mutex above    *)
(* its own priority, and never beyond the limit (config.h:65-66).          *)
(***************************************************************************)
THEOREM AgingNeverDelaysTheImportant == Spec => []AgingNeverDelays
<1>1. IInv /\ Plain(k) => AgingNeverDelays
  <2>. SUFFICES ASSUME IInv, Plain(k), NEW t \in ToSet(k.readyList),
                       k.basePriority[t] > OS_CFG_AGING_LIMIT, ~pending
                PROVE  k.basePriority[k.current] >= k.basePriority[t]
    BY DEF AgingNeverDelays
  <2>1. /\ k.current \in Thread /\ t \in Thread /\ Priority \subseteq Int
        /\ k.priority \in [Thread -> Priority] /\ k.basePriority \in [Thread -> Priority]
        /\ OS_CFG_AGING_LIMIT \in Int
    BY KernelAssumption DEF IInv, KernelInv, Lists, ReadyListExact, KernelState, Priority,
                            MainPriority
  <2>2. /\ k.priority[t] \in Priority /\ k.basePriority[t] \in Priority
        /\ k.priority[k.current] \in Priority /\ k.basePriority[k.current] \in Priority
    BY <2>1
  <2>3. k.basePriority[t] <= k.priority[t] /\ k.priority[t] <= k.priority[k.current]
    BY <2>1 DEF IInv, Top, Plain
  <2>4. \/ k.priority[k.current] = k.basePriority[k.current]
        \/ k.priority[k.current] <= OS_CFG_AGING_LIMIT
    BY <2>1 DEF Plain
  <2>5. /\ k.priority[t] \in Int /\ k.basePriority[t] \in Int
        /\ k.priority[k.current] \in Int /\ k.basePriority[k.current] \in Int
    BY <2>1, <2>2
  <2>. QED BY <2>1, <2>3, <2>4, <2>5
<1>. QED
  BY <1>1, PlainInvariant, PTL

(***************************************************************************)
(* Every way to give the processor away but osTaskSuspend settles the      *)
(* task: osSchedule and osBlock call osSettle before they dispatch         *)
(* (scheduler.c:194, 220), and a settled task that owns no mutex has its   *)
(* own priority.  A task that suspends itself is left out, as it keeps     *)
(* what it has gained (tasks.c:157).                                       *)
(***************************************************************************)
THEOREM AlwaysSettledUnlessSuspended == Spec => SettledUnlessSuspended
<1>1. IInv /\ Plain(k) /\ [Next]_vars =>
        [k'.current # k.current /\ k'.state[k.current] \notin {"DEAD", "SUSPENDED"}
           => k'.priority[k.current] = k'.basePriority[k.current]]_vars
  BY NextPlain DEF Ends
<1>. QED
  BY <1>1, PlainInvariant, PTL DEF Spec, SettledUnlessSuspended

(***************************************************************************)
(* Whatever the width of the tick counter, and through each of its         *)
(* overflows, the timer list is in the order in which its timers expire    *)
(* and the difference to the counter is the time they have left, counted   *)
(* one by one: comparing differences (scheduler.c:74) sorts as the delays  *)
(* do because none is longer than a turn of the counter.                   *)
(***************************************************************************)
THEOREM DeadlinesAlwaysExact == Spec => []DeadlinesExact
BY DeadlinesInvariant, PTL

(***************************************************************************)
(* A delay ends with the tick it was asked for and with no other call.     *)
(* The loop of the tick stops at the first timer that is not due           *)
(* (scheduler.c:265-267): nobody behind it is, as the list is in order.    *)
(***************************************************************************)
THEOREM AlwaysWokenOnTime == Spec => WokenOnTime
<1>1. IInv /\ Plain(k) /\ DeadlinesExact /\ [Next]_vars =>
        [\A t \in Task :
           k.state[t] = "BLOCKED" /\ k'.state[t] \in {"READY", "RUNNING"}
             => left[t] = 1 /\ k'.ticks = (k.ticks + 1) % OS_TICKS]_vars
  <2>1. \A t \in Task : t \in Thread
    BY DEF Thread
  <2>. QED BY <2>1, NextTimely DEF Timely
<1>. QED
  BY <1>1, DeadlinesInvariant, PTL DEF Spec, WokenOnTime

----------------------------------------------------------------------------
(***************************************************************************)
(* Software timers, with the arithmetic of the timeouts above.  Their list *)
(* is in order of the ticks the timers have to go, and outside of the tick *)
(* interrupt none of them is due.                                          *)
(***************************************************************************)
\* Ticks a timer has to go, and how near it is to its end.
Left(t) == (when[t] - osTicks) % OS_TICKS
Nearness == [t \in Timer |-> OS_TICKS - Left(t)]

TimerInv ==
  /\ TimerTypeOK
  /\ Injective(osTimers)
  /\ Falls(Nearness, osTimers, Len(osTimers))
  /\ place = "outside" => \A t \in ToSet(osTimers) : Left(t) > 0

LEMMA LeftType ==
  ASSUME TimerTypeOK
  PROVE  /\ OS_TICKS \in Nat \ {0, 1} /\ OsTick = 0 .. OS_TICKS - 1 /\ osTicks \in OsTick
         /\ \A t \in Timer : Left(t) \in OsTick /\ Nearness[t] \in Int /\ when[t] \in OsTick
<1>1. OS_TICKS \in Nat \ {0, 1} /\ OsTick = 0 .. OS_TICKS - 1 /\ osTicks \in 0 .. OS_TICKS - 1
  BY TimerAssumption DEF OsTick, TimerTypeOK
<1>2. ASSUME NEW t \in Timer
      PROVE  when[t] \in 0 .. OS_TICKS - 1 /\ Left(t) \in 0 .. OS_TICKS - 1 /\ Nearness[t] \in Int
  <2>1. when[t] \in 0 .. OS_TICKS - 1
    BY DEF TimerTypeOK, OsTick
  <2>2. when[t] - osTicks \in Int
    BY <1>1, <2>1
  <2>3. (when[t] - osTicks) % OS_TICKS \in 0 .. OS_TICKS - 1
    BY <1>1, <2>2
  <2>. QED BY <1>1, <2>1, <2>3 DEF Left, Nearness
<1>. QED
  BY <1>1, <1>2

\* A timer is put where its deadline belongs.
LEMMA TimerInsert ==
  ASSUME TimerTypeOK, NEW list \in Seq(Timer), Injective(list), Falls(Nearness, list, Len(list)),
         NEW timer \in Timer, timer \notin ToSet(list), NEW delay \in OsTick,
         NEW f, f[timer] = OS_TICKS - delay, \A t \in ToSet(list) : f[t] = Nearness[t]
  PROVE  LET r == osTimerInsert(list, timer, delay)
         IN  /\ r \in Seq(Timer) /\ Injective(r)
             /\ ToSet(r) = ToSet(list) \cup {timer}
             /\ Falls(f, r, Len(r))
<1>. DEFINE I == {i \in 1 .. Len(list) : (when[list[i]] - osTicks) % OS_TICKS > delay}
            i == SelectInSeq(list, LAMBDA it : (when[it] - osTicks) % OS_TICKS > delay)
            n == Len(list)
            r == IF i = 0 THEN Append(list, timer) ELSE InsertAt(list, i, timer)
            spot == IF i = 0 THEN n + 1 ELSE i
<1>1. i = IF I # {} THEN Min(I) ELSE 0
  BY DEF SelectInSeq
<1>2. n \in Nat /\ \A j \in 1 .. n : list[j] \in Timer
  OBVIOUS
<1>3. /\ OS_TICKS \in Nat /\ delay \in 0 .. OS_TICKS - 1
      /\ \A j \in 1 .. n : f[list[j]] = OS_TICKS - Left(list[j]) /\ Left(list[j]) \in 0 .. OS_TICKS - 1
  <2>1. \A j \in 1 .. n : list[j] \in ToSet(list)
    BY InToSet
  <2>. QED BY <1>2, <2>1, LeftType DEF Nearness
<1>4. I = {j \in 1 .. n : Left(list[j]) > delay}
  BY DEF Left
<1>5. osTimerInsert(list, timer, delay) = r
  BY DEF osTimerInsert, SelectInSeq, InsertAt, Min, SelectInSeq, InsertAt, Min
<1>6. Falls(f, list, n)
  BY FallsSame
<1>. HIDE DEF i
<1>7. /\ spot \in 1 .. n + 1
      /\ \A j \in 1 .. spot - 1 : Left(list[j]) <= delay
      /\ spot <= n => Left(list[spot]) > delay
      /\ i # 0 => i \in 1 .. n
  <2>1. CASE I = {}
    <3>1. i = 0 /\ spot = n + 1 /\ \A j \in 1 .. n : ~(Left(list[j]) > delay)
      BY <1>1, <1>4, <2>1
    <3>. HIDE DEF spot, I, r
    <3>. QED BY <1>2, <1>3, <3>1
  <2>2. CASE I # {}
    <3>1. I \in SUBSET (1 .. n) /\ n \in Nat
      BY <1>2
    <3>2. i \in I /\ i \in 1 .. n /\ \A j \in 1 .. n : j < i => j \notin I
      <4>. HIDE DEF I, n
      <4>. QED BY <1>1, <2>2, <3>1, LeastIndex
    <3>3. spot = i
      BY <3>2
    <3>. HIDE DEF spot
    <3>4. ASSUME NEW j \in 1 .. i - 1 PROVE Left(list[j]) <= delay
      <4>1. j \in 1 .. n /\ j < i
        BY <3>2
      <4>2. ~(Left(list[j]) > delay)
        BY <1>4, <3>2, <4>1
      <4>. QED BY <1>3, <4>1, <4>2
    <3>. QED BY <1>4, <3>2, <3>3, <3>4
  <2>. QED BY <2>1, <2>2
<1>8. IsInserted(r, list, n, spot, timer) /\ Len(r) = n + 1
  <2>1. CASE i = 0
    <3>1. r = Append(list, timer) /\ spot = n + 1
      BY <2>1
    <3>. HIDE DEF r, spot
    <3>. QED BY <1>2, <3>1, AppendProperties DEF IsInserted
  <2>2. CASE i # 0
    <3>1. r = InsertAt(list, i, timer) /\ i \in 1 .. n /\ spot = i
      BY <1>2, <1>7, <2>2
    <3>. HIDE DEF r, spot
    <3>. QED BY <3>1, InsertAtType DEF IsInserted
  <2>. QED BY <2>1, <2>2
<1>9. r \in Seq(Timer) /\ Injective(r) /\ ToSet(r) = ToSet(list) \cup {timer}
  <2>1. CASE i = 0
    <3>. HIDE DEF spot
    <3>. QED BY <2>1, AppendSet
  <2>2. CASE i # 0
    <3>1. i \in 1 .. Len(list)
      BY <1>2, <1>7, <2>2
    <3>. QED BY <2>2, <3>1, InsertAtType, InsertAtSet
  <2>. QED BY <2>1, <2>2
<1>. HIDE DEF r, n, spot, I
<1>10. ASSUME NEW j \in spot .. n PROVE f[list[j]] <= f[timer]
  <2>1. j \in 1 .. n /\ spot \in 1 .. n /\ (spot < j \/ spot = j)
    BY <1>2, <1>7
  <2>2. f[list[spot]] <= f[timer]
    BY <1>3, <1>7, <2>1
  <2>3. f[list[spot]] >= f[list[j]]
    BY <1>3, <1>6, <2>1 DEF Falls
  <2>. QED BY <1>3, <2>1, <2>2, <2>3
<1>11. ASSUME NEW j \in 1 .. spot - 1 PROVE f[list[j]] >= f[timer]
  <2>1. j \in 1 .. n
    BY <1>2, <1>7
  <2>2. Left(list[j]) <= delay
    BY <1>7
  <2>. QED BY <1>3, <2>1, <2>2
<1>12. Falls(f, r, n + 1)
  <2>1. f[timer] \in Int /\ \A j \in 1 .. n : f[list[j]] \in Int
    BY <1>3
  <2>. QED BY <1>2, <1>6, <1>7, <1>8, <1>10, <1>11, <2>1, InsertedFalls
<1>. QED
  BY <1>5, <1>8, <1>9, <1>12 DEF r

\* What the step that sets a timer leaves behind.
LEMMA SetTimer ==
  ASSUME TimerInv, NEW timer \in Timer, NEW delay \in OsTick, NEW list \in Seq(Timer),
         Injective(list), Falls(Nearness, list, Len(list)), timer \notin ToSet(list),
         osTimers' = osTimerInsert(list, timer, delay),
         when' = [when EXCEPT ![timer] = (osTicks + delay) % OS_TICKS],
         osTicks' = osTicks
  PROVE  /\ osTimers' \in Seq(Timer) /\ Injective(osTimers')
         /\ ToSet(osTimers') = ToSet(list) \cup {timer}
         /\ when' \in [Timer -> OsTick]
         /\ Falls(Nearness', osTimers', Len(osTimers'))
         /\ Left(timer)' = delay
         /\ \A t \in Timer \ {timer} : Left(t)' = Left(t)
<1>0. TimerTypeOK
  BY DEF TimerInv
<1>1. /\ OS_TICKS \in Nat \ {0, 1} /\ OsTick = 0 .. OS_TICKS - 1 /\ osTicks \in OsTick
      /\ \A t \in Timer : Left(t) \in OsTick /\ when[t] \in OsTick
  BY <1>0, LeftType
<1>2. when \in [Timer -> OsTick]
  BY <1>0, <1>1 DEF TimerTypeOK, OsTick
<1>. DEFINE wake == (osTicks + delay) % OS_TICKS
<1>3. wake \in OsTick
  <2>1. osTicks + delay \in Int
    BY <1>1
  <2>. QED BY <1>1, <2>1
<1>4. (wake - osTicks) % OS_TICKS = delay
  <2>1. wake = (osTicks + delay) % OS_TICKS /\ wake \in Int
    BY <1>1, <1>3
  <2>. HIDE DEF wake
  <2>. QED BY <1>1, <2>1, WholeTimeout
<1>5. when' = [when EXCEPT ![timer] = wake]
  OBVIOUS
<1>. HIDE DEF wake
<1>6. when' \in [Timer -> OsTick] /\ when'[timer] = wake
      /\ \A t \in Timer \ {timer} : when'[t] = when[t]
  BY <1>2, <1>3, <1>5
<1>7. Left(timer)' = delay /\ \A t \in Timer \ {timer} : Left(t)' = Left(t)
  BY <1>4, <1>6 DEF Left
<1>8. /\ \A t \in ToSet(list) : t \in Timer \ {timer}
      /\ Nearness'[timer] = OS_TICKS - delay
      /\ \A t \in Timer \ {timer} : Nearness'[t] = Nearness[t]
  <2>1. \A t \in ToSet(list) : t \in Timer
    BY DEF ToSet
  <2>2. Nearness'[timer] = OS_TICKS - Left(timer)'
    BY DEF Nearness
  <2>3. \A t \in Timer \ {timer} : Nearness'[t] = OS_TICKS - Left(t)' /\ Nearness[t] = OS_TICKS - Left(t)
    BY DEF Nearness
  <2>. QED BY <1>7, <2>1, <2>2, <2>3
<1>9. LET r == osTimerInsert(list, timer, delay)
      IN  /\ r \in Seq(Timer) /\ Injective(r)
          /\ ToSet(r) = ToSet(list) \cup {timer}
          /\ Falls(Nearness', r, Len(r))
  BY <1>0, <1>8, TimerInsert
<1>. QED
  BY <1>6, <1>7, <1>9

\* The variables and steps of Alarms.
Rest == [t \in Timer |-> IF t \in ToSet(osTimers) THEN Left(t) ELSE 0]

LEMMA PromiseSteps ==
  /\ \A t, delay, p :
       /\ ToSet(osTimers') = ToSet(osTimers) \cup {t}
       /\ Rest' = [Rest EXCEPT ![t] = IF delay = 0 THEN 1 ELSE delay]
       /\ period' = [period EXCEPT ![t] = p]
       => Promise!Start(t, delay, p)
  /\ \A t :
       /\ ToSet(osTimers') = ToSet(osTimers) \ {t}
       /\ Rest' = [Rest EXCEPT ![t] = 0]
       /\ period' = period
       => Promise!Stop(t)
  /\ \A t :
       /\ t \in ToSet(osTimers) /\ Rest[t] = 0
       /\ ToSet(osTimers') = IF period[t] = 0 THEN ToSet(osTimers) \ {t} ELSE ToSet(osTimers)
       /\ Rest' = [Rest EXCEPT ![t] = period[t]]
       /\ period' = period
       => Promise!GoOff(t)
  /\ (/\ \A t \in ToSet(osTimers) : Rest[t] > 0
      /\ Rest' = [t \in Timer |-> IF t \in ToSet(osTimers) THEN Rest[t] - 1 ELSE 0]
      /\ ToSet(osTimers') = ToSet(osTimers)
      /\ period' = period)
       => Promise!Tick
  /\ Rest' = Rest /\ ToSet(osTimers') = ToSet(osTimers) /\ period' = period => UNCHANGED Promise!avars
BY DEF Rest, Left, Promise!Start, Promise!Stop, Promise!GoOff, Promise!Tick, Promise!avars

\* A timer that is due has nothing left.
LEMMA NothingLeft ==
  ASSUME TimerTypeOK, NEW t \in Timer
  PROVE  Left(t) = 0 <=> when[t] = osTicks
<1>. DEFINE M == OS_TICKS
            w == when[t]
<1>1. M \in Nat \ {0} /\ osTicks \in 0 .. M - 1 /\ w \in 0 .. M - 1
  BY LeftType
<1>. HIDE DEF M, w
<1>2. CASE w >= osTicks
  <2>1. w - osTicks \in 0 .. M - 1
    BY <1>1, <1>2
  <2>2. (w - osTicks) % M = w - osTicks
    BY <1>1, <2>1, ModTurn
  <2>. QED BY <1>1, <2>2 DEF Left, M, w
<1>3. CASE w < osTicks
  <2>1. w - osTicks \in Int /\ w - osTicks + M \in 0 .. M - 1 /\ w - osTicks + M > 0
    BY <1>1, <1>3
  <2>2. (w - osTicks) % M = w - osTicks + M
    BY <1>1, <2>1, ModOutside
  <2>. QED BY <1>1, <1>3, <2>1, <2>2 DEF Left, M, w
<1>. QED
  BY <1>1, <1>2, <1>3

LEMMA TimerListTail ==
  ASSUME TimerInv, osTimers # << >>
  PROVE  /\ Head(osTimers) \in Timer /\ Head(osTimers) \in ToSet(osTimers)
         /\ Tail(osTimers) \in Seq(Timer) /\ Injective(Tail(osTimers))
         /\ ToSet(Tail(osTimers)) = ToSet(osTimers) \ {Head(osTimers)}
         /\ Falls(Nearness, Tail(osTimers), Len(Tail(osTimers)))
         /\ \A t \in ToSet(osTimers) : Left(Head(osTimers)) <= Left(t)
<1>0. TimerTypeOK /\ osTimers \in Seq(Timer) /\ Injective(osTimers) /\ Falls(Nearness, osTimers, Len(osTimers))
  BY DEF TimerInv, TimerTypeOK
<1>1. /\ Head(osTimers) = osTimers[1] /\ Len(osTimers) \in Nat \ {0}
      /\ Len(Tail(osTimers)) = Len(osTimers) - 1
      /\ \A j \in 1 .. Len(osTimers) - 1 : Tail(osTimers)[j] = osTimers[j + 1]
      /\ \A j \in 1 .. Len(osTimers) : osTimers[j] \in Timer
  BY <1>0
<1>2. /\ Head(osTimers) \in Timer /\ Head(osTimers) \in ToSet(osTimers)
      /\ Tail(osTimers) \in Seq(Timer) /\ Injective(Tail(osTimers))
      /\ ToSet(Tail(osTimers)) = ToSet(osTimers) \ {Head(osTimers)}
  BY <1>0, HeadTail
<1>3. Falls(Nearness, Tail(osTimers), Len(Tail(osTimers)))
  <2>1. 1 \in 1 .. Len(osTimers) /\ \A j \in 1 .. 1 - 1 : Tail(osTimers)[j] = osTimers[j]
    BY <1>1
  <2>2. Falls(Nearness, Tail(osTimers), Len(osTimers) - 1)
    BY <1>0, <1>1, <2>1, RemovedFalls
  <2>. QED BY <1>1, <2>2
<1>4. ASSUME NEW t \in ToSet(osTimers) PROVE Left(Head(osTimers)) <= Left(t)
  <2>1. PICK j \in 1 .. Len(osTimers) : osTimers[j] = t
    BY <1>0, InToSet
  <2>2. /\ OS_TICKS \in Nat
        /\ \A u \in Timer : Left(u) \in Int /\ Nearness[u] = OS_TICKS - Left(u)
    <3>1. \A u \in Timer : Left(u) \in 0 .. OS_TICKS - 1
      BY <1>0, LeftType
    <3>. QED BY <1>0, <3>1, LeftType DEF Nearness
  <2>3. t \in Timer /\ osTimers[1] \in Timer /\ 1 \in 1 .. Len(osTimers)
    BY <1>1, <2>1
  <2>4. j = 1 \/ Nearness[osTimers[1]] >= Nearness[osTimers[j]]
    BY <1>0, <2>1, <2>3 DEF Falls
  <2>. QED BY <1>1, <2>1, <2>2, <2>3, <2>4
<1>. QED
  BY <1>2, <1>3, <1>4

LEMMA InitTimer ==
  ASSUME TimerInit
  PROVE  TimerInv /\ Promise!AlarmsInit
<1>1. ToSet(osTimers) = {} /\ osTimers \in Seq(Timer)
      /\ Len(osTimers) = 0 /\ Injective(osTimers)
  BY DEF TimerInit, ToSet, Injective
<1>2. TimerTypeOK
  <2>1. 0 \in OsTick /\ OS_CFG_TICK_START \in OsTick
    BY TimerAssumption DEF OsTick
  <2>. QED BY <1>1, <2>1 DEF TimerInit, TimerTypeOK
<1>3. Promise!AlarmsInit
  BY <1>1 DEF TimerInit, Promise!AlarmsInit
<1>. QED
  BY <1>1, <1>2, <1>3 DEF TimerInv, Falls

LEMMA NextTimer ==
  ASSUME TimerInv, [TimerNext]_timerVars
  PROVE  TimerInv' /\ [Promise!AlarmsNext]_(Promise!avars)
<1>0. /\ TimerTypeOK /\ osTimers \in Seq(Timer) /\ Injective(osTimers)
      /\ Falls(Nearness, osTimers, Len(osTimers))
      /\ osTicks \in OsTick /\ when \in [Timer -> OsTick] /\ period \in [Timer -> OsTick]
      /\ place \in {"outside", "walk", "function"}
  BY DEF TimerInv, TimerTypeOK, OsTick
<1>1. /\ OS_TICKS \in Nat \ {0, 1} /\ OsTick = 0 .. OS_TICKS - 1
      /\ \A t \in Timer : Left(t) \in OsTick
      /\ ToSet(osTimers) \subseteq Timer
  BY <1>0, LeftType DEF ToSet
<1>2. ASSUME NEW timer \in Timer, NEW delay \in TimerDelay, NEW p \in Period, osTimerStart(timer, delay, p)
      PROVE  TimerInv' /\ Promise!Start(timer, delay, p)
  <2>. DEFINE ticks == IF delay = 0 THEN 1 ELSE delay
              list == RemoveFirst(osTimers, timer)
  <2>1. ticks \in OsTick /\ ticks > 0 /\ p \in OsTick
    BY <1>1, TimerAssumption
  <2>2. /\ osTimers' = osTimerInsert(list, timer, ticks)
        /\ when' = [when EXCEPT ![timer] = (osTicks + ticks) % OS_TICKS]
        /\ period' = [period EXCEPT ![timer] = p]
        /\ osTicks' = osTicks /\ place' = place
    BY <1>2 DEF osTimerStart, osTimerRemove
  <2>3. /\ list \in Seq(Timer) /\ Injective(list) /\ ToSet(list) = ToSet(osTimers) \ {timer}
        /\ Falls(Nearness, list, Len(list))
    BY <1>0, RemoveFirstSet, RemoveFirstFalls
  <2>. HIDE DEF ticks, list
  <2>4. /\ osTimers' \in Seq(Timer) /\ Injective(osTimers')
        /\ ToSet(osTimers') = ToSet(list) \cup {timer}
        /\ when' \in [Timer -> OsTick]
        /\ Falls(Nearness', osTimers', Len(osTimers'))
        /\ Left(timer)' = ticks
        /\ \A t \in Timer \ {timer} : Left(t)' = Left(t)
    BY <2>1, <2>2, <2>3, SetTimer
  <2>5. ToSet(osTimers') = ToSet(osTimers) \cup {timer}
    BY <2>3, <2>4
  <2>6. period' \in [Timer -> OsTick]
    BY <1>0, <2>1, <2>2
  <2>7. TimerInv'
    <3>1. TimerTypeOK'
      BY <1>0, <2>2, <2>4, <2>6 DEF TimerTypeOK
    <3>2. place' = "outside" => \A t \in ToSet(osTimers') : Left(t)' > 0
      BY <1>1, <2>1, <2>2, <2>4, <2>5 DEF TimerInv
    <3>. QED BY <2>4, <3>1, <3>2 DEF TimerInv
  <2>8. Rest' = [Rest EXCEPT ![timer] = ticks]
    BY <2>4, <2>5 DEF Rest
  <2>. QED BY <2>2, <2>5, <2>7, <2>8, PromiseSteps DEF ticks
<1>3. ASSUME NEW timer \in Timer, osTimerStop(timer)
      PROVE  TimerInv' /\ Promise!Stop(timer)
  <2>1. /\ osTimers' = RemoveFirst(osTimers, timer)
        /\ osTicks' = osTicks /\ when' = when /\ period' = period /\ place' = place
    BY <1>3 DEF osTimerStop, osTimerRemove
  <2>2. /\ osTimers' \in Seq(Timer) /\ Injective(osTimers') /\ ToSet(osTimers') = ToSet(osTimers) \ {timer}
        /\ Falls(Nearness, osTimers', Len(osTimers'))
    BY <1>0, <2>1, RemoveFirstSet, RemoveFirstFalls
  <2>3. Nearness' = Nearness /\ \A t : Left(t)' = Left(t)
    BY <2>1 DEF Nearness, Left
  <2>4. TimerInv'
    BY <1>0, <2>1, <2>2, <2>3 DEF TimerInv, TimerTypeOK
  <2>5. Rest' = [Rest EXCEPT ![timer] = 0]
    BY <2>2, <2>3 DEF Rest
  <2>. QED BY <2>1, <2>2, <2>4, <2>5, PromiseSteps
<1>4. ASSUME TimerTick
      PROVE  TimerInv' /\ Promise!Tick
  <2>1. /\ place = "outside" /\ osTicks' = (osTicks + 1) % OS_TICKS /\ place' = "walk"
        /\ osTimers' = osTimers /\ when' = when /\ period' = period
    BY <1>4 DEF TimerTick
  <2>2. osTicks' \in OsTick
    <3>1. osTicks + 1 \in Int
      BY <1>0, <1>1
    <3>. QED BY <1>1, <2>1, <3>1
  <2>3. ASSUME NEW t \in ToSet(osTimers)
        PROVE  Left(t) > 0 /\ Left(t)' = Left(t) - 1
    <3>1. t \in Timer /\ Left(t) > 0 /\ when[t] \in OsTick
      BY <1>0, <1>1, <2>1, <2>3 DEF TimerInv
    <3>2. (when[t] - ((osTicks + 1) % OS_TICKS)) % OS_TICKS = ((when[t] - osTicks) % OS_TICKS) - 1
      BY <1>0, <3>1, OneTickLess DEF Left
    <3>. QED BY <2>1, <3>1, <3>2 DEF Left
  <2>4. TimerInv'
    <3>1. TimerTypeOK'
      BY <1>0, <2>1, <2>2 DEF TimerTypeOK
    <3>2. \A t \in ToSet(osTimers) : /\ Nearness'[t] = Nearness[t] + 1
                                     /\ Nearness[t] \in Int
      <4>. SUFFICES ASSUME NEW t \in ToSet(osTimers)
                    PROVE  Nearness'[t] = Nearness[t] + 1 /\ Nearness[t] \in Int
        OBVIOUS
      <4>1. Nearness'[t] = OS_TICKS - Left(t)' /\ Nearness[t] = OS_TICKS - Left(t) /\ Left(t) \in 0 .. OS_TICKS - 1
        BY <1>1 DEF Nearness
      <4>. QED BY <1>1, <2>3, <4>1
    <3>3. \A i \in 1 .. Len(osTimers) : osTimers[i] \in ToSet(osTimers)
      BY <1>0, InToSet
    <3>4. Falls(Nearness', osTimers, Len(osTimers))
      BY <1>0, <3>2, <3>3 DEF Falls
    <3>. QED BY <1>0, <2>1, <3>1, <3>4 DEF TimerInv
  <2>5. /\ \A t \in ToSet(osTimers) : Rest[t] > 0
        /\ Rest' = [t \in Timer |-> IF t \in ToSet(osTimers) THEN Rest[t] - 1 ELSE 0]
    BY <1>1, <2>1, <2>3 DEF Rest
  <2>. QED BY <2>1, <2>4, <2>5, PromiseSteps
<1>5. ASSUME Expire
      PROVE  TimerInv' /\ \E t \in Timer : Promise!GoOff(t)
  <2>. SUFFICES ASSUME NEW timer, timer = Head(osTimers), NEW p, p = period[timer]
                PROVE  TimerInv' /\ \E t \in Timer : Promise!GoOff(t)
    OBVIOUS
  <2>1. /\ place = "walk" /\ osTimers # << >> /\ when[timer] = osTicks
        /\ osTimers' = IF p = 0 THEN Tail(osTimers) ELSE osTimerInsert(Tail(osTimers), timer, p)
        /\ when' = IF p = 0 THEN when ELSE [when EXCEPT ![timer] = (osTicks + p) % OS_TICKS]
        /\ place' = "function" /\ osTicks' = osTicks /\ period' = period
    BY <1>5 DEF Expire, Due
  <2>2. /\ timer \in Timer /\ timer \in ToSet(osTimers)
        /\ Tail(osTimers) \in Seq(Timer) /\ Injective(Tail(osTimers))
        /\ ToSet(Tail(osTimers)) = ToSet(osTimers) \ {timer}
        /\ Falls(Nearness, Tail(osTimers), Len(Tail(osTimers)))
    BY <2>1, TimerListTail
  <2>3. p \in OsTick /\ Left(timer) = 0
    BY <1>0, <2>1, <2>2, NothingLeft
  <2>4. /\ osTimers' \in Seq(Timer) /\ Injective(osTimers')
        /\ ToSet(osTimers') = IF p = 0 THEN ToSet(osTimers) \ {timer} ELSE ToSet(osTimers)
        /\ when' \in [Timer -> OsTick]
        /\ Falls(Nearness', osTimers', Len(osTimers'))
        /\ Left(timer)' = p
        /\ \A t \in Timer \ {timer} : Left(t)' = Left(t)
    <3>1. CASE p = 0
      <4>1. Nearness' = Nearness /\ \A t : Left(t)' = Left(t)
        BY <2>1, <3>1 DEF Nearness, Left
      <4>2. osTimers' = Tail(osTimers) /\ when' = when
        BY <2>1, <3>1
      <4>. QED BY <1>0, <2>2, <2>3, <3>1, <4>1, <4>2
    <3>2. CASE p # 0
      <4>1. /\ osTimers' = osTimerInsert(Tail(osTimers), timer, p)
            /\ when' = [when EXCEPT ![timer] = (osTicks + p) % OS_TICKS]
            /\ timer \notin ToSet(Tail(osTimers))
        BY <2>1, <2>2, <3>2
      <4>2. /\ osTimers' \in Seq(Timer) /\ Injective(osTimers')
            /\ ToSet(osTimers') = ToSet(Tail(osTimers)) \cup {timer}
            /\ when' \in [Timer -> OsTick]
            /\ Falls(Nearness', osTimers', Len(osTimers'))
            /\ Left(timer)' = p
            /\ \A t \in Timer \ {timer} : Left(t)' = Left(t)
        BY <2>1, <2>2, <2>3, <4>1, SetTimer
      <4>3. ToSet(osTimers') = ToSet(osTimers)
        BY <2>2, <4>2
      <4>. QED BY <3>2, <4>2, <4>3
    <3>. QED BY <3>1, <3>2
  <2>5. TimerInv'
    <3>1. TimerTypeOK'
      BY <1>0, <2>1, <2>4 DEF TimerTypeOK
    <3>. QED BY <2>1, <2>4, <3>1 DEF TimerInv
  <2>6. Rest' = [Rest EXCEPT ![timer] = p] /\ Rest[timer] = 0
    <3>1. \A t \in Timer \ {timer} : Rest'[t] = Rest[t]
      BY <2>4 DEF Rest
    <3>2. Rest'[timer] = p /\ Rest[timer] = 0
      BY <2>2, <2>3, <2>4 DEF Rest
    <3>. QED BY <3>1, <3>2 DEF Rest
  <2>7. Promise!GoOff(timer)
    BY <2>1, <2>2, <2>4, <2>6, PromiseSteps
  <2>. QED BY <2>2, <2>5, <2>7
<1>6. ASSUME \/ FunctionReturns
             \/ TickReturns
             \/ UNCHANGED timerVars
      PROVE  TimerInv' /\ UNCHANGED Promise!avars
  <2>1. osTimers' = osTimers /\ osTicks' = osTicks /\ when' = when /\ period' = period
        /\ place' \in {"outside", "walk", "function"}
    BY <1>0, <1>6 DEF FunctionReturns, TickReturns, timerVars
  <2>2. Nearness' = Nearness /\ Rest' = Rest /\ \A t : Left(t)' = Left(t)
    BY <2>1 DEF Nearness, Left, Rest
  <2>3. ASSUME place' = "outside", NEW t \in ToSet(osTimers) PROVE Left(t) > 0
    <3>1. CASE place = "outside"
      BY <3>1 DEF TimerInv
    <3>2. CASE TickReturns
      <4>1. osTimers # << >>
        BY DEF ToSet
      <4>2. when[Head(osTimers)] # osTicks
        BY <3>2, <4>1 DEF TickReturns, Due
      <4>3. /\ Head(osTimers) \in Timer /\ t \in Timer
            /\ Left(Head(osTimers)) <= Left(t) /\ Left(Head(osTimers)) # 0
        BY <1>0, <1>1, <4>1, <4>2, TimerListTail, NothingLeft
      <4>4. Left(Head(osTimers)) \in 0 .. OS_TICKS - 1 /\ Left(t) \in 0 .. OS_TICKS - 1
        BY <1>1, <4>3
      <4>. QED BY <1>1, <4>3, <4>4
    <3>. QED BY <1>6, <2>3, <3>1, <3>2 DEF FunctionReturns, timerVars
  <2>4. TimerInv'
    BY <1>0, <2>1, <2>2, <2>3 DEF TimerInv, TimerTypeOK
  <2>. QED BY <2>1, <2>2, <2>4, PromiseSteps
<1>. QED
  BY <1>2, <1>3, <1>4, <1>5, <1>6 DEF TimerNext, Use, Promise!AlarmsNext

LEMMA TimerInvariant == TimerSpec => []TimerInv
BY InitTimer, NextTimer, PTL DEF TimerSpec

(***************************************************************************)
(* timer.c keeps the tick counter, the list of running timers and what a   *)
(* timer stores of their types, for any number of timers.                  *)
(***************************************************************************)
THEOREM TimerTypeCorrect == TimerSpec => []TimerTypeOK
<1>1. TimerInv => TimerTypeOK
  BY DEF TimerInv
<1>. QED
  BY <1>1, TimerInvariant, PTL

(***************************************************************************)
(* Timers go off on their tick, neither early nor late nor twice, for any  *)
(* number of timers, any delays and periods, and a counter of any width.   *)
(***************************************************************************)
THEOREM TimersAlwaysOnTime == TimerSpec => TimersOnTime
<1>1. TimerInit => Promise!AlarmsInit
  BY InitTimer
<1>2. TimerInv /\ [TimerNext]_timerVars => [Promise!AlarmsNext]_(Promise!avars)
  BY NextTimer
<1>. QED
  BY <1>1, <1>2, TimerInvariant, PTL DEF TimerSpec, TimersOnTime, Promise!AlarmsSpec
=============================================================================
