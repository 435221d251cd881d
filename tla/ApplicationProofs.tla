------------------------- MODULE ApplicationProofs --------------------------
(***************************************************************************)
(* What the steps every application can take do to the waiting of a task,  *)
(* for the modules of semaphores, queues and events: who waits for what,   *)
(* whose wait ends and how, and that nothing else about waiting changes.   *)
(***************************************************************************)
EXTENDS Application, KernelProofs

\* Tasks are in calls of the given kind while they are on a wait list, and no
\* mutexes are owned.
ApplicationInv(Pending) ==
  /\ KernelInv(k)
  /\ running \in BOOLEAN
  /\ call \in [Thread -> Pending \cup {NULL}]
  /\ \A t \in Thread :
       /\ k.mutexes[t] = << >>
       /\ call[t] # NULL /\ k.state[t] = "BLOCKED" <=> k.waitList[t] # NULL
       /\ k.state[t] = "DEAD" => call[t] = NULL

\* What a step does to the waiting of a task: nothing ...
Steady(t) == Same(k', k, t) /\ call'[t] = call[t]

\* ... it ends it, if the task waits ...
Fails(t) == InVain(k', t) /\ call'[t] = call[t] /\ (MaySuspendWoken \/ ~Woken(t))

\* ... the task waits for nothing but time ...
Delayed(t) ==
  /\ call[t] = NULL /\ call'[t] = NULL
  /\ k'.state[t] = "BLOCKED" /\ k'.waitList[t] = NULL

\* ... or it is deleted.
Dies(t) == k'.state[t] = "DEAD" /\ k'.waitList[t] = NULL /\ call'[t] = NULL

NoMutexes(r) == \A t \in Thread : r.mutexes[t] = << >>

ApplicationEffect ==
  \/ \A t \in Thread : Steady(t) \/ Fails(t) \/ Delayed(t)
  \/ \E t \in Task : Dies(t) /\ \A u \in Thread \ {t} : Steady(u)

----------------------------------------------------------------------------
LEMMA EffectInv ==
  ASSUME NEW P, ApplicationInv(P), KernelInv(k)', running' \in BOOLEAN,
         call' \in [Thread -> P \cup {NULL}], NoMutexes(k'), ApplicationEffect
  PROVE  ApplicationInv(P)'
<1>1. ASSUME NEW t \in Thread, Steady(t) \/ Fails(t) \/ Delayed(t) \/ Dies(t)
      PROVE  /\ call'[t] # NULL /\ k'.state[t] = "BLOCKED" <=> k'.waitList[t] # NULL
             /\ k'.state[t] = "DEAD" => call'[t] = NULL
  BY <1>1 DEF ApplicationInv, Steady, Fails, Delayed, Dies, Same, InVain
<1>2. \A t \in Thread : Steady(t) \/ Fails(t) \/ Delayed(t) \/ Dies(t)
  BY DEF ApplicationEffect
<1>. QED
  BY <1>1, <1>2 DEF ApplicationInv, NoMutexes

\* Nothing becomes of the idle task.
LEMMA Spared == SpareIdle => k' = k /\ call' = call /\ running' = running
BY DEF SpareIdle, Call, osTaskDelete, osTaskSuspend

\* Whatever an application does to its tasks but deleting one.  A task which is
\* created has nothing left of its former life.
LEMMA TaskStep ==
  ASSUME NEW P, KernelInv(k), running \in BOOLEAN, call \in [Thread -> P \cup {NULL}],
         \A t \in Thread : k.state[t] = "DEAD" => call[t] = NULL /\ k.mutexes[t] = << >>,
         ApplicationNext, ~ \E t \in Task : TaskDelete(t)
  PROVE  /\ KernelInv(k)' /\ running' \in BOOLEAN /\ call' \in [Thread -> P \cup {NULL}]
         /\ k'.owner = k.owner /\ \A t \in Thread : k'.mutexes[t] = k.mutexes[t]
         /\ \A t \in Thread : Steady(t) \/ Fails(t) \/ Delayed(t)
<1>. DEFINE Conclusion ==
              /\ KernelInv(k)' /\ running' \in BOOLEAN /\ call' \in [Thread -> P \cup {NULL}]
              /\ k'.owner = k.owner /\ \A t \in Thread : k'.mutexes[t] = k.mutexes[t]
              /\ \A t \in Thread : Steady(t) \/ Fails(t) \/ Delayed(t)
<1>1. \A t \in Task : t \in Thread /\ t # osIdleTask
  BY KernelAssumption DEF Thread
<1>2. ASSUME KernelInv(k)', Unaffected(k', k), call' = call, running' \in BOOLEAN
      PROVE  Conclusion
  BY <1>2 DEF Unaffected, Same, Steady
<1>3. ASSUME KernelInv(k)', NEW t \in Thread, Only(k', k, t), k'.mutexes[t] = k.mutexes[t],
             Fails(t) \/ Delayed(t), call' = call, running' = running
      PROVE  Conclusion
  BY <1>3 DEF Only, Same, Steady
<1>5. ASSUME NEW t \in Task, TaskSuspend(t)
      PROVE  Conclusion
  <2>1. call' = call /\ running' = running /\ (MaySuspendWoken \/ ~Woken(t))
    BY <1>5 DEF TaskSuspend, Call
  <2>2. KernelInv(k)' /\ (Unaffected(k', k) \/ Unavailing(k', k, t))
    BY <1>1, <1>5, SuspendInv DEF TaskSuspend, Call
  <2>. QED BY <1>1, <1>2, <1>3, <2>1, <2>2 DEF Unavailing, Fails
<1>6. ASSUME NEW t \in Task, TaskResume(t)
      PROVE  Conclusion
  <2>1. KernelInv(k)' /\ Unaffected(k', k) /\ call' = call /\ running' = running
    BY <1>1, <1>6, ResumeInv DEF TaskResume, Call
  <2>. QED BY <1>2, <2>1
<1>7. ASSUME NEW t \in Task, NEW p \in TaskPriority, TaskCreate(t, p)
      PROVE  Conclusion
  <2>1. p \in Priority /\ k.state[t] = "DEAD" /\ call' = call /\ running' = running
    BY <1>7, ApplicationAssumption DEF TaskCreate, Call
  <2>2. KernelInv(k)' /\ Only(k', k, t) /\ InVain(k', t)
    BY <1>1, <1>7, <2>1, CreateInv DEF TaskCreate, Call
  <2>3. Fails(t) /\ k'.mutexes[t] = k.mutexes[t]
    BY <1>1, <2>1, <2>2 DEF Fails, Woken, Only
  <2>. QED BY <1>1, <1>3, <2>1, <2>2, <2>3
<1>8. ASSUME NEW t \in Task, NEW p \in TaskPriority, TaskSetPriority(t, p)
      PROVE  Conclusion
  <2>1. KernelInv(k)' /\ Unaffected(k', k) /\ call' = call /\ running' = running
    BY <1>1, <1>8, SetPriorityInv, ApplicationAssumption DEF TaskSetPriority, Call
  <2>. QED BY <1>2, <2>1
<1>9. ASSUME NEW n \in Timeout, DelayFor(n)
      PROVE  Conclusion
  <2>. DEFINE task == k.current
  <2>1. n \in OsTick /\ task \in Thread /\ call[task] = NULL /\ call' = call /\ running' = running
    BY <1>9, ApplicationAssumption
       DEF DelayFor, Call, Returning, KernelInv, Lists, KernelState
  <2>2. /\ KernelInv(k)'
        /\ \/ Unaffected(k', k)
           \/ /\ Only(k', k, task) /\ k'.mutexes = k.mutexes
              /\ k'.state[task] = "BLOCKED" /\ k'.waitList[task] = NULL
    BY <1>9, <2>1, DelayInv DEF DelayFor, Call
  <2>. HIDE DEF task
  <2>3. k'.state[task] = "BLOCKED" /\ k'.waitList[task] = NULL => Delayed(task)
    BY <2>1 DEF Delayed
  <2>. QED BY <1>2, <1>3, <2>1, <2>2, <2>3
<1>10. ASSUME Tick
       PROVE  Conclusion
  <2>1. KernelInv(k)' /\ Expired(k', k) /\ call' = call /\ running' = running
    BY <1>10, TickHandler DEF Tick, Call
  <2>2. \A t \in Thread : Steady(t) \/ Fails(t)
    BY <2>1 DEF Expired, Steady, Fails, Woken
  <2>. QED BY <2>1, <2>2 DEF Expired
<1>11. ASSUME Run
       PROVE  Conclusion
  <2>1. KernelInv(k)' /\ Unaffected(k', k) /\ call' = call /\ running' = TRUE
    BY <1>11, RunInv DEF Run
  <2>. QED BY <1>2, <2>1
<1>12. ASSUME SpareIdle
       PROVE  Conclusion
  <2>1. k' = k /\ call' = call /\ running' = running
    BY <1>12, Spared
  <2>2. Unaffected(k', k) /\ KernelInv(k)'
    BY <2>1 DEF Unaffected, Same
  <2>. QED BY <1>2, <2>1, <2>2
<1>. QED
  BY <1>5, <1>6, <1>7, <1>8, <1>9, <1>10, <1>11, <1>12 DEF ApplicationNext

\* Whatever else an application does.
LEMMA ApplicationStep ==
  ASSUME NEW P, ApplicationInv(P), ApplicationNext
  PROVE  ApplicationInv(P)' /\ ApplicationEffect
<1>0. /\ KernelInv(k) /\ running \in BOOLEAN /\ call \in [Thread -> P \cup {NULL}]
      /\ NoMutexes(k) /\ \A t \in Task : t \in Thread /\ t # osIdleTask
  BY KernelAssumption DEF ApplicationInv, NoMutexes, Thread
<1>1. SUFFICES /\ KernelInv(k)' /\ running' \in BOOLEAN /\ call' \in [Thread -> P \cup {NULL}]
               /\ NoMutexes(k') /\ ApplicationEffect
  BY EffectInv
<1>2. ASSUME NEW t \in Task, TaskDelete(t)
      PROVE  /\ KernelInv(k)' /\ running' \in BOOLEAN /\ call' \in [Thread -> P \cup {NULL}]
             /\ NoMutexes(k') /\ ApplicationEffect
  <2>1. t \in Thread /\ t # osIdleTask /\ k.mutexes[t] = << >>
    BY <1>0 DEF NoMutexes
  <2>2. KernelInv(k)' /\ Only(k', k, t) /\ k'.state[t] = "DEAD" /\ k'.waitList[t] = NULL
    BY <1>0, <1>2, <2>1, DeleteInv DEF TaskDelete
  <2>3. call' = [call EXCEPT ![t] = NULL] /\ running' = running
    BY <1>2 DEF TaskDelete
  <2>4. Dies(t) /\ \A u \in Thread \ {t} : Steady(u)
    BY <1>0, <2>1, <2>2, <2>3 DEF Dies, Steady, Only
  <2>5. NoMutexes(k')
    BY <1>0, <2>2 DEF Only, Same, NoMutexes
  <2>. QED BY <1>0, <2>2, <2>3, <2>4, <2>5 DEF ApplicationEffect
<1>3. ASSUME ~ \E t \in Task : TaskDelete(t)
      PROVE  /\ KernelInv(k)' /\ running' \in BOOLEAN /\ call' \in [Thread -> P \cup {NULL}]
             /\ NoMutexes(k') /\ ApplicationEffect
  <2>1. \A t \in Thread : k.state[t] = "DEAD" => call[t] = NULL /\ k.mutexes[t] = << >>
    BY DEF ApplicationInv
  <2>2. /\ KernelInv(k)' /\ running' \in BOOLEAN /\ call' \in [Thread -> P \cup {NULL}]
        /\ k'.owner = k.owner /\ \A t \in Thread : k'.mutexes[t] = k.mutexes[t]
        /\ \A t \in Thread : Steady(t) \/ Fails(t) \/ Delayed(t)
    BY <1>0, <1>3, <2>1, TaskStep
  <2>. QED BY <1>0, <2>2 DEF NoMutexes, ApplicationEffect
<1>. QED
  BY <1>2, <1>3

\* The first part of a call that blocks a task.
LEMMA BlocksStep ==
  ASSUME NEW P, ApplicationInv(P), NEW object \in Object, NEW timeout \in OsTick,
         NEW pending \in P, pending # NULL,
         ~Returning, k.current # osIdleTask, Blocks(k, object, timeout, pending)
  PROVE  /\ ApplicationInv(P)'
         /\ k.current \in Thread /\ call[k.current] = NULL
         /\ call'[k.current] = pending
         /\ k'.state[k.current] = "BLOCKED" /\ k'.waitList[k.current] = object
         /\ \A u \in Thread \ {k.current} : Steady(u)
<1>. DEFINE task == k.current
<1>1. /\ KernelInv(k) /\ task \in Thread /\ call[task] = NULL
      /\ running \in BOOLEAN /\ call \in [Thread -> P \cup {NULL}]
  BY DEF ApplicationInv, KernelInv, Lists, KernelState, Returning
<1>2. /\ k' = osBlock(k, object, timeout) /\ running' = running
      /\ call' = [call EXCEPT ![task] = pending]
  BY DEF Blocks
<1>3. /\ KernelInv(k')
      /\ Only(k', k, task) /\ k'.mutexes = k.mutexes
      /\ k'.state[task] = "BLOCKED" /\ k'.waitList[task] = object
  <2>1. LET r == osBlock(k, object, timeout)
            current == k.current
        IN  /\ KernelInv(r)
            /\ current = osIdleTask => Unaffected(r, k)
            /\ current # osIdleTask =>
                 /\ Only(r, k, current) /\ r.mutexes = k.mutexes
                 /\ r.state[current] = "BLOCKED" /\ r.waitList[current] = object
    BY <1>1, BlockInv
  <2>. QED BY <1>2, <2>1
<1>. HIDE DEF task
<1>4. \A u \in Thread \ {task} : Steady(u)
  BY <1>1, <1>2, <1>3 DEF Only, Steady
<1>5. object # NULL
  BY KernelAssumption
<1>6. call' \in [Thread -> P \cup {NULL}] /\ call'[task] = pending
  BY <1>1, <1>2
<1>7. ASSUME NEW t \in Thread
      PROVE  /\ k'.mutexes[t] = << >>
             /\ call'[t] # NULL /\ k'.state[t] = "BLOCKED" <=> k'.waitList[t] # NULL
             /\ k'.state[t] = "DEAD" => call'[t] = NULL
  BY <1>3, <1>4, <1>5, <1>6 DEF ApplicationInv, Steady, Same
<1>8. KernelInv(k)' /\ running' \in BOOLEAN
  BY <1>1, <1>2, <1>3
<1>. QED
  BY <1>1, <1>3, <1>4, <1>6, <1>7, <1>8 DEF ApplicationInv, task

\* The second part.
LEMMA ReturnsStep ==
  ASSUME NEW P, ApplicationInv(P),
         NEW kernel, KernelInv(kernel), Unaffected(kernel, k), Returns(kernel)
  PROVE  /\ ApplicationInv(P)'
         /\ k.current \in Thread /\ k.state[k.current] = "RUNNING"
         /\ call[k.current] # NULL /\ call'[k.current] = NULL
         /\ \A t \in Thread : Same(k', k, t)
         /\ \A u \in Thread \ {k.current} : call'[u] = call[u]
<1>. DEFINE task == k.current
<1>1. /\ task \in Thread /\ k.state[task] = "RUNNING"
      /\ running \in BOOLEAN /\ call \in [Thread -> P \cup {NULL}]
  BY DEF ApplicationInv, KernelInv, Lists, KernelState, CurrentExact
<1>2. /\ k' = kernel /\ running' = running /\ call' = [call EXCEPT ![task] = NULL]
      /\ call[task] # NULL
  BY DEF Returns, Returning
<1>. HIDE DEF task
<1>3. \A t \in Thread : Same(k', k, t)
  BY <1>2 DEF Unaffected
<1>4. call' \in [Thread -> P \cup {NULL}] /\ call'[task] = NULL
      /\ \A u \in Thread \ {task} : call'[u] = call[u]
  BY <1>1, <1>2
<1>5. ASSUME NEW t \in Thread
      PROVE  /\ k'.mutexes[t] = << >>
             /\ call'[t] # NULL /\ k'.state[t] = "BLOCKED" <=> k'.waitList[t] # NULL
             /\ k'.state[t] = "DEAD" => call'[t] = NULL
  BY <1>1, <1>3, <1>4 DEF ApplicationInv, Same
<1>6. KernelInv(k)' /\ running' \in BOOLEAN
  BY <1>1, <1>2
<1>. QED
  BY <1>1, <1>2, <1>3, <1>4, <1>5, <1>6 DEF ApplicationInv, task

----------------------------------------------------------------------------
\* Waking up a task that waits for an object, with what it waits for.
LEMMA WakeGives ==
  ASSUME NEW r, KernelInv(r), NEW t \in Thread, r.waitList[t] # NULL
  PROVE  LET s == osWake(r, t, TRUE)
         IN  /\ KernelInv(s) /\ r.state[t] = "BLOCKED" /\ Given(s, t)
             /\ s.mutexes = r.mutexes
             /\ \A u \in Thread \ {t} : Same(s, r, u)
<1>. DEFINE s == osWake(r, t, TRUE)
<1>1. /\ r.state[t] = "BLOCKED"
      /\ r.state \in [Thread -> TaskState] /\ r.result \in [Thread -> BOOLEAN]
      /\ r.waitList \in [Thread -> Object \cup {NULL}]
  BY DEF KernelInv, Lists, WaitListsExact, KernelState
<1>. HIDE DEF s
<1>2. /\ KernelInv(s)
      /\ s.state = [r.state EXCEPT ![t] = "READY"]
      /\ s.mutexes = r.mutexes
      /\ s.result = [r.result EXCEPT ![t] = TRUE]
      /\ s.waitList = [r.waitList EXCEPT ![t] = NULL]
  <2>1. LET q == osWake(r, t, TRUE)
        IN  /\ KernelInv(q)
            /\ q.state = [r.state EXCEPT ![t] = "READY"]
            /\ q.current = r.current /\ q.owner = r.owner /\ q.mutexes = r.mutexes
            /\ q.result = [r.result EXCEPT ![t] = TRUE]
            /\ q.waitList = [r.waitList EXCEPT ![t] = NULL]
            /\ \A a \in ToSet(r.timerList) : a.task # t => a \in ToSet(q.timerList)
    BY <1>1, WakeBlocked
  <2>. QED BY <2>1 DEF s
<1>3. Given(s, t) /\ \A u \in Thread \ {t} : Same(s, r, u)
  BY <1>1, <1>2 DEF Given, Same
<1>. QED
  BY <1>1, <1>2, <1>3 DEF s

\* Each task gets what it waits for or goes on as it was, and the scheduler may
\* be called in the end.
LEMMA GivesStep ==
  ASSUME NEW P, ApplicationInv(P), NEW r, KernelInv(r), r.mutexes = k.mutexes,
         \A t \in Thread : Same(r, k, t) \/ (k.waitList[t] # NULL /\ Given(r, t)),
         k' = r \/ k' = osSchedule(r, 0), running' = running, call' = call
  PROVE  /\ ApplicationInv(P)'
         /\ \A t \in Thread : /\ Same(r, k, t) => Steady(t)
                              /\ Given(r, t) => Given(k', t)
<1>1. KernelInv(k') /\ Unaffected(k', r)
  <2>1. Unaffected(r, r)
    BY DEF Unaffected, Same
  <2>. QED BY <2>1, Schedule
<1>2. \A t \in Thread : /\ Same(r, k, t) => Steady(t)
                        /\ Given(r, t) => Given(k', t)
  BY <1>1 DEF Unaffected, Same, Steady, Given
<1>3. ASSUME NEW t \in Thread
      PROVE  /\ k'.mutexes[t] = << >>
             /\ call'[t] # NULL /\ k'.state[t] = "BLOCKED" <=> k'.waitList[t] # NULL
             /\ k'.state[t] = "DEAD" => call'[t] = NULL
  <2>1. k'.mutexes[t] = << >>
    BY <1>1 DEF Unaffected, Same, ApplicationInv
  <2>2. Steady(t) \/ Given(k', t)
    BY <1>2
  <2>. QED BY <2>1, <2>2 DEF ApplicationInv, Steady, Same, Given
<1>4. KernelInv(k)' /\ running' \in BOOLEAN /\ call' \in [Thread -> P \cup {NULL}]
  BY <1>1 DEF ApplicationInv
<1>. QED
  BY <1>2, <1>3, <1>4 DEF ApplicationInv

LEMMA ApplicationInitInv ==
  ASSUME NEW P, ApplicationInit
  PROVE  ApplicationInv(P) /\ \A t \in Thread : call[t] = NULL /\ k.waitList[t] = NULL
<1>1. KernelInv(k) /\ running \in BOOLEAN
  BY InitInv DEF ApplicationInit
<1>2. \A t \in Thread : k.mutexes[t] = << >> /\ k.waitList[t] = NULL /\ call[t] = NULL
  BY DEF ApplicationInit, osInit
<1>3. call \in [Thread -> P \cup {NULL}]
  BY DEF ApplicationInit
<1>. QED
  BY <1>1, <1>2, <1>3 DEF ApplicationInv
=============================================================================
