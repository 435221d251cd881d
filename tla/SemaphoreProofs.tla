-------------------------- MODULE SemaphoreProofs ---------------------------
(***************************************************************************)
(* What holds of a semaphore for any number of tasks and tokens.           *)
(***************************************************************************)
EXTENDS Semaphore, ApplicationProofs

\* Nobody waits while there is a token.
IInv ==
  /\ ApplicationInv(Object)
  /\ count \in 0 .. 255 /\ taken \in BOOLEAN
  /\ \A t \in Thread : k.waitList[t] # NULL => count = 0

LEMMA InitIInv == Init => IInv
BY ApplicationInitInv, SemaphoreAssumption DEF Init, IInv

\* The list of the semaphore has the tasks that wait for it.
LEMMA Waiters ==
  ASSUME IInv
  PROVE  /\ k.waiters[semaphore] = << >> => \A t \in Thread : k.waitList[t] = NULL
         /\ k.waiters[semaphore] # << >> =>
              LET w == Head(k.waiters[semaphore])
              IN  /\ w \in Thread /\ k.waitList[w] = semaphore
                  /\ \A t \in Thread : k.waitList[t] # NULL => k.priority[t] <= k.priority[w]
<1>1. /\ semaphore \in Object /\ k.waiters[semaphore] \in Seq(Thread)
      /\ ToSet(k.waiters[semaphore]) = {t \in Thread : k.waitList[t] = semaphore}
      /\ Injective(k.waiters[semaphore])
      /\ \A t \in Thread : k.waitList[t] \in {semaphore, NULL}
  BY SemaphoreAssumption
     DEF IInv, ApplicationInv, KernelInv, Lists, WaitListsExact, KernelState
<1>2. ASSUME k.waiters[semaphore] = << >>
      PROVE  \A t \in Thread : k.waitList[t] = NULL
  <2>1. ToSet(k.waiters[semaphore]) = {}
    BY <1>2 DEF ToSet
  <2>. QED BY <1>1, <2>1
<1>3. ASSUME k.waiters[semaphore] # << >>
      PROVE  Head(k.waiters[semaphore]) \in ToSet(k.waiters[semaphore])
  BY <1>1, <1>3, HeadTail
<1>4. ASSUME k.waiters[semaphore] # << >>
      PROVE  \A t \in ToSet(k.waiters[semaphore]) :
               k.priority[t] <= k.priority[Head(k.waiters[semaphore])]
  <2>1. k \in KernelState /\ Sorted(k, k.waiters[semaphore])
    BY <1>1 DEF IInv, ApplicationInv, KernelInv, Lists, Ordered
  <2>. QED BY <1>1, <1>4, <2>1, TailSorted
<1>. QED
  BY <1>1, <1>2, <1>3, <1>4

\* No waiting task is more important.
Foremost(w) == \A t \in Thread : k.waitList[t] # NULL => k.priority[t] <= k.priority[w]

\* Giving: counted if nobody waits, handed over to one task if somebody does.
LEMMA GiveEffect ==
  ASSUME IInv, k' = Handed \/ k' = osSchedule(Handed, 0), count' = Counted,
         UNCHANGED <<running, call, taken>>
  PROVE  /\ IInv'
         /\ \/ /\ \A t \in Thread : Steady(t) /\ k.waitList[t] = NULL
               /\ count' = IF count < Limit THEN count + 1 ELSE count
            \/ /\ count' = count
               /\ \E w \in Thread : /\ call[w] # NULL /\ k.state[w] = "BLOCKED" /\ Given(k', w)
                                    /\ \A u \in Thread \ {w} : Steady(u)
                                    /\ Foremost(w)
<1>. DEFINE w == Head(k.waiters[semaphore])
<1>0. ApplicationInv(Object) /\ KernelInv(k) /\ count \in 0 .. 255 /\ Limit \in 0 .. 255
      /\ running' = running /\ call' = call /\ taken' = taken
      /\ semaphore # NULL
  BY SemaphoreAssumption, KernelAssumption DEF IInv, ApplicationInv
<1>1. CASE k.waiters[semaphore] = << >>
  <2>1. Handed = k /\ \A t \in Thread : Same(k, k, t)
    BY <1>1 DEF Handed, Same
  <2>2. ApplicationInv(Object)' /\ \A t \in Thread : Steady(t)
    BY <1>0, <2>1, GivesStep
  <2>3. \A t \in Thread : k.waitList[t] = NULL
    BY <1>1, Waiters
  <2>4. \A t \in Thread : k'.waitList[t] = NULL
    BY <2>2, <2>3 DEF Steady, Same
  <2>5. count' = IF count < Limit THEN count + 1 ELSE count
    BY <1>1 DEF Counted
  <2>6. count' \in 0 .. 255
    BY <1>0, <2>5
  <2>. QED BY <1>0, <2>2, <2>3, <2>4, <2>5, <2>6 DEF IInv
<1>2. CASE k.waiters[semaphore] # << >>
  <2>1. w \in Thread /\ k.waitList[w] # NULL /\ Foremost(w)
    BY <1>0, <1>2, Waiters DEF Foremost
  <2>. DEFINE r == osWake(k, w, TRUE)
  <2>2. Handed = r
    BY <1>2 DEF Handed
  <2>. HIDE DEF w
  <2>3. /\ KernelInv(r) /\ k.state[w] = "BLOCKED" /\ Given(r, w) /\ r.mutexes = k.mutexes
        /\ \A u \in Thread \ {w} : Same(r, k, u)
    BY <1>0, <2>1, WakeGives
  <2>. HIDE DEF r
  <2>4. ApplicationInv(Object)' /\ Given(k', w) /\ \A u \in Thread \ {w} : Steady(u)
    BY <1>0, <2>1, <2>2, <2>3, GivesStep
  <2>5. count' = count
    BY <1>2 DEF Counted
  <2>6. \A t \in Thread : k'.waitList[t] # NULL => k.waitList[t] # NULL
    BY <2>4 DEF Given, Steady, Same
  <2>7. call[w] # NULL
    BY <1>0, <2>1 DEF ApplicationInv
  <2>. QED BY <1>0, <2>1, <2>3, <2>4, <2>5, <2>6, <2>7 DEF IInv
<1>. QED
  BY <1>1, <1>2

LEMMA NextIInv == IInv /\ [Next]_vars => IInv'
<1>. SUFFICES ASSUME IInv, [Next]_vars PROVE IInv'
  OBVIOUS
<1>0. ApplicationInv(Object) /\ count \in 0 .. 255 /\ taken \in BOOLEAN /\ KernelInv(k)
  BY DEF IInv, ApplicationInv
<1>1. CASE TakeAtOnce \/ TakeRefused \/ UNCHANGED vars
  <2>1. k' = k /\ running' = running /\ call' = call /\ count' \in 0 .. 255
        /\ taken' \in BOOLEAN /\ (count = 0 => count' = 0)
    <3>1. CASE TakeAtOnce
      <4>1. count - 1 \in 0 .. 255
        BY <1>0, <3>1 DEF TakeAtOnce
      <4>. QED BY <3>1, <4>1 DEF TakeAtOnce
    <3>2. CASE TakeRefused \/ UNCHANGED vars
      BY <1>0, <3>2 DEF TakeRefused, vars
    <3>. QED BY <1>1, <3>1, <3>2
  <2>. QED BY <1>0, <2>1 DEF IInv, ApplicationInv
<1>2. ASSUME NEW n \in Timeout, TakeWaits(n)
      PROVE  IInv'
  <2>1. /\ ~Returning /\ k.current # osIdleTask /\ count' = count /\ taken' = taken /\ count = 0
        /\ Blocks(k, semaphore, n, semaphore)
        /\ semaphore \in Object /\ semaphore # NULL /\ n \in OsTick
    BY <1>2, SemaphoreAssumption, ApplicationAssumption, KernelAssumption DEF TakeWaits
  <2>2. ApplicationInv(Object)'
    BY <1>0, <2>1, BlocksStep
  <2>. QED BY <1>0, <2>1, <2>2 DEF IInv
<1>3. CASE TakeReturns
  <2>1. Returns(k) /\ taken' = k.result[k.current] /\ count' = count
    BY <1>3 DEF TakeReturns
  <2>2. ApplicationInv(Object)' /\ k.current \in Thread /\ \A t \in Thread : Same(k', k, t)
    <3>1. Unaffected(k, k)
      BY DEF Unaffected, Same
    <3>. QED BY <1>0, <2>1, <3>1, ReturnsStep
  <2>3. taken' \in BOOLEAN
    BY <1>0, <2>1, <2>2 DEF KernelInv, Lists, KernelState
  <2>. QED BY <1>0, <2>1, <2>2, <2>3 DEF IInv, Same
<1>4. CASE Give \/ GiveFromISR
  BY <1>4, GiveEffect DEF Give, GiveFromISR
<1>5. CASE ApplicationNext /\ UNCHANGED <<count, taken>>
  <2>1. ApplicationInv(Object)' /\ ApplicationEffect
    BY <1>0, <1>5, ApplicationStep
  <2>2. \A t \in Thread : k'.waitList[t] # NULL => k.waitList[t] # NULL
    BY <2>1 DEF ApplicationEffect, Steady, Fails, Delayed, Dies, Same, InVain
  <2>. QED BY <1>0, <1>5, <2>1, <2>2 DEF IInv
<1>. QED
  BY <1>1, <1>2, <1>3, <1>4, <1>5 DEF Next

\* The count fits its byte, and a task waits only while the count is zero, in
\* every state (semaphore.c): a post hands its unit to a waiting task first.
THEOREM SemaphoreInvariant == Spec => []IInv
BY InitIInv, NextIInv, PTL DEF Spec

(***************************************************************************)
(* The kernel stays in order under semaphore.c: whatever is given, taken   *)
(* or given up when, its functions are applied within their domain, and    *)
(* the counter does not leave its byte.                                    *)
(***************************************************************************)
THEOREM SemaphoreTypeCorrect == Spec => []TypeOK
<1>1. IInv => TypeOK
  BY DEF IInv, ApplicationInv, KernelInv, Lists, TypeOK, ApplicationTypeOK
<1>. QED
  BY <1>1, SemaphoreInvariant, PTL

----------------------------------------------------------------------------
\* The phase of a task follows its waiting.
LEMMA PhaseSteps ==
  ASSUME IInv, ~MaySuspendWoken, NEW t \in Thread
  PROVE  /\ Phase(t) \in {"out", "waiting", "granted", "failed"}
         /\ k.waitList[t] # NULL <=> Phase(t) = "waiting"
         /\ Steady(t) => Phase(t)' = Phase(t)
         /\ Fails(t) => Phase(t)' = Phase(t) \/ (Phase(t) = "waiting" /\ Phase(t)' = "failed")
         /\ Delayed(t) => Phase(t)' = Phase(t)
         /\ Dies(t) => Phase(t)' = "out"
<1>1. /\ call[t] # NULL /\ k.state[t] = "BLOCKED" <=> k.waitList[t] # NULL
      /\ k.result[t] \in BOOLEAN
  BY DEF IInv, ApplicationInv, KernelInv, Lists, KernelState
<1>2. Phase(t)' = IF call'[t] = NULL THEN "out"
                  ELSE IF k'.state[t] = "BLOCKED" THEN "waiting"
                  ELSE IF k'.result[t] THEN "granted" ELSE "failed"
  BY DEF Phase
<1>. QED
  BY <1>1, <1>2 DEF Phase, Steady, Same, Fails, InVain, Woken, Delayed, Dies

LEMMA PoolStep ==
  ASSUME IInv, ~MaySuspendWoken, [Next]_vars
  PROVE  [Pool!PoolNext]_(Pool!pvars)
<1>. DEFINE phase == [t \in Thread |-> Phase(t)]
<1>. PICK task \in Thread : task = k.current
  BY DEF IInv, ApplicationInv, KernelInv, Lists, KernelState
<1>0. /\ ApplicationInv(Object) /\ KernelInv(k)
      /\ count \in 0 .. 255 /\ taken \in BOOLEAN
      /\ \A t \in Thread : k.waitList[t] # NULL => count = 0
      /\ task \in Thread /\ k.state[task] = "RUNNING"
  BY DEF IInv, ApplicationInv, KernelInv, Lists, KernelState, CurrentExact
<1>1. ASSUME k' = k, call' = call
      PROVE  phase' = phase
  BY <1>1 DEF Phase
<1>2. ~Returning => phase[task] = "out"
  BY <1>0 DEF Returning, Phase
<1>. DEFINE Changed(t) == phase' = [phase EXCEPT ![t] = Phase(t)']
<1>3. ASSUME NEW t \in Thread, \A u \in Thread \ {t} : Steady(u)
      PROVE  Changed(t)
  <2>1. \A u \in Thread \ {t} : Phase(u)' = Phase(u)
    BY <1>3, PhaseSteps
  <2>2. phase' = [u \in Thread |-> Phase(u)']
    OBVIOUS
  <2>. QED BY <2>1, <2>2
<1>4. ASSUME \A u \in Thread : Steady(u)
      PROVE  phase' = phase
  <2>1. \A u \in Thread : Phase(u)' = Phase(u)
    BY <1>4, PhaseSteps
  <2>. QED BY <2>1
<1>5. \A t \in Thread : phase[t] = Phase(t)
  OBVIOUS
<1>6. CASE TakeAtOnce
  <2>1. Pool!Take(task)
    BY <1>0, <1>1, <1>2, <1>6 DEF TakeAtOnce, Pool!Take
  <2>. QED BY <1>0, <2>1 DEF Pool!PoolNext
<1>7. CASE TakeRefused
  <2>1. Pool!Refuse(task)
    BY <1>0, <1>1, <1>2, <1>7 DEF TakeRefused, Pool!Refuse
  <2>. QED BY <1>0, <2>1 DEF Pool!PoolNext
<1>8. ASSUME NEW n \in Timeout, TakeWaits(n)
      PROVE  Pool!PoolNext
  <2>1. /\ ~Returning /\ task # osIdleTask /\ count' = count /\ taken' = taken /\ count = 0
        /\ Blocks(k, semaphore, n, semaphore)
        /\ semaphore \in Object /\ semaphore # NULL /\ n \in OsTick
    BY <1>8, SemaphoreAssumption, ApplicationAssumption, KernelAssumption DEF TakeWaits
  <2>2. /\ call'[task] = semaphore /\ k'.state[task] = "BLOCKED"
        /\ \A u \in Thread \ {task} : Steady(u)
    BY <1>0, <2>1, BlocksStep
  <2>3. Phase(task)' = "waiting"
    BY <2>1, <2>2 DEF Phase
  <2>4. Pool!Wait(task)
    BY <1>0, <1>2, <1>3, <2>1, <2>2, <2>3 DEF Pool!Wait
  <2>. QED BY <1>0, <2>4 DEF Pool!PoolNext
<1>9. CASE TakeReturns
  <2>1. Returns(k) /\ taken' = k.result[task] /\ count' = count
    BY <1>9 DEF TakeReturns
  <2>2. /\ call[task] # NULL /\ call'[task] = NULL
        /\ \A t \in Thread : Same(k', k, t)
        /\ \A u \in Thread \ {task} : call'[u] = call[u]
    <3>1. Unaffected(k, k)
      BY DEF Unaffected, Same
    <3>. QED BY <1>0, <2>1, <3>1, ReturnsStep
  <2>3. \A u \in Thread \ {task} : Steady(u)
    BY <2>2 DEF Steady
  <2>4. /\ Phase(task) \in {"granted", "failed"} /\ Phase(task)' = "out"
        /\ taken' = (Phase(task) = "granted")
    <3>1. k.result[task] \in BOOLEAN
      BY <1>0 DEF KernelInv, Lists, KernelState
    <3>. QED BY <1>0, <2>1, <2>2, <3>1 DEF Phase
  <2>5. Pool!Return(task)
    BY <1>0, <1>3, <2>1, <2>3, <2>4 DEF Pool!Return
  <2>. QED BY <1>0, <2>5 DEF Pool!PoolNext
<1>10. CASE Give \/ GiveFromISR
  <2>1. \/ /\ \A t \in Thread : Steady(t) /\ k.waitList[t] = NULL
           /\ count' = IF count < Limit THEN count + 1 ELSE count
        \/ /\ count' = count
           /\ \E w \in Thread : /\ call[w] # NULL /\ k.state[w] = "BLOCKED" /\ Given(k', w)
                                /\ \A u \in Thread \ {w} : Steady(u)
                                /\ Foremost(w)
    BY <1>10, GiveEffect DEF Give, GiveFromISR
  <2>2. taken' = taken /\ call' = call
    BY <1>10 DEF Give, GiveFromISR
  <2>3. CASE (\A t \in Thread : Steady(t) /\ k.waitList[t] = NULL) /\ count' = count
    <3>1. phase' = phase
      BY <1>4, <2>3
    <3>. QED BY <2>2, <2>3, <3>1 DEF Pool!pvars
  <2>4. CASE (\A t \in Thread : Steady(t) /\ k.waitList[t] = NULL)
             /\ count < Limit /\ count' = count + 1
    <3>1. phase' = phase
      BY <1>4, <2>4
    <3>2. \A t \in Thread : phase[t] # "waiting"
      BY <1>5, <2>4, PhaseSteps
    <3>3. Pool!Give
      BY <2>2, <2>4, <3>1, <3>2 DEF Pool!Give
    <3>. QED BY <3>3 DEF Pool!PoolNext
  <2>5. ASSUME count' = count,
               NEW w \in Thread, call[w] # NULL, k.state[w] = "BLOCKED", Given(k', w),
               \A u \in Thread \ {w} : Steady(u)
        PROVE  Pool!PoolNext
    <3>1. Phase(w) = "waiting" /\ Phase(w)' = "granted"
      BY <2>2, <2>5 DEF Phase, Given
    <3>2. Pool!Grant(w)
      BY <1>3, <2>2, <2>5, <3>1 DEF Pool!Grant
    <3>. QED BY <3>2 DEF Pool!PoolNext
  <2>. QED BY <2>1, <2>3, <2>4, <2>5
<1>11. CASE ApplicationNext /\ UNCHANGED <<count, taken>>
  <2>1. ApplicationEffect
    BY <1>0, <1>11, ApplicationStep
  <2>2. ASSUME \A t \in Thread : Steady(t) \/ Fails(t) \/ Delayed(t)
        PROVE  Pool!PoolNext
    <3>. DEFINE S == {t \in Thread : Phase(t) = "waiting" /\ Phase(t)' = "failed"}
    <3>1. \A t \in Thread : Phase(t)' = IF t \in S THEN "failed" ELSE Phase(t)
      BY <2>2, PhaseSteps
    <3>2. Pool!Expire(S)
      BY <1>11, <3>1 DEF Pool!Expire
    <3>. QED BY <3>2 DEF Pool!PoolNext
  <2>3. ASSUME NEW t \in Task, Dies(t), \A u \in Thread \ {t} : Steady(u)
        PROVE  [Pool!PoolNext]_(Pool!pvars)
    <3>1. t \in Thread
      BY DEF Thread
    <3>2. Changed(t) /\ Phase(t)' = "out"
      BY <2>3, <3>1, <1>3, PhaseSteps
    <3>3. CASE Phase(t) = "out"
      <4>1. phase' = phase
        BY <3>1, <3>2, <3>3
      <4>. QED BY <1>11, <4>1 DEF Pool!pvars
    <3>4. CASE Phase(t) # "out"
      <4>1. Pool!Die(t) \/ Pool!DieWithToken(t)
        BY <1>11, <3>1, <3>2, <3>4 DEF Pool!Die, Pool!DieWithToken, Phase
      <4>. QED BY <3>1, <4>1 DEF Pool!PoolNext
    <3>. QED BY <3>3, <3>4
  <2>. QED BY <2>1, <2>2, <2>3 DEF ApplicationEffect
<1>12. CASE UNCHANGED vars
  BY <1>12, <1>1 DEF vars, Pool!pvars
<1>. QED
  BY <1>6, <1>7, <1>8, <1>9, <1>10, <1>11, <1>12 DEF Next

(***************************************************************************)
(* semaphore.c is a pool of tokens: a token handed to a waiting task is    *)
(* neither lost nor given twice, although the task runs only later and may *)
(* time out or get another priority meanwhile; unless the task is deleted  *)
(* before it runs, which the pool allows, and provided nobody suspends it, *)
(* which takes the token from it (tasks.c:154).                            *)
(***************************************************************************)
THEOREM SemaphoreIsAPool ==
  ASSUME ~MaySuspendWoken
  PROVE  Spec => PoolOfTokens
<1>1. Init => Pool!PoolInit
  <2>. SUFFICES ASSUME Init PROVE Pool!PoolInit
    OBVIOUS
  <2>1. \A t \in Thread : Phase(t) = "out"
    BY DEF Init, ApplicationInit, Phase
  <2>. QED BY <2>1 DEF Init, Pool!PoolInit
<1>2. IInv /\ [Next]_vars => [Pool!PoolNext]_(Pool!pvars)
  BY PoolStep
<1>. QED
  BY <1>1, <1>2, SemaphoreInvariant, PTL DEF Spec, PoolOfTokens, Pool!PoolSpec

(***************************************************************************)
(* Only giving hands a token over, and it does to a task that no waiting   *)
(* one is more important than (semaphore.c:52): the list is in order,      *)
(* whatever priorities its tasks have been given since they joined it.     *)
(***************************************************************************)
THEOREM MostImportantIsServed ==
  ASSUME ~MaySuspendWoken
  PROVE  Spec => MostImportantServed
<1>1. ASSUME IInv, [Next]_vars
      PROVE  [\A t, u \in Task :
                /\ Phase(t) = "waiting" /\ Phase(t)' = "granted"
                /\ Phase(u) = "waiting" /\ Phase(u)' = "waiting"
                => k.priority[t] >= k.priority[u]]_vars
  <2>. SUFFICES ASSUME NEW t \in Task, Phase(t) = "waiting", Phase(t)' = "granted",
                       NEW u \in Task, Phase(u) = "waiting", Phase(u)' = "waiting"
                PROVE  k.priority[t] >= k.priority[u]
    OBVIOUS
  <2>0. /\ t \in Thread /\ u \in Thread /\ ApplicationInv(Object) /\ KernelInv(k)
        /\ k.waitList[u] # NULL
        /\ ~Steady(t) /\ ~Fails(t) /\ ~Delayed(t) /\ ~Dies(t)
    BY <1>1, PhaseSteps DEF Thread, IInv, ApplicationInv
  <2>1. ASSUME NEW w \in Thread, \A v \in Thread \ {w} : Steady(v), Foremost(w)
        PROVE  k.priority[t] >= k.priority[u]
    <3>1. w = t /\ k.priority[u] <= k.priority[w]
      BY <2>0, <2>1 DEF Foremost
    <3>2. k.priority[t] \in Int /\ k.priority[u] \in Int
      BY <2>0, KernelAssumption DEF KernelInv, Lists, KernelState, Priority, MainPriority
    <3>. QED BY <3>1, <3>2
  <2>2. CASE TakeAtOnce \/ TakeRefused \/ UNCHANGED vars
    <3>1. k' = k /\ call' = call
      BY <2>2 DEF TakeAtOnce, TakeRefused, vars
    <3>. QED BY <2>0, <3>1 DEF Steady, Same
  <2>3. ASSUME NEW n \in Timeout, TakeWaits(n)
        PROVE  FALSE
    <3>1. /\ ~Returning /\ k.current # osIdleTask /\ Blocks(k, semaphore, n, semaphore)
          /\ semaphore \in Object /\ semaphore # NULL /\ n \in OsTick
      BY <2>3, SemaphoreAssumption, ApplicationAssumption, KernelAssumption DEF TakeWaits
    <3>2. /\ call[k.current] = NULL /\ \A v \in Thread \ {k.current} : Steady(v)
      BY <2>0, <3>1, BlocksStep
    <3>. QED BY <2>0, <3>2 DEF Phase
  <2>4. CASE TakeReturns
    <3>1. Returns(k) /\ Unaffected(k, k)
      BY <2>4 DEF TakeReturns, Unaffected, Same
    <3>2. /\ call'[k.current] = NULL
          /\ \A v \in Thread : Same(k', k, v)
          /\ \A v \in Thread \ {k.current} : call'[v] = call[v]
      BY <2>0, <3>1, ReturnsStep
    <3>3. t # k.current
      BY <3>2 DEF Phase
    <3>. QED BY <2>0, <3>2, <3>3 DEF Steady
  <2>5. CASE Give \/ GiveFromISR
    <3>1. \/ \A v \in Thread : Steady(v)
          \/ \E w \in Thread : (\A v \in Thread \ {w} : Steady(v)) /\ Foremost(w)
      BY <1>1, <2>5, GiveEffect DEF Give, GiveFromISR
    <3>. QED BY <2>0, <2>1, <3>1
  <2>6. CASE ApplicationNext /\ UNCHANGED <<count, taken>>
    <3>1. ApplicationEffect
      BY <2>0, <2>6, ApplicationStep
    <3>2. \E v \in Task : Dies(v) /\ \A x \in Thread \ {v} : Steady(x)
      BY <2>0, <3>1 DEF ApplicationEffect
    <3>. QED BY <2>0, <3>2
  <2>. QED BY <1>1, <2>2, <2>3, <2>4, <2>5, <2>6 DEF Next
<1>. QED
  BY <1>1, SemaphoreInvariant, PTL DEF Spec, MostImportantServed
=============================================================================
