------------------------------- MODULE Mutex --------------------------------
(***************************************************************************)
(* mutex.c with the tasks that lock, wait, give up, are suspended, deleted *)
(* or given another priority meanwhile.  The second part of osMutexTryLock *)
(* is LockReturns.                                                         *)
(***************************************************************************)
EXTENDS Application

VARIABLE
  holds                   \* history: mutexes the task has been told it locked
                          \* and has not unlocked since

vars == <<k, running, call, holds>>

Init ==
  /\ ApplicationInit
  /\ holds = [t \in Thread |-> {}]

----------------------------------------------------------------------------
\* The owner need not hurry because of a task that gave up.
GiveUp(kernel, m) ==
  IF OS_CFG_MUTEX_INHERITANCE /\ kernel.owner[m] # NULL
  THEN LowerToInherited(kernel, kernel.owner[m])
  ELSE kernel

\* Up to osBlock.
WaitForMutex(m) ==
  IF OS_CFG_MUTEX_INHERITANCE
  THEN [osPriorityRaise(k, k.owner[m], k.priority[k.current]) EXCEPT
          !.flags[k.current] = @ \cup {"MUTEX"}]
  ELSE k

\* The mutex is free.
LockFree(m) ==
  /\ ~Returning
  /\ k.owner[m] = NULL
  /\ k' = osMutexOwn(k, m, k.current)
  /\ holds' = [holds EXCEPT ![k.current] = @ \cup {m}]
  /\ UNCHANGED <<running, call>>

\* It is not: with OS_NO_WAIT that is all, the idle task gives up at once.
\* main() may try its own mutex before osRun (test_idle.c:137).  Nobody else
\* does, "Mutexes are not recursive" (README.md:87).
LockOwned(m, timeout) ==
  /\ ~Returning
  /\ k.owner[m] # NULL
  /\ k.owner[m] = k.current => ~running
  /\ timeout # OS_NO_WAIT
  /\ IF k.current = osIdleTask
     THEN /\ k' = GiveUp(osBlock(WaitForMutex(m), m, timeout), m)
          /\ UNCHANGED call
     ELSE /\ k' = osBlock(WaitForMutex(m), m, timeout)
          /\ call' = [call EXCEPT ![k.current] = m]
  /\ UNCHANGED <<running, holds>>

\* Back from osBlock, with or without the mutex.
LockReturns ==
  LET task == k.current
      m == call[task]
  IN  IF k.result[task]
      THEN /\ Returns(k)
           /\ holds' = [holds EXCEPT ![task] = @ \cup {m}]
      ELSE /\ Returns(GiveUp(k, m))
           /\ UNCHANGED holds

\* Only the owner unlocks, the call of anybody else does nothing.
Unlock(m) ==
  LET task == k.current
      passed == osMutexPass([k EXCEPT !.mutexes[task] = RemoveFirst(@, m)], m)
      own == IF OS_CFG_MUTEX_INHERITANCE
             THEN [passed EXCEPT !.priority[task] = osInheritedPriority(passed, task)]
             ELSE passed
  IN  /\ ~Returning
      /\ k.owner[m] = task
      /\ k' = osSchedule(own, 0)
      /\ holds' = [holds EXCEPT ![task] = @ \ {m}]
      /\ UNCHANGED <<running, call>>

----------------------------------------------------------------------------
\* A deleted task holds nothing.
Other ==
  /\ ApplicationNext
  /\ holds' = [t \in Thread |-> IF k'.state[t] = "DEAD" THEN {} ELSE holds[t]]

Next ==
  \/ \E m \in Mutex : LockFree(m) \/ Unlock(m) \/ \E n \in Timeout : LockOwned(m, n)
  \/ LockReturns
  \/ Other

Spec == Init /\ [][Next]_vars

----------------------------------------------------------------------------
\* Every variable has a value of its type.
TypeOK == ApplicationTypeOK(Mutex) /\ holds \in [Thread -> SUBSET Mutex]

(***************************************************************************)
(* Every list has exactly the tasks that claim to be on it: a task that    *)
(* times out, is suspended, deleted or raised while it waits for a mutex   *)
(* leaves or moves on each of its lists (scheduler.c:235-244, tasks.c:92). *)
(***************************************************************************)
ListsExact == KernelExact

(***************************************************************************)
(* All the lists are ordered by priority, whatever changed it: "the most   *)
(* important task waiting for a mutex is the first one on its list"        *)
(* (scheduler.c:116).                                                      *)
(***************************************************************************)
ListsSorted == Sorted(k, k.readyList) /\ \A o \in Object : Sorted(k, k.waiters[o])

(***************************************************************************)
(* A task has locked the mutexes whose osMutexTryLock returned true and no *)
(* others, except one that is on its way: a mutex is never owned by a task *)
(* that has been told it did not get it (mutex.c:68-69).                   *)
(***************************************************************************)
ResultsTruthful ==
  \A m \in Mutex, t \in Thread :
    k.owner[m] = t <=> m \in holds[t] \/ (call[t] = m /\ Woken(t))

(***************************************************************************)
(* Tasks wait only for a mutex somebody alive owns, and that somebody is   *)
(* at least as important as each of them (mutex.c:61-64, 103-105).         *)
(***************************************************************************)
OwnerHurries ==
  OS_CFG_MUTEX_INHERITANCE =>
    \A m \in Mutex : \A w \in ToSet(k.waiters[m]) :
      /\ k.owner[m] # NULL
      /\ k.state[k.owner[m]] # "DEAD"
      /\ k.priority[k.owner[m]] >= k.priority[w]

\* Tasks the given one waits for, through any number of mutexes.
WaitsFor(t) ==
  LET owners(S) == {k.owner[m] : m \in {m \in Mutex : \E u \in S : u \in ToSet(k.waiters[m])}}
      reached[n \in 0 .. Cardinality(Mutex)] ==
        IF n = 0 THEN {t} ELSE reached[n - 1] \cup owners(reached[n - 1])
  IN  reached[Cardinality(Mutex)] \ {t}

(***************************************************************************)
(* No priority inversion: while a task waits for mutexes, through however  *)
(* many owners, and one of these owners could run, nobody less important   *)
(* than the waiting task does (mutex.c:61).                                *)
(***************************************************************************)
NoPriorityInversion ==
  OS_CFG_MUTEX_INHERITANCE =>
    \A t \in Thread :
      k.state[t] = "BLOCKED" /\ (\E u \in WaitsFor(t) : k.state[u] = "READY")
        => k.priority[k.current] >= k.priority[t]
=============================================================================
