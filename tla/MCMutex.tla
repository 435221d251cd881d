---- MODULE MCMutex ----
EXTENDS Mutex, TLC

Symmetry == Permutations(Task) \cup Permutations(Mutex)

\* osPriorityRaise as the loop of the code (scheduler.c:127-143).
RECURSIVE RaiseLoop(_, _, _)
RaiseLoop(s, task, priority) ==
  LET raised == osRequeue([s EXCEPT !.priority[task] = priority], task)
  IN  IF s.priority[task] >= priority THEN s
      ELSE IF "MUTEX" \in s.flags[task]
      THEN RaiseLoop(raised, s.owner[s.waitList[task]], priority)
      ELSE raised

(***************************************************************************)
(* The walk of osPriorityRaise from a task that waits for a mutex ends by  *)
(* itself, after no more steps than its definition in Kernel.tla has, also *)
(* when tasks wait for each other in a cycle (scheduler.c:127-143).        *)
(***************************************************************************)
RaiseIsTheLoop ==
  \A t \in Thread, p \in 1 .. OS_PRIORITY_MAX :
    "MUTEX" \in k.flags[t] /\ k.priority[t] < p => osPriorityRaise(k, t, p) = RaiseLoop(k, t, p)
====
