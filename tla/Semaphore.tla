----------------------------- MODULE Semaphore ------------------------------
(***************************************************************************)
(* semaphore.c: a semaphore that tasks take from, wait for and give up,    *)
(* and that tasks and interrupt handlers give to.                          *)
(***************************************************************************)
EXTENDS Application

CONSTANTS
  semaphore,
  InitialCount,
  Limit                   \* 1 makes it binary

ASSUME SemaphoreAssumption ==
  /\ Mutex = {} /\ Object = {semaphore}
  /\ InitialCount \in 0 .. 255 /\ Limit \in 0 .. 255

VARIABLES
  count,
  taken                   \* what the last osSemaphoreTake returned

vars == <<k, running, call, count, taken>>

Init ==
  /\ ApplicationInit
  /\ count = InitialCount
  /\ taken = FALSE

----------------------------------------------------------------------------
TakeAtOnce ==
  /\ ~Returning
  /\ count > 0
  /\ count' = count - 1
  /\ taken' = TRUE
  /\ UNCHANGED <<k, running, call>>

\* With OS_NO_WAIT, and on behalf of the idle task with any timeout.
TakeRefused ==
  /\ ~Returning
  /\ count = 0
  /\ taken' = FALSE
  /\ UNCHANGED <<k, running, call, count>>

TakeWaits(timeout) ==
  /\ ~Returning
  /\ count = 0
  /\ timeout # OS_NO_WAIT
  /\ k.current # osIdleTask
  /\ Blocks(k, semaphore, timeout, semaphore)
  /\ UNCHANGED <<count, taken>>

TakeReturns ==
  /\ Returns(k)
  /\ taken' = k.result[k.current]
  /\ UNCHANGED count

\* osSemaphoreGiveFromISR: straight to the most important task waiting for
\* it, if there is one.
Handed ==
  IF k.waiters[semaphore] = << >> THEN k ELSE osWake(k, Head(k.waiters[semaphore]), TRUE)

\* Mutant: the token goes both ways.
CountedTwice == IF count < Limit THEN count + 1 ELSE count

Counted ==
  IF k.waiters[semaphore] = << >> /\ count < Limit THEN count + 1 ELSE count

\* By a task, or by a handler with OS_ISR.
Give ==
  /\ ~Returning
  /\ k' = osSchedule(Handed, 0)
  /\ count' = Counted
  /\ UNCHANGED <<running, call, taken>>

\* By any other handler.
GiveFromISR ==
  /\ ~Returning
  /\ k' = Handed
  /\ count' = Counted
  /\ UNCHANGED <<running, call, taken>>

Next ==
  \/ TakeAtOnce
  \/ TakeRefused
  \/ \E n \in Timeout : TakeWaits(n)
  \/ TakeReturns
  \/ Give
  \/ GiveFromISR
  \/ ApplicationNext /\ UNCHANGED <<count, taken>>

Spec == Init /\ [][Next]_vars

----------------------------------------------------------------------------
\* Every variable has a value of its type.
TypeOK ==
  /\ ApplicationTypeOK(Object)
  /\ count \in 0 .. 255
  /\ taken \in BOOLEAN

(***************************************************************************)
(* The semaphore is a pool of tokens: none is made up or given to two      *)
(* tasks, none is lost but with a task that is deleted before it has taken *)
(* it, nobody waits while there is one, and osSemaphoreTake returns true   *)
(* exactly to a task that has got one, although a token handed to a        *)
(* waiting task is neither counted nor taken until that task runs again    *)
(* (semaphore.c:39-44, 52-56).                                             *)
(***************************************************************************)
Phase(t) ==
  IF call[t] = NULL THEN "out"
  ELSE IF k.state[t] = "BLOCKED" THEN "waiting"
  ELSE IF k.result[t] THEN "granted" ELSE "failed"

Pool == INSTANCE TokenPool WITH
  Initial <- InitialCount, tokens <- count, phase <- [t \in Thread |-> Phase(t)], got <- taken

PoolOfTokens == Pool!PoolSpec

(***************************************************************************)
(* "goes straight to the most important task waiting for it"               *)
(* (semaphore.c:52), whatever has happened to priorities since the tasks   *)
(* started to wait.                                                        *)
(***************************************************************************)
MostImportantServed ==
  [][\A t, u \in Task :
       /\ Phase(t) = "waiting" /\ Phase(t)' = "granted"
       /\ Phase(u) = "waiting" /\ Phase(u)' = "waiting"
       => k.priority[t] >= k.priority[u]]_vars
=============================================================================
