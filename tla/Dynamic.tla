------------------------------ MODULE Dynamic -------------------------------
(***************************************************************************)
(* Tasks on the heap: osTaskCreateDynamic, osTaskReap and osMalloc, which  *)
(* run with interrupts enabled except for the few lines that touch the     *)
(* dead list and the heap, and the loop of the idle task, which reaps what *)
(* is left.  They are interleaved here at every point where an interrupt   *)
(* may switch to another task.                                             *)
(*                                                                         *)
(* A task on the heap is identified with its block of memory.  Priorities  *)
(* are left out: any task that is not asleep may be the one running, and   *)
(* the idle task is whenever all the others sleep.                         *)
(***************************************************************************)
EXTENDS Threads, Naturals, SequencesExt

CONSTANTS
  OnHeap                  \* tasks on the heap, which has room for all of them

ASSUME DynamicAssumption ==
  /\ osIdleTask \notin Task /\ NULL \notin Thread
  /\ OnHeap \subseteq Task

\* Tasks in memory of the application.
Static == Task \ OnHeap

VARIABLES
  heap,                   \* blocks that are free
  live,                   \* tasks that have been created and are not dead
  asleep,                 \* those of them that are blocked or suspended
  osDeadList,
  osTaskReaper,           \* bytes of the pointer that have been written
  loaded,                 \* those the idle task has read
  at,                     \* what a thread does next
  then,                   \* what it does once osTaskReap returns
  local                   \* the block in its local variable

dynamicVars == <<heap, live, asleep, osDeadList, osTaskReaper, loaded, at, then, local>>

Byte == {"low", "high"}

DynamicInit ==
  /\ heap = OnHeap
  /\ live = Static
  /\ asleep = {}
  /\ osDeadList = << >>
  /\ osTaskReaper = {}
  /\ loaded = {}
  /\ at = [t \in Thread |-> IF t = osIdleTask THEN "main" ELSE "app"]
  /\ then = [t \in Thread |-> "app"]
  /\ local = [t \in Thread |-> NULL]

----------------------------------------------------------------------------
\* Nobody but main() runs before osRun.
Runs(t) ==
  IF t = osIdleTask THEN live \subseteq asleep
  ELSE t \in live \ asleep /\ at[osIdleTask] # "main"

\* The running thread gets from one place of its program to another.
Step(t, here, there) ==
  /\ Runs(t) /\ at[t] = here
  /\ at' = [at EXCEPT ![t] = there]

\* main() up to the loop of osRun.  It may create a task on the heap.
Run ==
  /\ at[osIdleTask] = "main"
  /\ at' = [at EXCEPT ![osIdleTask] = "loop"]
  /\ \/ UNCHANGED <<heap, live, osTaskReaper>>
     \/ /\ \E b \in heap : live' = live \cup {b} /\ heap' = heap \ {b}
        /\ osTaskReaper' = Byte
  /\ UNCHANGED <<asleep, osDeadList, loaded, then, local>>

----------------------------------------------------------------------------
\* osTaskReap.
Pop(t) ==
  /\ osDeadList # << >>
  /\ Step(t, "reap", "free")
  /\ osDeadList' = Tail(osDeadList)
  /\ local' = [local EXCEPT ![t] = Head(osDeadList)]
  /\ UNCHANGED <<heap, live, asleep, osTaskReaper, loaded, then>>

Free(t) ==
  /\ Step(t, "free", "reap")
  /\ heap' = heap \cup {local[t]}
  /\ local' = [local EXCEPT ![t] = NULL]
  /\ UNCHANGED <<live, asleep, osDeadList, osTaskReaper, loaded, then>>

ReapReturns(t) ==
  /\ osDeadList = << >>
  /\ Step(t, "reap", then[t])
  /\ then' = [then EXCEPT ![t] = "app"]
  /\ UNCHANGED <<heap, live, asleep, osDeadList, osTaskReaper, loaded, local>>

Reap(t) == Pop(t) \/ Free(t) \/ ReapReturns(t)

----------------------------------------------------------------------------
\* osTaskCreateDynamic.

\* The pointer is written one byte at a time, in an order the compiler chose.
Store(t) ==
  /\ Step(t, "app", "store")
  /\ \E byte \in Byte : osTaskReaper' = osTaskReaper \cup {byte}
  /\ UNCHANGED <<heap, live, asleep, osDeadList, loaded, then, local>>

StoreOther(t) ==
  /\ Step(t, "store", "reap")
  /\ osTaskReaper' = Byte
  /\ then' = [then EXCEPT ![t] = "malloc"]
  /\ UNCHANGED <<heap, live, asleep, osDeadList, loaded, local>>

\* osMalloc, for the first time and after reaping.  How much memory the task
\* needs is left out, malloc may fail.
Malloc(t) ==
  /\ Step(t, "malloc", "setup") \/ Step(t, "again", "setup")
  /\ \E b \in heap : heap' = heap \ {b} /\ local' = [local EXCEPT ![t] = b]
  /\ UNCHANGED <<live, asleep, osDeadList, osTaskReaper, loaded, then>>

MallocFails(t) ==
  /\ Step(t, "malloc", "reap")
  /\ then' = [then EXCEPT ![t] = "again"]
  /\ UNCHANGED <<heap, live, asleep, osDeadList, osTaskReaper, loaded, local>>

NoMemory(t) ==
  /\ Step(t, "again", "app")
  /\ UNCHANGED <<heap, live, asleep, osDeadList, osTaskReaper, loaded, then, local>>

Setup(t) ==
  /\ Step(t, "setup", "app")
  /\ live' = live \cup {local[t]}
  /\ local' = [local EXCEPT ![t] = NULL]
  /\ UNCHANGED <<heap, asleep, osDeadList, osTaskReaper, loaded, then>>

\* Too small for a task.
SetupFails(t) ==
  /\ Step(t, "setup", "app")
  /\ heap' = heap \cup {local[t]}
  /\ local' = [local EXCEPT ![t] = NULL]
  /\ UNCHANGED <<live, asleep, osDeadList, osTaskReaper, loaded, then>>

Create(t) ==
  \/ Store(t) \/ StoreOther(t)
  \/ Malloc(t) \/ MallocFails(t) \/ NoMemory(t)
  \/ Setup(t) \/ SetupFails(t)

----------------------------------------------------------------------------
\* What tasks do to each other between two calls, and to themselves.

\* Mutant: also of a task that is dead already.
DeleteAgain(t, u) ==
  /\ Runs(t) /\ at[t] = "app"
  /\ u \in live \cup ToSet(osDeadList)
  /\ live' = live \ {u}
  /\ asleep' = asleep \ {u}
  /\ osDeadList' = IF u \in OnHeap THEN <<u>> \o osDeadList ELSE osDeadList
  /\ at' = [at EXCEPT ![u] = "app"]
  /\ then' = [then EXCEPT ![u] = "app"]
  /\ local' = [local EXCEPT ![u] = NULL]
  /\ UNCHANGED <<heap, osTaskReaper, loaded>>

\* Mutant: it stays on the list of whatever it waits for.
DeleteUndetached(t, u) ==
  /\ Runs(t) /\ at[t] = "app"
  /\ u \in live
  /\ live' = live \ {u}
  /\ osDeadList' = IF u \in OnHeap THEN <<u>> \o osDeadList ELSE osDeadList
  /\ at' = [at EXCEPT ![u] = "app"]
  /\ then' = [then EXCEPT ![u] = "app"]
  /\ local' = [local EXCEPT ![u] = NULL]
  /\ UNCHANGED <<heap, asleep, osTaskReaper, loaded>>

\* osTaskDelete.  Its memory is released later, unless it is not on the heap.
\* Its variables are gone, it will start anew.
Delete(t, u) ==
  /\ Runs(t) /\ at[t] = "app"
  /\ u \in live
  /\ live' = live \ {u}
  /\ asleep' = asleep \ {u}
  /\ osDeadList' = IF u \in OnHeap THEN <<u>> \o osDeadList ELSE osDeadList
  /\ at' = [at EXCEPT ![u] = "app"]
  /\ then' = [then EXCEPT ![u] = "app"]
  /\ local' = [local EXCEPT ![u] = NULL]
  /\ UNCHANGED <<heap, osTaskReaper, loaded>>

\* osTaskSuspend, or a call that blocks if it is the same task.
Suspend(t, u) ==
  /\ Step(t, "app", "app")
  /\ u \in live \ asleep
  /\ asleep' = asleep \cup {u}
  /\ UNCHANGED <<heap, live, osDeadList, osTaskReaper, loaded, then, local>>

\* By a task, a handler or the tick.
Wake(u) ==
  /\ asleep' = asleep \ {u}
  /\ u \in asleep
  /\ UNCHANGED <<heap, live, osDeadList, osTaskReaper, loaded, at, then, local>>

----------------------------------------------------------------------------
\* The loop of the idle task: osTaskReaper is read one byte at a time, in an
\* order the compiler chose.
Load(byte, other) ==
  /\ Step(osIdleTask, "loop", other)
  /\ loaded' = osTaskReaper \cap {byte}
  /\ UNCHANGED <<heap, live, asleep, osDeadList, osTaskReaper, then, local>>

\* Mutant: the reaper is never called.
CallNobody(byte) ==
  /\ Step(osIdleTask, byte, "loop")
  /\ loaded' = {}
  /\ UNCHANGED <<heap, live, asleep, osDeadList, osTaskReaper, then, local>>

\* Called unless it is NULL.
Call(byte) ==
  LET pointer == loaded \cup (osTaskReaper \cap {byte})
  IN  /\ \/ pointer = {} /\ Step(osIdleTask, byte, "loop")
         \/ pointer = Byte /\ Step(osIdleTask, byte, "reap")
         \/ pointer \notin {{}, Byte} /\ Step(osIdleTask, byte, "lost")
      /\ then' = [then EXCEPT ![osIdleTask] = IF pointer = Byte THEN "loop" ELSE "app"]
      /\ loaded' = {}
      /\ UNCHANGED <<heap, live, asleep, osDeadList, osTaskReaper, local>>

\* Nobody knows what is executed at half an address.
Lost == at[osIdleTask] = "lost" /\ UNCHANGED dynamicVars

Idle ==
  \/ Load("low", "high") \/ Load("high", "low")
  \/ \E byte \in Byte : Call(byte)
  \/ Reap(osIdleTask)
  \/ Lost

DynamicNext ==
  \/ Run
  \/ Idle
  \/ \E t \in Task : Create(t) \/ Reap(t) \/ Wake(t)
  \/ \E t, u \in Task : Delete(t, u) \/ Suspend(t, u)

DynamicSpec == DynamicInit /\ [][DynamicNext]_dynamicVars

----------------------------------------------------------------------------
\* Every variable has a value of its type.
TypeOK ==
  /\ heap \subseteq OnHeap /\ live \subseteq Task /\ asleep \subseteq live
  /\ osDeadList \in Seq(OnHeap)
  /\ osTaskReaper \subseteq Byte /\ loaded \subseteq Byte
  /\ then \in [Thread -> {"app", "malloc", "again", "loop"}]
  /\ local \in [Thread -> OnHeap \cup {NULL}]
  /\ at \in [Thread -> {"main", "loop", "low", "high", "lost", "app", "store", "reap",
                        "free", "malloc", "again", "setup"}]

(***************************************************************************)
(* The memory of a task is in one place: free, in use, on the dead list or *)
(* in the hands of one thread that frees it or makes a task of it.  Nobody *)
(* frees it twice, nor while the task is alive, although any number of     *)
(* threads reap at the same time (tasks.c:263-285).                        *)
(***************************************************************************)
Held == {t \in Thread : local[t] # NULL}

OneOwner ==
  /\ heap \cap live = {}
  /\ ToSet(osDeadList) \cap (heap \cup live) = {}
  /\ IsInjective(osDeadList)
  /\ \A t \in Held : local[t] \notin heap \cup live \cup ToSet(osDeadList)
  /\ \A t, u \in Held : local[t] = local[u] => t = u

(***************************************************************************)
(* The idle task calls osTaskReap or nobody: "free the memory used by      *)
(* tasks which are gone, if there were any" (system.c:90).  It reads the   *)
(* two bytes of osTaskReaper with interrupts enabled, and the first task   *)
(* on the heap may be created in between by another task (tasks.c:252).    *)
(***************************************************************************)
ReaperIsCalled == at[osIdleTask] # "lost"

(***************************************************************************)
(* If all tasks sleep again and again, the idle task takes every block off *)
(* the dead list (system.c:88-93), unless it is lost as above.  It runs    *)
(* whenever they do, and gets to at least one instruction each time, hence *)
(* its strong fairness.                                                    *)
(***************************************************************************)
IdleFairness == SF_dynamicVars(Idle)

DynamicFairSpec == DynamicSpec /\ WF_dynamicVars(Run) /\ IdleFairness

DeadAreReaped ==
  []<>(live \subseteq asleep) =>
    \A b \in OnHeap : b \in ToSet(osDeadList) ~> (b \notin ToSet(osDeadList) \/ ~ReaperIsCalled)
=============================================================================
