----------------------------- MODULE Processor ------------------------------
(***************************************************************************)
(* The processor: registers, stacks and the flag that enables interrupts,  *)
(* instruction by instruction wherever an interrupt may come in between.   *)
(* The threads call the memory pool, whose list nothing but the critical   *)
(* sections protects, osYield, osTaskCreate and osTaskExit.  Interrupts    *)
(* use the pool as well and end with osSchedule, as OS_ISR makes them do.  *)
(*                                                                         *)
(* Whom osSchedule selects is the question of Scheduler.tla: any thread    *)
(* there is, here.  main() has created the tasks and calls osRun.          *)
(***************************************************************************)
EXTENDS Threads, Naturals, SequencesExt, FiniteSets

CONSTANTS
  handler,                \* the handler of the interrupts
  Block,                  \* of the pool
  Data                    \* what users write to their blocks

User == Thread \cup {handler}

ASSUME ProcessorAssumption ==
  /\ osIdleTask \notin Task /\ handler \notin Thread
  /\ NULL \notin User \cup Block /\ Data \notin Block \cup {NULL}
  /\ IsFiniteSet(Block)

VARIABLES
  pc,                     \* function and place in it
  I,                      \* are interrupts enabled?
  SP,                     \* the thread whose stack is in use
  kept,                   \* registers functions preserve (r2-r17, r28, r29)
  scratch,                \* registers lost by any call
  stack,                  \* of the threads, a sequence of frames
  osCurrentTask,
  sp,                     \* OsTask.sp: whose stack a thread continues on
  life,                   \* of a thread: DEAD, SETUP or ALIVE
  free,                   \* OsPool.free
  memory,                 \* what the blocks begin with
  hands                   \* history: the block of each user

poolVars == <<free, memory, hands>>
taskVars == <<osCurrentTask, sp, life>>
registers == <<kept, scratch>>
vars == <<pc, I, SP, registers, stack, taskVars, poolVars>>

\* own: the parameter of a task, sreg: state of interrupts of a critical section
Registers == [own |-> NULL, sreg |-> NULL, block |-> NULL, next |-> NULL, prev |-> NULL]
Own(t) == [Registers EXCEPT !.own = t]

\* A frame is a return address and the registers saved on top of it.
Frame(address, saved) == [ret |-> address, saved |-> saved]
Address(address) == Frame(address, Registers)

osPortStackInit(t) ==
  <<Address(<<"exit", "cli">>), Address(<<"body", "entry">>), Frame(<<"start", "param">>, Own(t))>>

\* osPoolInit
FirstList == SetToSeq(Block)

Init ==
  /\ pc = <<"main", "cli">> /\ I = FALSE /\ SP = osIdleTask
  /\ kept = Own(osIdleTask) /\ scratch = Registers
  /\ osCurrentTask = osIdleTask
  /\ sp = [t \in Thread |-> t]
  /\ life = [t \in Thread |-> "ALIVE"]
  /\ stack = [t \in Thread |-> IF t = osIdleTask THEN << >> ELSE osPortStackInit(t)]
  /\ free = Last(<<NULL>> \o FirstList)
  /\ memory = [b \in Block |-> (<<NULL>> \o FirstList)[CHOOSE i \in DOMAIN FirstList : FirstList[i] = b]]
  /\ hands = [u \in User |-> NULL]

----------------------------------------------------------------------------
At(function, here, there) == pc = <<function, here>> /\ pc' = <<function, there>>

Push(frame) == stack' = [stack EXCEPT ![SP] = Append(@, frame)]

\* ret
Return ==
  /\ pc' = Last(stack[SP]).ret
  /\ stack' = [stack EXCEPT ![SP] = Front(@)]

\* OS_CRITICAL: the two functions that call osSchedule keep the state of
\* interrupts across it, the other two do not have to.
Schedules == {"yield", "create"}
Critical == [alloc |-> "load", free |-> "link", yield |-> "schedule", create |-> "ready"]

SaveState(f) ==
  /\ At(f, "save", "cli")
  /\ IF f \in Schedules
     THEN kept' = [kept EXCEPT !.sreg = I] /\ UNCHANGED scratch
     ELSE scratch' = [scratch EXCEPT !.sreg = I] /\ UNCHANGED kept
  /\ UNCHANGED <<I, SP, stack, taskVars, poolVars>>

\* Mutant: osYield without OS_CRITICAL.
DisableExceptYield(f) ==
  /\ At(f, "cli", Critical[f])
  /\ I' = (I /\ f = "yield")
  /\ UNCHANGED <<SP, registers, stack, taskVars, poolVars>>

\* Mutant: osPoolAlloc without OS_CRITICAL.
DisableExceptAlloc(f) ==
  /\ At(f, "cli", Critical[f])
  /\ I' = (I /\ f = "alloc")
  /\ UNCHANGED <<SP, registers, stack, taskVars, poolVars>>

Disable(f) ==
  /\ At(f, "cli", Critical[f])
  /\ I' = FALSE
  /\ UNCHANGED <<SP, registers, stack, taskVars, poolVars>>

\* Mutant: ATOMIC_FORCEON instead of ATOMIC_RESTORESTATE.
RestoreOn(f) ==
  /\ At(f, "restore", "ret")
  /\ I' = TRUE
  /\ UNCHANGED <<SP, registers, stack, taskVars, poolVars>>

RestoreState(f) ==
  /\ At(f, "restore", "ret")
  /\ IF f \in Schedules
     THEN I' = kept.sreg /\ kept' = [kept EXCEPT !.sreg = NULL] /\ UNCHANGED scratch
     ELSE I' = scratch.sreg /\ scratch' = [scratch EXCEPT !.sreg = NULL] /\ UNCHANGED kept
  /\ UNCHANGED <<SP, stack, taskVars, poolVars>>

FunctionReturns(f) ==
  /\ pc = <<f, "ret">>
  /\ Return
  /\ UNCHANGED <<I, SP, registers, taskVars, poolVars>>

----------------------------------------------------------------------------
\* Who has called the pool.
Caller == IF Last(stack[SP]).ret[1] = "handler" THEN handler ELSE SP

\* osPoolAlloc
AllocLoad ==
  /\ At("alloc", "load", "next")
  /\ scratch' = [scratch EXCEPT !.block = free]
  /\ UNCHANGED <<I, SP, kept, stack, taskVars, poolVars>>

AllocNext ==
  /\ At("alloc", "next", "restore")
  /\ IF scratch.block = NULL THEN UNCHANGED <<free, hands>>
     ELSE /\ free' = memory[scratch.block]
          /\ hands' = [hands EXCEPT ![Caller] = scratch.block]
  /\ UNCHANGED <<I, SP, registers, stack, taskVars, memory>>

\* osPoolFree
FreeLink ==
  /\ At("free", "link", "head")
  /\ memory' = [memory EXCEPT ![scratch.block] = free]
  /\ UNCHANGED <<I, SP, registers, stack, taskVars, free, hands>>

FreeHead ==
  /\ At("free", "head", "restore")
  /\ free' = scratch.block
  /\ hands' = [hands EXCEPT ![Caller] = NULL]
  /\ UNCHANGED <<I, SP, registers, stack, taskVars, memory>>

----------------------------------------------------------------------------
\* osTaskCreate: the task which has been set up is ready.
Ready ==
  /\ At("create", "ready", "schedule")
  /\ life' = [life EXCEPT ![scratch.next] = "ALIVE"]
  /\ UNCHANGED <<I, SP, registers, stack, osCurrentTask, sp, poolVars>>

\* What is executed once the thread that called osSchedule is back.
Resumed == [yield |-> "restore", create |-> "restore", handler |-> "pop", main |-> "sei"]

\* osSchedule, there is nobody to switch to
ScheduleStays(f) ==
  /\ At(f, "schedule", Resumed[f])
  /\ scratch' = Registers
  /\ UNCHANGED <<I, SP, kept, stack, taskVars, poolVars>>

\* osDispatch
SwitchTo(t) ==
  /\ osCurrentTask' = t
  /\ scratch' = [Registers EXCEPT !.next = t, !.prev = osCurrentTask]

ScheduleSwitches(f) ==
  /\ pc = <<f, "schedule">> /\ pc' = <<"switch", "save">>
  /\ \E t \in Thread \ {osCurrentTask} : life[t] = "ALIVE" /\ SwitchTo(t)
  /\ Push(Address(<<f, Resumed[f]>>))
  /\ UNCHANGED <<I, SP, kept, sp, life, poolVars>>

\* osPortSwitch: save prev, take over the stack of next, restore next
SwitchSave ==
  /\ At("switch", "save", "stack")
  /\ stack' = [stack EXCEPT ![SP] = Append(Front(@), Frame(Last(@).ret, kept))]
  /\ sp' = [sp EXCEPT ![scratch.prev] = SP]
  /\ UNCHANGED <<I, SP, registers, osCurrentTask, life, poolVars>>

SwitchStack ==
  /\ At("switch", "stack", "restore")
  /\ SP' = sp[scratch.next]
  /\ scratch' = Registers
  /\ UNCHANGED <<I, kept, stack, taskVars, poolVars>>

SwitchRestore ==
  /\ pc = <<"switch", "restore">>
  /\ kept' = Last(stack[SP]).saved
  /\ Return
  /\ UNCHANGED <<I, SP, scratch, taskVars, poolVars>>

\* osPortTaskStart: nothing interrupts the instruction after sei.
StartParam ==
  /\ At("start", "param", "sei")
  /\ scratch' = Own(kept.own)
  /\ UNCHANGED <<I, SP, kept, stack, taskVars, poolVars>>

StartEnable ==
  /\ pc = <<"start", "sei">>
  /\ I' = TRUE
  /\ Return
  /\ UNCHANGED <<SP, registers, taskVars, poolVars>>

----------------------------------------------------------------------------
\* An interrupt: what it pushes is taken back by InterruptPops and reti.
Interrupt ==
  /\ I
  /\ pc' = <<"handler", "run">>
  /\ I' = FALSE
  /\ Push(Frame(pc, scratch))
  /\ scratch' = Registers
  /\ UNCHANGED <<SP, kept, taskVars, poolVars>>

HandlerCalls(f, block) ==
  /\ pc = <<"handler", "run">> /\ pc' = <<f, "save">>
  /\ Push(Address(<<"handler", "called">>))
  /\ scratch' = [Registers EXCEPT !.block = block]
  /\ UNCHANGED <<I, SP, kept, taskVars, poolVars>>

\* The handler keeps its block in a static variable, which is hands[handler].
HandlerUsesPool ==
  IF hands[handler] = NULL THEN HandlerCalls("alloc", NULL)
  ELSE HandlerCalls("free", hands[handler])

HandlerDone ==
  /\ \/ At("handler", "run", "schedule")
     \/ At("handler", "called", "schedule")
  /\ scratch' = Registers
  /\ UNCHANGED <<I, SP, kept, stack, taskVars, poolVars>>

InterruptPops ==
  /\ At("handler", "pop", "reti")
  /\ scratch' = Last(stack[SP]).saved
  /\ UNCHANGED <<I, SP, kept, stack, taskVars, poolVars>>

InterruptReturns ==
  /\ pc = <<"handler", "reti">>
  /\ I' = TRUE
  /\ Return
  /\ UNCHANGED <<SP, registers, taskVars, poolVars>>

----------------------------------------------------------------------------
\* osRun
RunDisable ==
  /\ At("main", "cli", "schedule")
  /\ I' = FALSE
  /\ UNCHANGED <<SP, registers, stack, taskVars, poolVars>>

RunEnable ==
  /\ pc = <<"main", "sei">> /\ pc' = <<"body", "run">>
  /\ I' = TRUE
  /\ scratch' = Own(kept.own)
  /\ UNCHANGED <<SP, kept, stack, taskVars, poolVars>>

\* The function of a task begins.
Entry ==
  /\ At("body", "entry", "run")
  /\ kept' = Own(scratch.own)
  /\ UNCHANGED <<I, SP, scratch, stack, taskVars, poolVars>>

\* main() is in the loop of osRun, whose osIdleHook calls nothing.
InTask == pc = <<"body", "run">> /\ kept.own # osIdleTask

\* A task calls a function, with the registers it has no more use for as
\* arguments.
CallFrom(f, result, arguments) ==
  /\ InTask /\ pc' = <<f, "save">>
  /\ Push(Address(<<"body", result>>))
  /\ scratch' = arguments
  /\ UNCHANGED <<I, SP, kept, osCurrentTask, sp, poolVars>>

CallAlloc ==
  /\ kept.block = NULL
  /\ CallFrom("alloc", "allocated", Registers)
  /\ UNCHANGED life

CallFree ==
  /\ kept.block # NULL
  /\ CallFrom("free", "freed", [Registers EXCEPT !.block = kept.block])
  /\ UNCHANGED life

CallYield ==
  /\ CallFrom("yield", "called", Registers)
  /\ UNCHANGED life

\* The memory of a task that is gone is used again.
CallCreate(t) ==
  /\ InTask /\ pc' = <<"create", "save">>
  /\ life[t] = "DEAD"
  /\ life' = [life EXCEPT ![t] = "SETUP"]
  /\ sp' = [sp EXCEPT ![t] = t]
  /\ stack' = [stack EXCEPT ![t] = osPortStackInit(t), ![SP] = Append(@, Address(<<"body", "called">>))]
  /\ scratch' = [Registers EXCEPT !.next = t]
  /\ UNCHANGED <<I, SP, kept, osCurrentTask, poolVars>>

\* The function is back.
Called ==
  /\ \/ At("body", "allocated", "run") /\ kept' = [kept EXCEPT !.block = scratch.block]
     \/ At("body", "freed", "run") /\ kept' = [kept EXCEPT !.block = NULL]
     \/ At("body", "called", "run") /\ UNCHANGED kept
  /\ scratch' = Own(kept.own)
  /\ UNCHANGED <<I, SP, stack, taskVars, poolVars>>

UseBlock ==
  /\ InTask /\ kept.block # NULL
  /\ memory' = [memory EXCEPT ![kept.block] = Data]
  /\ UNCHANGED <<pc, I, SP, registers, stack, taskVars, free, hands>>

\* The function of a task returns.  osTaskExit deletes the current task.
Leave ==
  /\ InTask /\ kept.block = NULL
  /\ Return
  /\ scratch' = Registers
  /\ UNCHANGED <<I, SP, kept, taskVars, poolVars>>

ExitDisable ==
  /\ At("exit", "cli", "dispatch")
  /\ I' = FALSE
  /\ UNCHANGED <<SP, registers, stack, taskVars, poolVars>>

ExitSwitches ==
  /\ pc = <<"exit", "dispatch">> /\ pc' = <<"switch", "save">>
  /\ life' = [life EXCEPT ![osCurrentTask] = "DEAD"]
  /\ \E t \in Thread \ {osCurrentTask} : life[t] = "ALIVE" /\ SwitchTo(t)
  /\ Push(Address(<<"exit", "while">>))
  /\ UNCHANGED <<I, SP, kept, sp, poolVars>>

Next ==
  \/ \E f \in {"alloc", "free", "yield", "create"} :
       SaveState(f) \/ Disable(f) \/ RestoreState(f) \/ FunctionReturns(f)
  \/ AllocLoad \/ AllocNext \/ FreeLink \/ FreeHead \/ Ready
  \/ \E f \in {"yield", "create", "handler", "main"} : ScheduleStays(f) \/ ScheduleSwitches(f)
  \/ SwitchSave \/ SwitchStack \/ SwitchRestore \/ StartParam \/ StartEnable
  \/ Interrupt \/ HandlerUsesPool \/ HandlerDone \/ InterruptPops \/ InterruptReturns
  \/ RunDisable \/ RunEnable
  \/ Entry \/ CallAlloc \/ CallFree \/ CallYield \/ (\E t \in Task : CallCreate(t))
  \/ Called \/ UseBlock \/ Leave \/ ExitDisable \/ ExitSwitches

Spec == Init /\ [][Next]_vars

----------------------------------------------------------------------------
(***************************************************************************)
(* A function never notices that it was interrupted or switched out: it    *)
(* runs on the stack of its task, with the registers of its task, with the *)
(* block it got and with interrupts enabled (asm.c:187, "state of          *)
(* interrupts is not a part of the context").                              *)
(***************************************************************************)
OwnContext ==
  pc = <<"body", "run">> =>
    /\ I
    /\ SP = osCurrentTask /\ kept.own = osCurrentTask /\ scratch.own = osCurrentTask
    /\ kept.block = hands[osCurrentTask]

(***************************************************************************)
(* Interrupts do not pile up on a stack, however often a task is           *)
(* preempted: it holds the address of osTaskExit, a call of the task, one  *)
(* interrupt and one call of the handler (OS_STACK_MIN, tasks.h:103), and  *)
(* whoever is not running has its context on top.                          *)
(***************************************************************************)
StackFits ==
  \A t \in Thread :
    /\ Len(stack[t]) <= IF t = osIdleTask THEN 2 ELSE 4
    /\ life[t] = "ALIVE" /\ t # osCurrentTask /\ pc[1] # "switch"
         => /\ Last(stack[t]).saved.own = t
            /\ Last(stack[t]).ret[2] \in {"restore", "pop", "sei", "param"}

\* The blocks on the list, from the first one on.
Listed ==
  LET reached[n \in 0 .. Cardinality(Block)] ==
        IF n = 0 THEN {free} \cap Block
        ELSE reached[n - 1] \cup ({memory[b] : b \in reached[n - 1]} \cap Block)
  IN reached[Cardinality(Block)]

Pool == INSTANCE BlockPool WITH available <- Listed, holder <- hands

(***************************************************************************)
(* The list that starts in OsPool.free and runs through the blocks         *)
(* themselves is a pool "safe to use everywhere, interrupt handlers        *)
(* included" (memory.h:34): no block is handed out twice or lost, and      *)
(* nobody writes to a block that is free.                                  *)
(***************************************************************************)
PoolOfBlocks == Pool!Spec
=============================================================================
