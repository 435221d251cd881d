---------------------------- MODULE ThreadProofs ----------------------------
(***************************************************************************)
(* What a thread can rely on while it is interrupted and switched out, the *)
(* memory pool that nothing but critical sections protects, and the memory *)
(* of tasks on the heap, for any number of tasks and blocks.               *)
(***************************************************************************)
EXTENDS Processor, Dynamic, SequenceTheorems, FiniteSetTheorems, NaturalsInduction, WellFoundedInduction, TLAPS

\* The places of the program.
Functions == {"alloc", "free", "yield", "create"}
Code == {"main", "start", "body", "exit", "handler", "switch"} \cup Functions
Spot ==
  {"cli", "sei", "save", "restore", "ret", "reti", "pop", "stack", "param", "schedule", "dispatch", "while",
   "entry", "run", "allocated", "freed", "called", "load", "next", "link", "head", "ready"}
Place == Code \X Spot

RegisterValues ==
  [own : Thread \cup {NULL}, sreg : BOOLEAN \cup {NULL}, block : Block \cup {NULL},
   next : Thread \cup {NULL}, prev : Thread \cup {NULL}]
Frames == [ret : Place, saved : RegisterValues]

\* Every variable has a value of its type.
Typed ==
  /\ pc \in Place /\ I \in BOOLEAN /\ SP \in Thread
  /\ kept \in RegisterValues /\ scratch \in RegisterValues
  /\ stack \in [Thread -> Seq(Frames)]
  /\ osCurrentTask \in Thread
  /\ sp = [t \in Thread |-> t]
  /\ life \in [Thread -> {"DEAD", "SETUP", "ALIVE"}]
  /\ hands \in [User -> Block \cup {NULL}]

----------------------------------------------------------------------------
(***************************************************************************)
(* A thread can continue at p, with the registers kp and sc, on what is    *)
(* left of its stack, s, while it has the block h.                         *)
(***************************************************************************)
\* The place a task is back at from a function.
Result == [alloc |-> "allocated", free |-> "freed", yield |-> "called", create |-> "called"]

\* What is on the stack of a thread in the function of its task.
Base(t) == IF t = osIdleTask THEN << >> ELSE Append(<< >>, Address(<<"exit", "cli">>))

InMain(t, p, kp, sc, s, h) ==
  /\ t = osIdleTask /\ s = << >>
  /\ p[2] \in {"cli", "schedule", "sei"}
  /\ h = kp.block

InStart(t, p, kp, sc, s, h) ==
  /\ t # osIdleTask
  /\ s # << >> /\ Front(s) = Base(t) /\ Last(s) = Address(<<"body", "entry">>)
  /\ p[2] \in {"param", "sei"}
  /\ p[2] = "sei" => sc.own = t
  /\ h = NULL

InBody(t, p, kp, sc, s, h) ==
  /\ s = Base(t)
  /\ p[2] \in {"entry", "run", "allocated", "freed", "called"}
  /\ p[2] # "run" => t # osIdleTask
  /\ p[2] \in {"entry", "run"} => sc.own = t
  /\ p[2] \in {"entry", "freed"} => h = NULL
  /\ p[2] \in {"run", "called"} => h = kp.block
  /\ p[2] = "allocated" => h = sc.block

InCall(t, p, kp, sc, s, h) ==
  /\ t # osIdleTask
  /\ s # << >> /\ Front(s) = Base(t) /\ Last(s) = Address(<<"body", Result[p[1]]>>)
  /\ p[1] \in Schedules =>
       /\ p[2] \notin {"save", "ret"} => kp.sreg = TRUE
       /\ h = kp.block
  /\ p[1] \notin Schedules /\ p[2] \notin {"save", "ret"} => sc.sreg = TRUE
  /\ p[1] = "alloc" => h = IF p[2] \in {"restore", "ret"} THEN sc.block ELSE NULL
  /\ p[1] = "free" => IF p[2] \in {"restore", "ret"} THEN h = NULL ELSE h = sc.block /\ h # NULL
  /\ p[1] = "create" /\ p[2] \in {"save", "cli", "ready"} => sc.next # NULL

InExit(t, p, kp, sc, s, h) ==
  /\ t # osIdleTask /\ s = << >>
  /\ p[2] \in {"cli", "dispatch"}
  /\ h = NULL

\* The thread is in its own code ...
OwnCode(t, p, kp, sc, s, h) ==
  /\ kp.own = t
  /\ p[1] \in {"main", "start", "body", "exit"} \cup Functions
  /\ p[1] = "main" => InMain(t, p, kp, sc, s, h)
  /\ p[1] = "start" => InStart(t, p, kp, sc, s, h)
  /\ p[1] = "body" => InBody(t, p, kp, sc, s, h)
  /\ p[1] = "exit" => InExit(t, p, kp, sc, s, h)
  /\ p[1] \in Functions => InCall(t, p, kp, sc, s, h)

\* ... with interrupts enabled ...
Enabled(p) ==
  \/ p[1] = "body"
  \/ p[1] = "exit" /\ p[2] = "cli"
  \/ p[1] \in Functions /\ p[2] \in {"save", "cli", "ret"}

\* ... or has been interrupted there.
Interrupted(t, kp, s, h) ==
  /\ s # << >>
  /\ Enabled(Last(s).ret)
  /\ OwnCode(t, Last(s).ret, kp, Last(s).saved, Front(s), h)

InHandler(t, p, kp, sc, s, h) ==
  /\ p[1] = "handler" /\ p[2] \in {"run", "called", "schedule", "pop", "reti"}
  /\ Interrupted(t, kp, s, h)
  /\ p[2] = "reti" => sc = Last(s).saved

InHandlerCall(t, p, kp, sc, s, h) ==
  /\ p[1] \in {"alloc", "free"}
  /\ s # << >> /\ Last(s) = Address(<<"handler", "called">>)
  /\ Interrupted(t, kp, Front(s), h)
  /\ p[2] \notin {"save", "ret"} => sc.sreg = FALSE

Continues(t, p, kp, sc, s, h) ==
  \/ OwnCode(t, p, kp, sc, s, h)
  \/ InHandler(t, p, kp, sc, s, h)
  \/ InHandlerCall(t, p, kp, sc, s, h)

\* Where a thread that is not running continues.
Resume(p) ==
  \/ p[1] \in {"yield", "create"} /\ p[2] = "restore"
  \/ p[1] = "handler" /\ p[2] = "pop"
  \/ p[1] = "main" /\ p[2] = "sei"
  \/ p[1] = "start" /\ p[2] = "param"

Suspended(t) ==
  /\ stack[t] # << >>
  /\ Resume(Last(stack[t]).ret)
  /\ Continues(t, Last(stack[t]).ret, Last(stack[t]).saved, Registers, Front(stack[t]), hands[t])

----------------------------------------------------------------------------
\* Is the function called by the handler?
ByHandler == stack[SP] # << >> /\ Last(stack[SP]).ret[1] = "handler"

Running ==
  pc[1] # "switch" =>
    /\ SP = osCurrentTask
    /\ Continues(SP, pc, kept, scratch, stack[SP], hands[SP])
    /\ I <=> (Enabled(pc) /\ ~ByHandler)

Switching ==
  pc[1] = "switch" =>
    /\ ~I
    /\ pc[2] \in {"save", "stack", "restore"}
    /\ pc[2] # "restore" => osCurrentTask # SP /\ scratch.next = osCurrentTask
    /\ pc[2] = "restore" => osCurrentTask = SP
    /\ pc[2] = "save" =>
         /\ scratch.prev = SP
         /\ stack[SP] # << >>
         /\ life[SP] = "ALIVE" =>
              /\ Resume(Last(stack[SP]).ret)
              /\ Continues(SP, Last(stack[SP]).ret, kept, Registers, Front(stack[SP]), hands[SP])

Waiting ==
  \A t \in Thread :
    /\ life[t] = "ALIVE"
    /\ t = osCurrentTask => pc[1] = "switch"
    /\ t = SP => pc # <<"switch", "save">>
    => Suspended(t)

\* The task that t is about to make ready.
Creating(t) ==
  IF t = SP /\ pc[1] = "create"
  THEN IF pc[2] \in {"save", "cli", "ready"} THEN scratch.next ELSE NULL
  ELSE IF /\ Len(stack[t]) >= 3
          /\ stack[t][3].ret[1] = "create" /\ stack[t][3].ret[2] \in {"save", "cli"}
       THEN stack[t][3].saved.next ELSE NULL

Lives ==
  /\ life[osCurrentTask] = "ALIVE" /\ life[osIdleTask] = "ALIVE" /\ life[SP] # "SETUP"
  /\ \A t \in Thread : life[t] # "ALIVE" => hands[t] = NULL
  /\ \A t \in Thread : life[t] = "DEAD" => Len(stack[t]) = 1
  /\ \A t \in Thread : life[t] = "SETUP" => stack[t] = osPortStackInit(t)
  /\ \A t \in Thread : Creating(t) # NULL => life[Creating(t)] = "SETUP"
  /\ \A t, u \in Thread : Creating(t) # NULL /\ Creating(t) = Creating(u) => t = u

\* The list of free blocks.
IsFreeList(list) ==
  /\ IsInjective(list)
  /\ free = IF list = << >> THEN NULL ELSE Head(list)
  /\ \A i \in 1 .. Len(list) :
       memory[list[i]] = IF i = Len(list) THEN NULL ELSE list[i + 1]

PoolInv ==
  /\ \E list \in Seq(Block) :
       /\ IsFreeList(list)
       /\ \A u \in User : hands[u] \notin ToSet(list)
  /\ \A u, v \in User : hands[u] # NULL /\ hands[u] = hands[v] => u = v
  /\ memory = [b \in Block |-> memory[b]]
  /\ pc = <<"alloc", "next">> => scratch.block = free
  /\ pc = <<"free", "head">> => memory[scratch.block] = free
  /\ pc[1] = "alloc" /\ ByHandler /\ pc[2] \notin {"restore", "ret"} => hands[handler] = NULL
  /\ pc[1] = "free" /\ ByHandler /\ pc[2] \notin {"restore", "ret"}
       => scratch.block = hands[handler] /\ scratch.block # NULL

IInv == Typed /\ Running /\ Switching /\ Waiting /\ Lives /\ PoolInv

----------------------------------------------------------------------------
\* Stacks and registers.
LEMMA Pushing ==
  ASSUME NEW S, NEW s \in Seq(S), NEW e \in S
  PROVE  /\ Append(s, e) \in Seq(S) /\ Append(s, e) # << >>
         /\ Len(Append(s, e)) = Len(s) + 1
         /\ Last(Append(s, e)) = e
         /\ Front(Append(s, e)) = s
         /\ \A i \in 1 .. Len(s) : Append(s, e)[i] = s[i]
<1>. DEFINE r == Append(s, e)
<1>1. /\ r \in Seq(S) /\ Len(r) = Len(s) + 1 /\ r[Len(s) + 1] = e
      /\ \A i \in 1 .. Len(s) : r[i] = s[i]
      /\ Len(s) \in Nat /\ r # << >>
  BY AppendProperties
<1>. HIDE DEF r
<1>2. Front(r) = s
  <2>1. Front(r) = SubSeq(r, 1, Len(s))
    BY <1>1 DEF Front
  <2>2. SubSeq(r, 1, Len(s)) \in Seq(S) /\ Len(SubSeq(r, 1, Len(s))) = Len(s)
        /\ \A i \in 1 .. Len(s) : SubSeq(r, 1, Len(s))[i] = r[i]
    BY <1>1
  <2>. HIDE DEF r
  <2>. QED BY <1>1, <2>1, <2>2, SeqEqual
<1>3. Last(r) = e
  BY <1>1 DEF Last
<1>. QED
  BY <1>1, <1>2, <1>3 DEF r

LEMMA Popping ==
  ASSUME NEW S, NEW s \in Seq(S), s # << >>
  PROVE  /\ Front(s) \in Seq(S) /\ Last(s) \in S
         /\ Len(s) \in Nat \ {0} /\ Len(Front(s)) = Len(s) - 1 /\ Len(s) = Len(Front(s)) + 1
         /\ \A i \in 1 .. Len(s) - 1 : Front(s)[i] = s[i]
<1>1. Len(s) \in Nat \ {0}
  OBVIOUS
<1>2. Last(s) \in S
  BY <1>1 DEF Last
<1>. DEFINE n == Len(s) - 1
<1>3. /\ SubSeq(s, 1, n) \in Seq(S) /\ Len(SubSeq(s, 1, n)) = n
      /\ \A i \in 1 .. n : SubSeq(s, 1, n)[i] = s[i]
  <2>1. n \in Nat /\ \A i \in 1 .. n : s[i] \in S
    BY <1>1
  <2>. HIDE DEF n
  <2>2. /\ SubSeq(s, 1, n) \in Seq(S)
        /\ Len(SubSeq(s, 1, n)) = IF 1 <= n THEN n - 1 + 1 ELSE 0
        /\ \A i \in 1 .. n - 1 + 1 : SubSeq(s, 1, n)[i] = s[1 + i - 1]
    BY <2>1, SubSeqProperties
  <2>. QED BY <2>1, <2>2
<1>. QED
  BY <1>1, <1>2, <1>3 DEF Front

LEMMA Popped ==
  ASSUME NEW S, NEW s \in Seq(S), s # << >>, IsInjective(s)
  PROVE  /\ Head(s) \in S /\ Tail(s) \in Seq(S) /\ IsInjective(Tail(s))
         /\ ToSet(Tail(s)) = ToSet(s) \ {Head(s)}
         /\ Head(s) \in ToSet(s)
<1>1. /\ Len(s) \in Nat \ {0} /\ DOMAIN s = 1 .. Len(s)
      /\ Head(s) = s[1] /\ s[1] \in S
      /\ \A i \in 1 .. Len(s) : s[i] \in S
  BY EmptySeq, HeadTailProperties
<1>2. /\ Tail(s) \in Seq(S) /\ Len(Tail(s)) = Len(s) - 1
      /\ DOMAIN Tail(s) = 1 .. Len(s) - 1
      /\ \A i \in 1 .. Len(s) - 1 : Tail(s)[i] = s[i + 1]
  BY HeadTailProperties
<1>3. IsInjective(Tail(s))
  <2>. SUFFICES ASSUME NEW i \in 1 .. Len(s) - 1, NEW j \in 1 .. Len(s) - 1,
                       Tail(s)[i] = Tail(s)[j]
                PROVE  i = j
    BY <1>2 DEF IsInjective
  <2>1. s[i + 1] = s[j + 1] /\ i + 1 \in 1 .. Len(s) /\ j + 1 \in 1 .. Len(s)
    BY <1>1, <1>2
  <2>2. i + 1 = j + 1
    BY <2>1, <1>1 DEF IsInjective
  <2>. QED
    BY <2>2
<1>4. ASSUME NEW x PROVE x \in ToSet(Tail(s)) <=> x \in ToSet(s) \ {Head(s)}
  <2>1. ASSUME x \in ToSet(Tail(s)) PROVE x \in ToSet(s) \ {Head(s)}
    <3>1. PICK i \in 1 .. Len(s) - 1 : x = s[i + 1]
      BY <2>1, <1>2 DEF ToSet
    <3>2. i + 1 \in 1 .. Len(s) /\ 1 \in 1 .. Len(s) /\ i + 1 # 1
      BY <1>1
    <3>3. s[i + 1] # s[1]
      BY <3>2, <1>1 DEF IsInjective
    <3>. QED
      BY <3>1, <3>2, <3>3, <1>1 DEF ToSet
  <2>2. ASSUME x \in ToSet(s) \ {Head(s)} PROVE x \in ToSet(Tail(s))
    <3>1. PICK i \in 1 .. Len(s) : x = s[i] /\ i # 1
      BY <2>2, <1>1 DEF ToSet
    <3>2. i - 1 \in 1 .. Len(s) - 1 /\ (i - 1) + 1 = i
      BY <3>1, <1>1
    <3>3. Tail(s)[i - 1] = s[(i - 1) + 1]
      BY <3>2, <1>2
    <3>. QED
      BY <3>1, <3>2, <3>3, <1>2 DEF ToSet
  <2>. QED
    BY <2>1, <2>2
<1>5. s[1] \in ToSet(s)
  BY <1>1 DEF ToSet
<1>. QED
  BY <1>1, <1>2, <1>3, <1>4, <1>5

LEMMA Pushed ==
  ASSUME NEW S, NEW s \in Seq(S), NEW e \in S, IsInjective(s), e \notin ToSet(s)
  PROVE  /\ <<e>> \o s \in Seq(S) /\ IsInjective(<<e>> \o s)
         /\ ToSet(<<e>> \o s) = ToSet(s) \cup {e}
<1>. DEFINE r == <<e>> \o s
<1>1. /\ Len(s) \in Nat /\ DOMAIN s = 1 .. Len(s)
      /\ r \in Seq(S) /\ Len(r) = Len(s) + 1 /\ DOMAIN r = 1 .. Len(s) + 1
      /\ r[1] = e
      /\ \A i \in 2 .. Len(s) + 1 : r[i] = s[i - 1]
  OBVIOUS
<1>. HIDE DEF r
<1>2. \A i \in 2 .. Len(s) + 1 : i - 1 \in 1 .. Len(s) /\ r[i] \in ToSet(s) /\ r[i] # r[1]
  BY <1>1 DEF ToSet
<1>3. IsInjective(r)
  <2>. SUFFICES ASSUME NEW i \in 1 .. Len(s) + 1, NEW j \in 1 .. Len(s) + 1, r[i] = r[j]
                PROVE  i = j
    BY <1>1 DEF IsInjective
  <2>1. CASE i = 1 \/ j = 1
    BY <2>1, <1>1, <1>2
  <2>2. CASE i \in 2 .. Len(s) + 1 /\ j \in 2 .. Len(s) + 1
    <3>1. s[i - 1] = s[j - 1] /\ i - 1 \in 1 .. Len(s) /\ j - 1 \in 1 .. Len(s)
      BY <2>2, <1>1
    <3>2. i - 1 = j - 1
      BY <3>1, <1>1 DEF IsInjective
    <3>. QED
      BY <3>2, <1>1
  <2>. QED
    BY <2>1, <2>2, <1>1
<1>4. ASSUME NEW x PROVE x \in ToSet(r) <=> x \in ToSet(s) \cup {e}
  <2>1. ASSUME x \in ToSet(r) PROVE x \in ToSet(s) \cup {e}
    <3>1. PICK i \in 1 .. Len(s) + 1 : x = r[i]
      BY <2>1, <1>1 DEF ToSet
    <3>. QED
      BY <3>1, <1>1, <1>2
  <2>2. ASSUME x \in ToSet(s) PROVE x \in ToSet(r)
    <3>1. PICK i \in 1 .. Len(s) : x = s[i]
      BY <2>2, <1>1 DEF ToSet
    <3>2. i + 1 \in 2 .. Len(s) + 1 /\ r[i + 1] = s[i]
      BY <1>1
    <3>. QED
      BY <3>1, <3>2, <1>1 DEF ToSet
  <2>3. e \in ToSet(r)
    BY <1>1 DEF ToSet
  <2>. QED
    BY <2>1, <2>2, <2>3
<1>. QED
  BY <1>1, <1>3, <1>4 DEF r

LEMMA FrameType ==
  /\ Registers \in RegisterValues
  /\ Registers.own = NULL /\ Registers.sreg = NULL /\ Registers.block = NULL
  /\ Registers.next = NULL /\ Registers.prev = NULL
  /\ \A t \in Thread : Own(t) \in RegisterValues /\ Own(t).own = t /\ Own(t).block = NULL
  /\ \A p \in Place, r \in RegisterValues :
       Frame(p, r) \in Frames /\ Frame(p, r).ret = p /\ Frame(p, r).saved = r
  /\ \A p \in Place : Address(p) \in Frames /\ Address(p).ret = p /\ Address(p).saved = Registers
  /\ \A f \in Code, x \in Spot : <<f, x>> \in Place /\ <<f, x>>[1] = f /\ <<f, x>>[2] = x
  /\ \A f \in Frames : f.ret \in Place /\ f.saved \in RegisterValues
<1>1. /\ Registers \in RegisterValues
      /\ Registers.own = NULL /\ Registers.sreg = NULL /\ Registers.block = NULL
      /\ Registers.next = NULL /\ Registers.prev = NULL
  BY DEF Registers, RegisterValues
<1>2. \A t \in Thread : Own(t) \in RegisterValues /\ Own(t).own = t /\ Own(t).block = NULL
  BY <1>1 DEF RegisterValues, Own
<1>3. \A p \in Place, r \in RegisterValues :
        Frame(p, r) \in Frames /\ Frame(p, r).ret = p /\ Frame(p, r).saved = r
  BY DEF Frame, Frames
<1>4. \A p \in Place : Address(p) \in Frames /\ Address(p).ret = p /\ Address(p).saved = Registers
  BY <1>1, <1>3 DEF Address
<1>5. \A f \in Code, x \in Spot : <<f, x>> \in Place /\ <<f, x>>[1] = f /\ <<f, x>>[2] = x
  BY DEF Place
<1>6. \A f \in Frames : f.ret \in Place /\ f.saved \in RegisterValues
  BY DEF Frames
<1>. QED
  BY <1>1, <1>2, <1>3, <1>4, <1>5, <1>6

LEMMA BaseType ==
  ASSUME NEW t \in Thread
  PROVE  /\ Base(t) \in Seq(Frames)
         /\ t = osIdleTask => Base(t) = << >> /\ Len(Base(t)) = 0
         /\ t # osIdleTask => /\ Base(t) # << >> /\ Len(Base(t)) = 1
                              /\ Front(Base(t)) = << >> /\ Last(Base(t)) = Address(<<"exit", "cli">>)
<1>1. Address(<<"exit", "cli">>) \in Frames
  <2>1. <<"exit", "cli">> \in Place
    BY DEF Place, Code, Spot
  <2>. QED BY <2>1, FrameType
<1>2. << >> \in Seq(Frames) /\ Len(<< >>) = 0
  OBVIOUS
<1>. DEFINE e == Address(<<"exit", "cli">>)
            empty == << >>
<1>3. /\ Append(empty, e) \in Seq(Frames) /\ Append(empty, e) # << >>
      /\ Len(Append(empty, e)) = Len(empty) + 1
      /\ Last(Append(empty, e)) = e /\ Front(Append(empty, e)) = empty
  <2>. HIDE DEF e, empty
  <2>. QED BY <1>1, <1>2, Pushing DEF e, empty
<1>. HIDE DEF e
<1>. QED
  BY <1>2, <1>3 DEF Base, e

----------------------------------------------------------------------------
\* Where it is, a thread runs its own code, the handler, or a function
\* that the handler has called.
LEMMA Here ==
  ASSUME IInv, pc[1] # "switch"
  PROVE  /\ SP = osCurrentTask /\ kept.own = SP
         /\ pc[1] = "main" => InMain(SP, pc, kept, scratch, stack[SP], hands[SP])
         /\ pc[1] = "start" => InStart(SP, pc, kept, scratch, stack[SP], hands[SP])
         /\ pc[1] = "body" => InBody(SP, pc, kept, scratch, stack[SP], hands[SP]) /\ I
         /\ pc[1] = "exit" => InExit(SP, pc, kept, scratch, stack[SP], hands[SP])
         /\ pc[1] = "handler" => InHandler(SP, pc, kept, scratch, stack[SP], hands[SP])
         /\ pc[1] \in Functions =>
              \/ /\ InCall(SP, pc, kept, scratch, stack[SP], hands[SP]) /\ ~ByHandler
                 /\ I <=> pc[2] \in {"save", "cli", "ret"}
              \/ /\ InHandlerCall(SP, pc, kept, scratch, stack[SP], hands[SP]) /\ ByHandler
                 /\ ~I
<1>. DEFINE s == stack[SP]
<1>1. /\ SP = osCurrentTask /\ Continues(SP, pc, kept, scratch, s, hands[SP])
      /\ I <=> (Enabled(pc) /\ ~ByHandler)
  BY DEF IInv, Running
<1>2. InHandler(SP, pc, kept, scratch, s, hands[SP]) \/ InHandlerCall(SP, pc, kept, scratch, s, hands[SP])
        => kept.own = SP
  BY DEF InHandler, InHandlerCall, Interrupted, OwnCode
<1>3. /\ <<"handler", "called">> \in Place /\ <<"exit", "cli">> \in Place
      /\ \A f \in Functions : <<"body", Result[f]>> \in Place
  BY DEF Place, Code, Spot, Result, Functions
<1>4. InHandlerCall(SP, pc, kept, scratch, s, hands[SP]) => ByHandler
  <2>1. Address(<<"handler", "called">>).ret = <<"handler", "called">>
    BY <1>3, FrameType
  <2>. QED BY <2>1 DEF InHandlerCall, ByHandler
<1>5. pc[1] \in Functions /\ InCall(SP, pc, kept, scratch, s, hands[SP]) => ~ByHandler
  <2>1. pc[1] \in Functions => Address(<<"body", Result[pc[1]]>>).ret = <<"body", Result[pc[1]]>>
    BY <1>3, FrameType
  <2>. QED BY <2>1 DEF InCall, ByHandler
<1>6. pc[1] = "body" /\ InBody(SP, pc, kept, scratch, s, hands[SP]) => ~ByHandler
  <2>1. Address(<<"exit", "cli">>).ret = <<"exit", "cli">>
    BY <1>3, FrameType
  <2>2. SP \in Thread
    BY DEF IInv, Typed
  <2>. QED BY <2>1, <2>2, BaseType DEF InBody, ByHandler
<1>. HIDE DEF s
<1>7. pc[1] \in {"main", "start", "body", "exit", "handler"} \cup Functions
  BY <1>1 DEF Continues, OwnCode, InHandler, InHandlerCall, Functions
<1>8. pc[1] \notin {"handler"} \cup Functions => OwnCode(SP, pc, kept, scratch, s, hands[SP])
  BY <1>1 DEF Continues, InHandler, InHandlerCall, Functions
<1>9. pc[1] = "handler" => InHandler(SP, pc, kept, scratch, s, hands[SP])
  BY <1>1 DEF Continues, OwnCode, InHandlerCall, Functions
<1>10. pc[1] \in Functions => \/ InCall(SP, pc, kept, scratch, s, hands[SP]) /\ kept.own = SP
                              \/ InHandlerCall(SP, pc, kept, scratch, s, hands[SP])
  BY <1>1 DEF Continues, InHandler, OwnCode, Functions
<1>11. pc[1] \in Functions => (I <=> pc[2] \in {"save", "cli", "ret"} /\ ~ByHandler)
  BY <1>1 DEF Enabled, Functions
<1>12. pc[1] = "body" => (I <=> ~ByHandler)
  BY <1>1 DEF Enabled, Functions
<1>. HIDE DEF InMain, InStart, InBody, InExit, InHandler, InCall, InHandlerCall, ByHandler
<1>13. pc[1] \notin {"handler"} \cup Functions => 
         /\ kept.own = SP
         /\ pc[1] = "main" => InMain(SP, pc, kept, scratch, s, hands[SP])
         /\ pc[1] = "start" => InStart(SP, pc, kept, scratch, s, hands[SP])
         /\ pc[1] = "body" => InBody(SP, pc, kept, scratch, s, hands[SP])
         /\ pc[1] = "exit" => InExit(SP, pc, kept, scratch, s, hands[SP])
  BY <1>8 DEF OwnCode
<1>14. kept.own = SP
  BY <1>2, <1>9, <1>10, <1>13
<1>15. pc[1] \in Functions => pc[1] \notin {"main", "start", "body", "exit", "handler"}
  BY DEF Functions
<1>. QED
  BY <1>1, <1>4, <1>5, <1>6, <1>9, <1>10, <1>11, <1>12, <1>13, <1>14, <1>15 DEF s

\* A step of the current thread that concerns no other thread.
LEMMA Quiet ==
  ASSUME IInv, pc[1] # "switch", pc'[1] # "switch",
         SP' = SP, osCurrentTask' = osCurrentTask, sp' = sp, life' = life,
         \A t \in Thread \ {SP} : stack'[t] = stack[t] /\ hands'[t] = hands[t],
         Creating(SP)' \in {NULL, Creating(SP)}
  PROVE  Switching' /\ Waiting' /\ Lives'
<1>1. SP = osCurrentTask /\ SP \in Thread /\ life[SP] = "ALIVE"
  BY DEF IInv, Typed, Running, Lives
<1>2. Switching'
  BY DEF Switching
<1>3. Waiting'
  <2>. SUFFICES ASSUME NEW t \in Thread, life[t] = "ALIVE", t # SP
                PROVE  Suspended(t)'
    BY <1>1 DEF Waiting
  <2>1. Suspended(t)
    BY <1>1 DEF IInv, Waiting
  <2>. QED BY <2>1 DEF Suspended
<1>4. \A t \in Thread \ {SP} : Creating(t)' = Creating(t)
  BY DEF Creating
<1>5. Lives'
  <2>1. \A t \in Thread : life[t] # "ALIVE" => t # SP
    BY <1>1
  <2>2. \A t \in Thread : Creating(t)' \in {NULL, Creating(t)}
    BY <1>1, <1>4
  <2>3. Lives
    BY DEF IInv
  <2>. HIDE DEF Creating
  <2>4. \A t \in Thread : Creating(t)' # NULL => life'[Creating(t)'] = "SETUP"
    BY <2>2, <2>3 DEF Lives
  <2>5. \A t, u \in Thread : Creating(t)' # NULL /\ Creating(t)' = Creating(u)' => t = u
    BY <2>2, <2>3 DEF Lives
  <2>6. \A t \in Thread : life'[t] # "ALIVE" => hands'[t] = NULL /\ stack'[t] = stack[t]
    BY <2>1, <2>3 DEF Lives
  <2>. QED BY <2>3, <2>4, <2>5, <2>6 DEF Lives
<1>. QED
  BY <1>2, <1>3, <1>5

----------------------------------------------------------------------------
LEMMA OwnContinues ==
  ASSUME NEW t, NEW p, NEW kp, NEW sc, NEW s, NEW h, kp.own = t,
         \/ p[1] = "main" /\ InMain(t, p, kp, sc, s, h)
         \/ p[1] = "start" /\ InStart(t, p, kp, sc, s, h)
         \/ p[1] = "body" /\ InBody(t, p, kp, sc, s, h)
         \/ p[1] = "exit" /\ InExit(t, p, kp, sc, s, h)
         \/ p[1] \in Functions /\ InCall(t, p, kp, sc, s, h)
  PROVE  OwnCode(t, p, kp, sc, s, h) /\ Continues(t, p, kp, sc, s, h)
<1>1. OwnCode(t, p, kp, sc, s, h)
  <2>. HIDE DEF InMain, InStart, InBody, InExit, InCall
  <2>. QED BY DEF OwnCode, Functions
<1>. QED BY <1>1 DEF Continues

\* Nothing a thread runs of its own has been called by the handler.
LEMMA OwnTop ==
  ASSUME NEW t \in Thread, NEW p, NEW kp, NEW sc, NEW s, NEW h, OwnCode(t, p, kp, sc, s, h)
  PROVE  ~(s # << >> /\ Last(s).ret[1] = "handler")
<1>1. Address(<<"exit", "cli">>).ret = <<"exit", "cli">> /\ Address(<<"body", "entry">>).ret = <<"body", "entry">>
  <2>1. <<"exit", "cli">> \in Place /\ <<"body", "entry">> \in Place
    BY DEF Place, Code, Spot
  <2>. QED BY <2>1, FrameType
<1>2. \A f \in Functions : Address(<<"body", Result[f]>>).ret = <<"body", Result[f]>>
  <2>1. \A f \in Functions : <<"body", Result[f]>> \in Place
    BY DEF Place, Code, Spot, Result, Functions
  <2>. QED BY <2>1, FrameType
<1>3. CASE p[1] = "main"
  BY <1>3 DEF OwnCode, InMain
<1>4. CASE p[1] = "start"
  BY <1>1, <1>4 DEF OwnCode, InStart
<1>5. CASE p[1] = "body"
  BY <1>1, <1>5, BaseType DEF OwnCode, InBody
<1>6. CASE p[1] = "exit"
  BY <1>6 DEF OwnCode, InExit
<1>7. CASE p[1] \in Functions
  BY <1>2, <1>7 DEF OwnCode, InCall
<1>. QED BY <1>3, <1>4, <1>5, <1>6, <1>7 DEF OwnCode

\* A step of the current thread, on its own stack.
LEMMA Local ==
  ASSUME IInv, pc[1] # "switch", pc' \in Place, pc'[1] # "switch",
         SP' = SP, UNCHANGED taskVars,
         kept' \in RegisterValues, scratch' \in RegisterValues, I' \in BOOLEAN,
         NEW s \in Seq(Frames), stack' = [stack EXCEPT ![SP] = s],
         hands' \in [User -> Block \cup {NULL}], \A t \in Thread \ {SP} : hands'[t] = hands[t],
         Continues(SP, pc', kept', scratch', s, hands'[SP]),
         I' <=> (Enabled(pc') /\ ~(s # << >> /\ Last(s).ret[1] = "handler")),
         Creating(SP)' \in {NULL, Creating(SP)},
         PoolInv'
  PROVE  IInv'
<1>1. SP \in Thread /\ SP = osCurrentTask /\ stack \in [Thread -> Seq(Frames)]
  BY DEF IInv, Typed, Running
<1>2. /\ stack' \in [Thread -> Seq(Frames)] /\ stack'[SP] = s
      /\ \A t \in Thread \ {SP} : stack'[t] = stack[t]
  BY <1>1
<1>3. Typed'
  BY <1>1, <1>2 DEF IInv, Typed, taskVars
<1>4. Running'
  BY <1>1, <1>2 DEF Running, ByHandler, taskVars
<1>5. Switching' /\ Waiting' /\ Lives'
  BY <1>2, Quiet DEF taskVars
<1>. QED BY <1>3, <1>4, <1>5 DEF IInv

\* The same on a stack that is left as it is.
LEMMA Inside ==
  ASSUME IInv, pc[1] # "switch", pc' \in Place, pc'[1] # "switch",
         UNCHANGED <<SP, stack, taskVars>>,
         kept' \in RegisterValues, scratch' \in RegisterValues, I' \in BOOLEAN,
         hands' \in [User -> Block \cup {NULL}], \A t \in Thread \ {SP} : hands'[t] = hands[t],
         Continues(SP, pc', kept', scratch', stack[SP], hands'[SP]),
         I' <=> (Enabled(pc') /\ ~ByHandler),
         pc'[1] = "create" <=> pc[1] = "create",
         pc'[1] = "create" /\ pc'[2] \in {"save", "cli", "ready"} =>
           pc[2] \in {"save", "cli", "ready"} /\ scratch'.next = scratch.next,
         PoolInv'
  PROVE  IInv'
<1>1. SP \in Thread /\ stack \in [Thread -> Seq(Frames)] /\ stack[SP] \in Seq(Frames)
  BY DEF IInv, Typed
<1>2. stack' = [stack EXCEPT ![SP] = stack[SP]] /\ stack' = stack /\ SP' = SP /\ UNCHANGED taskVars
  BY <1>1
<1>3. Creating(SP)' \in {NULL, Creating(SP)}
  <2>1. CASE pc[1] = "create"
    BY <1>2, <2>1 DEF Creating
  <2>2. CASE pc[1] # "create"
    BY <1>2, <2>2 DEF Creating
  <2>. QED BY <2>1, <2>2
<1>4. I' <=> (Enabled(pc') /\ ~(stack[SP] # << >> /\ Last(stack[SP]).ret[1] = "handler"))
  BY DEF ByHandler
<1>. HIDE DEF PoolInv, IInv, Continues, Enabled, Creating, taskVars
<1>. QED BY <1>1, <1>2, <1>3, <1>4, Local

LEMMA PoolKept ==
  ASSUME PoolInv, UNCHANGED poolVars,
         pc'[1] \in {"alloc", "free"} /\ pc'[2] \notin {"restore", "ret"} =>
           /\ pc'[2] \notin {"next", "head"}
           /\ ByHandler' =>
                /\ pc'[1] = "alloc" => hands[handler] = NULL
                /\ pc'[1] = "free" => scratch'.block = hands[handler] /\ scratch'.block # NULL
  PROVE  PoolInv'
<1>1. pc' # <<"alloc", "next">> /\ pc' # <<"free", "head">>
  OBVIOUS
<1>2. \E list \in Seq(Block) : IsFreeList(list)' /\ \A u \in User : hands'[u] \notin ToSet(list)
  BY DEF PoolInv, IsFreeList, poolVars
<1>. QED BY <1>1, <1>2 DEF PoolInv, poolVars

----------------------------------------------------------------------------
\* Critical sections.
LEMMA InFunction ==
  ASSUME IInv, NEW f \in Functions, pc[1] = f
  PROVE  /\ pc \in Place /\ SP \in Thread /\ SP = osCurrentTask /\ kept.own = SP
         /\ kept \in RegisterValues /\ scratch \in RegisterValues /\ I \in BOOLEAN
         /\ hands \in [User -> Block \cup {NULL}] /\ stack[SP] \in Seq(Frames)
         /\ PoolInv
         /\ \/ /\ InCall(SP, pc, kept, scratch, stack[SP], hands[SP]) /\ ~ByHandler
               /\ I <=> pc[2] \in {"save", "cli", "ret"}
            \/ /\ InHandlerCall(SP, pc, kept, scratch, stack[SP], hands[SP]) /\ ByHandler
               /\ ~I
<1>1. pc[1] # "switch"
  BY DEF Functions
<1>2. /\ pc \in Place /\ SP \in Thread /\ kept \in RegisterValues /\ scratch \in RegisterValues /\ I \in BOOLEAN
      /\ hands \in [User -> Block \cup {NULL}] /\ stack[SP] \in Seq(Frames) /\ PoolInv
  BY DEF IInv, Typed
<1>. HIDE DEF InCall, InHandlerCall
<1>. QED BY <1>1, <1>2, Here

LEMMA SaveStateIInv ==
  ASSUME IInv, NEW f \in Functions, SaveState(f)
  PROVE  IInv'
<1>1. /\ pc = <<f, "save">> /\ pc' = <<f, "cli">>
      /\ IF f \in Schedules
         THEN kept' = [kept EXCEPT !.sreg = I] /\ scratch' = scratch
         ELSE scratch' = [scratch EXCEPT !.sreg = I] /\ kept' = kept
      /\ I' = I /\ UNCHANGED <<SP, stack, taskVars, poolVars>>
  BY DEF SaveState, At
<1>2. pc[1] = f /\ pc[2] = "save" /\ pc'[1] = f /\ pc'[2] = "cli" /\ pc' \in Place /\ pc'[1] # "switch" /\ pc[1] # "switch"
  BY <1>1 DEF Place, Code, Spot, Functions
<1>3. /\ SP \in Thread /\ kept.own = SP
      /\ kept \in RegisterValues /\ scratch \in RegisterValues /\ I \in BOOLEAN
      /\ hands \in [User -> Block \cup {NULL}] /\ PoolInv
      /\ \/ InCall(SP, pc, kept, scratch, stack[SP], hands[SP]) /\ ~ByHandler /\ I = TRUE
         \/ InHandlerCall(SP, pc, kept, scratch, stack[SP], hands[SP]) /\ ByHandler /\ I = FALSE
  <2>. HIDE DEF InCall, InHandlerCall
  <2>. QED BY <1>2, InFunction
<1>4. /\ kept' \in RegisterValues /\ scratch' \in RegisterValues
      /\ kept'.own = kept.own /\ kept'.block = kept.block
      /\ scratch'.block = scratch.block /\ scratch'.next = scratch.next
      /\ f \in Schedules => kept'.sreg = I
      /\ f \notin Schedules => scratch'.sreg = I /\ kept' = kept
  BY <1>1, <1>3 DEF RegisterValues
<1>5. Continues(SP, pc', kept', scratch', stack[SP], hands'[SP])
      /\ (I' <=> (Enabled(pc') /\ ~ByHandler))
  <2>1. CASE InCall(SP, pc, kept, scratch, stack[SP], hands[SP]) /\ ~ByHandler /\ I = TRUE
    <3>1. InCall(SP, pc', kept', scratch', stack[SP], hands[SP])
      BY <1>2, <1>4, <2>1 DEF InCall
    <3>. QED BY <1>1, <1>2, <1>3, <1>4, <2>1, <3>1, OwnContinues DEF Enabled, poolVars
  <2>2. CASE InHandlerCall(SP, pc, kept, scratch, stack[SP], hands[SP]) /\ ByHandler /\ I = FALSE
    <3>1. f \notin Schedules /\ f \in {"alloc", "free"}
      BY <1>2, <2>2 DEF InHandlerCall, Schedules
    <3>2. InHandlerCall(SP, pc', kept', scratch', stack[SP], hands[SP])
      BY <1>2, <1>4, <2>2, <3>1 DEF InHandlerCall
    <3>. QED BY <1>1, <2>2, <3>2 DEF Continues, poolVars
  <2>. QED BY <1>3, <2>1, <2>2
<1>6. PoolInv'
  <2>1. ByHandler' = ByHandler
    BY <1>1 DEF ByHandler
  <2>2. ByHandler => /\ f = "alloc" => hands[handler] = NULL
                     /\ f = "free" => scratch'.block = hands[handler] /\ scratch'.block # NULL
    BY <1>2, <1>3, <1>4 DEF PoolInv
  <2>. HIDE DEF ByHandler
  <2>. QED BY <1>1, <1>2, <1>3, <2>1, <2>2, PoolKept
<1>. QED
  <2>. HIDE DEF PoolInv, IInv, Continues, Enabled, InCall, InHandlerCall, ByHandler
  <2>. QED BY <1>1, <1>2, <1>3, <1>4, <1>5, <1>6, Inside DEF poolVars

LEMMA DisableIInv ==
  ASSUME IInv, NEW f \in Functions, Disable(f)
  PROVE  IInv'
<1>1. /\ pc = <<f, "cli">> /\ pc' = <<f, Critical[f]>>
      /\ I' = FALSE /\ UNCHANGED <<SP, kept, scratch, stack, taskVars, poolVars>>
  BY DEF Disable, At, registers
<1>2. /\ pc[1] = f /\ pc[2] = "cli" /\ pc'[1] = f /\ pc'[1] # "switch" /\ pc[1] # "switch"
      /\ pc'[2] = Critical[f]
      /\ f = "alloc" => pc'[2] = "load"
      /\ f = "free" => pc'[2] = "link"
      /\ f = "yield" => pc'[2] = "schedule"
      /\ f = "create" => pc'[2] = "ready"
  BY <1>1 DEF Functions, Critical
<1>. HIDE DEF Critical
<1>3. pc' \in Place
  BY <1>1, <1>2 DEF Place, Code, Spot, Functions
<1>4. /\ SP \in Thread /\ kept.own = SP
      /\ kept \in RegisterValues /\ scratch \in RegisterValues /\ I \in BOOLEAN
      /\ hands \in [User -> Block \cup {NULL}] /\ PoolInv
      /\ \/ InCall(SP, pc, kept, scratch, stack[SP], hands[SP])
         \/ InHandlerCall(SP, pc, kept, scratch, stack[SP], hands[SP])
  <2>. HIDE DEF InCall, InHandlerCall
  <2>. QED BY <1>2, InFunction
<1>5. Continues(SP, pc', kept', scratch', stack[SP], hands'[SP])
  <2>1. CASE InCall(SP, pc, kept, scratch, stack[SP], hands[SP])
    <3>1. InCall(SP, pc', kept, scratch, stack[SP], hands[SP])
      BY <1>2, <2>1 DEF InCall, Functions
    <3>. QED BY <1>1, <1>2, <1>4, <3>1, OwnContinues DEF poolVars
  <2>2. CASE InHandlerCall(SP, pc, kept, scratch, stack[SP], hands[SP])
    <3>1. InHandlerCall(SP, pc', kept, scratch, stack[SP], hands[SP])
      BY <1>2, <2>2 DEF InHandlerCall
    <3>. QED BY <1>1, <3>1 DEF Continues, poolVars
  <2>. QED BY <1>4, <2>1, <2>2
<1>6. ~Enabled(pc')
  BY <1>2 DEF Enabled, Functions
<1>7. PoolInv'
  <2>1. ByHandler' = ByHandler
    BY <1>1 DEF ByHandler
  <2>2. ByHandler => /\ f = "alloc" => hands[handler] = NULL
                     /\ f = "free" => scratch'.block = hands[handler] /\ scratch'.block # NULL
    BY <1>1, <1>2, <1>4 DEF PoolInv
  <2>. HIDE DEF ByHandler
  <2>. QED BY <1>1, <1>2, <1>4, <2>1, <2>2, PoolKept
<1>. QED
  <2>. HIDE DEF PoolInv, IInv, Continues, Enabled, InCall, InHandlerCall, ByHandler
  <2>. QED BY <1>1, <1>2, <1>3, <1>4, <1>5, <1>6, <1>7, Inside DEF poolVars

LEMMA RestoreStateIInv ==
  ASSUME IInv, NEW f \in Functions, RestoreState(f)
  PROVE  IInv'
<1>1. /\ pc = <<f, "restore">> /\ pc' = <<f, "ret">>
      /\ IF f \in Schedules
         THEN I' = kept.sreg /\ kept' = [kept EXCEPT !.sreg = NULL] /\ scratch' = scratch
         ELSE I' = scratch.sreg /\ scratch' = [scratch EXCEPT !.sreg = NULL] /\ kept' = kept
      /\ UNCHANGED <<SP, stack, taskVars, poolVars>>
  BY DEF RestoreState, At
<1>2. pc[1] = f /\ pc[2] = "restore" /\ pc'[1] = f /\ pc'[2] = "ret" /\ pc' \in Place /\ pc'[1] # "switch" /\ pc[1] # "switch"
  BY <1>1 DEF Place, Code, Spot, Functions
<1>3. /\ SP \in Thread /\ kept.own = SP
      /\ kept \in RegisterValues /\ scratch \in RegisterValues /\ I \in BOOLEAN
      /\ hands \in [User -> Block \cup {NULL}] /\ PoolInv
      /\ \/ InCall(SP, pc, kept, scratch, stack[SP], hands[SP]) /\ ~ByHandler
         \/ InHandlerCall(SP, pc, kept, scratch, stack[SP], hands[SP]) /\ ByHandler
  <2>. HIDE DEF InCall, InHandlerCall
  <2>. QED BY <1>2, InFunction
<1>4. /\ kept' \in RegisterValues /\ scratch' \in RegisterValues
      /\ kept'.own = kept.own /\ kept'.block = kept.block
      /\ scratch'.block = scratch.block /\ scratch'.next = scratch.next
      /\ f \notin Schedules => kept' = kept
  BY <1>1, <1>3 DEF RegisterValues
<1>5. Continues(SP, pc', kept', scratch', stack[SP], hands'[SP])
      /\ I' \in BOOLEAN /\ (I' <=> (Enabled(pc') /\ ~ByHandler))
  <2>1. CASE InCall(SP, pc, kept, scratch, stack[SP], hands[SP]) /\ ~ByHandler
    <3>1. InCall(SP, pc', kept', scratch', stack[SP], hands[SP]) /\ I' = TRUE
      BY <1>1, <1>2, <1>4, <2>1 DEF InCall
    <3>. QED BY <1>1, <1>2, <1>3, <1>4, <2>1, <3>1, OwnContinues DEF Enabled, poolVars
  <2>2. CASE InHandlerCall(SP, pc, kept, scratch, stack[SP], hands[SP]) /\ ByHandler
    <3>1. f \notin Schedules /\ f \in {"alloc", "free"}
      BY <1>2, <2>2 DEF InHandlerCall, Schedules
    <3>2. InHandlerCall(SP, pc', kept', scratch', stack[SP], hands[SP]) /\ I' = FALSE
      BY <1>1, <1>2, <1>4, <2>2, <3>1 DEF InHandlerCall
    <3>. QED BY <1>1, <2>2, <3>2 DEF Continues, poolVars
  <2>. QED BY <1>3, <2>1, <2>2
<1>6. PoolInv'
  BY <1>1, <1>2, <1>3, PoolKept
<1>. QED
  <2>. HIDE DEF PoolInv, IInv, Continues, Enabled, InCall, InHandlerCall, ByHandler
  <2>. QED BY <1>1, <1>2, <1>3, <1>4, <1>5, <1>6, Inside DEF poolVars

----------------------------------------------------------------------------
\* Calls and returns leave the task that is being created the same.
LEMMA CreatingType ==
  ASSUME IInv, NEW t \in Thread
  PROVE  Creating(t) \in Thread \cup {NULL}
<1>1. stack[t] \in Seq(Frames) /\ scratch \in RegisterValues
  BY DEF IInv, Typed
<1>2. scratch.next \in Thread \cup {NULL}
  BY <1>1 DEF RegisterValues
<1>3. Len(stack[t]) >= 3 => stack[t][3] \in Frames
  BY <1>1
<1>4. Len(stack[t]) >= 3 => stack[t][3].saved.next \in Thread \cup {NULL}
  BY <1>3 DEF Frames, RegisterValues
<1>. QED BY <1>2, <1>4 DEF Creating

LEMMA CreatingLess ==
  ASSUME IInv, SP' = SP, stack' = [stack EXCEPT ![SP] = Front(@)], stack[SP] # << >>,
         pc'[1] # "create", pc[1] = "create" => Len(stack[SP]) <= 2
  PROVE  Creating(SP)' \in {NULL, Creating(SP)}
<1>1. SP \in Thread /\ stack \in [Thread -> Seq(Frames)] /\ stack[SP] \in Seq(Frames)
  BY DEF IInv, Typed
<1>. DEFINE s == stack[SP]
            r == Front(s)
<1>2. /\ Len(s) \in Nat \ {0} /\ Len(r) = Len(s) - 1
      /\ \A i \in 1 .. Len(s) - 1 : r[i] = s[i]
  BY <1>1, Popping
<1>3. stack'[SP] = r
  BY <1>1
<1>. HIDE DEF r, s
<1>4. CASE Len(s) <= 3
  <2>1. ~(Len(r) >= 3)
    BY <1>2, <1>4
  <2>. QED BY <1>3, <2>1 DEF Creating
<1>5. CASE Len(s) > 3
  <2>1. Len(r) >= 3 /\ Len(s) >= 3 /\ r[3] = s[3] /\ ~(Len(s) <= 2)
    BY <1>2, <1>5
  <2>. QED BY <1>3, <2>1 DEF Creating, s
<1>. QED BY <1>2, <1>4, <1>5

LEMMA CreatingMore ==
  ASSUME IInv, SP' = SP, NEW e \in Frames, stack' = [stack EXCEPT ![SP] = Append(@, e)],
         pc'[1] # "create",
         pc[1] = "create" => Len(stack[SP]) = 2,
         e.ret[1] = "create" /\ e.ret[2] \in {"save", "cli"} => e.ret = pc /\ e.saved = scratch
  PROVE  Creating(SP)' \in {NULL, Creating(SP)}
<1>1. SP \in Thread /\ stack \in [Thread -> Seq(Frames)] /\ stack[SP] \in Seq(Frames)
  BY DEF IInv, Typed
<1>. DEFINE s == stack[SP]
            r == Append(s, e)
<1>2. /\ Len(s) \in Nat /\ Len(r) = Len(s) + 1 /\ r[Len(s) + 1] = e
      /\ \A i \in 1 .. Len(s) : r[i] = s[i]
  BY <1>1
<1>3. stack'[SP] = r
  BY <1>1
<1>. HIDE DEF r, s
<1>4. CASE Len(s) < 2
  <2>1. ~(Len(r) >= 3)
    BY <1>2, <1>4
  <2>. QED BY <1>3, <2>1 DEF Creating
<1>5. CASE Len(s) = 2
  <2>1. r[3] = e
    BY <1>2, <1>5
  <2>2. CASE e.ret[1] = "create" /\ e.ret[2] \in {"save", "cli"}
    BY <1>3, <2>1, <2>2 DEF Creating
  <2>3. CASE ~(e.ret[1] = "create" /\ e.ret[2] \in {"save", "cli"})
    BY <1>3, <2>1, <2>3 DEF Creating
  <2>. QED BY <2>2, <2>3
<1>6. CASE Len(s) > 2
  <2>1. Len(r) >= 3 /\ Len(s) >= 3 /\ r[3] = s[3] /\ Len(s) # 2
    BY <1>2, <1>6
  <2>. QED BY <1>3, <2>1 DEF Creating, s
<1>7. Len(s) < 2 \/ Len(s) = 2 \/ Len(s) > 2
  <2>1. \A n \in Nat : n < 2 \/ n = 2 \/ n > 2
    OBVIOUS
  <2>. QED BY <1>2, <2>1
<1>. QED BY <1>4, <1>5, <1>6, <1>7

LEMMA FunctionReturnsIInv ==
  ASSUME IInv, NEW f \in Functions, FunctionReturns(f)
  PROVE  IInv'
<1>. DEFINE s == stack[SP]
            h == hands[SP]
<1>1. /\ pc = <<f, "ret">> /\ pc' = Last(s).ret /\ stack' = [stack EXCEPT ![SP] = Front(s)]
      /\ UNCHANGED <<I, SP, kept, scratch, taskVars, poolVars>>
  BY DEF FunctionReturns, Return, registers
<1>2. pc[1] = f /\ pc[2] = "ret" /\ pc[1] # "switch"
  BY <1>1 DEF Functions
<1>. HIDE DEF h
<1>3. /\ SP \in Thread /\ kept.own = SP
      /\ kept \in RegisterValues /\ scratch \in RegisterValues /\ I \in BOOLEAN
      /\ hands \in [User -> Block \cup {NULL}] /\ s \in Seq(Frames) /\ PoolInv
      /\ \/ InCall(SP, pc, kept, scratch, s, h) /\ I = TRUE
         \/ InHandlerCall(SP, pc, kept, scratch, s, h) /\ I = FALSE
  <2>. HIDE DEF InCall, InHandlerCall
  <2>. QED BY <1>2, InFunction DEF h
<1>4. s # << >> /\ Front(s) \in Seq(Frames) /\ Len(s) = Len(Front(s)) + 1 /\ Len(s) \in Nat
  <2>1. s # << >>
    BY <1>3 DEF InCall, InHandlerCall
  <2>. HIDE DEF s
  <2>. QED BY <1>3, <2>1, Popping
<1>. HIDE DEF s
<1>5. CASE InCall(SP, pc, kept, scratch, s, h) /\ I = TRUE
  <2>1. /\ SP # osIdleTask /\ Front(s) = Base(SP) /\ Last(s) = Address(<<"body", Result[f]>>)
        /\ f \in Schedules => h = kept.block
        /\ f = "alloc" => h = scratch.block
        /\ f = "free" => h = NULL
    BY <1>2, <1>5 DEF InCall
  <2>2. /\ f \in Schedules <=> f \in {"yield", "create"}
        /\ f = "alloc" => Result[f] = "allocated"
        /\ f = "free" => Result[f] = "freed"
        /\ f = "yield" => Result[f] = "called"
        /\ f = "create" => Result[f] = "called"
        /\ f \in {"alloc", "free", "yield", "create"}
    BY DEF Schedules, Result, Functions
  <2>. HIDE DEF Result
  <2>3. pc' = <<"body", Result[f]>> /\ pc' \in Place
    <3>1. <<"body", Result[f]>> \in Place
      BY <2>2 DEF Place, Code, Spot
    <3>. QED BY <1>1, <2>1, <3>1, FrameType
  <2>4. pc'[1] = "body" /\ pc'[2] = Result[f]
    BY <2>3
  <2>5. InBody(SP, pc', kept, scratch, Front(s), h)
    BY <2>1, <2>2, <2>4 DEF InBody
  <2>6. Continues(SP, pc', kept, scratch, Front(s), h) /\ OwnCode(SP, pc', kept, scratch, Front(s), h)
    <3>. HIDE DEF InBody, Continues, OwnCode
    <3>. QED BY <1>3, <2>4, <2>5, OwnContinues
  <2>7. ~(Front(s) # << >> /\ Last(Front(s)).ret[1] = "handler")
    BY <1>3, <2>6, OwnTop
  <2>8. Enabled(pc')
    BY <2>4 DEF Enabled
  <2>9. Len(s) = 2
    <3>1. Len(Base(SP)) = 1
      BY <1>3, <2>1, BaseType
    <3>. QED BY <1>4, <2>1, <3>1
  <2>10. Creating(SP)' \in {NULL, Creating(SP)}
    BY <1>1, <1>2, <1>4, <2>4, <2>9, CreatingLess DEF s
  <2>11. PoolInv'
    BY <1>1, <1>3, <2>4, PoolKept
  <2>. HIDE DEF PoolInv, IInv, Continues, OwnCode, Enabled, InBody, Creating
  <2>12. hands' = hands /\ kept' = kept /\ scratch' = scratch /\ I' = I /\ SP' = SP /\ UNCHANGED taskVars /\ h = hands'[SP]
    BY <1>1 DEF poolVars, h
  <2>13. pc'[1] # "switch"
    BY <2>4
  <2>. QED BY <1>1, <1>2, <1>3, <1>4, <1>5, <2>3, <2>6, <2>7, <2>8, <2>10, <2>11, <2>12, <2>13, Local DEF s
<1>6. CASE InHandlerCall(SP, pc, kept, scratch, s, h) /\ I = FALSE
  <2>1. Last(s) = Address(<<"handler", "called">>) /\ Interrupted(SP, kept, Front(s), h) /\ f \in {"alloc", "free"}
    BY <1>2, <1>6 DEF InHandlerCall
  <2>2. pc' = <<"handler", "called">> /\ pc' \in Place
    <3>1. <<"handler", "called">> \in Place
      BY DEF Place, Code, Spot
    <3>. QED BY <1>1, <2>1, <3>1, FrameType
  <2>3. pc'[1] = "handler" /\ pc'[2] = "called"
    BY <2>2
  <2>4. Continues(SP, pc', kept, scratch, Front(s), h)
    BY <2>1, <2>3 DEF Continues, InHandler
  <2>5. ~Enabled(pc')
    BY <2>3 DEF Enabled, Functions
  <2>6. Creating(SP)' \in {NULL, Creating(SP)}
    BY <1>1, <1>2, <1>4, <2>1, <2>3, CreatingLess DEF s
  <2>7. PoolInv'
    BY <1>1, <1>3, <2>3, PoolKept
  <2>. HIDE DEF PoolInv, IInv, Continues, Enabled, Creating
  <2>8. hands' = hands /\ kept' = kept /\ scratch' = scratch /\ I' = I /\ SP' = SP /\ UNCHANGED taskVars /\ h = hands'[SP]
    BY <1>1 DEF poolVars, h
  <2>9. pc'[1] # "switch"
    BY <2>3
  <2>. QED BY <1>1, <1>2, <1>3, <1>4, <1>6, <2>2, <2>4, <2>5, <2>6, <2>7, <2>8, <2>9, Local DEF s
<1>. QED BY <1>3, <1>5, <1>6

----------------------------------------------------------------------------
\* The list of free blocks.
LEMMA ListTail ==
  ASSUME NEW list \in Seq(Block), IsFreeList(list), free # NULL,
         free' = memory[free], memory' = memory
  PROVE  /\ free \in Block /\ free \in ToSet(list)
         /\ Tail(list) \in Seq(Block) /\ IsFreeList(Tail(list))'
         /\ ToSet(Tail(list)) = ToSet(list) \ {free}
<1>1. list # << >> /\ free = Head(list) /\ IsInjective(list)
  BY DEF IsFreeList
<1>. DEFINE r == Tail(list)
<1>2. /\ Head(list) \in Block /\ r \in Seq(Block) /\ IsInjective(r)
      /\ ToSet(r) = ToSet(list) \ {Head(list)} /\ Head(list) \in ToSet(list)
  BY <1>1, Popped
<1>3. /\ Len(list) \in Nat \ {0} /\ Len(r) = Len(list) - 1 /\ Head(list) = list[1]
      /\ \A i \in 1 .. Len(r) : r[i] = list[i + 1]
  BY <1>1, HeadTailProperties, EmptySeq
<1>4. \A i \in 1 .. Len(list) : memory[list[i]] = IF i = Len(list) THEN NULL ELSE list[i + 1]
  BY DEF IsFreeList
<1>5. r = << >> <=> Len(r) = 0
  BY <1>2, EmptySeq
<1>6. r # << >> => Head(r) = r[1]
  BY <1>2
<1>. HIDE DEF r
<1>7. free' = IF r = << >> THEN NULL ELSE Head(r)
  <2>1. memory[list[1]] = IF 1 = Len(list) THEN NULL ELSE list[1 + 1]
    BY <1>3, <1>4
  <2>2. CASE r = << >>
    <3>1. Len(list) = 1
      BY <1>3, <1>5, <2>2
    <3>. QED BY <1>1, <1>3, <2>1, <2>2, <3>1
  <2>3. CASE r # << >>
    <3>1. Len(list) # 1 /\ 1 \in 1 .. Len(r)
      BY <1>3, <1>5, <2>3
    <3>2. r[1] = list[1 + 1]
      BY <1>3, <3>1
    <3>. QED BY <1>1, <1>3, <1>6, <2>1, <2>3, <3>1, <3>2
  <2>. QED BY <2>2, <2>3
<1>8. ASSUME NEW i \in 1 .. Len(r)
      PROVE  memory[r[i]] = IF i = Len(r) THEN NULL ELSE r[i + 1]
  <2>1. /\ i + 1 \in 1 .. Len(list) /\ r[i] = list[i + 1] /\ i \in Nat
        /\ i = Len(r) <=> i + 1 = Len(list)
    BY <1>3
  <2>2. i # Len(r) => r[i + 1] = list[(i + 1) + 1]
    BY <1>3
  <2>. QED BY <1>4, <2>1, <2>2
<1>9. IsFreeList(r)'
  BY <1>2, <1>7, <1>8 DEF IsFreeList
<1>. QED BY <1>1, <1>2, <1>9 DEF r

LEMMA ListCons ==
  ASSUME NEW list \in Seq(Block), IsFreeList(list), NEW b \in Block \ ToSet(list),
         memory[b] = free, free' = b, memory' = memory
  PROVE  /\ <<b>> \o list \in Seq(Block) /\ IsFreeList(<<b>> \o list)'
         /\ ToSet(<<b>> \o list) = ToSet(list) \cup {b}
<1>. DEFINE r == <<b>> \o list
<1>1. IsInjective(list)
  BY DEF IsFreeList
<1>2. r \in Seq(Block) /\ IsInjective(r) /\ ToSet(r) = ToSet(list) \cup {b}
  BY <1>1, Pushed
<1>3. /\ Len(list) \in Nat /\ Len(r) = Len(list) + 1 /\ r[1] = b /\ r # << >> /\ Head(r) = r[1]
      /\ \A i \in 2 .. Len(r) : r[i] = list[i - 1]
  OBVIOUS
<1>4. /\ list = << >> <=> Len(list) = 0
      /\ list # << >> => Head(list) = list[1]
  BY EmptySeq
<1>5. /\ free = IF list = << >> THEN NULL ELSE Head(list)
      /\ \A i \in 1 .. Len(list) : memory[list[i]] = IF i = Len(list) THEN NULL ELSE list[i + 1]
  BY DEF IsFreeList
<1>. HIDE DEF r
<1>6. ASSUME NEW i \in 1 .. Len(r)
      PROVE  memory[r[i]] = IF i = Len(r) THEN NULL ELSE r[i + 1]
  <2>1. CASE i = 1
    <3>1. CASE list = << >>
      BY <1>3, <1>4, <1>5, <2>1, <3>1
    <3>2. CASE list # << >>
      <4>1. 2 \in 2 .. Len(r) /\ 1 # Len(r)
        BY <1>3, <1>4, <3>2
      <4>2. r[2] = list[1]
        BY <1>3, <4>1
      <4>. QED BY <1>3, <1>4, <1>5, <2>1, <3>2, <4>1, <4>2
    <3>. QED BY <3>1, <3>2
  <2>2. CASE i # 1
    <3>1. /\ i \in 2 .. Len(r) /\ i - 1 \in 1 .. Len(list) /\ r[i] = list[i - 1]
          /\ i - 1 = Len(list) <=> i = Len(r)
          /\ (i - 1) + 1 = i
      BY <1>3, <2>2
    <3>2. i # Len(r) => r[i + 1] = list[i]
      BY <1>3, <2>2
    <3>3. memory[list[i - 1]] = IF i - 1 = Len(list) THEN NULL ELSE list[(i - 1) + 1]
      BY <1>5, <3>1
    <3>. QED BY <3>1, <3>2, <3>3
  <2>. QED BY <2>1, <2>2
<1>7. IsFreeList(r)'
  BY <1>2, <1>3, <1>6 DEF IsFreeList
<1>. QED BY <1>2, <1>7 DEF r

\* Whoever writes to a block that is not on the list does not harm it.
LEMMA ListWrite ==
  ASSUME NEW list \in Seq(Block), IsFreeList(list), NEW b \in Block \ ToSet(list), NEW value,
         memory = [x \in Block |-> memory[x]],
         memory' = [memory EXCEPT ![b] = value], free' = free
  PROVE  IsFreeList(list)'
<1>1. \A i \in 1 .. Len(list) : list[i] # b /\ list[i] \in Block
  BY DEF ToSet
<1>2. \A i \in 1 .. Len(list) : memory'[list[i]] = memory[list[i]]
  BY <1>1
<1>. QED BY <1>2 DEF IsFreeList

----------------------------------------------------------------------------
\* osPoolAlloc and osPoolFree.
LEMMA CallerIs ==
  ASSUME stack[SP] # << >>
  PROVE  Caller = IF ByHandler THEN handler ELSE SP
BY DEF Caller, ByHandler

LEMMA AllocLoadIInv ==
  ASSUME IInv, AllocLoad
  PROVE  IInv'
<1>. DEFINE h == hands[SP]
            s == stack[SP]
<1>1. /\ pc = <<"alloc", "load">> /\ pc' = <<"alloc", "next">>
      /\ scratch' = [scratch EXCEPT !.block = free]
      /\ UNCHANGED <<I, SP, kept, stack, taskVars, poolVars>>
  BY DEF AllocLoad, At
<1>2. /\ pc[1] = "alloc" /\ pc[2] = "load" /\ pc'[1] = "alloc" /\ pc'[2] = "next" /\ pc' \in Place
      /\ "alloc" \in Functions /\ "alloc" \notin Schedules
  BY <1>1 DEF Place, Code, Spot, Functions, Schedules
<1>3. /\ SP \in Thread /\ kept.own = SP
      /\ kept \in RegisterValues /\ scratch \in RegisterValues /\ I \in BOOLEAN
      /\ hands \in [User -> Block \cup {NULL}] /\ PoolInv
      /\ \/ InCall(SP, pc, kept, scratch, s, h) /\ ~ByHandler /\ I = FALSE
         \/ InHandlerCall(SP, pc, kept, scratch, s, h) /\ ByHandler /\ I = FALSE
  <2>. HIDE DEF InCall, InHandlerCall
  <2>. QED BY <1>2, InFunction
<1>4. free \in Block \cup {NULL}
  BY <1>3 DEF PoolInv, IsFreeList
<1>5. /\ scratch' \in RegisterValues /\ scratch'.block = free /\ scratch'.sreg = scratch.sreg
  BY <1>1, <1>3, <1>4 DEF RegisterValues
<1>6. Continues(SP, pc', kept, scratch', s, h)
  <2>1. CASE InCall(SP, pc, kept, scratch, s, h)
    <3>1. InCall(SP, pc', kept, scratch', s, h)
      BY <1>2, <1>5, <2>1 DEF InCall
    <3>. QED BY <1>2, <1>3, <3>1, OwnContinues
  <2>2. CASE InHandlerCall(SP, pc, kept, scratch, s, h)
    <3>1. InHandlerCall(SP, pc', kept, scratch', s, h)
      BY <1>2, <1>5, <2>2 DEF InHandlerCall
    <3>. QED BY <3>1 DEF Continues
  <2>. QED BY <1>3, <2>1, <2>2
<1>7. ~Enabled(pc')
  BY <1>2 DEF Enabled, Functions
<1>8. PoolInv'
  <2>1. ByHandler' = ByHandler
    BY <1>1 DEF ByHandler
  <2>2. ByHandler => hands[handler] = NULL
    BY <1>2, <1>3 DEF PoolInv
  <2>3. \E list \in Seq(Block) : IsFreeList(list)' /\ \A u \in User : hands'[u] \notin ToSet(list)
    BY <1>1, <1>3 DEF PoolInv, IsFreeList, poolVars
  <2>. HIDE DEF ByHandler
  <2>. QED BY <1>1, <1>2, <1>3, <1>5, <2>1, <2>2, <2>3 DEF PoolInv, poolVars
<1>. HIDE DEF PoolInv, IInv, Continues, Enabled, InCall, InHandlerCall, ByHandler
<1>. QED BY <1>1, <1>2, <1>3, <1>5, <1>6, <1>7, <1>8, Inside DEF poolVars

LEMMA AllocNextIInv ==
  ASSUME IInv, AllocNext
  PROVE  IInv'
<1>. DEFINE h == hands[SP]
            s == stack[SP]
            b == scratch.block
<1>1. /\ pc = <<"alloc", "next">> /\ pc' = <<"alloc", "restore">>
      /\ IF b = NULL THEN free' = free /\ hands' = hands
         ELSE free' = memory[b] /\ hands' = [hands EXCEPT ![Caller] = b]
      /\ UNCHANGED <<I, SP, kept, scratch, stack, taskVars, memory>>
  BY DEF AllocNext, At, registers
<1>2. /\ pc[1] = "alloc" /\ pc[2] = "next" /\ pc'[1] = "alloc" /\ pc'[2] = "restore" /\ pc' \in Place
      /\ "alloc" \in Functions /\ "alloc" \notin Schedules
  BY <1>1 DEF Place, Code, Spot, Functions, Schedules
<1>3. /\ SP \in Thread /\ kept.own = SP
      /\ kept \in RegisterValues /\ scratch \in RegisterValues /\ I \in BOOLEAN
      /\ hands \in [User -> Block \cup {NULL}] /\ PoolInv
      /\ \/ InCall(SP, pc, kept, scratch, s, h) /\ ~ByHandler /\ I = FALSE
         \/ InHandlerCall(SP, pc, kept, scratch, s, h) /\ ByHandler /\ I = FALSE
  <2>. HIDE DEF InCall, InHandlerCall
  <2>. QED BY <1>2, InFunction
<1>4. Caller = IF ByHandler THEN handler ELSE SP
  <2>1. s # << >>
    BY <1>3 DEF InCall, InHandlerCall
  <2>. QED BY <2>1, CallerIs
<1>. HIDE DEF Caller, ByHandler
<1>5. b \in Block \cup {NULL} /\ b = free
  BY <1>1, <1>3 DEF PoolInv, RegisterValues
<1>. HIDE DEF b
<1>6. SP \in User /\ handler \in User /\ handler \notin Thread /\ Thread \subseteq User /\ NULL \notin Block
  BY <1>3, ProcessorAssumption DEF User
<1>7. /\ hands' \in [User -> Block \cup {NULL}]
      /\ \A t \in Thread \ {SP} : hands'[t] = hands[t]
      /\ ByHandler => hands'[SP] = h
      /\ ~ByHandler => hands'[SP] = IF b = NULL THEN h ELSE b
  BY <1>1, <1>3, <1>4, <1>5, <1>6
<1>. HIDE DEF h
<1>8. Continues(SP, pc', kept, scratch, s, hands'[SP])
  <2>1. CASE InCall(SP, pc, kept, scratch, s, h) /\ ~ByHandler
    <3>1. InCall(SP, pc', kept, scratch, s, hands'[SP])
      BY <1>2, <1>7, <2>1 DEF InCall, b
    <3>. QED BY <1>2, <1>3, <3>1, OwnContinues
  <2>2. CASE InHandlerCall(SP, pc, kept, scratch, s, h) /\ ByHandler
    <3>1. InHandlerCall(SP, pc', kept, scratch, s, hands'[SP])
      BY <1>2, <1>7, <2>2 DEF InHandlerCall
    <3>. QED BY <3>1 DEF Continues
  <2>. QED BY <1>3, <2>1, <2>2
<1>9. ~Enabled(pc')
  BY <1>2 DEF Enabled, Functions
<1>10. PoolInv'
  <2>1. PICK list \in Seq(Block) : IsFreeList(list) /\ \A u \in User : hands[u] \notin ToSet(list)
    BY <1>3 DEF PoolInv
  <2>2. /\ \E r \in Seq(Block) : IsFreeList(r)' /\ \A u \in User : hands'[u] \notin ToSet(r)
        /\ \A u, v \in User : hands'[u] # NULL /\ hands'[u] = hands'[v] => u = v
    <3>1. CASE b = NULL
      <4>1. IsFreeList(list)'
        BY <1>1, <2>1, <3>1 DEF IsFreeList
      <4>. QED BY <1>1, <1>3, <2>1, <3>1, <4>1 DEF PoolInv
    <3>2. CASE b # NULL
      <4>1. /\ free \in ToSet(list)
            /\ Tail(list) \in Seq(Block) /\ IsFreeList(Tail(list))'
            /\ ToSet(Tail(list)) = ToSet(list) \ {free}
        <5>. HIDE DEF IsFreeList
        <5>. QED BY <1>1, <1>5, <2>1, <3>2, ListTail
      <4>2. \A u \in User : hands'[u] \in {hands[u], free} /\ hands[u] # free
        BY <1>1, <1>3, <1>5, <2>1, <3>2, <4>1
      <4>3. \A u \in User : hands'[u] \notin ToSet(Tail(list))
        BY <2>1, <4>1, <4>2
      <4>4. \A u \in User : hands'[u] = free => u = Caller
        BY <1>1, <1>3, <3>2, <4>2
      <4>5. \A u \in User : hands'[u] = free \/ hands'[u] = hands[u]
        BY <4>2
      <4>6. \A u, v \in User : hands'[u] # NULL /\ hands'[u] = hands'[v] => u = v
        BY <1>3, <4>2, <4>4, <4>5 DEF PoolInv
      <4>. QED BY <4>1, <4>3, <4>6
    <3>. QED BY <3>1, <3>2
  <2>3. memory' = [x \in Block |-> memory'[x]]
    BY <1>1, <1>3 DEF PoolInv
  <2>. QED BY <1>1, <1>2, <2>2, <2>3 DEF PoolInv
<1>. HIDE DEF PoolInv, IInv, Continues, Enabled, InCall, InHandlerCall, ByHandler
<1>. QED BY <1>1, <1>2, <1>3, <1>7, <1>8, <1>9, <1>10, Inside

\* The block somebody gives back is still in a hand.
LEMMA GivenBack ==
  ASSUME IInv, pc[1] = "free", pc[2] \in {"link", "head"}
  PROVE  /\ scratch.block \in Block
         /\ stack[SP] # << >> /\ Caller \in User /\ hands[Caller] = scratch.block
<1>1. /\ SP \in Thread /\ scratch \in RegisterValues /\ PoolInv
      /\ hands \in [User -> Block \cup {NULL}]
      /\ \/ InCall(SP, pc, kept, scratch, stack[SP], hands[SP]) /\ ~ByHandler
         \/ InHandlerCall(SP, pc, kept, scratch, stack[SP], hands[SP]) /\ ByHandler
  <2>1. "free" \in Functions
    BY DEF Functions
  <2>. HIDE DEF InCall, InHandlerCall
  <2>. QED BY <2>1, InFunction
<1>2. stack[SP] # << >>
  BY <1>1 DEF InCall, InHandlerCall
<1>3. Caller = IF ByHandler THEN handler ELSE SP
  BY <1>2, CallerIs
<1>4. scratch.block \in Block \cup {NULL}
  BY <1>1 DEF RegisterValues
<1>5. Caller \in User
  BY <1>1, <1>3 DEF User
<1>6. CASE ByHandler
  BY <1>1, <1>2, <1>3, <1>4, <1>5, <1>6 DEF PoolInv
<1>7. CASE ~ByHandler
  <2>1. scratch.block = hands[SP] /\ hands[SP] # NULL
    BY <1>1, <1>7, ProcessorAssumption DEF InCall, Schedules
  <2>. QED BY <1>2, <1>3, <1>4, <1>5, <1>7, <2>1
<1>. QED BY <1>6, <1>7

LEMMA FreeLinkIInv ==
  ASSUME IInv, FreeLink
  PROVE  IInv'
<1>. DEFINE h == hands[SP]
            s == stack[SP]
            b == scratch.block
<1>1. /\ pc = <<"free", "link">> /\ pc' = <<"free", "head">>
      /\ memory' = [memory EXCEPT ![b] = free]
      /\ UNCHANGED <<I, SP, kept, scratch, stack, taskVars, free, hands>>
  BY DEF FreeLink, At, registers
<1>2. /\ pc[1] = "free" /\ pc[2] = "link" /\ pc'[1] = "free" /\ pc'[2] = "head" /\ pc' \in Place
      /\ "free" \in Functions /\ "free" \notin Schedules
  BY <1>1 DEF Place, Code, Spot, Functions, Schedules
<1>3. /\ SP \in Thread /\ kept.own = SP
      /\ kept \in RegisterValues /\ scratch \in RegisterValues /\ I \in BOOLEAN
      /\ hands \in [User -> Block \cup {NULL}] /\ PoolInv
      /\ \/ InCall(SP, pc, kept, scratch, s, h) /\ ~ByHandler /\ I = FALSE
         \/ InHandlerCall(SP, pc, kept, scratch, s, h) /\ ByHandler /\ I = FALSE
  <2>. HIDE DEF InCall, InHandlerCall
  <2>. QED BY <1>2, InFunction
<1>4. b \in Block /\ Caller \in User /\ hands[Caller] = b
  BY <1>2, GivenBack
<1>5. Continues(SP, pc', kept, scratch, s, h)
  <2>1. CASE InCall(SP, pc, kept, scratch, s, h)
    <3>1. InCall(SP, pc', kept, scratch, s, h)
      BY <1>2, <2>1 DEF InCall
    <3>. QED BY <1>2, <1>3, <3>1, OwnContinues
  <2>2. CASE InHandlerCall(SP, pc, kept, scratch, s, h)
    <3>1. InHandlerCall(SP, pc', kept, scratch, s, h)
      BY <1>2, <2>2 DEF InHandlerCall
    <3>. QED BY <3>1 DEF Continues
  <2>. QED BY <1>3, <2>1, <2>2
<1>6. ~Enabled(pc')
  BY <1>2 DEF Enabled, Functions
<1>. HIDE DEF b
<1>7. PoolInv'
  <2>1. PICK list \in Seq(Block) : IsFreeList(list) /\ \A u \in User : hands[u] \notin ToSet(list)
    BY <1>3 DEF PoolInv
  <2>2. b \notin ToSet(list) /\ memory = [x \in Block |-> memory[x]]
    BY <1>3, <1>4, <2>1 DEF PoolInv
  <2>3. IsFreeList(list)'
    BY <1>1, <1>4, <2>1, <2>2, ListWrite
  <2>4. \A u \in User : hands'[u] \notin ToSet(list)
    BY <1>1, <2>1
  <2>5. /\ memory' = [x \in Block |-> memory'[x]]
        /\ memory'[b] = free
    BY <1>1, <1>4, <2>2
  <2>6. ByHandler' = ByHandler
    BY <1>1 DEF ByHandler
  <2>7. ByHandler => b = hands[handler] /\ b # NULL
    BY <1>2, <1>3 DEF PoolInv, b
  <2>. HIDE DEF IsFreeList, ByHandler
  <2>. QED BY <1>1, <1>2, <1>3, <2>3, <2>4, <2>5, <2>6, <2>7 DEF PoolInv, b
<1>. HIDE DEF PoolInv, IInv, Continues, Enabled, InCall, InHandlerCall, ByHandler
<1>. QED BY <1>1, <1>2, <1>3, <1>5, <1>6, <1>7, Inside

LEMMA FreeHeadIInv ==
  ASSUME IInv, FreeHead
  PROVE  IInv'
<1>. DEFINE h == hands[SP]
            s == stack[SP]
            b == scratch.block
<1>1. /\ pc = <<"free", "head">> /\ pc' = <<"free", "restore">>
      /\ free' = b /\ hands' = [hands EXCEPT ![Caller] = NULL]
      /\ UNCHANGED <<I, SP, kept, scratch, stack, taskVars, memory>>
  BY DEF FreeHead, At, registers
<1>2. /\ pc[1] = "free" /\ pc[2] = "head" /\ pc'[1] = "free" /\ pc'[2] = "restore" /\ pc' \in Place
      /\ "free" \in Functions /\ "free" \notin Schedules
  BY <1>1 DEF Place, Code, Spot, Functions, Schedules
<1>3. /\ SP \in Thread /\ kept.own = SP
      /\ kept \in RegisterValues /\ scratch \in RegisterValues /\ I \in BOOLEAN
      /\ hands \in [User -> Block \cup {NULL}] /\ PoolInv
      /\ \/ InCall(SP, pc, kept, scratch, s, h) /\ ~ByHandler /\ I = FALSE
         \/ InHandlerCall(SP, pc, kept, scratch, s, h) /\ ByHandler /\ I = FALSE
  <2>. HIDE DEF InCall, InHandlerCall
  <2>. QED BY <1>2, InFunction
<1>4. s # << >> /\ b \in Block /\ Caller \in User /\ hands[Caller] = b
  BY <1>2, GivenBack
<1>5. Caller = IF ByHandler THEN handler ELSE SP
  BY <1>4, CallerIs
<1>. HIDE DEF b, Caller, ByHandler
<1>6. SP \in User /\ handler \in User /\ handler \notin Thread /\ Thread \subseteq User /\ NULL \notin Block
  BY <1>3, ProcessorAssumption DEF User
<1>7. /\ hands' \in [User -> Block \cup {NULL}]
      /\ \A t \in Thread \ {SP} : hands'[t] = hands[t]
      /\ ByHandler => hands'[SP] = h
      /\ ~ByHandler => hands'[SP] = NULL
  BY <1>1, <1>3, <1>5, <1>6
<1>. HIDE DEF h
<1>8. Continues(SP, pc', kept, scratch, s, hands'[SP])
  <2>1. CASE InCall(SP, pc, kept, scratch, s, h) /\ ~ByHandler
    <3>1. InCall(SP, pc', kept, scratch, s, hands'[SP])
      BY <1>2, <1>7, <2>1 DEF InCall
    <3>. QED BY <1>2, <1>3, <3>1, OwnContinues
  <2>2. CASE InHandlerCall(SP, pc, kept, scratch, s, h) /\ ByHandler
    <3>1. InHandlerCall(SP, pc', kept, scratch, s, hands'[SP])
      BY <1>2, <1>7, <2>2 DEF InHandlerCall
    <3>. QED BY <3>1 DEF Continues
  <2>. QED BY <1>3, <2>1, <2>2
<1>9. ~Enabled(pc')
  BY <1>2 DEF Enabled, Functions
<1>10. PoolInv'
  <2>1. PICK list \in Seq(Block) : IsFreeList(list) /\ \A u \in User : hands[u] \notin ToSet(list)
    BY <1>3 DEF PoolInv
  <2>2. b \in Block \ ToSet(list) /\ memory[b] = free /\ memory = [x \in Block |-> memory[x]]
        /\ \A u, v \in User : hands[u] # NULL /\ hands[u] = hands[v] => u = v
    BY <1>1, <1>3, <1>4, <2>1 DEF PoolInv, b
  <2>3. PICK r \in Seq(Block) : IsFreeList(r)' /\ ToSet(r) = ToSet(list) \cup {b}
    <3>1. PICK c : c = b
      OBVIOUS
    <3>2. c \in Block \ ToSet(list) /\ memory[c] = free /\ free' = c /\ memory' = memory
      BY <1>1, <2>2, <3>1
    <3>3. /\ <<c>> \o list \in Seq(Block) /\ IsFreeList(<<c>> \o list)'
          /\ ToSet(<<c>> \o list) = ToSet(list) \cup {c}
      <4>. HIDE DEF IsFreeList
      <4>. QED BY <2>1, <3>2, ListCons
    <3>4. \E r \in Seq(Block) : IsFreeList(r)' /\ ToSet(r) = ToSet(list) \cup {c}
      <4>. HIDE DEF IsFreeList
      <4>. QED BY <3>3
    <3>. QED BY <3>1, <3>4
  <2>4. \A u \in User : hands'[u] = IF u = Caller THEN NULL ELSE hands[u]
    BY <1>1, <1>3
  <2>5. \A u \in User : u # Caller => hands[u] # b
    BY <1>4, <1>6, <2>2
  <2>6. \A x \in ToSet(r) : x \in Block
    BY <2>3 DEF ToSet
  <2>7. \A u \in User : hands'[u] \notin ToSet(r)
    BY <1>6, <2>1, <2>3, <2>4, <2>5, <2>6
  <2>8. \A u, v \in User : hands'[u] # NULL /\ hands'[u] = hands'[v] => u = v
    BY <2>2, <2>4
  <2>. HIDE DEF IsFreeList
  <2>. QED BY <1>1, <1>2, <2>2, <2>3, <2>7, <2>8 DEF PoolInv
<1>. HIDE DEF PoolInv, IInv, Continues, Enabled, InCall, InHandlerCall
<1>. QED BY <1>1, <1>2, <1>3, <1>7, <1>8, <1>9, <1>10, Inside

----------------------------------------------------------------------------
\* Who calls osSchedule can be resumed after it.
Schedulers == {"yield", "create", "handler", "main"}

LEMMA Resumes ==
  ASSUME IInv, NEW f \in Schedulers, pc = <<f, "schedule">>
  PROVE  /\ SP \in Thread /\ SP = osCurrentTask /\ life[SP] = "ALIVE"
         /\ kept \in RegisterValues /\ scratch \in RegisterValues
         /\ stack \in [Thread -> Seq(Frames)]
         /\ hands \in [User -> Block \cup {NULL}] /\ I = FALSE
         /\ <<f, Resumed[f]>> \in Place /\ Resume(<<f, Resumed[f]>>)
         /\ Continues(SP, <<f, Resumed[f]>>, kept, Registers, stack[SP], hands[SP])
         /\ f = "create" => Len(stack[SP]) = 2 /\ Resumed[f] = "restore"
         /\ f # "create" => Resumed[f] \in {"restore", "pop", "sei"}
<1>. DEFINE s == stack[SP]
            h == hands[SP]
            p == <<f, Resumed[f]>>
<1>1. /\ SP \in Thread /\ kept \in RegisterValues /\ scratch \in RegisterValues
      /\ stack \in [Thread -> Seq(Frames)] /\ I \in BOOLEAN
      /\ hands \in [User -> Block \cup {NULL}]
  BY DEF IInv, Typed
<1>2. pc[1] = f /\ pc[2] = "schedule" /\ pc[1] # "switch" /\ f \in {"yield", "create", "handler", "main"}
  BY DEF Schedulers
<1>3. /\ f \in {"yield", "create"} => Resumed[f] = "restore"
      /\ f = "handler" => Resumed[f] = "pop"
      /\ f = "main" => Resumed[f] = "sei"
  BY DEF Resumed
<1>4. SP = osCurrentTask /\ life[SP] = "ALIVE" /\ (I <=> (Enabled(pc) /\ ~ByHandler))
  BY <1>2 DEF IInv, Running, Lives
<1>5. I = FALSE
  BY <1>1, <1>2, <1>4 DEF Enabled
<1>. HIDE DEF Resumed
<1>6. p \in Place /\ Resume(p) /\ p[1] = f /\ p[2] = Resumed[f]
  BY <1>2, <1>3 DEF Place, Code, Spot, Functions, Resume
<1>. HIDE DEF p, s, h
<1>7. /\ kept.own = SP
      /\ f = "main" => InMain(SP, pc, kept, scratch, s, h)
      /\ f = "handler" => InHandler(SP, pc, kept, scratch, s, h)
      /\ f \in {"yield", "create"} => InCall(SP, pc, kept, scratch, s, h)
  <2>1. f \in {"yield", "create"} => ~InHandlerCall(SP, pc, kept, scratch, s, h) /\ f \in Functions
    BY <1>2 DEF InHandlerCall, Functions
  <2>. HIDE DEF InMain, InHandler, InCall, InHandlerCall
  <2>. QED BY <1>2, <2>1, Here DEF s, h
<1>8. Continues(SP, p, kept, Registers, s, h)
  <2>1. CASE f = "main"
    <3>1. InMain(SP, p, kept, Registers, s, h)
      BY <1>3, <1>6, <1>7, <2>1 DEF InMain
    <3>. QED BY <1>6, <1>7, <2>1, <3>1, OwnContinues
  <2>2. CASE f = "handler"
    <3>1. InHandler(SP, p, kept, Registers, s, h)
      BY <1>3, <1>6, <1>7, <2>2 DEF InHandler
    <3>. QED BY <3>1 DEF Continues
  <2>3. CASE f \in {"yield", "create"}
    <3>1. f \in Schedules /\ f \in Functions
      BY <2>3 DEF Schedules, Functions
    <3>2. InCall(SP, p, kept, Registers, s, h)
      BY <1>2, <1>3, <1>6, <1>7, <2>3, <3>1 DEF InCall
    <3>. QED BY <1>6, <1>7, <3>1, <3>2, OwnContinues
  <2>. QED BY <1>2, <2>1, <2>2, <2>3
<1>9. f = "create" => Len(s) = 2
  <2>. SUFFICES ASSUME f = "create" PROVE Len(s) = 2
    OBVIOUS
  <2>1. SP # osIdleTask /\ s # << >> /\ Front(s) = Base(SP)
    BY <1>7 DEF InCall
  <2>2. s \in Seq(Frames)
    BY <1>1 DEF s
  <2>3. Len(s) = Len(Front(s)) + 1
    BY <2>1, <2>2, Popping
  <2>4. Len(Base(SP)) = 1
    BY <1>1, <2>1, BaseType
  <2>. QED BY <2>1, <2>3, <2>4
<1>. QED BY <1>1, <1>2, <1>3, <1>4, <1>5, <1>6, <1>8, <1>9 DEF p, s, h

LEMMA ScheduleStaysIInv ==
  ASSUME IInv, NEW f \in Schedulers, ScheduleStays(f)
  PROVE  IInv'
<1>. DEFINE p == <<f, Resumed[f]>>
<1>1. /\ pc = <<f, "schedule">> /\ pc' = p
      /\ scratch' = Registers
      /\ UNCHANGED <<I, SP, kept, stack, taskVars, poolVars>>
  BY DEF ScheduleStays, At
<1>2. /\ SP \in Thread /\ kept \in RegisterValues
      /\ hands \in [User -> Block \cup {NULL}] /\ I = FALSE
      /\ p \in Place /\ Resume(p)
      /\ Continues(SP, p, kept, Registers, stack[SP], hands[SP])
      /\ f = "create" => Resumed[f] = "restore"
  <2>. HIDE DEF Continues, Resume
  <2>. QED BY <1>1, Resumes
<1>3. pc[1] = f /\ f # "switch" /\ p[1] = f /\ p[2] = Resumed[f] /\ f \notin {"alloc", "free"}
  BY <1>1 DEF Schedulers
<1>4. ~Enabled(p)
  BY <1>2 DEF Resume, Enabled, Functions
<1>5. Registers \in RegisterValues
  BY FrameType
<1>. HIDE DEF p, Resumed, Registers
<1>6. PoolInv'
  <2>1. PoolInv
    BY DEF IInv
  <2>. HIDE DEF PoolInv
  <2>. QED BY <1>1, <1>3, <2>1, PoolKept
<1>7. hands' = hands /\ kept' = kept /\ I' = I /\ UNCHANGED <<SP, stack, taskVars>>
  BY <1>1 DEF poolVars
<1>. HIDE DEF PoolInv, IInv, Continues, Enabled, ByHandler
<1>. QED BY <1>1, <1>2, <1>3, <1>4, <1>5, <1>6, <1>7, Inside

\* osDispatch, on behalf of a thread that goes on later or is gone.
LEMMA Departs ==
  ASSUME IInv, pc[1] # "switch", ~I, pc' = <<"switch", "save">>,
         NEW f \in Code, NEW x \in Spot,
         stack' = [stack EXCEPT ![SP] = Append(@, Address(<<f, x>>))],
         f = "create" => x \notin {"save", "cli"} /\ Len(stack[SP]) = 2,
         pc[1] = "create" => f = "create",
         NEW t \in Thread \ {osCurrentTask}, life[t] = "ALIVE", SwitchTo(t),
         UNCHANGED <<I, SP, kept, sp, poolVars>>,
         \/ /\ life' = life
            /\ Resume(<<f, x>>)
            /\ Continues(SP, <<f, x>>, kept, Registers, stack[SP], hands[SP])
         \/ /\ life' = [life EXCEPT ![osCurrentTask] = "DEAD"]
            /\ SP # osIdleTask /\ stack[SP] = << >> /\ hands[SP] = NULL
  PROVE  IInv'
<1>. DEFINE s == stack[SP]
            e == Address(<<f, x>>)
            r == Append(s, e)
<1>1. /\ pc \in Place /\ I \in BOOLEAN /\ SP \in Thread /\ kept \in RegisterValues
      /\ stack \in [Thread -> Seq(Frames)] /\ osCurrentTask \in Thread
      /\ sp = [u \in Thread |-> u] /\ life \in [Thread -> {"DEAD", "SETUP", "ALIVE"}]
      /\ hands \in [User -> Block \cup {NULL}] /\ s \in Seq(Frames)
      /\ SP = osCurrentTask
  BY DEF IInv, Typed, Running
<1>2. e \in Frames /\ e.ret = <<f, x>> /\ e.saved = Registers /\ <<f, x>>[1] = f /\ <<f, x>>[2] = x
  <2>1. <<f, x>> \in Place
    BY DEF Place
  <2>. QED BY <2>1, FrameType
<1>. HIDE DEF e, s
<1>3. r \in Seq(Frames) /\ r # << >> /\ Last(r) = e /\ Front(r) = s /\ Len(r) = Len(s) + 1
  BY <1>1, <1>2, Pushing
<1>4. /\ stack' \in [Thread -> Seq(Frames)] /\ stack'[SP] = r
      /\ \A u \in Thread \ {SP} : stack'[u] = stack[u]
  BY <1>1, <1>3 DEF e, s
<1>5. /\ osCurrentTask' = t /\ scratch' = [Registers EXCEPT !.next = t, !.prev = SP]
      /\ scratch' \in RegisterValues /\ scratch'.next = t /\ scratch'.prev = SP
  BY <1>1 DEF SwitchTo, Registers, RegisterValues
<1>6. pc'[1] = "switch" /\ pc'[2] = "save" /\ pc' \in Place
  BY DEF Place, Code, Spot
<1>7. /\ life' \in [Thread -> {"DEAD", "SETUP", "ALIVE"}]
      /\ \A u \in Thread \ {SP} : life'[u] = life[u]
      /\ life'[SP] \in {"ALIVE", "DEAD"} /\ life[SP] = "ALIVE"
      /\ SP = osIdleTask => life'[SP] = "ALIVE"
  <2>1. life[SP] = "ALIVE"
    BY <1>1 DEF IInv, Lives
  <2>. QED BY <1>1, <2>1
<1>. HIDE DEF r
<1>8. Typed'
  BY <1>1, <1>4, <1>5, <1>6, <1>7 DEF Typed, poolVars
<1>9. Running'
  BY <1>6 DEF Running
<1>10. Switching'
  <2>1. life'[SP] = "ALIVE" =>
          /\ Resume(Last(stack'[SP]).ret)
          /\ Continues(SP, Last(stack'[SP]).ret, kept, Registers, Front(stack'[SP]), hands[SP])
    <3>. HIDE DEF Resume, Continues
    <3>. QED BY <1>1, <1>2, <1>3, <1>4 DEF s
  <2>2. ~I' /\ osCurrentTask' # SP' /\ scratch'.next = osCurrentTask' /\ scratch'.prev = SP'
        /\ stack'[SP'] # << >> /\ SP' = SP /\ kept' = kept /\ hands' = hands
    BY <1>1, <1>3, <1>4, <1>5 DEF poolVars
  <2>. HIDE DEF Resume, Continues
  <2>. QED BY <1>6, <2>1, <2>2 DEF Switching
<1>11. Waiting'
  <2>. SUFFICES ASSUME NEW u \in Thread, life'[u] = "ALIVE", u # SP
                PROVE  Suspended(u)'
    BY DEF Waiting
  <2>1. Suspended(u)
    BY <1>1, <1>7 DEF IInv, Waiting
  <2>. QED BY <1>4, <2>1 DEF Suspended, poolVars
<1>12. Lives'
  <2>1. \A u \in Thread \ {SP} : Creating(u)' = Creating(u)
    BY <1>4, <1>6 DEF Creating
  <2>2. Creating(SP)' \in {NULL, Creating(SP)}
    BY <1>1, <1>2, <1>6, CreatingMore DEF e
  <2>3. \A u \in Thread : Creating(u)' \in {NULL, Creating(u)}
    BY <2>1, <2>2
  <2>. HIDE DEF Creating
  <2>4. Lives
    BY DEF IInv
  <2>5. \A u \in Thread : Creating(u)' # NULL => life'[Creating(u)'] = "SETUP"
    <3>. SUFFICES ASSUME NEW u \in Thread, Creating(u)' # NULL
                  PROVE  life'[Creating(u)'] = "SETUP"
      OBVIOUS
    <3>1. Creating(u)' = Creating(u) /\ life[Creating(u)] = "SETUP" /\ Creating(u) \in Thread
      BY <2>3, <2>4, CreatingType DEF Lives
    <3>2. Creating(u) # SP
      BY <1>7, <3>1
    <3>. QED BY <1>7, <3>1, <3>2
  <2>6. \A u, v \in Thread : Creating(u)' # NULL /\ Creating(u)' = Creating(v)' => u = v
    BY <2>3, <2>4 DEF Lives
  <2>7. \A u \in Thread : life'[u] # "ALIVE" =>
          /\ hands'[u] = NULL
          /\ u # SP => life'[u] = life[u] /\ stack'[u] = stack[u]
          /\ u = SP => life'[u] = "DEAD" /\ Len(stack'[u]) = 1
    <3>. SUFFICES ASSUME NEW u \in Thread, life'[u] # "ALIVE"
                  PROVE  /\ hands'[u] = NULL
                         /\ u # SP => life'[u] = life[u] /\ stack'[u] = stack[u]
                         /\ u = SP => life'[u] = "DEAD" /\ Len(stack'[u]) = 1
      OBVIOUS
    <3>1. CASE u # SP
      BY <1>4, <1>7, <2>4, <3>1 DEF Lives, poolVars
    <3>2. CASE u = SP
      <4>1. stack[SP] = << >> /\ hands[SP] = NULL /\ life'[SP] = "DEAD"
        BY <1>7, <3>2
      <4>2. Len(r) = 1
        BY <1>3, <4>1 DEF s
      <4>. QED BY <1>4, <3>2, <4>1, <4>2 DEF poolVars
    <3>. QED BY <3>1, <3>2
  <2>8. life'[osCurrentTask'] = "ALIVE" /\ life'[osIdleTask] = "ALIVE" /\ life'[SP'] # "SETUP"
    BY <1>1, <1>5, <1>7, <2>4 DEF Lives, Thread
  <2>. QED BY <2>4, <2>5, <2>6, <2>7, <2>8 DEF Lives
<1>13. PoolInv'
  <2>1. PoolInv
    BY DEF IInv
  <2>. HIDE DEF PoolInv
  <2>. QED BY <1>6, <2>1, PoolKept
<1>. QED BY <1>8, <1>9, <1>10, <1>11, <1>12, <1>13 DEF IInv

LEMMA ScheduleSwitchesIInv ==
  ASSUME IInv, NEW f \in Schedulers, ScheduleSwitches(f)
  PROVE  IInv'
<1>1. /\ pc = <<f, "schedule">> /\ pc' = <<"switch", "save">>
      /\ stack' = [stack EXCEPT ![SP] = Append(@, Address(<<f, Resumed[f]>>))]
      /\ UNCHANGED <<I, SP, kept, sp, life, poolVars>>
  BY DEF ScheduleSwitches, Push
<1>2. PICK t \in Thread \ {osCurrentTask} : life[t] = "ALIVE" /\ SwitchTo(t)
  BY DEF ScheduleSwitches
<1>3. /\ I = FALSE /\ Resume(<<f, Resumed[f]>>)
      /\ Continues(SP, <<f, Resumed[f]>>, kept, Registers, stack[SP], hands[SP])
      /\ f = "create" => Len(stack[SP]) = 2 /\ Resumed[f] = "restore"
      /\ f # "create" => Resumed[f] \in {"restore", "pop", "sei"}
  <2>. HIDE DEF Continues, Resume
  <2>. QED BY <1>1, Resumes
<1>4. pc[1] = f /\ pc[1] # "switch" /\ f \in Code
  BY <1>1 DEF Schedulers, Code, Functions
<1>5. Resumed[f] \in Spot
  BY <1>3 DEF Spot
<1>. HIDE DEF IInv, Continues, Resume, Resumed, SwitchTo, poolVars
<1>. QED BY <1>1, <1>2, <1>3, <1>4, <1>5, Departs

LEMMA ExitSwitchesIInv ==
  ASSUME IInv, ExitSwitches
  PROVE  IInv'
<1>1. /\ pc = <<"exit", "dispatch">> /\ pc' = <<"switch", "save">>
      /\ life' = [life EXCEPT ![osCurrentTask] = "DEAD"]
      /\ stack' = [stack EXCEPT ![SP] = Append(@, Address(<<"exit", "while">>))]
      /\ UNCHANGED <<I, SP, kept, sp, poolVars>>
  BY DEF ExitSwitches, Push
<1>2. PICK t \in Thread \ {osCurrentTask} : life[t] = "ALIVE" /\ SwitchTo(t)
  BY DEF ExitSwitches
<1>3. pc[1] = "exit" /\ pc[2] = "dispatch" /\ pc[1] # "switch" /\ "exit" \in Code /\ "while" \in Spot
  BY <1>1 DEF Code, Spot
<1>4. InExit(SP, pc, kept, scratch, stack[SP], hands[SP])
  <2>. HIDE DEF InExit
  <2>. QED BY <1>3, Here
<1>5. SP # osIdleTask /\ stack[SP] = << >> /\ hands[SP] = NULL
  BY <1>4 DEF InExit
<1>6. I = FALSE
  BY <1>3 DEF IInv, Typed, Running, Enabled, Functions
<1>. HIDE DEF IInv, SwitchTo, poolVars
<1>. QED BY <1>1, <1>2, <1>3, <1>5, <1>6, Departs

----------------------------------------------------------------------------
\* osPortSwitch.
LEMMA SwitchSaveIInv ==
  ASSUME IInv, SwitchSave
  PROVE  IInv'
<1>. DEFINE s == stack[SP]
            e == Frame(Last(s).ret, kept)
            r == Append(Front(s), e)
<1>1. /\ pc = <<"switch", "save">> /\ pc' = <<"switch", "stack">>
      /\ stack' = [stack EXCEPT ![SP] = r]
      /\ sp' = [sp EXCEPT ![scratch.prev] = SP]
      /\ UNCHANGED <<I, SP, kept, scratch, osCurrentTask, life, poolVars>>
  BY DEF SwitchSave, At, registers
<1>2. pc[1] = "switch" /\ pc[2] = "save" /\ pc'[1] = "switch" /\ pc'[2] = "stack" /\ pc' \in Place
  BY <1>1 DEF Place, Code, Spot
<1>3. /\ SP \in Thread /\ kept \in RegisterValues /\ scratch \in RegisterValues
      /\ stack \in [Thread -> Seq(Frames)] /\ s \in Seq(Frames)
      /\ sp = [t \in Thread |-> t] /\ life \in [Thread -> {"DEAD", "SETUP", "ALIVE"}]
  BY DEF IInv, Typed
<1>4. /\ ~I /\ osCurrentTask # SP /\ scratch.next = osCurrentTask /\ scratch.prev = SP
      /\ s # << >>
      /\ life[SP] = "ALIVE" =>
           /\ Resume(Last(s).ret)
           /\ Continues(SP, Last(s).ret, kept, Registers, Front(s), hands[SP])
  <2>. HIDE DEF Resume, Continues
  <2>. QED BY <1>2 DEF IInv, Switching
<1>. HIDE DEF s
<1>5. /\ Front(s) \in Seq(Frames) /\ Last(s) \in Frames
      /\ Len(s) \in Nat \ {0} /\ Len(s) = Len(Front(s)) + 1
      /\ \A i \in 1 .. Len(s) - 1 : Front(s)[i] = s[i]
  <2>1. /\ Front(s) \in Seq(Frames) /\ Last(s) \in Frames
        /\ Len(s) \in Nat \ {0} /\ Len(Front(s)) = Len(s) - 1
        /\ \A i \in 1 .. Len(s) - 1 : Front(s)[i] = s[i]
    BY <1>3, <1>4, Popping
  <2>. QED BY <2>1
<1>6. e \in Frames /\ e.ret = Last(s).ret /\ e.saved = kept
  <2>1. Last(s).ret \in Place
    BY <1>5, FrameType
  <2>. QED BY <1>3, <2>1, FrameType
<1>. HIDE DEF e
<1>7. /\ r \in Seq(Frames) /\ r # << >> /\ Len(r) = Len(s) /\ Last(r) = e /\ Front(r) = Front(s)
      /\ \A i \in 1 .. Len(s) - 1 : r[i] = s[i]
  <2>. DEFINE q == Front(s)
  <2>1. q \in Seq(Frames) /\ Len(s) = Len(q) + 1 /\ Len(q) \in Nat /\ \A i \in 1 .. Len(q) : q[i] = s[i]
    BY <1>5
  <2>. HIDE DEF q
  <2>2. /\ Append(q, e) \in Seq(Frames) /\ Append(q, e) # << >>
        /\ Len(Append(q, e)) = Len(q) + 1
        /\ Last(Append(q, e)) = e
        /\ Front(Append(q, e)) = q
        /\ \A i \in 1 .. Len(q) : Append(q, e)[i] = q[i]
    BY <1>6, <2>1, Pushing
  <2>3. \A i \in 1 .. Len(s) - 1 : i \in 1 .. Len(q)
    BY <2>1
  <2>. QED BY <2>1, <2>2, <2>3 DEF q
<1>8. /\ stack' \in [Thread -> Seq(Frames)] /\ stack'[SP] = r
      /\ \A t \in Thread \ {SP} : stack'[t] = stack[t]
  BY <1>1, <1>3, <1>7
<1>. HIDE DEF r
<1>9. sp' = sp
  BY <1>1, <1>3, <1>4
<1>10. Typed'
  BY <1>1, <1>2, <1>8, <1>9 DEF IInv, Typed, poolVars
<1>11. Running'
  BY <1>2 DEF Running
<1>12. Switching'
  BY <1>1, <1>2, <1>4 DEF Switching
<1>13. Waiting'
  <2>. SUFFICES ASSUME NEW t \in Thread, life[t] = "ALIVE"
                PROVE  Suspended(t)'
    BY <1>1 DEF Waiting
  <2>1. CASE t = SP
    <3>1. hands' = hands /\ Last(stack'[t]).ret = Last(s).ret /\ Last(stack'[t]).saved = kept
          /\ Front(stack'[t]) = Front(s) /\ stack'[t] # << >>
      BY <1>1, <1>6, <1>7, <1>8, <2>1 DEF poolVars
    <3>. HIDE DEF Resume, Continues
    <3>. QED BY <1>4, <2>1, <3>1 DEF Suspended
  <2>2. CASE t # SP
    <3>1. Suspended(t)
      BY <1>1, <1>2, <2>2 DEF IInv, Waiting
    <3>. QED BY <1>1, <1>8, <2>2, <3>1 DEF Suspended, poolVars
  <2>. QED BY <2>1, <2>2
<1>14. Lives'
  <2>0. Lives
    BY DEF IInv
  <2>1. \A t \in Thread \ {SP} : Creating(t)' = Creating(t)
    BY <1>2, <1>8 DEF Creating
  <2>2. Creating(SP)' = Creating(SP)
    <3>1. CASE Len(s) > 3
      <4>1. 3 \in 1 .. Len(s) - 1 /\ Len(s) >= 3
        BY <1>5, <3>1
      <4>2. r[3] = s[3] /\ Len(r) >= 3
        BY <1>7, <4>1
      <4>. QED BY <1>1, <1>2, <1>8, <4>1, <4>2 DEF Creating, s
    <3>2. CASE Len(s) = 3
      <4>1. r[3] = e /\ s[3] = Last(s) /\ e.ret = s[3].ret
        BY <1>6, <1>7, <3>2 DEF Last
      <4>2. life[SP] # "DEAD" /\ life[SP] # "SETUP"
        <5>1. Len(s) # 1
          BY <3>2
        <5>. QED BY <1>3, <2>0, <5>1 DEF Lives, s
      <4>3. life[SP] = "ALIVE"
        BY <1>3, <4>2
      <4>4. ~(s[3].ret[1] = "create" /\ s[3].ret[2] \in {"save", "cli"})
        BY <1>4, <4>1, <4>3 DEF Resume
      <4>. QED BY <1>1, <1>2, <1>7, <1>8, <4>1, <4>4 DEF Creating, s
    <3>3. CASE Len(s) < 3
      <4>1. ~(Len(s) >= 3) /\ ~(Len(r) >= 3)
        BY <1>5, <1>7, <3>3
      <4>. QED BY <1>1, <1>2, <1>8, <4>1 DEF Creating, s
    <3>4. Len(s) > 3 \/ Len(s) = 3 \/ Len(s) < 3
      <4>1. \A n \in Nat : n > 3 \/ n = 3 \/ n < 3
        OBVIOUS
      <4>. QED BY <1>5, <4>1
    <3>. QED BY <3>1, <3>2, <3>3, <3>4
  <2>3. \A t \in Thread : Creating(t)' = Creating(t)
    BY <1>1, <2>1, <2>2
  <2>4. \A t \in Thread : Len(stack'[t]) = Len(stack[t])
    BY <1>7, <1>8 DEF s
  <2>5. \A t \in Thread : life[t] = "SETUP" => stack'[t] = stack[t]
    BY <1>8, <2>0 DEF Lives
  <2>. HIDE DEF Creating
  <2>6. life' = life /\ hands' = hands /\ osCurrentTask' = osCurrentTask /\ SP' = SP
    BY <1>1 DEF poolVars
  <2>7. \A t, u \in Thread : Creating(t)' # NULL /\ Creating(t)' = Creating(u)' => t = u
    BY <2>0, <2>3 DEF Lives
  <2>8. \A t \in Thread : Creating(t)' # NULL => life'[Creating(t)'] = "SETUP"
    BY <2>0, <2>3, <2>6 DEF Lives
  <2>. QED BY <2>0, <2>4, <2>5, <2>6, <2>7, <2>8 DEF Lives
<1>15. PoolInv'
  <2>1. PoolInv
    BY DEF IInv
  <2>. HIDE DEF PoolInv
  <2>. QED BY <1>1, <1>2, <2>1, PoolKept
<1>. QED BY <1>10, <1>11, <1>12, <1>13, <1>14, <1>15 DEF IInv

LEMMA SwitchStackIInv ==
  ASSUME IInv, SwitchStack
  PROVE  IInv'
<1>1. /\ pc = <<"switch", "stack">> /\ pc' = <<"switch", "restore">>
      /\ SP' = sp[scratch.next] /\ scratch' = Registers
      /\ UNCHANGED <<I, kept, stack, taskVars, poolVars>>
  BY DEF SwitchStack, At
<1>2. pc[1] = "switch" /\ pc[2] = "stack" /\ pc'[1] = "switch" /\ pc'[2] = "restore" /\ pc' \in Place
  BY <1>1 DEF Place, Code, Spot
<1>3. osCurrentTask \in Thread /\ sp = [t \in Thread |-> t] /\ ~I /\ scratch.next = osCurrentTask
  BY <1>2 DEF IInv, Typed, Switching
<1>4. SP' = osCurrentTask
  BY <1>1, <1>3
<1>5. Typed'
  BY <1>1, <1>2, <1>3, <1>4, FrameType DEF IInv, Typed, taskVars, poolVars
<1>6. Running'
  BY <1>2 DEF Running
<1>7. Switching'
  BY <1>1, <1>2, <1>3, <1>4 DEF Switching, taskVars
<1>8. Waiting'
  <2>. SUFFICES ASSUME NEW t \in Thread, life[t] = "ALIVE"
                PROVE  Suspended(t)'
    BY <1>1 DEF Waiting, taskVars
  <2>1. Suspended(t)
    BY <1>1, <1>2 DEF IInv, Waiting
  <2>. QED BY <1>1, <2>1 DEF Suspended, poolVars
<1>9. Lives'
  <2>1. \A t \in Thread : Creating(t)' = Creating(t)
    BY <1>1, <1>2 DEF Creating
  <2>2. Lives
    BY DEF IInv
  <2>. HIDE DEF Creating
  <2>3. UNCHANGED <<life, hands, stack, osCurrentTask>>
    BY <1>1 DEF taskVars, poolVars
  <2>4. \A t \in Thread : Creating(t)' # NULL => life'[Creating(t)'] = "SETUP"
    BY <2>1, <2>2, <2>3 DEF Lives
  <2>5. \A t, u \in Thread : Creating(t)' # NULL /\ Creating(t)' = Creating(u)' => t = u
    BY <2>1, <2>2 DEF Lives
  <2>. QED BY <1>4, <2>2, <2>3, <2>4, <2>5 DEF Lives
<1>10. PoolInv'
  <2>1. PoolInv
    BY DEF IInv
  <2>. HIDE DEF PoolInv
  <2>. QED BY <1>1, <1>2, <2>1, PoolKept
<1>. QED BY <1>5, <1>6, <1>7, <1>8, <1>9, <1>10 DEF IInv

\* What scratch registers have does not matter to a thread that is resumed.
LEMMA AnyScratch ==
  ASSUME NEW t, NEW p, NEW kp, NEW sc, NEW other, NEW s, NEW h,
         Resume(p), Continues(t, p, kp, sc, s, h)
  PROVE  Continues(t, p, kp, other, s, h)
<1>1. CASE p[1] \in {"yield", "create"} /\ p[2] = "restore"
  <2>1. p[1] \in Functions /\ p[1] \in Schedules
    BY <1>1 DEF Functions, Schedules
  <2>2. InCall(t, p, kp, sc, s, h) /\ kp.own = t
    BY <1>1, <2>1 DEF Continues, OwnCode, InHandler, InHandlerCall
  <2>3. InCall(t, p, kp, other, s, h)
    BY <1>1, <2>1, <2>2 DEF InCall
  <2>. QED BY <2>1, <2>2, <2>3, OwnContinues
<1>2. CASE p[1] = "handler" /\ p[2] = "pop"
  <2>1. InHandler(t, p, kp, sc, s, h)
    BY <1>2 DEF Continues, OwnCode, InHandlerCall, Functions
  <2>2. InHandler(t, p, kp, other, s, h)
    BY <1>2, <2>1 DEF InHandler
  <2>. QED BY <2>2 DEF Continues
<1>3. CASE p[1] = "main" /\ p[2] = "sei"
  <2>1. InMain(t, p, kp, sc, s, h) /\ kp.own = t
    BY <1>3 DEF Continues, OwnCode, InHandler, InHandlerCall
  <2>2. InMain(t, p, kp, other, s, h)
    BY <2>1 DEF InMain
  <2>. QED BY <1>3, <2>1, <2>2, OwnContinues
<1>4. CASE p[1] = "start" /\ p[2] = "param"
  <2>1. InStart(t, p, kp, sc, s, h) /\ kp.own = t
    BY <1>4 DEF Continues, OwnCode, InHandler, InHandlerCall
  <2>2. InStart(t, p, kp, other, s, h)
    BY <1>4, <2>1 DEF InStart
  <2>. QED BY <1>4, <2>1, <2>2, OwnContinues
<1>. QED BY <1>1, <1>2, <1>3, <1>4 DEF Resume

LEMMA SwitchRestoreIInv ==
  ASSUME IInv, SwitchRestore
  PROVE  IInv'
<1>. DEFINE s == stack[SP]
            r == Front(s)
<1>1. /\ pc = <<"switch", "restore">>
      /\ pc' = Last(s).ret /\ kept' = Last(s).saved /\ stack' = [stack EXCEPT ![SP] = r]
      /\ UNCHANGED <<I, SP, scratch, taskVars, poolVars>>
  BY DEF SwitchRestore, Return
<1>2. pc[1] = "switch" /\ pc[2] = "restore"
  BY <1>1
<1>3. /\ SP \in Thread /\ scratch \in RegisterValues /\ stack \in [Thread -> Seq(Frames)] /\ s \in Seq(Frames)
      /\ ~I /\ osCurrentTask = SP /\ life[SP] = "ALIVE"
  BY <1>2 DEF IInv, Typed, Switching, Lives
<1>4. Suspended(SP)
  BY <1>1, <1>2, <1>3 DEF IInv, Waiting
<1>5. s # << >> /\ Resume(pc') /\ Continues(SP, pc', kept', Registers, r, hands[SP])
  <2>. HIDE DEF Resume, Continues
  <2>. QED BY <1>1, <1>4 DEF Suspended
<1>6. Continues(SP, pc', kept', scratch, r, hands[SP])
  <2>. HIDE DEF Resume, Continues
  <2>. QED BY <1>5, AnyScratch
<1>7. /\ r \in Seq(Frames) /\ pc' \in Place /\ kept' \in RegisterValues
  <2>. HIDE DEF s
  <2>1. r \in Seq(Frames) /\ Last(s) \in Frames
    BY <1>3, <1>5, Popping
  <2>. QED BY <1>1, <2>1, FrameType
<1>8. pc'[1] # "switch" /\ ~Enabled(pc') /\ pc'[1] \notin {"alloc", "free"}
      /\ (pc'[1] = "create" => pc'[2] = "restore")
  BY <1>5 DEF Resume, Enabled, Functions
<1>9. /\ stack' \in [Thread -> Seq(Frames)] /\ stack'[SP] = r
      /\ \A t \in Thread \ {SP} : stack'[t] = stack[t]
  BY <1>1, <1>3, <1>7
<1>10. Typed'
  BY <1>1, <1>7, <1>9 DEF IInv, Typed, taskVars, poolVars
<1>11. Running'
  <2>1. SP' = SP /\ osCurrentTask' = SP /\ scratch' = scratch /\ hands' = hands /\ ~I'
    BY <1>1, <1>3 DEF taskVars, poolVars
  <2>. HIDE DEF Continues, Enabled, r
  <2>. QED BY <1>6, <1>8, <1>9, <2>1 DEF Running
<1>12. Switching'
  BY <1>8 DEF Switching
<1>13. Waiting'
  <2>. SUFFICES ASSUME NEW t \in Thread, life[t] = "ALIVE", t # SP
                PROVE  Suspended(t)'
    BY <1>1, <1>3, <1>8 DEF Waiting, taskVars
  <2>1. Suspended(t)
    BY <1>1, <1>2 DEF IInv, Waiting
  <2>. QED BY <1>1, <1>9, <2>1 DEF Suspended, poolVars
<1>14. Lives'
  <2>1. \A t \in Thread \ {SP} : Creating(t)' = Creating(t)
    BY <1>1, <1>2, <1>9 DEF Creating
  <2>2. Creating(SP)' \in {NULL, Creating(SP)}
    <3>1. CASE pc'[1] = "create"
      BY <1>1, <1>8, <3>1 DEF Creating
    <3>2. CASE pc'[1] # "create"
      BY <1>1, <1>2, <1>5, <3>2, CreatingLess
    <3>. QED BY <3>1, <3>2
  <2>3. \A t \in Thread : Creating(t)' \in {NULL, Creating(t)}
    BY <1>1, <2>1, <2>2
  <2>4. Lives
    BY DEF IInv
  <2>. HIDE DEF Creating
  <2>5. life' = life /\ hands' = hands /\ osCurrentTask' = osCurrentTask /\ SP' = SP
    BY <1>1 DEF taskVars, poolVars
  <2>6. \A t \in Thread : life[t] # "ALIVE" => stack'[t] = stack[t]
    BY <1>3, <1>9
  <2>7. \A t \in Thread : Creating(t)' # NULL => life'[Creating(t)'] = "SETUP"
    BY <2>3, <2>4, <2>5 DEF Lives
  <2>8. \A t, u \in Thread : Creating(t)' # NULL /\ Creating(t)' = Creating(u)' => t = u
    BY <2>3, <2>4 DEF Lives
  <2>. QED BY <2>4, <2>5, <2>6, <2>7, <2>8 DEF Lives
<1>15. PoolInv'
  <2>1. PoolInv
    BY DEF IInv
  <2>. HIDE DEF PoolInv
  <2>. QED BY <1>1, <1>8, <2>1, PoolKept
<1>. QED BY <1>10, <1>11, <1>12, <1>13, <1>14, <1>15 DEF IInv

----------------------------------------------------------------------------
\* A task begins.
LEMMA StackInit ==
  ASSUME NEW t \in Thread, t # osIdleTask
  PROVE  /\ osPortStackInit(t) \in Seq(Frames) /\ Len(osPortStackInit(t)) = 3 /\ osPortStackInit(t) # << >>
         /\ Last(osPortStackInit(t)).ret = <<"start", "param">>
         /\ Last(osPortStackInit(t)).saved = Own(t)
         /\ osPortStackInit(t)[3].ret = <<"start", "param">>
         /\ Continues(t, <<"start", "param">>, Own(t), Registers, Front(osPortStackInit(t)), NULL)
<1>. DEFINE e1 == Address(<<"exit", "cli">>)
            e2 == Address(<<"body", "entry">>)
            e3 == Frame(<<"start", "param">>, Own(t))
            s1 == Append(<< >>, e1)
            s2 == Append(s1, e2)
            s3 == Append(s2, e3)
<1>1. /\ <<"exit", "cli">> \in Place /\ <<"body", "entry">> \in Place /\ <<"start", "param">> \in Place
  BY DEF Place, Code, Spot
<1>2. /\ e1 \in Frames /\ e2 \in Frames /\ e3 \in Frames
      /\ e3.ret = <<"start", "param">> /\ e3.saved = Own(t) /\ Own(t).own = t
  BY <1>1, FrameType
<1>3. s1 = Base(t) /\ s1 \in Seq(Frames) /\ Len(s1) = 1
  BY BaseType DEF Base
<1>. HIDE DEF e1, e2, e3
<1>4. <<e1, e2, e3>> = s3
  OBVIOUS
<1>. HIDE DEF s1
<1>5. s2 \in Seq(Frames) /\ s2 # << >> /\ Len(s2) = 2 /\ Last(s2) = e2 /\ Front(s2) = s1
  <2>1. s2 \in Seq(Frames) /\ s2 # << >> /\ Len(s2) = Len(s1) + 1 /\ Last(s2) = e2 /\ Front(s2) = s1
    BY <1>2, <1>3, Pushing
  <2>. HIDE DEF s2
  <2>. QED BY <1>3, <2>1
<1>. HIDE DEF s2
<1>6. s3 \in Seq(Frames) /\ s3 # << >> /\ Len(s3) = 3 /\ Last(s3) = e3 /\ Front(s3) = s2 /\ s3[3] = e3
  <2>1. s3 \in Seq(Frames) /\ s3 # << >> /\ Len(s3) = Len(s2) + 1 /\ Last(s3) = e3 /\ Front(s3) = s2
    BY <1>2, <1>5, Pushing
  <2>. HIDE DEF s3
  <2>2. Len(s3) = 3
    BY <1>5, <2>1
  <2>. QED BY <2>1, <2>2 DEF Last
<1>. HIDE DEF s3
<1>7. InStart(t, <<"start", "param">>, Own(t), Registers, s2, NULL)
  BY <1>3, <1>5 DEF InStart, e2
<1>8. Continues(t, <<"start", "param">>, Own(t), Registers, s2, NULL)
  BY <1>2, <1>7, OwnContinues
<1>9. osPortStackInit(t) = s3
  BY <1>4 DEF osPortStackInit, e1, e2, e3
<1>. QED BY <1>2, <1>6, <1>8, <1>9

LEMMA ReadyIInv ==
  ASSUME IInv, Ready
  PROVE  IInv'
<1>. DEFINE n == scratch.next
<1>1. /\ pc = <<"create", "ready">> /\ pc' = <<"create", "schedule">>
      /\ life' = [life EXCEPT ![n] = "ALIVE"]
      /\ UNCHANGED <<I, SP, kept, scratch, stack, osCurrentTask, sp, poolVars>>
  BY DEF Ready, At, registers
<1>2. /\ pc[1] = "create" /\ pc[2] = "ready" /\ pc'[1] = "create" /\ pc'[2] = "schedule" /\ pc' \in Place
      /\ pc[1] # "switch" /\ pc'[1] # "switch" /\ "create" \in Functions /\ "create" \in Schedules
  BY <1>1 DEF Place, Code, Spot, Functions, Schedules
<1>3. /\ SP \in Thread /\ SP = osCurrentTask /\ kept.own = SP
      /\ scratch \in RegisterValues /\ life \in [Thread -> {"DEAD", "SETUP", "ALIVE"}]
      /\ InCall(SP, pc, kept, scratch, stack[SP], hands[SP]) /\ ~ByHandler /\ ~I
  <2>1. ~InHandlerCall(SP, pc, kept, scratch, stack[SP], hands[SP])
    BY <1>2 DEF InHandlerCall
  <2>. HIDE DEF InCall, InHandlerCall
  <2>2. life \in [Thread -> {"DEAD", "SETUP", "ALIVE"}]
    BY DEF IInv, Typed
  <2>. QED BY <1>2, <2>1, <2>2, InFunction
<1>4. n # NULL /\ n \in Thread /\ Creating(SP) = n /\ Creating(SP)' = NULL
  <2>1. n # NULL
    BY <1>2, <1>3 DEF InCall
  <2>2. n \in Thread
    BY <1>3, <2>1 DEF RegisterValues
  <2>. QED BY <1>1, <1>2, <2>1, <2>2 DEF Creating
<1>. HIDE DEF n
<1>5. life[n] = "SETUP" /\ n # SP /\ n # osIdleTask /\ stack[n] = osPortStackInit(n) /\ hands[n] = NULL
  <2>. HIDE DEF Creating
  <2>1. life[n] = "SETUP"
    BY <1>3, <1>4 DEF IInv, Lives
  <2>. QED BY <1>3, <1>4, <2>1 DEF IInv, Lives
<1>6. /\ life' \in [Thread -> {"DEAD", "SETUP", "ALIVE"}] /\ life'[n] = "ALIVE"
      /\ \A t \in Thread \ {n} : life'[t] = life[t]
  BY <1>1, <1>3, <1>4
<1>7. Typed'
  BY <1>1, <1>2, <1>6 DEF IInv, Typed, poolVars
<1>8. Running'
  <2>1. InCall(SP, pc', kept, scratch, stack[SP], hands[SP])
    BY <1>2, <1>3 DEF InCall
  <2>2. Continues(SP, pc', kept, scratch, stack[SP], hands[SP])
    BY <1>2, <1>3, <2>1, OwnContinues
  <2>3. ~Enabled(pc')
    BY <1>2 DEF Enabled
  <2>4. UNCHANGED <<SP, osCurrentTask, kept, scratch, stack, hands, I>>
    BY <1>1 DEF poolVars
  <2>. HIDE DEF Continues, Enabled
  <2>. QED BY <1>3, <2>2, <2>3, <2>4 DEF Running
<1>9. Switching'
  BY <1>2 DEF Switching
<1>10. Waiting'
  <2>. SUFFICES ASSUME NEW t \in Thread, life'[t] = "ALIVE", t # SP
                PROVE  Suspended(t)'
    BY <1>1, <1>2, <1>3 DEF Waiting
  <2>1. Suspended(t)
    <3>1. CASE t = n
      <4>1. stack[t] = osPortStackInit(t) /\ hands[t] = NULL /\ t # osIdleTask
        BY <1>5, <3>1
      <4>2. Resume(<<"start", "param">>)
        BY DEF Resume
      <4>3. LET s == osPortStackInit(t) IN
              /\ s # << >> /\ Last(s).ret = <<"start", "param">> /\ Last(s).saved = Own(t)
              /\ Continues(t, <<"start", "param">>, Own(t), Registers, Front(s), NULL)
        <5>. HIDE DEF osPortStackInit, Continues, Own
        <5>. QED BY <4>1, StackInit
      <4>. HIDE DEF Resume, Continues, osPortStackInit
      <4>. QED BY <4>1, <4>2, <4>3 DEF Suspended
    <3>2. CASE t # n
      BY <1>2, <1>3, <1>6, <3>2 DEF IInv, Waiting
    <3>. QED BY <3>1, <3>2
  <2>. QED BY <1>1, <2>1 DEF Suspended, poolVars
<1>11. Lives'
  <2>1. \A t \in Thread \ {SP} : Creating(t)' = Creating(t)
    BY <1>1, <1>2 DEF Creating
  <2>2. Lives
    BY DEF IInv
  <2>. HIDE DEF Creating
  <2>3. UNCHANGED <<SP, osCurrentTask, stack, hands>>
    BY <1>1 DEF poolVars
  <2>4. \A t \in Thread : Creating(t)' # NULL =>
          t # SP /\ Creating(t)' = Creating(t) /\ Creating(t) \in Thread /\ Creating(t) # n
    BY <1>3, <1>4, <2>1, <2>2, <2>3, CreatingType DEF Lives
  <2>5. \A t \in Thread : Creating(t)' # NULL => life'[Creating(t)'] = "SETUP"
    <3>. SUFFICES ASSUME NEW t \in Thread, Creating(t)' # NULL
                  PROVE  life'[Creating(t)'] = "SETUP"
      OBVIOUS
    <3>1. Creating(t)' = Creating(t) /\ Creating(t) \in Thread \ {n} /\ life[Creating(t)] = "SETUP"
      BY <2>2, <2>4 DEF Lives
    <3>. QED BY <1>6, <3>1
  <2>6. \A t, u \in Thread : Creating(t)' # NULL /\ Creating(t)' = Creating(u)' => t = u
    BY <2>2, <2>4 DEF Lives
  <2>7. \A t \in Thread : life'[t] # "ALIVE" => life'[t] = life[t]
    BY <1>6
  <2>8. life'[osCurrentTask] = "ALIVE" /\ life'[osIdleTask] = "ALIVE" /\ life'[SP] = "ALIVE"
    BY <1>3, <1>5, <1>6, <2>2 DEF Lives, Thread
  <2>. QED BY <2>2, <2>3, <2>5, <2>6, <2>7, <2>8 DEF Lives
<1>12. PoolInv'
  <2>1. PoolInv
    BY DEF IInv
  <2>. HIDE DEF PoolInv
  <2>. QED BY <1>1, <1>2, <2>1, PoolKept
<1>. QED BY <1>7, <1>8, <1>9, <1>10, <1>11, <1>12 DEF IInv

\* What is known of a step outside of the functions and of the switch.
LEMMA Outside ==
  ASSUME IInv, pc[1] \in {"main", "start", "body", "exit", "handler"}
  PROVE  /\ SP \in Thread /\ SP = osCurrentTask /\ kept.own = SP
         /\ kept \in RegisterValues /\ scratch \in RegisterValues /\ I \in BOOLEAN
         /\ hands \in [User -> Block \cup {NULL}]
         /\ stack \in [Thread -> Seq(Frames)] /\ stack[SP] \in Seq(Frames)
         /\ PoolInv /\ pc[1] # "switch" /\ pc[1] # "create"
<1>1. /\ SP \in Thread /\ kept \in RegisterValues /\ scratch \in RegisterValues /\ I \in BOOLEAN
      /\ hands \in [User -> Block \cup {NULL}]
      /\ stack \in [Thread -> Seq(Frames)] /\ stack[SP] \in Seq(Frames) /\ PoolInv
  BY DEF IInv, Typed
<1>. QED BY <1>1, Here

LEMMA StartParamIInv ==
  ASSUME IInv, StartParam
  PROVE  IInv'
<1>1. /\ pc = <<"start", "param">> /\ pc' = <<"start", "sei">>
      /\ scratch' = Own(kept.own)
      /\ UNCHANGED <<I, SP, kept, stack, taskVars, poolVars>>
  BY DEF StartParam, At
<1>2. pc[1] = "start" /\ pc[2] = "param" /\ pc'[1] = "start" /\ pc'[2] = "sei" /\ pc' \in Place
  BY <1>1 DEF Place, Code, Spot
<1>3. /\ SP \in Thread /\ SP = osCurrentTask /\ kept.own = SP
      /\ kept \in RegisterValues /\ scratch \in RegisterValues /\ I \in BOOLEAN
      /\ hands \in [User -> Block \cup {NULL}]
      /\ stack \in [Thread -> Seq(Frames)] /\ stack[SP] \in Seq(Frames) /\ PoolInv
  BY <1>2, Outside
<1>4. InStart(SP, pc, kept, scratch, stack[SP], hands[SP])
  <2>. HIDE DEF InStart
  <2>. QED BY <1>2, Here
<1>5. scratch' \in RegisterValues /\ scratch'.own = SP
  BY <1>1, <1>3, FrameType
<1>6. Continues(SP, pc', kept, scratch', stack[SP], hands[SP])
  <2>1. InStart(SP, pc', kept, scratch', stack[SP], hands[SP])
    BY <1>2, <1>4, <1>5 DEF InStart
  <2>. QED BY <1>2, <1>3, <2>1, OwnContinues
<1>7. ~I /\ ~Enabled(pc')
  BY <1>2 DEF IInv, Running, Enabled, Functions
<1>8. PoolInv'
  BY <1>1, <1>2, <1>3, PoolKept
<1>9. hands' = hands /\ UNCHANGED <<I, SP, kept, stack, taskVars>>
  BY <1>1 DEF poolVars
<1>. HIDE DEF PoolInv, IInv, Continues, Enabled, ByHandler
<1>. QED BY <1>2, <1>3, <1>5, <1>6, <1>7, <1>8, <1>9, Inside

LEMMA StartEnableIInv ==
  ASSUME IInv, StartEnable
  PROVE  IInv'
<1>. DEFINE s == stack[SP]
            r == Front(s)
            h == hands[SP]
<1>1. /\ pc = <<"start", "sei">> /\ pc' = Last(s).ret /\ I' = TRUE
      /\ stack' = [stack EXCEPT ![SP] = r]
      /\ UNCHANGED <<SP, kept, scratch, taskVars, poolVars>>
  BY DEF StartEnable, Return, registers
<1>2. pc[1] = "start" /\ pc[2] = "sei"
  BY <1>1
<1>3. /\ SP \in Thread /\ SP = osCurrentTask /\ kept.own = SP
      /\ kept \in RegisterValues /\ scratch \in RegisterValues /\ I \in BOOLEAN
      /\ hands \in [User -> Block \cup {NULL}]
      /\ stack \in [Thread -> Seq(Frames)] /\ s \in Seq(Frames) /\ PoolInv
  BY <1>2, Outside
<1>4. InStart(SP, pc, kept, scratch, s, h)
  <2>. HIDE DEF InStart
  <2>. QED BY <1>2, Here
<1>5. /\ SP # osIdleTask /\ s # << >> /\ r = Base(SP) /\ Last(s) = Address(<<"body", "entry">>)
      /\ scratch.own = SP /\ h = NULL
  BY <1>2, <1>4 DEF InStart
<1>6. pc' = <<"body", "entry">> /\ pc' \in Place
  <2>1. <<"body", "entry">> \in Place
    BY DEF Place, Code, Spot
  <2>. QED BY <1>1, <1>5, <2>1, FrameType
<1>7. pc'[1] = "body" /\ pc'[2] = "entry"
  BY <1>6
<1>8. InBody(SP, pc', kept, scratch, r, h)
  BY <1>5, <1>7 DEF InBody
<1>9. OwnCode(SP, pc', kept, scratch, r, h) /\ Continues(SP, pc', kept, scratch, r, h)
  <2>. HIDE DEF InBody, OwnCode, Continues
  <2>. QED BY <1>3, <1>7, <1>8, OwnContinues
<1>10. ~(r # << >> /\ Last(r).ret[1] = "handler")
  BY <1>3, <1>9, OwnTop
<1>11. Enabled(pc')
  BY <1>7 DEF Enabled
<1>12. r \in Seq(Frames)
  BY <1>3, <1>5, BaseType
<1>13. Creating(SP)' \in {NULL, Creating(SP)}
  BY <1>1, <1>2, <1>5, <1>7, CreatingLess
<1>14. PoolInv'
  BY <1>1, <1>3, <1>7, PoolKept
<1>15. hands' = hands /\ h = hands'[SP] /\ pc'[1] # "switch" /\ pc[1] # "switch"
  BY <1>1, <1>2, <1>7 DEF poolVars
<1>. HIDE DEF PoolInv, IInv, Continues, OwnCode, Enabled, InBody, Creating, r
<1>. QED BY <1>1, <1>3, <1>6, <1>9, <1>10, <1>11, <1>12, <1>13, <1>14, <1>15, Local

----------------------------------------------------------------------------
\* Interrupts.
LEMMA InterruptIInv ==
  ASSUME IInv, Interrupt
  PROVE  IInv'
<1>. DEFINE s == stack[SP]
            e == Frame(pc, scratch)
            r == Append(s, e)
            h == hands[SP]
<1>1. /\ I /\ pc' = <<"handler", "run">> /\ I' = FALSE
      /\ stack' = [stack EXCEPT ![SP] = r] /\ scratch' = Registers
      /\ UNCHANGED <<SP, kept, taskVars, poolVars>>
  BY DEF Interrupt, Push
<1>2. pc'[1] = "handler" /\ pc'[2] = "run" /\ pc' \in Place
  BY <1>1 DEF Place, Code, Spot
<1>3. /\ SP \in Thread /\ kept \in RegisterValues /\ scratch \in RegisterValues /\ pc \in Place
      /\ stack \in [Thread -> Seq(Frames)] /\ s \in Seq(Frames)
      /\ hands \in [User -> Block \cup {NULL}] /\ PoolInv
  BY DEF IInv, Typed
<1>4. pc[1] # "switch"
  BY <1>1 DEF IInv, Switching
<1>5. Continues(SP, pc, kept, scratch, s, h) /\ Enabled(pc) /\ ~ByHandler
  <2>. HIDE DEF Continues, Enabled, ByHandler
  <2>. QED BY <1>1, <1>4 DEF IInv, Running
<1>6. OwnCode(SP, pc, kept, scratch, s, h)
  <2>1. ~InHandler(SP, pc, kept, scratch, s, h)
    BY <1>5 DEF InHandler, Enabled, Functions
  <2>2. ~InHandlerCall(SP, pc, kept, scratch, s, h)
    <3>1. <<"handler", "called">> \in Place
      BY DEF Place, Code, Spot
    <3>2. Address(<<"handler", "called">>).ret[1] = "handler"
      BY <3>1, FrameType
    <3>. QED BY <1>5, <3>2 DEF InHandlerCall, ByHandler
  <2>. HIDE DEF InHandler, InHandlerCall, OwnCode
  <2>. QED BY <1>5, <2>1, <2>2 DEF Continues
<1>7. e \in Frames /\ e.ret = pc /\ e.saved = scratch
  BY <1>3, FrameType
<1>8. pc[1] = "create" => Len(s) = 2
  <2>. SUFFICES ASSUME pc[1] = "create" PROVE Len(s) = 2
    OBVIOUS
  <2>1. SP # osIdleTask /\ s # << >> /\ Front(s) = Base(SP)
    BY <1>6 DEF OwnCode, InCall, Functions
  <2>. HIDE DEF s
  <2>2. Len(s) = Len(Front(s)) + 1
    BY <1>3, <2>1, Popping
  <2>3. Len(Base(SP)) = 1
    BY <1>3, <2>1, BaseType
  <2>. QED BY <2>1, <2>2, <2>3
<1>9. Creating(SP)' \in {NULL, Creating(SP)}
  <2>. HIDE DEF e
  <2>. QED BY <1>1, <1>2, <1>7, <1>8, CreatingMore
<1>. HIDE DEF e, s
<1>10. r \in Seq(Frames) /\ r # << >> /\ Last(r) = e /\ Front(r) = s
  BY <1>3, <1>7, Pushing
<1>. HIDE DEF r
<1>11. Continues(SP, pc', kept, scratch', r, h)
  <2>1. Interrupted(SP, kept, r, h)
    <3>. HIDE DEF Enabled, OwnCode
    <3>. QED BY <1>5, <1>6, <1>7, <1>10 DEF Interrupted
  <2>. HIDE DEF Interrupted
  <2>. QED BY <1>2, <2>1 DEF Continues, InHandler
<1>12. ~Enabled(pc')
  BY <1>2 DEF Enabled, Functions
<1>13. PoolInv'
  BY <1>1, <1>2, <1>3, PoolKept
<1>14. scratch' \in RegisterValues /\ hands' = hands /\ h = hands'[SP] /\ pc'[1] # "switch" /\ UNCHANGED <<SP, kept, taskVars>>
  BY <1>1, <1>2, FrameType DEF poolVars
<1>. HIDE DEF PoolInv, IInv, Continues, Enabled, Creating
<1>. QED BY <1>1, <1>2, <1>3, <1>4, <1>9, <1>10, <1>11, <1>12, <1>13, <1>14, Local

LEMMA HandlerUsesPoolIInv ==
  ASSUME IInv, HandlerUsesPool
  PROVE  IInv'
<1>. DEFINE s == stack[SP]
            e == Address(<<"handler", "called">>)
            r == Append(s, e)
            h == hands[SP]
<1>1. PICK f, b :
        /\ HandlerCalls(f, b) /\ b = hands[handler]
        /\ \/ f = "alloc" /\ b = NULL
           \/ f = "free" /\ b # NULL
  BY DEF HandlerUsesPool
<1>2. /\ pc = <<"handler", "run">> /\ pc' = <<f, "save">>
      /\ stack' = [stack EXCEPT ![SP] = r] /\ scratch' = [Registers EXCEPT !.block = b]
      /\ UNCHANGED <<I, SP, kept, taskVars, poolVars>>
  BY <1>1 DEF HandlerCalls, Push
<1>3. /\ pc[1] = "handler" /\ pc[2] = "run" /\ pc'[1] = f /\ pc'[2] = "save" /\ pc' \in Place
      /\ f \in {"alloc", "free"} /\ pc'[1] # "switch" /\ pc'[1] # "create"
  BY <1>1, <1>2 DEF Place, Code, Spot, Functions
<1>4. /\ SP \in Thread /\ kept.own = SP /\ kept \in RegisterValues /\ I \in BOOLEAN
      /\ stack \in [Thread -> Seq(Frames)] /\ s \in Seq(Frames)
      /\ hands \in [User -> Block \cup {NULL}] /\ PoolInv /\ pc[1] # "switch" /\ pc[1] # "create"
  BY <1>3, Outside
<1>5. InHandler(SP, pc, kept, scratch, s, h)
  <2>. HIDE DEF InHandler
  <2>. QED BY <1>3, Here
<1>6. ~I
  BY <1>3, <1>4 DEF IInv, Running, Enabled, Functions
<1>7. b \in Block \cup {NULL} /\ handler \in User
  BY <1>1, <1>4 DEF User
<1>8. scratch' \in RegisterValues /\ scratch'.block = b
  BY <1>2, <1>7 DEF Registers, RegisterValues
<1>9. e \in Frames /\ e.ret = <<"handler", "called">>
  <2>1. <<"handler", "called">> \in Place
    BY DEF Place, Code, Spot
  <2>. QED BY <2>1, FrameType
<1>10. Creating(SP)' \in {NULL, Creating(SP)}
  <2>. HIDE DEF e
  <2>1. e.ret[1] = "handler"
    BY <1>9
  <2>. QED BY <1>2, <1>3, <1>4, <1>9, <2>1, CreatingMore
<1>. HIDE DEF e, s
<1>11. r \in Seq(Frames) /\ r # << >> /\ Last(r) = e /\ Front(r) = s
  BY <1>4, <1>9, Pushing
<1>. HIDE DEF r
<1>12. Continues(SP, pc', kept, scratch', r, h)
  <2>1. Interrupted(SP, kept, s, h)
    BY <1>5 DEF InHandler
  <2>. HIDE DEF Interrupted
  <2>2. InHandlerCall(SP, pc', kept, scratch', r, h)
    BY <1>3, <1>11, <2>1 DEF InHandlerCall, e
  <2>. QED BY <2>2 DEF Continues
<1>13. stack'[SP] = r /\ Last(r).ret[1] = "handler" /\ SP' = SP
  BY <1>2, <1>4, <1>9, <1>11
<1>14. PoolInv'
  BY <1>1, <1>2, <1>3, <1>4, <1>8, PoolKept
<1>15. hands' = hands /\ h = hands'[SP] /\ UNCHANGED <<SP, kept, taskVars>> /\ I' \in BOOLEAN
  BY <1>2, <1>4 DEF poolVars
<1>16. I' <=> (Enabled(pc') /\ ~(r # << >> /\ Last(r).ret[1] = "handler"))
  BY <1>2, <1>6, <1>11, <1>13
<1>. HIDE DEF PoolInv, IInv, Continues, Enabled, Creating
<1>. QED BY <1>2, <1>3, <1>4, <1>6, <1>8, <1>10, <1>11, <1>12, <1>14, <1>15, <1>16, Local

LEMMA HandlerDoneIInv ==
  ASSUME IInv, HandlerDone
  PROVE  IInv'
<1>1. /\ pc[1] = "handler" /\ pc' = <<"handler", "schedule">>
      /\ scratch' = Registers
      /\ UNCHANGED <<I, SP, kept, stack, taskVars, poolVars>>
  BY DEF HandlerDone, At
<1>2. pc'[1] = "handler" /\ pc'[2] = "schedule" /\ pc' \in Place
  BY <1>1 DEF Place, Code, Spot
<1>3. /\ SP \in Thread /\ kept.own = SP
      /\ kept \in RegisterValues /\ I \in BOOLEAN
      /\ hands \in [User -> Block \cup {NULL}]
      /\ PoolInv /\ scratch' \in RegisterValues
  BY <1>1, Outside, FrameType
<1>4. InHandler(SP, pc, kept, scratch, stack[SP], hands[SP])
  <2>. HIDE DEF InHandler
  <2>. QED BY <1>1, Here
<1>5. Continues(SP, pc', kept, scratch', stack[SP], hands[SP])
  <2>. HIDE DEF Interrupted
  <2>. QED BY <1>2, <1>4 DEF InHandler, Continues
<1>6. ~I /\ ~Enabled(pc')
  BY <1>1, <1>2, <1>3 DEF IInv, Running, Enabled, Functions
<1>7. PoolInv'
  BY <1>1, <1>2, <1>3, PoolKept
<1>8. hands' = hands /\ UNCHANGED <<I, SP, kept, stack, taskVars>>
  BY <1>1 DEF poolVars
<1>. HIDE DEF PoolInv, IInv, Continues, Enabled, ByHandler
<1>. QED BY <1>1, <1>2, <1>3, <1>5, <1>6, <1>7, <1>8, Inside

LEMMA InterruptPopsIInv ==
  ASSUME IInv, InterruptPops
  PROVE  IInv'
<1>. DEFINE s == stack[SP]
<1>1. /\ pc = <<"handler", "pop">> /\ pc' = <<"handler", "reti">>
      /\ scratch' = Last(s).saved
      /\ UNCHANGED <<I, SP, kept, stack, taskVars, poolVars>>
  BY DEF InterruptPops, At
<1>2. pc[1] = "handler" /\ pc'[1] = "handler" /\ pc'[2] = "reti" /\ pc' \in Place
  BY <1>1 DEF Place, Code, Spot
<1>3. /\ SP \in Thread /\ kept.own = SP
      /\ kept \in RegisterValues /\ I \in BOOLEAN
      /\ hands \in [User -> Block \cup {NULL}]
      /\ PoolInv /\ s \in Seq(Frames)
  BY <1>2, Outside
<1>4. InHandler(SP, pc, kept, scratch, s, hands[SP])
  <2>. HIDE DEF InHandler
  <2>. QED BY <1>2, Here
<1>5. Continues(SP, pc', kept, scratch', s, hands[SP]) /\ s # << >>
  <2>1. s # << >>
    BY <1>4 DEF InHandler, Interrupted
  <2>. HIDE DEF Interrupted, s
  <2>. QED BY <1>1, <1>2, <1>4, <2>1 DEF InHandler, Continues
<1>6. scratch' \in RegisterValues
  <2>. HIDE DEF s
  <2>. QED BY <1>1, <1>3, <1>5, Popping, FrameType
<1>7. ~I /\ ~Enabled(pc')
  BY <1>2, <1>3 DEF IInv, Running, Enabled, Functions
<1>8. PoolInv'
  BY <1>1, <1>2, <1>3, PoolKept
<1>9. hands' = hands /\ UNCHANGED <<I, SP, kept, stack, taskVars>>
  BY <1>1 DEF poolVars
<1>. HIDE DEF PoolInv, IInv, Continues, Enabled, ByHandler
<1>. QED BY <1>1, <1>2, <1>3, <1>5, <1>6, <1>7, <1>8, <1>9, Inside

LEMMA InterruptReturnsIInv ==
  ASSUME IInv, InterruptReturns
  PROVE  IInv'
<1>. DEFINE s == stack[SP]
            r == Front(s)
            h == hands[SP]
<1>1. /\ pc = <<"handler", "reti">> /\ pc' = Last(s).ret /\ I' = TRUE
      /\ stack' = [stack EXCEPT ![SP] = r]
      /\ UNCHANGED <<SP, kept, scratch, taskVars, poolVars>>
  BY DEF InterruptReturns, Return, registers
<1>2. pc[1] = "handler" /\ pc[2] = "reti"
  BY <1>1
<1>3. /\ SP \in Thread /\ kept.own = SP
      /\ kept \in RegisterValues /\ scratch \in RegisterValues
      /\ hands \in [User -> Block \cup {NULL}]
      /\ stack \in [Thread -> Seq(Frames)] /\ s \in Seq(Frames) /\ PoolInv
      /\ pc[1] # "switch" /\ pc[1] # "create"
  BY <1>2, Outside
<1>4. InHandler(SP, pc, kept, scratch, s, h)
  <2>. HIDE DEF InHandler
  <2>. QED BY <1>2, Here
<1>5. s # << >> /\ Enabled(pc') /\ OwnCode(SP, pc', kept, scratch, r, h) /\ scratch = Last(s).saved
  <2>. HIDE DEF Enabled, OwnCode
  <2>. QED BY <1>1, <1>2, <1>4 DEF InHandler, Interrupted
<1>6. pc'[1] # "switch" /\ (pc'[1] \in Functions => pc'[2] \in {"save", "cli", "ret"})
      /\ pc'[1] \in {"body", "exit"} \cup Functions
  BY <1>5 DEF Enabled, Functions
<1>7. ~(r # << >> /\ Last(r).ret[1] = "handler")
  BY <1>3, <1>5, OwnTop
<1>8. Continues(SP, pc', kept, scratch, r, h)
  <2>. HIDE DEF OwnCode
  <2>. QED BY <1>5 DEF Continues
<1>9. Last(s) \in Frames /\ r \in Seq(Frames) /\ pc' \in Place /\ Len(s) = Len(r) + 1 /\ Len(s) \in Nat
  <2>. HIDE DEF s
  <2>1. Last(s) \in Frames /\ r \in Seq(Frames) /\ Len(r) = Len(s) - 1 /\ Len(s) \in Nat
    BY <1>3, <1>5, Popping
  <2>2. pc' \in Place
    BY <1>1, <2>1, FrameType
  <2>. QED BY <2>1, <2>2
<1>10. Creating(SP)' \in {NULL, Creating(SP)}
  <2>1. CASE pc'[1] = "create"
    <3>1. SP # osIdleTask /\ r # << >> /\ Front(r) = Base(SP)
      BY <1>5, <2>1 DEF OwnCode, InCall, Functions
    <3>. HIDE DEF r
    <3>2. Len(r) = Len(Front(r)) + 1
      BY <1>9, <3>1, Popping
    <3>3. Len(Base(SP)) = 1
      BY <1>3, <3>1, BaseType
    <3>4. Len(s) = 3
      BY <1>9, <3>1, <3>2, <3>3
    <3>5. s[3].ret = pc' /\ s[3].saved = scratch /\ Len(s) >= 3
      BY <1>1, <1>5, <3>4 DEF Last
    <3>6. SP' = SP /\ scratch' = scratch /\ pc'[2] \in {"save", "cli", "ret"}
      BY <1>1, <1>6, <2>1 DEF Functions
    <3>. HIDE DEF s
    <3>7. s = stack[SP]
      BY DEF s
    <3>. QED BY <1>3, <2>1, <3>5, <3>6, <3>7 DEF Creating
  <2>2. CASE pc'[1] # "create"
    BY <1>1, <1>3, <1>5, <2>2, CreatingLess
  <2>. QED BY <2>1, <2>2
<1>11. PoolInv'
  <2>1. stack'[SP] = r /\ SP' = SP
    BY <1>1, <1>3, <1>9
  <2>2. ~ByHandler'
    BY <1>7, <2>1 DEF ByHandler
  <2>3. pc'[1] \in {"alloc", "free"} => pc'[2] \notin {"next", "head"}
    BY <1>6 DEF Functions
  <2>. QED BY <1>1, <1>3, <2>2, <2>3, PoolKept
<1>12. hands' = hands /\ h = hands'[SP]
  BY <1>1 DEF poolVars
<1>. HIDE DEF PoolInv, IInv, Continues, OwnCode, Enabled, Creating, r
<1>. QED BY <1>1, <1>3, <1>5, <1>6, <1>7, <1>8, <1>9, <1>10, <1>11, <1>12, Local

----------------------------------------------------------------------------
\* osRun.
LEMMA RunDisableIInv ==
  ASSUME IInv, RunDisable
  PROVE  IInv'
<1>1. /\ pc = <<"main", "cli">> /\ pc' = <<"main", "schedule">> /\ I' = FALSE
      /\ UNCHANGED <<SP, kept, scratch, stack, taskVars, poolVars>>
  BY DEF RunDisable, At, registers
<1>2. pc[1] = "main" /\ pc'[1] = "main" /\ pc'[2] = "schedule" /\ pc' \in Place
  BY <1>1 DEF Place, Code, Spot
<1>3. /\ SP \in Thread /\ kept.own = SP
      /\ kept \in RegisterValues /\ scratch \in RegisterValues
      /\ hands \in [User -> Block \cup {NULL}] /\ PoolInv
  BY <1>2, Outside
<1>4. InMain(SP, pc, kept, scratch, stack[SP], hands[SP])
  <2>. HIDE DEF InMain
  <2>. QED BY <1>2, Here
<1>5. Continues(SP, pc', kept, scratch, stack[SP], hands[SP])
  <2>1. InMain(SP, pc', kept, scratch, stack[SP], hands[SP])
    BY <1>2, <1>4 DEF InMain
  <2>. QED BY <1>2, <1>3, <2>1, OwnContinues
<1>6. ~Enabled(pc')
  BY <1>2 DEF Enabled, Functions
<1>7. PoolInv'
  BY <1>1, <1>2, <1>3, PoolKept
<1>8. hands' = hands /\ UNCHANGED <<SP, kept, scratch, stack, taskVars>>
  BY <1>1 DEF poolVars
<1>. HIDE DEF PoolInv, IInv, Continues, Enabled, ByHandler
<1>. QED BY <1>1, <1>2, <1>3, <1>5, <1>6, <1>7, <1>8, Inside

LEMMA RunEnableIInv ==
  ASSUME IInv, RunEnable
  PROVE  IInv'
<1>1. /\ pc = <<"main", "sei">> /\ pc' = <<"body", "run">> /\ I' = TRUE
      /\ scratch' = Own(kept.own)
      /\ UNCHANGED <<SP, kept, stack, taskVars, poolVars>>
  BY DEF RunEnable
<1>2. pc[1] = "main" /\ pc'[1] = "body" /\ pc'[2] = "run" /\ pc' \in Place
  BY <1>1 DEF Place, Code, Spot
<1>3. /\ SP \in Thread /\ kept.own = SP
      /\ kept \in RegisterValues
      /\ hands \in [User -> Block \cup {NULL}] /\ PoolInv
  BY <1>2, Outside
<1>4. scratch' \in RegisterValues /\ scratch'.own = SP
  BY <1>1, <1>3, FrameType
<1>5. InMain(SP, pc, kept, scratch, stack[SP], hands[SP])
  <2>. HIDE DEF InMain
  <2>. QED BY <1>2, Here
<1>6. Continues(SP, pc', kept, scratch', stack[SP], hands[SP])
  <2>1. InBody(SP, pc', kept, scratch', stack[SP], hands[SP])
    BY <1>2, <1>4, <1>5 DEF InMain, InBody, Base
  <2>. QED BY <1>2, <1>3, <2>1, OwnContinues
<1>7. Enabled(pc') /\ ~ByHandler
  BY <1>2, <1>5 DEF Enabled, InMain, ByHandler
<1>8. PoolInv'
  BY <1>1, <1>2, <1>3, PoolKept
<1>9. hands' = hands /\ UNCHANGED <<SP, kept, stack, taskVars>>
  BY <1>1 DEF poolVars
<1>. HIDE DEF PoolInv, IInv, Continues, Enabled, ByHandler
<1>. QED BY <1>1, <1>2, <1>3, <1>4, <1>6, <1>7, <1>8, <1>9, Inside

----------------------------------------------------------------------------
\* The functions of tasks.
LEMMA InTheBody ==
  ASSUME IInv, pc[1] = "body"
  PROVE  /\ InBody(SP, pc, kept, scratch, stack[SP], hands[SP])
         /\ I = TRUE /\ ~ByHandler /\ life[SP] = "ALIVE"
<1>1. InBody(SP, pc, kept, scratch, stack[SP], hands[SP]) /\ I /\ SP = osCurrentTask
  <2>. HIDE DEF InBody
  <2>. QED BY Here
<1>2. ~ByHandler
  <2>. HIDE DEF ByHandler, Enabled
  <2>. QED BY <1>1 DEF IInv, Running
<1>3. I = TRUE /\ life[SP] = "ALIVE"
  BY <1>1 DEF IInv, Typed, Lives
<1>. QED BY <1>1, <1>2, <1>3

LEMMA EntryIInv ==
  ASSUME IInv, Entry
  PROVE  IInv'
<1>1. /\ pc = <<"body", "entry">> /\ pc' = <<"body", "run">>
      /\ kept' = Own(scratch.own)
      /\ UNCHANGED <<I, SP, scratch, stack, taskVars, poolVars>>
  BY DEF Entry, At
<1>2. pc[1] = "body" /\ pc[2] = "entry" /\ pc'[1] = "body" /\ pc'[2] = "run" /\ pc' \in Place
  BY <1>1 DEF Place, Code, Spot
<1>3. /\ SP \in Thread /\ kept.own = SP /\ I \in BOOLEAN
      /\ kept \in RegisterValues /\ scratch \in RegisterValues
      /\ hands \in [User -> Block \cup {NULL}] /\ PoolInv
  BY <1>2, Outside
<1>4. InBody(SP, pc, kept, scratch, stack[SP], hands[SP]) /\ I = TRUE /\ ~ByHandler
  <2>. HIDE DEF InBody, ByHandler
  <2>. QED BY <1>2, InTheBody
<1>5. scratch.own = SP /\ hands[SP] = NULL /\ stack[SP] = Base(SP)
  BY <1>2, <1>4 DEF InBody
<1>6. kept' \in RegisterValues /\ kept'.own = SP /\ kept'.block = NULL
  BY <1>1, <1>3, <1>5, FrameType
<1>7. Continues(SP, pc', kept', scratch, stack[SP], hands[SP])
  <2>1. InBody(SP, pc', kept', scratch, stack[SP], hands[SP])
    BY <1>2, <1>5, <1>6 DEF InBody
  <2>. QED BY <1>2, <1>6, <2>1, OwnContinues
<1>8. Enabled(pc')
  BY <1>2 DEF Enabled
<1>9. PoolInv'
  BY <1>1, <1>2, <1>3, PoolKept
<1>10. hands' = hands /\ UNCHANGED <<I, SP, scratch, stack, taskVars>>
  BY <1>1 DEF poolVars
<1>. HIDE DEF PoolInv, IInv, Continues, Enabled, ByHandler
<1>. QED BY <1>2, <1>3, <1>4, <1>6, <1>7, <1>8, <1>9, <1>10, Inside

LEMMA CalledIInv ==
  ASSUME IInv, Called
  PROVE  IInv'
<1>1. /\ \/ pc = <<"body", "allocated">> /\ kept' = [kept EXCEPT !.block = scratch.block]
         \/ pc = <<"body", "freed">> /\ kept' = [kept EXCEPT !.block = NULL]
         \/ pc = <<"body", "called">> /\ kept' = kept
      /\ pc' = <<"body", "run">>
      /\ scratch' = Own(kept.own)
      /\ UNCHANGED <<I, SP, stack, taskVars, poolVars>>
  BY DEF Called, At
<1>2. pc[1] = "body" /\ pc'[1] = "body" /\ pc'[2] = "run" /\ pc' \in Place
  BY <1>1 DEF Place, Code, Spot
<1>3. /\ SP \in Thread /\ kept.own = SP /\ I \in BOOLEAN
      /\ kept \in RegisterValues /\ scratch \in RegisterValues
      /\ hands \in [User -> Block \cup {NULL}] /\ PoolInv
  BY <1>2, Outside
<1>4. InBody(SP, pc, kept, scratch, stack[SP], hands[SP]) /\ I = TRUE /\ ~ByHandler
  <2>. HIDE DEF InBody, ByHandler
  <2>. QED BY <1>2, InTheBody
<1>5. scratch' \in RegisterValues /\ scratch'.own = SP
  BY <1>1, <1>3, FrameType
<1>6. kept' \in RegisterValues /\ kept'.own = SP /\ hands[SP] = kept'.block
  BY <1>1, <1>3, <1>4 DEF InBody, RegisterValues
<1>7. Continues(SP, pc', kept', scratch', stack[SP], hands[SP])
  <2>1. InBody(SP, pc', kept', scratch', stack[SP], hands[SP])
    BY <1>2, <1>4, <1>5, <1>6 DEF InBody
  <2>. QED BY <1>2, <1>6, <2>1, OwnContinues
<1>8. Enabled(pc')
  BY <1>2 DEF Enabled
<1>9. PoolInv'
  BY <1>1, <1>2, <1>3, PoolKept
<1>10. hands' = hands /\ UNCHANGED <<I, SP, stack, taskVars>>
  BY <1>1 DEF poolVars
<1>. HIDE DEF PoolInv, IInv, Continues, Enabled, ByHandler
<1>. QED BY <1>2, <1>3, <1>4, <1>5, <1>6, <1>7, <1>8, <1>9, <1>10, Inside

\* A task that calls a function.
LEMMA Calling ==
  ASSUME IInv, InTask, NEW x \in Spot
  PROVE  LET r == Append(stack[SP], Address(<<"body", x>>)) IN
         /\ SP \in Thread /\ SP # osIdleTask /\ kept.own = SP /\ pc[1] = "body" /\ pc[2] = "run"
         /\ SP = osCurrentTask /\ life[SP] = "ALIVE"
         /\ kept \in RegisterValues /\ hands \in [User -> Block \cup {NULL}]
         /\ stack \in [Thread -> Seq(Frames)] /\ stack[SP] \in Seq(Frames)
         /\ PoolInv /\ I = TRUE /\ hands[SP] = kept.block
         /\ Address(<<"body", x>>) \in Frames /\ Address(<<"body", x>>).ret = <<"body", x>>
         /\ r \in Seq(Frames) /\ r # << >> /\ Front(r) = Base(SP) /\ Last(r) = Address(<<"body", x>>)
         /\ Len(r) = 2
<1>. DEFINE s == stack[SP]
            e == Address(<<"body", x>>)
            r == Append(s, e)
<1>1. pc[1] = "body" /\ pc[2] = "run" /\ kept.own # osIdleTask
  BY DEF InTask
<1>2. /\ SP \in Thread /\ SP = osCurrentTask /\ kept.own = SP
      /\ kept \in RegisterValues /\ hands \in [User -> Block \cup {NULL}]
      /\ stack \in [Thread -> Seq(Frames)] /\ s \in Seq(Frames) /\ PoolInv
  BY <1>1, Outside
<1>3. InBody(SP, pc, kept, scratch, s, hands[SP]) /\ I = TRUE /\ life[SP] = "ALIVE"
  <2>. HIDE DEF InBody
  <2>. QED BY <1>1, InTheBody
<1>4. s = Base(SP) /\ hands[SP] = kept.block
  BY <1>1, <1>3 DEF InBody
<1>5. e \in Frames /\ e.ret = <<"body", x>>
  <2>1. <<"body", x>> \in Place
    BY DEF Place, Code
  <2>. QED BY <2>1, FrameType
<1>6. Len(Base(SP)) = 1
  BY <1>1, <1>2, BaseType
<1>. HIDE DEF e, s
<1>7. r \in Seq(Frames) /\ r # << >> /\ Front(r) = s /\ Last(r) = e /\ Len(r) = Len(s) + 1
  BY <1>2, <1>5, Pushing
<1>. HIDE DEF r
<1>8. Len(r) = 2
  <2>1. Len(s) = 1
    BY <1>4, <1>6
  <2>2. Len(r) = Len(s) + 1
    BY <1>7
  <2>. QED BY <2>1, <2>2
<1>9. /\ SP \in Thread /\ SP # osIdleTask /\ kept.own = SP /\ pc[1] = "body" /\ pc[2] = "run"
      /\ SP = osCurrentTask /\ life[SP] = "ALIVE"
      /\ kept \in RegisterValues /\ hands \in [User -> Block \cup {NULL}]
      /\ stack \in [Thread -> Seq(Frames)] /\ stack[SP] \in Seq(Frames)
      /\ PoolInv /\ I = TRUE /\ hands[SP] = kept.block
      /\ e \in Frames /\ e.ret = <<"body", x>>
      /\ r \in Seq(Frames) /\ r # << >> /\ Front(r) = Base(SP) /\ Last(r) = e
      /\ Len(r) = 2
  BY <1>1, <1>2, <1>3, <1>4, <1>5, <1>7, <1>8 DEF s
<1>. QED BY <1>9 DEF r, s, e

LEMMA CallFromIInv ==
  ASSUME IInv, NEW f \in {"alloc", "free", "yield"}, NEW arguments \in RegisterValues,
         CallFrom(f, Result[f], arguments), UNCHANGED life,
         f = "alloc" => kept.block = NULL,
         f = "free" => arguments.block = kept.block /\ kept.block # NULL
  PROVE  IInv'
<1>. DEFINE x == Result[f]
            e == Address(<<"body", x>>)
            r == Append(stack[SP], e)
            h == hands[SP]
<1>1. /\ InTask /\ pc' = <<f, "save">>
      /\ stack' = [stack EXCEPT ![SP] = r] /\ scratch' = arguments
      /\ UNCHANGED <<I, SP, kept, taskVars, poolVars>>
  BY DEF CallFrom, Push, taskVars
<1>2. x \in Spot
  BY DEF Spot, Result
<1>. HIDE DEF x
<1>3. /\ SP \in Thread /\ SP # osIdleTask /\ kept.own = SP /\ pc[1] = "body" /\ pc[2] = "run"
      /\ kept \in RegisterValues /\ hands \in [User -> Block \cup {NULL}]
      /\ stack \in [Thread -> Seq(Frames)] /\ stack[SP] \in Seq(Frames)
      /\ PoolInv /\ I = TRUE /\ h = kept.block
      /\ e \in Frames /\ e.ret = <<"body", x>>
      /\ r \in Seq(Frames) /\ r # << >> /\ Front(r) = Base(SP) /\ Last(r) = e
  <2>. HIDE DEF InTask, Address, PoolInv
  <2>. QED BY <1>1, <1>2, Calling
<1>4. /\ pc'[1] = f /\ pc'[2] = "save" /\ pc' \in Place /\ f \in Functions
      /\ pc'[1] # "switch" /\ pc'[1] # "create" /\ f \in Schedules <=> f = "yield"
  BY <1>1 DEF Place, Code, Spot, Functions, Schedules
<1>5. e.ret[1] = "body"
  <2>1. e.ret = <<"body", x>>
    BY <1>3
  <2>. QED BY <2>1
<1>. HIDE DEF h
<1>6. Creating(SP)' \in {NULL, Creating(SP)}
  <2>. HIDE DEF e
  <2>. QED BY <1>1, <1>3, <1>4, <1>5, CreatingMore
<1>. HIDE DEF r
<1>7. InCall(SP, pc', kept, scratch', r, h)
  BY <1>1, <1>3, <1>4 DEF InCall, e, x
<1>8. OwnCode(SP, pc', kept, scratch', r, h) /\ Continues(SP, pc', kept, scratch', r, h)
  <2>. HIDE DEF InCall, OwnCode, Continues
  <2>. QED BY <1>3, <1>4, <1>7, OwnContinues
<1>9. ~(r # << >> /\ Last(r).ret[1] = "handler") /\ Enabled(pc')
  BY <1>3, <1>4, <1>5 DEF Enabled
<1>10. ~ByHandler'
  BY <1>1, <1>3, <1>9 DEF ByHandler
<1>11. PoolInv'
  BY <1>1, <1>3, <1>4, <1>10, PoolKept
<1>12. hands' = hands /\ h = hands'[SP] /\ I' \in BOOLEAN /\ I' = TRUE /\ UNCHANGED <<SP, kept, taskVars>>
  BY <1>1, <1>3 DEF poolVars, h
<1>. HIDE DEF PoolInv, IInv, Continues, OwnCode, Enabled, Creating
<1>. QED BY <1>1, <1>3, <1>4, <1>6, <1>8, <1>9, <1>11, <1>12, Local

LEMMA CallsIInv ==
  ASSUME IInv, CallAlloc \/ CallFree \/ CallYield
  PROVE  IInv'
<1>1. InTask
  BY DEF CallAlloc, CallFree, CallYield, CallFrom
<1>2. kept \in RegisterValues /\ kept.block \in Block \cup {NULL}
  BY DEF IInv, Typed, RegisterValues
<1>3. Registers \in RegisterValues
  BY FrameType
<1>4. CASE CallAlloc
  BY <1>3, <1>4, CallFromIInv DEF CallAlloc, Result
<1>5. CASE CallFree
  <2>. DEFINE arguments == [Registers EXCEPT !.block = kept.block]
  <2>1. arguments \in RegisterValues /\ arguments.block = kept.block
    BY <1>2 DEF Registers, RegisterValues
  <2>. HIDE DEF arguments
  <2>2. CallFrom("free", Result["free"], arguments) /\ UNCHANGED life /\ kept.block # NULL
    BY <1>5 DEF CallFree, Result, arguments
  <2>. HIDE DEF IInv
  <2>. QED BY <2>1, <2>2, CallFromIInv
<1>6. CASE CallYield
  BY <1>3, <1>6, CallFromIInv DEF CallYield, Result
<1>. QED BY <1>4, <1>5, <1>6

LEMMA CallCreateIInv ==
  ASSUME IInv, NEW n \in Task, CallCreate(n)
  PROVE  IInv'
<1>. DEFINE e == Address(<<"body", "called">>)
            r == Append(stack[SP], e)
            h == hands[SP]
<1>1. /\ InTask /\ pc' = <<"create", "save">>
      /\ life[n] = "DEAD" /\ life' = [life EXCEPT ![n] = "SETUP"]
      /\ sp' = [sp EXCEPT ![n] = n]
      /\ stack' = [stack EXCEPT ![n] = osPortStackInit(n), ![SP] = Append(@, e)]
      /\ scratch' = [Registers EXCEPT !.next = n]
      /\ UNCHANGED <<I, SP, kept, osCurrentTask, poolVars>>
  BY DEF CallCreate
<1>2. "called" \in Spot
  BY DEF Spot
<1>3. /\ SP \in Thread /\ SP # osIdleTask /\ kept.own = SP /\ pc[1] = "body" /\ pc[2] = "run"
      /\ SP = osCurrentTask /\ life[SP] = "ALIVE"
      /\ kept \in RegisterValues /\ hands \in [User -> Block \cup {NULL}]
      /\ stack \in [Thread -> Seq(Frames)] /\ stack[SP] \in Seq(Frames)
      /\ PoolInv /\ I = TRUE /\ h = kept.block
      /\ e \in Frames /\ e.ret = <<"body", "called">>
      /\ r \in Seq(Frames) /\ r # << >> /\ Front(r) = Base(SP) /\ Last(r) = e
      /\ Len(r) = 2
  <2>. HIDE DEF InTask, Address, PoolInv
  <2>. QED BY <1>1, <1>2, Calling
<1>4. /\ n \in Thread /\ n # osIdleTask /\ n # SP /\ n # NULL
      /\ sp = [t \in Thread |-> t] /\ life \in [Thread -> {"DEAD", "SETUP", "ALIVE"}]
  BY <1>1, <1>3, ProcessorAssumption DEF IInv, Typed, Thread, User
<1>5. LET z == osPortStackInit(n) IN
      /\ z \in Seq(Frames) /\ Len(z) = 3 /\ z[3].ret = <<"start", "param">>
  <2>. HIDE DEF osPortStackInit
  <2>. QED BY <1>4, StackInit
<1>. HIDE DEF e, h, osPortStackInit
<1>6. /\ stack' \in [Thread -> Seq(Frames)] /\ stack'[SP] = r /\ stack'[n] = osPortStackInit(n)
      /\ \A t \in Thread \ {SP, n} : stack'[t] = stack[t]
  BY <1>1, <1>3, <1>4, <1>5
<1>. HIDE DEF r
<1>7. /\ life' \in [Thread -> {"DEAD", "SETUP", "ALIVE"}] /\ life'[n] = "SETUP"
      /\ \A t \in Thread \ {n} : life'[t] = life[t]
  BY <1>1, <1>4
<1>8. sp' = sp /\ scratch' \in RegisterValues /\ scratch'.next = n
  BY <1>1, <1>4 DEF Registers, RegisterValues
<1>9. /\ pc'[1] = "create" /\ pc'[2] = "save" /\ pc' \in Place /\ pc'[1] \in Functions
      /\ pc'[1] # "switch" /\ pc'[1] \in Schedules
  BY <1>1 DEF Place, Code, Spot, Functions, Schedules
<1>10. Typed'
  BY <1>1, <1>4, <1>6, <1>7, <1>8, <1>9 DEF IInv, Typed, poolVars
<1>11. InCall(SP, pc', kept, scratch', r, h)
  BY <1>3, <1>4, <1>8, <1>9 DEF InCall, e, Result
<1>12. OwnCode(SP, pc', kept, scratch', r, h) /\ Continues(SP, pc', kept, scratch', r, h)
  <2>. HIDE DEF InCall, OwnCode, Continues
  <2>. QED BY <1>3, <1>9, <1>11, OwnContinues
<1>13. ~(r # << >> /\ Last(r).ret[1] = "handler")
  BY <1>3, <1>12, OwnTop
<1>14. UNCHANGED <<I, SP, kept, osCurrentTask, hands>> /\ h = hands[SP]
  BY <1>1 DEF poolVars, h
<1>15. ~ByHandler'
  BY <1>6, <1>13, <1>14 DEF ByHandler
<1>16. Running'
  <2>1. Enabled(pc')
    BY <1>9 DEF Enabled
  <2>. HIDE DEF Continues, Enabled, ByHandler
  <2>. QED BY <1>3, <1>6, <1>12, <1>14, <1>15, <2>1 DEF Running
<1>17. Switching'
  BY <1>9 DEF Switching
<1>18. Waiting'
  <2>. SUFFICES ASSUME NEW t \in Thread, life'[t] = "ALIVE", t # SP
                PROVE  Suspended(t)'
    BY <1>3, <1>9, <1>14 DEF Waiting
  <2>1. t # n /\ life[t] = "ALIVE"
    BY <1>7
  <2>2. Suspended(t)
    BY <1>3, <2>1 DEF IInv, Waiting
  <2>. QED BY <1>6, <1>14, <2>1, <2>2 DEF Suspended
<1>19. Lives'
  <2>0. Lives
    BY DEF IInv
  <2>1. Creating(SP)' = n
    BY <1>8, <1>9, <1>14 DEF Creating
  <2>2. Creating(n)' = NULL
    BY <1>4, <1>5, <1>6, <1>14 DEF Creating
  <2>3. \A t \in Thread \ {SP, n} : Creating(t)' = Creating(t)
    BY <1>6, <1>14 DEF Creating
  <2>. HIDE DEF Creating
  <2>4. \A t \in Thread : Creating(t) # n
    BY <1>1, <1>4, <2>0 DEF Lives
  <2>5. \A t \in Thread : Creating(t)' # NULL =>
          \/ t = SP /\ Creating(t)' = n
          \/ t # SP /\ Creating(t)' = Creating(t) /\ Creating(t) \in Thread \ {n}
    BY <1>14, <2>1, <2>2, <2>3, <2>4, CreatingType
  <2>6. \A t \in Thread : Creating(t)' # NULL => life'[Creating(t)'] = "SETUP"
    <3>. SUFFICES ASSUME NEW t \in Thread, Creating(t)' # NULL
                  PROVE  life'[Creating(t)'] = "SETUP"
      OBVIOUS
    <3>1. CASE Creating(t)' = n
      BY <1>7, <3>1
    <3>2. CASE Creating(t)' = Creating(t) /\ Creating(t) \in Thread \ {n}
      BY <1>7, <2>0, <3>2 DEF Lives
    <3>. QED BY <2>5, <3>1, <3>2
  <2>7. \A t, u \in Thread : Creating(t)' # NULL /\ Creating(t)' = Creating(u)' => t = u
    BY <2>0, <2>5 DEF Lives
  <2>8. \A t \in Thread : life'[t] # "ALIVE" =>
          /\ hands'[t] = NULL
          /\ t = n => stack'[t] = osPortStackInit(t) /\ life'[t] = "SETUP"
          /\ t # n => stack'[t] = stack[t] /\ life'[t] = life[t]
    BY <1>1, <1>3, <1>4, <1>6, <1>7, <1>14, <2>0 DEF Lives
  <2>9. life'[osCurrentTask] = "ALIVE" /\ life'[osIdleTask] = "ALIVE" /\ life'[SP] = "ALIVE"
    BY <1>3, <1>4, <1>7, <2>0 DEF Lives, Thread
  <2>. QED BY <1>14, <2>0, <2>6, <2>7, <2>8, <2>9 DEF Lives
<1>20. PoolInv'
  <2>. HIDE DEF PoolInv
  <2>. QED BY <1>1, <1>3, <1>9, PoolKept
<1>. QED BY <1>10, <1>16, <1>17, <1>18, <1>19, <1>20 DEF IInv

LEMMA UseBlockIInv ==
  ASSUME IInv, UseBlock
  PROVE  IInv'
<1>1. /\ InTask /\ kept.block # NULL
      /\ memory' = [memory EXCEPT ![kept.block] = Data]
      /\ UNCHANGED <<pc, I, SP, kept, scratch, stack, taskVars, free, hands>>
  BY DEF UseBlock, registers
<1>2. pc[1] = "body" /\ pc[2] = "run"
  BY <1>1 DEF InTask
<1>3. /\ SP \in Thread /\ kept \in RegisterValues /\ scratch \in RegisterValues /\ I \in BOOLEAN
      /\ hands \in [User -> Block \cup {NULL}] /\ pc \in Place
      /\ PoolInv /\ Running
  BY <1>2 DEF IInv, Typed
<1>4. InBody(SP, pc, kept, scratch, stack[SP], hands[SP])
  <2>. HIDE DEF InBody
  <2>. QED BY <1>2, InTheBody
<1>5. hands[SP] = kept.block /\ kept.block \in Block /\ SP \in User
  BY <1>1, <1>2, <1>3, <1>4 DEF InBody, RegisterValues, User
<1>6. PoolInv'
  <2>1. PICK list \in Seq(Block) : IsFreeList(list) /\ \A u \in User : hands[u] \notin ToSet(list)
    BY <1>3 DEF PoolInv
  <2>2. kept.block \notin ToSet(list) /\ memory = [x \in Block |-> memory[x]]
    BY <1>3, <1>5, <2>1 DEF PoolInv
  <2>3. IsFreeList(list)'
    BY <1>1, <1>5, <2>1, <2>2, ListWrite
  <2>4. \A u \in User : hands'[u] \notin ToSet(list)
    BY <1>1, <2>1
  <2>5. memory' = [x \in Block |-> memory'[x]]
    BY <1>1, <2>2
  <2>6. pc'[1] = "body"
    BY <1>1, <1>2
  <2>. HIDE DEF IsFreeList
  <2>. QED BY <1>1, <1>3, <2>3, <2>4, <2>5, <2>6 DEF PoolInv
<1>7. Continues(SP, pc, kept, scratch, stack[SP], hands[SP]) /\ (I <=> (Enabled(pc) /\ ~ByHandler))
  <2>. HIDE DEF Continues, Enabled, ByHandler
  <2>. QED BY <1>2, <1>3 DEF Running
<1>8. pc' = pc /\ hands' = hands /\ UNCHANGED <<I, SP, kept, scratch, stack, taskVars>>
  BY <1>1
<1>9. pc[1] # "switch" /\ pc[1] # "create"
  BY <1>2
<1>. HIDE DEF PoolInv, IInv, Continues, Enabled, ByHandler, Running
<1>. QED BY <1>3, <1>6, <1>7, <1>8, <1>9, Inside

LEMMA LeaveIInv ==
  ASSUME IInv, Leave
  PROVE  IInv'
<1>. DEFINE s == stack[SP]
            r == Front(s)
            h == hands[SP]
<1>1. /\ InTask /\ kept.block = NULL /\ pc' = Last(s).ret
      /\ stack' = [stack EXCEPT ![SP] = r]
      /\ scratch' = Registers
      /\ UNCHANGED <<I, SP, kept, taskVars, poolVars>>
  BY DEF Leave, Return
<1>2. pc[1] = "body" /\ pc[2] = "run" /\ kept.own # osIdleTask
  BY <1>1 DEF InTask
<1>3. /\ SP \in Thread /\ SP # osIdleTask /\ kept.own = SP /\ I \in BOOLEAN
      /\ kept \in RegisterValues /\ scratch' \in RegisterValues
      /\ hands \in [User -> Block \cup {NULL}]
      /\ stack \in [Thread -> Seq(Frames)] /\ s \in Seq(Frames) /\ PoolInv
      /\ pc[1] # "switch" /\ pc[1] # "create"
  BY <1>1, <1>2, Outside, FrameType
<1>4. InBody(SP, pc, kept, scratch, s, h) /\ I = TRUE
  <2>. HIDE DEF InBody
  <2>. QED BY <1>2, InTheBody
<1>5. s = Base(SP) /\ h = NULL
  BY <1>1, <1>2, <1>4 DEF InBody
<1>6. s # << >> /\ r = << >> /\ Last(s) = Address(<<"exit", "cli">>)
  BY <1>3, <1>5, BaseType
<1>7. pc' = <<"exit", "cli">> /\ pc' \in Place
  <2>1. <<"exit", "cli">> \in Place
    BY DEF Place, Code, Spot
  <2>. QED BY <1>1, <1>6, <2>1, FrameType
<1>8. pc'[1] = "exit" /\ pc'[2] = "cli"
  BY <1>7
<1>9. Continues(SP, pc', kept, scratch', r, h)
  <2>1. InExit(SP, pc', kept, scratch', r, h)
    BY <1>3, <1>5, <1>6, <1>8 DEF InExit
  <2>. QED BY <1>3, <1>8, <2>1, OwnContinues
<1>10. Enabled(pc')
  BY <1>8 DEF Enabled
<1>11. Creating(SP)' \in {NULL, Creating(SP)}
  BY <1>1, <1>3, <1>6, <1>8, CreatingLess
<1>12. PoolInv'
  BY <1>1, <1>3, <1>8, PoolKept
<1>13. hands' = hands /\ h = hands'[SP] /\ UNCHANGED <<I, SP, kept, taskVars>> /\ pc'[1] # "switch"
       /\ r \in Seq(Frames) /\ stack' = [stack EXCEPT ![SP] = r]
  BY <1>1, <1>6, <1>8 DEF poolVars
<1>. HIDE DEF PoolInv, IInv, Continues, Enabled, Creating, r
<1>. QED BY <1>3, <1>4, <1>6, <1>7, <1>9, <1>10, <1>11, <1>12, <1>13, Local

LEMMA ExitDisableIInv ==
  ASSUME IInv, ExitDisable
  PROVE  IInv'
<1>1. /\ pc = <<"exit", "cli">> /\ pc' = <<"exit", "dispatch">> /\ I' = FALSE
      /\ UNCHANGED <<SP, kept, scratch, stack, taskVars, poolVars>>
  BY DEF ExitDisable, At, registers
<1>2. pc[1] = "exit" /\ pc'[1] = "exit" /\ pc'[2] = "dispatch" /\ pc' \in Place
  BY <1>1 DEF Place, Code, Spot
<1>3. /\ SP \in Thread /\ kept.own = SP
      /\ kept \in RegisterValues /\ scratch \in RegisterValues
      /\ hands \in [User -> Block \cup {NULL}] /\ PoolInv
  BY <1>2, Outside
<1>4. InExit(SP, pc, kept, scratch, stack[SP], hands[SP])
  <2>. HIDE DEF InExit
  <2>. QED BY <1>2, Here
<1>5. Continues(SP, pc', kept, scratch, stack[SP], hands[SP])
  <2>1. InExit(SP, pc', kept, scratch, stack[SP], hands[SP])
    BY <1>2, <1>4 DEF InExit
  <2>. QED BY <1>2, <1>3, <2>1, OwnContinues
<1>6. ~Enabled(pc')
  BY <1>2 DEF Enabled, Functions
<1>7. PoolInv'
  BY <1>1, <1>2, <1>3, PoolKept
<1>8. hands' = hands /\ UNCHANGED <<SP, kept, scratch, stack, taskVars>>
  BY <1>1 DEF poolVars
<1>. HIDE DEF PoolInv, IInv, Continues, Enabled, ByHandler
<1>. QED BY <1>1, <1>2, <1>3, <1>5, <1>6, <1>7, <1>8, Inside

----------------------------------------------------------------------------
\* main(): osPoolInit has put all the blocks on the list, the last one first.
LEMMA FirstBlocks ==
  /\ FirstList \in Seq(Block) /\ IsInjective(FirstList)
  /\ Len(FirstList) = Cardinality(Block) /\ Cardinality(Block) \in Nat
  /\ \A b \in Block : \E i \in 1 .. Len(FirstList) : FirstList[i] = b
<1>. DEFINE N == Cardinality(Block)
            Listing == {f \in [1 .. N -> Block] : IsInjective(f)}
<1>1. IsFiniteSet(Block)
  BY ProcessorAssumption
<1>2. N \in Nat /\ ExistsBijection(1 .. N, Block)
  BY <1>1, FS_CardinalityType
<1>3. \E f \in [1 .. N -> Block] : IsInjective(f)
  BY <1>2 DEF ExistsBijection, Bijection, Injection
<1>4. FirstList = CHOOSE f \in [1 .. N -> Block] : IsInjective(f)
  BY DEF FirstList, SetToSeq
<1>. HIDE DEF N
<1>5. FirstList \in [1 .. N -> Block] /\ IsInjective(FirstList)
  BY <1>3, <1>4
<1>6. FirstList \in Seq(Block) /\ Len(FirstList) = N
  BY <1>2, <1>5
<1>7. FirstList \in Surjection(1 .. N, Block)
  <2>1. FirstList \in Injection(1 .. N, Block)
    BY <1>5 DEF Injection
  <2>2. Cardinality(1 .. N) = N
    <3>1. 1 \in Int /\ N \in Int /\ (1 > N <=> N = 0) /\ N - 1 + 1 = N
      BY <1>2
    <3>2. Cardinality(1 .. N) = IF 1 > N THEN 0 ELSE N - 1 + 1
      BY <3>1, FS_Interval
    <3>. QED BY <3>1, <3>2
  <2>3. Cardinality(1 .. N) = Cardinality(Block)
    BY <2>2 DEF N
  <2>. QED BY <1>1, <2>1, <2>3, FS_Injection
<1>8. \A b \in Block : \E i \in 1 .. N : FirstList[i] = b
  BY <1>7 DEF Surjection
<1>. QED BY <1>2, <1>5, <1>6, <1>8 DEF N

LEMMA FirstFreeList ==
  ASSUME Init
  PROVE  /\ \E list \in Seq(Block) : IsFreeList(list) /\ ToSet(list) = Block
         /\ memory = [b \in Block |-> memory[b]]
<1>. DEFINE N == Len(FirstList)
            L == FirstList
            Q == <<NULL>> \o L
            list == [i \in 1 .. N |-> L[N + 1 - i]]
<1>1. /\ L \in Seq(Block) /\ IsInjective(L) /\ N \in Nat
      /\ \A b \in Block : \E i \in 1 .. N : L[i] = b
  BY FirstBlocks
<1>2. \A i \in 1 .. N : L[i] \in Block
  BY <1>1
<1>3. /\ free = Last(Q)
      /\ memory = [b \in Block |-> Q[CHOOSE i \in DOMAIN L : L[i] = b]]
  BY DEF Init
<1>4. /\ Len(Q) = N + 1 /\ Q[1] = NULL
      /\ \A i \in 2 .. N + 1 : Q[i] = L[i - 1]
      /\ DOMAIN L = 1 .. N
  BY <1>1
<1>. HIDE DEF L, Q, N
<1>5. \A i \in 1 .. N : memory[L[i]] = IF i = 1 THEN NULL ELSE L[i - 1]
  <2>. SUFFICES ASSUME NEW i \in 1 .. N
                PROVE  memory[L[i]] = IF i = 1 THEN NULL ELSE L[i - 1]
    OBVIOUS
  <2>1. \A j \in 1 .. N : L[j] = L[i] => j = i
    BY <1>1, <1>4 DEF IsInjective
  <2>2. (CHOOSE j \in DOMAIN L : L[j] = L[i]) = i
    BY <1>4, <2>1
  <2>3. memory[L[i]] = Q[i]
    BY <1>2, <1>3, <2>2
  <2>4. i # 1 => i \in 2 .. N + 1
    BY <1>1
  <2>. QED BY <1>4, <2>3, <2>4
<1>6. free = IF N = 0 THEN NULL ELSE L[N]
  <2>1. free = Q[N + 1]
    BY <1>3, <1>4 DEF Last
  <2>2. N # 0 => N + 1 \in 2 .. N + 1 /\ (N + 1) - 1 = N
    BY <1>1
  <2>3. N = 0 => N + 1 = 1
    OBVIOUS
  <2>. QED BY <1>4, <2>1, <2>2, <2>3
<1>7. \A i \in 1 .. N : N + 1 - i \in 1 .. N
  BY <1>1
<1>8. list \in Seq(Block) /\ Len(list) = N /\ DOMAIN list = 1 .. N
  BY <1>1, <1>2, <1>7
<1>9. \A i \in 1 .. N : list[i] = L[N + 1 - i]
  OBVIOUS
<1>. HIDE DEF list
<1>10. IsInjective(list)
  <2>. SUFFICES ASSUME NEW i \in 1 .. N, NEW j \in 1 .. N, list[i] = list[j]
                PROVE  i = j
    BY <1>8 DEF IsInjective
  <2>1. L[N + 1 - i] = L[N + 1 - j] /\ N + 1 - i \in 1 .. N /\ N + 1 - j \in 1 .. N
    BY <1>7, <1>9
  <2>2. N + 1 - i = N + 1 - j
    <3>1. \A a, b \in 1 .. N : L[a] = L[b] => a = b
      BY <1>1, <1>4 DEF IsInjective
    <3>. QED BY <2>1, <3>1
  <2>. QED BY <1>1, <2>2
<1>11. free = IF list = << >> THEN NULL ELSE Head(list)
  <2>1. list = << >> <=> N = 0
    BY <1>8, EmptySeq
  <2>2. list # << >> => Head(list) = list[1]
    BY <1>8
  <2>3. N # 0 => 1 \in 1 .. N /\ N + 1 - 1 = N
    BY <1>1
  <2>. QED BY <1>6, <1>9, <2>1, <2>2, <2>3
<1>12. \A i \in 1 .. N : memory[list[i]] = IF i = N THEN NULL ELSE list[i + 1]
  <2>. SUFFICES ASSUME NEW i \in 1 .. N
                PROVE  memory[list[i]] = IF i = N THEN NULL ELSE list[i + 1]
    OBVIOUS
  <2>1. memory[L[N + 1 - i]] = IF N + 1 - i = 1 THEN NULL ELSE L[(N + 1 - i) - 1]
    BY <1>5, <1>7
  <2>2. N + 1 - i = 1 <=> i = N
    BY <1>1
  <2>3. i # N => i + 1 \in 1 .. N /\ N + 1 - (i + 1) = (N + 1 - i) - 1
    BY <1>1
  <2>. QED BY <1>9, <2>1, <2>2, <2>3
<1>13. ToSet(list) = Block
  <2>1. ASSUME NEW b \in Block PROVE b \in ToSet(list)
    <3>1. PICK i \in 1 .. N : L[i] = b
      BY <1>1
    <3>2. N + 1 - i \in 1 .. N /\ N + 1 - (N + 1 - i) = i
      BY <1>1
    <3>3. list[N + 1 - i] = b
      BY <1>9, <3>1, <3>2
    <3>. QED BY <1>8, <3>2, <3>3 DEF ToSet
  <2>2. ToSet(list) \subseteq Block
    BY <1>8 DEF ToSet
  <2>. QED BY <2>1, <2>2
<1>14. IsFreeList(list)
  BY <1>8, <1>10, <1>11, <1>12 DEF IsFreeList
<1>15. memory = [b \in Block |-> memory[b]]
  BY <1>3
<1>. QED BY <1>8, <1>13, <1>14, <1>15

LEMMA InitIInv == Init => IInv
<1>. SUFFICES ASSUME Init PROVE IInv
  OBVIOUS
<1>1. /\ pc = <<"main", "cli">> /\ I = FALSE /\ SP = osIdleTask
      /\ kept = Own(osIdleTask) /\ scratch = Registers
      /\ osCurrentTask = osIdleTask
      /\ sp = [t \in Thread |-> t]
      /\ life = [t \in Thread |-> "ALIVE"]
      /\ stack = [t \in Thread |-> IF t = osIdleTask THEN << >> ELSE osPortStackInit(t)]
      /\ hands = [u \in User |-> NULL]
  BY DEF Init
<1>2. osIdleTask \in Thread /\ Thread \subseteq User
  BY DEF Thread, User
<1>3. pc[1] = "main" /\ pc[2] = "cli" /\ pc \in Place
  BY <1>1 DEF Place, Code, Spot
<1>4. /\ kept \in RegisterValues /\ kept.own = osIdleTask /\ kept.block = NULL
      /\ scratch \in RegisterValues
  BY <1>1, <1>2, FrameType
<1>5. /\ \A t \in Thread : stack[t] \in Seq(Frames)
      /\ stack[osIdleTask] = << >>
      /\ \A t \in Thread \ {osIdleTask} : stack[t] = osPortStackInit(t)
  <2>1. \A t \in Thread \ {osIdleTask} : osPortStackInit(t) \in Seq(Frames)
    BY StackInit
  <2>2. << >> \in Seq(Frames)
    OBVIOUS
  <2>. HIDE DEF osPortStackInit
  <2>. QED BY <1>1, <1>2, <2>1, <2>2
<1>6. Typed
  BY <1>1, <1>2, <1>3, <1>4, <1>5 DEF Typed
<1>7. Running
  <2>1. InMain(SP, pc, kept, scratch, stack[SP], hands[SP])
    BY <1>1, <1>2, <1>3, <1>4, <1>5 DEF InMain
  <2>2. Continues(SP, pc, kept, scratch, stack[SP], hands[SP])
    BY <1>1, <1>3, <1>4, <2>1, OwnContinues
  <2>3. ~Enabled(pc)
    BY <1>3 DEF Enabled, Functions
  <2>. HIDE DEF Continues, Enabled
  <2>. QED BY <1>1, <2>2, <2>3 DEF Running
<1>8. Switching
  BY <1>3 DEF Switching
<1>9. Waiting
  <2>. SUFFICES ASSUME NEW t \in Thread, t # osIdleTask
                PROVE  Suspended(t)
    BY <1>1, <1>3 DEF Waiting
  <2>1. stack[t] = osPortStackInit(t) /\ hands[t] = NULL
    BY <1>1, <1>2, <1>5
  <2>2. Resume(<<"start", "param">>)
    BY DEF Resume
  <2>3. LET s == osPortStackInit(t) IN
          /\ s # << >> /\ Last(s).ret = <<"start", "param">> /\ Last(s).saved = Own(t)
          /\ Continues(t, <<"start", "param">>, Own(t), Registers, Front(s), NULL)
    <3>. HIDE DEF osPortStackInit, Continues, Own
    <3>. QED BY StackInit
  <2>. HIDE DEF Resume, Continues, osPortStackInit
  <2>. QED BY <2>1, <2>2, <2>3 DEF Suspended
<1>10. Lives
  <2>1. \A t \in Thread : Creating(t) = NULL
    <3>1. Creating(osIdleTask) = NULL
      BY <1>3, <1>5 DEF Creating
    <3>2. \A t \in Thread \ {osIdleTask} : stack[t][3].ret = <<"start", "param">>
      <4>. HIDE DEF osPortStackInit
      <4>. QED BY <1>5, StackInit
    <3>3. \A t \in Thread \ {osIdleTask} : Creating(t) = NULL
      BY <1>3, <3>2 DEF Creating
    <3>. QED BY <3>1, <3>3
  <2>. HIDE DEF Creating
  <2>. QED BY <1>1, <1>2, <2>1 DEF Lives
<1>11. PoolInv
  <2>1. PICK list \in Seq(Block) : IsFreeList(list) /\ ToSet(list) = Block
    BY FirstFreeList
  <2>2. \A u \in User : hands[u] = NULL /\ hands[u] \notin Block
    BY <1>1, ProcessorAssumption
  <2>3. memory = [b \in Block |-> memory[b]]
    BY FirstFreeList
  <2>. HIDE DEF IsFreeList
  <2>. QED BY <1>3, <2>1, <2>2, <2>3 DEF PoolInv
<1>. QED BY <1>6, <1>7, <1>8, <1>9, <1>10, <1>11 DEF IInv

----------------------------------------------------------------------------
LEMMA NextIInv == IInv /\ [Next]_vars => IInv'
<1>. SUFFICES ASSUME IInv, [Next]_vars PROVE IInv'
  OBVIOUS
<1>1. CASE UNCHANGED vars
  <2>1. /\ UNCHANGED <<pc, I, SP, kept, scratch, stack, osCurrentTask, sp, life, free, memory, hands>>
    BY <1>1 DEF vars, registers, taskVars, poolVars
  <2>2. Typed' /\ Running' /\ Switching'
    BY <2>1 DEF IInv, Typed, Running, Switching, ByHandler
  <2>3. Waiting'
    BY <2>1 DEF IInv, Waiting, Suspended
  <2>4. Lives'
    BY <2>1 DEF IInv, Lives, Creating
  <2>5. PoolInv'
    BY <2>1 DEF IInv, PoolInv, IsFreeList, ByHandler
  <2>. QED BY <2>2, <2>3, <2>4, <2>5 DEF IInv
<1>2. ASSUME NEW f \in Functions, SaveState(f) \/ Disable(f) \/ RestoreState(f) \/ FunctionReturns(f)
      PROVE  IInv'
  BY <1>2, SaveStateIInv, DisableIInv, RestoreStateIInv, FunctionReturnsIInv
<1>3. CASE AllocLoad \/ AllocNext \/ FreeLink \/ FreeHead \/ Ready
  BY <1>3, AllocLoadIInv, AllocNextIInv, FreeLinkIInv, FreeHeadIInv, ReadyIInv
<1>4. ASSUME NEW f \in Schedulers, ScheduleStays(f) \/ ScheduleSwitches(f)
      PROVE  IInv'
  BY <1>4, ScheduleStaysIInv, ScheduleSwitchesIInv
<1>5. CASE SwitchSave \/ SwitchStack \/ SwitchRestore \/ StartParam \/ StartEnable
  BY <1>5, SwitchSaveIInv, SwitchStackIInv, SwitchRestoreIInv, StartParamIInv, StartEnableIInv
<1>6. CASE Interrupt \/ HandlerUsesPool \/ HandlerDone \/ InterruptPops \/ InterruptReturns
  BY <1>6, InterruptIInv, HandlerUsesPoolIInv, HandlerDoneIInv, InterruptPopsIInv, InterruptReturnsIInv
<1>7. CASE RunDisable \/ RunEnable \/ Entry \/ Called
  BY <1>7, RunDisableIInv, RunEnableIInv, EntryIInv, CalledIInv
<1>8. CASE CallAlloc \/ CallFree \/ CallYield \/ (\E n \in Task : CallCreate(n))
  BY <1>8, CallsIInv, CallCreateIInv
<1>9. CASE UseBlock \/ Leave \/ ExitDisable \/ ExitSwitches
  BY <1>9, UseBlockIInv, LeaveIInv, ExitDisableIInv, ExitSwitchesIInv
<1>. HIDE DEF IInv
<1>. QED BY <1>1, <1>2, <1>3, <1>4, <1>5, <1>6, <1>7, <1>8, <1>9 DEF Next, Functions, Schedulers

(***************************************************************************)
(* Between any two instructions every thread can continue with what is on  *)
(* its stack, or in the registers if it is the current one (asm.c:187).    *)
(***************************************************************************)
THEOREM ProcessorInvariant == Spec => []IInv
BY InitIInv, NextIInv, PTL DEF Spec

----------------------------------------------------------------------------
(***************************************************************************)
(* For any number of tasks and blocks, and wherever interrupts come in and *)
(* tasks are switched: a task that goes on has its own stack and registers *)
(* and its block, with interrupts enabled (asm.c, OwnContext).             *)
(***************************************************************************)
THEOREM ContextAlwaysOwn == Spec => []OwnContext
<1>1. IInv => OwnContext
  <2>. SUFFICES ASSUME IInv, pc = <<"body", "run">>
                PROVE  /\ I
                       /\ SP = osCurrentTask /\ kept.own = osCurrentTask /\ scratch.own = osCurrentTask
                       /\ kept.block = hands[osCurrentTask]
    BY DEF OwnContext
  <2>1. pc[1] = "body" /\ pc[2] = "run"
    OBVIOUS
  <2>2. InBody(SP, pc, kept, scratch, stack[SP], hands[SP]) /\ I = TRUE
    <3>. HIDE DEF InBody
    <3>. QED BY <2>1, InTheBody
  <2>3. SP = osCurrentTask /\ kept.own = SP
    BY <2>1, Outside
  <2>. QED BY <2>1, <2>2, <2>3 DEF InBody
<1>. QED BY <1>1, ProcessorInvariant, PTL

\* How many frames a thread has on its stack in each part of its program.
LEMMA OwnDepth ==
  ASSUME NEW t \in Thread, NEW p, NEW kp, NEW sc, NEW s \in Seq(Frames), NEW h,
         OwnCode(t, p, kp, sc, s, h)
  PROVE  Len(s) \in Nat /\ Len(s) <= IF t = osIdleTask THEN 0 ELSE 2
<1>1. Len(s) \in Nat
  OBVIOUS
<1>2. s # << >> => Len(s) = Len(Front(s)) + 1
  BY Popping
<1>3. Len(Base(t)) = IF t = osIdleTask THEN 0 ELSE 1
  BY BaseType
<1>4. s = << >> => Len(s) = 0
  OBVIOUS
<1>5. CASE p[1] = "main" \/ p[1] = "exit"
  BY <1>4, <1>5 DEF OwnCode, InMain, InExit
<1>6. CASE p[1] = "start" \/ p[1] \in Functions
  <2>1. t # osIdleTask /\ s # << >> /\ Front(s) = Base(t)
    BY <1>6 DEF OwnCode, InStart, InCall
  <2>2. Len(s) = Len(Base(t)) + 1
    BY <1>2, <2>1
  <2>3. Len(s) = 2
    BY <1>3, <2>1, <2>2
  <2>. QED BY <2>1, <2>3
<1>7. CASE p[1] = "body"
  <2>1. s = Base(t)
    BY <1>7 DEF OwnCode, InBody
  <2>2. Len(s) = Len(Base(t))
    BY <2>1
  <2>3. Len(s) = IF t = osIdleTask THEN 0 ELSE 1
    BY <1>3, <2>2
  <2>. QED BY <2>3
<1>. QED BY <1>1, <1>5, <1>6, <1>7 DEF OwnCode

LEMMA ContinuesDepth ==
  ASSUME NEW t \in Thread, NEW p, NEW kp, NEW sc, NEW s \in Seq(Frames), NEW h,
         Continues(t, p, kp, sc, s, h)
  PROVE  /\ Len(s) <= IF t = osIdleTask THEN 2 ELSE 4
         /\ Resume(p) => Len(s) <= IF t = osIdleTask THEN 1 ELSE 3
<1>1. CASE OwnCode(t, p, kp, sc, s, h)
  <2>1. Len(s) \in Nat /\ Len(s) <= IF t = osIdleTask THEN 0 ELSE 2
    BY <1>1, OwnDepth
  <2>. QED BY <2>1
<1>2. CASE InHandler(t, p, kp, sc, s, h)
  <2>1. s # << >> /\ OwnCode(t, Last(s).ret, kp, Last(s).saved, Front(s), h)
    <3>. HIDE DEF OwnCode
    <3>. QED BY <1>2 DEF InHandler, Interrupted
  <2>2. Front(s) \in Seq(Frames) /\ Len(s) = Len(Front(s)) + 1
    BY <2>1, Popping
  <2>3. Len(Front(s)) \in Nat /\ Len(Front(s)) <= IF t = osIdleTask THEN 0 ELSE 2
    BY <2>1, <2>2, OwnDepth
  <2>. QED BY <2>2, <2>3
<1>3. CASE InHandlerCall(t, p, kp, sc, s, h)
  <2>. DEFINE r == Front(s)
  <2>1. /\ s # << >> /\ r # << >> /\ p[1] \in {"alloc", "free"}
        /\ OwnCode(t, Last(r).ret, kp, Last(r).saved, Front(r), h)
    <3>. HIDE DEF OwnCode
    <3>. QED BY <1>3 DEF InHandlerCall, Interrupted
  <2>2. r \in Seq(Frames) /\ Len(s) = Len(r) + 1
    BY <2>1, Popping
  <2>. HIDE DEF r
  <2>3. Front(r) \in Seq(Frames) /\ Len(r) = Len(Front(r)) + 1
    BY <2>1, <2>2, Popping
  <2>4. Len(Front(r)) \in Nat /\ Len(Front(r)) <= IF t = osIdleTask THEN 0 ELSE 2
    BY <2>1, <2>3, OwnDepth
  <2>5. ~Resume(p)
    BY <2>1 DEF Resume
  <2>. QED BY <2>2, <2>3, <2>4, <2>5
<1>. QED BY <1>1, <1>2, <1>3 DEF Continues

\* A thread that has been switched out has a frame more.
LEMMA ResumeDepth ==
  ASSUME NEW t \in Thread, NEW kp, NEW s \in Seq(Frames), NEW h, s # << >>,
         Resume(Last(s).ret), Continues(t, Last(s).ret, kp, Registers, Front(s), h)
  PROVE  Len(s) <= IF t = osIdleTask THEN 2 ELSE 4
<1>1. Front(s) \in Seq(Frames) /\ Len(s) = Len(Front(s)) + 1 /\ Len(Front(s)) \in Nat
  BY Popping
<1>. HIDE DEF Continues, Resume
<1>2. Len(Front(s)) <= IF t = osIdleTask THEN 1 ELSE 3
  BY <1>1, ContinuesDepth
<1>. QED BY <1>1, <1>2

\* What is on top of a thread that is not running is its own.
LEMMA ContinuesOwn ==
  ASSUME NEW t, NEW p, NEW kp, NEW sc, NEW s, NEW h, Continues(t, p, kp, sc, s, h)
  PROVE  kp.own = t
BY DEF Continues, OwnCode, InHandler, InHandlerCall, Interrupted

(***************************************************************************)
(* For any number of tasks, blocks and interrupts: OS_STACK_MIN allows for *)
(* everything a stack has to hold at once, and the context of a thread     *)
(* that is not running lies on top of its own stack (StackFits).           *)
(***************************************************************************)
THEOREM StackAlwaysFits == Spec => []StackFits
<1>1. IInv => StackFits
  <2>. SUFFICES ASSUME IInv, NEW t \in Thread
                PROVE  /\ Len(stack[t]) <= IF t = osIdleTask THEN 2 ELSE 4
                       /\ life[t] = "ALIVE" /\ t # osCurrentTask /\ pc[1] # "switch"
                            => /\ Last(stack[t]).saved.own = t
                               /\ Last(stack[t]).ret[2] \in {"restore", "pop", "sei", "param"}
    BY DEF StackFits
  <2>1. stack[t] \in Seq(Frames) /\ life[t] \in {"DEAD", "SETUP", "ALIVE"} /\ SP \in Thread
        /\ kept \in RegisterValues /\ pc \in Place
    BY DEF IInv, Typed
  <2>2. ASSUME Suspended(t)
        PROVE  /\ Len(stack[t]) <= IF t = osIdleTask THEN 2 ELSE 4
               /\ Last(stack[t]).saved.own = t
               /\ Last(stack[t]).ret[2] \in {"restore", "pop", "sei", "param"}
    <3>1. /\ stack[t] # << >> /\ Resume(Last(stack[t]).ret)
          /\ Continues(t, Last(stack[t]).ret, Last(stack[t]).saved, Registers, Front(stack[t]), hands[t])
      BY <2>2 DEF Suspended
    <3>2. Last(stack[t]).ret[2] \in {"restore", "pop", "sei", "param"}
      BY <3>1 DEF Resume
    <3>. HIDE DEF Continues, Resume
    <3>. QED BY <2>1, <3>1, <3>2, ResumeDepth, ContinuesOwn
  <2>3. CASE life[t] = "DEAD"
    <3>1. Len(stack[t]) = 1
      BY <2>3 DEF IInv, Lives
    <3>. QED BY <2>3, <3>1
  <2>4. CASE life[t] = "SETUP"
    <3>1. stack[t] = osPortStackInit(t) /\ t # osIdleTask
      BY <2>4 DEF IInv, Lives
    <3>2. Len(stack[t]) = 3
      BY <3>1 DEF osPortStackInit
    <3>. QED BY <2>4, <3>1, <3>2
  <2>5. CASE life[t] = "ALIVE" /\ t = osCurrentTask /\ pc[1] # "switch"
    <3>1. t = SP /\ Continues(t, pc, kept, scratch, stack[t], hands[t])
      BY <2>5 DEF IInv, Running
    <3>. HIDE DEF Continues
    <3>2. Len(stack[t]) <= IF t = osIdleTask THEN 2 ELSE 4
      BY <2>1, <3>1, ContinuesDepth
    <3>. QED BY <2>5, <3>2
  <2>6. CASE life[t] = "ALIVE" /\ t = SP /\ pc = <<"switch", "save">>
    <3>1. stack[t] # << >> /\ Resume(Last(stack[t]).ret)
          /\ Continues(t, Last(stack[t]).ret, kept, Registers, Front(stack[t]), hands[t])
      <4>1. pc[1] = "switch" /\ pc[2] = "save"
        BY <2>6
      <4>. QED BY <2>6, <4>1 DEF IInv, Switching
    <3>. HIDE DEF Continues, Resume
    <3>2. Len(stack[t]) <= IF t = osIdleTask THEN 2 ELSE 4
      BY <2>1, <3>1, ResumeDepth
    <3>. QED BY <2>6, <3>2
  <2>7. CASE life[t] = "ALIVE" /\ (t = osCurrentTask => pc[1] = "switch")
             /\ (t = SP => pc # <<"switch", "save">>)
    <3>1. Suspended(t)
      <4>. HIDE DEF Suspended
      <4>. QED BY <2>7 DEF IInv, Waiting
    <3>. QED BY <2>2, <3>1
  <2>. QED BY <2>1, <2>3, <2>4, <2>5, <2>6, <2>7
<1>. QED BY <1>1, ProcessorInvariant, PTL

----------------------------------------------------------------------------
\* The least number of a set.
LEMMA LeastNumber ==
  ASSUME NEW S \in SUBSET Nat, S # {}
  PROVE  \E n \in S : \A k \in S : n <= k
<1>1. PICK n \in S : \A k \in S : ~(<<k, n>> \in OpToRel(<, Nat))
  BY WFMin, NatLessThanWellFounded
<1>2. \A k \in S : ~(k < n)
  BY <1>1, Zenon DEF OpToRel
<1>. QED BY <1>2

\* The blocks that Listed reaches are those of the list.
LEMMA ListedIs ==
  ASSUME NEW list \in Seq(Block), IsFreeList(list)
  PROVE  Listed = ToSet(list)
<1>. DEFINE N == Cardinality(Block)
            L == Len(list)
            Upto(n) == {list[i] : i \in {j \in 1 .. L : j <= n + 1}}
            Reach(f, n) == IF n = 0 THEN {free} \cap Block
                          ELSE f[n - 1] \cup ({memory[b] : b \in f[n - 1]} \cap Block)
            f == CHOOSE f : f = [n \in 0 .. N |-> Reach(f, n)]
            W == [n \in 0 .. N |-> Upto(n)]
<1>1. Listed = f[N]
  BY DEF Listed
<1>2. /\ L \in Nat /\ DOMAIN list = 1 .. L /\ \A i \in 1 .. L : list[i] \in Block
      /\ \A i, j \in 1 .. L : list[i] = list[j] => i = j
      /\ free = IF L = 0 THEN NULL ELSE list[1]
      /\ \A i \in 1 .. L : memory[list[i]] = IF i = L THEN NULL ELSE list[i + 1]
      /\ NULL \notin Block
  BY EmptySeq, ProcessorAssumption DEF IsFreeList, IsInjective
<1>3. N \in Nat /\ L <= N
  <2>1. IsFiniteSet(Block) /\ N \in Nat
    BY ProcessorAssumption, FS_CardinalityType
  <2>2. list \in Injection(1 .. L, Block)
    BY <1>2 DEF Injection, IsInjective
  <2>3. Cardinality(1 .. L) = L
    <3>1. 1 \in Int /\ L \in Int /\ (1 > L <=> L = 0) /\ L - 1 + 1 = L
      <4>1. L \in Nat
        BY <1>2
      <4>. QED BY <4>1
    <3>2. Cardinality(1 .. L) = IF 1 > L THEN 0 ELSE L - 1 + 1
      BY <3>1, FS_Interval
    <3>. QED BY <3>1, <3>2
  <2>4. Cardinality(1 .. L) <= N
    BY <2>1, <2>2, FS_Injection
  <2>. QED BY <2>1, <2>3, <2>4
<1>. HIDE DEF N, L
<1>4. \A n \in 0 .. N : Upto(n) = Reach(W, n)
  <2>. SUFFICES ASSUME NEW n \in 0 .. N PROVE Upto(n) = Reach(W, n)
    OBVIOUS
  <2>1. CASE n = 0
    BY <1>2, <2>1
  <2>2. CASE n # 0
    <3>1. n - 1 \in 0 .. N /\ W[n - 1] = {list[i] : i \in {j \in 1 .. L : j <= n}}
      BY <1>3, <2>2
    <3>2. {memory[b] : b \in W[n - 1]} \cap Block = {list[i + 1] : i \in {j \in 1 .. L : j <= n /\ j # L}}
      <4>. DEFINE X == {memory[b] : b \in W[n - 1]} \cap Block
                  Y == {list[i + 1] : i \in {j \in 1 .. L : j <= n /\ j # L}}
      <4>1. ASSUME NEW x \in X PROVE x \in Y
        <5>1. PICK i \in 1 .. L : i <= n /\ x = memory[list[i]] /\ x \in Block
          BY <3>1, <4>1
        <5>2. i # L /\ x = list[i + 1]
          BY <1>2, <5>1
        <5>. QED BY <5>1, <5>2
      <4>2. ASSUME NEW x \in Y PROVE x \in X
        <5>1. PICK i \in 1 .. L : i <= n /\ i # L /\ x = list[i + 1]
          BY <4>2
        <5>2. i + 1 \in 1 .. L
          BY <1>2, <5>1
        <5>3. x \in Block /\ x = memory[list[i]]
          BY <1>2, <5>1, <5>2
        <5>4. list[i] \in W[n - 1]
          BY <3>1, <5>1
        <5>. QED BY <5>3, <5>4
      <4>. HIDE DEF X, Y
      <4>3. X = Y
        BY <4>1, <4>2
      <4>. QED BY <4>3 DEF X, Y
    <3>3. Reach(W, n) = W[n - 1] \cup {list[i + 1] : i \in {j \in 1 .. L : j <= n /\ j # L}}
      BY <2>2, <3>2
    <3>4. ASSUME NEW i \in 1 .. L, i <= n + 1, ~(i <= n)
          PROVE  i - 1 \in 1 .. L /\ i - 1 <= n /\ i - 1 # L /\ (i - 1) + 1 = i
      BY <1>2, <2>2, <3>4
    <3>5. ASSUME NEW i \in 1 .. L, i <= n, i # L
          PROVE  i + 1 \in 1 .. L /\ i + 1 <= n + 1
      BY <1>2, <3>5
    <3>6. \A i \in 1 .. L : i <= n => i <= n + 1
      BY <1>2
    <3>7. ASSUME NEW x \in Upto(n) PROVE x \in Reach(W, n)
      <4>1. PICK i \in 1 .. L : i <= n + 1 /\ x = list[i]
        BY <3>7
      <4>. QED BY <3>1, <3>3, <3>4, <4>1
    <3>8. ASSUME NEW x \in Reach(W, n) PROVE x \in Upto(n)
      BY <3>1, <3>3, <3>5, <3>6, <3>8
    <3>. HIDE DEF Upto, Reach
    <3>. QED BY <3>7, <3>8
  <2>. QED BY <2>1, <2>2
<1>5. W = [n \in 0 .. N |-> Reach(W, n)]
  BY <1>4
<1>6. f = [n \in 0 .. N |-> Reach(f, n)]
  <2>. HIDE DEF W, Reach
  <2>. QED BY <1>5
<1>. HIDE DEF f
<1>7. \A n \in 0 .. N : f[n] = W[n]
  <2>. DEFINE S == {n \in 0 .. N : f[n] # W[n]}
  <2>. SUFFICES ASSUME S # {} PROVE FALSE
    OBVIOUS
  <2>1. PICK n \in S : \A k \in S : n <= k
    <3>1. S \in SUBSET Nat
      BY <1>3
    <3>. QED BY <3>1, LeastNumber
  <2>2. n \in 0 .. N /\ f[n] # W[n]
    BY <2>1
  <2>3. f[n] = Reach(f, n) /\ W[n] = Reach(W, n)
    <3>. HIDE DEF Reach, W
    <3>. QED BY <1>5, <1>6, <2>2
  <2>4. n # 0
    BY <2>2, <2>3
  <2>5. n - 1 \in 0 .. N /\ n - 1 \notin S
    <3>1. n \in 0 .. N /\ n # 0 /\ \A k \in S : n <= k
      BY <2>1, <2>2, <2>4
    <3>. HIDE DEF S
    <3>2. n - 1 \in 0 .. N /\ ~(n <= n - 1)
      BY <1>3, <3>1
    <3>. QED BY <3>1, <3>2
  <2>6. f[n - 1] = W[n - 1]
    BY <2>5
  <2>7. Reach(f, n) = Reach(W, n)
    <3>. HIDE DEF W
    <3>. QED BY <2>6, <2>4
  <2>. QED BY <2>2, <2>3, <2>7
<1>8. f[N] = Upto(N)
  BY <1>3, <1>7
<1>9. Upto(N) = ToSet(list)
  <2>1. \A i \in 1 .. L : i <= N + 1
    BY <1>2, <1>3
  <2>. QED BY <1>2, <2>1 DEF ToSet
<1>. QED BY <1>1, <1>8, <1>9

LEMMA ListedEver == \A list \in Seq(Block) : IsFreeList(list) => Listed = ToSet(list)
BY ListedIs

LEMMA ListedNext == (\A list \in Seq(Block) : IsFreeList(list) => Listed = ToSet(list))'
BY ListedEver, PTL

\* The list is the same as long as the pool is.
LEMMA ListedSame ==
  ASSUME UNCHANGED <<free, memory>>
  PROVE  Listed' = Listed
BY DEF Listed

LEMMA TakesBlock ==
  ASSUME IInv, AllocNext
  PROVE  [Pool!Next]_(Pool!vars)
<1>1. /\ pc[1] = "alloc" /\ pc[2] = "next" /\ pc = <<"alloc", "next">>
      /\ IF scratch.block = NULL THEN UNCHANGED <<free, hands>>
         ELSE /\ free' = memory[scratch.block]
              /\ hands' = [hands EXCEPT ![Caller] = scratch.block]
      /\ UNCHANGED <<memory, stack, SP>>
  BY DEF AllocNext, At
<1>2. scratch.block = free
  BY <1>1 DEF IInv, PoolInv
<1>3. CASE scratch.block = NULL
  <2>1. Listed' = Listed /\ hands' = hands
    BY <1>1, <1>3, ListedSame
  <2>. QED BY <2>1 DEF Pool!vars
<1>4. CASE scratch.block # NULL
  <2>1. /\ SP \in Thread /\ PoolInv
        /\ \/ InCall(SP, pc, kept, scratch, stack[SP], hands[SP]) /\ ~ByHandler
           \/ InHandlerCall(SP, pc, kept, scratch, stack[SP], hands[SP]) /\ ByHandler
    <3>1. "alloc" \in Functions
      BY DEF Functions
    <3>. HIDE DEF InCall, InHandlerCall
    <3>. QED BY <1>1, <3>1, InFunction
  <2>2. Caller = IF ByHandler THEN handler ELSE SP
    <3>1. stack[SP] # << >>
      BY <2>1 DEF InCall, InHandlerCall
    <3>. QED BY <3>1, CallerIs
  <2>3. Caller \in User
    BY <2>1, <2>2 DEF User
  <2>4. hands[Caller] = NULL
    <3>1. CASE ByHandler
      BY <1>1, <2>1, <2>2, <3>1 DEF PoolInv
    <3>2. CASE ~ByHandler
      <4>1. hands[SP] = NULL
        BY <1>1, <2>1, <3>2 DEF InCall
      <4>. QED BY <2>2, <3>2, <4>1
    <3>. QED BY <3>1, <3>2
  <2>5. PICK list \in Seq(Block) : IsFreeList(list)
    BY <2>1 DEF PoolInv
  <2>6. /\ free \in Block /\ free \in ToSet(list)
        /\ Tail(list) \in Seq(Block) /\ IsFreeList(Tail(list))'
        /\ ToSet(Tail(list)) = ToSet(list) \ {free}
    <3>. HIDE DEF IsFreeList
    <3>. QED BY <1>1, <1>2, <1>4, <2>5, ListTail
  <2>7. Listed = ToSet(list)
    BY <2>5, ListedIs
  <2>8. Listed' = ToSet(Tail(list))
    <3>. HIDE DEF IsFreeList
    <3>. QED BY <2>6, ListedNext
  <2>9. Pool!Take(Caller, free)
    BY <1>1, <1>2, <1>4, <2>4, <2>6, <2>7, <2>8 DEF Pool!Take
  <2>. QED BY <2>3, <2>6, <2>9 DEF Pool!Next
<1>. QED BY <1>3, <1>4

LEMMA GivesBlock ==
  ASSUME IInv, FreeHead
  PROVE  [Pool!Next]_(Pool!vars)
<1>1. /\ pc[1] = "free" /\ pc[2] = "head" /\ pc = <<"free", "head">>
      /\ free' = scratch.block /\ hands' = [hands EXCEPT ![Caller] = NULL]
      /\ memory' = memory
  BY DEF FreeHead, At
<1>2. /\ scratch.block \in Block /\ Caller \in User /\ hands[Caller] = scratch.block
      /\ scratch.block # NULL /\ memory[scratch.block] = free
  <2>1. scratch.block \in Block /\ Caller \in User /\ hands[Caller] = scratch.block
    BY <1>1, GivenBack
  <2>. QED BY <1>1, <2>1, ProcessorAssumption DEF IInv, PoolInv
<1>3. PICK list \in Seq(Block) : IsFreeList(list) /\ \A u \in User : hands[u] \notin ToSet(list)
  BY DEF IInv, PoolInv
<1>4. PICK b : b = scratch.block
  OBVIOUS
<1>5. /\ <<b>> \o list \in Seq(Block) /\ IsFreeList(<<b>> \o list)'
      /\ ToSet(<<b>> \o list) = ToSet(list) \cup {b}
  <2>1. b \in Block \ ToSet(list) /\ memory[b] = free /\ free' = b
    BY <1>1, <1>2, <1>3, <1>4
  <2>. HIDE DEF IsFreeList
  <2>. QED BY <1>1, <1>3, <2>1, ListCons
<1>6. Listed = ToSet(list)
  BY <1>3, ListedIs
<1>7. Listed' = ToSet(<<b>> \o list)
  <2>. HIDE DEF IsFreeList
  <2>. QED BY <1>5, ListedNext
<1>8. Pool!Give(Caller)
  BY <1>1, <1>2, <1>4, <1>5, <1>6, <1>7 DEF Pool!Give
<1>. QED BY <1>2, <1>8 DEF Pool!Next

\* What is written to a block that somebody has does not change the list.
LEMMA WritesBlock ==
  ASSUME IInv, FreeLink \/ UseBlock
  PROVE  UNCHANGED Pool!vars
<1>1. PICK list \in Seq(Block) : IsFreeList(list) /\ \A u \in User : hands[u] \notin ToSet(list)
  BY DEF IInv, PoolInv
<1>2. PICK b \in Block : b \notin ToSet(list) /\ \E value : memory' = [memory EXCEPT ![b] = value]
  <2>1. CASE FreeLink
    <3>1. pc[1] = "free" /\ pc[2] = "link" /\ memory' = [memory EXCEPT ![scratch.block] = free]
      BY <2>1 DEF FreeLink, At
    <3>2. scratch.block \in Block /\ Caller \in User /\ hands[Caller] = scratch.block
      BY <3>1, GivenBack
    <3>. QED BY <1>1, <3>1, <3>2
  <2>2. CASE UseBlock
    <3>1. /\ pc[1] = "body" /\ pc[2] = "run" /\ kept.block # NULL
          /\ memory' = [memory EXCEPT ![kept.block] = Data]
      BY <2>2 DEF UseBlock, InTask
    <3>2. SP \in Thread /\ kept.block \in Block /\ kept.block = hands[SP]
      <4>1. InBody(SP, pc, kept, scratch, stack[SP], hands[SP])
        <5>. HIDE DEF InBody
        <5>. QED BY <3>1, InTheBody
      <4>2. SP \in Thread /\ kept \in RegisterValues
        BY DEF IInv, Typed
      <4>. QED BY <3>1, <4>1, <4>2 DEF InBody, RegisterValues
    <3>. QED BY <1>1, <3>1, <3>2 DEF User
  <2>. QED BY <2>1, <2>2
<1>3. IsFreeList(list)'
  <2>1. free' = free /\ memory = [x \in Block |-> memory[x]]
    BY DEF IInv, PoolInv, FreeLink, UseBlock
  <2>. HIDE DEF IsFreeList
  <2>. QED BY <1>1, <1>2, <2>1, ListWrite
<1>4. Listed' = Listed
  <2>. HIDE DEF IsFreeList
  <2>. QED BY <1>1, <1>3, ListedIs, ListedNext
<1>5. hands' = hands
  BY DEF FreeLink, UseBlock
<1>. QED BY <1>4, <1>5 DEF Pool!vars

\* No other step has to do with the pool.
LEMMA OthersLeavePool ==
  ASSUME [Next]_vars, ~AllocNext, ~FreeLink, ~FreeHead, ~UseBlock
  PROVE  UNCHANGED poolVars
<1>1. ASSUME NEW f \in Functions, SaveState(f) \/ Disable(f) \/ RestoreState(f) \/ FunctionReturns(f)
      PROVE  UNCHANGED poolVars
  BY <1>1 DEF SaveState, Disable, RestoreState, FunctionReturns
<1>2. CASE AllocLoad \/ Ready
  BY <1>2 DEF AllocLoad, Ready
<1>3. ASSUME NEW f \in {"yield", "create", "handler", "main"}, ScheduleStays(f) \/ ScheduleSwitches(f)
      PROVE  UNCHANGED poolVars
  BY <1>3 DEF ScheduleStays, ScheduleSwitches
<1>4. CASE SwitchSave \/ SwitchStack \/ SwitchRestore \/ StartParam \/ StartEnable
  BY <1>4 DEF SwitchSave, SwitchStack, SwitchRestore, StartParam, StartEnable
<1>5. CASE Interrupt \/ HandlerUsesPool \/ HandlerDone \/ InterruptPops \/ InterruptReturns
  BY <1>5 DEF Interrupt, HandlerUsesPool, HandlerCalls, HandlerDone, InterruptPops, InterruptReturns
<1>6. CASE RunDisable \/ RunEnable \/ Entry \/ Called \/ Leave \/ ExitDisable \/ ExitSwitches
  BY <1>6 DEF RunDisable, RunEnable, Entry, Called, Leave, ExitDisable, ExitSwitches
<1>7. CASE CallAlloc \/ CallFree \/ CallYield \/ (\E n \in Task : CallCreate(n))
  BY <1>7 DEF CallAlloc, CallFree, CallYield, CallFrom, CallCreate
<1>8. CASE UNCHANGED vars
  BY <1>8 DEF vars
<1>. QED BY <1>1, <1>2, <1>3, <1>4, <1>5, <1>6, <1>7, <1>8 DEF Next, Functions

(***************************************************************************)
(* For any number of tasks and blocks, with users that are preempted and   *)
(* interrupted anywhere: the list threaded through the free blocks behaves *)
(* as the set of them.  osPoolAlloc takes a block nobody has from it and   *)
(* osPoolFree gives back a block of its caller (PoolOfBlocks).             *)
(***************************************************************************)
THEOREM PoolIsSafe == Spec => PoolOfBlocks
<1>1. Init => Pool!Init
  <2>. SUFFICES ASSUME Init PROVE Pool!Init
    OBVIOUS
  <2>1. PICK list \in Seq(Block) : IsFreeList(list) /\ ToSet(list) = Block
    BY FirstFreeList
  <2>2. Listed = Block
    BY <2>1, ListedIs
  <2>. QED BY <2>2 DEF Pool!Init, Init
<1>2. IInv /\ [Next]_vars => [Pool!Next]_(Pool!vars)
  <2>. SUFFICES ASSUME IInv, [Next]_vars PROVE [Pool!Next]_(Pool!vars)
    OBVIOUS
  <2>1. CASE AllocNext
    BY <2>1, TakesBlock
  <2>2. CASE FreeHead
    BY <2>2, GivesBlock
  <2>3. CASE FreeLink \/ UseBlock
    BY <2>3, WritesBlock
  <2>4. CASE ~AllocNext /\ ~FreeLink /\ ~FreeHead /\ ~UseBlock
    <3>1. UNCHANGED <<free, memory>> /\ hands' = hands
      BY <2>4, OthersLeavePool DEF poolVars
    <3>. QED BY <3>1, ListedSame DEF Pool!vars
  <2>. QED BY <2>1, <2>2, <2>3, <2>4
<1>. QED BY <1>1, <1>2, ProcessorInvariant, PTL DEF Spec, PoolOfBlocks, Pool!Spec

----------------------------------------------------------------------------
(***************************************************************************)
(* Tasks on the heap.                                                      *)
(***************************************************************************)
----------------------------------------------------------------------------
(***************************************************************************)
(* A thread has a block in its hands exactly between taking it off the     *)
(* dead list and freeing it, and between malloc and osTaskSetup.           *)
(***************************************************************************)
HandsFull == \A t \in Thread : local[t] # NULL <=> at[t] \in {"free", "setup"}

DynamicInv == TypeOK /\ OneOwner /\ HandsFull

LEMMA InitDynamic == DynamicInit => DynamicInv
<1>. SUFFICES ASSUME DynamicInit PROVE DynamicInv
  OBVIOUS
<1>. USE DynamicAssumption DEF DynamicInit, Static, Thread
<1>1. TypeOK
  BY DEF TypeOK
<1>2. ToSet(osDeadList) = {} /\ IsInjective(osDeadList)
  BY DEF ToSet, IsInjective
<1>3. OneOwner
  BY <1>2 DEF OneOwner, Held
<1>4. HandsFull
  BY DEF HandsFull
<1>. QED
  BY <1>1, <1>3, <1>4 DEF DynamicInv

\* Steps that move no memory.
LEMMA KeepsOwners ==
  ASSUME OneOwner, UNCHANGED <<heap, live, osDeadList, local>>
  PROVE  OneOwner'
BY DEF OneOwner, Held

\* A thread moves on, with its hands empty or a block in them.
LEMMA KeepsHands ==
  ASSUME DynamicInv, NEW t \in Thread, NEW there, NEW b,
         at' = [at EXCEPT ![t] = there],
         local' = [local EXCEPT ![t] = b],
         b # NULL <=> there \in {"free", "setup"}
  PROVE  HandsFull'
BY DEF DynamicInv, HandsFull, TypeOK

LEMMA ReapIInv ==
  ASSUME DynamicInv, NEW t \in Thread, Reap(t)
  PROVE  DynamicInv'
<1>. USE DynamicAssumption DEF DynamicInv, Step
<1>1. CASE Pop(t)
  <2>. USE <1>1 DEF Pop
  <2>1. /\ Head(osDeadList) \in OnHeap /\ Tail(osDeadList) \in Seq(OnHeap)
        /\ IsInjective(Tail(osDeadList))
        /\ ToSet(Tail(osDeadList)) = ToSet(osDeadList) \ {Head(osDeadList)}
        /\ Head(osDeadList) \in ToSet(osDeadList)
    BY Popped DEF TypeOK, OneOwner
  <2>2. Head(osDeadList) # NULL
    BY <2>1 DEF Thread
  <2>3. TypeOK'
    BY <2>1 DEF TypeOK
  <2>4. OneOwner'
    BY <2>1, <2>2 DEF OneOwner, Held, TypeOK
  <2>5. HandsFull'
    BY <2>2, KeepsHands
  <2>. QED
    BY <2>3, <2>4, <2>5
<1>2. CASE Free(t)
  <2>. USE <1>2 DEF Free
  <2>1. local[t] # NULL /\ local[t] \in OnHeap
    BY DEF HandsFull, TypeOK
  <2>2. TypeOK'
    BY <2>1 DEF TypeOK
  <2>3. OneOwner'
    BY <2>1 DEF OneOwner, Held, TypeOK
  <2>4. HandsFull'
    BY KeepsHands
  <2>. QED
    BY <2>2, <2>3, <2>4
<1>3. CASE ReapReturns(t)
  <2>. USE <1>3 DEF ReapReturns
  <2>1. TypeOK'
    BY DEF TypeOK
  <2>2. OneOwner'
    BY KeepsOwners
  <2>3. HandsFull'
    BY DEF HandsFull, TypeOK
  <2>. QED
    BY <2>1, <2>2, <2>3
<1>. QED
  BY <1>1, <1>2, <1>3 DEF Reap

LEMMA CreateIInv ==
  ASSUME DynamicInv, NEW t \in Task, Create(t)
  PROVE  DynamicInv'
<1>. USE DynamicAssumption DEF DynamicInv, Step, Thread
<1>1. CASE Store(t) \/ StoreOther(t) \/ MallocFails(t) \/ NoMemory(t)
  <2>. USE DEF Store, StoreOther, MallocFails, NoMemory
  <2>0. UNCHANGED <<heap, live, asleep, osDeadList, loaded, local>>
        /\ at[t] \in {"app", "store", "malloc", "again"}
    BY <1>1 DEF TypeOK
  <2>1. PICK there \in {"store", "reap", "app"} : at' = [at EXCEPT ![t] = there]
    BY <1>1
  <2>2. osTaskReaper' \subseteq Byte
    <3>1. CASE Store(t)
      BY <3>1 DEF TypeOK
    <3>2. CASE ~Store(t)
      BY <1>1, <3>2 DEF TypeOK
    <3>. QED
      BY <3>1, <3>2
  <2>3. then' \in [Thread -> {"app", "malloc", "again", "loop"}]
    BY <1>1 DEF TypeOK
  <2>4. TypeOK'
    BY <2>0, <2>1, <2>2, <2>3 DEF TypeOK
  <2>5. OneOwner'
    BY <2>0, KeepsOwners
  <2>6. HandsFull'
    BY <2>0, <2>1 DEF HandsFull, TypeOK
  <2>. QED
    BY <2>4, <2>5, <2>6
<1>2. CASE Malloc(t)
  <2>. USE <1>2 DEF Malloc
  <2>1. PICK b \in heap : heap' = heap \ {b} /\ local' = [local EXCEPT ![t] = b]
    OBVIOUS
  <2>2. at' = [at EXCEPT ![t] = "setup"] /\ b \in OnHeap /\ b # NULL
    BY DEF TypeOK
  <2>3. TypeOK'
    BY <2>1, <2>2 DEF TypeOK
  <2>4. OneOwner'
    BY <2>1, <2>2 DEF OneOwner, Held, TypeOK
  <2>5. HandsFull'
    BY <2>1, <2>2, KeepsHands
  <2>. QED
    BY <2>3, <2>4, <2>5
<1>3. CASE Setup(t) \/ SetupFails(t)
  <2>. USE <1>3 DEF Setup, SetupFails
  <2>1. local[t] # NULL /\ local[t] \in OnHeap
    BY DEF HandsFull, TypeOK
  <2>2. TypeOK'
    BY <2>1 DEF TypeOK
  <2>3. OneOwner'
    BY <2>1 DEF OneOwner, Held, TypeOK
  <2>4. HandsFull'
    BY KeepsHands
  <2>. QED
    BY <2>2, <2>3, <2>4
<1>. QED
  BY <1>1, <1>2, <1>3 DEF Create

LEMMA DeleteIInv ==
  ASSUME DynamicInv, NEW t \in Task, NEW u \in Task, Delete(t, u)
  PROVE  DynamicInv'
<1>. USE DynamicAssumption DEF DynamicInv, Delete, Thread
<1>1. CASE u \in OnHeap
  <2>1. u \notin ToSet(osDeadList) /\ u \notin heap /\ \A v \in Held : local[v] # u
    BY DEF OneOwner
  <2>2. /\ osDeadList' \in Seq(OnHeap) /\ IsInjective(osDeadList')
        /\ ToSet(osDeadList') = ToSet(osDeadList) \cup {u}
    BY <1>1, <2>1, Pushed DEF TypeOK, OneOwner
  <2>3. TypeOK'
    BY <2>2 DEF TypeOK
  <2>4. OneOwner'
    BY <2>1, <2>2 DEF OneOwner, Held, TypeOK
  <2>5. HandsFull'
    BY KeepsHands
  <2>. QED
    BY <2>3, <2>4, <2>5
<1>2. CASE u \notin OnHeap
  <2>1. TypeOK'
    BY <1>2 DEF TypeOK
  <2>2. OneOwner'
    BY <1>2 DEF OneOwner, Held, TypeOK
  <2>3. HandsFull'
    BY KeepsHands
  <2>. QED
    BY <2>1, <2>2, <2>3
<1>. QED
  BY <1>1, <1>2

LEMMA RunIInv ==
  ASSUME DynamicInv, Run
  PROVE  DynamicInv'
<1>. USE DynamicAssumption DEF DynamicInv, Run, Thread
<1>1. local[osIdleTask] = NULL /\ at' = [at EXCEPT ![osIdleTask] = "loop"]
  BY DEF HandsFull
<1>2. HandsFull'
  BY <1>1 DEF HandsFull, TypeOK
<1>3. ASSUME osTaskReaper' = Byte, NEW b \in heap, live' = live \cup {b}, heap' = heap \ {b}
      PROVE  DynamicInv'
  <2>2. TypeOK'
    BY <1>3 DEF TypeOK
  <2>3. OneOwner'
    BY <1>3 DEF OneOwner, Held
  <2>. QED
    BY <1>2, <2>2, <2>3
<1>4. CASE UNCHANGED <<heap, live, osTaskReaper>>
  <2>1. TypeOK'
    BY <1>4 DEF TypeOK
  <2>2. OneOwner'
    BY <1>4, KeepsOwners
  <2>. QED
    BY <1>2, <2>1, <2>2
<1>. QED
  BY <1>3, <1>4

LEMMA NextDynamic == DynamicInv /\ [DynamicNext]_dynamicVars => DynamicInv'
<1>. SUFFICES ASSUME DynamicInv, [DynamicNext]_dynamicVars PROVE DynamicInv'
  OBVIOUS
<1>. USE DEF Thread
<1>1. CASE Run
  BY <1>1, RunIInv
<1>2. CASE Reap(osIdleTask)
  BY <1>2, ReapIInv
<1>3. ASSUME NEW byte \in Byte, Call(byte) \/ \E other \in Byte : Load(byte, other)
      PROVE  DynamicInv'
  <2>. USE DEF DynamicInv, Call, Load, Step, Byte
  <2>1. /\ UNCHANGED <<heap, live, asleep, osDeadList, osTaskReaper, local>>
        /\ loaded' \subseteq Byte
        /\ then' \in [Thread -> {"app", "malloc", "again", "loop"}]
        /\ at[osIdleTask] \in {"loop", "low", "high"}
        /\ \E there \in {"loop", "low", "high", "reap", "lost"} :
              at' = [at EXCEPT ![osIdleTask] = there]
    <3>1. CASE Call(byte)
      BY <3>1 DEF TypeOK
    <3>2. CASE \E other \in Byte : Load(byte, other)
      BY <3>2 DEF TypeOK
    <3>. QED
      BY <1>3, <3>1, <3>2
  <2>2. PICK there \in {"loop", "low", "high", "reap", "lost"} :
              at' = [at EXCEPT ![osIdleTask] = there]
    BY <2>1
  <2>3. TypeOK'
    BY <2>1, <2>2 DEF TypeOK
  <2>4. OneOwner'
    BY <2>1, KeepsOwners
  <2>5. HandsFull'
    BY <2>1, <2>2 DEF HandsFull, TypeOK
  <2>. QED
    BY <2>3, <2>4, <2>5
<1>4. ASSUME NEW t \in Task, Create(t) \/ Reap(t) PROVE DynamicInv'
  BY <1>4, CreateIInv, ReapIInv
<1>5. ASSUME NEW t \in Task, NEW u \in Task, Delete(t, u) PROVE DynamicInv'
  BY <1>5, DeleteIInv
<1>6. ASSUME NEW t \in Task, NEW u \in Task, Wake(u) \/ Suspend(t, u) PROVE DynamicInv'
  <2>. USE <1>6 DEF DynamicInv, Wake, Suspend, Step
  <2>1. TypeOK'
    BY DEF TypeOK
  <2>2. OneOwner'
    BY KeepsOwners
  <2>3. HandsFull'
    BY DEF HandsFull, TypeOK
  <2>. QED
    BY <2>1, <2>2, <2>3
<1>7. CASE UNCHANGED dynamicVars
  BY <1>7 DEF dynamicVars, DynamicInv, TypeOK, OneOwner, Held, HandsFull
<1>. QED
  BY <1>1, <1>2, <1>3, <1>4, <1>5, <1>6, <1>7 DEF DynamicNext, Idle, Lost, Byte

\* The inductive invariant holds in every state.
THEOREM DynamicInvariant == DynamicSpec => []DynamicInv
BY InitDynamic, NextDynamic, PTL DEF DynamicSpec

(***************************************************************************)
(* Tasks are asleep only while they are alive, the dead list is one of     *)
(* blocks, and every thread is at a place of its program, although it can  *)
(* be deleted at any other and starts anew (tasks.c:91-103, 215-285).      *)
(***************************************************************************)
THEOREM DynamicTypeCorrect == DynamicSpec => []TypeOK
<1>1. DynamicInv => TypeOK
  BY DEF DynamicInv
<1>. QED
  BY <1>1, DynamicInvariant, PTL

(***************************************************************************)
(* The memory of a task is never freed twice, nor while somebody uses it,  *)
(* whoever reaps (tasks.c:263-285).                                        *)
(***************************************************************************)
THEOREM MemoryHasOneOwner == DynamicSpec => []OneOwner
<1>1. DynamicInv => OneOwner
  BY DEF DynamicInv
<1>. QED
  BY <1>1, DynamicInvariant, PTL
=============================================================================
