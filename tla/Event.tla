------------------------------- MODULE Event --------------------------------
(***************************************************************************)
(* event.c: flags that tasks wait for, any or all of those they want, and  *)
(* that tasks and interrupt handlers set and clear.                        *)
(***************************************************************************)
EXTENDS Application

CONSTANTS
  event,
  EventFlag,              \* eight of them in the code
  Options                 \* options the application waits with

ASSUME EventAssumption ==
  /\ Mutex = {} /\ Object = {event}
  /\ Options \subseteq SUBSET {"ALL", "KEEP"}

VARIABLES
  flags,                  \* event->flags
  wait                    \* task->wait.event: the flags a task wants, later
                          \* those it got, and its options

vars == <<k, running, call, flags, wait>>

NoWait == [flags |-> {}, options |-> {}]

Init ==
  /\ ApplicationInit
  /\ flags = {}
  /\ wait = [t \in Thread |-> NoWait]

----------------------------------------------------------------------------
\* Flags which satisfy the request, none if there is nothing to be satisfied
\* with yet.
osEventMatch(set, request) ==
  IF "ALL" \in request.options /\ ~(request.flags \subseteq set)
  THEN {}
  ELSE set \cap request.flags

\* What is left once a request has been satisfied.
Left(set, request) ==
  IF "KEEP" \in request.options THEN set ELSE set \ osEventMatch(set, request)

\* The request is satisfied at once, or with OS_NO_WAIT not at all.
WaitAtOnce(request) ==
  /\ ~Returning
  /\ flags' = Left(flags, request)
  /\ UNCHANGED <<k, running, call, wait>>

WaitBlocks(request, timeout) ==
  /\ ~Returning
  /\ osEventMatch(flags, request) = {}
  /\ timeout # OS_NO_WAIT
  /\ k.current # osIdleTask
  /\ wait' = [wait EXCEPT ![k.current] = request]
  /\ Blocks(k, event, timeout, event)
  /\ UNCHANGED flags

\* With the flags the task got, or with none.
WaitReturns ==
  /\ Returns(k)
  /\ wait' = [wait EXCEPT ![k.current] = NoWait]
  /\ UNCHANGED flags

\* Mutant: the loop goes on from where the woken task is now.
ServedFirst(set) ==
  LET list == k.waiters[event]
      i == SelectInSeq(list, LAMBDA t : osEventMatch(set, wait[t]) # {})
      task == list[i]
  IN  IF i = 0 THEN [kernel |-> k, flags |-> set, wait |-> wait]
      ELSE [kernel |-> osWake(k, task, TRUE),
            flags |-> Left(set, wait[task]),
            wait |-> [wait EXCEPT ![task].flags = osEventMatch(set, wait[task])]]

\* Mutant: flags are cleared once everybody has been served.
ServedTogether(set) ==
  LET list == SelectSeq(k.waiters[event], LAMBDA t : osEventMatch(set, wait[t]) # {})
      woken[i \in 0 .. Len(list)] ==
        IF i = 0 THEN k ELSE osWake(woken[i - 1], list[i], TRUE)
  IN  [kernel |-> woken[Len(list)],
       flags |-> {f \in set : \A t \in ToSet(list) : f \in Left(set, wait[t])},
       wait |-> [t \in Thread |->
                   IF t \in ToSet(list)
                   THEN [wait[t] EXCEPT !.flags = osEventMatch(set, wait[t])] ELSE wait[t]]]

\* The tasks that wait, one by one with the flags the ones before have left.
Served(set) ==
  LET list == k.waiters[event]
      served[i \in 0 .. Len(list)] ==
        IF i = 0 THEN [kernel |-> k, flags |-> set, wait |-> wait]
        ELSE LET s == served[i - 1]
                 matched == osEventMatch(s.flags, wait[list[i]])
             IN  IF matched = {} THEN s
                 ELSE [kernel |-> osWake(s.kernel, list[i], TRUE),
                       flags |-> Left(s.flags, wait[list[i]]),
                       wait |-> [s.wait EXCEPT ![list[i]].flags = matched]]
  IN  served[Len(list)]

\* By a task or a handler with OS_ISR, which end with osSchedule, or by a
\* handler that does not.
Set(set) ==
  LET s == Served(flags \cup set)
  IN  /\ ~Returning
      /\ k' = osSchedule(s.kernel, 0) \/ k' = s.kernel
      /\ flags' = s.flags
      /\ wait' = s.wait
      /\ UNCHANGED <<running, call>>

Clear(set) ==
  /\ ~Returning
  /\ flags' = flags \ set
  /\ UNCHANGED <<k, running, call, wait>>

Other ==
  /\ ApplicationNext
  /\ wait' = [t \in Thread |-> IF k'.state[t] = "DEAD" THEN NoWait ELSE wait[t]]
  /\ UNCHANGED flags

Request == [flags : SUBSET EventFlag \ {{}}, options : Options]

Next ==
  \/ \E r \in Request : WaitAtOnce(r) \/ \E n \in Timeout : WaitBlocks(r, n)
  \/ WaitReturns
  \/ \E set \in SUBSET EventFlag \ {{}} : Set(set) \/ Clear(set)
  \/ Other

Spec == Init /\ [][Next]_vars

----------------------------------------------------------------------------
\* Every variable has a value of its type.
TypeOK ==
  /\ ApplicationTypeOK(Object)
  /\ flags \subseteq EventFlag
  /\ wait \in [Thread -> [flags : SUBSET EventFlag, options : SUBSET {"ALL", "KEEP"}]]

(***************************************************************************)
(* Nobody keeps waiting for flags that are set: one call serves everybody  *)
(* it can, although it takes tasks off the list it walks (event.c:74-90),  *)
(* and what it leaves behind satisfies nobody it has passed.               *)
(***************************************************************************)
NobodyOverlooked ==
  \A t \in ToSet(k.waiters[event]) : osEventMatch(flags, wait[t]) = {}

(***************************************************************************)
(* "the most important tasks are served first, flags taken by them are     *)
(* gone" (event.c:73): of the tasks woken up by one call nobody gets a flag *)
(* that a task before it has taken, such a flag is not set any more, and   *)
(* everybody gets some of what it wanted, or all of it if it said so.      *)
(***************************************************************************)
Granted(t) == k.state[t] = "BLOCKED" /\ call[t] # NULL /\ Woken(t)'

FlagsTakenOnce ==
  [][\A t \in Task : Granted(t) =>
       /\ wait'[t].flags # {} /\ wait'[t].flags \subseteq wait[t].flags
       /\ "ALL" \in wait[t].options => wait'[t].flags = wait[t].flags
       /\ "KEEP" \notin wait[t].options =>
            /\ wait'[t].flags \cap flags' = {}
            /\ \A u \in Task : Granted(u) /\ Ahead(k.waiters[event], t, u)
                 => wait'[t].flags \cap wait'[u].flags = {}]_vars
=============================================================================
