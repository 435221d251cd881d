----------------------------- MODULE TokenPool ------------------------------
(***************************************************************************)
(* What a counting semaphore promises to the threads that use it.          *)
(*                                                                         *)
(* A token is in the pool, on its way to a thread or taken.  Tokens leave  *)
(* this cycle only when the pool is full or a thread dies with a token on  *)
(* its way to it.  A thread waits only for as long as the pool is empty,   *)
(* and it is told that it got a token exactly if it did.                   *)
(***************************************************************************)
EXTENDS Naturals

CONSTANTS Thread, Initial, Limit

VARIABLES
  tokens,                 \* in the pool
  phase,                  \* of each thread
  got                     \* what the last thread to be told was told

pvars == <<tokens, phase, got>>

Phase == {"out", "waiting", "granted", "failed"}

PoolInit ==
  /\ tokens = Initial
  /\ phase = [t \in Thread |-> "out"]
  /\ got = FALSE

\* A thread asks for a token.
Take(t) ==
  /\ phase[t] = "out" /\ tokens > 0
  /\ tokens' = tokens - 1
  /\ got' = TRUE
  /\ UNCHANGED phase

Refuse(t) ==
  /\ phase[t] = "out" /\ tokens = 0
  /\ got' = FALSE
  /\ UNCHANGED <<tokens, phase>>

Wait(t) ==
  /\ phase[t] = "out" /\ tokens = 0
  /\ phase' = [phase EXCEPT ![t] = "waiting"]
  /\ UNCHANGED <<tokens, got>>

\* Somebody gives one.
Grant(t) ==
  /\ phase[t] = "waiting"
  /\ phase' = [phase EXCEPT ![t] = "granted"]
  /\ UNCHANGED <<tokens, got>>

Give ==
  /\ \A t \in Thread : phase[t] # "waiting"
  /\ tokens < Limit
  /\ tokens' = tokens + 1
  /\ UNCHANGED <<phase, got>>

\* Waiting ends without a token for any number of threads at once.
Expire(S) ==
  /\ \A t \in S : phase[t] = "waiting"
  /\ phase' = [t \in Thread |-> IF t \in S THEN "failed" ELSE phase[t]]
  /\ UNCHANGED <<tokens, got>>

\* A thread is told.
Return(t) ==
  /\ phase[t] \in {"granted", "failed"}
  /\ got' = (phase[t] = "granted")
  /\ phase' = [phase EXCEPT ![t] = "out"]
  /\ UNCHANGED tokens

\* A thread dies.
Die(t) ==
  /\ phase[t] \in {"waiting", "failed"}
  /\ phase' = [phase EXCEPT ![t] = "out"]
  /\ UNCHANGED <<tokens, got>>

\* The only way to lose a token that was given: it was on its way to a thread
\* that dies.  osTaskDelete passes on mutexes (tasks.c:118) but no tokens.
DieWithToken(t) ==
  /\ phase[t] = "granted"
  /\ phase' = [phase EXCEPT ![t] = "out"]
  /\ UNCHANGED <<tokens, got>>

PoolNext ==
  \/ Give
  \/ \E t \in Thread : Take(t) \/ Refuse(t) \/ Wait(t) \/ Grant(t) \/ Return(t)
  \/ \E t \in Thread : Die(t) \/ DieWithToken(t)
  \/ \E S \in SUBSET Thread : Expire(S)

PoolSpec == PoolInit /\ [][PoolNext]_pvars
=============================================================================
