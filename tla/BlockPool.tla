----------------------------- MODULE BlockPool ------------------------------
(***************************************************************************)
(* What a memory pool promises: a block is free or in the hands of one     *)
(* user, who gets one at once as long as there is any.                     *)
(***************************************************************************)
CONSTANTS
  Block,
  User,                   \* whoever may hold a block
  NULL                    \* no block

VARIABLES
  available,              \* blocks that are free
  holder                  \* the block of a user, or NULL

vars == <<available, holder>>

Init ==
  /\ available = Block
  /\ holder = [u \in User |-> NULL]

Take(u, b) ==
  /\ holder[u] = NULL /\ b \in available
  /\ holder' = [holder EXCEPT ![u] = b]
  /\ available' = available \ {b}

Give(u) ==
  /\ holder[u] # NULL
  /\ available' = available \cup {holder[u]}
  /\ holder' = [holder EXCEPT ![u] = NULL]

Next ==
  \E u \in User :
    \/ \E b \in Block : Take(u, b)
    \/ Give(u)

Spec == Init /\ [][Next]_vars
=============================================================================
