---- MODULE MCQueue ----
EXTENDS Queue, TLC
Symmetry == Permutations(Task) \cup Permutations(Message)
====
