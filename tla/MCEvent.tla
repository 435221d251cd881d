---- MODULE MCEvent ----
EXTENDS Event, TLC
Symmetry == Permutations(Task) \cup Permutations(EventFlag)
====
