---- MODULE MCScheduler ----
EXTENDS Scheduler, TLC
TaskSymmetry == Permutations(Task)
====
