---- MODULE MCSemaphore ----
EXTENDS Semaphore, TLC
TaskSymmetry == Permutations(Task)
====
