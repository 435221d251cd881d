------------------------------ MODULE Threads -------------------------------
(***************************************************************************)
(* Whoever has a stack: the tasks and main().                              *)
(***************************************************************************)
CONSTANTS
  Task,                   \* tasks the application creates
  osIdleTask,             \* main(), later the idle task
  NULL

Thread == Task \cup {osIdleTask}
=============================================================================
