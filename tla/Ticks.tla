------------------------------- MODULE Ticks --------------------------------
(***************************************************************************)
(* The tick counter, which overflows.                                      *)
(***************************************************************************)
EXTENDS Integers

CONSTANTS
  OS_TICKS,               \* values of OsTick, 2^16 in the code
  OS_CFG_TICK_START

OsTick == 0 .. OS_TICKS - 1
=============================================================================
