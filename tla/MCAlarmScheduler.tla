-------------------------- MODULE MCAlarmScheduler --------------------------
(* An instance of AlarmScheduler for TLC.                                  *)
EXTENDS AlarmScheduler

CONSTANTS k1, k2

SomeBudget == [calls |-> 4, throws |-> 1, failures |-> 1, evictions |-> 1, suspends |-> 1]

\* One that is due at once, one clamped to it, and one longer than the retry delay.
SomeDelays == {-2, 0, 2}
=============================================================================
