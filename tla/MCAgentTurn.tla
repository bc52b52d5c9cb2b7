---------------------------- MODULE MCAgentTurn ----------------------------
(***************************************************************************)
(* Instances of AgentTurn for TLC: what the environment may do in each.    *)
(***************************************************************************)
EXTENDS AgentTurnProperties, TLC

Quiet == [toolTurns |-> 0, retryable |-> 0, fatal |-> 0, pauses |-> 0, hookRetries |-> 0,
          appendFailures |-> 0, rewinds |-> 0, crashes |-> 0]

(* Pauses, hook retries, a failure for good and a crash around tool turns. *)
CoreBudget == [Quiet EXCEPT !.toolTurns = 1, !.fatal = 1, !.pauses = 1, !.hookRetries = 1, !.crashes = 1]

(* Refused appends, rewinds and provider failures of both kinds. *)
FaultBudget == [Quiet EXCEPT !.toolTurns = 1, !.pauses = 1, !.retryable = 2, !.fatal = 1,
                             !.appendFailures = 1, !.rewinds = 1]
LivenessBudget == [Quiet EXCEPT !.retryable = 1, !.pauses = 1, !.crashes = 1]

(* A few steps suffice where the code departs from its documentation. *)
PauseBudget == [Quiet EXCEPT !.pauses = 1, !.retryable = 1, !.crashes = 1]

MessageSymmetry == Permutations(Messages)
=============================================================================
