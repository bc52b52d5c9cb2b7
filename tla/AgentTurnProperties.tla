------------------------ MODULE AgentTurnProperties ------------------------
(***************************************************************************)
(* What AgentTurn is meant to guarantee.                                   *)
(***************************************************************************)
EXTENDS AgentTurn

(***************************************************************************)
(* The type of every variable.  A budget never grows, and the queue holds  *)
(* the actors whose append is under way.                                   *)
(***************************************************************************)
Actors == Messages \union {Operator, Loop}

TypeOK ==
  /\ agent \in Agent
  /\ mailbox \subseteq Messages
  /\ callLog \subseteq Response
  /\ pc \in Points
  /\ turn \in Turn
  /\ requests \in Nat
  /\ queue \in Seq(Actors)
  /\ scheduled \in BOOLEAN /\ debounceArmed \in BOOLEAN /\ pendingReschedule \in BOOLEAN
  /\ retryArmed \in BOOLEAN /\ backoff \in BOOLEAN
  /\ sends \in [Messages -> {"unsent", "queued", "stored", "sent"}]
  /\ operator \in [call : AllOperations \union {"none"}, start : Nat, count : Nat,
                   applied : BOOLEAN]
  /\ budget \in Budgets

-----------------------------------------------------------------------------
(* Tool calls and their results *)

(***************************************************************************)
(* An agent that would infer, is inferring or failed to has no unresolved  *)
(* tool call, and one that would run tools has one: whatever pause, resume,*)
(* rewind, failure, crash and load interleave, agent_resumed and the       *)
(* reducers never send an agent to inference with a tool_use that lacks    *)
(* its result.                                                             *)
(***************************************************************************)
StatusMatchesToolCalls ==
  /\ agent.status \in {"pending", "inferring", "errored"} => agent.pendingToolCalls = <<>>
  /\ agent.status = "tool_exec" => agent.pendingToolCalls # <<>>

(***************************************************************************)
(* Every conversation sent to the provider pairs tool_use and tool_result: *)
(* the results of an assistant message are the entries right after it, one *)
(* per call, and there is no other result.                                 *)
(***************************************************************************)
Paired(entries) ==
  /\ \A i \in DOMAIN entries :
       LET n == Cardinality(entries[i].calls)
       IN  entries[i].role = "assistant" =>
             /\ i + n <= Len(entries)
             /\ {entries[j].calls : j \in i+1 .. i+n} = {{c} : c \in entries[i].calls}
  /\ \A j \in DOMAIN entries :
       entries[j].role = "tool" =>
         \E i \in 1..(j-1) : /\ entries[i].role = "assistant"
                             /\ j <= i + Cardinality(entries[i].calls)

RequestsPaired == pc = "llm" => Paired(turn.response.asked)

(***************************************************************************)
(* A tool call whose result is recorded never runs again, not after a      *)
(* pause in its hooks, a resume, or a load that found it executing.        *)
(***************************************************************************)
Recorded(c) ==
  \/ c \in Range(agent.pendingToolResults)
  \/ \E i \in DOMAIN agent.history : agent.history[i] = ToolEntry(c)

ToolRunsUntilRecorded == [][pc # "tool" /\ pc' = "tool" => ~Recorded(turn.tool)]_vars

-----------------------------------------------------------------------------
(* Messages, requests and replies *)

(***************************************************************************)
(* A reply is committed after exactly the conversation it answers: nothing *)
(* staged twice, nothing missing, and a reply replayed from the call log   *)
(* after a restart never answers a message it did not see.                 *)
(***************************************************************************)
Committing == pc = "commit" /\ pc' # "commit" /\ agent' # agent

ReplyFollowsItsRequest ==
  [][Committing => agent'.history = turn.response.asked
                                      \o <<AssistantEntry(Range(ToolCalls(turn.response)))>>]_vars

(***************************************************************************)
(* A message leaves the mailbox only when the history holds it, or when    *)
(* the provider refused for good the request that carried it: a message    *)
(* that arrives during a turn is neither consumed nor dropped by it.       *)
(***************************************************************************)
ConsumedOnceCommitted ==
  [][\A m \in mailbox \ mailbox' : m \in MessagesIn(agent.history)
                                  \/ (pc = "drop" /\ m \in turn.input.msgs)]_vars

(***************************************************************************)
(* At-least-once delivery is exactly-once but for a crash or a refused     *)
(* append: neither retries, failures nor pauses put a message in the       *)
(* history twice.                                                          *)
(***************************************************************************)
Occurrences(m) == Cardinality({i \in DOMAIN agent.history : m \in agent.history[i].msgs})
Faults == (Budget.crashes - budget.crashes) + (Budget.appendFailures - budget.appendFailures)

DeliveredOncePerFault == \A m \in Messages : Occurrences(m) <= 1 + Faults

-----------------------------------------------------------------------------
(* Wakes *)

(***************************************************************************)
(* The flag `scheduled` makes scheduleProcessing a no-op, so it may only   *)
(* be up while a wake is armed that takes it down, and never while a turn  *)
(* runs: a reschedule would be forgotten.                                  *)
(***************************************************************************)
ScheduledHasWake == scheduled => debounceArmed /\ pc = "idle"

(* What continue() would act on: an agent not started yet waits for its first message. *)
CouldAct ==
  \/ Decision(agent, HasMessages) \in {"tool_exec", "infer", "resume_from_error"}
  \/ Decision(agent, HasMessages) = "on_start" /\ HasMessages

(***************************************************************************)
(* An idle agent with work has a wake coming: a schedule, the retry of an  *)
(* error, or a caller about to schedule it.                                *)
(***************************************************************************)
NoLostWakeup ==
  pc = "idle" /\ CouldAct =>
    \/ scheduled
    \/ retryArmed
    \/ \E m \in Messages : sends[m] = "stored"
    \/ operator.applied

(***************************************************************************)
(* Every stored message is eventually consumed or the agent is paused:     *)
(* through failures and their backoff, crashes, and wakes that arrive      *)
(* while a turn runs.                                                      *)
(***************************************************************************)
MessagesAreHandled ==
  \A m \in Messages : m \in mailbox ~> (m \notin mailbox \/ agent.status = "paused")

-----------------------------------------------------------------------------
(* What the documentation says and the code does not do *)

(***************************************************************************)
(* A pause holds until somebody resumes the agent or rewinds it            *)
(* (Session.pauseAgentsWithWork: "it holds across later loads until the    *)
(* agent is resumed"; the test "pause landing mid-inference is preserved   *)
(* after the turn commits").                                               *)
(***************************************************************************)
PauseHolds ==
  [][agent.status = "paused" /\ agent'.status # "paused" =>
       operator.call \in {"session.resume", "agents.resume", "agents.rewind"}]_vars
=============================================================================
