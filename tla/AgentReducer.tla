---------------------------- MODULE AgentReducer ----------------------------
(***************************************************************************)
(* The event-sourced state of one agent and the reducer that folds its     *)
(* events into it (core/sessions/state.ts, AgentState in                   *)
(* core/agents/state.ts).  Every operator below is the effect of one event *)
(* on that state; the events themselves are emitted by AgentTurn.          *)
(*                                                                         *)
(* Abstractions.  A mailbox message is an element of Messages.  An LLM     *)
(* request is a number; a tool call is <<request, index>>, which keeps the *)
(* provider's promise that tool call ids are fresh.  A history entry keeps *)
(* only its role, the mailbox messages it renders and the tool calls it    *)
(* demands (assistant) or answers (tool).  Text, metrics, timestamps and   *)
(* the preamble are left out.                                              *)
(***************************************************************************)
EXTENDS Naturals, Sequences, Functions

CONSTANT Messages    \* mailbox messages the agent may ever be sent

Statuses == {"pending", "inferring", "tool_exec", "errored", "paused"}

ToolCall == Nat \X Nat

Entry == [role : {"user", "tool", "assistant"},
          msgs : SUBSET Messages, calls : SUBSET ToolCall]

UserEntry(ms)     == [role |-> "user",      msgs |-> ms, calls |-> {}]
ToolEntry(c)      == [role |-> "tool",      msgs |-> {}, calls |-> {c}]
AssistantEntry(C) == [role |-> "assistant", msgs |-> {}, calls |-> C]

(***************************************************************************)
(* What a turn answers: the tool results it carries and the mailbox        *)
(* messages it dequeued (inferenceInputKey).                               *)
(***************************************************************************)
Input   == [results : Seq(ToolCall), msgs : SUBSET Messages]
NoInput == [results |-> <<>>, msgs |-> {}]

(***************************************************************************)
(* The messages inference_started stages for an input: one tool message    *)
(* per pending result, then one user message rendering the whole mailbox.  *)
(***************************************************************************)
Staged(input) ==
  [i \in DOMAIN input.results |-> ToolEntry(input.results[i])]
    \o (IF input.msgs = {} THEN <<>> ELSE <<UserEntry(input.msgs)>>)

(* InferenceCallRef: the logged request a turn waits for. id 0 is "undefined". *)
CallRef == [id : Nat, input : Input]
NoCall  == [id |-> 0, input |-> NoInput]

NoTool == <<0, 0>>

Agent == [status : Statuses,
          history : Seq(Entry),              \* conversationHistory
          pendingMessages : Seq(Entry),
          pendingToolCalls : Seq(ToolCall),
          pendingToolResults : Seq(ToolCall),
          executing : ToolCall,              \* executingToolCall
          inferenceCall : CallRef,
          interrupted : CallRef,             \* interruptedInference
          onStartCalled : BOOLEAN,
          completionHandled : BOOLEAN,
          failures : Nat]                    \* consecutiveInferenceFailures

(* agent_spawned *)
Spawned ==
  [status |-> "pending", history |-> <<>>, pendingMessages |-> <<>>,
   pendingToolCalls |-> <<>>, pendingToolResults |-> <<>>, executing |-> NoTool,
   inferenceCall |-> NoCall, interrupted |-> NoCall,
   onStartCalled |-> FALSE, completionHandled |-> FALSE, failures |-> 0]

UnlessPaused(a, status) == IF a.status = "paused" THEN "paused" ELSE status

InferenceStarted(a, messages, call) ==
  [a EXCEPT !.status = "inferring",
            !.pendingMessages = @ \o messages,
            !.inferenceCall = call,
            !.interrupted = NoCall,
            !.completionHandled = FALSE]

InferenceCompleted(a, toolCalls) ==
  [a EXCEPT !.status = UnlessPaused(a, IF toolCalls # <<>> THEN "tool_exec" ELSE "pending"),
            !.history = @ \o a.pendingMessages \o <<AssistantEntry(Range(toolCalls))>>,
            !.pendingToolCalls = toolCalls,
            !.pendingMessages = <<>>,
            !.pendingToolResults = <<>>,
            !.failures = 0,
            !.inferenceCall = NoCall,
            !.interrupted = NoCall,
            !.completionHandled = FALSE]

(* Seeded faults: the rollback of a failed turn forgets what it staged; counts down. *)
InferenceFailed_KeepsStaged(a) ==
  [a EXCEPT !.status = "errored", !.inferenceCall = NoCall, !.failures = @ + 1]
InferenceFailed_CountsDown(a) ==
  [a EXCEPT !.status = "errored", !.pendingMessages = <<>>, !.inferenceCall = NoCall,
            !.failures = @ - 1]

InferenceFailed(a) ==
  [a EXCEPT !.status = "errored",
            !.pendingMessages = <<>>,
            !.inferenceCall = NoCall,
            !.failures = @ + 1]

InferenceRetried(a) ==
  [a EXCEPT !.status = UnlessPaused(a, "pending"),
            !.pendingMessages = <<>>,
            !.inferenceCall = NoCall]

ToolStarted(a, c) == [a EXCEPT !.executing = c]

(* The calls other than c, which occurs once: ids are fresh. *)
Without(calls, c) ==
  IF c \in Range(calls)
  THEN LET i == CHOOSE i \in DOMAIN calls : calls[i] = c
       IN  SubSeq(calls, 1, i - 1) \o SubSeq(calls, i + 1, Len(calls))
  ELSE calls

(* Seeded faults: a result that leaves its call pending; one that ends the tool phase early. *)
ToolFinished_StaysPending(a, c) ==
  [a EXCEPT !.pendingToolResults = Append(@, c),
            !.status = UnlessPaused(a, "tool_exec"), !.executing = NoTool]
ToolFinished_EndsPhase(a, c) ==
  [a EXCEPT !.pendingToolCalls = Without(@, c),
            !.pendingToolResults = Append(@, c),
            !.status = UnlessPaused(a, "pending"), !.executing = NoTool]

(* tool_completed and tool_failed differ only in the content of the result. *)
ToolFinished(a, c) ==
  LET remaining == Without(a.pendingToolCalls, c)
  IN  [a EXCEPT !.pendingToolCalls = remaining,
                !.pendingToolResults = Append(@, c),
                !.status = UnlessPaused(a, IF remaining = <<>> THEN "pending" ELSE "tool_exec"),
                !.executing = NoTool]

AgentPaused(a) == [a EXCEPT !.status = "paused"]

(* Seeded fault: a resume into inference whatever tool calls the pause left behind. *)
AgentResumed_ToInference(a) == [a EXCEPT !.status = "pending", !.completionHandled = FALSE]

AgentResumed(a) ==
  [a EXCEPT !.status = IF a.pendingToolCalls # <<>> THEN "tool_exec" ELSE "pending",
            !.completionHandled = FALSE]

OnStartCompleted(a) == [a EXCEPT !.onStartCalled = TRUE]

(* handler_completed(onComplete, null): a pausing onComplete emits no such event. *)
CompletionHandled(a) == [a EXCEPT !.completionHandled = TRUE]

(***************************************************************************)
(* agent_conversation_spliced as agents.rewind emits it: `count` entries   *)
(* after the first `start` go.  The count is computed before the event is  *)
(* folded in, so entries committed in between survive at the end.          *)
(***************************************************************************)
Rewound(a, start, count) ==
  [a EXCEPT !.history = SubSeq(@, 1, start) \o SubSeq(@, start + count + 1, Len(@)),
            !.pendingToolCalls = <<>>,
            !.pendingToolResults = <<>>,
            !.pendingMessages = <<>>,
            !.executing = NoTool,
            !.inferenceCall = NoCall,
            !.interrupted = NoCall,
            !.status = "pending",
            !.completionHandled = FALSE]

(***************************************************************************)
(* session_restarted, the recovery event of a load.  On an agent that      *)
(* checkRecoveryNeeded does not name it changes nothing, so the event may  *)
(* be folded in unconditionally.                                           *)
(***************************************************************************)
SessionRestarted(a) ==
  LET reset == a.status \in {"inferring", "errored"}
      stale == a.inferenceCall # NoCall
  IN [a EXCEPT !.status = IF reset THEN "pending" ELSE @,
               !.pendingMessages = IF reset \/ stale THEN <<>> ELSE @,
               !.interrupted =
                  IF reset THEN (IF a.status = "inferring" THEN a.inferenceCall ELSE NoCall)
                  ELSE IF stale THEN a.inferenceCall ELSE @,
               !.inferenceCall = NoCall,
               !.failures = IF reset THEN 0 ELSE @,
               !.executing = NoTool]

-----------------------------------------------------------------------------
(* The mailbox messages a sequence of entries renders. *)
MessagesIn(entries) == UNION {entries[i].msgs : i \in DOMAIN entries}

(***************************************************************************)
(* Agent.decide: what the run loop does next, given whether a plugin has   *)
(* messages for the agent.                                                 *)
(***************************************************************************)
Decision(a, hasMessages) ==
  CASE a.status = "paused"                                        -> "paused"
    [] a.status # "paused" /\ ~a.onStartCalled                    -> "on_start"
    [] a.onStartCalled /\ a.status = "tool_exec"
         /\ a.pendingToolCalls # <<>>                             -> "tool_exec"
    [] a.onStartCalled /\ a.status = "pending"
         /\ (a.pendingToolResults # <<>> \/ hasMessages)          -> "infer"
    [] a.onStartCalled /\ a.status = "errored" /\ hasMessages     -> "resume_from_error"
    [] a.onStartCalled /\ ~a.completionHandled
         /\ \/ a.status = "errored" /\ ~hasMessages
            \/ /\ a.status = "pending"
               /\ a.pendingToolResults = <<>> /\ ~hasMessages     -> "complete"
    [] OTHER                                                      -> "idle"
=============================================================================
