----------------------------- MODULE AgentTurn -----------------------------
(***************************************************************************)
(* The run loop of one agent (core/agents/agent.ts) together with          *)
(* everything that races it: senders (mailbox.send), an operator           *)
(* (Session.pauseAgent / resumeAgent, agents.pause / resume / rewind), the *)
(* debounce and retry wakes, the LLM provider and its call log, and a      *)
(* crash followed by a load.                                               *)
(*                                                                         *)
(* Granularity.  A step is what runs between two awaits.  store.emit is    *)
(* split in two: the caller joins the FIFO queue of appends, and a later   *)
(* step applies its event and runs the caller on to its next await.  So    *)
(* whatever a caller read before emitting may be stale when its event is   *)
(* folded in.  An actor has at most one event in the queue, so the queue   *)
(* holds actors; the event is determined by where the actor stands.        *)
(*                                                                         *)
(* Left out: the runtime leases (SessionRuntime), the failure modes of the *)
(* store (SessionStore), closing the session, context compaction and       *)
(* dequeue gates.  handler_completed events that the reducer ignores and   *)
(* agent_input_consumed add waits but no state, and are not steps.  A      *)
(* shutdown abort is a crash here: an aborted turn emits nothing more.     *)
(***************************************************************************)
EXTENDS AgentReducer, FiniteSets

CONSTANTS
  Operator,      \* the queue entry of the operator's event
  Loop,          \* the queue entry of the run loop's event
  HasCallLog,    \* is an llmLogger configured?
  HasDebounceCallback,  \* does the preset poll a debounceCallback?
  Operations,    \* what the operator may call
  PausingHooks,  \* the plugin hooks that may answer {action: 'pause'}
  MaxTools,      \* tool calls in one response, at most
  MAX_INFERENCE_RETRIES,
  Budget         \* how often the environment may do what it may do

AllOperations == {"session.pause", "agents.pause", "session.resume", "agents.resume",
                  "agents.rewind"}
AllHooks == {"onStart", "beforeInference", "afterInference", "beforeToolCall",
             "afterToolCall", "onComplete", "onError"}
Budgets == [toolTurns : Nat, retryable : Nat, fatal : Nat, pauses : Nat, hookRetries : Nat,
            appendFailures : Nat, rewinds : Nat, crashes : Nat]

ASSUME ConstantsAssumption ==
  /\ Operator # Loop
  /\ Operator \notin Messages /\ Loop \notin Messages
  /\ HasCallLog \in BOOLEAN /\ HasDebounceCallback \in BOOLEAN
  /\ Operations \subseteq AllOperations
  /\ PausingHooks \subseteq AllHooks
  /\ MaxTools \in Nat
  /\ MAX_INFERENCE_RETRIES \in Nat
  /\ Budget \in Budgets

VARIABLES
  \* durable
  agent,        \* AgentReducer's state of the agent
  mailbox,      \* its unconsumed messages (the mailbox plugin's slice)
  callLog,      \* responses in the LLM call log
  \* in memory
  pc,           \* where the run loop stands; "idle" is processing = false, "down" is no process
  turn,         \* the locals of the turn in flight
  requests,     \* LLM requests begun; names the next one
  queue,        \* appends under way, in order
  scheduled,    \* Agent.scheduled
  debounceArmed, pendingReschedule, retryArmed,
  backoff,      \* the error-resume backoff has not elapsed
  \* the environment
  sends,        \* how far each message's send has come
  operator,     \* the operator's call under way
  budget

durable == <<agent, mailbox, callLog>>
wakes   == <<scheduled, debounceArmed, pendingReschedule, retryArmed, backoff>>
vars    == <<durable, pc, turn, requests, queue, wakes, sends, operator, budget>>

(* Locals of runInference and executeToolCall that survive an await. *)
Response   == [id : Nat, tools : Nat, asked : Seq(Entry)]
NoResponse == [id |-> 0, tools |-> 0, asked |-> <<>>]
Turn == [attempt : Nat,          \* retryCount
         input : Input,          \* dequeue tokens and tool results the turn answers
         call : Nat,             \* the request's name
         response : Response,    \* its id is 0 until the provider answered
         fatal : BOOLEAN,        \* the failure is not retryable
         tool : ToolCall,
         hook : AllHooks \union {"none"}]   \* the hook that asked for a pause
NoTurn == [attempt |-> 0, input |-> NoInput, call |-> 0, response |-> NoResponse,
           fatal |-> FALSE, tool |-> NoTool, hook |-> "none"]

ToolCalls(r) == [i \in 1..r.tools |-> <<r.id, i>>]

(* Program points at which the loop waits for its own event. *)
Emitting == {"onStartDone", "pause", "start", "retry", "commit", "consume", "drop", "fail",
             "toolStart", "toolDone", "resume", "completeDone"}
Points == Emitting \union {"down", "idle", "top", "onStart", "onPause", "beforeInference",
                           "llm", "afterInference", "onError", "beforeToolCall", "tool",
                           "onComplete"}
(* The operator's call: `applied` once its event is folded in. *)
NoOperation == [call |-> "none", start |-> 0, count |-> 0, applied |-> FALSE]

Init ==
  /\ agent = Spawned
  /\ mailbox = {}
  /\ callLog = {}
  /\ pc = "idle"
  /\ turn = NoTurn
  /\ requests = 0
  /\ queue = <<>>
  /\ scheduled = FALSE /\ debounceArmed = FALSE /\ pendingReschedule = FALSE
  /\ retryArmed = FALSE /\ backoff = FALSE
  /\ sends = [m \in Messages |-> "unsent"]
  /\ operator = NoOperation
  /\ budget = Budget

Up == pc # "down"
HasMessages == mailbox # {}

-----------------------------------------------------------------------------
(* store.emit *)

Enqueued(actor) == queue' = Append(queue, actor)

(* The loop goes on to await an event of its own. *)
Emit(point) == pc' = point /\ Enqueued(Loop)

Applies(actor) == queue # <<>> /\ Head(queue) = actor

(* The loop's event is folded in and the loop runs on to a point that awaits no event ... *)
Resumes(point) == queue' = Tail(queue) /\ pc' = point
(* ... or to one that does. *)
EmitsNext(point) == queue' = Append(Tail(queue), Loop) /\ pc' = point

(* Seeded fault: the whole mailbox goes, not the messages of the turn. *)
Consumed_Everything(ms) == mailbox' = {}

(* mailbox_consumed *)
Consumed(ms) == mailbox' = mailbox \ ms

Spend(kind) == budget[kind] > 0 /\ budget' = [budget EXCEPT ![kind] = @ - 1]

-----------------------------------------------------------------------------
(* Scheduling *)

(* scheduleProcessing while no turn runs: drop the old wake, arm a new one. *)
ArmDebounce == scheduled' = TRUE /\ debounceArmed' = TRUE /\ pendingReschedule' = FALSE

(* Seeded fault: a schedule asked for while a turn runs is forgotten. *)
ScheduleProcessing_DuringTurnForgotten ==
  \/ (scheduled \/ pc # "idle") /\ UNCHANGED <<scheduled, debounceArmed, pendingReschedule>>
  \/ ~scheduled /\ pc = "idle" /\ ArmDebounce

ScheduleProcessing ==
  /\ \/ scheduled /\ UNCHANGED <<scheduled, debounceArmed, pendingReschedule>>
     \/ /\ ~scheduled /\ pc = "idle"
        /\ ArmDebounce
     \/ /\ ~scheduled /\ pc # "idle"
        /\ pendingReschedule' = TRUE
        /\ UNCHANGED <<scheduled, debounceArmed>>

(* Seeded fault: the flag of the pending schedule stays up. *)
Continue_KeepsFlag ==
  /\ pc' = IF pc = "idle" THEN "top" ELSE pc
  /\ UNCHANGED scheduled

(* continue(): a turn that is already running makes it a no-op. *)
Continue ==
  IF pc = "idle"
  THEN pc' = "top" /\ scheduled' = FALSE
  ELSE UNCHANGED <<pc, scheduled>>

(* Seeded fault: the turn ends without looking for a schedule asked for meanwhile. *)
EndTurn_ForgetsReschedule(wanted) ==
  /\ pc' = "idle"
  /\ turn' = NoTurn
  /\ IF wanted /\ ~scheduled
     THEN ArmDebounce
     ELSE pendingReschedule' = FALSE /\ UNCHANGED <<scheduled, debounceArmed>>

(* The finally block of runContinue; `wanted` is a reschedule the last step asked for. *)
EndTurn(wanted) ==
  /\ pc' = "idle"
  /\ turn' = NoTurn
  /\ IF (pendingReschedule \/ wanted) /\ ~scheduled
     THEN ArmDebounce
     ELSE pendingReschedule' = FALSE /\ UNCHANGED <<scheduled, debounceArmed>>

-----------------------------------------------------------------------------
(* The run loop: one decision, and what each leads to *)

DecideNothing ==
  /\ pc = "top"
  /\ Decision(agent, HasMessages) \in {"idle", "paused"}
  /\ EndTurn(FALSE)
  /\ UNCHANGED <<durable, requests, queue, retryArmed, backoff, sends, operator, budget>>

DecideOnStart ==
  /\ pc = "top"
  /\ Decision(agent, HasMessages) = "on_start"
  /\ pc' = "onStart"
  /\ UNCHANGED <<durable, turn, requests, queue, wakes, sends, operator, budget>>

DecideTool ==
  /\ pc = "top"
  /\ Decision(agent, HasMessages) = "tool_exec"
  /\ turn' = [turn EXCEPT !.tool = Head(agent.pendingToolCalls)]
  /\ pc' = "beforeToolCall"
  /\ UNCHANGED <<durable, requests, queue, wakes, sends, operator, budget>>

(* resume_from_error with the backoff still running: arm the retry wake and end the turn. *)
DecideBackOff ==
  /\ pc = "top"
  /\ Decision(agent, HasMessages) = "resume_from_error"
  /\ backoff
  /\ retryArmed' = TRUE
  /\ EndTurn(FALSE)
  /\ UNCHANGED <<durable, requests, queue, backoff, sends, operator, budget>>

DecideResume ==
  /\ pc = "top"
  /\ Decision(agent, HasMessages) = "resume_from_error"
  /\ ~backoff
  /\ Emit("resume")
  /\ UNCHANGED <<durable, turn, requests, wakes, sends, operator, budget>>

DecideInfer ==
  /\ pc = "top"
  /\ Decision(agent, HasMessages) = "infer"
  /\ turn' = [NoTurn EXCEPT !.input.msgs = mailbox]
  /\ pc' = "beforeInference"
  /\ UNCHANGED <<durable, requests, queue, wakes, sends, operator, budget>>

DecideComplete ==
  /\ pc = "top"
  /\ Decision(agent, HasMessages) = "complete"
  /\ pc' = "onComplete"
  /\ UNCHANGED <<durable, turn, requests, queue, wakes, sends, operator, budget>>

Resume ==
  /\ pc = "resume" /\ Applies(Loop)
  /\ agent' = AgentResumed(agent)
  /\ Resumes("top")
  /\ UNCHANGED <<mailbox, callLog, turn, requests, wakes, sends, operator, budget>>

-----------------------------------------------------------------------------
(* Plugin hooks that pause *)

(* A hook answers {action: 'pause'}: emitHandlerPause appends agent_paused ... *)
HookPauses(hook) ==
  /\ hook \in PausingHooks
  /\ Spend("pauses")
  /\ turn' = [turn EXCEPT !.hook = hook]
  /\ Emit("pause")
  /\ UNCHANGED <<durable, requests, wakes, sends, operator>>

HandlerPause ==
  /\ pc = "pause" /\ Applies(Loop)
  /\ agent' = AgentPaused(agent)
  /\ Resumes("onPause")
  /\ UNCHANGED <<mailbox, callLog, turn, requests, wakes, sends, operator, budget>>

(* ... then runs the onPause hooks, and the caller goes on. *)
OnPauseDone ==
  /\ pc = "onPause"
  /\ \/ /\ turn.hook = "afterToolCall"
        /\ Emit("toolDone")
        /\ turn' = [turn EXCEPT !.hook = "none"]
        /\ UNCHANGED <<scheduled, debounceArmed, pendingReschedule>>
     \/ /\ turn.hook \in {"onStart", "beforeInference", "afterInference", "onError"}
        /\ pc' = "top"
        /\ turn' = NoTurn
        /\ UNCHANGED <<queue, scheduled, debounceArmed, pendingReschedule>>
     \* executeToolCall returned with the call still at the head, or executeOnComplete
     \* returned: either way the turn ends, whatever the agent's status is by now
     \/ /\ turn.hook \in {"beforeToolCall", "onComplete"}
        /\ \/ turn.hook = "onComplete"
           \/ agent.status = "paused"
           \/ agent.pendingToolCalls # <<>> /\ Head(agent.pendingToolCalls) = turn.tool
        /\ EndTurn(FALSE)
        /\ UNCHANGED queue
     \* a rewind meanwhile emptied the pending calls: back through the debounce
     \/ /\ turn.hook = "beforeToolCall"
        /\ agent.status # "paused"
        /\ agent.pendingToolCalls = <<>>
        /\ EndTurn(TRUE)
        /\ UNCHANGED queue
  /\ UNCHANGED <<durable, requests, retryArmed, backoff, sends, operator, budget>>

-----------------------------------------------------------------------------
(* executeOnStart, executeOnComplete *)

OnStartHooks ==
  /\ pc = "onStart"
  /\ \/ turn' = turn /\ budget' = budget
     \/ /\ "onStart" \in PausingHooks
        /\ Spend("pauses")
        /\ turn' = [turn EXCEPT !.hook = "onStart"]
  /\ Emit("onStartDone")
  /\ UNCHANGED <<durable, requests, wakes, sends, operator>>

OnStartDone ==
  /\ pc = "onStartDone" /\ Applies(Loop)
  /\ agent' = OnStartCompleted(agent)
  /\ IF turn.hook = "onStart" THEN EmitsNext("pause") ELSE Resumes("top")
  /\ UNCHANGED <<mailbox, callLog, turn, requests, wakes, sends, operator, budget>>

OnCompleteHooks ==
  /\ pc = "onComplete"
  /\ \/ HookPauses("onComplete")
     \/ /\ Emit("completeDone")
        /\ UNCHANGED <<durable, turn, requests, wakes, sends, operator, budget>>

CompleteDone ==
  /\ pc = "completeDone" /\ Applies(Loop)
  /\ agent' = CompletionHandled(agent)
  /\ queue' = Tail(queue)
  /\ EndTurn(FALSE)
  /\ UNCHANGED <<mailbox, callLog, requests, retryArmed, backoff, sends, operator, budget>>

-----------------------------------------------------------------------------
(* runInference *)

(* Seeded fault: the interrupted call's response is used whatever the turn answers by now. *)
Replayable_AnyInput(input) ==
  {r \in callLog : agent.interrupted # NoCall /\ r.id = agent.interrupted.id}

(* The response a restart interrupted, if it was logged and the turn still answers its input. *)
Replayable(input) ==
  {r \in callLog : /\ agent.interrupted # NoCall
                   /\ agent.interrupted.input = input
                   /\ r.id = agent.interrupted.id}

BeforeInferenceHooks ==
  /\ pc = "beforeInference"
  /\ \/ HookPauses("beforeInference")
     \/ LET input == [results |-> agent.pendingToolResults, msgs |-> turn.input.msgs]
        IN  /\ \/ /\ Replayable(input) = {}
                  /\ requests' = requests + 1
                  /\ turn' = [turn EXCEPT !.input = input, !.call = requests + 1]
               \/ \E r \in Replayable(input) :
                    /\ turn' = [turn EXCEPT !.input = input, !.call = r.id, !.response = r]
                    /\ UNCHANGED requests
            /\ Emit("start")
            /\ UNCHANGED <<durable, wakes, sends, operator, budget>>

(* inference_started; a new request is built from the history as it is now. *)
Start ==
  /\ pc = "start" /\ Applies(Loop)
  /\ agent' = InferenceStarted(agent, Staged(turn.input),
                 IF HasCallLog THEN [id |-> turn.call, input |-> turn.input] ELSE NoCall)
  /\ IF turn.response.id # 0
     THEN Resumes("afterInference") /\ UNCHANGED turn
     ELSE /\ Resumes("llm")
          /\ turn' = [turn EXCEPT !.response.asked = agent.history \o Staged(turn.input)]
  /\ UNCHANGED <<mailbox, callLog, requests, wakes, sends, operator, budget>>

(* A response with n tool calls.  The call log holds it under the recorded name only if the *)
(* first attempt produced it.                                                              *)
LlmResponds ==
  /\ pc = "llm"
  /\ \E n \in 0..MaxTools, firstAttempt \in BOOLEAN :
       /\ IF n = 0 THEN UNCHANGED budget ELSE Spend("toolTurns")
       /\ LET r == [id |-> turn.call, tools |-> n, asked |-> turn.response.asked]
          IN  /\ turn' = [turn EXCEPT !.response = r]
              /\ callLog' = IF HasCallLog /\ firstAttempt THEN callLog \union {r} ELSE callLog
  /\ pc' = "afterInference"
  /\ UNCHANGED <<agent, mailbox, requests, queue, wakes, sends, operator>>

LlmFailsRetryably ==
  /\ pc = "llm"
  /\ Spend("retryable")
  /\ Emit("fail")
  /\ UNCHANGED <<durable, turn, requests, wakes, sends, operator>>

(* A failure that would repeat: the input is dropped before the failure is recorded. *)
LlmFailsFatally ==
  /\ pc = "llm"
  /\ Spend("fatal")
  /\ turn' = [turn EXCEPT !.fatal = TRUE]
  /\ IF turn.input.msgs = {} THEN Emit("fail") ELSE Emit("drop")
  /\ UNCHANGED <<durable, requests, wakes, sends, operator>>

Drop ==
  /\ pc = "drop" /\ Applies(Loop)
  /\ Consumed(turn.input.msgs)
  /\ EmitsNext("fail")
  /\ UNCHANGED <<agent, callLog, turn, requests, wakes, sends, operator, budget>>

(* onError runs on the first failure of an episode only, unless the failure is fatal. *)
Fail ==
  /\ pc = "fail" /\ Applies(Loop)
  /\ agent' = InferenceFailed(agent)
  /\ backoff' = TRUE
  /\ IF turn.fatal \/ agent.failures = 0
     THEN Resumes("onError") /\ UNCHANGED turn
     ELSE Resumes("top") /\ turn' = NoTurn
  /\ UNCHANGED <<mailbox, callLog, requests, scheduled, debounceArmed, pendingReschedule,
                 retryArmed, sends, operator, budget>>

OnErrorHooks ==
  /\ pc = "onError"
  /\ \/ HookPauses("onError")
     \/ /\ pc' = "top"
        /\ turn' = NoTurn
        /\ UNCHANGED <<durable, requests, queue, wakes, sends, operator, budget>>

(* A retry past the limit commits the response it has. *)
AfterInferenceHooks ==
  /\ pc = "afterInference"
  /\ \/ Emit("commit") /\ UNCHANGED <<turn, budget>>
     \/ /\ "afterInference" \in PausingHooks
        /\ Spend("pauses")
        /\ turn' = [turn EXCEPT !.hook = "afterInference"]
        /\ Emit("commit")
     \/ /\ turn.attempt < MAX_INFERENCE_RETRIES
        /\ Spend("hookRetries")
        /\ Emit("retry")
        /\ UNCHANGED turn
  /\ UNCHANGED <<durable, requests, wakes, sends, operator>>

(* inference_retried, then runInference again on what is pending by now. *)
Retry ==
  /\ pc = "retry" /\ Applies(Loop)
  /\ agent' = InferenceRetried(agent)
  /\ IF agent.pendingToolResults = <<>> /\ ~HasMessages
     THEN Resumes("top") /\ turn' = NoTurn
     ELSE /\ Resumes("beforeInference")
          /\ turn' = [NoTurn EXCEPT !.attempt = turn.attempt + 1, !.input.msgs = mailbox]
  /\ UNCHANGED <<mailbox, callLog, requests, wakes, sends, operator, budget>>

AfterConsume ==
  IF turn.hook = "afterInference"
  THEN EmitsNext("pause") /\ UNCHANGED turn
  ELSE Resumes("top") /\ turn' = NoTurn

Commit ==
  /\ pc = "commit" /\ Applies(Loop)
  /\ agent' = InferenceCompleted(agent, ToolCalls(turn.response))
  /\ IF turn.input.msgs # {}
     THEN EmitsNext("consume") /\ UNCHANGED turn
     ELSE AfterConsume
  /\ UNCHANGED <<mailbox, callLog, requests, wakes, sends, operator, budget>>

Consume ==
  /\ pc = "consume" /\ Applies(Loop)
  /\ Consumed(turn.input.msgs)
  /\ AfterConsume
  /\ UNCHANGED <<agent, callLog, requests, wakes, sends, operator, budget>>

-----------------------------------------------------------------------------
(* executeToolCall *)

(* null, replace and block all go on to tool_started. *)
BeforeToolCallHooks ==
  /\ pc = "beforeToolCall"
  /\ \/ HookPauses("beforeToolCall")
     \/ /\ Emit("toolStart")
        /\ UNCHANGED <<durable, turn, requests, wakes, sends, operator, budget>>

(* A blocked call and one of an unknown tool fail without running. *)
ToolStart ==
  /\ pc = "toolStart" /\ Applies(Loop)
  /\ agent' = ToolStarted(agent, turn.tool)
  /\ Resumes("tool") \/ EmitsNext("toolDone")
  /\ UNCHANGED <<mailbox, callLog, turn, requests, wakes, sends, operator, budget>>

ToolReturns ==
  /\ pc = "tool"
  /\ \/ HookPauses("afterToolCall")
     \/ /\ Emit("toolDone")
        /\ UNCHANGED <<durable, turn, requests, wakes, sends, operator, budget>>

(* tool_completed or tool_failed, and the check that follows executeToolCall. *)
ToolDone ==
  /\ pc = "toolDone" /\ Applies(Loop)
  /\ agent' = ToolFinished(agent, turn.tool)
  /\ queue' = Tail(queue)
  /\ IF agent'.status # "paused" /\ agent'.pendingToolCalls # <<>>
     THEN /\ pc' = "top"
          /\ turn' = NoTurn
          /\ UNCHANGED <<scheduled, debounceArmed, pendingReschedule>>
     ELSE EndTurn(agent'.status # "paused")
  /\ UNCHANGED <<mailbox, callLog, requests, retryArmed, backoff, sends, operator, budget>>

-----------------------------------------------------------------------------
(* An append the host definitely refuses: store.emit throws, and runContinue ends the turn. *)
(* Inside a hook dispatch the exception is caught and the dispatch goes on.                *)
AppendFails ==
  /\ pc \in Emitting /\ Applies(Loop)
  /\ Spend("appendFailures")
  /\ \/ /\ pc = "pause"
        /\ turn.hook \in {"beforeInference", "beforeToolCall", "onComplete", "onError"}
        /\ Resumes(turn.hook)
        /\ turn' = [turn EXCEPT !.hook = "none"]
        /\ UNCHANGED <<scheduled, debounceArmed, pendingReschedule>>
     \/ /\ pc = "pause" /\ turn.hook = "afterToolCall"
        /\ EmitsNext("toolDone")
        /\ turn' = [turn EXCEPT !.hook = "none"]
        /\ UNCHANGED <<scheduled, debounceArmed, pendingReschedule>>
     \/ /\ pc = "pause" => turn.hook \in {"onStart", "afterInference"}
        /\ queue' = Tail(queue)
        /\ EndTurn(FALSE)
  /\ UNCHANGED <<durable, requests, retryArmed, backoff, sends, operator>>

-----------------------------------------------------------------------------
(* Wakes *)

DebounceFires ==
  /\ Up /\ debounceArmed /\ ~HasDebounceCallback
  /\ debounceArmed' = FALSE
  /\ scheduled' = FALSE
  /\ pc' = IF pc = "idle" THEN "top" ELSE pc
  /\ UNCHANGED <<durable, turn, requests, queue, pendingReschedule, retryArmed, backoff,
                 sends, operator, budget>>

(* The poll of a debounceCallback that answers process_now, or finds nothing to ask about. *)
DebounceCheck ==
  /\ Up /\ debounceArmed /\ HasDebounceCallback
  /\ debounceArmed' = FALSE
  /\ IF scheduled
     THEN /\ scheduled' = FALSE
          /\ pendingReschedule' = FALSE
          /\ IF agent.pendingToolResults = <<>> /\ ~HasMessages
             THEN UNCHANGED pc
             ELSE pc' = IF pc = "idle" THEN "top" ELSE pc
     ELSE UNCHANGED <<scheduled, pendingReschedule, pc>>
  /\ UNCHANGED <<durable, turn, requests, queue, retryArmed, backoff, sends, operator, budget>>

BackoffElapses ==
  /\ backoff
  /\ backoff' = FALSE
  /\ UNCHANGED <<durable, pc, turn, requests, queue, scheduled, debounceArmed,
                 pendingReschedule, retryArmed, sends, operator, budget>>

(* A wake armed before a later failure may fire while that failure's backoff still runs. *)
RetryFires ==
  /\ Up /\ retryArmed
  /\ retryArmed' = FALSE
  /\ ScheduleProcessing
  /\ UNCHANGED <<durable, pc, turn, requests, queue, backoff, sends, operator, budget>>

-----------------------------------------------------------------------------
(* mailbox.send *)

Send(m) ==
  /\ Up /\ sends[m] = "unsent"
  /\ sends' = [sends EXCEPT ![m] = "queued"]
  /\ Enqueued(m)
  /\ UNCHANGED <<durable, pc, turn, requests, wakes, operator, budget>>

MessageStored(m) ==
  /\ Applies(m)
  /\ mailbox' = mailbox \union {m}
  /\ sends' = [sends EXCEPT ![m] = "stored"]
  /\ queue' = Tail(queue)
  /\ UNCHANGED <<agent, callLog, pc, turn, requests, wakes, operator, budget>>

(* Session.scheduleAgent leaves a paused agent alone. *)
ScheduleAgent ==
  IF agent.status = "paused"
  THEN UNCHANGED <<scheduled, debounceArmed, pendingReschedule>>
  ELSE ScheduleProcessing

SendSchedules(m) ==
  /\ sends[m] = "stored"
  /\ sends' = [sends EXCEPT ![m] = "sent"]
  /\ ScheduleAgent
  /\ UNCHANGED <<durable, pc, turn, requests, queue, retryArmed, backoff, operator, budget>>

-----------------------------------------------------------------------------
(* The operator: one call at a time, validated when made, folded in later *)

Calls(op, start, count) ==
  /\ Up /\ operator = NoOperation
  /\ op \in Operations
  /\ operator' = [call |-> op, start |-> start, count |-> count, applied |-> FALSE]
  /\ Enqueued(Operator)
  /\ UNCHANGED <<durable, pc, turn, requests, wakes, sends>>

CallPause(op) ==
  /\ op \in {"session.pause", "agents.pause"}
  /\ agent.status # "paused"
  /\ Spend("pauses")
  /\ Calls(op, 0, 0)

CallResume(op) ==
  /\ op \in {"session.resume", "agents.resume"}
  /\ agent.status \in {"paused", "errored"}
  /\ Calls(op, 0, 0)
  /\ UNCHANGED budget

CallRewind(start) ==
  /\ start < Len(agent.history)
  /\ Spend("rewinds")
  /\ Calls("agents.rewind", start, Len(agent.history) - start)

OperationApplied ==
  /\ Applies(Operator) /\ ~operator.applied
  /\ queue' = Tail(queue)
  /\ \/ /\ operator.call \in {"session.pause", "agents.pause"}
        /\ agent' = AgentPaused(agent)
        /\ operator' = NoOperation
     \/ /\ operator.call \in {"session.resume", "agents.resume"}
        /\ agent' = AgentResumed(agent)
        /\ operator' = [operator EXCEPT !.applied = TRUE]
     \/ /\ operator.call = "agents.rewind"
        /\ agent' = Rewound(agent, operator.start, operator.count)
        /\ operator' = [operator EXCEPT !.applied = TRUE]
  /\ UNCHANGED <<mailbox, callLog, pc, turn, requests, wakes, sends, budget>>

(* Session.resumeAgent runs the agent at once; the agents plugin goes through the debounce. *)
OperationReturns ==
  /\ operator.applied
  /\ operator' = NoOperation
  /\ IF operator.call = "session.resume"
     THEN Continue /\ UNCHANGED <<debounceArmed, pendingReschedule>>
     ELSE ScheduleAgent /\ UNCHANGED pc
  /\ UNCHANGED <<durable, turn, requests, queue, retryArmed, backoff, sends, budget>>

-----------------------------------------------------------------------------
(* Crash and load *)

(* Appends under way are lost; what was stored or logged stays. *)
Crash ==
  /\ Up
  /\ Spend("crashes")
  /\ pc' = "down"
  /\ turn' = NoTurn
  /\ queue' = <<>>
  /\ scheduled' = FALSE /\ debounceArmed' = FALSE /\ pendingReschedule' = FALSE
  /\ retryArmed' = FALSE /\ backoff' = FALSE
  /\ operator' = NoOperation
  /\ sends' = [m \in Messages |-> CASE sends[m] = "queued" -> "unsent"
                                    [] sends[m] = "stored" -> "sent"
                                    [] OTHER -> sends[m]]
  /\ UNCHANGED <<durable, requests>>

(* The load: recovery, then checkPendingAgents. *)
Restart ==
  /\ pc = "down"
  /\ agent' = SessionRestarted(agent)
  /\ pc' = "top"
  /\ UNCHANGED <<mailbox, callLog, turn, requests, queue, wakes, sends, operator, budget>>

-----------------------------------------------------------------------------
LoopStep ==
  \/ DecideNothing \/ DecideOnStart \/ DecideTool \/ DecideBackOff \/ DecideResume
  \/ DecideInfer \/ DecideComplete \/ Resume
  \/ HandlerPause \/ OnPauseDone
  \/ OnStartHooks \/ OnStartDone \/ OnCompleteHooks \/ CompleteDone
  \/ BeforeInferenceHooks \/ Start
  \/ LlmResponds \/ LlmFailsRetryably \/ LlmFailsFatally \/ Drop \/ Fail \/ OnErrorHooks
  \/ AfterInferenceHooks \/ Retry \/ Commit \/ Consume
  \/ BeforeToolCallHooks \/ ToolStart \/ ToolReturns \/ ToolDone
  \/ AppendFails

WakeStep == DebounceFires \/ DebounceCheck \/ BackoffElapses \/ RetryFires

SendStep(m) == MessageStored(m) \/ SendSchedules(m)

OperatorStep == OperationApplied \/ OperationReturns

OperatorCall ==
  \/ \E op \in Operations : CallPause(op) \/ CallResume(op)
  \/ \E start \in 0..Len(agent.history) : CallRewind(start)

Next ==
  \/ LoopStep
  \/ WakeStep
  \/ \E m \in Messages : Send(m) \/ SendStep(m)
  \/ OperatorCall
  \/ OperatorStep
  \/ Crash
  \/ Restart

Spec == Init /\ [][Next]_vars

(***************************************************************************)
(* Event loop and timers run what is due, the provider answers, and a host *)
(* loads its sessions again after a crash.  Nobody is obliged to send a    *)
(* message, to pause or to resume.                                         *)
(***************************************************************************)
Fairness ==
  /\ WF_vars(LoopStep)
  /\ WF_vars(DebounceFires) /\ WF_vars(DebounceCheck)
  /\ WF_vars(BackoffElapses) /\ WF_vars(RetryFires)
  /\ \A m \in Messages : WF_vars(SendStep(m))
  /\ WF_vars(OperatorStep)
  /\ WF_vars(Restart)

FairSpec == Spec /\ Fairness
=============================================================================
