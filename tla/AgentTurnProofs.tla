-------------------------- MODULE AgentTurnProofs --------------------------
(***************************************************************************)
(* Proofs of AgentTurnProperties for every number of messages and tools,   *)
(* every budget and every set of operations and hooks.                     *)
(***************************************************************************)
EXTENDS AgentTurnProperties, SequenceTheorems, FiniteSetTheorems, TLAPS

-----------------------------------------------------------------------------
(* The flag `scheduled` *)

(***************************************************************************)
(* Whatever interleaves, `scheduled` is up only while its wake is armed    *)
(* and no turn runs, so scheduleProcessing never skips for nothing.        *)
(***************************************************************************)
THEOREM ScheduledHasWakeHolds == Spec => []ScheduledHasWake
<1>1. Init => ScheduledHasWake
  BY DEF Init, ScheduledHasWake
<1>2. ScheduledHasWake /\ [Next]_vars => ScheduledHasWake'
  <2> SUFFICES ASSUME ScheduledHasWake, [Next]_vars
               PROVE  ScheduledHasWake'
    OBVIOUS
  <2> USE DEF ScheduledHasWake, Emit, Resumes, EmitsNext, wakes
  <2>1. ASSUME LoopStep PROVE ScheduledHasWake'
    <3>1. CASE \/ DecideOnStart \/ DecideTool \/ DecideResume \/ DecideInfer
               \/ DecideComplete \/ Resume \/ HandlerPause \/ OnStartHooks \/ OnStartDone
      BY <3>1 DEF DecideOnStart, DecideTool, DecideResume, DecideInfer, DecideComplete,
                  Resume, HandlerPause, OnStartHooks, OnStartDone
    <3>2. CASE \/ OnCompleteHooks \/ BeforeInferenceHooks \/ Start \/ OnErrorHooks
               \/ BeforeToolCallHooks \/ ToolReturns
      BY <3>2 DEF OnCompleteHooks, BeforeInferenceHooks, Start, OnErrorHooks,
                  BeforeToolCallHooks, ToolReturns, HookPauses
    <3>3. CASE \/ LlmResponds \/ LlmFailsRetryably \/ LlmFailsFatally \/ Drop \/ Fail
               \/ AfterInferenceHooks \/ Retry \/ Commit \/ Consume \/ ToolStart
      BY <3>3 DEF LlmResponds, LlmFailsRetryably, LlmFailsFatally, Drop, Fail,
                  AfterInferenceHooks, Retry, Commit, Consume, AfterConsume, ToolStart
    <3>4. CASE \/ DecideNothing \/ DecideBackOff \/ CompleteDone \/ ToolDone
      BY <3>4 DEF DecideNothing, DecideBackOff, CompleteDone, ToolDone, EndTurn, ArmDebounce
    <3>5. CASE OnPauseDone
      BY <3>5 DEF OnPauseDone, EndTurn, ArmDebounce
    <3>6. CASE AppendFails
      BY <3>6 DEF AppendFails, Emitting, EndTurn, ArmDebounce
    <3> QED
      BY <2>1, <3>1, <3>2, <3>3, <3>4, <3>5, <3>6 DEF LoopStep
  <2>2. ASSUME WakeStep PROVE ScheduledHasWake'
    BY <2>2 DEF WakeStep, DebounceFires, DebounceCheck, BackoffElapses, RetryFires,
                ScheduleProcessing, ArmDebounce
  <2>3. ASSUME NEW m \in Messages, Send(m) \/ SendStep(m) PROVE ScheduledHasWake'
    BY <2>3 DEF Send, SendStep, MessageStored, SendSchedules, ScheduleAgent,
                ScheduleProcessing, ArmDebounce
  <2>4. ASSUME OperatorCall \/ OperatorStep PROVE ScheduledHasWake'
    BY <2>4 DEF OperatorCall, CallPause, CallResume, CallRewind, Calls, OperatorStep,
                OperationApplied, OperationReturns, Continue, ScheduleAgent,
                ScheduleProcessing, ArmDebounce
  <2>5. ASSUME Crash \/ Restart PROVE ScheduledHasWake'
    BY <2>5 DEF Crash, Restart
  <2>6. ASSUME UNCHANGED vars PROVE ScheduledHasWake'
    BY <2>6 DEF vars
  <2> QED
    BY <2>1, <2>2, <2>3, <2>4, <2>5, <2>6 DEF Next
<1> QED
  BY <1>1, <1>2, PTL DEF Spec

-----------------------------------------------------------------------------
(* Types of the reducer's operators *)

LEMMA StagedType == ASSUME NEW input \in Input PROVE Staged(input) \in Seq(Entry)
<1>1. [i \in DOMAIN input.results |-> ToolEntry(input.results[i])] \in Seq(Entry)
  <2>1. /\ DOMAIN input.results = 1..Len(input.results)
        /\ Len(input.results) \in Nat
    BY LenProperties DEF Input
  <2>2. ASSUME NEW i \in 1..Len(input.results) PROVE ToolEntry(input.results[i]) \in Entry
    <3>1. input.results[i] \in ToolCall
      BY ElementOfSeq DEF Input
    <3> QED
      BY <3>1 DEF ToolEntry, Entry
  <2> QED
    BY <2>1, <2>2, IsASeq
<1>2. input.msgs # {} => <<UserEntry(input.msgs)>> \in Seq(Entry)
  BY DEF Input, UserEntry, Entry
<1> QED
  BY <1>1, <1>2, ConcatProperties, EmptySeq DEF Staged

LEMMA WithoutType ==
  ASSUME NEW calls \in Seq(ToolCall), NEW c
  PROVE  Without(calls, c) \in Seq(ToolCall)
<1>1. CASE c \notin Range(calls)
  BY <1>1 DEF Without
<1>2. CASE c \in Range(calls)
  <2> DEFINE i == CHOOSE i \in DOMAIN calls : calls[i] = c
  <2>1. i \in 1..Len(calls)
    BY <1>2, LenProperties DEF Range
  <2>2. /\ SubSeq(calls, 1, i - 1) \in Seq(ToolCall)
        /\ SubSeq(calls, i + 1, Len(calls)) \in Seq(ToolCall)
    <3>1. Len(calls) \in Nat
      BY LenProperties
    <3>2. \A j \in 1..(i - 1) : j \in 1..Len(calls)
      BY <2>1, <3>1
    <3>3. \A j \in (i + 1)..Len(calls) : j \in 1..Len(calls)
      BY <2>1, <3>1
    <3>4. i - 1 \in 0..Len(calls) /\ 1 <= i + 1
      BY <2>1, <3>1
    <3> HIDE DEF i
    <3> QED
      BY <2>1, <3>1, <3>2, <3>3, <3>4, SubSeqProperties
  <2> HIDE DEF i
  <2>3. Without(calls, c) = SubSeq(calls, 1, i - 1) \o SubSeq(calls, i + 1, Len(calls))
    BY <1>2 DEF Without, i
  <2> QED
    BY <2>2, <2>3, ConcatProperties
<1> QED
  BY <1>1, <1>2

LEMMA ToolCallsType ==
  ASSUME NEW r \in Response
  PROVE  /\ ToolCalls(r) \in Seq(ToolCall)
         /\ Range(ToolCalls(r)) \subseteq ToolCall
<1>1. r.tools \in Nat /\ r.id \in Nat
  BY DEF Response
<1>2. \A i \in 1..r.tools : <<r.id, i>> \in ToolCall
  BY <1>1 DEF ToolCall
<1>3. ToolCalls(r) \in Seq(ToolCall)
  BY <1>1, <1>2, IsASeq DEF ToolCalls
<1> QED
  BY <1>2, <1>3 DEF ToolCalls, Range

LEMMA SpawnedType == Spawned \in Agent
<1>1. /\ <<>> \in Seq(Entry) /\ <<>> \in Seq(ToolCall) /\ NoTool \in ToolCall
      /\ NoCall \in CallRef
  BY EmptySeq DEF NoTool, ToolCall, NoCall, CallRef, NoInput, Input
<1> QED
  BY <1>1 DEF Spawned, Agent, Statuses

LEMMA StatusOpsType ==
  ASSUME NEW a \in Agent
  PROVE  /\ InferenceFailed(a) \in Agent
         /\ InferenceRetried(a) \in Agent
         /\ AgentPaused(a) \in Agent
         /\ AgentResumed(a) \in Agent
         /\ OnStartCompleted(a) \in Agent
         /\ CompletionHandled(a) \in Agent
         /\ SessionRestarted(a) \in Agent
<1>1. <<>> \in Seq(Entry) /\ NoTool \in ToolCall /\ NoCall \in CallRef
  BY EmptySeq DEF NoTool, ToolCall, NoCall, CallRef, NoInput, Input
<1>2. InferenceFailed(a) \in Agent
  <2> DEFINE n == a.failures + 1
  <2>1. n \in Nat
    BY DEF Agent
  <2>2. InferenceFailed(a) = [a EXCEPT !.status = "errored", !.pendingMessages = <<>>,
                                       !.inferenceCall = NoCall, !.failures = n]
    BY DEF InferenceFailed
  <2> HIDE DEF n
  <2> QED
    BY <1>1, <2>1, <2>2 DEF Agent, Statuses
<1>3. InferenceRetried(a) \in Agent
  BY <1>1 DEF InferenceRetried, UnlessPaused, Agent, Statuses
<1>4. AgentPaused(a) \in Agent /\ AgentResumed(a) \in Agent
  BY DEF AgentPaused, AgentResumed, Agent, Statuses
<1>5. OnStartCompleted(a) \in Agent /\ CompletionHandled(a) \in Agent
  BY DEF OnStartCompleted, CompletionHandled, Agent
<1>6. SessionRestarted(a) \in Agent
  BY <1>1 DEF SessionRestarted, Agent, Statuses
<1> QED
  BY <1>2, <1>3, <1>4, <1>5, <1>6

LEMMA InferenceStartedType ==
  ASSUME NEW a \in Agent, NEW messages \in Seq(Entry), NEW call \in CallRef
  PROVE  InferenceStarted(a, messages, call) \in Agent
<1>1. a.pendingMessages \o messages \in Seq(Entry)
  BY ConcatProperties DEF Agent
<1>2. NoCall \in CallRef
  BY EmptySeq DEF NoCall, CallRef, NoInput, Input
<1> QED
  BY <1>1, <1>2 DEF InferenceStarted, Agent, Statuses

LEMMA InferenceCompletedType ==
  ASSUME NEW a \in Agent, NEW toolCalls \in Seq(ToolCall)
  PROVE  InferenceCompleted(a, toolCalls) \in Agent
<1>1. AssistantEntry(Range(toolCalls)) \in Entry
  BY LenProperties DEF AssistantEntry, Entry, Range
<1>2. a.history \o a.pendingMessages \o <<AssistantEntry(Range(toolCalls))>> \in Seq(Entry)
  <2>1. a.history \o a.pendingMessages \in Seq(Entry)
    BY ConcatProperties DEF Agent
  <2>2. <<AssistantEntry(Range(toolCalls))>> \in Seq(Entry)
    BY <1>1
  <2> QED
    BY <2>1, <2>2, ConcatProperties
<1>3. <<>> \in Seq(Entry) /\ <<>> \in Seq(ToolCall) /\ NoCall \in CallRef
  BY EmptySeq DEF NoCall, CallRef, NoInput, Input
<1> QED
  BY <1>2, <1>3 DEF InferenceCompleted, UnlessPaused, Agent, Statuses

LEMMA ToolOpsType ==
  ASSUME NEW a \in Agent, NEW c \in ToolCall
  PROVE  ToolStarted(a, c) \in Agent /\ ToolFinished(a, c) \in Agent
<1>1. ToolStarted(a, c) \in Agent
  BY DEF ToolStarted, Agent
<1>2. Without(a.pendingToolCalls, c) \in Seq(ToolCall)
  BY WithoutType DEF Agent
<1>3. Append(a.pendingToolResults, c) \in Seq(ToolCall)
  BY AppendProperties DEF Agent
<1>4. NoTool \in ToolCall
  BY DEF NoTool, ToolCall
<1>5. ToolFinished(a, c) \in Agent
  BY <1>2, <1>3, <1>4 DEF ToolFinished, UnlessPaused, Agent, Statuses
<1> QED
  BY <1>1, <1>5

LEMMA RewoundType ==
  ASSUME NEW a \in Agent, NEW start \in Nat, NEW count \in Nat, start <= Len(a.history)
  PROVE  Rewound(a, start, count) \in Agent
<1>1. a.history \in Seq(Entry) /\ Len(a.history) \in Nat
  BY LenProperties DEF Agent
<1>2. \A j \in 1..Len(a.history) : a.history[j] \in Entry
  BY <1>1, ElementOfSeq
<1>3. SubSeq(a.history, 1, start) \in Seq(Entry)
  BY <1>1, <1>2, SubSeqProperties
<1>4. SubSeq(a.history, start + count + 1, Len(a.history)) \in Seq(Entry)
  <2>1. \A j \in (start + count + 1)..Len(a.history) : a.history[j] \in Entry
    BY <1>1, <1>2
  <2> QED
    BY <1>1, <2>1, SubSeqProperties
<1>5. SubSeq(a.history, 1, start) \o SubSeq(a.history, start + count + 1, Len(a.history))
        \in Seq(Entry)
  BY <1>3, <1>4, ConcatProperties
<1>6. /\ <<>> \in Seq(Entry) /\ <<>> \in Seq(ToolCall)
      /\ NoTool \in ToolCall /\ NoCall \in CallRef
  BY EmptySeq DEF NoTool, ToolCall, NoCall, CallRef, NoInput, Input
<1> QED
  BY <1>5, <1>6 DEF Rewound, Agent, Statuses

(* Only a rewind shortens the history. *)
LEMMA HistoryKept ==
  ASSUME NEW a \in Agent
  PROVE  /\ InferenceFailed(a).history = a.history
         /\ InferenceRetried(a).history = a.history
         /\ AgentPaused(a).history = a.history
         /\ AgentResumed(a).history = a.history
         /\ OnStartCompleted(a).history = a.history
         /\ CompletionHandled(a).history = a.history
         /\ SessionRestarted(a).history = a.history
         /\ \A messages, call : InferenceStarted(a, messages, call).history = a.history
         /\ \A c : ToolStarted(a, c).history = a.history
         /\ \A c : ToolFinished(a, c).history = a.history
<1> USE DEF Agent
<1>1. /\ InferenceFailed(a).history = a.history
      /\ InferenceRetried(a).history = a.history
      /\ AgentPaused(a).history = a.history
      /\ AgentResumed(a).history = a.history
  BY DEF InferenceFailed, InferenceRetried, AgentPaused, AgentResumed
<1>2. /\ OnStartCompleted(a).history = a.history
      /\ CompletionHandled(a).history = a.history
      /\ SessionRestarted(a).history = a.history
  BY DEF OnStartCompleted, CompletionHandled, SessionRestarted
<1>3. ASSUME NEW messages, NEW call
      PROVE  InferenceStarted(a, messages, call).history = a.history
  BY DEF InferenceStarted
<1>4. ASSUME NEW c
      PROVE  ToolStarted(a, c).history = a.history /\ ToolFinished(a, c).history = a.history
  BY DEF ToolStarted, ToolFinished
<1> QED
  BY <1>1, <1>2, <1>3, <1>4

LEMMA HistoryGrows ==
  ASSUME NEW a \in Agent, NEW toolCalls \in Seq(ToolCall)
  PROVE  Len(InferenceCompleted(a, toolCalls).history) >= Len(a.history)
<1>1. AssistantEntry(Range(toolCalls)) \in Entry
  BY LenProperties DEF AssistantEntry, Entry, Range
<1> DEFINE h == a.history \o a.pendingMessages
           e == AssistantEntry(Range(toolCalls))
<1>2. h \in Seq(Entry) /\ Len(h) = Len(a.history) + Len(a.pendingMessages)
  BY ConcatProperties DEF Agent
<1>3. <<e>> \in Seq(Entry) /\ Len(<<e>>) = 1
  BY <1>1
<1>4. Len(h \o <<e>>) = Len(a.history) + Len(a.pendingMessages) + 1
  BY <1>2, <1>3, ConcatProperties
<1>5. Len(a.history) \in Nat /\ Len(a.pendingMessages) \in Nat
  BY LenProperties DEF Agent
<1>6. InferenceCompleted(a, toolCalls).history = h \o <<e>>
  BY DEF InferenceCompleted, Agent
<1> DEFINE m == Len(a.history)
           n == Len(a.pendingMessages)
<1>7. Len(InferenceCompleted(a, toolCalls).history) = m + n + 1 /\ m \in Nat /\ n \in Nat
  BY <1>4, <1>5, <1>6
<1> HIDE DEF m, n
<1>8. Len(InferenceCompleted(a, toolCalls).history) >= m
  BY <1>7
<1> QED
  BY <1>8 DEF m

LEMMA SpendType ==
  ASSUME budget \in Budgets,
         NEW kind \in {"toolTurns", "retryable", "fatal", "pauses", "hookRetries",
                       "appendFailures", "rewinds", "crashes"},
         Spend(kind)
  PROVE  budget' \in Budgets
<1>1. budget[kind] - 1 \in Nat
  BY DEF Spend, Budgets
<1>2. budget' = [budget EXCEPT ![kind] = budget[kind] - 1]
  BY DEF Spend
<1> QED
  BY <1>1, <1>2 DEF Budgets

LEMMA QueueTypes ==
  ASSUME queue \in Seq(Actors)
  PROVE  /\ \A actor \in Actors : Append(queue, actor) \in Seq(Actors)
         /\ queue # <<>> => /\ Tail(queue) \in Seq(Actors)
                            /\ Append(Tail(queue), Loop) \in Seq(Actors)
<1>1. \A q \in Seq(Actors), actor \in Actors : Append(q, actor) \in Seq(Actors)
  BY AppendProperties
<1>2. queue # <<>> => Tail(queue) \in Seq(Actors)
  BY HeadTailProperties
<1> QED
  BY <1>1, <1>2 DEF Actors

(* Types of the locals of a turn. *)
LEMMA NoTurnType == NoTurn \in Turn
<1>1. <<>> \in Seq(Entry) /\ <<>> \in Seq(ToolCall)
  BY EmptySeq
<1>2. NoInput \in Input /\ NoResponse \in Response /\ NoTool \in ToolCall
  BY <1>1 DEF NoInput, Input, NoResponse, Response, NoTool, ToolCall
<1> QED
  BY <1>2 DEF NoTurn, Turn

LEMMA TurnUpdates ==
  ASSUME NEW t \in Turn
  PROVE  /\ \A hook \in AllHooks \union {"none"} : [t EXCEPT !.hook = hook] \in Turn
         /\ \A c \in ToolCall : [t EXCEPT !.tool = c] \in Turn
         /\ [t EXCEPT !.fatal = TRUE] \in Turn
         /\ \A r \in Response : [t EXCEPT !.response = r] \in Turn
         /\ \A asked \in Seq(Entry) : [t EXCEPT !.response.asked = asked] \in Turn
         /\ \A ms \in SUBSET Messages : [t EXCEPT !.input.msgs = ms] \in Turn
         /\ \A n \in Nat, ms \in SUBSET Messages :
              [t EXCEPT !.attempt = n, !.input.msgs = ms] \in Turn
         /\ \A input \in Input, n \in Nat :
              [t EXCEPT !.input = input, !.call = n] \in Turn
         /\ \A input \in Input, n \in Nat, r \in Response :
              [t EXCEPT !.input = input, !.call = n, !.response = r] \in Turn
<1> USE DEF Turn
<1>1. /\ \A hook \in AllHooks \union {"none"} : [t EXCEPT !.hook = hook] \in Turn
      /\ \A c \in ToolCall : [t EXCEPT !.tool = c] \in Turn
      /\ [t EXCEPT !.fatal = TRUE] \in Turn
      /\ \A r \in Response : [t EXCEPT !.response = r] \in Turn
  OBVIOUS
<1>2. \A asked \in Seq(Entry) : [t EXCEPT !.response.asked = asked] \in Turn
  BY DEF Response
<1>3. /\ \A ms \in SUBSET Messages : [t EXCEPT !.input.msgs = ms] \in Turn
      /\ \A n \in Nat, ms \in SUBSET Messages :
              [t EXCEPT !.attempt = n, !.input.msgs = ms] \in Turn
  BY DEF Input
<1>4. \A input \in Input, n \in Nat : [t EXCEPT !.input = input, !.call = n] \in Turn
  OBVIOUS
<1>5. \A input \in Input, n \in Nat, r \in Response :
              [t EXCEPT !.input = input, !.call = n, !.response = r] \in Turn
  OBVIOUS
<1> QED
  BY <1>1, <1>2, <1>3, <1>4, <1>5

-----------------------------------------------------------------------------
(* Type correctness *)

(***************************************************************************)
(* A rewind is validated against the history when it is called; until it   *)
(* is folded in the history only grows, so its start stays in range.       *)
(***************************************************************************)
RewindInRange ==
  operator.call = "agents.rewind" /\ ~operator.applied => operator.start <= Len(agent.history)

TypeInv == TypeOK /\ RewindInRange

LEMMA InitTypes == Init => TypeInv
<1> SUFFICES ASSUME Init PROVE TypeInv
  OBVIOUS
<1>1. /\ agent \in Agent /\ turn \in Turn
      /\ queue \in Seq(Actors)
  BY SpawnedType, NoTurnType, EmptySeq DEF Init
<1>2. budget \in Budgets
  BY ConstantsAssumption DEF Init
<1>3. RewindInRange
  BY DEF Init, NoOperation, RewindInRange
<1> QED
  BY <1>1, <1>2, <1>3 DEF Init, TypeOK, TypeInv, NoOperation, Points

(* The types that a step of the loop or of a wake leaves to the reducer and the turn. *)
LEMMA StepTypes ==
  ASSUME TypeInv, agent' \in Agent, turn' \in Turn, budget' \in Budgets,
         Len(agent'.history) >= Len(agent.history),
         pc' \in Points, queue' \in Seq(Actors), requests' \in Nat,
         mailbox' \subseteq Messages, callLog' \subseteq Response,
         scheduled' \in BOOLEAN, debounceArmed' \in BOOLEAN, pendingReschedule' \in BOOLEAN,
         retryArmed' \in BOOLEAN, backoff' \in BOOLEAN,
         UNCHANGED <<sends, operator>>
  PROVE  TypeInv'
<1>1. TypeOK'
  BY DEF TypeInv, TypeOK
<1>2. RewindInRange'
  <2>1. Len(agent.history) \in Nat /\ Len(agent'.history) \in Nat
    BY LenProperties DEF Agent
  <2>2. operator.start \in Nat
    BY DEF TypeInv, TypeOK
  <2> QED
    BY <2>1, <2>2 DEF TypeInv, RewindInRange
<1> QED
  BY <1>1, <1>2 DEF TypeInv

LEMMA HookNoted ==
  ASSUME NEW t \in Turn
  PROVE  /\ [t EXCEPT !.hook = "none"] \in Turn
         /\ [t EXCEPT !.hook = "onStart"] \in Turn
         /\ [t EXCEPT !.hook = "beforeInference"] \in Turn
         /\ [t EXCEPT !.hook = "afterInference"] \in Turn
         /\ [t EXCEPT !.hook = "beforeToolCall"] \in Turn
         /\ [t EXCEPT !.hook = "afterToolCall"] \in Turn
         /\ [t EXCEPT !.hook = "onComplete"] \in Turn
         /\ [t EXCEPT !.hook = "onError"] \in Turn
<1>1. /\ "onStart" \in AllHooks /\ "beforeInference" \in AllHooks
      /\ "afterInference" \in AllHooks /\ "beforeToolCall" \in AllHooks
      /\ "afterToolCall" \in AllHooks /\ "onComplete" \in AllHooks
      /\ "onError" \in AllHooks
  BY DEF AllHooks
<1> QED
  BY <1>1, TurnUpdates

LEMMA DecisionTypes == TypeInv /\
  (\/ DecideNothing \/ DecideOnStart \/ DecideTool \/ DecideBackOff \/ DecideResume
   \/ DecideInfer \/ DecideComplete \/ Resume) => TypeInv'
<1> SUFFICES ASSUME TypeInv,
                    \/ DecideNothing \/ DecideOnStart \/ DecideTool \/ DecideBackOff
                    \/ DecideResume \/ DecideInfer \/ DecideComplete \/ Resume
             PROVE  TypeInv'
  OBVIOUS
<1> USE NoTurnType DEF TypeInv, TypeOK, Points, Emitting
<1>1. Len(agent.history) >= Len(agent.history)
  BY LenProperties DEF Agent
<1>2. CASE DecideNothing \/ DecideBackOff
  BY StepTypes, <1>1, <1>2 DEF DecideNothing, DecideBackOff, EndTurn, ArmDebounce, durable
<1>3. CASE DecideOnStart \/ DecideResume \/ DecideComplete
  BY StepTypes, QueueTypes, <1>1, <1>3 DEF DecideOnStart, DecideResume, DecideComplete, Emit, Enqueued, Actors,
                    durable, wakes
<1>4. CASE DecideTool
  <2>1. agent.pendingToolCalls # <<>>
    BY <1>4 DEF DecideTool, Decision
  <2>2. Head(agent.pendingToolCalls) \in ToolCall
    BY <2>1, HeadTailProperties DEF Agent
  <2>3. turn' \in Turn
    BY <1>4, <2>2, TurnUpdates DEF DecideTool
  <2> QED
    BY StepTypes, QueueTypes, <1>1, <1>4, <2>3 DEF DecideTool, durable, wakes
<1>5. CASE DecideInfer
  <2>1. turn' \in Turn
    BY <1>5, TurnUpdates DEF DecideInfer
  <2> QED
    BY StepTypes, QueueTypes, <1>1, <1>5, <2>1 DEF DecideInfer, durable, wakes
<1>6. CASE Resume
  <2>1. agent' \in Agent /\ agent'.history = agent.history
    BY <1>6, StatusOpsType, HistoryKept DEF Resume
  <2> QED
    BY StepTypes, QueueTypes, <1>1, <1>6, <2>1 DEF Resume, Applies, Resumes, wakes
<1> QED
  BY <1>2, <1>3, <1>4, <1>5, <1>6

LEMMA HookTypes == TypeInv /\
  (\/ HandlerPause \/ OnPauseDone \/ OnStartHooks \/ OnStartDone \/ OnCompleteHooks
   \/ CompleteDone) => TypeInv'
<1> SUFFICES ASSUME TypeInv,
                    \/ HandlerPause \/ OnPauseDone \/ OnStartHooks \/ OnStartDone
                    \/ OnCompleteHooks \/ CompleteDone
             PROVE  TypeInv'
  OBVIOUS
<1> USE NoTurnType DEF TypeInv, TypeOK, Points, Emitting
<1>1. Len(agent.history) >= Len(agent.history)
  BY LenProperties DEF Agent
<1>2. CASE HandlerPause
  <2>1. agent' \in Agent /\ agent'.history = agent.history
    BY <1>2, StatusOpsType, HistoryKept DEF HandlerPause
  <2> QED
    BY StepTypes, QueueTypes, <1>1, <1>2, <2>1 DEF HandlerPause, Applies, Resumes, wakes
<1>3. CASE OnPauseDone
  <2>1. turn' \in Turn
    <3>1. turn' = NoTurn \/ turn' = [turn EXCEPT !.hook = "none"]
      BY <1>3 DEF OnPauseDone, EndTurn
    <3>2. turn \in Turn
      OBVIOUS
    <3> QED
      BY <3>1, <3>2, HookNoted
  <2>2. queue' \in Seq(Actors)
    <3>1. queue' = queue \/ queue' = Append(queue, Loop)
      BY <1>3 DEF OnPauseDone, Emit, Enqueued
    <3>2. queue \in Seq(Actors) /\ Loop \in Actors
      BY DEF Actors
    <3> QED
      BY <3>1, <3>2, QueueTypes
  <2> QED
    BY StepTypes, QueueTypes, <1>1, <1>3, <2>1, <2>2 DEF OnPauseDone, Emit, EndTurn, ArmDebounce, durable
<1>4. CASE OnStartHooks
  <2>1. turn' \in Turn
    <3>1. turn' = turn \/ turn' = [turn EXCEPT !.hook = "onStart"]
      BY <1>4 DEF OnStartHooks
    <3>2. turn \in Turn
      OBVIOUS
    <3> QED
      BY <3>1, <3>2, HookNoted
  <2>2. budget' \in Budgets
    BY <1>4, SpendType DEF OnStartHooks
  <2> QED
    BY StepTypes, QueueTypes, <1>1, <1>4, <2>1, <2>2 DEF OnStartHooks, Emit, Enqueued, Actors, durable, wakes
<1>5. CASE OnStartDone
  <2>1. agent' \in Agent /\ agent'.history = agent.history
    BY <1>5, StatusOpsType, HistoryKept DEF OnStartDone
  <2> QED
    BY StepTypes, QueueTypes, <1>1, <1>5, <2>1 DEF OnStartDone, Applies, Resumes, EmitsNext, wakes
<1>6. CASE OnCompleteHooks
  <2>1. turn' \in Turn
    <3>1. turn' = turn \/ turn' = [turn EXCEPT !.hook = "onComplete"]
      BY <1>6 DEF OnCompleteHooks, HookPauses
    <3>2. turn \in Turn
      OBVIOUS
    <3> QED
      BY <3>1, <3>2, HookNoted
  <2>2. budget' \in Budgets
    BY <1>6, SpendType DEF OnCompleteHooks, HookPauses
  <2> QED
    BY StepTypes, QueueTypes, <1>1, <1>6, <2>1, <2>2 DEF OnCompleteHooks, HookPauses, Emit, Enqueued, Actors,
                                  durable, wakes
<1>7. CASE CompleteDone
  <2>1. agent' \in Agent /\ agent'.history = agent.history
    BY <1>7, StatusOpsType, HistoryKept DEF CompleteDone
  <2> QED
    BY StepTypes, QueueTypes, <1>1, <1>7, <2>1 DEF CompleteDone, Applies, EndTurn, ArmDebounce
<1> QED
  BY <1>2, <1>3, <1>4, <1>5, <1>6, <1>7

LEMMA RequestTypes == TypeInv /\
  (\/ BeforeInferenceHooks \/ Start \/ LlmResponds \/ LlmFailsRetryably \/ LlmFailsFatally
   \/ Drop \/ Fail \/ OnErrorHooks) => TypeInv'
<1> SUFFICES ASSUME TypeInv,
                    \/ BeforeInferenceHooks \/ Start \/ LlmResponds \/ LlmFailsRetryably
                    \/ LlmFailsFatally \/ Drop \/ Fail \/ OnErrorHooks
             PROVE  TypeInv'
  OBVIOUS
<1> USE NoTurnType DEF TypeInv, TypeOK, Points, Emitting
<1>1. Len(agent.history) >= Len(agent.history)
  BY LenProperties DEF Agent
<1>2. CASE BeforeInferenceHooks
  <2> DEFINE input == [results |-> agent.pendingToolResults, msgs |-> turn.input.msgs]
  <2>1. input \in Input
    BY DEF Agent, Turn, Input
  <2>2. \A r \in Replayable(input) : r \in Response /\ r.id \in Nat
    BY DEF Replayable, Response
  <2>3. turn' \in Turn
    <3> HIDE DEF input
    <3>1. \/ turn' = [turn EXCEPT !.hook = "beforeInference"]
          \/ turn' = [turn EXCEPT !.input = input, !.call = requests + 1]
          \/ \E r \in Replayable(input) :
               turn' = [turn EXCEPT !.input = input, !.call = r.id, !.response = r]
      BY <1>2 DEF BeforeInferenceHooks, HookPauses, input
    <3>2. turn \in Turn /\ requests + 1 \in Nat
      OBVIOUS
    <3>3. CASE turn' = [turn EXCEPT !.hook = "beforeInference"]
      BY <3>2, <3>3, HookNoted
    <3>4. CASE turn' = [turn EXCEPT !.input = input, !.call = requests + 1]
      BY <2>1, <3>2, <3>4, TurnUpdates
    <3>5. CASE \E r \in Replayable(input) :
                 turn' = [turn EXCEPT !.input = input, !.call = r.id, !.response = r]
      <4>1. PICK r \in Replayable(input) :
               turn' = [turn EXCEPT !.input = input, !.call = r.id, !.response = r]
        BY <3>5
      <4>2. r \in Response /\ r.id \in Nat
        BY <2>2
      <4> QED
        BY <2>1, <3>2, <4>1, <4>2, TurnUpdates
    <3> QED
      BY <3>1, <3>3, <3>4, <3>5
  <2>4. budget' \in Budgets
    BY <1>2, SpendType DEF BeforeInferenceHooks, HookPauses
  <2>5. queue' = Append(queue, Loop) /\ pc' \in Points
    BY <1>2 DEF BeforeInferenceHooks, HookPauses, Emit, Enqueued
  <2>6. requests' \in Nat
    <3>1. requests' = requests \/ requests' = requests + 1
      BY <1>2 DEF BeforeInferenceHooks, HookPauses
    <3> QED
      BY <3>1
  <2>7. UNCHANGED <<agent, mailbox, callLog, wakes, sends, operator>>
    BY <1>2 DEF BeforeInferenceHooks, HookPauses, durable
  <2>8. queue' \in Seq(Actors)
    BY <2>5, QueueTypes DEF Actors
  <2> QED
    BY StepTypes, <1>1, <2>3, <2>4, <2>5, <2>6, <2>7, <2>8 DEF wakes
<1>3. CASE Start
  <2>1. turn.input \in Input /\ turn.call \in Nat
    BY DEF Turn
  <2>2. Staged(turn.input) \in Seq(Entry)
    BY <2>1, StagedType
  <2>3. NoCall \in CallRef /\ [id |-> turn.call, input |-> turn.input] \in CallRef
    BY <2>1, EmptySeq DEF NoCall, CallRef, NoInput, Input
  <2>4. agent' \in Agent /\ agent'.history = agent.history
    BY <1>3, <2>2, <2>3, InferenceStartedType, HistoryKept DEF Start
  <2>5. agent.history \o Staged(turn.input) \in Seq(Entry)
    BY <2>2, ConcatProperties DEF Agent
  <2>6. turn' \in Turn
    <3>1. turn' = turn \/ turn' = [turn EXCEPT !.response.asked = agent.history \o Staged(turn.input)]
      BY <1>3 DEF Start
    <3>2. turn \in Turn
      OBVIOUS
    <3> DEFINE asked == agent.history \o Staged(turn.input)
    <3>3. asked \in Seq(Entry)
      BY <2>5
    <3> HIDE DEF asked
    <3>4. [turn EXCEPT !.response.asked = asked] \in Turn
      BY <3>2, <3>3, TurnUpdates
    <3> QED
      BY <3>1, <3>2, <3>4 DEF asked
  <2> QED
    BY StepTypes, QueueTypes, <1>1, <1>3, <2>4, <2>6 DEF Start, Applies, Resumes, wakes
<1>4. CASE LlmResponds
  <2>1. PICK n \in 0..MaxTools, firstAttempt \in BOOLEAN :
          LET r == [id |-> turn.call, tools |-> n, asked |-> turn.response.asked]
          IN  /\ IF n = 0 THEN UNCHANGED budget ELSE Spend("toolTurns")
              /\ turn' = [turn EXCEPT !.response = r]
              /\ callLog' = IF HasCallLog /\ firstAttempt THEN callLog \union {r} ELSE callLog
    BY <1>4 DEF LlmResponds
  <2>2. [id |-> turn.call, tools |-> n, asked |-> turn.response.asked] \in Response
    BY ConstantsAssumption DEF Turn, Response
  <2>3. turn' \in Turn /\ callLog' \subseteq Response
    BY <2>1, <2>2, TurnUpdates
  <2>4. budget' \in Budgets
    BY <2>1, SpendType
  <2> QED
    BY StepTypes, <1>1, <1>4, <2>3, <2>4 DEF LlmResponds, wakes
<1>5. CASE LlmFailsRetryably \/ LlmFailsFatally
  <2>1. turn' \in Turn
    BY <1>5, TurnUpdates DEF LlmFailsRetryably, LlmFailsFatally
  <2>2. budget' \in Budgets
    BY <1>5, SpendType DEF LlmFailsRetryably, LlmFailsFatally
  <2>3. queue' = Append(queue, Loop) /\ pc' \in Points
    BY <1>5 DEF LlmFailsRetryably, LlmFailsFatally, Emit, Enqueued
  <2>4. queue' \in Seq(Actors)
    BY <2>3, QueueTypes DEF Actors
  <2>5. UNCHANGED <<agent, mailbox, callLog, requests, wakes, sends, operator>>
    BY <1>5 DEF LlmFailsRetryably, LlmFailsFatally, durable
  <2> QED
    BY StepTypes, <1>1, <2>1, <2>2, <2>3, <2>4, <2>5 DEF wakes
<1>6. CASE Drop
  BY StepTypes, QueueTypes, <1>1, <1>6 DEF Drop, Consumed, Applies, EmitsNext, wakes
<1>7. CASE Fail
  <2>1. agent' \in Agent /\ agent'.history = agent.history
    BY <1>7, StatusOpsType, HistoryKept DEF Fail
  <2> QED
    BY StepTypes, QueueTypes, <1>1, <1>7, <2>1 DEF Fail, Applies, Resumes
<1>8. CASE OnErrorHooks
  <2>1. turn' \in Turn
    <3>1. turn' = NoTurn \/ turn' = [turn EXCEPT !.hook = "onError"]
      BY <1>8 DEF OnErrorHooks, HookPauses
    <3>2. turn \in Turn
      OBVIOUS
    <3> QED
      BY <3>1, <3>2, HookNoted
  <2>2. budget' \in Budgets
    BY <1>8, SpendType DEF OnErrorHooks, HookPauses
  <2>3. queue' = queue \/ queue' = Append(queue, Loop)
    BY <1>8 DEF OnErrorHooks, HookPauses, Emit, Enqueued
  <2>4. queue' \in Seq(Actors)
    BY <2>3, QueueTypes DEF Actors
  <2>5. /\ pc' \in Points
        /\ UNCHANGED <<agent, mailbox, callLog, requests, wakes, sends, operator>>
    BY <1>8 DEF OnErrorHooks, HookPauses, Emit, durable
  <2> QED
    BY StepTypes, <1>1, <2>1, <2>2, <2>4, <2>5 DEF wakes
<1> QED
  BY <1>2, <1>3, <1>4, <1>5, <1>6, <1>7, <1>8

LEMMA CommitTypes == TypeInv /\
  (AfterInferenceHooks \/ Retry \/ Commit \/ Consume) => TypeInv'
<1> SUFFICES ASSUME TypeInv, AfterInferenceHooks \/ Retry \/ Commit \/ Consume
             PROVE  TypeInv'
  OBVIOUS
<1> USE NoTurnType DEF TypeInv, TypeOK, Points, Emitting
<1>1. Len(agent.history) >= Len(agent.history)
  BY LenProperties DEF Agent
<1>2. CASE AfterInferenceHooks
  <2>1. turn' \in Turn
    <3>1. turn' = turn \/ turn' = [turn EXCEPT !.hook = "afterInference"]
      BY <1>2 DEF AfterInferenceHooks
    <3>2. turn \in Turn
      OBVIOUS
    <3> QED
      BY <3>1, <3>2, HookNoted
  <2>2. budget' \in Budgets
    BY <1>2, SpendType DEF AfterInferenceHooks
  <2> QED
    BY StepTypes, QueueTypes, <1>1, <1>2, <2>1, <2>2 DEF AfterInferenceHooks, Emit, Enqueued,
       Actors, durable, wakes
<1>3. CASE Retry
  <2>1. agent' \in Agent /\ agent'.history = agent.history
    BY <1>3, StatusOpsType, HistoryKept DEF Retry
  <2>2. turn' \in Turn
    <3>1. turn' = NoTurn \/ turn' = [NoTurn EXCEPT !.attempt = turn.attempt + 1,
                                                  !.input.msgs = mailbox]
      BY <1>3 DEF Retry
    <3> DEFINE n == turn.attempt + 1
    <3>2. n \in Nat /\ mailbox \in SUBSET Messages
      BY DEF Turn
    <3> HIDE DEF n
    <3>3. [NoTurn EXCEPT !.attempt = n, !.input.msgs = mailbox] \in Turn
      BY <3>2, TurnUpdates
    <3> QED
      BY <3>1, <3>3 DEF n
  <2>3. queue' = Tail(queue) /\ queue # <<>> /\ pc' \in Points
    BY <1>3 DEF Retry, Applies, Resumes
  <2> QED
    BY StepTypes, QueueTypes, <1>1, <1>3, <2>1, <2>2, <2>3 DEF Retry, wakes
<1>4. CASE Commit
  <2>1. turn.response \in Response
    BY DEF Turn
  <2>2. /\ agent' \in Agent
        /\ Len(agent'.history) >= Len(agent.history)
    BY <1>4, <2>1, ToolCallsType, InferenceCompletedType, HistoryGrows DEF Commit
  <2>3. turn' \in Turn
    BY <1>4 DEF Commit, AfterConsume
  <2>4. queue # <<>> /\ pc' \in Points
    BY <1>4 DEF Commit, AfterConsume, Applies, Resumes, EmitsNext
  <2>5. queue' = Tail(queue) \/ queue' = Append(Tail(queue), Loop)
    BY <1>4 DEF Commit, AfterConsume, Resumes, EmitsNext
  <2> QED
    BY StepTypes, QueueTypes, <1>4, <2>2, <2>3, <2>4, <2>5 DEF Commit, wakes
<1>5. CASE Consume
  <2>1. turn' \in Turn
    BY <1>5 DEF Consume, AfterConsume
  <2>2. queue # <<>> /\ pc' \in Points
    BY <1>5 DEF Consume, AfterConsume, Applies, Resumes, EmitsNext
  <2>3. queue' = Tail(queue) \/ queue' = Append(Tail(queue), Loop)
    BY <1>5 DEF Consume, AfterConsume, Resumes, EmitsNext
  <2> QED
    BY StepTypes, QueueTypes, <1>1, <1>5, <2>1, <2>2, <2>3 DEF Consume, Consumed, wakes
<1> QED
  BY <1>2, <1>3, <1>4, <1>5

LEMMA ToolTypes == TypeInv /\
  (BeforeToolCallHooks \/ ToolStart \/ ToolReturns \/ ToolDone \/ AppendFails) => TypeInv'
<1> SUFFICES ASSUME TypeInv,
                    BeforeToolCallHooks \/ ToolStart \/ ToolReturns \/ ToolDone \/ AppendFails
             PROVE  TypeInv'
  OBVIOUS
<1> USE NoTurnType DEF TypeInv, TypeOK, Points, Emitting
<1>1. Len(agent.history) >= Len(agent.history)
  BY LenProperties DEF Agent
<1>2. turn.tool \in ToolCall /\ turn \in Turn
  BY DEF Turn
<1>3. CASE BeforeToolCallHooks \/ ToolReturns
  <2>1. turn' \in Turn
    <3>1. \/ turn' = turn
          \/ turn' = [turn EXCEPT !.hook = "beforeToolCall"]
          \/ turn' = [turn EXCEPT !.hook = "afterToolCall"]
      BY <1>3 DEF BeforeToolCallHooks, ToolReturns, HookPauses
    <3> QED
      BY <1>2, <3>1, HookNoted
  <2>2. budget' \in Budgets
    BY <1>3, SpendType DEF BeforeToolCallHooks, ToolReturns, HookPauses
  <2>3. queue' = Append(queue, Loop) /\ pc' \in Points
    BY <1>3 DEF BeforeToolCallHooks, ToolReturns, HookPauses, Emit, Enqueued
  <2>4. queue' \in Seq(Actors)
    BY <2>3, QueueTypes DEF Actors
  <2>5. UNCHANGED <<agent, mailbox, callLog, requests, wakes, sends, operator>>
    BY <1>3 DEF BeforeToolCallHooks, ToolReturns, HookPauses, durable
  <2> QED
    BY StepTypes, <1>1, <2>1, <2>2, <2>3, <2>4, <2>5 DEF wakes
<1>4. CASE ToolStart
  <2>1. agent' \in Agent /\ agent'.history = agent.history
    BY <1>2, <1>4, ToolOpsType, HistoryKept DEF ToolStart
  <2> QED
    BY StepTypes, QueueTypes, <1>1, <1>4, <2>1 DEF ToolStart, Applies, Resumes, EmitsNext, wakes
<1>5. CASE ToolDone
  <2>1. agent' \in Agent /\ agent'.history = agent.history
    BY <1>2, <1>5, ToolOpsType, HistoryKept DEF ToolDone
  <2>2. turn' = NoTurn /\ pc' \in Points
    BY <1>5 DEF ToolDone, EndTurn
  <2>3. /\ scheduled' \in BOOLEAN /\ debounceArmed' \in BOOLEAN
        /\ pendingReschedule' \in BOOLEAN
    BY <1>5 DEF ToolDone, EndTurn, ArmDebounce
  <2> QED
    BY StepTypes, QueueTypes, <1>1, <1>5, <2>1, <2>2, <2>3 DEF ToolDone, Applies
<1>6. CASE AppendFails
  <2>1. turn' \in Turn
    <3>1. turn' = NoTurn \/ turn' = [turn EXCEPT !.hook = "none"]
      BY <1>6 DEF AppendFails, EndTurn
    <3> QED
      BY <1>2, <3>1, HookNoted
  <2>2. budget' \in Budgets
    BY <1>6, SpendType DEF AppendFails
  <2>3. pc' \in Points
    BY <1>6 DEF AppendFails, EndTurn, Resumes, EmitsNext
  <2>4. queue # <<>> /\ (queue' = Tail(queue) \/ queue' = Append(Tail(queue), Loop))
    BY <1>6 DEF AppendFails, Applies, Resumes, EmitsNext
  <2>5. /\ scheduled' \in BOOLEAN /\ debounceArmed' \in BOOLEAN
        /\ pendingReschedule' \in BOOLEAN
    BY <1>6 DEF AppendFails, EndTurn, ArmDebounce
  <2>6. UNCHANGED <<agent, mailbox, callLog, requests, retryArmed, backoff, sends, operator>>
    BY <1>6 DEF AppendFails, durable
  <2> QED
    BY StepTypes, QueueTypes, <1>1, <2>1, <2>2, <2>3, <2>4, <2>5, <2>6
<1> QED
  BY <1>3, <1>4, <1>5, <1>6

LEMMA WakeTypes == TypeInv /\ WakeStep => TypeInv'
<1> SUFFICES ASSUME TypeInv, WakeStep PROVE TypeInv'
  OBVIOUS
<1> USE DEF TypeInv, TypeOK, Points
<1>1. Len(agent.history) >= Len(agent.history)
  BY LenProperties DEF Agent
<1> QED
  BY StepTypes, <1>1 DEF WakeStep, DebounceFires, DebounceCheck, BackoffElapses, RetryFires,
     ScheduleProcessing, ArmDebounce, durable

LEMMA SendTypes == ASSUME TypeInv, NEW m \in Messages, Send(m) \/ SendStep(m) PROVE TypeInv'
<1> USE DEF TypeInv, TypeOK
<1>1. UNCHANGED <<agent, callLog, pc, turn, requests, operator, budget, retryArmed, backoff>>
  BY DEF Send, SendStep, MessageStored, SendSchedules, durable, wakes
<1>2. queue' \in Seq(Actors)
  <2>1. CASE Send(m)
    BY <2>1, QueueTypes DEF Send, Enqueued, Actors
  <2>2. CASE SendStep(m)
    BY <2>2, QueueTypes DEF SendStep, MessageStored, SendSchedules, Applies
  <2> QED
    BY <2>1, <2>2
<1>3. mailbox' \subseteq Messages
  BY DEF Send, SendStep, MessageStored, SendSchedules, durable
<1>4. sends' \in [Messages -> {"unsent", "queued", "stored", "sent"}]
  BY DEF Send, SendStep, MessageStored, SendSchedules
<1>5. /\ scheduled' \in BOOLEAN /\ debounceArmed' \in BOOLEAN /\ pendingReschedule' \in BOOLEAN
  BY DEF Send, SendStep, MessageStored, SendSchedules, ScheduleAgent, ScheduleProcessing,
         ArmDebounce, wakes
<1> QED
  BY <1>1, <1>2, <1>3, <1>4, <1>5 DEF RewindInRange

LEMMA CallTypes == TypeInv /\ OperatorCall => TypeInv'
<1> SUFFICES ASSUME TypeInv, OperatorCall PROVE TypeInv'
  OBVIOUS
<1> USE DEF TypeInv, TypeOK
<1>1. Len(agent.history) \in Nat
  BY LenProperties DEF Agent
<1>2. PICK op \in AllOperations, start \in Nat, count \in Nat :
        Calls(op, start, count) /\ start <= Len(agent.history)
  <2>1. CASE \E op \in Operations : CallPause(op) \/ CallResume(op)
    BY <1>1, <2>1, ConstantsAssumption DEF CallPause, CallResume
  <2>2. CASE \E start \in 0..Len(agent.history) : CallRewind(start)
    <3>1. PICK start \in 0..Len(agent.history) : CallRewind(start)
      BY <2>2
    <3>2. Len(agent.history) - start \in Nat /\ start <= Len(agent.history) /\ start \in Nat
      BY <1>1, <3>1
    <3> QED
      BY <3>1, <3>2 DEF CallRewind, AllOperations
  <2> QED
    BY <2>1, <2>2 DEF OperatorCall
<1>3. operator' \in [call : AllOperations \union {"none"}, start : Nat, count : Nat,
                     applied : BOOLEAN]
  BY <1>2 DEF Calls
<1>4. budget' \in Budgets
  BY SpendType DEF OperatorCall, CallPause, CallResume, CallRewind
<1>5. queue' \in Seq(Actors)
  BY <1>2, QueueTypes DEF Calls, Enqueued, Actors
<1>6. RewindInRange'
  BY <1>2 DEF Calls, RewindInRange, durable
<1> QED
  BY <1>2, <1>3, <1>4, <1>5, <1>6 DEF Calls, durable, wakes

LEMMA OperatorTypes == TypeInv /\ OperatorStep => TypeInv'
<1> SUFFICES ASSUME TypeInv, OperatorStep PROVE TypeInv'
  OBVIOUS
<1> USE DEF TypeInv, TypeOK
<1>1. CASE OperationApplied
  <2>1. NoOperation \in [call : AllOperations \union {"none"}, start : Nat, count : Nat,
                         applied : BOOLEAN]
    BY DEF NoOperation
  <2>2. /\ operator' \in [call : AllOperations \union {"none"}, start : Nat, count : Nat,
                           applied : BOOLEAN]
        /\ operator'.applied \/ operator'.call = "none"
    <3>1. operator' = NoOperation \/ operator' = [operator EXCEPT !.applied = TRUE]
      BY <1>1 DEF OperationApplied
    <3>2. CASE operator' = NoOperation
      BY <2>1, <3>2 DEF NoOperation
    <3>3. CASE operator' = [operator EXCEPT !.applied = TRUE]
      BY <3>3
    <3> QED
      BY <3>1, <3>2, <3>3
  <2>3. agent' \in Agent
    <3>1. CASE operator.call = "agents.rewind"
      <4>1. operator.start <= Len(agent.history)
        BY <1>1, <3>1 DEF OperationApplied, RewindInRange
      <4>2. agent' = Rewound(agent, operator.start, operator.count)
        BY <1>1, <3>1 DEF OperationApplied
      <4> QED
        BY <4>1, <4>2, RewoundType
    <3>2. CASE operator.call # "agents.rewind"
      BY <1>1, <3>2, StatusOpsType DEF OperationApplied
    <3> QED
      BY <3>1, <3>2
  <2>4. queue' \in Seq(Actors)
    BY <1>1, QueueTypes DEF OperationApplied, Applies
  <2> QED
    BY <1>1, <2>2, <2>3, <2>4 DEF OperationApplied, RewindInRange, wakes
<1>2. CASE OperationReturns
  <2>1. operator' = NoOperation /\ pc' \in Points
    BY <1>2 DEF OperationReturns, Continue, Points
  <2>2. NoOperation \in [call : AllOperations \union {"none"}, start : Nat, count : Nat,
                         applied : BOOLEAN]
    BY DEF NoOperation
  <2>3. /\ scheduled' \in BOOLEAN /\ debounceArmed' \in BOOLEAN
        /\ pendingReschedule' \in BOOLEAN
    BY <1>2 DEF OperationReturns, Continue, ScheduleAgent, ScheduleProcessing, ArmDebounce
  <2>4. RewindInRange'
    BY <2>1 DEF NoOperation, RewindInRange
  <2>5. UNCHANGED <<agent, mailbox, callLog, turn, requests, queue, retryArmed, backoff, sends,
                    budget>>
    BY <1>2 DEF OperationReturns, durable
  <2> QED
    BY <2>1, <2>2, <2>3, <2>4, <2>5
<1> QED
  BY <1>1, <1>2 DEF OperatorStep

LEMMA CrashTypes == TypeInv /\ (Crash \/ Restart) => TypeInv'
<1> SUFFICES ASSUME TypeInv, Crash \/ Restart PROVE TypeInv'
  OBVIOUS
<1> USE DEF TypeInv, TypeOK, Points
<1>1. CASE Crash
  <2>1. budget' \in Budgets
    BY <1>1, SpendType DEF Crash
  <2>2. sends' \in [Messages -> {"unsent", "queued", "stored", "sent"}]
    BY <1>1 DEF Crash
  <2> QED
    BY <1>1, <2>1, <2>2, NoTurnType, EmptySeq DEF Crash, RewindInRange, NoOperation, durable
<1>2. CASE Restart
  <2>1. agent' \in Agent /\ agent'.history = agent.history
    BY <1>2, StatusOpsType, HistoryKept DEF Restart
  <2> QED
    BY <1>2, <2>1 DEF Restart, RewindInRange, wakes
<1> QED
  BY <1>1, <1>2

(***************************************************************************)
(* Every reachable state is well typed, and no rewind cuts past the end of *)
(* the history it was asked for.                                           *)
(***************************************************************************)
THEOREM TypeCorrect == Spec => []TypeInv
<1>1. TypeInv /\ [Next]_vars => TypeInv'
  <2> SUFFICES ASSUME TypeInv, [Next]_vars PROVE TypeInv'
    OBVIOUS
  <2>1. CASE LoopStep
    BY <2>1, DecisionTypes, HookTypes, RequestTypes, CommitTypes, ToolTypes DEF LoopStep
  <2>2. CASE WakeStep
    BY <2>2, WakeTypes
  <2>3. ASSUME NEW m \in Messages, Send(m) \/ SendStep(m) PROVE TypeInv'
    BY <2>3, SendTypes
  <2>4. CASE OperatorCall \/ OperatorStep
    BY <2>4, CallTypes, OperatorTypes
  <2>5. CASE Crash \/ Restart
    BY <2>5, CrashTypes
  <2>6. CASE UNCHANGED vars
    BY <2>6 DEF vars, durable, wakes, TypeInv, TypeOK, RewindInRange
  <2> QED
    BY <2>1, <2>2, <2>3, <2>4, <2>5, <2>6 DEF Next
<1> QED
  BY <1>1, InitTypes, PTL DEF Spec

(* The type invariant of the runs is a part of it. *)
THEOREM TypesHold == Spec => []TypeOK
  BY TypeCorrect, PTL DEF TypeInv

-----------------------------------------------------------------------------
(* Status and tool calls *)

Matches(a) ==
  /\ a.status \in {"pending", "inferring", "errored"} => a.pendingToolCalls = <<>>
  /\ a.status = "tool_exec" => a.pendingToolCalls # <<>>

(***************************************************************************)
(* From the decision to infer until its reply is committed or given up,    *)
(* every tool call is resolved, also while the agent is paused: without    *)
(* this inference_started, which sets the status unconditionally, could    *)
(* leave an inferring agent with pending calls.                            *)
(***************************************************************************)
InInference ==
  \/ pc \in {"beforeInference", "start", "llm", "afterInference", "commit", "retry", "drop",
             "fail"}
  \/ pc = "pause" /\ turn.hook = "beforeInference"

CallsResolved == InInference => agent.pendingToolCalls = <<>>

(* What the events of the reducer do to the two, whatever their order. *)
LEMMA MatchesKept ==
  ASSUME NEW a \in Agent, Matches(a)
  PROVE  /\ Matches(AgentPaused(a)) /\ AgentPaused(a).pendingToolCalls = a.pendingToolCalls
         /\ Matches(AgentResumed(a)) /\ AgentResumed(a).pendingToolCalls = a.pendingToolCalls
         /\ Matches(OnStartCompleted(a))
         /\ Matches(CompletionHandled(a))
         /\ Matches(SessionRestarted(a))
         /\ \A c : Matches(ToolStarted(a, c))
         /\ \A c : Matches(ToolFinished(a, c))
         /\ \A toolCalls : Matches(InferenceCompleted(a, toolCalls))
         /\ \A start, count : /\ Matches(Rewound(a, start, count))
                              /\ Rewound(a, start, count).pendingToolCalls = <<>>
<1> USE DEF Matches, Agent, Statuses
<1>1. /\ Matches(AgentPaused(a)) /\ AgentPaused(a).pendingToolCalls = a.pendingToolCalls
      /\ Matches(AgentResumed(a)) /\ AgentResumed(a).pendingToolCalls = a.pendingToolCalls
  BY DEF AgentPaused, AgentResumed
<1>2. Matches(OnStartCompleted(a)) /\ Matches(CompletionHandled(a))
  BY DEF OnStartCompleted, CompletionHandled
<1>3. Matches(SessionRestarted(a))
  BY DEF SessionRestarted
<1>4. ASSUME NEW c PROVE Matches(ToolStarted(a, c)) /\ Matches(ToolFinished(a, c))
  BY DEF ToolStarted, ToolFinished, UnlessPaused
<1>5. ASSUME NEW toolCalls PROVE Matches(InferenceCompleted(a, toolCalls))
  BY DEF InferenceCompleted, UnlessPaused
<1>6. ASSUME NEW start, NEW count
      PROVE  /\ Matches(Rewound(a, start, count))
             /\ Rewound(a, start, count).pendingToolCalls = <<>>
  BY DEF Rewound
<1> QED
  BY <1>1, <1>2, <1>3, <1>4, <1>5, <1>6

LEMMA ResolvedKept ==
  ASSUME NEW a \in Agent, a.pendingToolCalls = <<>>, Matches(a)
  PROVE  /\ \A messages, call :
              /\ Matches(InferenceStarted(a, messages, call))
              /\ InferenceStarted(a, messages, call).pendingToolCalls = <<>>
         /\ Matches(InferenceFailed(a))
         /\ Matches(InferenceRetried(a)) /\ InferenceRetried(a).pendingToolCalls = <<>>
  BY DEF Matches, Agent, InferenceStarted, InferenceFailed, InferenceRetried, UnlessPaused

StatusInv == Matches(agent) /\ CallsResolved

LEMMA LoopStatus == TypeInv /\ StatusInv /\ LoopStep => StatusInv'
<1> SUFFICES ASSUME TypeInv, StatusInv, LoopStep PROVE StatusInv'
  OBVIOUS
<1>1. agent \in Agent /\ turn \in Turn
  BY DEF TypeInv, TypeOK
<1> USE DEF StatusInv, CallsResolved, InInference, Emit, Resumes, EmitsNext, wakes, durable
<1>2. CASE DecideNothing \/ DecideOnStart \/ DecideTool \/ DecideBackOff \/ DecideResume
           \/ DecideComplete
  BY <1>2 DEF DecideNothing, DecideOnStart, DecideTool, DecideBackOff, DecideResume,
              DecideComplete, EndTurn
<1>3. CASE DecideInfer
  <2>1. agent.status = "pending"
    BY <1>1, <1>3 DEF DecideInfer, Decision, Agent, Statuses
  <2> QED
    BY <1>3, <2>1 DEF DecideInfer, Matches
<1>4. CASE Resume
  BY <1>1, <1>4, MatchesKept DEF Resume
<1>5. CASE HandlerPause \/ OnPauseDone
  BY <1>1, <1>5, MatchesKept DEF HandlerPause, OnPauseDone, EndTurn
<1>6. CASE OnStartHooks \/ OnStartDone
  BY <1>1, <1>6, MatchesKept DEF OnStartHooks, OnStartDone
<1>7. CASE OnCompleteHooks \/ CompleteDone
  <2>1. CASE OnCompleteHooks
    <3>1. pc' = "pause" => turn'.hook = "onComplete"
      BY <1>1, <2>1 DEF OnCompleteHooks, HookPauses, Turn
    <3> QED
      BY <2>1, <3>1 DEF OnCompleteHooks, HookPauses
  <2>2. CASE CompleteDone
    BY <1>1, <2>2, MatchesKept DEF CompleteDone, EndTurn
  <2> QED
    BY <1>7, <2>1, <2>2
<1>8. CASE BeforeInferenceHooks \/ Start
  <2>1. CASE BeforeInferenceHooks
    <3>1. agent.pendingToolCalls = <<>> /\ UNCHANGED agent
      BY <2>1 DEF BeforeInferenceHooks, HookPauses
    <3> QED
      BY <3>1
  <2>2. CASE Start
    BY <1>1, <2>2, ResolvedKept DEF Start
  <2> QED
    BY <1>8, <2>1, <2>2
<1>9. CASE LlmResponds \/ LlmFailsRetryably \/ LlmFailsFatally \/ Drop
  BY <1>9 DEF LlmResponds, LlmFailsRetryably, LlmFailsFatally, Drop
<1>10. CASE Fail
  BY <1>1, <1>10, ResolvedKept DEF Fail
<1>11. CASE OnErrorHooks
  <2>1. pc' = "pause" => turn'.hook = "onError"
    BY <1>1, <1>11 DEF OnErrorHooks, HookPauses, Turn
  <2> QED
    BY <1>11, <2>1 DEF OnErrorHooks, HookPauses
<1>12. CASE AfterInferenceHooks \/ Retry
  BY <1>1, <1>12, ResolvedKept DEF AfterInferenceHooks, Retry
<1>13. CASE Commit \/ Consume
  BY <1>1, <1>13, MatchesKept DEF Commit, Consume, AfterConsume
<1>14. CASE BeforeToolCallHooks \/ ToolReturns
  <2>1. pc' = "pause" => turn'.hook \in {"beforeToolCall", "afterToolCall"}
    BY <1>1, <1>14 DEF BeforeToolCallHooks, ToolReturns, HookPauses, Turn
  <2> QED
    BY <1>14, <2>1 DEF BeforeToolCallHooks, ToolReturns, HookPauses
<1>15. CASE ToolStart \/ ToolDone
  BY <1>1, <1>15, MatchesKept DEF ToolStart, ToolDone, EndTurn
<1>16. CASE AppendFails
  BY <1>16 DEF AppendFails, EndTurn
<1> QED
  BY <1>2, <1>3, <1>4, <1>5, <1>6, <1>7, <1>8, <1>9, <1>10, <1>11, <1>12, <1>13, <1>14,
     <1>15, <1>16 DEF LoopStep

(* No step leaves the loop about to infer over an unresolved call. *)
THEOREM StatusInvariant == Spec => []StatusInv
<1>1. Init => StatusInv
  BY DEF Init, Spawned, StatusInv, Matches, CallsResolved, InInference
<1>2. TypeInv /\ StatusInv /\ [Next]_vars => StatusInv'
  <2> SUFFICES ASSUME TypeInv, StatusInv, [Next]_vars PROVE StatusInv'
    OBVIOUS
  <2>1. agent \in Agent
    BY DEF TypeInv, TypeOK
  <2> USE DEF StatusInv, CallsResolved, InInference, wakes, durable
  <2>2. CASE LoopStep
    BY <2>2, LoopStatus
  <2>3. CASE WakeStep
    BY <2>3 DEF WakeStep, DebounceFires, DebounceCheck, BackoffElapses, RetryFires
  <2>4. ASSUME NEW m \in Messages, Send(m) \/ SendStep(m) PROVE StatusInv'
    BY <2>4 DEF Send, SendStep, MessageStored, SendSchedules
  <2>5. CASE OperatorCall
    BY <2>5 DEF OperatorCall, CallPause, CallResume, CallRewind, Calls
  <2>6. CASE OperatorStep
    BY <2>1, <2>6, MatchesKept DEF OperatorStep, OperationApplied, OperationReturns, Continue
  <2>7. CASE Crash \/ Restart
    BY <2>1, <2>7, MatchesKept DEF Crash, Restart
  <2>8. CASE UNCHANGED vars
    BY <2>8 DEF vars
  <2> QED
    BY <2>2, <2>3, <2>4, <2>5, <2>6, <2>7, <2>8 DEF Next
<1> QED
  BY <1>1, <1>2, TypeCorrect, PTL DEF Spec

(***************************************************************************)
(* Whatever pauses, resumes, rewinds, failures, crashes and loads do,      *)
(* `pending`, `inferring` and `errored` mean that no tool call is          *)
(* unresolved, and `tool_exec` that one is.                                *)
(***************************************************************************)
THEOREM StatusMatchesToolCallsHolds == Spec => []StatusMatchesToolCalls
<1>1. StatusInv => StatusMatchesToolCalls
  BY DEF StatusInv, Matches, StatusMatchesToolCalls
<1> QED
  BY <1>1, StatusInvariant, PTL

-----------------------------------------------------------------------------
(* No lost wakeup *)

(***************************************************************************)
(* The points after which a turn ends without looking at the agent again:  *)
(* what arrives while the loop waits there must leave a mark, or the turn  *)
(* ends in an idle agent with work.                                        *)
(***************************************************************************)
LastWait ==
  \/ pc \in {"onComplete", "completeDone"}
  \/ pc = "pause" /\ turn.hook = "onComplete"
  \/ pc = "onPause" /\ turn.hook \in {"beforeToolCall", "onComplete"}

ScheduleAsked ==
  \/ pendingReschedule
  \/ \E m \in Messages : sends[m] = "stored"
  \/ operator.applied

WakeInv ==
  /\ ScheduledHasWake
  /\ NoLostWakeup
  /\ LastWait /\ CouldAct => ScheduleAsked
  /\ operator.call \in Operations \union {"none"}
  /\ budget.appendFailures = 0

LEMMA CompletionKeepsCouldAct ==
  ASSUME agent \in Agent, agent' = CompletionHandled(agent), UNCHANGED mailbox, CouldAct'
  PROVE  CouldAct
  BY DEF CouldAct, Decision, CompletionHandled, HasMessages, Agent

(* The end of a turn: whoever asked for a schedule meanwhile gets one. *)
LEMMA EndTurnKeepsWake ==
  ASSUME WakeInv, pc # "idle", NEW wanted \in BOOLEAN, EndTurn(wanted),
         UNCHANGED <<sends, operator, budget>>,
         CouldAct' => wanted \/ ScheduleAsked \/ retryArmed'
  PROVE  WakeInv'
<1>1. ~scheduled
  BY DEF WakeInv, ScheduledHasWake
<1>2. ScheduledHasWake'
  BY <1>1 DEF EndTurn, ArmDebounce, ScheduledHasWake
<1>3. NoLostWakeup'
  BY <1>1 DEF EndTurn, ArmDebounce, NoLostWakeup, ScheduleAsked
<1>4. ~LastWait'
  BY DEF EndTurn, LastWait
<1> QED
  BY <1>2, <1>3, <1>4 DEF WakeInv

(* A step that leaves the turn going, at a point where it looks at the agent again. *)
LEMMA GoingOnKeepsWake ==
  ASSUME WakeInv, pc # "idle", pc' # "idle", ~LastWait',
         UNCHANGED <<scheduled, operator>>, budget'.appendFailures = 0
  PROVE  WakeInv'
  BY DEF WakeInv, ScheduledHasWake, NoLostWakeup

LEMMA SpendKeepsAppends ==
  ASSUME budget \in Budgets, budget.appendFailures = 0,
         NEW kind \in {"toolTurns", "retryable", "fatal", "pauses", "hookRetries", "rewinds",
                       "crashes"},
         Spend(kind)
  PROVE  budget'.appendFailures = 0
  BY DEF Spend, Budgets

LEMMA SchedulingKeepsWake ==
  ASSUME WakeInv, ScheduleProcessing, UNCHANGED <<pc, turn, budget>>,
         operator'.call \in Operations \union {"none"}
  PROVE  WakeInv'
<1>1. pc = "idle" => scheduled' /\ (scheduled => UNCHANGED debounceArmed)
  BY DEF ScheduleProcessing, ArmDebounce
<1>2. pc # "idle" => ~scheduled /\ ~scheduled' /\ pendingReschedule'
  BY DEF WakeInv, ScheduledHasWake, ScheduleProcessing
<1>3. ScheduledHasWake'
  BY <1>1, <1>2 DEF WakeInv, ScheduledHasWake, ScheduleProcessing, ArmDebounce
<1>4. NoLostWakeup'
  BY <1>1 DEF NoLostWakeup
<1>5. LastWait' => ScheduleAsked'
  BY <1>2 DEF LastWait, ScheduleAsked
<1> QED
  BY <1>3, <1>4, <1>5 DEF WakeInv

LEMMA LoopKeepsWake == TypeInv /\ WakeInv /\ LoopStep => WakeInv'
<1> SUFFICES ASSUME TypeInv, WakeInv, LoopStep PROVE WakeInv'
  OBVIOUS
<1>1. agent \in Agent /\ turn \in Turn /\ budget \in Budgets /\ budget.appendFailures = 0
  BY DEF TypeInv, TypeOK, WakeInv
<1> USE DEF LastWait, Emit, Resumes, EmitsNext, wakes, durable
<1>2. CASE DecideNothing \/ DecideBackOff
  <2>1. CouldAct => retryArmed'
    BY <1>2 DEF DecideNothing, DecideBackOff, CouldAct
  <2>2. CouldAct' = CouldAct
    BY <1>2 DEF DecideNothing, DecideBackOff, CouldAct, HasMessages
  <2> QED
    BY <1>2, <2>1, <2>2, EndTurnKeepsWake DEF DecideNothing, DecideBackOff
<1>3. CASE \/ DecideOnStart \/ DecideTool \/ DecideResume \/ DecideInfer \/ Resume
           \/ OnStartHooks \/ OnStartDone
  <2>1. budget'.appendFailures = 0
    BY <1>1, <1>3, SpendKeepsAppends
    DEF DecideOnStart, DecideTool, DecideResume, DecideInfer, Resume, OnStartHooks, OnStartDone
  <2>2. /\ pc # "idle" /\ pc' # "idle" /\ UNCHANGED <<scheduled, operator>>
        /\ pc' \notin {"onComplete", "completeDone", "onPause"}
        /\ pc' = "pause" => turn'.hook = "onStart"
    BY <1>3 DEF DecideOnStart, DecideTool, DecideResume, DecideInfer, Resume, OnStartHooks,
                OnStartDone
  <2> QED
    BY <2>1, <2>2, GoingOnKeepsWake
<1>4. CASE DecideComplete
  <2>1. ~CouldAct
    BY <1>4 DEF DecideComplete, CouldAct
  <2>2. CouldAct' = CouldAct
    BY <1>4 DEF DecideComplete, CouldAct, HasMessages
  <2> QED
    BY <1>4, <2>1, <2>2 DEF DecideComplete, WakeInv, ScheduledHasWake, NoLostWakeup
<1>5. CASE HandlerPause
  <2>1. agent'.status = "paused"
    BY <1>1, <1>5 DEF HandlerPause, AgentPaused, Agent
  <2>2. ~CouldAct'
    BY <2>1 DEF CouldAct, Decision
  <2> QED
    BY <1>5, <2>2 DEF HandlerPause, WakeInv, ScheduledHasWake, NoLostWakeup
<1>6. CASE OnPauseDone
  <2>1. CASE turn.hook \in {"beforeToolCall", "onComplete"}
    <3>1. CouldAct' => ScheduleAsked
      BY <1>6, <2>1 DEF OnPauseDone, WakeInv, CouldAct, HasMessages
    <3>2. EndTurn(FALSE) \/ EndTurn(TRUE)
      BY <1>6, <2>1 DEF OnPauseDone
    <3> QED
      BY <1>6, <3>1, <3>2, EndTurnKeepsWake DEF OnPauseDone
  <2>2. CASE turn.hook \notin {"beforeToolCall", "onComplete"}
    BY <1>1, <1>6, <2>2, GoingOnKeepsWake DEF OnPauseDone
  <2> QED
    BY <2>1, <2>2
<1>7. CASE OnCompleteHooks
  <2>1. budget'.appendFailures = 0
    BY <1>1, <1>7, SpendKeepsAppends DEF OnCompleteHooks, HookPauses
  <2>2. CouldAct' = CouldAct
    BY <1>7 DEF OnCompleteHooks, HookPauses, CouldAct, HasMessages
  <2> QED
    BY <1>7, <2>1, <2>2
    DEF OnCompleteHooks, HookPauses, WakeInv, ScheduledHasWake, NoLostWakeup, ScheduleAsked
<1>8. CASE CompleteDone
  <2>1. CouldAct' => ScheduleAsked
    BY <1>1, <1>8, CompletionKeepsCouldAct DEF CompleteDone, WakeInv
  <2> QED
    BY <1>8, <2>1, EndTurnKeepsWake DEF CompleteDone
<1>9. CASE BeforeInferenceHooks \/ OnErrorHooks \/ BeforeToolCallHooks \/ ToolReturns
  <2>1. budget'.appendFailures = 0
    BY <1>1, <1>9, SpendKeepsAppends
    DEF BeforeInferenceHooks, OnErrorHooks, BeforeToolCallHooks, ToolReturns, HookPauses
  <2>2. /\ pc # "idle" /\ UNCHANGED <<scheduled, operator>>
        /\ pc' \in {"pause", "start", "top", "toolStart", "toolDone"}
        /\ pc' = "pause" =>
             \E hook \in {"beforeInference", "onError", "beforeToolCall", "afterToolCall"} :
               turn' = [turn EXCEPT !.hook = hook]
    BY <1>9 DEF BeforeInferenceHooks, OnErrorHooks, BeforeToolCallHooks, ToolReturns,
                HookPauses
  <2>3. pc' = "pause" => turn'.hook # "onComplete"
    BY <1>1, <2>2 DEF Turn
  <2> QED
    BY <2>1, <2>2, <2>3, GoingOnKeepsWake
<1>10. CASE \/ Start \/ LlmResponds \/ LlmFailsRetryably \/ LlmFailsFatally \/ Drop \/ Fail
            \/ AfterInferenceHooks \/ Retry
  <2>1. budget'.appendFailures = 0
    BY <1>1, <1>10, SpendKeepsAppends
    DEF Start, LlmResponds, LlmFailsRetryably, LlmFailsFatally, Drop, Fail,
        AfterInferenceHooks, Retry
  <2>2. /\ pc # "idle" /\ UNCHANGED <<scheduled, operator>>
        /\ pc' \notin {"idle", "pause", "onPause", "onComplete", "completeDone"}
    BY <1>10 DEF Start, LlmResponds, LlmFailsRetryably, LlmFailsFatally, Drop, Fail,
                 AfterInferenceHooks, Retry
  <2> QED
    BY <2>1, <2>2, GoingOnKeepsWake
<1>11. CASE Commit \/ Consume
  <2>1. /\ pc # "idle" /\ UNCHANGED <<scheduled, operator, budget>>
        /\ pc' \notin {"idle", "onPause", "onComplete", "completeDone"}
        /\ pc' = "pause" => turn'.hook = "afterInference"
    BY <1>11 DEF Commit, Consume, AfterConsume
  <2> QED
    BY <1>1, <2>1, GoingOnKeepsWake
<1>12. CASE ToolStart
  BY <1>1, <1>12, GoingOnKeepsWake DEF ToolStart
<1>13. CASE ToolDone
  <2>1. CASE agent'.status # "paused" /\ agent'.pendingToolCalls # <<>>
    BY <1>1, <1>13, <2>1, GoingOnKeepsWake DEF ToolDone
  <2>2. CASE ~(agent'.status # "paused" /\ agent'.pendingToolCalls # <<>>)
    <3>1. EndTurn(agent'.status # "paused")
      BY <1>13, <2>2 DEF ToolDone
    <3>2. CouldAct' => agent'.status # "paused"
      BY DEF CouldAct, Decision
    <3> DEFINE wanted == agent'.status # "paused"
    <3>3. wanted \in BOOLEAN /\ EndTurn(wanted) /\ (CouldAct' => wanted)
      BY <3>1, <3>2
    <3> HIDE DEF wanted
    <3> QED
      BY <1>13, <3>3, EndTurnKeepsWake DEF ToolDone
  <2> QED
    BY <2>1, <2>2
<1>14. CASE AppendFails
  BY <1>1, <1>14 DEF AppendFails, Spend
<1> QED
  BY <1>2, <1>3, <1>4, <1>5, <1>6, <1>7, <1>8, <1>9, <1>10, <1>11, <1>12, <1>13, <1>14
  DEF LoopStep

LEMMA WakeStepKeepsWake == ~HasDebounceCallback /\ WakeInv /\ WakeStep => WakeInv'
<1> SUFFICES ASSUME ~HasDebounceCallback, WakeInv, WakeStep PROVE WakeInv'
  OBVIOUS
<1>1. CASE DebounceFires
  <2>1. CouldAct' = CouldAct
    BY <1>1 DEF DebounceFires, durable, CouldAct, HasMessages
  <2> QED
    BY <1>1, <2>1 DEF DebounceFires, durable, WakeInv, ScheduledHasWake, NoLostWakeup,
                      LastWait, ScheduleAsked
<1>2. CASE BackoffElapses
  <2>1. CouldAct' = CouldAct
    BY <1>2 DEF BackoffElapses, durable, CouldAct, HasMessages
  <2> QED
    BY <1>2, <2>1 DEF BackoffElapses, durable, WakeInv, ScheduledHasWake, NoLostWakeup,
                      LastWait, ScheduleAsked
<1>3. CASE RetryFires
  BY <1>3, SchedulingKeepsWake DEF RetryFires, WakeInv
<1> QED
  BY <1>1, <1>2, <1>3 DEF WakeStep, DebounceCheck

LEMMA SendKeepsWake ==
  ASSUME WakeInv, NEW m \in Messages, Send(m) \/ SendStep(m),
         sends \in [Messages -> {"unsent", "queued", "stored", "sent"}]
  PROVE  WakeInv'
<1>1. CASE Send(m)
  <2>1. CouldAct' = CouldAct
    BY <1>1 DEF Send, durable, CouldAct, HasMessages
  <2>2. \A n \in Messages : sends[n] = "stored" => sends'[n] = "stored"
    BY <1>1 DEF Send
  <2> QED
    BY <1>1, <2>1, <2>2 DEF Send, durable, wakes, WakeInv, ScheduledHasWake, NoLostWakeup,
                            LastWait, ScheduleAsked
<1>2. CASE MessageStored(m)
  <2>1. sends'[m] = "stored"
    BY <1>2 DEF MessageStored
  <2> QED
    BY <1>2, <2>1 DEF MessageStored, wakes, WakeInv, ScheduledHasWake, NoLostWakeup, LastWait,
                      ScheduleAsked
<1>3. CASE SendSchedules(m)
  <2>1. CASE agent.status = "paused"
    <3>1. ~CouldAct'
      BY <1>3, <2>1 DEF SendSchedules, durable, CouldAct, Decision
    <3> QED
      BY <1>3, <2>1, <3>1 DEF SendSchedules, ScheduleAgent, WakeInv, ScheduledHasWake,
                              NoLostWakeup
  <2>2. CASE agent.status # "paused"
    BY <1>3, <2>2, SchedulingKeepsWake DEF SendSchedules, ScheduleAgent, WakeInv
  <2> QED
    BY <2>1, <2>2
<1> QED
  BY <1>1, <1>2, <1>3 DEF SendStep

LEMMA OperatorKeepsWake ==
  ASSUME "session.resume" \notin Operations, TypeInv, WakeInv, OperatorCall \/ OperatorStep
  PROVE  WakeInv'
<1>1. /\ agent \in Agent /\ budget \in Budgets /\ budget.appendFailures = 0
      /\ operator \in [call : AllOperations \union {"none"}, start : Nat, count : Nat,
                       applied : BOOLEAN]
  BY DEF TypeInv, TypeOK, WakeInv
<1>2. CASE OperatorCall
  <2>1. \E op \in Operations : \E start, count : Calls(op, start, count)
    BY <1>2 DEF OperatorCall, CallPause, CallResume, CallRewind, Calls
  <2>2. budget'.appendFailures = 0
    BY <1>1, <1>2, SpendKeepsAppends DEF OperatorCall, CallPause, CallResume, CallRewind
  <2>3. CouldAct' = CouldAct
    BY <2>1 DEF Calls, durable, CouldAct, HasMessages
  <2> QED
    BY <2>1, <2>2, <2>3 DEF Calls, NoOperation, durable, wakes, WakeInv, ScheduledHasWake,
                            NoLostWakeup, LastWait, ScheduleAsked
<1>3. CASE OperationApplied
  <2>1. CASE operator'.applied
    <3>1. operator'.call \in Operations \union {"none"}
      BY <1>1, <1>3 DEF OperationApplied, NoOperation, WakeInv
    <3> QED
      BY <1>3, <2>1, <3>1 DEF OperationApplied, wakes, WakeInv, ScheduledHasWake, NoLostWakeup,
                              ScheduleAsked
  <2>2. CASE ~operator'.applied
    <3>1. agent' = AgentPaused(agent) /\ operator' = NoOperation
      BY <1>1, <1>3, <2>2 DEF OperationApplied, WakeInv
    <3>2. ~CouldAct'
      BY <1>1, <3>1 DEF CouldAct, Decision, AgentPaused, Agent
    <3> QED
      BY <1>3, <3>1, <3>2 DEF OperationApplied, NoOperation, wakes, WakeInv, ScheduledHasWake,
                              NoLostWakeup
  <2> QED
    BY <2>1, <2>2
<1>4. CASE OperationReturns
  <2>1. operator.call # "session.resume" /\ operator' = NoOperation
    BY <1>4 DEF OperationReturns, WakeInv
  <2>2. ScheduleAgent /\ UNCHANGED <<pc, turn, budget, agent, sends, retryArmed>>
    BY <1>4, <2>1 DEF OperationReturns, durable
  <2>3. CASE agent.status = "paused"
    <3>1. ~CouldAct'
      BY <2>2, <2>3 DEF CouldAct, Decision
    <3> QED
      BY <2>1, <2>2, <2>3, <3>1 DEF NoOperation, ScheduleAgent, WakeInv, ScheduledHasWake,
                                    NoLostWakeup
  <2>4. CASE agent.status # "paused"
    BY <2>1, <2>2, <2>4, SchedulingKeepsWake DEF NoOperation, ScheduleAgent
  <2> QED
    BY <2>3, <2>4
<1> QED
  BY <1>2, <1>3, <1>4 DEF OperatorStep

(***************************************************************************)
(* Without the debounce poll and Session.resumeAgent, which the runs show  *)
(* to lose wakes, and without refused appends, an idle agent with work     *)
(* always has a wake coming: no interleaving of messages, pauses, resumes, *)
(* rewinds, failures, crashes and turns strands it.                        *)
(***************************************************************************)
THEOREM NoLostWakeupHolds ==
  ASSUME "session.resume" \notin Operations, ~HasDebounceCallback, Budget.appendFailures = 0
  PROVE  Spec => []NoLostWakeup
<1>1. Init => WakeInv
  BY DEF Init, NoOperation, Spawned, Decision, CouldAct, HasMessages, WakeInv,
         ScheduledHasWake, NoLostWakeup, LastWait
<1>2. TypeInv /\ WakeInv /\ [Next]_vars => WakeInv'
  <2> SUFFICES ASSUME TypeInv, WakeInv, [Next]_vars PROVE WakeInv'
    OBVIOUS
  <2>1. CASE LoopStep
    BY <2>1, LoopKeepsWake
  <2>2. CASE WakeStep
    BY <2>2, WakeStepKeepsWake
  <2>3. ASSUME NEW m \in Messages, Send(m) \/ SendStep(m) PROVE WakeInv'
    BY <2>3, SendKeepsWake DEF TypeInv, TypeOK
  <2>4. CASE OperatorCall \/ OperatorStep
    BY <2>4, OperatorKeepsWake
  <2>5. CASE Crash
    <3>1. budget'.appendFailures = 0
      BY <2>5, SpendKeepsAppends DEF Crash, TypeInv, TypeOK, WakeInv
    <3> QED
      BY <2>5, <3>1 DEF Crash, NoOperation, WakeInv, ScheduledHasWake, NoLostWakeup, LastWait
  <2>6. CASE Restart
    BY <2>6 DEF Restart, wakes, WakeInv, ScheduledHasWake, NoLostWakeup, LastWait
  <2>7. CASE UNCHANGED vars
    BY <2>7 DEF vars, durable, wakes, HasMessages, CouldAct, WakeInv, ScheduledHasWake,
                NoLostWakeup, LastWait, ScheduleAsked
  <2> QED
    BY <2>1, <2>2, <2>3, <2>4, <2>5, <2>6, <2>7 DEF Next
<1>3. WakeInv => NoLostWakeup
  BY DEF WakeInv
<1> QED
  BY <1>1, <1>2, <1>3, TypeCorrect, PTL DEF Spec

-----------------------------------------------------------------------------
(* Tool calls and their results *)

ToolsIn(entries) == UNION {e.calls : e \in {f \in Range(entries) : f.role = "tool"}}

(* The calls that have a result, in the history or on the way to it. *)
Results(a) == Range(a.pendingToolResults) \union ToolsIn(a.history) \union ToolsIn(a.pendingMessages)

(* The requests whose response may still be committed, by a turn or by the next load. *)
Awaited(a) == {a.inferenceCall.id, a.interrupted.id}

(* A call of a response that was committed: its request is no longer waited for. *)
Known(c, a, n) == c[1] \in 1..n /\ c[1] \notin Awaited(a)

Tidy(a, n) ==
  /\ Awaited(a) \subseteq 0..n
  /\ \A c \in Results(a) \union Range(a.pendingToolCalls) : Known(c, a, n)
  /\ \A c \in Range(a.pendingToolCalls) : c \notin Results(a)
  /\ \A i, j \in DOMAIN a.pendingToolCalls : a.pendingToolCalls[i] = a.pendingToolCalls[j] => i = j

AtTool ==
  \/ pc \in {"beforeToolCall", "toolStart", "tool", "toolDone"}
  \/ pc \in {"pause", "onPause"} /\ turn.hook \in {"beforeToolCall", "afterToolCall"}

BeforeRequest == pc = "beforeInference" \/ (pc = "pause" /\ turn.hook = "beforeInference")

AtRequest == pc \in {"start", "llm", "afterInference", "commit"}

(* The call the loop is at has no result, and the request it is at has named no call. *)
AtHand ==
  /\ AtTool => turn.tool \notin Results(agent) /\ Known(turn.tool, agent, requests)
  /\ BeforeRequest => turn.response.id = 0
  /\ AtRequest =>
       /\ turn.call \in 1..requests
       /\ \A c \in Results(agent) \union Range(turn.input.results) : c[1] \in 1..requests /\ c[1] # turn.call
       /\ turn.response.id \in {0, turn.call}
       /\ pc \in {"afterInference", "commit"} => turn.response.id = turn.call

Logged == \A r \in callLog : r.id \in 1..requests

ToolInv == Tidy(agent, requests) /\ AtHand /\ Logged

LEMMA RangeOfPart ==
  ASSUME NEW s \in Seq(Entry), NEW i \in Nat \ {0}, NEW j \in Nat, j <= Len(s)
  PROVE  SubSeq(s, i, j) \in Seq(Entry) /\ Range(SubSeq(s, i, j)) \subseteq Range(s)
<1>1. Len(s) \in Nat /\ DOMAIN s = 1..Len(s) /\ \A k \in 1..Len(s) : s[k] \in Entry
  BY LenProperties, ElementOfSeq
<1>2. \A k \in i..j : k \in 1..Len(s) /\ s[k] \in Entry
  BY <1>1
<1> DEFINE u == SubSeq(s, i, j)
           d == IF i <= j THEN j - i + 1 ELSE 0
<1>3. u \in Seq(Entry) /\ Len(u) = d /\ \A k \in 1..d : u[k] = s[i + k - 1]
  BY <1>2, SubSeqProperties
<1>4. DOMAIN u = 1..d
  BY <1>3, LenProperties
<1>5. \A k \in 1..d : i + k - 1 \in 1..Len(s)
  BY <1>1
<1> HIDE DEF u, d
<1>6. Range(u) \subseteq Range(s)
  BY <1>1, <1>3, <1>4, <1>5 DEF Range
<1> QED BY <1>3, <1>6 DEF u

LEMMA RangeOfOne == ASSUME NEW e PROVE Range(<<e>>) = {e}
  BY DEF Range

LEMMA ToolsInConcat ==
  ASSUME NEW s \in Seq(Entry), NEW t \in Seq(Entry)
  PROVE  ToolsIn(s \o t) = ToolsIn(s) \union ToolsIn(t)
<1>1. Range(s \o t) = Range(s) \union Range(t)
  BY RangeConcatenation
<1> QED BY <1>1 DEF ToolsIn

LEMMA ToolsInPart ==
  ASSUME NEW s \in Seq(Entry), NEW i \in Nat \ {0}, NEW j \in Nat, j <= Len(s)
  PROVE  ToolsIn(SubSeq(s, i, j)) \subseteq ToolsIn(s) /\ SubSeq(s, i, j) \in Seq(Entry)
<1>1. SubSeq(s, i, j) \in Seq(Entry) /\ Range(SubSeq(s, i, j)) \subseteq Range(s)
  BY RangeOfPart
<1> QED BY <1>1 DEF ToolsIn

(* What an event may do to the calls other than to add a result or a call. *)
Shrinks(a, b) ==
  /\ Results(b) \subseteq Results(a)
  /\ b.pendingToolCalls \in {a.pendingToolCalls, <<>>}
  /\ Awaited(b) \subseteq Awaited(a) \union {0}

LEMMA ShrinksKeepsTidy ==
  ASSUME NEW a \in Agent, NEW b \in Agent, NEW n \in Nat, Tidy(a, n), Shrinks(a, b)
  PROVE  Tidy(b, n) /\ \A c \in ToolCall : Known(c, a, n) => Known(c, b, n)
<1>1. \A c : Known(c, a, n) => Known(c, b, n)
  BY DEF Shrinks, Known
<1>2. Awaited(b) \subseteq 0..n
  <2>1. 0 \in 0..n
    OBVIOUS
  <2> QED BY <2>1 DEF Shrinks, Tidy
<1>3. \A c : c \in Range(b.pendingToolCalls) => c \in Range(a.pendingToolCalls)
  BY DEF Shrinks, Range
<1>4. \A i, j \in DOMAIN b.pendingToolCalls : b.pendingToolCalls[i] = b.pendingToolCalls[j] => i = j
  BY DEF Shrinks, Tidy
<1>5. Results(b) \subseteq Results(a)
  BY DEF Shrinks
<1> QED BY <1>1, <1>2, <1>3, <1>4, <1>5 DEF Tidy

LEMMA NoEntries == ToolsIn(<<>>) = {} /\ Range(<<>>) = {} /\ NoCall.id = 0
  BY DEF ToolsIn, Range, NoCall

LEMMA StatusOpsShrink ==
  ASSUME NEW a \in Agent
  PROVE  /\ Shrinks(a, a)
         /\ Shrinks(a, InferenceFailed(a))
         /\ Shrinks(a, InferenceRetried(a))
         /\ Shrinks(a, AgentPaused(a))
         /\ Shrinks(a, AgentResumed(a))
         /\ Shrinks(a, OnStartCompleted(a))
         /\ Shrinks(a, CompletionHandled(a))
         /\ Shrinks(a, SessionRestarted(a))
         /\ \A c : Shrinks(a, ToolStarted(a, c))
<1> USE NoEntries DEF Agent, Shrinks, Results, Awaited
<1>1. Shrinks(a, a)
  OBVIOUS
<1>2. Shrinks(a, InferenceFailed(a)) /\ Shrinks(a, InferenceRetried(a))
  BY DEF InferenceFailed, InferenceRetried
<1>3. Shrinks(a, AgentPaused(a)) /\ Shrinks(a, AgentResumed(a))
  BY DEF AgentPaused, AgentResumed
<1>4. Shrinks(a, OnStartCompleted(a)) /\ Shrinks(a, CompletionHandled(a))
  BY DEF OnStartCompleted, CompletionHandled
<1>5. Shrinks(a, SessionRestarted(a))
  <2> DEFINE b == SessionRestarted(a)
  <2>1. /\ b.pendingToolResults = a.pendingToolResults /\ b.history = a.history
        /\ b.pendingToolCalls = a.pendingToolCalls
        /\ b.pendingMessages \in {a.pendingMessages, <<>>}
        /\ b.inferenceCall = NoCall /\ b.interrupted \in {NoCall, a.inferenceCall, a.interrupted}
    BY DEF SessionRestarted
  <2> HIDE DEF b
  <2> QED BY <2>1 DEF b
<1>6. ASSUME NEW c PROVE Shrinks(a, ToolStarted(a, c))
  BY DEF ToolStarted
<1> QED BY <1>1, <1>2, <1>3, <1>4, <1>5, <1>6

LEMMA RewoundShrinks ==
  ASSUME NEW a \in Agent, NEW start \in Nat, NEW count \in Nat, start <= Len(a.history)
  PROVE  Shrinks(a, Rewound(a, start, count))
<1>1. a.history \in Seq(Entry) /\ Len(a.history) \in Nat
  BY LenProperties DEF Agent
<1> DEFINE s == SubSeq(a.history, 1, start)
           t == SubSeq(a.history, start + count + 1, Len(a.history))
           b == Rewound(a, start, count)
<1>2. s \in Seq(Entry) /\ ToolsIn(s) \subseteq ToolsIn(a.history)
  BY <1>1, ToolsInPart
<1>3. t \in Seq(Entry) /\ ToolsIn(t) \subseteq ToolsIn(a.history)
  <2>1. start + count + 1 \in Nat \ {0}
    OBVIOUS
  <2> QED BY <1>1, <2>1, ToolsInPart
<1>4. /\ b.history = s \o t /\ b.pendingToolCalls = <<>> /\ b.pendingToolResults = <<>>
      /\ b.pendingMessages = <<>> /\ b.inferenceCall = NoCall /\ b.interrupted = NoCall
  BY DEF Rewound, Agent
<1> HIDE DEF s, t, b
<1>5. ToolsIn(b.history) \subseteq ToolsIn(a.history)
  BY <1>2, <1>3, <1>4, ToolsInConcat
<1>6. Shrinks(a, b)
  BY <1>4, <1>5, NoEntries DEF Shrinks, Results, Awaited
<1> QED BY <1>6 DEF b

LEMMA StagedTools ==
  ASSUME NEW input \in Input
  PROVE  ToolsIn(Staged(input)) = Range(input.results)
<1> DEFINE s == [i \in DOMAIN input.results |-> ToolEntry(input.results[i])]
           t == IF input.msgs = {} THEN <<>> ELSE <<UserEntry(input.msgs)>>
<1>1. /\ DOMAIN input.results = 1..Len(input.results) /\ Len(input.results) \in Nat
      /\ \A i \in 1..Len(input.results) : input.results[i] \in ToolCall
  BY LenProperties, ElementOfSeq DEF Input
<1>2. \A i \in 1..Len(input.results) : ToolEntry(input.results[i]) \in Entry
  BY <1>1 DEF ToolEntry, Entry
<1>3. s \in Seq(Entry)
  BY <1>1, <1>2, IsASeq
<1>4. t \in Seq(Entry) /\ ToolsIn(t) = {}
  <2>1. <<>> \in Seq(Entry)
    BY EmptySeq
  <2>2. UserEntry(input.msgs) \in Entry
    BY DEF UserEntry, Entry, Input
  <2>3. ToolsIn(<<UserEntry(input.msgs)>>) = {}
    BY RangeOfOne DEF ToolsIn, UserEntry
  <2> QED BY <2>1, <2>2, <2>3, NoEntries
<1>5. ToolsIn(s) = Range(input.results)
  <2>1. Range(s) = {ToolEntry(c) : c \in Range(input.results)}
    BY DEF Range
  <2> HIDE DEF s
  <2>2. \A c : ToolEntry(c).role = "tool" /\ ToolEntry(c).calls = {c}
    BY DEF ToolEntry
  <2>3. ToolsIn(s) = UNION {e.calls : e \in Range(s)}
    BY <2>1, <2>2 DEF ToolsIn
  <2> QED BY <2>1, <2>2, <2>3
<1>6. Staged(input) = s \o t
  BY DEF Staged
<1> HIDE DEF s, t
<1>7. ToolsIn(s \o t) = ToolsIn(s) \union ToolsIn(t)
  BY <1>3, <1>4, ToolsInConcat
<1> QED BY <1>4, <1>5, <1>6, <1>7

(* inference_started: the results it stages are those of the turn. *)
LEMMA StartedTidy ==
  ASSUME NEW a \in Agent, NEW n \in Nat, Tidy(a, n), a.pendingToolCalls = <<>>,
         NEW input \in Input, NEW call \in CallRef, call.id \in 0..n,
         \A c \in Results(a) \union Range(input.results) : c[1] \in 1..n /\ c[1] # call.id
  PROVE  LET b == InferenceStarted(a, Staged(input), call)
         IN  Tidy(b, n) /\ Results(b) \subseteq Results(a) \union Range(input.results)
<1> DEFINE b == InferenceStarted(a, Staged(input), call)
<1>1. /\ b.pendingMessages = a.pendingMessages \o Staged(input) /\ b.history = a.history
      /\ b.pendingToolResults = a.pendingToolResults /\ b.pendingToolCalls = <<>>
      /\ b.inferenceCall = call /\ b.interrupted = NoCall
  BY DEF InferenceStarted, Agent
<1> HIDE DEF b
<1>2. a.pendingMessages \in Seq(Entry) /\ Staged(input) \in Seq(Entry)
  BY StagedType DEF Agent
<1>3. ToolsIn(b.pendingMessages) = ToolsIn(a.pendingMessages) \union Range(input.results)
  BY <1>1, <1>2, ToolsInConcat, StagedTools
<1>4. Results(b) = Results(a) \union Range(input.results)
  BY <1>1, <1>3 DEF Results
<1>5. Awaited(b) = {call.id, 0}
  BY <1>1, NoEntries DEF Awaited
<1>6. \A c \in Results(b) : Known(c, b, n)
  BY <1>4, <1>5 DEF Known
<1>7. Awaited(b) \subseteq 0..n
  BY <1>5
<1>8. Tidy(b, n)
  BY <1>1, <1>6, <1>7, NoEntries DEF Tidy
<1> QED BY <1>4, <1>8 DEF b

(* inference_completed: the calls it names are those of a request that had named none. *)
LEMMA CompletedTidy ==
  ASSUME NEW a \in Agent, NEW n \in Nat, NEW r \in Response, r.id \in 1..n,
         \A c \in Results(a) : c[1] \in 1..n /\ c[1] # r.id
  PROVE  LET b == InferenceCompleted(a, ToolCalls(r))
         IN  Tidy(b, n) /\ Results(b) \subseteq Results(a)
<1> DEFINE b == InferenceCompleted(a, ToolCalls(r))
           e == AssistantEntry(Range(ToolCalls(r)))
<1>1. /\ b.history = a.history \o a.pendingMessages \o <<e>>
      /\ b.pendingMessages = <<>> /\ b.pendingToolCalls = ToolCalls(r)
      /\ b.pendingToolResults = <<>> /\ b.inferenceCall = NoCall /\ b.interrupted = NoCall
  BY DEF InferenceCompleted, Agent
<1>2. <<e>> \in Seq(Entry) /\ ToolsIn(<<e>>) = {}
  <2>1. e \in Entry
    BY ToolCallsType DEF AssistantEntry, Entry
  <2>2. ToolsIn(<<e>>) = {}
    BY RangeOfOne DEF ToolsIn, AssistantEntry
  <2> QED BY <2>1, <2>2
<1> HIDE DEF b, e
<1>3. a.history \in Seq(Entry) /\ a.pendingMessages \in Seq(Entry)
  BY DEF Agent
<1>4. /\ a.history \o a.pendingMessages \in Seq(Entry)
      /\ ToolsIn(a.history \o a.pendingMessages) = ToolsIn(a.history) \union ToolsIn(a.pendingMessages)
  BY <1>3, ConcatProperties, ToolsInConcat
<1>5. ToolsIn(b.history) = ToolsIn(a.history) \union ToolsIn(a.pendingMessages)
  <2>1. ToolsIn(a.history \o a.pendingMessages \o <<e>>)
          = ToolsIn(a.history \o a.pendingMessages) \union ToolsIn(<<e>>)
    BY <1>2, <1>4, ToolsInConcat
  <2> QED BY <1>1, <1>2, <1>4, <2>1
<1>6. Results(b) \subseteq Results(a)
  BY <1>1, <1>5, NoEntries DEF Results
<1>7. Awaited(b) = {0}
  BY <1>1, NoEntries DEF Awaited
<1>8. /\ \A c \in Range(ToolCalls(r)) : c[1] = r.id
      /\ \A i, j \in DOMAIN ToolCalls(r) : ToolCalls(r)[i] = ToolCalls(r)[j] => i = j
  <2>1. \A i \in DOMAIN ToolCalls(r) : ToolCalls(r)[i] = <<r.id, i>>
    BY DEF ToolCalls
  <2> QED BY <2>1 DEF Range
<1>9. Tidy(b, n)
  BY <1>1, <1>6, <1>7, <1>8 DEF Tidy, Known
<1> QED BY <1>6, <1>9 DEF b

LEMMA WithoutElements ==
  ASSUME NEW calls \in Seq(ToolCall), NEW c \in Range(calls)
  PROVE  \E i \in 1..Len(calls) :
           /\ calls[i] = c
           /\ DOMAIN Without(calls, c) = 1..(Len(calls) - 1)
           /\ \A k \in 1..(Len(calls) - 1) : Without(calls, c)[k] = calls[IF k < i THEN k ELSE k + 1]
<1> DEFINE i == CHOOSE i \in DOMAIN calls : calls[i] = c
           s == SubSeq(calls, 1, i - 1)
           t == SubSeq(calls, i + 1, Len(calls))
           n == Len(calls)
<1>1. /\ DOMAIN calls = 1..n /\ n \in Nat /\ \A k \in 1..n : calls[k] \in ToolCall
  BY LenProperties, ElementOfSeq
<1>2. i \in 1..n /\ calls[i] = c
  BY <1>1 DEF Range
<1>3. Without(calls, c) = s \o t
  BY DEF Without
<1> HIDE DEF i, n
<1>4. /\ s \in Seq(ToolCall) /\ Len(s) = i - 1 /\ \A k \in 1..(i - 1) : s[k] = calls[k]
  <2>1. \A k \in 1..(i - 1) : k \in 1..n
    BY <1>1, <1>2
  <2>2. i \in Int /\ 1 \in Int /\ i - 1 \in Int /\ i - 1 >= 0
    BY <1>1, <1>2
  <2>3. /\ s \in Seq(ToolCall) /\ Len(s) = IF 1 <= i - 1 THEN i - 1 - 1 + 1 ELSE 0
        /\ \A k \in 1..(i - 1 - 1 + 1) : s[k] = calls[1 + k - 1]
    BY <1>1, <2>1, <2>2, SubSeqProperties
  <2> HIDE DEF s
  <2> QED BY <1>1, <1>2, <2>3
<1>5. /\ t \in Seq(ToolCall) /\ Len(t) = n - i /\ \A k \in 1..(n - i) : t[k] = calls[i + k]
  <2>1. \A k \in (i + 1)..n : k \in 1..n
    BY <1>1, <1>2
  <2>2. i + 1 \in Int /\ n \in Int /\ i <= n /\ i \in Int
    BY <1>1, <1>2
  <2>3. /\ t \in Seq(ToolCall) /\ Len(t) = IF i + 1 <= n THEN n - (i + 1) + 1 ELSE 0
        /\ \A k \in 1..(n - (i + 1) + 1) : t[k] = calls[(i + 1) + k - 1]
    BY <1>1, <2>1, <2>2, SubSeqProperties DEF n
  <2> HIDE DEF t
  <2>4. \A k \in 1..(n - i) : k \in 1..(n - (i + 1) + 1) /\ (i + 1) + k - 1 = i + k
    BY <2>2
  <2> QED BY <2>2, <2>3, <2>4
<1> HIDE DEF s, t
<1> DEFINE w == s \o t
<1>6. /\ w \in Seq(ToolCall) /\ Len(w) = n - 1
      /\ \A k \in 1..(n - 1) : w[k] = IF k <= i - 1 THEN s[k] ELSE t[k - (i - 1)]
  <2>1. /\ w \in Seq(ToolCall) /\ Len(w) = Len(s) + Len(t)
        /\ \A k \in 1..(Len(s) + Len(t)) : w[k] = IF k <= Len(s) THEN s[k] ELSE t[k - Len(s)]
    BY <1>4, <1>5, ConcatProperties
  <2>2. Len(s) + Len(t) = n - 1
    BY <1>1, <1>2, <1>4, <1>5
  <2> HIDE DEF w
  <2> QED BY <1>4, <2>1, <2>2
<1>7. DOMAIN w = 1..(n - 1)
  BY <1>6, LenProperties
<1> HIDE DEF w
<1>8. ASSUME NEW k \in 1..(n - 1) PROVE w[k] = calls[IF k < i THEN k ELSE k + 1]
  <2>1. CASE k < i
    BY <1>1, <1>2, <1>4, <1>6, <2>1
  <2>2. CASE ~(k < i)
    <3>1. k - (i - 1) \in 1..(n - i) /\ i + (k - (i - 1)) = k + 1 /\ ~(k <= i - 1)
      BY <1>1, <1>2, <2>2
    <3> QED BY <1>5, <1>6, <2>2, <3>1
  <2> QED BY <2>1, <2>2
<1>9. Without(calls, c) = w
  BY <1>3 DEF w
<1> QED BY <1>2, <1>7, <1>8, <1>9 DEF n

LEMMA WithoutDistinct ==
  ASSUME NEW calls \in Seq(ToolCall), NEW c,
         \A i, j \in DOMAIN calls : calls[i] = calls[j] => i = j
  PROVE  LET w == Without(calls, c)
         IN  /\ \A d \in Range(w) : d \in Range(calls) /\ d # c
             /\ \A i, j \in DOMAIN w : w[i] = w[j] => i = j
<1> DEFINE w == Without(calls, c)
<1>1. CASE c \notin Range(calls)
  BY <1>1 DEF Without
<1>2. CASE c \in Range(calls)
  <2> DEFINE n == Len(calls)
  <2>1. n \in Nat /\ DOMAIN calls = 1..n
    BY LenProperties
  <2>2. PICK i \in 1..n : /\ calls[i] = c /\ DOMAIN w = 1..(n - 1)
                          /\ \A k \in 1..(n - 1) : w[k] = calls[IF k < i THEN k ELSE k + 1]
    BY <1>2, WithoutElements
  <2> HIDE DEF w, n
  <2>3. \A k \in 1..(n - 1) : (IF k < i THEN k ELSE k + 1) \in 1..n /\ (IF k < i THEN k ELSE k + 1) # i
    BY <2>1, <2>2
  <2>4. \A j, k \in 1..(n - 1) : (IF j < i THEN j ELSE j + 1) = (IF k < i THEN k ELSE k + 1) => j = k
    BY <2>1, <2>2
  <2>5. \A d \in Range(w) : d \in Range(calls) /\ d # c
    <3> SUFFICES ASSUME NEW d \in Range(w) PROVE d \in Range(calls) /\ d # c
      OBVIOUS
    <3>1. PICK k \in 1..(n - 1) : d = w[k]
      BY <2>2 DEF Range
    <3> DEFINE e == IF k < i THEN k ELSE k + 1
    <3>2. e \in DOMAIN calls /\ e # i /\ d = calls[e] /\ i \in DOMAIN calls
      BY <2>1, <2>2, <2>3, <3>1
    <3> HIDE DEF e
    <3>3. d \in Range(calls)
      BY <3>2 DEF Range
    <3>4. d # c
      BY <2>2, <3>2
    <3> QED BY <3>3, <3>4
  <2>6. \A j, k \in DOMAIN w : w[j] = w[k] => j = k
    <3> SUFFICES ASSUME NEW j \in 1..(n - 1), NEW k \in 1..(n - 1), w[j] = w[k] PROVE j = k
      BY <2>2
    <3> DEFINE e == IF j < i THEN j ELSE j + 1
               f == IF k < i THEN k ELSE k + 1
    <3>1. e \in DOMAIN calls /\ f \in DOMAIN calls /\ calls[e] = calls[f] /\ (e = f => j = k)
      BY <2>1, <2>2, <2>3, <2>4
    <3> HIDE DEF e, f
    <3> QED BY <3>1
  <2> QED BY <2>5, <2>6 DEF w
<1> QED BY <1>1, <1>2

(* tool_completed, tool_failed: the call is pending no more. *)
LEMMA FinishedTidy ==
  ASSUME NEW a \in Agent, NEW n \in Nat, Tidy(a, n), NEW c \in ToolCall, Known(c, a, n)
  PROVE  Tidy(ToolFinished(a, c), n)
<1> DEFINE b == ToolFinished(a, c)
           calls == a.pendingToolCalls
           w == Without(a.pendingToolCalls, c)
<1>1. /\ b.history = a.history /\ b.pendingMessages = a.pendingMessages
      /\ b.pendingToolCalls = w
      /\ b.pendingToolResults = Append(a.pendingToolResults, c)
      /\ b.inferenceCall = a.inferenceCall /\ b.interrupted = a.interrupted
  BY DEF ToolFinished, Agent
<1> HIDE DEF b
<1>2. Range(b.pendingToolResults) = Range(a.pendingToolResults) \union {c}
  <2>1. a.pendingToolResults \in Seq(ToolCall) /\ <<c>> \in Seq(ToolCall)
    BY DEF Agent
  <2>2. Append(a.pendingToolResults, c) = a.pendingToolResults \o <<c>>
    BY <2>1, AppendIsConcat
  <2>3. Range(<<c>>) = {c}
    BY RangeOfOne
  <2>4. Range(a.pendingToolResults \o <<c>>) = Range(a.pendingToolResults) \union Range(<<c>>)
    BY <2>1, RangeConcatenation
  <2> QED BY <1>1, <2>2, <2>3, <2>4
<1>3. Results(b) = Results(a) \union {c}
  BY <1>1, <1>2 DEF Results
<1>4. calls \in Seq(ToolCall) /\ \A i, j \in DOMAIN calls : calls[i] = calls[j] => i = j
  BY DEF Agent, Tidy
<1>5. /\ \A d \in Range(w) : d \in Range(calls) /\ d # c
      /\ \A i, j \in DOMAIN w : w[i] = w[j] => i = j
  BY <1>4, WithoutDistinct
<1> HIDE DEF calls, w
<1>6. \A d \in Range(calls) : d \notin Results(a) /\ Known(d, a, n)
  BY DEF Tidy, calls
<1>7. Awaited(b) = Awaited(a) /\ \A d : Known(d, b, n) <=> Known(d, a, n)
  BY <1>1 DEF Awaited, Known
<1>8. Tidy(b, n)
  BY <1>1, <1>3, <1>5, <1>6, <1>7 DEF Tidy
<1> QED BY <1>8 DEF b
(* A step that adds no result and no call, and begins neither a tool nor a request. *)
LEMMA GoingOnKeepsTools ==
  ASSUME TypeInv, ToolInv, agent' \in Agent, Shrinks(agent, agent'), UNCHANGED <<callLog, requests>>,
         AtTool' => AtTool /\ turn'.tool = turn.tool,
         BeforeRequest' => turn'.response.id = 0,
         AtRequest' => /\ AtRequest /\ turn'.call = turn.call /\ turn'.input = turn.input
                       /\ turn'.response = turn.response
                       /\ pc' \in {"afterInference", "commit"} => pc \in {"afterInference", "commit"}
  PROVE  ToolInv'
<1>1. agent \in Agent /\ requests \in Nat /\ turn \in Turn
  BY DEF TypeInv, TypeOK
<1>2. /\ Tidy(agent', requests)
      /\ \A c \in ToolCall : Known(c, agent, requests) => Known(c, agent', requests)
  BY <1>1, ShrinksKeepsTidy DEF ToolInv
<1>3. Results(agent') \subseteq Results(agent)
  BY DEF Shrinks
<1>4. AtTool' => turn'.tool \notin Results(agent') /\ Known(turn'.tool, agent', requests)
  <2> SUFFICES ASSUME AtTool' PROVE turn'.tool \notin Results(agent') /\ Known(turn'.tool, agent', requests)
    OBVIOUS
  <2>1. turn.tool \in ToolCall /\ turn'.tool = turn.tool
    BY <1>1 DEF Turn
  <2>2. turn.tool \notin Results(agent) /\ Known(turn.tool, agent, requests)
    BY DEF ToolInv, AtHand
  <2> QED BY <1>2, <1>3, <2>1, <2>2
<1>5. AtRequest' =>
       /\ turn'.call \in 1..requests
       /\ \A c \in Results(agent') \union Range(turn'.input.results) : c[1] \in 1..requests /\ c[1] # turn'.call
       /\ turn'.response.id \in {0, turn'.call}
       /\ pc' \in {"afterInference", "commit"} => turn'.response.id = turn'.call
  BY <1>3 DEF ToolInv, AtHand
<1>6. AtHand'
  BY <1>4, <1>5 DEF AtHand
<1> QED BY <1>2, <1>6 DEF ToolInv, Logged

LEMMA UnchangedTools ==
  ASSUME TypeInv, ToolInv, UNCHANGED <<agent, callLog, requests, turn>>,
         pc' = pc \/ pc' \in {"idle", "top", "onStart", "onComplete", "onStartDone", "completeDone", "resume", "drop",
                              "fail", "consume", "retry", "onError"}
                  \/ (pc = "beforeToolCall" /\ pc' = "toolStart")
                  \/ (pc = "tool" /\ pc' = "toolDone")
                  \/ (pc = "afterInference" /\ pc' = "commit")
  PROVE  ToolInv'
<1>1. agent' \in Agent /\ Shrinks(agent, agent')
  BY StatusOpsShrink DEF TypeInv, TypeOK
<1>2. AtTool' => AtTool
  BY DEF AtTool
<1>3. BeforeRequest' => BeforeRequest
  BY DEF BeforeRequest
<1>4. AtRequest' => AtRequest /\ (pc' \in {"afterInference", "commit"} => pc \in {"afterInference", "commit"})
  BY DEF AtRequest
<1> QED BY <1>1, <1>2, <1>3, <1>4, GoingOnKeepsTools DEF ToolInv, AtHand

(* The locals of a turn that a hook's answer leaves alone. *)
LEMMA HookKeepsTurn ==
  ASSUME NEW t \in Turn, NEW hook
  PROVE  LET u == [t EXCEPT !.hook = hook]
         IN  /\ u.tool = t.tool /\ u.call = t.call /\ u.input = t.input /\ u.response = t.response
             /\ u.hook = hook
  BY DEF Turn

LEMMA HookPausesKeepsTools ==
  ASSUME TypeInv, ToolInv, NEW hook \in AllHooks, HookPauses(hook),
         hook \in {"beforeToolCall", "afterToolCall"} => AtTool,
         hook = "beforeInference" => BeforeRequest
  PROVE  ToolInv'
<1>1. turn \in Turn
  BY DEF TypeInv, TypeOK
<1>2. /\ UNCHANGED <<agent, callLog, requests>> /\ pc' = "pause" /\ turn' = [turn EXCEPT !.hook = hook]
  BY DEF HookPauses, Emit, durable
<1>3. turn'.tool = turn.tool /\ turn'.response = turn.response /\ turn'.hook = hook
  BY <1>1, <1>2, HookKeepsTurn
<1>4. agent' \in Agent /\ Shrinks(agent, agent')
  BY <1>2, StatusOpsShrink DEF TypeInv, TypeOK
<1>5. AtTool' => AtTool
  BY <1>2, <1>3 DEF AtTool
<1>6. BeforeRequest' => BeforeRequest
  BY <1>2, <1>3 DEF BeforeRequest
<1>7. ~AtRequest'
  BY <1>2 DEF AtRequest
<1> QED BY <1>2, <1>3, <1>4, <1>5, <1>6, <1>7, GoingOnKeepsTools DEF ToolInv, AtHand

LEMMA NewTurn == NoTurn.response.id = 0 /\ NoTurn.tool = NoTool /\ NoTurn.hook = "none"
  BY DEF NoTurn, NoResponse

(* The turn ends, or begins anew: what it was at is forgotten. *)
LEMMA FreshTurnKeepsTools ==
  ASSUME TypeInv, ToolInv, agent' \in Agent, Shrinks(agent, agent'), UNCHANGED <<callLog, requests>>,
         pc' \in {"idle", "top", "down"}
  PROVE  ToolInv'
<1>1. ~AtTool' /\ ~BeforeRequest' /\ ~AtRequest'
  BY DEF AtTool, BeforeRequest, AtRequest
<1> QED BY <1>1, GoingOnKeepsTools

LEMMA DecisionTools ==
  ASSUME TypeInv, ToolInv,
         \/ DecideNothing \/ DecideOnStart \/ DecideTool \/ DecideBackOff \/ DecideResume
         \/ DecideInfer \/ DecideComplete \/ Resume
  PROVE  ToolInv'
<1>1. agent \in Agent /\ turn \in Turn /\ requests \in Nat
  BY DEF TypeInv, TypeOK
<1>2. CASE DecideNothing \/ DecideBackOff
  BY <1>1, <1>2, FreshTurnKeepsTools, StatusOpsShrink DEF DecideNothing, DecideBackOff, EndTurn, durable
<1>3. CASE DecideOnStart \/ DecideResume \/ DecideComplete
  BY <1>3, UnchangedTools DEF DecideOnStart, DecideResume, DecideComplete, Emit, durable
<1>4. CASE DecideTool
  <2>1. /\ UNCHANGED <<agent, callLog, requests>> /\ pc' = "beforeToolCall"
        /\ turn' = [turn EXCEPT !.tool = Head(agent.pendingToolCalls)]
        /\ agent.pendingToolCalls # <<>>
    BY <1>4 DEF DecideTool, durable, Decision
  <2>2. turn'.tool = Head(agent.pendingToolCalls)
    BY <1>1, <2>1 DEF Turn
  <2>3. Head(agent.pendingToolCalls) \in Range(agent.pendingToolCalls)
    <3>1. agent.pendingToolCalls \in Seq(ToolCall)
      BY <1>1 DEF Agent
    <3>2. Len(agent.pendingToolCalls) \in Nat \ {0} /\ DOMAIN agent.pendingToolCalls = 1..Len(agent.pendingToolCalls)
      BY <2>1, <3>1, EmptySeq, LenProperties
    <3>3. Head(agent.pendingToolCalls) = agent.pendingToolCalls[1]
      BY <2>1, <3>1
    <3> QED BY <3>2, <3>3 DEF Range
  <2>4. turn'.tool \notin Results(agent) /\ Known(turn'.tool, agent, requests)
    BY <2>2, <2>3 DEF ToolInv, Tidy
  <2>5. ~BeforeRequest' /\ ~AtRequest'
    BY <2>1 DEF BeforeRequest, AtRequest
  <2>6. AtHand'
    BY <2>1, <2>4, <2>5 DEF AtHand
  <2> QED BY <2>1, <2>6 DEF ToolInv, Logged
<1>5. CASE DecideInfer
  <2>1. /\ UNCHANGED <<agent, callLog, requests>> /\ pc' = "beforeInference"
        /\ turn'.response = NoTurn.response
    BY <1>5 DEF DecideInfer, durable, NoTurn
  <2>2. ~AtTool' /\ ~AtRequest'
    BY <2>1 DEF AtTool, AtRequest
  <2> QED BY <1>1, <2>1, <2>2, NewTurn, StatusOpsShrink, GoingOnKeepsTools
<1>6. CASE Resume
  <2>1. agent' \in Agent /\ Shrinks(agent, agent')
    BY <1>1, <1>6, StatusOpsType, StatusOpsShrink DEF Resume
  <2> QED BY <1>6, <2>1, FreshTurnKeepsTools DEF Resume, Resumes
<1> QED BY <1>2, <1>3, <1>4, <1>5, <1>6

LEMMA HookTools ==
  ASSUME TypeInv, ToolInv,
         \/ HandlerPause \/ OnPauseDone \/ OnStartHooks \/ OnStartDone \/ OnCompleteHooks
         \/ CompleteDone
  PROVE  ToolInv'
<1>1. agent \in Agent /\ turn \in Turn /\ requests \in Nat
  BY DEF TypeInv, TypeOK
<1>2. CASE HandlerPause
  <2>1. agent' \in Agent /\ Shrinks(agent, agent')
    BY <1>1, <1>2, StatusOpsType, StatusOpsShrink DEF HandlerPause
  <2>2. pc = "pause" /\ pc' = "onPause" /\ UNCHANGED <<turn, callLog, requests>>
    BY <1>2 DEF HandlerPause, Resumes
  <2>3. (AtTool' => AtTool) /\ ~BeforeRequest' /\ ~AtRequest'
    BY <2>2 DEF AtTool, BeforeRequest, AtRequest
  <2> QED BY <2>1, <2>2, <2>3, GoingOnKeepsTools
<1>3. CASE OnPauseDone
  <2>1. agent' \in Agent /\ Shrinks(agent, agent') /\ UNCHANGED <<callLog, requests>> /\ pc = "onPause"
    BY <1>1, <1>3, StatusOpsShrink DEF OnPauseDone, durable
  <2>2. \/ pc' \in {"top", "idle"}
        \/ turn.hook = "afterToolCall" /\ pc' = "toolDone" /\ turn' = [turn EXCEPT !.hook = "none"]
    BY <1>3 DEF OnPauseDone, Emit, EndTurn
  <2>3. CASE pc' \in {"top", "idle"}
    BY <2>1, <2>3, FreshTurnKeepsTools
  <2>4. CASE turn.hook = "afterToolCall" /\ pc' = "toolDone" /\ turn' = [turn EXCEPT !.hook = "none"]
    <3>1. turn'.tool = turn.tool
      BY <1>1, <2>4, HookKeepsTurn
    <3>2. AtTool /\ ~BeforeRequest' /\ ~AtRequest'
      BY <2>1, <2>4 DEF AtTool, BeforeRequest, AtRequest
    <3> QED BY <2>1, <3>1, <3>2, GoingOnKeepsTools
  <2> QED BY <2>2, <2>3, <2>4
<1>4. CASE OnStartHooks
  <2>1. UNCHANGED <<agent, callLog, requests>> /\ pc' = "onStartDone"
    BY <1>4 DEF OnStartHooks, Emit, durable
  <2>2. ~AtTool' /\ ~BeforeRequest' /\ ~AtRequest'
    BY <2>1 DEF AtTool, BeforeRequest, AtRequest
  <2> QED BY <1>1, <2>1, <2>2, StatusOpsShrink, GoingOnKeepsTools
<1>5. CASE OnStartDone
  <2>1. agent' \in Agent /\ Shrinks(agent, agent') /\ UNCHANGED <<callLog, requests, turn>>
    BY <1>1, <1>5, StatusOpsType, StatusOpsShrink DEF OnStartDone
  <2>2. pc' = "top" \/ (pc' = "pause" /\ turn'.hook = "onStart")
    BY <1>5, <2>1 DEF OnStartDone, EmitsNext, Resumes
  <2>3. ~AtTool' /\ ~BeforeRequest' /\ ~AtRequest'
    BY <2>2 DEF AtTool, BeforeRequest, AtRequest
  <2> QED BY <2>1, <2>3, GoingOnKeepsTools
<1>6. CASE OnCompleteHooks
  <2>1. CASE HookPauses("onComplete")
    BY <2>1, HookPausesKeepsTools DEF AllHooks
  <2>2. CASE ~HookPauses("onComplete")
    BY <1>6, <2>2, UnchangedTools DEF OnCompleteHooks, Emit, durable
  <2> QED BY <2>1, <2>2
<1>7. CASE CompleteDone
  <2>1. agent' \in Agent /\ Shrinks(agent, agent')
    BY <1>1, <1>7, StatusOpsType, StatusOpsShrink DEF CompleteDone
  <2> QED BY <1>7, <2>1, FreshTurnKeepsTools DEF CompleteDone, EndTurn
<1> QED BY <1>2, <1>3, <1>4, <1>5, <1>6, <1>7

LEMMA BeforeInferenceTools ==
  ASSUME TypeInv, ToolInv, BeforeInferenceHooks
  PROVE  ToolInv'
<1>1. agent \in Agent /\ turn \in Turn /\ requests \in Nat /\ callLog \subseteq Response
  BY DEF TypeInv, TypeOK
<1>2. CASE HookPauses("beforeInference")
  BY <1>2, HookPausesKeepsTools DEF BeforeInferenceHooks, AllHooks, BeforeRequest
<1>3. CASE ~HookPauses("beforeInference")
  <2> DEFINE input == [results |-> agent.pendingToolResults, msgs |-> turn.input.msgs]
             n == requests + 1
  <2>1. Range(input.results) \subseteq Results(agent)
    BY DEF Results
  <2>2. \A c \in Results(agent) : Known(c, agent, requests)
    BY DEF ToolInv, Tidy
  <2>3. turn.response.id = 0
    BY DEF BeforeInferenceHooks, ToolInv, AtHand, BeforeRequest
  <2> HIDE DEF input, n
  <2>4. /\ \/ requests' = n /\ turn' = [turn EXCEPT !.input = input, !.call = n]
           \/ \E r \in Replayable(input) :
                /\ requests' = requests
                /\ turn' = [turn EXCEPT !.input = input, !.call = r.id, !.response = r]
        /\ UNCHANGED <<agent, callLog>> /\ pc' = "start"
    BY <1>3 DEF BeforeInferenceHooks, Emit, durable, input, n
  <2>5. ~AtTool' /\ ~BeforeRequest'
    BY <2>4 DEF AtTool, BeforeRequest
  <2>6. CASE requests' = n /\ turn' = [turn EXCEPT !.input = input, !.call = n]
    <3>1. turn'.input = input /\ turn'.call = n /\ turn'.response = turn.response
      BY <1>1, <2>6 DEF Turn
    <3>2. 0..requests \subseteq 0..n /\ 1..requests \subseteq 1..n /\ n \in 1..n /\ n \notin 1..requests
      BY <1>1 DEF n
    <3>3. Tidy(agent', n)
      BY <2>4, <3>2 DEF ToolInv, Tidy, Known
    <3>4. \A c \in Results(agent) : c[1] \in 1..n /\ c[1] # n
      BY <2>2, <3>2 DEF Known
    <3>5. AtHand'
      BY <2>1, <2>3, <2>4, <2>5, <2>6, <3>1, <3>2, <3>4 DEF AtHand
    <3>6. Logged'
      BY <2>4, <2>6, <3>2 DEF ToolInv, Logged
    <3> QED BY <2>6, <3>3, <3>5, <3>6 DEF ToolInv
  <2>7. CASE \E r \in Replayable(input) :
                /\ requests' = requests
                /\ turn' = [turn EXCEPT !.input = input, !.call = r.id, !.response = r]
    <3>1. PICK r \in callLog : /\ agent.interrupted.id = r.id /\ requests' = requests
                               /\ turn' = [turn EXCEPT !.input = input, !.call = r.id, !.response = r]
      BY <2>7 DEF Replayable
    <3>2. turn'.input = input /\ turn'.call = r.id /\ turn'.response = r
      BY <1>1, <3>1 DEF Turn
    <3>3. r.id \in 1..requests
      BY DEF ToolInv, Logged
    <3>4. \A c \in Results(agent) : c[1] \in 1..requests /\ c[1] # r.id
      BY <2>2, <3>1 DEF Known, Awaited
    <3>5. AtHand'
      BY <2>1, <2>4, <2>5, <3>1, <3>2, <3>3, <3>4 DEF AtHand
    <3> QED BY <2>4, <3>1, <3>5 DEF ToolInv, Logged
  <2> QED BY <2>4, <2>6, <2>7
<1> QED BY <1>2, <1>3

LEMMA StartTools ==
  ASSUME TypeInv, StatusInv, ToolInv, Start
  PROVE  ToolInv'
<1>1. agent \in Agent /\ turn \in Turn /\ requests \in Nat /\ turn.input \in Input /\ turn.call \in Nat
  BY DEF TypeInv, TypeOK, Turn
<1> DEFINE call == IF HasCallLog THEN [id |-> turn.call, input |-> turn.input] ELSE NoCall
<1>2. /\ turn.call \in 1..requests /\ turn.response.id \in {0, turn.call}
      /\ \A c \in Results(agent) \union Range(turn.input.results) : c[1] \in 1..requests /\ c[1] # turn.call
  BY DEF Start, ToolInv, AtHand, AtRequest
<1>3. call \in CallRef /\ call.id \in 0..requests /\ call.id \in {0, turn.call}
  <2>1. NoCall \in CallRef
    BY EmptySeq DEF NoCall, CallRef, NoInput, Input
  <2>2. [id |-> turn.call, input |-> turn.input] \in CallRef
    BY <1>1 DEF CallRef
  <2> QED BY <1>1, <1>2, <2>1, <2>2, NoEntries
<1>4. agent.pendingToolCalls = <<>>
  BY DEF Start, StatusInv, CallsResolved, InInference
<1>5. /\ agent' = InferenceStarted(agent, Staged(turn.input), call) /\ UNCHANGED <<callLog, requests>>
      /\ \/ pc' = "afterInference" /\ turn' = turn /\ turn.response.id # 0
         \/ pc' = "llm" /\ turn.response.id = 0
              /\ turn' = [turn EXCEPT !.response.asked = agent.history \o Staged(turn.input)]
  BY DEF Start, Resumes
<1> HIDE DEF call
<1>6. /\ Tidy(agent', requests)
      /\ Results(agent') \subseteq Results(agent) \union Range(turn.input.results)
  <2>1. Tidy(agent, requests)
    BY DEF ToolInv
  <2>2. \A c \in Results(agent) \union Range(turn.input.results) : c[1] \in 1..requests /\ c[1] # call.id
    <3> SUFFICES ASSUME NEW c \in Results(agent) \union Range(turn.input.results)
                 PROVE  c[1] \in 1..requests /\ c[1] # call.id
      OBVIOUS
    <3>1. c[1] \in 1..requests /\ c[1] # turn.call
      BY <1>2
    <3>2. c[1] # 0
      BY <1>1, <3>1
    <3> QED BY <1>3, <3>1, <3>2
  <2> QED BY <1>1, <1>3, <1>4, <1>5, <2>1, <2>2, StartedTidy
<1>7. turn'.call = turn.call /\ turn'.input = turn.input /\ turn'.response.id = turn.response.id
  <2>1. turn.response \in Response
    BY <1>1 DEF Turn
  <2> QED BY <1>1, <1>5, <2>1 DEF Turn, Response
<1>8. ~AtTool' /\ ~BeforeRequest'
  BY <1>5 DEF AtTool, BeforeRequest
<1>9. AtHand'
  BY <1>2, <1>5, <1>6, <1>7, <1>8 DEF AtHand
<1> QED BY <1>5, <1>6, <1>9 DEF ToolInv, Logged

LEMMA RespondTools ==
  ASSUME TypeInv, ToolInv, LlmResponds
  PROVE  ToolInv'
<1>1. agent \in Agent /\ turn \in Turn /\ requests \in Nat
  BY DEF TypeInv, TypeOK
<1>2. turn.call \in 1..requests /\
      \A c \in Results(agent) \union Range(turn.input.results) : c[1] \in 1..requests /\ c[1] # turn.call
  BY DEF LlmResponds, ToolInv, AtHand, AtRequest
<1>3. PICK n \in 0..MaxTools :
        LET r == [id |-> turn.call, tools |-> n, asked |-> turn.response.asked]
        IN  /\ turn' = [turn EXCEPT !.response = r]
            /\ callLog' = callLog \/ callLog' = callLog \union {r}
  BY DEF LlmResponds
<1>4. UNCHANGED <<agent, requests>> /\ pc' = "afterInference"
  BY DEF LlmResponds
<1>5. turn'.call = turn.call /\ turn'.input = turn.input /\ turn'.response.id = turn.call
  BY <1>1, <1>3 DEF Turn
<1>6. Logged'
  BY <1>2, <1>3, <1>4 DEF ToolInv, Logged
<1>7. ~AtTool' /\ ~BeforeRequest'
  BY <1>4 DEF AtTool, BeforeRequest
<1>8. AtHand'
  BY <1>2, <1>4, <1>5, <1>7 DEF AtHand
<1> QED BY <1>4, <1>6, <1>8 DEF ToolInv

LEMMA RequestTools ==
  ASSUME TypeInv, StatusInv, ToolInv,
         \/ BeforeInferenceHooks \/ Start \/ LlmResponds \/ LlmFailsRetryably \/ LlmFailsFatally
         \/ Drop \/ Fail \/ OnErrorHooks
  PROVE  ToolInv'
<1>1. agent \in Agent /\ turn \in Turn /\ requests \in Nat
  BY DEF TypeInv, TypeOK
<1>2. CASE BeforeInferenceHooks
  BY <1>2, BeforeInferenceTools
<1>3. CASE Start
  BY <1>3, StartTools
<1>4. CASE LlmResponds
  BY <1>4, RespondTools
<1>5. CASE LlmFailsRetryably \/ LlmFailsFatally \/ Drop
  <2>1. UNCHANGED <<agent, callLog, requests>> /\ pc' \in {"fail", "drop"}
    BY <1>5 DEF LlmFailsRetryably, LlmFailsFatally, Drop, Emit, EmitsNext, durable
  <2>2. ~AtTool' /\ ~BeforeRequest' /\ ~AtRequest'
    BY <2>1 DEF AtTool, BeforeRequest, AtRequest
  <2> QED BY <1>1, <2>1, <2>2, StatusOpsShrink, GoingOnKeepsTools
<1>6. CASE Fail
  <2>1. agent' \in Agent /\ Shrinks(agent, agent')
    BY <1>1, <1>6, StatusOpsType, StatusOpsShrink DEF Fail
  <2>2. UNCHANGED <<callLog, requests>> /\ pc' \in {"onError", "top"}
    BY <1>6 DEF Fail, Resumes
  <2>3. ~AtTool' /\ ~BeforeRequest' /\ ~AtRequest'
    BY <2>2 DEF AtTool, BeforeRequest, AtRequest
  <2> QED BY <2>1, <2>2, <2>3, GoingOnKeepsTools
<1>7. CASE OnErrorHooks
  <2>1. CASE HookPauses("onError")
    BY <2>1, HookPausesKeepsTools DEF AllHooks
  <2>2. CASE ~HookPauses("onError")
    BY <1>1, <1>7, <2>2, StatusOpsShrink, FreshTurnKeepsTools DEF OnErrorHooks, durable
  <2> QED BY <2>1, <2>2
<1> QED BY <1>2, <1>3, <1>4, <1>5, <1>6, <1>7

LEMMA CommitTools ==
  ASSUME TypeInv, ToolInv, AfterInferenceHooks \/ Retry \/ Commit \/ Consume
  PROVE  ToolInv'
<1>1. agent \in Agent /\ turn \in Turn /\ requests \in Nat
  BY DEF TypeInv, TypeOK
<1>2. CASE AfterInferenceHooks
  <2>1. /\ UNCHANGED <<agent, callLog, requests>> /\ pc = "afterInference" /\ pc' \in {"commit", "retry"}
        /\ turn' = turn \/ turn' = [turn EXCEPT !.hook = "afterInference"]
    BY <1>2 DEF AfterInferenceHooks, Emit, durable
  <2>2. turn'.tool = turn.tool /\ turn'.call = turn.call /\ turn'.input = turn.input /\ turn'.response = turn.response
    <3>1. CASE turn' = turn
      BY <3>1
    <3>2. CASE turn' = [turn EXCEPT !.hook = "afterInference"]
      BY <1>1, <3>2, HookKeepsTurn
    <3> QED BY <2>1, <3>1, <3>2
  <2>3. ~AtTool' /\ ~BeforeRequest' /\ AtRequest
    BY <2>1 DEF AtTool, BeforeRequest, AtRequest
  <2> QED BY <1>1, <2>1, <2>2, <2>3, StatusOpsShrink, GoingOnKeepsTools
<1>3. CASE Retry
  <2>1. agent' \in Agent /\ Shrinks(agent, agent') /\ UNCHANGED <<callLog, requests>>
    BY <1>1, <1>3, StatusOpsType, StatusOpsShrink DEF Retry
  <2>2. \/ pc' = "top"
        \/ pc' = "beforeInference" /\ turn' = [NoTurn EXCEPT !.attempt = turn.attempt + 1, !.input.msgs = mailbox]
    BY <1>3 DEF Retry, Resumes
  <2>3. CASE pc' = "top"
    BY <2>1, <2>3, FreshTurnKeepsTools
  <2>4. CASE pc' = "beforeInference" /\ turn' = [NoTurn EXCEPT !.attempt = turn.attempt + 1, !.input.msgs = mailbox]
    <3>1. turn'.response = NoTurn.response
      BY <2>4 DEF NoTurn
    <3>2. ~AtTool' /\ ~AtRequest'
      BY <2>4 DEF AtTool, AtRequest
    <3> QED BY <2>1, <3>1, <3>2, NewTurn, GoingOnKeepsTools
  <2> QED BY <2>2, <2>3, <2>4
<1>4. CASE Commit
  <2>1. /\ turn.call \in 1..requests /\ turn.response.id = turn.call
        /\ \A c \in Results(agent) : c[1] \in 1..requests /\ c[1] # turn.call
    BY <1>4 DEF Commit, ToolInv, AtHand, AtRequest
  <2>2. turn.response \in Response
    BY <1>1 DEF Turn
  <2>3. /\ agent' = InferenceCompleted(agent, ToolCalls(turn.response)) /\ UNCHANGED <<callLog, requests>>
        /\ pc' \in {"consume", "top"} \/ (pc' = "pause" /\ turn'.hook = "afterInference")
    BY <1>4 DEF Commit, AfterConsume, EmitsNext, Resumes
  <2>4. Tidy(agent', requests)
    BY <1>1, <2>1, <2>2, <2>3, CompletedTidy
  <2>5. ~AtTool' /\ ~BeforeRequest' /\ ~AtRequest'
    BY <2>3 DEF AtTool, BeforeRequest, AtRequest
  <2> QED BY <2>3, <2>4, <2>5 DEF ToolInv, AtHand, Logged
<1>5. CASE Consume
  <2>1. /\ UNCHANGED <<agent, callLog, requests>>
        /\ pc' = "top" \/ (pc' = "pause" /\ turn'.hook = "afterInference")
    BY <1>5 DEF Consume, AfterConsume, EmitsNext, Resumes
  <2>2. ~AtTool' /\ ~BeforeRequest' /\ ~AtRequest'
    BY <2>1 DEF AtTool, BeforeRequest, AtRequest
  <2> QED BY <1>1, <2>1, <2>2, StatusOpsShrink, GoingOnKeepsTools
<1> QED BY <1>2, <1>3, <1>4, <1>5

LEMMA ToolStepTools ==
  ASSUME TypeInv, ToolInv, BeforeToolCallHooks \/ ToolStart \/ ToolReturns \/ ToolDone
  PROVE  ToolInv'
<1>1. agent \in Agent /\ turn \in Turn /\ requests \in Nat /\ turn.tool \in ToolCall
  BY DEF TypeInv, TypeOK, Turn
<1>2. CASE BeforeToolCallHooks \/ ToolReturns
  <2>1. CASE HookPauses("beforeToolCall") \/ HookPauses("afterToolCall")
    BY <1>2, <2>1, HookPausesKeepsTools DEF AllHooks, AtTool, BeforeToolCallHooks, ToolReturns
  <2>2. CASE ~(HookPauses("beforeToolCall") \/ HookPauses("afterToolCall"))
    BY <1>2, <2>2, UnchangedTools DEF BeforeToolCallHooks, ToolReturns, Emit, durable
  <2> QED BY <2>1, <2>2
<1>3. CASE ToolStart
  <2>1. agent' \in Agent /\ Shrinks(agent, agent')
    BY <1>1, <1>3, ToolOpsType, StatusOpsShrink DEF ToolStart
  <2>2. pc = "toolStart" /\ pc' \in {"tool", "toolDone"} /\ UNCHANGED <<turn, callLog, requests>>
    BY <1>3 DEF ToolStart, Resumes, EmitsNext
  <2>3. AtTool /\ ~BeforeRequest' /\ ~AtRequest'
    BY <2>2 DEF AtTool, BeforeRequest, AtRequest
  <2> QED BY <2>1, <2>2, <2>3, GoingOnKeepsTools
<1>4. CASE ToolDone
  <2>1. agent' = ToolFinished(agent, turn.tool) /\ UNCHANGED <<callLog, requests>> /\ pc' \in {"top", "idle"}
    BY <1>4 DEF ToolDone, EndTurn
  <2>2. Known(turn.tool, agent, requests)
    BY <1>4 DEF ToolDone, ToolInv, AtHand, AtTool
  <2>3. Tidy(agent', requests)
    BY <1>1, <2>1, <2>2, FinishedTidy DEF ToolInv
  <2>4. ~AtTool' /\ ~BeforeRequest' /\ ~AtRequest'
    BY <2>1 DEF AtTool, BeforeRequest, AtRequest
  <2> QED BY <2>1, <2>3, <2>4 DEF ToolInv, AtHand, Logged
<1> QED BY <1>2, <1>3, <1>4

LEMMA RefusalTools ==
  ASSUME TypeInv, ToolInv, AppendFails
  PROVE  ToolInv'
<1>1. agent \in Agent /\ turn \in Turn /\ requests \in Nat
  BY DEF TypeInv, TypeOK
<1>2. agent' \in Agent /\ Shrinks(agent, agent') /\ UNCHANGED <<callLog, requests>>
  BY <1>1, StatusOpsShrink DEF AppendFails, durable
<1>3. \/ pc' = "idle"
      \/ /\ turn' = [turn EXCEPT !.hook = "none"] /\ pc = "pause"
         /\ \/ pc' = turn.hook /\ turn.hook \in {"beforeInference", "beforeToolCall", "onComplete", "onError"}
            \/ pc' = "toolDone" /\ turn.hook = "afterToolCall"
  BY DEF AppendFails, EndTurn, Resumes, EmitsNext
<1>4. CASE pc' = "idle"
  BY <1>2, <1>4, FreshTurnKeepsTools
<1>5. CASE pc' # "idle"
  <2>1. turn'.tool = turn.tool /\ turn'.response = turn.response
    <3>1. turn' = [turn EXCEPT !.hook = "none"]
      BY <1>3, <1>5
    <3> QED BY <1>1, <3>1, HookKeepsTurn
  <2>2. AtTool' => AtTool
    BY <1>3, <1>5 DEF AtTool
  <2>3. BeforeRequest' => BeforeRequest
    BY <1>3, <1>5 DEF BeforeRequest
  <2>4. ~AtRequest'
    BY <1>3, <1>5 DEF AtRequest
  <2> QED BY <1>2, <2>1, <2>2, <2>3, <2>4, GoingOnKeepsTools DEF ToolInv, AtHand
<1> QED BY <1>4, <1>5

LEMMA OutsideTools ==
  ASSUME TypeInv, ToolInv,
         \/ WakeStep \/ (\E m \in Messages : Send(m) \/ SendStep(m)) \/ OperatorCall \/ OperatorStep
         \/ Crash \/ Restart \/ UNCHANGED vars
  PROVE  ToolInv'
<1>1. agent \in Agent /\ turn \in Turn /\ requests \in Nat
  BY DEF TypeInv, TypeOK
<1>2. CASE WakeStep
  BY <1>2, UnchangedTools DEF WakeStep, DebounceFires, DebounceCheck, BackoffElapses, RetryFires, durable
<1>3. CASE \E m \in Messages : Send(m) \/ SendStep(m)
  BY <1>3, UnchangedTools DEF Send, SendStep, MessageStored, SendSchedules, durable
<1>4. CASE OperatorCall
  BY <1>4, UnchangedTools DEF OperatorCall, CallPause, CallResume, CallRewind, Calls, durable
<1>5. CASE OperationApplied
  <2>1. agent' \in Agent /\ Shrinks(agent, agent')
    <3>1. CASE operator.call = "agents.rewind"
      <4>1. operator.start <= Len(agent.history) /\ operator.start \in Nat /\ operator.count \in Nat
        BY <1>5, <3>1 DEF OperationApplied, TypeInv, TypeOK, RewindInRange
      <4>2. agent' = Rewound(agent, operator.start, operator.count)
        BY <1>5, <3>1 DEF OperationApplied
      <4> QED BY <1>1, <4>1, <4>2, RewoundType, RewoundShrinks
    <3>2. CASE operator.call # "agents.rewind"
      BY <1>1, <1>5, <3>2, StatusOpsType, StatusOpsShrink DEF OperationApplied
    <3> QED BY <3>1, <3>2
  <2>2. UNCHANGED <<callLog, requests, pc, turn>>
    BY <1>5 DEF OperationApplied
  <2>3. (AtTool' => AtTool) /\ (BeforeRequest' => BeforeRequest) /\ (AtRequest' => AtRequest)
    BY <2>2 DEF AtTool, BeforeRequest, AtRequest
  <2> QED BY <2>1, <2>2, <2>3, GoingOnKeepsTools DEF ToolInv, AtHand
<1>6. CASE OperationReturns
  BY <1>6, UnchangedTools DEF OperationReturns, Continue, durable
<1>7. CASE Crash
  BY <1>1, <1>7, StatusOpsShrink, FreshTurnKeepsTools DEF Crash, durable
<1>8. CASE Restart
  <2>1. agent' \in Agent /\ Shrinks(agent, agent')
    BY <1>1, <1>8, StatusOpsType, StatusOpsShrink DEF Restart
  <2> QED BY <1>8, <2>1, FreshTurnKeepsTools DEF Restart
<1>9. CASE UNCHANGED vars
  BY <1>9, UnchangedTools DEF vars, durable
<1> QED BY <1>2, <1>3, <1>4, <1>5, <1>6, <1>7, <1>8, <1>9 DEF OperatorStep

LEMMA StepTools == TypeInv /\ StatusInv /\ ToolInv /\ [Next]_vars => ToolInv'
<1> SUFFICES ASSUME TypeInv, StatusInv, ToolInv, [Next]_vars PROVE ToolInv'
  OBVIOUS
<1>1. CASE LoopStep
  BY <1>1, DecisionTools, HookTools, RequestTools, CommitTools, ToolStepTools, RefusalTools DEF LoopStep
<1>2. CASE ~LoopStep
  BY <1>2, OutsideTools DEF Next
<1> QED BY <1>1, <1>2

(***************************************************************************)
(* A tool never runs once its result is recorded: a call is pending only   *)
(* until it has a result, the loop holds one that has none, and a request  *)
(* names its calls once, though its response may be read again from the    *)
(* call log after a load.                                                  *)
(***************************************************************************)
THEOREM ToolRunsUntilRecordedHolds == Spec => ToolRunsUntilRecorded
<1>1. Init => ToolInv
  <2> SUFFICES ASSUME Init PROVE ToolInv
    OBVIOUS
  <2>1. /\ agent = Spawned /\ pc = "idle" /\ callLog = {} /\ requests = 0
    BY DEF Init
  <2>2. Results(agent) = {} /\ Awaited(agent) = {0} /\ agent.pendingToolCalls = <<>>
    BY <2>1, NoEntries DEF Spawned, Results, Awaited
  <2>3. Tidy(agent, requests)
    BY <2>1, <2>2, NoEntries DEF Tidy
  <2>4. AtHand
    BY <2>1 DEF AtHand, AtTool, BeforeRequest, AtRequest
  <2> QED BY <2>1, <2>3, <2>4 DEF ToolInv, Logged
<1>2. TypeInv /\ ToolInv /\ [Next]_vars => [pc # "tool" /\ pc' = "tool" => ~Recorded(turn.tool)]_vars
  <2> SUFFICES ASSUME TypeInv, ToolInv, Next, pc # "tool", pc' = "tool" PROVE ~Recorded(turn.tool)
    BY DEF vars
  <2>1. turn.hook # "tool"
    BY DEF TypeInv, TypeOK, Turn, AllHooks
  <2>2. ToolStart
    <3> USE DEF Emit, Resumes, EmitsNext, EndTurn, HookPauses
    <3>1. ASSUME LoopStep PROVE ToolStart
      <4>1. ~(\/ DecideNothing \/ DecideOnStart \/ DecideTool \/ DecideBackOff \/ DecideResume
              \/ DecideInfer \/ DecideComplete \/ Resume)
        BY DEF DecideNothing, DecideOnStart, DecideTool, DecideBackOff, DecideResume, DecideInfer,
               DecideComplete, Resume
      <4>2. ~(\/ HandlerPause \/ OnPauseDone \/ OnStartHooks \/ OnStartDone \/ OnCompleteHooks
              \/ CompleteDone)
        BY DEF HandlerPause, OnPauseDone, OnStartHooks, OnStartDone, OnCompleteHooks, CompleteDone
      <4>3. ~(\/ BeforeInferenceHooks \/ Start \/ LlmResponds \/ LlmFailsRetryably \/ LlmFailsFatally
              \/ Drop \/ Fail \/ OnErrorHooks)
        BY DEF BeforeInferenceHooks, Start, LlmResponds, LlmFailsRetryably, LlmFailsFatally, Drop, Fail,
               OnErrorHooks
      <4>4. ~(AfterInferenceHooks \/ Retry \/ Commit \/ Consume)
        BY DEF AfterInferenceHooks, Retry, Commit, Consume, AfterConsume
      <4>5. ~(BeforeToolCallHooks \/ ToolReturns \/ ToolDone)
        BY DEF BeforeToolCallHooks, ToolReturns, ToolDone
      <4>6. ~AppendFails
        BY <2>1 DEF AppendFails
      <4> QED BY <3>1, <4>1, <4>2, <4>3, <4>4, <4>5, <4>6 DEF LoopStep
    <3>2. ~(WakeStep \/ (\E m \in Messages : Send(m) \/ SendStep(m)))
      BY DEF WakeStep, DebounceFires, DebounceCheck, BackoffElapses, RetryFires, Send, SendStep, MessageStored,
             SendSchedules
    <3>3. ~(OperatorCall \/ OperatorStep \/ Crash \/ Restart)
      BY DEF OperatorCall, OperatorStep, CallPause, CallResume, CallRewind, Calls, OperationApplied,
             OperationReturns, Continue, Crash, Restart
    <3> QED BY <3>1, <3>2, <3>3 DEF Next
  <2>3. turn.tool \notin Results(agent)
    BY <2>2 DEF ToolStart, ToolInv, AtHand, AtTool
  <2>4. ASSUME NEW i \in DOMAIN agent.history, agent.history[i] = ToolEntry(turn.tool)
        PROVE  turn.tool \in ToolsIn(agent.history)
    BY <2>4 DEF ToolsIn, ToolEntry, Range
  <2> QED BY <2>3, <2>4 DEF Recorded, Results
<1>3. Spec => []StatusInv
  BY StatusInvariant
<1> QED BY <1>1, <1>2, <1>3, StepTools, TypeCorrect, PTL DEF Spec, ToolRunsUntilRecorded

-----------------------------------------------------------------------------
(* Messages leave the mailbox once the history holds them *)

AtReply == pc \in {"llm", "afterInference", "commit"}

(* A turn's messages are staged until it is committed, and then in the history. *)
CommittedInv ==
  /\ AtReply => turn.input.msgs \subseteq MessagesIn(agent.pendingMessages)
  /\ pc = "consume" => turn.input.msgs \subseteq MessagesIn(agent.history)
  /\ operator.call # "agents.rewind"

LEMMA MessagesInConcat ==
  ASSUME NEW s \in Seq(Entry), NEW t \in Seq(Entry)
  PROVE  MessagesIn(s \o t) = MessagesIn(s) \union MessagesIn(t)
<1>1. \A u : MessagesIn(u) = UNION {e.msgs : e \in Range(u)}
  BY DEF MessagesIn, Range
<1>2. Range(s \o t) = Range(s) \union Range(t)
  BY RangeConcatenation
<1> QED BY <1>1, <1>2

LEMMA StagedMessages ==
  ASSUME NEW input \in Input
  PROVE  input.msgs \subseteq MessagesIn(Staged(input))
<1> DEFINE s == [i \in DOMAIN input.results |-> ToolEntry(input.results[i])]
           e == UserEntry(input.msgs)
<1>1. CASE input.msgs = {}
  BY <1>1
<1>2. CASE input.msgs # {}
  <2>1. Staged(input) = s \o <<e>>
    BY <1>2 DEF Staged
  <2>2. s \in Seq(Entry)
    <3>1. /\ DOMAIN input.results = 1..Len(input.results) /\ Len(input.results) \in Nat
          /\ \A i \in 1..Len(input.results) : input.results[i] \in ToolCall
      BY LenProperties, ElementOfSeq DEF Input
    <3>2. \A i \in 1..Len(input.results) : ToolEntry(input.results[i]) \in Entry
      BY <3>1 DEF ToolEntry, Entry
    <3> QED BY <3>1, <3>2, IsASeq
  <2>3. e \in Entry /\ e.msgs = input.msgs
    BY DEF UserEntry, Entry, Input
  <2>5. <<e>> \in Seq(Entry)
    BY <2>3
  <2> HIDE DEF s, e
  <2>4. MessagesIn(<<e>>) = e.msgs
    BY DEF MessagesIn
  <2>6. MessagesIn(s \o <<e>>) = MessagesIn(s) \union MessagesIn(<<e>>)
    BY <2>2, <2>5, MessagesInConcat
  <2> QED BY <2>1, <2>3, <2>4, <2>6
<1> QED BY <1>1, <1>2

LEMMA NoRewindCalled ==
  ASSUME "agents.rewind" \notin Operations, TypeInv, operator.call # "agents.rewind", [Next]_vars
  PROVE  operator'.call # "agents.rewind"
<1> USE DEF NoOperation
<1>1. CASE LoopStep
  <2>1. CASE \/ DecideNothing \/ DecideOnStart \/ DecideTool \/ DecideBackOff \/ DecideResume
             \/ DecideInfer \/ DecideComplete \/ Resume \/ HandlerPause \/ OnPauseDone
             \/ OnStartHooks \/ OnStartDone \/ OnCompleteHooks \/ CompleteDone
    BY <2>1 DEF DecideNothing, DecideOnStart, DecideTool, DecideBackOff, DecideResume, DecideInfer,
                DecideComplete, Resume, HandlerPause, OnPauseDone, OnStartHooks, OnStartDone,
                OnCompleteHooks, CompleteDone, HookPauses
  <2>2. CASE \/ BeforeInferenceHooks \/ Start \/ LlmResponds \/ LlmFailsRetryably \/ LlmFailsFatally
             \/ Drop \/ Fail \/ OnErrorHooks
    BY <2>2 DEF BeforeInferenceHooks, Start, LlmResponds, LlmFailsRetryably, LlmFailsFatally, Drop, Fail,
                OnErrorHooks, HookPauses
  <2>3. CASE \/ AfterInferenceHooks \/ Retry \/ Commit \/ Consume
             \/ BeforeToolCallHooks \/ ToolStart \/ ToolReturns \/ ToolDone \/ AppendFails
    BY <2>3 DEF AfterInferenceHooks, Retry, Commit, Consume, BeforeToolCallHooks, ToolStart, ToolReturns,
                ToolDone, AppendFails, HookPauses
  <2> QED BY <1>1, <2>1, <2>2, <2>3 DEF LoopStep
<1>2. CASE WakeStep \/ (\E m \in Messages : Send(m) \/ SendStep(m))
  BY <1>2 DEF WakeStep, DebounceFires, DebounceCheck, BackoffElapses, RetryFires, Send, SendStep,
              MessageStored, SendSchedules
<1>3. CASE OperatorCall
  <2>1. ~(\E start \in 0..Len(agent.history) : CallRewind(start))
    BY DEF CallRewind, Calls
  <2>2. PICK op \in Operations : CallPause(op) \/ CallResume(op)
    BY <1>3, <2>1 DEF OperatorCall
  <2>3. operator'.call = op
    BY <2>2 DEF CallPause, CallResume, Calls
  <2> QED BY <2>2, <2>3
<1>4. CASE OperatorStep
  <2>1. operator \in [call : AllOperations \union {"none"}, start : Nat, count : Nat, applied : BOOLEAN]
    BY DEF TypeInv, TypeOK
  <2>2. operator' \in {NoOperation, [operator EXCEPT !.applied = TRUE]}
    BY <1>4 DEF OperatorStep, OperationApplied, OperationReturns
  <2> QED BY <2>1, <2>2
<1>5. CASE Crash \/ Restart \/ UNCHANGED vars
  BY <1>5 DEF Crash, Restart, vars
<1> QED BY <1>1, <1>2, <1>3, <1>4, <1>5 DEF Next

(* What an event that stages, commits or drops nothing leaves alone. *)
LEMMA MessagesKept ==
  ASSUME NEW a \in Agent
  PROVE  /\ AgentPaused(a).pendingMessages = a.pendingMessages
         /\ AgentResumed(a).pendingMessages = a.pendingMessages
  BY DEF AgentPaused, AgentResumed, Agent

LEMMA StartCommits ==
  ASSUME TypeInv, Start
  PROVE  turn'.input.msgs \subseteq MessagesIn(agent'.pendingMessages)
<1>1. agent \in Agent /\ turn \in Turn
  BY DEF TypeInv, TypeOK
<1>2. agent.pendingMessages \in Seq(Entry) /\ turn.input \in Input /\ Staged(turn.input) \in Seq(Entry)
  BY <1>1, StagedType DEF Agent, Turn
<1>3. agent'.pendingMessages = agent.pendingMessages \o Staged(turn.input)
  BY <1>1 DEF Start, InferenceStarted, Agent
<1>4. MessagesIn(agent.pendingMessages \o Staged(turn.input))
        = MessagesIn(agent.pendingMessages) \union MessagesIn(Staged(turn.input))
  BY <1>2, MessagesInConcat
<1>5. turn'.input = turn.input
  <2>1. CASE turn' = turn
    BY <2>1
  <2>2. CASE turn' # turn
    BY <1>1, <2>2 DEF Start, Turn
  <2> QED BY <2>1, <2>2
<1> QED BY <1>2, <1>3, <1>4, <1>5, StagedMessages

LEMMA CommitCommits ==
  ASSUME TypeInv, CommittedInv, Commit
  PROVE  turn.input.msgs \subseteq MessagesIn(agent'.history)
<1>1. agent \in Agent
  BY DEF TypeInv, TypeOK
<1> DEFINE e == AssistantEntry(Range(ToolCalls(turn.response)))
<1>2. agent.history \in Seq(Entry) /\ agent.pendingMessages \in Seq(Entry) /\ <<e>> \in Seq(Entry)
  <2>1. turn.response \in Response
    BY DEF TypeInv, TypeOK, Turn
  <2>2. e \in Entry
    BY <2>1, ToolCallsType DEF AssistantEntry, Entry
  <2> QED BY <1>1, <2>2 DEF Agent
<1>3. agent'.history = agent.history \o agent.pendingMessages \o <<e>>
  BY <1>1 DEF Commit, InferenceCompleted, Agent
<1> HIDE DEF e
<1>4. /\ agent.history \o agent.pendingMessages \in Seq(Entry)
      /\ MessagesIn(agent.history \o agent.pendingMessages)
           = MessagesIn(agent.history) \union MessagesIn(agent.pendingMessages)
  BY <1>2, ConcatProperties, MessagesInConcat
<1>5. MessagesIn(agent.history \o agent.pendingMessages \o <<e>>)
        = MessagesIn(agent.history \o agent.pendingMessages) \union MessagesIn(<<e>>)
  BY <1>2, <1>4, MessagesInConcat
<1>6. turn.input.msgs \subseteq MessagesIn(agent.pendingMessages)
  BY DEF Commit, CommittedInv, AtReply
<1> QED BY <1>3, <1>4, <1>5, <1>6

LEMMA LoopCommits ==
  ASSUME TypeInv, CommittedInv, LoopStep, operator'.call # "agents.rewind"
  PROVE  CommittedInv'
<1>1. agent \in Agent /\ turn \in Turn
  BY DEF TypeInv, TypeOK
<1>2. CASE Start
  <2>1. pc' \in {"llm", "afterInference"}
    BY <1>2 DEF Start, Resumes
  <2> QED BY <1>2, <2>1, StartCommits DEF CommittedInv
<1>3. CASE LlmResponds
  <2>1. pc = "llm" /\ pc' = "afterInference" /\ agent' = agent
    BY <1>3 DEF LlmResponds
  <2>2. turn'.input = turn.input
    BY <1>1, <1>3 DEF LlmResponds, Turn
  <2> QED BY <2>1, <2>2 DEF CommittedInv, AtReply
<1>4. CASE AfterInferenceHooks
  <2>1. pc = "afterInference" /\ pc' \in {"commit", "retry"} /\ agent' = agent
    BY <1>4 DEF AfterInferenceHooks, Emit, durable
  <2>2. turn' = turn \/ turn' = [turn EXCEPT !.hook = "afterInference"]
    BY <1>4 DEF AfterInferenceHooks
  <2>3. turn'.input = turn.input
    <3>1. CASE turn' = turn
      BY <3>1
    <3>2. CASE turn' = [turn EXCEPT !.hook = "afterInference"]
      BY <1>1, <3>2, HookKeepsTurn
    <3> QED BY <2>2, <3>1, <3>2
  <2> QED BY <2>1, <2>3 DEF CommittedInv, AtReply
<1>5. CASE Commit
  <2>1. pc' \in {"consume", "pause", "top"} /\ (pc' = "consume" => turn' = turn)
    BY <1>5 DEF Commit, AfterConsume, EmitsNext, Resumes
  <2> QED BY <1>5, <2>1, CommitCommits DEF CommittedInv, AtReply
<1>6. CASE ~(Start \/ LlmResponds \/ AfterInferenceHooks \/ Commit)
  <2> USE DEF Emit, Resumes, EmitsNext, EndTurn, HookPauses
  <2> DEFINE Elsewhere == pc' \notin {"llm", "afterInference", "commit", "consume"}
  <2>1. (\/ DecideNothing \/ DecideOnStart \/ DecideTool \/ DecideBackOff \/ DecideResume
         \/ DecideInfer \/ DecideComplete \/ Resume) => Elsewhere
    BY DEF DecideNothing, DecideOnStart, DecideTool, DecideBackOff, DecideResume, DecideInfer,
           DecideComplete, Resume
  <2>2. (\/ HandlerPause \/ OnPauseDone \/ OnStartHooks \/ OnStartDone \/ OnCompleteHooks
         \/ CompleteDone) => Elsewhere
    BY DEF HandlerPause, OnPauseDone, OnStartHooks, OnStartDone, OnCompleteHooks, CompleteDone
  <2>3. (\/ BeforeInferenceHooks \/ LlmFailsRetryably \/ LlmFailsFatally
         \/ Drop \/ Fail \/ OnErrorHooks) => Elsewhere
    BY DEF BeforeInferenceHooks, LlmFailsRetryably, LlmFailsFatally, Drop, Fail, OnErrorHooks
  <2>4. Retry \/ Consume => Elsewhere
    BY DEF Retry, Consume, AfterConsume
  <2>5. (BeforeToolCallHooks \/ ToolStart \/ ToolReturns \/ ToolDone) => Elsewhere
    BY DEF BeforeToolCallHooks, ToolStart, ToolReturns, ToolDone
  <2>6. AppendFails => Elsewhere
    BY DEF AppendFails
  <2>7. Elsewhere
    BY <1>6, <2>1, <2>2, <2>3, <2>4, <2>5, <2>6 DEF LoopStep
  <2> QED BY <2>7 DEF CommittedInv, AtReply
<1> QED BY <1>2, <1>3, <1>4, <1>5, <1>6

LEMMA StepCommits ==
  ASSUME "agents.rewind" \notin Operations, TypeInv, CommittedInv, [Next]_vars
  PROVE  CommittedInv'
<1>1. agent \in Agent /\ operator.call # "agents.rewind"
  BY DEF TypeInv, TypeOK, CommittedInv
<1>2. operator'.call # "agents.rewind"
  BY <1>1, NoRewindCalled
<1>3. CASE LoopStep
  BY <1>2, <1>3, LoopCommits
<1>4. CASE Crash \/ Restart
  <2>1. pc' \notin {"llm", "afterInference", "commit", "consume"}
    BY <1>4 DEF Crash, Restart
  <2> QED BY <1>2, <2>1 DEF CommittedInv, AtReply
<1>5. CASE ~(LoopStep \/ Crash \/ Restart)
  <2>1. /\ turn' = turn /\ pc' \in {pc, "top"}
        /\ agent' \in {agent, AgentPaused(agent), AgentResumed(agent)}
    <3>1. CASE WakeStep
      BY <3>1 DEF WakeStep, DebounceFires, DebounceCheck, BackoffElapses, RetryFires, durable
    <3>2. CASE \E m \in Messages : Send(m) \/ SendStep(m)
      BY <3>2 DEF Send, SendStep, MessageStored, SendSchedules, durable
    <3>3. CASE OperatorCall
      BY <3>3 DEF OperatorCall, CallPause, CallResume, CallRewind, Calls, durable
    <3>4. CASE OperatorStep
      BY <1>1, <3>4 DEF OperatorStep, OperationApplied, OperationReturns, Continue, durable
    <3>5. CASE UNCHANGED vars
      BY <3>5 DEF vars, durable
    <3> QED BY <1>5, <3>1, <3>2, <3>3, <3>4, <3>5 DEF Next
  <2>2. agent'.pendingMessages = agent.pendingMessages /\ agent'.history = agent.history
    BY <1>1, <2>1, MessagesKept, HistoryKept
  <2> QED BY <1>2, <2>1, <2>2 DEF CommittedInv, AtReply
<1> QED BY <1>3, <1>4, <1>5

(***************************************************************************)
(* Without rewinds, a message is removed from the mailbox only after the   *)
(* history came to hold it, or when the provider refused for good the      *)
(* request that carried it: what a turn consumes is what it committed, and *)
(* what it drops is what it sent, whatever arrived meanwhile and whichever *)
(* appends were refused.                                                   *)
(***************************************************************************)
THEOREM ConsumedOnceCommittedHolds ==
  ASSUME "agents.rewind" \notin Operations
  PROVE  Spec => ConsumedOnceCommitted
<1>1. Init => CommittedInv
  BY DEF Init, NoOperation, CommittedInv, AtReply
<1>2. TypeInv /\ CommittedInv /\ [Next]_vars => CommittedInv'
  BY StepCommits
<1>3. TypeInv /\ CommittedInv /\ [Next]_vars =>
        [\A m \in mailbox \ mailbox' : m \in MessagesIn(agent.history)
                                      \/ (pc = "drop" /\ m \in turn.input.msgs)]_vars
  <2> SUFFICES ASSUME CommittedInv, Next, NEW m \in mailbox \ mailbox'
               PROVE  m \in MessagesIn(agent.history) \/ (pc = "drop" /\ m \in turn.input.msgs)
    BY DEF vars
  <2>1. Consume \/ Drop
    <3>1. CASE LoopStep
      <4>1. ~(\/ DecideNothing \/ DecideOnStart \/ DecideTool \/ DecideBackOff \/ DecideResume
              \/ DecideInfer \/ DecideComplete \/ Resume \/ HandlerPause \/ OnPauseDone
              \/ OnStartHooks \/ OnStartDone \/ OnCompleteHooks \/ CompleteDone)
        BY DEF DecideNothing, DecideOnStart, DecideTool, DecideBackOff, DecideResume, DecideInfer,
               DecideComplete, Resume, HandlerPause, OnPauseDone, OnStartHooks, OnStartDone,
               OnCompleteHooks, CompleteDone, HookPauses, durable
      <4>2. ~(\/ BeforeInferenceHooks \/ Start \/ LlmResponds \/ LlmFailsRetryably \/ LlmFailsFatally
              \/ Fail \/ OnErrorHooks)
        BY DEF BeforeInferenceHooks, Start, LlmResponds, LlmFailsRetryably, LlmFailsFatally, Fail,
               OnErrorHooks, HookPauses, durable
      <4>3. ~(AfterInferenceHooks \/ Retry \/ Commit \/ BeforeToolCallHooks \/ ToolStart \/ ToolReturns
              \/ ToolDone \/ AppendFails)
        BY DEF AfterInferenceHooks, Retry, Commit, BeforeToolCallHooks, ToolStart, ToolReturns, ToolDone,
               AppendFails, HookPauses, durable
      <4> QED BY <3>1, <4>1, <4>2, <4>3 DEF LoopStep
    <3>2. ~(WakeStep \/ (\E k \in Messages : Send(k) \/ SendStep(k)))
      BY DEF WakeStep, DebounceFires, DebounceCheck, BackoffElapses, RetryFires, Send, SendStep,
             MessageStored, SendSchedules, durable
    <3>3. ~(OperatorCall \/ OperatorStep \/ Crash \/ Restart)
      BY DEF OperatorCall, OperatorStep, CallPause, CallResume, CallRewind, Calls, OperationApplied,
             OperationReturns, Crash, Restart, durable
    <3> QED BY <3>1, <3>2, <3>3 DEF Next
  <2>2. CASE Consume
    BY <2>2 DEF Consume, Consumed, CommittedInv
  <2>3. CASE Drop
    BY <2>3 DEF Drop, Consumed
  <2> QED BY <2>1, <2>2, <2>3
<1> QED BY <1>1, <1>2, <1>3, TypeCorrect, PTL DEF Spec, ConsumedOnceCommitted

-----------------------------------------------------------------------------
(* How often a sequence of entries renders a message *)

Occ(m, entries) == Cardinality({i \in DOMAIN entries : m \in entries[i].msgs})

LEMMA OccFinite ==
  ASSUME NEW m, NEW s \in Seq(Entry)
  PROVE  /\ IsFiniteSet({i \in DOMAIN s : m \in s[i].msgs})
         /\ Occ(m, s) \in Nat
<1> DEFINE I == {i \in DOMAIN s : m \in s[i].msgs}
<1>1. Len(s) \in Nat /\ DOMAIN s = 1..Len(s)
  BY LenProperties
<1>2. IsFiniteSet(1..Len(s))
  BY <1>1, FS_Interval
<1>3. I \in SUBSET (1..Len(s))
  BY <1>1
<1>4. IsFiniteSet(I)
  BY <1>2, <1>3, FS_Subset
<1> HIDE DEF I
<1>5. Cardinality(I) \in Nat
  BY <1>4, FS_CardinalityType
<1> QED BY <1>4, <1>5 DEF I, Occ

LEMMA OccNone ==
  ASSUME NEW m, NEW s, \A i \in DOMAIN s : m \notin s[i].msgs
  PROVE  Occ(m, s) = 0
<1>1. {i \in DOMAIN s : m \in s[i].msgs} = {}
  OBVIOUS
<1> QED BY <1>1, FS_EmptySet DEF Occ

LEMMA OccOne ==
  ASSUME NEW m, NEW e
  PROVE  Occ(m, <<e>>) = IF m \in e.msgs THEN 1 ELSE 0
<1>1. CASE m \in e.msgs
  <2>1. {i \in DOMAIN <<e>> : m \in <<e>>[i].msgs} = {1}
    BY <1>1
  <2>2. Cardinality({1}) = 1
    BY FS_Singleton
  <2> QED BY <1>1, <2>1, <2>2 DEF Occ
<1>2. CASE m \notin e.msgs
  <2>1. \A i \in DOMAIN <<e>> : m \notin <<e>>[i].msgs
    BY <1>2
  <2> QED BY <1>2, <2>1, OccNone
<1> QED BY <1>1, <1>2

LEMMA OccConcat ==
  ASSUME NEW m, NEW s \in Seq(Entry), NEW t \in Seq(Entry)
  PROVE  Occ(m, s \o t) = Occ(m, s) + Occ(m, t)
<1> DEFINE n == Len(s)
           k == Len(t)
           u == s \o t
           I == {i \in 1..n : m \in s[i].msgs}
           J == {i \in 1..k : m \in t[i].msgs}
           K == {i + n : i \in J}
<1>1. /\ n \in Nat /\ DOMAIN s = 1..n
      /\ k \in Nat /\ DOMAIN t = 1..k
  BY LenProperties
<1>2. /\ u \in Seq(Entry) /\ Len(u) = n + k
      /\ \A i \in 1..(n + k) : u[i] = IF i <= n THEN s[i] ELSE t[i - n]
  BY ConcatProperties
<1>3. DOMAIN u = 1..(n + k)
  BY <1>2, LenProperties
<1> HIDE DEF n, k, u
<1>4. {i \in DOMAIN u : m \in u[i].msgs} = I \union K
  <2>1. ASSUME NEW i \in 1..(n + k), m \in u[i].msgs PROVE i \in I \union K
    <3>1. CASE i <= n
      BY <1>1, <1>2, <2>1, <3>1
    <3>2. CASE ~(i <= n)
      <4>1. i - n \in 1..k /\ (i - n) + n = i
        BY <1>1, <3>2
      <4>2. m \in t[i - n].msgs
        BY <1>2, <2>1, <3>2
      <4> QED BY <4>1, <4>2
    <3> QED BY <3>1, <3>2
  <2>2. ASSUME NEW i \in I PROVE i \in 1..(n + k) /\ m \in u[i].msgs
    BY <1>1, <1>2
  <2>3. ASSUME NEW j \in J PROVE j + n \in 1..(n + k) /\ m \in u[j + n].msgs
    <3>1. j + n \in 1..(n + k) /\ ~(j + n <= n) /\ (j + n) - n = j
      BY <1>1
    <3> QED BY <1>2, <3>1
  <2> QED BY <1>3, <2>1, <2>2, <2>3
<1>5. /\ IsFiniteSet(I) /\ Cardinality(I) = Occ(m, s)
      /\ IsFiniteSet(J) /\ Cardinality(J) = Occ(m, t)
  BY <1>1, OccFinite DEF Occ
<1>6. IsFiniteSet(K) /\ Cardinality(K) = Cardinality(J)
  <2> DEFINE f == [j \in J |-> j + n]
  <2>1. f \in Bijection(J, K)
    <3>1. \A i, j \in J : i + n = j + n => i = j
      BY <1>1
    <3> QED BY <3>1 DEF Bijection, Injection, Surjection, IsInjective
  <2>2. ExistsBijection(J, K)
    BY <2>1 DEF ExistsBijection
  <2> HIDE DEF J, K
  <2> QED BY <1>5, <2>2, FS_Bijection
<1>7. I \cap K = {}
  BY <1>1
<1> HIDE DEF I, J, K
<1>8. Cardinality(I \union K) = Cardinality(I) + Cardinality(K) - Cardinality(I \cap K)
  BY <1>5, <1>6, FS_Union
<1>9. Cardinality(I \cap K) = 0
  BY <1>7, FS_EmptySet
<1>10. Cardinality(I) \in Nat /\ Cardinality(K) \in Nat
  BY <1>5, <1>6, FS_CardinalityType
<1>11. Occ(m, u) = Cardinality(I \union K)
  BY <1>4 DEF Occ
<1> QED BY <1>5, <1>6, <1>8, <1>9, <1>10, <1>11 DEF u

LEMMA OccPart ==
  ASSUME NEW m, NEW s \in Seq(Entry), NEW start \in Nat, NEW count \in Nat, start <= Len(s)
  PROVE  LET t == SubSeq(s, 1, start) \o SubSeq(s, start + count + 1, Len(s))
         IN  t \in Seq(Entry) /\ Occ(m, t) <= Occ(m, s)
<1> DEFINE n == Len(s)
           A == SubSeq(s, 1, start)
           B == SubSeq(s, start + 1, start + count)
           C == SubSeq(s, start + count + 1, n)
           R == SubSeq(s, start + 1, n)
<1>1. n \in Nat
  BY LenProperties
<1>2. A \in Seq(Entry) /\ C \in Seq(Entry) /\ R \in Seq(Entry)
  <2>1. start + count + 1 \in Nat \ {0} /\ start + 1 \in Nat \ {0} /\ n <= Len(s)
    BY <1>1
  <2> HIDE DEF n
  <2> QED BY <1>1, <2>1, RangeOfPart
<1>3. A \o R = s
  <2>1. 1 \in 1..n+1 /\ start \in (1 - 1)..n /\ n \in start..n
    BY <1>1
  <2>2. A \o R = SubSeq(s, 1, n)
    BY <2>1, ConcatAdjacentSubSeq
  <2> QED BY <2>2, SubSeqFull
<1>4. Occ(m, C) <= Occ(m, R)
  <2>1. CASE start + count <= n
    <3>1. start + 1 \in 1..n+1 /\ start + count \in ((start + 1) - 1)..n /\ n \in (start + count)..n
      BY <1>1, <2>1
    <3>2. B \o C = R
      BY <3>1, ConcatAdjacentSubSeq
    <3>3. B \in Seq(Entry)
      <4>1. start + 1 \in Nat \ {0} /\ start + count \in Nat
        OBVIOUS
      <4> QED BY <2>1, <4>1, RangeOfPart
    <3> HIDE DEF B, C, R
    <3>4. Occ(m, B \o C) = Occ(m, B) + Occ(m, C) /\ Occ(m, B) \in Nat /\ Occ(m, C) \in Nat
      BY <1>2, <3>3, OccConcat, OccFinite
    <3> QED BY <3>2, <3>4
  <2>2. CASE ~(start + count <= n)
    <3>1. C = <<>>
      <4>1. start + count + 1 \in Int /\ n \in Int /\ n < start + count + 1
        BY <1>1, <2>2
      <4> QED BY <4>1, SubSeqEmpty
    <3> HIDE DEF C, R
    <3>2. Occ(m, C) = 0
      BY <3>1, OccNone
    <3>3. Occ(m, R) \in Nat
      BY <1>2, OccFinite
    <3> QED BY <3>2, <3>3
  <2> QED BY <2>1, <2>2
<1> HIDE DEF A, C, R
<1>5. /\ Occ(m, A \o R) = Occ(m, A) + Occ(m, R) /\ Occ(m, A \o C) = Occ(m, A) + Occ(m, C)
      /\ Occ(m, A) \in Nat /\ Occ(m, C) \in Nat /\ Occ(m, R) \in Nat
  BY <1>2, OccConcat, OccFinite
<1>6. Occ(m, A \o C) <= Occ(m, s)
  BY <1>3, <1>4, <1>5
<1>7. A \o C \in Seq(Entry)
  BY <1>2, ConcatProperties
<1> QED BY <1>6, <1>7 DEF A, C, n

LEMMA OccStaged ==
  ASSUME NEW m, NEW input \in Input
  PROVE  Occ(m, Staged(input)) = IF m \in input.msgs THEN 1 ELSE 0
<1> DEFINE s == [i \in DOMAIN input.results |-> ToolEntry(input.results[i])]
           t == IF input.msgs = {} THEN <<>> ELSE <<UserEntry(input.msgs)>>
<1>1. s \in Seq(Entry)
  <2>1. /\ DOMAIN input.results = 1..Len(input.results) /\ Len(input.results) \in Nat
        /\ \A i \in 1..Len(input.results) : input.results[i] \in ToolCall
    BY LenProperties, ElementOfSeq DEF Input
  <2>2. \A i \in 1..Len(input.results) : ToolEntry(input.results[i]) \in Entry
    BY <2>1 DEF ToolEntry, Entry
  <2> QED BY <2>1, <2>2, IsASeq
<1>2. t \in Seq(Entry)
  <2>1. <<>> \in Seq(Entry)
    BY EmptySeq
  <2>2. UserEntry(input.msgs) \in Entry
    BY DEF UserEntry, Entry, Input
  <2> QED BY <2>1, <2>2
<1>3. Occ(m, s) = 0
  <2>1. \A i \in DOMAIN s : m \notin s[i].msgs
    BY DEF ToolEntry
  <2> HIDE DEF s
  <2> QED BY <2>1, OccNone
<1>4. Occ(m, t) = IF m \in input.msgs THEN 1 ELSE 0
  <2>1. CASE input.msgs = {}
    <3>1. Occ(m, <<>>) = 0
      BY OccNone
    <3> QED BY <2>1, <3>1
  <2>2. CASE input.msgs # {}
    <3>1. UserEntry(input.msgs).msgs = input.msgs
      BY DEF UserEntry
    <3>2. t = <<UserEntry(input.msgs)>>
      BY <2>2
    <3> HIDE DEF t
    <3> QED BY <3>1, <3>2, OccOne
  <2> QED BY <2>1, <2>2
<1>5. Staged(input) = s \o t
  BY DEF Staged
<1> HIDE DEF s, t
<1>6. Occ(m, s \o t) = Occ(m, s) + Occ(m, t)
  BY <1>1, <1>2, OccConcat
<1> QED BY <1>3, <1>4, <1>5, <1>6

(***************************************************************************)
(* What an event other than inference_started and inference_completed does *)
(* to how often a message is in the history and staged: never raise it.    *)
(***************************************************************************)
Fewer(a, b) ==
  \A m \in Messages : /\ Occ(m, b.history) <= Occ(m, a.history)
                      /\ Occ(m, b.pendingMessages) <= Occ(m, a.pendingMessages)

LEMMA OccAgent ==
  ASSUME NEW a \in Agent, NEW m
  PROVE  Occ(m, a.history) \in Nat /\ Occ(m, a.pendingMessages) \in Nat
<1>1. a.history \in Seq(Entry) /\ a.pendingMessages \in Seq(Entry)
  BY DEF Agent
<1> QED BY <1>1, OccFinite

LEMMA OccEmpty == \A m : Occ(m, <<>>) = 0
<1> TAKE m
<1>1. \A i \in DOMAIN <<>> : m \notin <<>>[i].msgs
  OBVIOUS
<1> QED BY <1>1, OccNone

(* An event that keeps the history, and what is staged or drops all of that. *)
LEMMA FewerByParts ==
  ASSUME NEW a \in Agent, NEW b, b.history = a.history, b.pendingMessages \in {a.pendingMessages, <<>>}
  PROVE  Fewer(a, b)
<1> SUFFICES ASSUME NEW m \in Messages
             PROVE  /\ Occ(m, b.history) <= Occ(m, a.history)
                    /\ Occ(m, b.pendingMessages) <= Occ(m, a.pendingMessages)
  BY DEF Fewer
<1>1. Occ(m, a.history) \in Nat /\ Occ(m, a.pendingMessages) \in Nat
  BY OccAgent
<1>2. Occ(m, <<>>) = 0
  BY OccEmpty
<1>3. Occ(m, b.history) <= Occ(m, a.history)
  BY <1>1
<1>4. Occ(m, b.pendingMessages) <= Occ(m, a.pendingMessages)
  BY <1>1, <1>2
<1> QED BY <1>3, <1>4

LEMMA StatusOpsFewer ==
  ASSUME NEW a \in Agent
  PROVE  /\ Fewer(a, a)
         /\ Fewer(a, InferenceFailed(a)) /\ InferenceFailed(a).pendingMessages = <<>>
         /\ Fewer(a, InferenceRetried(a)) /\ InferenceRetried(a).pendingMessages = <<>>
         /\ Fewer(a, AgentPaused(a))
         /\ Fewer(a, AgentResumed(a))
         /\ Fewer(a, OnStartCompleted(a))
         /\ Fewer(a, CompletionHandled(a))
         /\ Fewer(a, SessionRestarted(a))
         /\ \A c : Fewer(a, ToolStarted(a, c)) /\ Fewer(a, ToolFinished(a, c))
<1>1. Fewer(a, a)
  BY FewerByParts
<1>2. /\ InferenceFailed(a).pendingMessages = <<>>
      /\ InferenceRetried(a).pendingMessages = <<>>
  BY DEF InferenceFailed, InferenceRetried, Agent
<1>3. Fewer(a, InferenceFailed(a)) /\ Fewer(a, InferenceRetried(a))
  BY <1>2, HistoryKept, FewerByParts
<1>4. Fewer(a, AgentPaused(a)) /\ Fewer(a, AgentResumed(a))
  BY MessagesKept, HistoryKept, FewerByParts
<1>5. Fewer(a, OnStartCompleted(a)) /\ Fewer(a, CompletionHandled(a))
  <2>1. /\ OnStartCompleted(a).pendingMessages = a.pendingMessages
        /\ CompletionHandled(a).pendingMessages = a.pendingMessages
    BY DEF OnStartCompleted, CompletionHandled, Agent
  <2> QED BY <2>1, HistoryKept, FewerByParts
<1>6. Fewer(a, SessionRestarted(a))
  <2>1. SessionRestarted(a).pendingMessages \in {a.pendingMessages, <<>>}
    BY DEF SessionRestarted, Agent
  <2> QED BY <2>1, HistoryKept, FewerByParts
<1>7. ASSUME NEW c PROVE Fewer(a, ToolStarted(a, c)) /\ Fewer(a, ToolFinished(a, c))
  <2>1. /\ ToolStarted(a, c).pendingMessages = a.pendingMessages
        /\ ToolFinished(a, c).pendingMessages = a.pendingMessages
    BY DEF ToolStarted, ToolFinished, Agent
  <2> QED BY <2>1, HistoryKept, FewerByParts
<1> QED BY <1>1, <1>2, <1>3, <1>4, <1>5, <1>6, <1>7

LEMMA RewoundFewer ==
  ASSUME NEW a \in Agent, NEW start \in Nat, NEW count \in Nat, start <= Len(a.history)
  PROVE  Fewer(a, Rewound(a, start, count))
<1> DEFINE b == Rewound(a, start, count)
<1>1. a.history \in Seq(Entry)
  BY DEF Agent
<1>2. /\ b.history = SubSeq(a.history, 1, start) \o SubSeq(a.history, start + count + 1, Len(a.history))
      /\ b.pendingMessages = <<>>
  BY DEF Rewound, Agent
<1> HIDE DEF b
<1>3. ASSUME NEW m \in Messages
      PROVE  Occ(m, b.history) <= Occ(m, a.history) /\ Occ(m, b.pendingMessages) <= Occ(m, a.pendingMessages)
  <2>1. Occ(m, b.history) <= Occ(m, a.history)
    BY <1>1, <1>2, OccPart
  <2>2. Occ(m, b.pendingMessages) = 0 /\ Occ(m, a.pendingMessages) \in Nat
    BY <1>2, OccEmpty, OccAgent
  <2> QED BY <2>1, <2>2
<1> QED BY <1>3 DEF Fewer, b

LEMMA StartedOcc ==
  ASSUME NEW a \in Agent, NEW m, NEW input \in Input, NEW call
  PROVE  LET b == InferenceStarted(a, Staged(input), call)
         IN  /\ Occ(m, b.history) = Occ(m, a.history)
             /\ Occ(m, b.pendingMessages) = Occ(m, a.pendingMessages) + (IF m \in input.msgs THEN 1 ELSE 0)
<1>1. a.pendingMessages \in Seq(Entry) /\ Staged(input) \in Seq(Entry)
  BY StagedType DEF Agent
<1>2. /\ InferenceStarted(a, Staged(input), call).history = a.history
      /\ InferenceStarted(a, Staged(input), call).pendingMessages = a.pendingMessages \o Staged(input)
  BY DEF InferenceStarted, Agent
<1>3. Occ(m, a.pendingMessages \o Staged(input)) = Occ(m, a.pendingMessages) + Occ(m, Staged(input))
  BY <1>1, OccConcat
<1> QED BY <1>2, <1>3, OccStaged

LEMMA CompletedOcc ==
  ASSUME NEW a \in Agent, NEW m, NEW r \in Response
  PROVE  LET b == InferenceCompleted(a, ToolCalls(r))
         IN  /\ Occ(m, b.history) = Occ(m, a.history) + Occ(m, a.pendingMessages)
             /\ Occ(m, b.pendingMessages) = 0
<1> DEFINE e == AssistantEntry(Range(ToolCalls(r)))
           b == InferenceCompleted(a, ToolCalls(r))
<1>1. /\ b.history = a.history \o a.pendingMessages \o <<e>>
      /\ b.pendingMessages = <<>>
  BY DEF InferenceCompleted, Agent
<1>2. <<e>> \in Seq(Entry) /\ e.msgs = {}
  <2>1. e \in Entry
    BY ToolCallsType DEF AssistantEntry, Entry
  <2> QED BY <2>1 DEF AssistantEntry
<1> HIDE DEF e, b
<1>3. a.history \in Seq(Entry) /\ a.pendingMessages \in Seq(Entry)
  BY DEF Agent
<1>4. /\ a.history \o a.pendingMessages \in Seq(Entry)
      /\ Occ(m, a.history \o a.pendingMessages) = Occ(m, a.history) + Occ(m, a.pendingMessages)
  BY <1>3, ConcatProperties, OccConcat
<1>5. Occ(m, a.history \o a.pendingMessages \o <<e>>) = Occ(m, a.history \o a.pendingMessages) + Occ(m, <<e>>)
  BY <1>2, <1>4, OccConcat
<1>6. Occ(m, <<e>>) = 0
  BY <1>2, OccOne
<1>7. Occ(m, a.history) \in Nat /\ Occ(m, a.pendingMessages) \in Nat
  BY OccAgent
<1>8. Occ(m, b.history) = Occ(m, a.history) + Occ(m, a.pendingMessages)
  BY <1>1, <1>4, <1>5, <1>6, <1>7
<1> QED BY <1>1, <1>8, OccEmpty DEF b

-----------------------------------------------------------------------------
(* Messages in the mailbox, on their way, and in the history *)

InHistory(m) == Occ(m, agent.history)
InPending(m) == Occ(m, agent.pendingMessages)

(* The turn staged the message, or is about to take it out of the mailbox. *)
OnItsWay(m) ==
  /\ pc \in {"llm", "afterInference", "commit", "retry", "drop", "fail", "consume"}
  /\ m \in turn.input.msgs
Consuming(m) == pc = "consume" /\ m \in turn.input.msgs

AtInput ==
  \/ pc \in {"beforeInference", "start", "llm", "afterInference", "commit", "retry", "drop", "consume"}
  \/ pc = "pause" /\ turn.hook = "beforeInference"

(* What is still in the mailbox will be staged once more: there is a fault for each of the *)
(* times it was staged before.                                                             *)
OncePerFault(m) ==
  /\ InHistory(m) + InPending(m) <= Faults + 1
  /\ m \in mailbox /\ ~Consuming(m) => InHistory(m) <= Faults
  /\ m \in mailbox /\ ~OnItsWay(m) => InHistory(m) + InPending(m) <= Faults
  /\ sends[m] \in {"unsent", "queued"} => m \notin mailbox /\ InHistory(m) + InPending(m) = 0

(* A send under way is in the queue once. *)
QueuedOnce(q, s) ==
  \A i \in 1..Len(q) : q[i] \in Messages =>
     /\ s[q[i]] = "queued"
     /\ \A j \in 1..Len(q) : q[i] = q[j] => i = j

MailInv ==
  /\ AtInput => turn.input.msgs \subseteq mailbox
  /\ \A m \in Messages : OncePerFault(m)

DeliveryInv == Faults >= 0 /\ MailInv /\ QueuedOnce(queue, sends)

(* Faults are counted by what is left of the budgets. *)
LEMMA FaultsCount ==
  ASSUME TypeInv
  PROVE  /\ Faults \in Int
         /\ budget' = budget => Faults' = Faults
         /\ \A kind \in {"toolTurns", "retryable", "fatal", "pauses", "hookRetries",
                        "appendFailures", "rewinds", "crashes"} : Spend(kind) =>
              Faults' = IF kind \in {"crashes", "appendFailures"} THEN Faults + 1 ELSE Faults
<1>1. budget \in Budgets /\ Budget \in Budgets
  BY ConstantsAssumption DEF TypeInv, TypeOK
<1>2. Faults \in Int
  BY <1>1 DEF Faults, Budgets
<1>3. budget' = budget => Faults' = Faults
  BY DEF Faults
<1>4. ASSUME NEW kind \in {"toolTurns", "retryable", "fatal", "pauses", "hookRetries",
                          "appendFailures", "rewinds", "crashes"}, Spend(kind)
      PROVE  Faults' = IF kind \in {"crashes", "appendFailures"} THEN Faults + 1 ELSE Faults
  <2>1. budget' = [budget EXCEPT ![kind] = @ - 1]
    BY <1>4 DEF Spend
  <2>2. CASE kind = "crashes"
    <3>1. budget'.crashes = budget.crashes - 1 /\ budget'.appendFailures = budget.appendFailures
      BY <1>1, <2>1, <2>2 DEF Budgets
    <3> QED BY <1>1, <2>2, <3>1 DEF Faults, Budgets
  <2>3. CASE kind = "appendFailures"
    <3>1. budget'.crashes = budget.crashes /\ budget'.appendFailures = budget.appendFailures - 1
      BY <1>1, <2>1, <2>3 DEF Budgets
    <3> QED BY <1>1, <2>3, <3>1 DEF Faults, Budgets
  <2>4. CASE kind \notin {"crashes", "appendFailures"}
    <3>1. budget'.crashes = budget.crashes /\ budget'.appendFailures = budget.appendFailures
      BY <1>1, <2>1, <2>4 DEF Budgets
    <3> QED BY <1>1, <2>4, <3>1 DEF Faults, Budgets
  <2> QED BY <2>2, <2>3, <2>4
<1> QED BY <1>2, <1>3, <1>4

(* The arithmetic of a step that raises no count. *)
LEMMA CountsGoDown ==
  ASSUME NEW h \in Nat, NEW p \in Nat, NEW f \in Int, NEW h2 \in Nat, NEW p2 \in Nat, NEW f2 \in Int,
         h2 <= h, p2 <= p, f <= f2,
         h + p <= f + 1
  PROVE  /\ h2 + p2 <= f2 + 1
         /\ h + p <= f => h2 + p2 <= f2
         /\ h <= f => h2 <= f2
         /\ f2 >= f + 1 => h2 + p2 <= f2 /\ h2 <= f2
         /\ p2 = 0 /\ h <= f => h2 + p2 <= f2
         /\ h + p = 0 => h2 + p2 = 0
  OBVIOUS

(* A message that stays in the mailbox and is no longer on its way was unstaged, or a fault *)
(* pays for its being staged once more.                                                     *)
LEMMA GoingOnDelivers ==
  ASSUME TypeInv, DeliveryInv, agent' \in Agent, Fewer(agent, agent'),
         Faults' \in Int, Faults <= Faults', mailbox' \subseteq mailbox,
         NEW m \in Messages,
         sends'[m] \in {"unsent", "queued"} => sends[m] \in {"unsent", "queued"},
         m \in mailbox' /\ Consuming(m) => Consuming(m)' \/ Faults' >= Faults + 1,
         m \in mailbox' /\ OnItsWay(m) =>
           \/ OnItsWay(m)'
           \/ Faults' >= Faults + 1
           \/ agent'.pendingMessages = <<>> /\ ~Consuming(m)
  PROVE  OncePerFault(m)'
<1> DEFINE h == Occ(m, agent.history)
           p == Occ(m, agent.pendingMessages)
           h2 == Occ(m, agent'.history)
           p2 == Occ(m, agent'.pendingMessages)
           f == Faults
           f2 == Faults'
<1>1. h \in Nat /\ p \in Nat /\ h2 \in Nat /\ p2 \in Nat
  BY OccAgent DEF TypeInv, TypeOK
<1>2. h2 <= h /\ p2 <= p
  BY DEF Fewer
<1>3. Faults \in Int
  BY FaultsCount
<1>4. /\ h + p <= Faults + 1
      /\ m \in mailbox /\ ~Consuming(m) => h <= Faults
      /\ m \in mailbox /\ ~OnItsWay(m) => h + p <= Faults
      /\ sends[m] \in {"unsent", "queued"} => m \notin mailbox /\ h + p = 0
  BY DEF DeliveryInv, MailInv, OncePerFault, InHistory, InPending
<1>5. agent'.pendingMessages = <<>> => p2 = 0
  BY OccEmpty
<1>6. f \in Int /\ f2 \in Int /\ f <= f2 /\ h + p <= f + 1
  BY <1>3, <1>4
<1>7. /\ m \in mailbox /\ ~Consuming(m) => h <= f
      /\ m \in mailbox /\ ~OnItsWay(m) => h + p <= f
      /\ m \in mailbox' => m \in mailbox
      /\ m \in mailbox' /\ Consuming(m) => Consuming(m)' \/ f2 >= f + 1
      /\ m \in mailbox' /\ OnItsWay(m) =>
           OnItsWay(m)' \/ f2 >= f + 1 \/ (p2 = 0 /\ ~Consuming(m))
  BY <1>4, <1>5
<1> HIDE DEF h, p, h2, p2, f, f2
<1>8. /\ h2 + p2 <= f2 + 1
      /\ h + p <= f => h2 + p2 <= f2
      /\ h <= f => h2 <= f2
      /\ f2 >= f + 1 => h2 + p2 <= f2 /\ h2 <= f2
      /\ p2 = 0 /\ h <= f => h2 + p2 <= f2
      /\ h + p = 0 => h2 + p2 = 0
  BY <1>1, <1>2, <1>6, CountsGoDown
<1>9. m \in mailbox' /\ ~Consuming(m)' => h2 <= f2
  BY <1>8, <1>7
<1>10. m \in mailbox' /\ ~OnItsWay(m)' => h2 + p2 <= f2
  BY <1>8, <1>7
<1>11. sends'[m] \in {"unsent", "queued"} => m \notin mailbox' /\ h2 + p2 = 0
  BY <1>4, <1>8
<1> QED BY <1>8, <1>9, <1>10, <1>11 DEF OncePerFault, InHistory, InPending, h2, p2, f2

LEMMA TailQueuedOnce ==
  ASSUME NEW q \in Seq(Actors), q # <<>>, NEW s, QueuedOnce(q, s)
  PROVE  /\ QueuedOnce(Tail(q), s)
         /\ \A i \in 1..Len(Tail(q)) : Head(q) \in Messages => Tail(q)[i] # Head(q)
         /\ Head(q) \in Messages => s[Head(q)] = "queued"
<1>1. /\ Len(q) \in Nat \ {0} /\ Tail(q) \in Seq(Actors) /\ Len(Tail(q)) = Len(q) - 1
      /\ \A i \in 1..Len(Tail(q)) : Tail(q)[i] = q[i + 1]
  BY HeadTailProperties, LenProperties, EmptySeq
<1>2. Head(q) = q[1] /\ 1 \in 1..Len(q)
  BY <1>1
<1>3. \A i \in 1..Len(Tail(q)) : i + 1 \in 1..Len(q) /\ i + 1 # 1
  BY <1>1
<1>4. \A i, j \in 1..Len(Tail(q)) : i + 1 = j + 1 => i = j
  BY <1>1
<1>5. QueuedOnce(Tail(q), s)
  BY <1>1, <1>3, <1>4 DEF QueuedOnce
<1>6. \A i \in 1..Len(Tail(q)) : Head(q) \in Messages => Tail(q)[i] # Head(q)
  BY <1>1, <1>2, <1>3 DEF QueuedOnce
<1> QED BY <1>2, <1>5, <1>6 DEF QueuedOnce

LEMMA AppendQueuedOnce ==
  ASSUME NEW q \in Seq(Actors), NEW actor \in Actors, NEW s, QueuedOnce(q, s),
         actor \in Messages => s[actor] = "queued" /\ \A i \in 1..Len(q) : q[i] # actor
  PROVE  QueuedOnce(Append(q, actor), s)
<1> DEFINE u == Append(q, actor)
<1>1. /\ Len(q) \in Nat /\ u \in Seq(Actors) /\ Len(u) = Len(q) + 1
      /\ \A i \in 1..Len(q) : u[i] = q[i]
      /\ u[Len(q) + 1] = actor
  BY AppendProperties, LenProperties
<1> HIDE DEF u
<1>2. \A i \in 1..Len(u) : i \in 1..Len(q) \/ i = Len(q) + 1
  BY <1>1
<1>3. ASSUME NEW i \in 1..Len(u), u[i] \in Messages PROVE s[u[i]] = "queued"
  BY <1>1, <1>2, <1>3 DEF QueuedOnce
<1>4. ASSUME NEW i \in 1..Len(u), u[i] \in Messages, NEW j \in 1..Len(u), u[i] = u[j] PROVE i = j
  BY <1>1, <1>2, <1>4 DEF QueuedOnce
<1> QED BY <1>3, <1>4 DEF QueuedOnce, u

LEMMA SendsQueuedOnce ==
  ASSUME NEW q, NEW s, NEW s2, QueuedOnce(q, s),
         \A i \in 1..Len(q) : q[i] \in Messages /\ s[q[i]] = "queued" => s2[q[i]] = "queued"
  PROVE  QueuedOnce(q, s2)
  BY DEF QueuedOnce

LEMMA LoopQueue ==
  ASSUME LoopStep
  PROVE  /\ sends' = sends
         /\ \/ queue' = queue
            \/ queue' = Append(queue, Loop)
            \/ queue # <<>> /\ queue' \in {Tail(queue), Append(Tail(queue), Loop)}
<1> USE DEF Emit, Resumes, EmitsNext, Enqueued, Applies
<1>1. CASE \/ DecideNothing \/ DecideOnStart \/ DecideTool \/ DecideBackOff \/ DecideResume
           \/ DecideInfer \/ DecideComplete \/ Resume \/ HandlerPause \/ OnPauseDone
  BY <1>1 DEF DecideNothing, DecideOnStart, DecideTool, DecideBackOff, DecideResume, DecideInfer,
              DecideComplete, Resume, HandlerPause, OnPauseDone
<1>2. CASE \/ OnStartHooks \/ OnStartDone \/ OnCompleteHooks \/ CompleteDone
           \/ BeforeInferenceHooks \/ Start \/ LlmResponds \/ LlmFailsRetryably \/ LlmFailsFatally
  BY <1>2 DEF OnStartHooks, OnStartDone, OnCompleteHooks, CompleteDone, BeforeInferenceHooks, Start,
              LlmResponds, LlmFailsRetryably, LlmFailsFatally, HookPauses
<1>3. CASE Drop \/ Fail \/ OnErrorHooks \/ AfterInferenceHooks \/ Retry \/ Commit \/ Consume
  BY <1>3 DEF Drop, Fail, OnErrorHooks, AfterInferenceHooks, Retry, Commit, Consume, AfterConsume, HookPauses
<1>4. CASE BeforeToolCallHooks \/ ToolStart \/ ToolReturns \/ ToolDone \/ AppendFails
  BY <1>4 DEF BeforeToolCallHooks, ToolStart, ToolReturns, ToolDone, AppendFails, HookPauses
<1> QED BY <1>1, <1>2, <1>3, <1>4 DEF LoopStep

LEMMA StepQueuedOnce ==
  ASSUME TypeInv, DeliveryInv, [Next]_vars
  PROVE  QueuedOnce(queue', sends')
<1> DEFINE q == queue
           s == sends
<1>1. /\ q \in Seq(Actors) /\ QueuedOnce(q, s)
      /\ s \in [Messages -> {"unsent", "queued", "stored", "sent"}]
  BY DEF TypeInv, TypeOK, DeliveryInv
<1>2. q # <<>> => /\ Tail(q) \in Seq(Actors) /\ QueuedOnce(Tail(q), s)
                 /\ \A i \in 1..Len(Tail(q)) : Head(q) \in Messages => Tail(q)[i] # Head(q)
  BY <1>1, HeadTailProperties, TailQueuedOnce
<1>3. Loop \in Actors \ Messages /\ Operator \in Actors \ Messages
  BY ConstantsAssumption DEF Actors
<1> HIDE DEF q, s
<1>4. CASE LoopStep
  <2>1. /\ sends' = s
        /\ \/ queue' = q
           \/ queue' = Append(q, Loop)
           \/ q # <<>> /\ queue' \in {Tail(q), Append(Tail(q), Loop)}
    BY <1>4, LoopQueue DEF q, s
  <2>2. QueuedOnce(Append(q, Loop), s)
    BY <1>1, <1>3, AppendQueuedOnce
  <2>3. q # <<>> => QueuedOnce(Append(Tail(q), Loop), s)
    BY <1>2, <1>3, AppendQueuedOnce
  <2> QED BY <1>1, <1>2, <2>1, <2>2, <2>3
<1>5. CASE WakeStep \/ Restart \/ UNCHANGED vars
  <2>1. queue' = q /\ sends' = s
    BY <1>5 DEF WakeStep, DebounceFires, DebounceCheck, BackoffElapses, RetryFires, Restart, vars, q, s
  <2> QED BY <1>1, <2>1
<1>6. ASSUME NEW m \in Messages, Send(m) PROVE QueuedOnce(queue', sends')
  <2>1. /\ s[m] = "unsent" /\ sends' = [s EXCEPT ![m] = "queued"] /\ queue' = Append(q, m)
    BY <1>6 DEF Send, Enqueued, q, s
  <2>2. \A i \in 1..Len(q) : q[i] # m
    BY <1>1, <2>1 DEF QueuedOnce
  <2>3. \A i \in 1..Len(q) : q[i] \in Messages => sends'[q[i]] = s[q[i]]
    BY <1>1, <2>1, <2>2
  <2>4. sends'[m] = "queued" /\ m \in Actors
    BY <1>1, <2>1 DEF Actors
  <2>5. QueuedOnce(q, sends')
    BY <1>1, <2>3, SendsQueuedOnce
  <2>6. QueuedOnce(Append(q, m), sends')
    BY <1>1, <2>2, <2>4, <2>5, AppendQueuedOnce
  <2> QED BY <2>1, <2>6
<1>7. ASSUME NEW m \in Messages, MessageStored(m) PROVE QueuedOnce(queue', sends')
  <2>1. q # <<>> /\ Head(q) = m /\ sends' = [s EXCEPT ![m] = "stored"] /\ queue' = Tail(q)
    BY <1>7 DEF MessageStored, Applies, q, s
  <2>2. \A i \in 1..Len(Tail(q)) : Tail(q)[i] # m
    BY <1>2, <2>1
  <2>3. \A i \in 1..Len(Tail(q)) : Tail(q)[i] \in Messages => sends'[Tail(q)[i]] = s[Tail(q)[i]]
    BY <1>1, <2>1, <2>2
  <2>4. QueuedOnce(Tail(q), sends')
    BY <1>2, <2>1, <2>3, SendsQueuedOnce
  <2> QED BY <2>1, <2>4
<1>8. ASSUME NEW m \in Messages, SendSchedules(m) PROVE QueuedOnce(queue', sends')
  <2>1. s[m] = "stored" /\ sends' = [s EXCEPT ![m] = "sent"] /\ queue' = q
    BY <1>8 DEF SendSchedules, q, s
  <2>2. \A i \in 1..Len(q) : q[i] \in Messages /\ s[q[i]] = "queued" => sends'[q[i]] = "queued"
    BY <1>1, <2>1
  <2> QED BY <1>1, <2>1, <2>2, SendsQueuedOnce
<1>9. CASE OperatorCall
  <2>1. queue' = Append(q, Operator) /\ sends' = s
    BY <1>9 DEF OperatorCall, CallPause, CallResume, CallRewind, Calls, Enqueued, q, s
  <2>2. QueuedOnce(Append(q, Operator), s)
    BY <1>1, <1>3, AppendQueuedOnce
  <2> QED BY <2>1, <2>2
<1>10. CASE OperatorStep
  <2>1. sends' = s /\ (queue' = q \/ (q # <<>> /\ queue' = Tail(q)))
    BY <1>10 DEF OperatorStep, OperationApplied, OperationReturns, Applies, q, s
  <2> QED BY <1>1, <1>2, <2>1
<1>11. CASE Crash
  <2>1. queue' = <<>>
    BY <1>11 DEF Crash
  <2> QED BY <2>1 DEF QueuedOnce
<1> QED BY <1>4, <1>5, <1>6, <1>7, <1>8, <1>9, <1>10, <1>11 DEF Next, SendStep

LEMMA LoopFaults ==
  ASSUME TypeInv, LoopStep
  PROVE  /\ Faults \in Int /\ Faults' \in Int
         /\ Faults' = IF AppendFails THEN Faults + 1 ELSE Faults
<1> USE DEF HookPauses
<1>1. CASE AppendFails
  <2>1. Spend("appendFailures")
    BY <1>1 DEF AppendFails
  <2>2. Faults \in Int /\ Faults' = Faults + 1
    BY <2>1, FaultsCount
  <2> QED BY <1>1, <2>2
<1>2. CASE ~AppendFails
  <2> DEFINE Kinds == {"toolTurns", "retryable", "fatal", "pauses", "hookRetries"}
             Free == budget' = budget \/ \E kind \in Kinds : Spend(kind)
  <2>1. (\/ DecideNothing \/ DecideOnStart \/ DecideTool \/ DecideBackOff \/ DecideResume
         \/ DecideInfer \/ DecideComplete \/ Resume \/ HandlerPause \/ OnPauseDone) => Free
    BY DEF DecideNothing, DecideOnStart, DecideTool, DecideBackOff, DecideResume, DecideInfer,
           DecideComplete, Resume, HandlerPause, OnPauseDone
  <2>2. (\/ OnStartHooks \/ OnStartDone \/ OnCompleteHooks \/ CompleteDone
         \/ BeforeInferenceHooks \/ Start) => Free
    BY DEF OnStartHooks, OnStartDone, OnCompleteHooks, CompleteDone, BeforeInferenceHooks, Start
  <2>3. (LlmResponds \/ LlmFailsRetryably \/ LlmFailsFatally \/ Drop \/ Fail \/ OnErrorHooks) => Free
    BY DEF LlmResponds, LlmFailsRetryably, LlmFailsFatally, Drop, Fail, OnErrorHooks
  <2>4. (AfterInferenceHooks \/ Retry \/ Commit \/ Consume) => Free
    BY DEF AfterInferenceHooks, Retry, Commit, Consume
  <2>5. (BeforeToolCallHooks \/ ToolStart \/ ToolReturns \/ ToolDone) => Free
    BY DEF BeforeToolCallHooks, ToolStart, ToolReturns, ToolDone
  <2>6. Free
    BY <1>2, <2>1, <2>2, <2>3, <2>4, <2>5 DEF LoopStep
  <2>7. Faults \in Int /\ Faults' = Faults
    BY <2>6, FaultsCount
  <2> QED BY <1>2, <2>7
<1> QED BY <1>1, <1>2

(* A step of a loop that stands where nothing is on its way. *)
LEMMA ElsewhereDelivers ==
  ASSUME TypeInv, DeliveryInv, agent' \in Agent, Fewer(agent, agent'),
         Faults' \in Int, Faults <= Faults', mailbox' = mailbox, sends' = sends,
         pc \notin {"llm", "afterInference", "commit", "retry", "drop", "fail", "consume"},
         AtInput' => turn'.input.msgs \subseteq mailbox
  PROVE  MailInv'
<1>1. ASSUME NEW m \in Messages PROVE OncePerFault(m)'
  <2>1. ~OnItsWay(m) /\ ~Consuming(m)
    BY DEF OnItsWay, Consuming
  <2> QED BY <2>1, GoingOnDelivers
<1> QED BY <1>1 DEF MailInv

(* A step that keeps the messages of the turn on their way. *)
LEMMA OnwardDelivers ==
  ASSUME TypeInv, DeliveryInv, agent' = agent,
         Faults' \in Int, Faults <= Faults', mailbox' = mailbox, sends' = sends,
         pc' \in {"llm", "afterInference", "commit", "retry", "drop", "fail"}, pc # "consume",
         AtInput' => AtInput, turn'.input = turn.input
  PROVE  MailInv'
<1>1. ASSUME NEW m \in Messages PROVE OncePerFault(m)'
  <2>1. ~Consuming(m) /\ (OnItsWay(m) => OnItsWay(m)')
    BY DEF OnItsWay, Consuming
  <2>2. agent' \in Agent /\ Fewer(agent, agent')
    BY StatusOpsFewer DEF TypeInv, TypeOK
  <2> QED BY <2>1, <2>2, GoingOnDelivers
<1> QED BY <1>1 DEF MailInv, DeliveryInv

LEMMA StartDelivers ==
  ASSUME TypeInv, DeliveryInv, Start, Faults \in Int, Faults' = Faults
  PROVE  MailInv'
<1>1. agent \in Agent /\ turn \in Turn /\ turn.input \in Input
  BY DEF TypeInv, TypeOK, Turn
<1>2. /\ pc = "start" /\ pc' \in {"llm", "afterInference"} /\ mailbox' = mailbox /\ sends' = sends
      /\ turn' = turn \/ turn' = [turn EXCEPT !.response.asked = agent.history \o Staged(turn.input)]
  BY DEF Start, Resumes
<1>3. PICK call : agent' = InferenceStarted(agent, Staged(turn.input), call)
  BY DEF Start
<1>4. turn'.input = turn.input
  <2>1. CASE turn' = turn
    BY <2>1
  <2>2. CASE turn' # turn
    BY <1>1, <1>2, <2>2 DEF Turn
  <2> QED BY <2>1, <2>2
<1>5. turn.input.msgs \subseteq mailbox
  BY <1>2 DEF DeliveryInv, MailInv, AtInput
<1>6. ASSUME NEW m \in Messages PROVE OncePerFault(m)'
  <2> DEFINE h == Occ(m, agent.history)
             p == Occ(m, agent.pendingMessages)
             h2 == Occ(m, agent'.history)
             p2 == Occ(m, agent'.pendingMessages)
  <2>1. h \in Nat /\ p \in Nat
    BY <1>1, OccAgent
  <2>2. h2 = h /\ p2 = p + (IF m \in turn.input.msgs THEN 1 ELSE 0)
    BY <1>1, <1>3, StartedOcc
  <2>3. /\ h + p <= Faults + 1
        /\ m \in mailbox => h + p <= Faults
        /\ sends[m] \in {"unsent", "queued"} => m \notin mailbox /\ h + p = 0
    BY <1>2 DEF DeliveryInv, MailInv, OncePerFault, InHistory, InPending, OnItsWay
  <2> HIDE DEF h, p, h2, p2
  <2>4. h2 + p2 <= Faults + 1
    BY <1>5, <2>1, <2>2, <2>3
  <2>5. m \in mailbox => h2 <= Faults
    BY <2>1, <2>2, <2>3
  <2>6. m \in mailbox /\ m \notin turn.input.msgs => h2 + p2 <= Faults
    BY <2>1, <2>2, <2>3
  <2>7. sends[m] \in {"unsent", "queued"} => m \notin mailbox /\ h2 + p2 = 0
    BY <1>5, <2>1, <2>2, <2>3
  <2>8. OnItsWay(m)' <=> m \in turn.input.msgs
    BY <1>2, <1>4 DEF OnItsWay
  <2> QED BY <1>2, <2>4, <2>5, <2>6, <2>7, <2>8 DEF OncePerFault, InHistory, InPending, h2, p2
<1> QED BY <1>2, <1>4, <1>5, <1>6 DEF MailInv

LEMMA CommitDelivers ==
  ASSUME TypeInv, DeliveryInv, Commit, Faults \in Int, Faults' = Faults
  PROVE  MailInv'
<1>1. agent \in Agent /\ turn.response \in Response
  BY DEF TypeInv, TypeOK, Turn
<1>2. /\ pc = "commit" /\ mailbox' = mailbox /\ sends' = sends
      /\ agent' = InferenceCompleted(agent, ToolCalls(turn.response))
  BY DEF Commit
<1>3. \/ pc' = "consume" /\ turn' = turn
      \/ pc' = "top" /\ turn.input.msgs = {}
      \/ pc' = "pause" /\ turn' = turn /\ turn.hook = "afterInference" /\ turn.input.msgs = {}
  BY DEF Commit, AfterConsume, EmitsNext, Resumes
<1>4. turn.input.msgs \subseteq mailbox
  BY <1>2 DEF DeliveryInv, MailInv, AtInput
<1>5. ASSUME NEW m \in Messages PROVE OncePerFault(m)'
  <2> DEFINE h == Occ(m, agent.history)
             p == Occ(m, agent.pendingMessages)
             h2 == Occ(m, agent'.history)
             p2 == Occ(m, agent'.pendingMessages)
  <2>1. h \in Nat /\ p \in Nat
    BY <1>1, OccAgent
  <2>2. h2 = h + p /\ p2 = 0
    BY <1>1, <1>2, CompletedOcc
  <2>3. /\ h + p <= Faults + 1
        /\ m \in mailbox /\ m \notin turn.input.msgs => h + p <= Faults
        /\ sends[m] \in {"unsent", "queued"} => m \notin mailbox /\ h + p = 0
    BY <1>2 DEF DeliveryInv, MailInv, OncePerFault, InHistory, InPending, OnItsWay
  <2> HIDE DEF h, p, h2, p2
  <2>4. h2 + p2 = h + p
    BY <2>1, <2>2
  <2>5. /\ ~Consuming(m)' => m \notin turn.input.msgs
        /\ ~OnItsWay(m)' => m \notin turn.input.msgs
    BY <1>3 DEF Consuming, OnItsWay
  <2> QED BY <1>2, <2>1, <2>2, <2>3, <2>4, <2>5 DEF OncePerFault, InHistory, InPending, h2, p2
<1>6. AtInput' => turn'.input.msgs \subseteq mailbox'
  BY <1>2, <1>3, <1>4 DEF AtInput
<1> QED BY <1>5, <1>6 DEF MailInv

(* Steps of a loop that stands before a request, at a hook or at a tool. *)
LEMMA QuietDelivers ==
  ASSUME TypeInv, DeliveryInv, Faults \in Int, Faults' = Faults,
         \/ DecideNothing \/ DecideOnStart \/ DecideTool \/ DecideBackOff \/ DecideResume
         \/ DecideInfer \/ DecideComplete \/ Resume \/ HandlerPause \/ OnPauseDone
         \/ OnStartHooks \/ OnStartDone \/ OnCompleteHooks \/ CompleteDone
         \/ BeforeInferenceHooks \/ OnErrorHooks
         \/ BeforeToolCallHooks \/ ToolStart \/ ToolReturns \/ ToolDone
  PROVE  MailInv'
<1> USE DEF durable, Emit, Resumes, EmitsNext, EndTurn
<1>1. agent \in Agent /\ turn \in Turn
  BY DEF TypeInv, TypeOK
<1>2. Faults' \in Int /\ Faults <= Faults'
  OBVIOUS
<1>3. /\ mailbox' = mailbox /\ sends' = sends
      /\ pc \notin {"llm", "afterInference", "commit", "retry", "drop", "fail", "consume"}
  <2>1. CASE \/ DecideNothing \/ DecideOnStart \/ DecideTool \/ DecideBackOff \/ DecideResume
             \/ DecideInfer \/ DecideComplete \/ Resume \/ HandlerPause \/ OnPauseDone
    BY <2>1 DEF DecideNothing, DecideOnStart, DecideTool, DecideBackOff, DecideResume, DecideInfer,
                DecideComplete, Resume, HandlerPause, OnPauseDone
  <2>2. CASE \/ OnStartHooks \/ OnStartDone \/ OnCompleteHooks \/ CompleteDone \/ BeforeInferenceHooks
             \/ OnErrorHooks
    BY <2>2 DEF OnStartHooks, OnStartDone, OnCompleteHooks, CompleteDone, BeforeInferenceHooks, OnErrorHooks,
                HookPauses
  <2>3. CASE BeforeToolCallHooks \/ ToolStart \/ ToolReturns \/ ToolDone
    BY <2>3 DEF BeforeToolCallHooks, ToolStart, ToolReturns, ToolDone, HookPauses
  <2> QED BY <2>1, <2>2, <2>3
<1>4. agent' \in Agent /\ Fewer(agent, agent')
  <2>1. CASE agent' = agent
    BY <1>1, <2>1, StatusOpsFewer
  <2>2. CASE Resume \/ HandlerPause \/ OnStartDone \/ CompleteDone
    BY <1>1, <2>2, StatusOpsType, StatusOpsFewer DEF Resume, HandlerPause, OnStartDone, CompleteDone
  <2>3. CASE ToolStart \/ ToolDone
    <3>1. turn.tool \in ToolCall
      BY <1>1 DEF Turn
    <3> QED BY <1>1, <2>3, <3>1, ToolOpsType, StatusOpsFewer DEF ToolStart, ToolDone
  <2>4. CASE ~(Resume \/ HandlerPause \/ OnStartDone \/ CompleteDone \/ ToolStart \/ ToolDone)
    <3>1. agent' = agent
      BY <2>4 DEF DecideNothing, DecideOnStart, DecideTool, DecideBackOff, DecideResume, DecideInfer,
                  DecideComplete, OnPauseDone, OnStartHooks, OnCompleteHooks, BeforeInferenceHooks,
                  OnErrorHooks, BeforeToolCallHooks, ToolReturns, HookPauses
    <3> QED BY <2>1, <3>1
  <2> QED BY <2>2, <2>3, <2>4
<1>5. AtInput' => turn'.input.msgs \subseteq mailbox
  <2>1. CASE DecideInfer
    <3>1. turn' = [NoTurn EXCEPT !.input.msgs = mailbox]
      BY <2>1 DEF DecideInfer
    <3> QED BY <3>1 DEF NoTurn, NoInput
  <2>2. CASE BeforeInferenceHooks
    <3>1. turn.input.msgs \subseteq mailbox
      BY <2>2 DEF BeforeInferenceHooks, DeliveryInv, MailInv, AtInput
    <3>2. CASE HookPauses("beforeInference")
      <4>1. turn'.input = turn.input
        BY <1>1, <3>2, HookKeepsTurn DEF HookPauses
      <4> QED BY <3>1, <4>1
    <3>3. CASE ~HookPauses("beforeInference")
      <4> DEFINE input == [results |-> agent.pendingToolResults, msgs |-> turn.input.msgs]
      <4>1. \/ turn' = [turn EXCEPT !.input = input, !.call = requests + 1]
            \/ \E r \in Replayable(input) : turn' = [turn EXCEPT !.input = input, !.call = r.id, !.response = r]
        BY <2>2, <3>3 DEF BeforeInferenceHooks
      <4>2. turn'.input.msgs = turn.input.msgs
        <5>1. CASE turn' = [turn EXCEPT !.input = input, !.call = requests + 1]
          BY <1>1, <5>1 DEF Turn
        <5>2. ASSUME NEW r, turn' = [turn EXCEPT !.input = input, !.call = r.id, !.response = r]
              PROVE  turn'.input.msgs = turn.input.msgs
          BY <1>1, <5>2 DEF Turn
        <5> QED BY <4>1, <5>1, <5>2
      <4> QED BY <3>1, <4>2
    <3> QED BY <3>2, <3>3
  <2>3. CASE ~(DecideInfer \/ BeforeInferenceHooks)
    <3>1. ~AtInput'
      <4>1. CASE \/ DecideNothing \/ DecideOnStart \/ DecideTool \/ DecideBackOff \/ DecideResume
                 \/ DecideComplete \/ Resume \/ HandlerPause \/ OnPauseDone
        BY <4>1 DEF DecideNothing, DecideOnStart, DecideTool, DecideBackOff, DecideResume,
                    DecideComplete, Resume, HandlerPause, OnPauseDone, AtInput
      <4>2. CASE OnStartDone
        <5>1. pc' = "top" \/ (pc' = "pause" /\ turn' = turn /\ turn.hook = "onStart")
          BY <4>2 DEF OnStartDone
        <5> QED BY <5>1 DEF AtInput
      <4>3. CASE OnCompleteHooks \/ OnErrorHooks \/ BeforeToolCallHooks \/ ToolReturns
        <5>1. \/ pc' \in {"completeDone", "top", "toolStart", "toolDone"}
              \/ \E hook \in {"onComplete", "onError", "beforeToolCall", "afterToolCall"} :
                    pc' = "pause" /\ turn' = [turn EXCEPT !.hook = hook]
          BY <4>3 DEF OnCompleteHooks, OnErrorHooks, BeforeToolCallHooks, ToolReturns, HookPauses
        <5>2. ASSUME NEW hook \in {"onComplete", "onError", "beforeToolCall", "afterToolCall"},
                     turn' = [turn EXCEPT !.hook = hook]
              PROVE  turn'.hook = hook
          BY <1>1, <5>2, HookKeepsTurn
        <5> QED BY <5>1, <5>2 DEF AtInput
      <4>4. CASE OnStartHooks \/ CompleteDone \/ ToolStart \/ ToolDone
        BY <4>4 DEF OnStartHooks, CompleteDone, ToolStart, ToolDone, AtInput
      <4> QED BY <2>3, <4>1, <4>2, <4>3, <4>4
    <3> QED BY <3>1
  <2> QED BY <2>1, <2>2, <2>3
<1> QED BY <1>2, <1>3, <1>4, <1>5, ElsewhereDelivers

LEMMA OnwardSteps ==
  ASSUME TypeInv, DeliveryInv, Faults \in Int, Faults' = Faults,
         LlmResponds \/ LlmFailsRetryably \/ LlmFailsFatally \/ AfterInferenceHooks
  PROVE  MailInv'
<1>1. agent \in Agent /\ turn \in Turn
  BY DEF TypeInv, TypeOK
<1>2. /\ agent' = agent /\ mailbox' = mailbox /\ sends' = sends
      /\ pc \in {"llm", "afterInference"} /\ pc' \in {"afterInference", "commit", "retry", "drop", "fail"}
  BY DEF LlmResponds, LlmFailsRetryably, LlmFailsFatally, AfterInferenceHooks, durable, Emit
<1>3. turn'.input = turn.input
  <2>1. CASE LlmResponds
    <3>1. PICK r : turn' = [turn EXCEPT !.response = r]
      BY <2>1 DEF LlmResponds
    <3> QED BY <1>1, <3>1 DEF Turn
  <2>2. CASE LlmFailsRetryably
    BY <2>2 DEF LlmFailsRetryably
  <2>3. CASE LlmFailsFatally
    BY <1>1, <2>3 DEF LlmFailsFatally, Turn
  <2>4. CASE AfterInferenceHooks
    <3>1. turn' = turn \/ turn' = [turn EXCEPT !.hook = "afterInference"]
      BY <2>4 DEF AfterInferenceHooks
    <3>2. CASE turn' = turn
      BY <3>2
    <3>3. CASE turn' = [turn EXCEPT !.hook = "afterInference"]
      BY <1>1, <3>3, HookKeepsTurn
    <3> QED BY <3>1, <3>2, <3>3
  <2> QED BY <2>1, <2>2, <2>3, <2>4
<1>4. AtInput /\ Faults' \in Int /\ Faults <= Faults'
  BY <1>2 DEF AtInput
<1> QED BY <1>2, <1>3, <1>4, OnwardDelivers

(* The mailbox loses the messages of the turn and no others. *)
LEMMA ConsumptionDelivers ==
  ASSUME TypeInv, DeliveryInv, Faults \in Int, Faults' = Faults, Drop \/ Consume
  PROVE  MailInv'
<1>1. agent \in Agent
  BY DEF TypeInv, TypeOK
<1>2. /\ agent' = agent /\ sends' = sends /\ mailbox' = mailbox \ turn.input.msgs
  BY DEF Drop, Consume, Consumed
<1>3. ~AtInput'
  <2>1. CASE Drop
    BY <2>1 DEF Drop, EmitsNext, AtInput
  <2>2. CASE Consume
    <3>1. pc' = "top" \/ (pc' = "pause" /\ turn' = turn /\ turn.hook = "afterInference")
      BY <2>2 DEF Consume, AfterConsume, EmitsNext, Resumes
    <3> QED BY <3>1 DEF AtInput
  <2> QED BY <2>1, <2>2
<1>4. ASSUME NEW m \in Messages PROVE OncePerFault(m)'
  <2>1. Fewer(agent, agent') /\ agent' \in Agent
    BY <1>1, <1>2, StatusOpsFewer
  <2>2. m \in mailbox' => ~OnItsWay(m) /\ ~Consuming(m)
    BY <1>2 DEF OnItsWay, Consuming
  <2>3. mailbox' \subseteq mailbox /\ Faults' \in Int /\ Faults <= Faults'
    BY <1>2
  <2> QED BY <1>2, <2>1, <2>2, <2>3, GoingOnDelivers
<1> QED BY <1>3, <1>4 DEF MailInv

(* A failed or retried request gives up what it staged. *)
LEMMA UnstagingDelivers ==
  ASSUME TypeInv, DeliveryInv, Faults \in Int, Faults' = Faults, Fail \/ Retry
  PROVE  MailInv'
<1>1. agent \in Agent
  BY DEF TypeInv, TypeOK
<1>2. /\ agent' \in {InferenceFailed(agent), InferenceRetried(agent)}
      /\ sends' = sends /\ mailbox' = mailbox /\ pc # "consume"
  BY DEF Fail, Retry
<1>3. agent' \in Agent /\ Fewer(agent, agent') /\ agent'.pendingMessages = <<>>
  BY <1>1, <1>2, StatusOpsType, StatusOpsFewer
<1>4. AtInput' => turn'.input.msgs \subseteq mailbox'
  <2>1. CASE Fail
    BY <2>1 DEF Fail, Resumes, AtInput
  <2>2. CASE Retry
    <3>1. \/ pc' = "top"
          \/ turn' = [NoTurn EXCEPT !.attempt = turn.attempt + 1, !.input.msgs = mailbox]
      BY <2>2 DEF Retry, Resumes
    <3> QED BY <1>2, <3>1 DEF AtInput, NoTurn, NoInput
  <2> QED BY <2>1, <2>2
<1>5. ASSUME NEW m \in Messages PROVE OncePerFault(m)'
  <2>1. ~Consuming(m)
    BY <1>2 DEF Consuming
  <2>2. mailbox' \subseteq mailbox /\ Faults' \in Int /\ Faults <= Faults'
    BY <1>2
  <2> QED BY <1>2, <1>3, <2>1, <2>2, GoingOnDelivers
<1> QED BY <1>4, <1>5 DEF MailInv

(* A refused append or a crash pays for the messages the turn gives up. *)
LEMMA FaultDelivers ==
  ASSUME TypeInv, DeliveryInv, Faults \in Int, Faults' = Faults + 1, mailbox' = mailbox, agent' = agent,
         \A m \in Messages : sends'[m] \in {"unsent", "queued"} => sends[m] \in {"unsent", "queued"},
         AtInput' => turn'.input.msgs \subseteq mailbox
  PROVE  MailInv'
<1>1. agent' \in Agent /\ Fewer(agent, agent')
  BY StatusOpsFewer DEF TypeInv, TypeOK
<1>2. Faults' \in Int /\ Faults <= Faults' /\ Faults' >= Faults + 1 /\ mailbox' \subseteq mailbox
  OBVIOUS
<1>3. ASSUME NEW m \in Messages PROVE OncePerFault(m)'
  BY <1>1, <1>2, GoingOnDelivers
<1> QED BY <1>3 DEF MailInv

LEMMA LoopDelivers ==
  ASSUME TypeInv, DeliveryInv, LoopStep
  PROVE  MailInv'
<1>1. /\ Faults \in Int /\ Faults' \in Int
      /\ Faults' = IF AppendFails THEN Faults + 1 ELSE Faults
  BY LoopFaults
<1>2. CASE AppendFails
  <2>1. /\ mailbox' = mailbox /\ agent' = agent /\ sends' = sends
        /\ \/ pc' \in {"idle", "toolDone"}
           \/ /\ pc = "pause" /\ turn' = [turn EXCEPT !.hook = "none"] /\ pc' = turn.hook
              /\ turn.hook \in {"beforeInference", "beforeToolCall", "onComplete", "onError"}
    BY <1>2 DEF AppendFails, durable, Resumes, EmitsNext, EndTurn
  <2>2. AtInput' => turn'.input.msgs \subseteq mailbox
    <3>1. CASE pc' \in {"idle", "toolDone"}
      BY <3>1 DEF AtInput
    <3>2. CASE pc' \notin {"idle", "toolDone"}
      <4>1. turn' = [turn EXCEPT !.hook = "none"] /\ turn \in Turn
        BY <2>1, <3>2 DEF TypeInv, TypeOK
      <4>2. turn'.input = turn.input
        BY <4>1, HookKeepsTurn
      <4>3. AtInput' => AtInput
        BY <2>1, <3>2 DEF AtInput
      <4> QED BY <4>2, <4>3 DEF DeliveryInv, MailInv
    <3> QED BY <3>1, <3>2
  <2> QED BY <1>1, <1>2, <2>1, <2>2, FaultDelivers
<1>3. CASE ~AppendFails
  <2>1. Faults' = Faults
    BY <1>1, <1>3
  <2> QED BY <1>1, <1>3, <2>1, QuietDelivers, StartDelivers, OnwardSteps, ConsumptionDelivers,
             UnstagingDelivers, CommitDelivers DEF LoopStep
<1> QED BY <1>2, <1>3

(* Outside the loop: at most a fresh start of an idle one. *)
LEMMA OutsideDelivers ==
  ASSUME TypeInv, DeliveryInv, agent' \in Agent, Fewer(agent, agent'),
         Faults' \in Int, Faults <= Faults', mailbox' = mailbox, turn' = turn,
         pc' = pc \/ (pc' = "top" /\ pc = "idle"),
         \A m \in Messages : sends'[m] \in {"unsent", "queued"} => sends[m] \in {"unsent", "queued"}
  PROVE  MailInv'
<1>1. ASSUME NEW m \in Messages PROVE OncePerFault(m)'
  <2>1. (OnItsWay(m) => OnItsWay(m)') /\ (Consuming(m) => Consuming(m)')
    BY DEF OnItsWay, Consuming
  <2>2. mailbox' \subseteq mailbox
    OBVIOUS
  <2> QED BY <2>1, <2>2, GoingOnDelivers
<1>2. AtInput' => AtInput
  BY DEF AtInput
<1> QED BY <1>1, <1>2 DEF MailInv, DeliveryInv

LEMMA StoringDelivers ==
  ASSUME TypeInv, DeliveryInv, NEW k \in Messages, MessageStored(k), Faults' = Faults
  PROVE  MailInv'
<1>1. /\ agent' = agent /\ pc' = pc /\ turn' = turn /\ mailbox' = mailbox \union {k}
      /\ sends' = [sends EXCEPT ![k] = "stored"] /\ queue # <<>> /\ Head(queue) = k
  BY DEF MessageStored, Applies
<1>2. sends[k] = "queued"
  <2>1. queue \in Seq(Actors) /\ QueuedOnce(queue, sends)
    BY DEF TypeInv, TypeOK, DeliveryInv
  <2> QED BY <1>1, <2>1, TailQueuedOnce
<1>3. sends \in [Messages -> {"unsent", "queued", "stored", "sent"}]
  BY DEF TypeInv, TypeOK
<1>4. AtInput' => turn'.input.msgs \subseteq mailbox'
  <2>1. AtInput' => AtInput
    BY <1>1 DEF AtInput
  <2> QED BY <1>1, <2>1 DEF DeliveryInv, MailInv
<1>5. ASSUME NEW m \in Messages PROVE OncePerFault(m)'
  <2>1. /\ InHistory(m)' = InHistory(m) /\ InPending(m)' = InPending(m)
        /\ Consuming(m)' = Consuming(m) /\ OnItsWay(m)' = OnItsWay(m)
    BY <1>1 DEF InHistory, InPending, Consuming, OnItsWay
  <2>2. OncePerFault(m) /\ Faults >= 0
    BY DEF DeliveryInv, MailInv
  <2>3. CASE m = k
    <3>1. InHistory(m) + InPending(m) = 0 /\ InHistory(m) \in Nat /\ InPending(m) \in Nat
      BY <1>2, <2>2, <2>3, OccAgent DEF OncePerFault, InHistory, InPending, TypeInv, TypeOK
    <3>2. sends'[m] = "stored" /\ InHistory(m) = 0
      BY <1>1, <1>3, <2>3, <3>1
    <3>3. Faults \in Int
      BY FaultsCount
    <3> QED BY <2>1, <2>2, <3>1, <3>2, <3>3 DEF OncePerFault
  <2>4. CASE m # k
    <3>1. sends'[m] = sends[m] /\ (m \in mailbox' <=> m \in mailbox)
      BY <1>1, <1>3, <2>4
    <3> QED BY <2>1, <2>2, <3>1 DEF OncePerFault
  <2> QED BY <2>3, <2>4
<1> QED BY <1>4, <1>5 DEF MailInv

LEMMA StepDelivers ==
  ASSUME TypeInv, DeliveryInv, [Next]_vars
  PROVE  DeliveryInv'
<1>1. agent \in Agent /\ Fewer(agent, agent) /\ Faults \in Int /\ Faults >= 0
      /\ sends \in [Messages -> {"unsent", "queued", "stored", "sent"}]
  BY StatusOpsFewer, FaultsCount DEF TypeInv, TypeOK, DeliveryInv
<1>2. QueuedOnce(queue', sends')
  BY StepQueuedOnce
<1>3. budget' = budget => Faults' = Faults
  BY FaultsCount
<1>4. CASE LoopStep
  <2>1. Faults' \in Int /\ Faults' >= 0
    BY <1>1, <1>4, LoopFaults
  <2> QED BY <1>2, <1>4, <2>1, LoopDelivers DEF DeliveryInv
<1>5. CASE WakeStep \/ UNCHANGED vars
  <2>1. /\ agent' = agent /\ mailbox' = mailbox /\ turn' = turn /\ sends' = sends /\ budget' = budget
        /\ pc' = pc \/ (pc' = "top" /\ pc = "idle")
    BY <1>5 DEF WakeStep, DebounceFires, DebounceCheck, BackoffElapses, RetryFires, vars, durable
  <2>2. Faults' \in Int /\ Faults <= Faults' /\ Faults' >= 0
    BY <1>1, <1>3, <2>1
  <2> QED BY <1>1, <1>2, <2>1, <2>2, OutsideDelivers DEF DeliveryInv
<1>6. ASSUME NEW m \in Messages, Send(m) \/ SendSchedules(m) PROVE DeliveryInv'
  <2>1. /\ agent' = agent /\ mailbox' = mailbox /\ turn' = turn /\ pc' = pc /\ budget' = budget
        /\ \/ sends[m] = "unsent" /\ sends' = [sends EXCEPT ![m] = "queued"]
           \/ sends[m] = "stored" /\ sends' = [sends EXCEPT ![m] = "sent"]
    BY <1>6 DEF Send, SendSchedules, durable
  <2>2. \A k \in Messages : sends'[k] \in {"unsent", "queued"} => sends[k] \in {"unsent", "queued"}
    BY <1>1, <2>1
  <2>3. Faults' \in Int /\ Faults <= Faults' /\ Faults' >= 0
    BY <1>1, <1>3, <2>1
  <2> QED BY <1>1, <1>2, <2>1, <2>2, <2>3, OutsideDelivers DEF DeliveryInv
<1>7. ASSUME NEW m \in Messages, MessageStored(m) PROVE DeliveryInv'
  <2>1. Faults' = Faults
    BY <1>3, <1>7 DEF MessageStored
  <2> QED BY <1>1, <1>2, <1>7, <2>1, StoringDelivers DEF DeliveryInv
<1>8. CASE OperatorCall
  <2>1. /\ agent' = agent /\ mailbox' = mailbox /\ turn' = turn /\ pc' = pc /\ sends' = sends
        /\ budget' = budget \/ Spend("pauses") \/ Spend("rewinds")
    BY <1>8 DEF OperatorCall, CallPause, CallResume, CallRewind, Calls, durable
  <2>2. Faults' = Faults
    BY <1>3, <2>1, FaultsCount
  <2>3. Faults' \in Int /\ Faults <= Faults' /\ Faults' >= 0
    BY <1>1, <2>2
  <2> QED BY <1>1, <1>2, <2>1, <2>3, OutsideDelivers DEF DeliveryInv
<1>9. CASE OperationApplied
  <2>1. agent' \in Agent /\ Fewer(agent, agent')
    <3>1. CASE operator.call = "agents.rewind"
      <4>1. operator.start <= Len(agent.history) /\ operator.start \in Nat /\ operator.count \in Nat
        BY <1>9, <3>1 DEF OperationApplied, TypeInv, TypeOK, RewindInRange
      <4>2. agent' = Rewound(agent, operator.start, operator.count)
        BY <1>9, <3>1 DEF OperationApplied
      <4> QED BY <1>1, <4>1, <4>2, RewoundType, RewoundFewer
    <3>2. CASE operator.call # "agents.rewind"
      BY <1>1, <1>9, <3>2, StatusOpsType, StatusOpsFewer DEF OperationApplied
    <3> QED BY <3>1, <3>2
  <2>2. mailbox' = mailbox /\ turn' = turn /\ pc' = pc /\ sends' = sends /\ budget' = budget
    BY <1>9 DEF OperationApplied
  <2>3. Faults' \in Int /\ Faults <= Faults' /\ Faults' >= 0
    BY <1>1, <1>3, <2>2
  <2> QED BY <1>2, <2>1, <2>2, <2>3, OutsideDelivers DEF DeliveryInv
<1>10. CASE OperationReturns
  <2>1. /\ agent' = agent /\ mailbox' = mailbox /\ turn' = turn /\ sends' = sends /\ budget' = budget
        /\ pc' = pc \/ (pc' = "top" /\ pc = "idle")
    BY <1>10 DEF OperationReturns, Continue, durable
  <2>2. Faults' \in Int /\ Faults <= Faults' /\ Faults' >= 0
    BY <1>1, <1>3, <2>1
  <2> QED BY <1>1, <1>2, <2>1, <2>2, OutsideDelivers DEF DeliveryInv
<1>11. CASE Crash
  <2>1. /\ agent' = agent /\ mailbox' = mailbox /\ pc' = "down" /\ Spend("crashes")
        /\ sends' = [m \in Messages |-> CASE sends[m] = "queued" -> "unsent"
                                          [] sends[m] = "stored" -> "sent"
                                          [] OTHER -> sends[m]]
    BY <1>11 DEF Crash, durable
  <2>2. \A m \in Messages : sends'[m] \in {"unsent", "queued"} => sends[m] \in {"unsent", "queued"}
    BY <1>1, <2>1
  <2>3. Faults' = Faults + 1
    BY <2>1, FaultsCount
  <2>4. ~AtInput'
    BY <2>1 DEF AtInput
  <2>5. MailInv'
    BY <1>1, <2>1, <2>2, <2>3, <2>4, FaultDelivers
  <2> QED BY <1>1, <1>2, <2>3, <2>5 DEF DeliveryInv
<1>12. CASE Restart
  <2>1. /\ agent' = SessionRestarted(agent) /\ mailbox' = mailbox /\ sends' = sends /\ budget' = budget
        /\ pc = "down" /\ pc' = "top"
    BY <1>12 DEF Restart
  <2>2. agent' \in Agent /\ Fewer(agent, agent')
    BY <1>1, <2>1, StatusOpsType, StatusOpsFewer
  <2>3. Faults' \in Int /\ Faults <= Faults' /\ Faults' >= 0
    BY <1>1, <1>3, <2>1
  <2>4. ~AtInput'
    BY <2>1 DEF AtInput
  <2>5. MailInv'
    BY <2>1, <2>2, <2>3, <2>4, ElsewhereDelivers
  <2> QED BY <1>2, <2>3, <2>5 DEF DeliveryInv
<1> QED BY <1>4, <1>5, <1>6, <1>7, <1>8, <1>9, <1>10, <1>11, <1>12 DEF Next, SendStep, OperatorStep

(***************************************************************************)
(* Delivery is exactly-once but for faults: whatever turns, retries,       *)
(* failures, pauses and rewinds do, the history holds a message at most    *)
(* once more than there were crashes and refused appends.                  *)
(***************************************************************************)
THEOREM DeliveredOncePerFaultHolds == Spec => []DeliveredOncePerFault
<1>1. Init => DeliveryInv
  <2> SUFFICES ASSUME Init PROVE DeliveryInv
    OBVIOUS
  <2>1. /\ agent = Spawned /\ mailbox = {} /\ pc = "idle" /\ queue = <<>> /\ budget = Budget
    BY DEF Init
  <2>2. Faults = 0
    BY <2>1, ConstantsAssumption DEF Faults, Budgets
  <2>3. ASSUME NEW m \in Messages PROVE OncePerFault(m)
    <3>1. InHistory(m) = 0 /\ InPending(m) = 0
      BY <2>1, OccEmpty DEF InHistory, InPending, Spawned
    <3> QED BY <2>1, <2>2, <3>1 DEF OncePerFault
  <2>4. ~AtInput /\ QueuedOnce(queue, sends)
    BY <2>1 DEF AtInput, QueuedOnce
  <2> QED BY <2>2, <2>3, <2>4 DEF DeliveryInv, MailInv
<1>2. TypeInv /\ DeliveryInv /\ [Next]_vars => DeliveryInv'
  BY StepDelivers
<1>3. TypeInv /\ DeliveryInv => DeliveredOncePerFault
  <2> SUFFICES ASSUME TypeInv, DeliveryInv, NEW m \in Messages PROVE Occurrences(m) <= 1 + Faults
    BY DEF DeliveredOncePerFault
  <2>1. Occurrences(m) = InHistory(m)
    BY DEF Occurrences, InHistory, Occ
  <2>2. InHistory(m) \in Nat /\ InPending(m) \in Nat /\ Faults \in Int
    BY OccAgent, FaultsCount DEF InHistory, InPending, TypeInv, TypeOK
  <2>3. InHistory(m) + InPending(m) <= Faults + 1
    BY DEF DeliveryInv, MailInv, OncePerFault
  <2> QED BY <2>1, <2>2, <2>3
<1> QED BY <1>1, <1>2, <1>3, TypeCorrect, PTL DEF Spec

-----------------------------------------------------------------------------
(* Conversations that pair tool_use and tool_result *)

Distinct(s) == \A i, j \in DOMAIN s : s[i] = s[j] => i = j

(* A paired conversation whose assistant messages each demand finitely many calls. *)
Talk(entries) == Paired(entries) /\ \A i \in DOMAIN entries : Cardinality(entries[i].calls) \in Nat

LEMMA CallsCounted ==
  ASSUME NEW rs \in Seq(ToolCall), Distinct(rs)
  PROVE  Cardinality(Range(rs)) = Len(rs) /\ Len(rs) \in Nat
<1>1. Len(rs) \in Nat /\ DOMAIN rs = 1..Len(rs) /\ rs \in [1..Len(rs) -> ToolCall]
  BY LenProperties
<1> DEFINE n == Len(rs)
<1>2. rs \in Bijection(1..n, Range(rs))
  BY <1>1 DEF Bijection, Injection, Surjection, IsInjective, Distinct, Range
<1>3. ExistsBijection(1..n, Range(rs))
  BY <1>2 DEF ExistsBijection
<1> QED BY <1>1, <1>3, FS_CountingElements

LEMMA NoTalk == Talk(<<>>)
  BY DEF Talk, Paired

(* The conversation up to an entry that neither demands nor answers a call. *)
LEMMA TalkThenUser ==
  ASSUME NEW E \in Seq(Entry), Talk(E), NEW e \in Entry, e.role = "user", e.calls = {}
  PROVE  Talk(E \o <<e>>)
<1> DEFINE F == E \o <<e>>
           L == Len(E)
<1>1. /\ L \in Nat /\ DOMAIN E = 1..L /\ DOMAIN F = 1..(L + 1) /\ Len(F) = L + 1
      /\ \A k \in 1..L : F[k] = E[k]
      /\ F[L + 1] = e
  <2>1. <<e>> \in Seq(Entry) /\ Len(<<e>>) = 1 /\ <<e>>[1] = e
    OBVIOUS
  <2>2. F \in Seq(Entry) /\ Len(F) = L + 1 /\ L \in Nat
        /\ \A k \in 1..(L + 1) : F[k] = IF k <= L THEN E[k] ELSE <<e>>[k - L]
    BY <2>1, ConcatProperties, LenProperties
  <2>3. DOMAIN F = 1..(L + 1) /\ DOMAIN E = 1..L
    BY <2>2, LenProperties
  <2> HIDE DEF F
  <2> QED BY <2>1, <2>2, <2>3
<1> HIDE DEF F, L
<1>2. Cardinality({}) = 0
  BY FS_EmptySet
<1>3. \A i \in 1..(L + 1) : i \in 1..L \/ i = L + 1
  BY <1>1
<1>4. ASSUME NEW i \in DOMAIN F PROVE Cardinality(F[i].calls) \in Nat
  <2>1. CASE i \in 1..L
    <3>1. F[i] = E[i] /\ i \in DOMAIN E
      BY <1>1, <2>1
    <3> QED BY <3>1 DEF Talk
  <2>2. CASE i = L + 1
    <3>1. F[i].calls = {}
      BY <1>1, <2>2
    <3>2. Cardinality(F[i].calls) = Cardinality({})
      BY <3>1, Zenon
    <3> QED BY <1>2, <3>2
  <2> QED BY <1>1, <1>3, <2>1, <2>2
<1>5. ASSUME NEW i \in DOMAIN F, F[i].role = "assistant"
      PROVE  LET n == Cardinality(F[i].calls)
             IN  /\ i + n <= Len(F)
                 /\ {F[j].calls : j \in i+1 .. i+n} = {{c} : c \in F[i].calls}
  <2> DEFINE n == Cardinality(F[i].calls)
  <2>1. i \in 1..L
    BY <1>1, <1>3, <1>5
  <2>2. F[i] = E[i] /\ n \in Nat
    BY <1>1, <1>4, <2>1
  <2>3. i + n <= L /\ {E[j].calls : j \in i+1 .. i+n} = {{c} : c \in E[i].calls}
    BY <1>1, <1>5, <2>1, <2>2 DEF Talk, Paired, L
  <2> HIDE DEF n
  <2>4. \A j \in i+1 .. i+n : F[j] = E[j]
    BY <1>1, <2>1, <2>2, <2>3
  <2>5. i + n <= Len(F)
    BY <1>1, <2>1, <2>2, <2>3
  <2> QED BY <2>2, <2>3, <2>4, <2>5 DEF n
<1>6. ASSUME NEW j \in DOMAIN F, F[j].role = "tool"
      PROVE  \E i \in 1..(j-1) : F[i].role = "assistant" /\ j <= i + Cardinality(F[i].calls)
  <2>1. j \in 1..L /\ F[j] = E[j]
    BY <1>1, <1>3, <1>6
  <2>2. PICK i \in 1..(j-1) : E[i].role = "assistant" /\ j <= i + Cardinality(E[i].calls)
    BY <1>1, <1>6, <2>1 DEF Talk, Paired
  <2>3. i \in 1..L
    BY <1>1, <2>1
  <2> QED BY <1>1, <2>2, <2>3
<1>7. Talk(F)
  BY <1>4, <1>5, <1>6 DEF Talk, Paired
<1> QED BY <1>7 DEF F

(* The results of an assistant message that demanded them, right after it. *)
LEMMA TalkThenResults ==
  ASSUME NEW P \in Seq(Entry), Talk(P), NEW rs \in Seq(ToolCall), Distinct(rs)
  PROVE  LET tools == [k \in DOMAIN rs |-> ToolEntry(rs[k])]
         IN  /\ P \o <<AssistantEntry(Range(rs))>> \o tools \in Seq(Entry)
             /\ Talk(P \o <<AssistantEntry(Range(rs))>> \o tools)
<1> DEFINE tools == [k \in DOMAIN rs |-> ToolEntry(rs[k])]
           a == AssistantEntry(Range(rs))
           L == Len(P)
           n == Len(rs)
           Q == P \o <<a>>
           F == Q \o tools
<1>1. /\ n \in Nat /\ DOMAIN rs = 1..n /\ (\A k \in 1..n : rs[k] \in ToolCall)
      /\ Cardinality(Range(rs)) = n
  BY LenProperties, ElementOfSeq, CallsCounted
<1>2. a \in Entry /\ a.role = "assistant" /\ a.calls = Range(rs)
  BY <1>1 DEF AssistantEntry, Entry, Range
<1>3. tools \in Seq(Entry) /\ Len(tools) = n /\ \A k \in 1..n : tools[k] = ToolEntry(rs[k])
  <2>1. \A k \in 1..n : ToolEntry(rs[k]) \in Entry
    BY <1>1 DEF ToolEntry, Entry
  <2>2. tools \in Seq(Entry)
    BY <1>1, <2>1, IsASeq
  <2>3. DOMAIN tools = 1..n
    BY <1>1
  <2> QED BY <1>1, <2>2, <2>3, LenProperties
<1>4. <<a>> \in Seq(Entry) /\ Len(<<a>>) = 1 /\ <<a>>[1] = a
  BY <1>2
<1> HIDE DEF a, tools, n
<1>5. /\ Q \in Seq(Entry) /\ Len(Q) = L + 1 /\ L \in Nat /\ DOMAIN P = 1..L
      /\ (\A k \in 1..L : Q[k] = P[k]) /\ Q[L + 1] = a
  <2>1. Q \in Seq(Entry) /\ Len(Q) = L + 1 /\ L \in Nat /\ DOMAIN P = 1..L
        /\ \A k \in 1..(L + 1) : Q[k] = IF k <= L THEN P[k] ELSE <<a>>[k - L]
    BY <1>4, ConcatProperties, LenProperties
  <2> HIDE DEF Q, L
  <2> QED BY <1>4, <2>1
<1> HIDE DEF Q, L
<1>6. /\ F \in Seq(Entry) /\ Len(F) = L + 1 + n /\ DOMAIN F = 1..(L + 1 + n)
      /\ \A k \in 1..(L + 1 + n) : F[k] = IF k <= L + 1 THEN Q[k] ELSE tools[k - (L + 1)]
  <2>1. F \in Seq(Entry) /\ Len(F) = Len(Q) + Len(tools)
        /\ \A k \in 1..(Len(Q) + Len(tools)) : F[k] = IF k <= Len(Q) THEN Q[k] ELSE tools[k - Len(Q)]
    BY <1>3, <1>5, ConcatProperties
  <2>2. DOMAIN F = 1..Len(F)
    BY <2>1, LenProperties
  <2> HIDE DEF F
  <2> QED BY <1>3, <1>5, <2>1, <2>2
<1> HIDE DEF F
<1>7. \A k \in 1..L : F[k] = P[k]
  BY <1>1, <1>5, <1>6
<1>8. F[L + 1] = a
  BY <1>1, <1>5, <1>6
<1>9. \A k \in 1..n : F[L + 1 + k] = ToolEntry(rs[k])
  <2> SUFFICES ASSUME NEW k \in 1..n PROVE F[L + 1 + k] = ToolEntry(rs[k])
    OBVIOUS
  <2>1. L + 1 + k \in 1..(L + 1 + n) /\ ~(L + 1 + k <= L + 1) /\ (L + 1 + k) - (L + 1) = k
    BY <1>1, <1>5
  <2> QED BY <1>3, <1>6, <2>1
<1>10. \A i \in 1..(L + 1 + n) : i \in 1..L \/ i = L + 1 \/ (\E k \in 1..n : i = L + 1 + k)
  <2> SUFFICES ASSUME NEW i \in 1..(L + 1 + n), i \notin 1..L, i # L + 1
               PROVE  \E k \in 1..n : i = L + 1 + k
    OBVIOUS
  <2>1. i - (L + 1) \in 1..n /\ i = L + 1 + (i - (L + 1))
    BY <1>1, <1>5
  <2> QED BY <2>1
<1>11. \A c : ToolEntry(c).role = "tool" /\ ToolEntry(c).calls = {c} /\ Cardinality({c}) = 1
  BY FS_Singleton DEF ToolEntry
<1>12. \A i \in DOMAIN F : Cardinality(F[i].calls) \in Nat
  <2> SUFFICES ASSUME NEW i \in DOMAIN F PROVE Cardinality(F[i].calls) \in Nat
    OBVIOUS
  <2>1. CASE i \in 1..L
    BY <1>5, <1>7, <2>1 DEF Talk
  <2>2. CASE i = L + 1
    BY <1>1, <1>2, <1>8, <2>2
  <2>3. ASSUME NEW k \in 1..n, i = L + 1 + k PROVE Cardinality(F[i].calls) \in Nat
    <3>1. F[i].calls = {rs[k]}
      BY <1>9, <1>11, <2>3
    <3>2. Cardinality(F[i].calls) = Cardinality({rs[k]})
      BY <3>1, Zenon
    <3>3. Cardinality({rs[k]}) = 1
      BY <1>11, Zenon
    <3>4. 1 \in Nat
      OBVIOUS
    <3> QED BY <3>2, <3>3, <3>4, Zenon
  <2> QED BY <1>6, <1>10, <2>1, <2>2, <2>3
<1>13. ASSUME NEW i \in DOMAIN F, F[i].role = "assistant"
       PROVE  LET m == Cardinality(F[i].calls)
              IN  /\ i + m <= Len(F)
                  /\ {F[j].calls : j \in i+1 .. i+m} = {{c} : c \in F[i].calls}
  <2> DEFINE m == Cardinality(F[i].calls)
  <2>1. CASE i \in 1..L
    <3>1. F[i] = P[i] /\ m \in Nat
      BY <1>7, <1>12, <2>1
    <3>2. i + m <= L /\ {P[j].calls : j \in i+1 .. i+m} = {{c} : c \in P[i].calls}
      BY <1>5, <1>13, <2>1, <3>1 DEF Talk, Paired, L
    <3> HIDE DEF m
    <3>3. \A j \in i+1 .. i+m : F[j] = P[j]
      BY <1>5, <1>7, <2>1, <3>1, <3>2
    <3>4. i + m <= Len(F)
      BY <1>1, <1>5, <1>6, <2>1, <3>1, <3>2
    <3> QED BY <3>1, <3>2, <3>3, <3>4 DEF m
  <2>2. CASE i = L + 1
    <3>1. m = n /\ F[i].calls = Range(rs) /\ i + n <= Len(F)
      BY <1>1, <1>2, <1>6, <1>8, <2>2
    <3> HIDE DEF m
    <3>2. {F[j].calls : j \in i+1 .. i+n} = {{c} : c \in Range(rs)}
      <4>1. ASSUME NEW j \in i+1 .. i+n PROVE F[j].calls \in {{c} : c \in Range(rs)}
        <5>1. j - (L + 1) \in 1..n /\ j = L + 1 + (j - (L + 1))
          BY <1>1, <1>5, <2>2
        <5> DEFINE k == j - (L + 1)
        <5>2. k \in 1..n /\ j = L + 1 + k
          BY <5>1
        <5> HIDE DEF k
        <5>3. F[j].calls = {rs[k]} /\ rs[k] \in Range(rs)
          BY <1>1, <1>9, <1>11, <5>2 DEF Range
        <5> QED BY <5>3
      <4>2. ASSUME NEW c \in Range(rs) PROVE {c} \in {F[j].calls : j \in i+1 .. i+n}
        <5>1. PICK k \in 1..n : rs[k] = c
          BY <1>1 DEF Range
        <5>2. L + 1 + k \in i+1 .. i+n
          BY <1>1, <1>5, <2>2
        <5>3. F[L + 1 + k].calls = {c}
          BY <1>9, <1>11, <5>1
        <5> QED BY <5>2, <5>3
      <4> QED BY <4>1, <4>2
    <3> QED BY <3>1, <3>2 DEF m
  <2>3. CASE \E k \in 1..n : i = L + 1 + k
    BY <1>9, <1>11, <1>13, <2>3
  <2> QED BY <1>6, <1>10, <2>1, <2>2, <2>3
<1>14. ASSUME NEW j \in DOMAIN F, F[j].role = "tool"
       PROVE  \E i \in 1..(j-1) : F[i].role = "assistant" /\ j <= i + Cardinality(F[i].calls)
  <2>1. CASE j \in 1..L
    <3>1. PICK i \in 1..(j-1) : P[i].role = "assistant" /\ j <= i + Cardinality(P[i].calls)
      BY <1>5, <1>7, <1>14, <2>1 DEF Talk, Paired
    <3>2. i \in 1..L
      BY <1>5, <2>1
    <3> QED BY <1>7, <3>1, <3>2
  <2>2. CASE j = L + 1
    BY <1>2, <1>8, <1>14, <2>2
  <2>3. CASE \E k \in 1..n : j = L + 1 + k
    <3>1. L + 1 \in 1..(j-1) /\ j <= L + 1 + n
      BY <1>1, <1>5, <2>3
    <3>2. F[L + 1].role = "assistant" /\ Cardinality(F[L + 1].calls) = n
      BY <1>1, <1>2, <1>8
    <3> QED BY <3>1, <3>2
  <2> QED BY <1>6, <1>10, <2>1, <2>2, <2>3
<1>15. Talk(F)
  BY <1>12, <1>13, <1>14 DEF Talk, Paired
<1> QED BY <1>6, <1>15 DEF F, Q, a, tools

-----------------------------------------------------------------------------
(* The history ends with the assistant message whose calls are pending or have a result that *)
(* waits to be staged; all that precedes it is paired.                                       *)
EndsWith(a, P) ==
  a.history = P \o <<AssistantEntry(Range(a.pendingToolResults) \union Range(a.pendingToolCalls))>>

Whole(a) ==
  /\ Distinct(a.pendingToolResults)
  /\ \/ a.history = <<>> /\ a.pendingToolResults = <<>> /\ a.pendingToolCalls = <<>>
     \/ \E P \in Seq(Entry) : Talk(P) /\ EndsWith(a, P)

LEMMA EntriesAssociate ==
  ASSUME NEW s \in Seq(Entry), NEW t \in Seq(Entry), NEW u \in Seq(Entry)
  PROVE  (s \o t) \o u = s \o (t \o u)
  OBVIOUS

LEMMA TalkThenMail ==
  ASSUME NEW E \in Seq(Entry), Talk(E), NEW ms \in SUBSET Messages
  PROVE  Talk(E \o (IF ms = {} THEN <<>> ELSE <<UserEntry(ms)>>))
<1>1. CASE ms = {}
  <2>1. E \o <<>> = E
    BY ConcatEmptySeq
  <2> QED BY <1>1, <2>1
<1>2. CASE ms # {}
  <2>1. UserEntry(ms) \in Entry /\ UserEntry(ms).role = "user" /\ UserEntry(ms).calls = {}
    BY DEF UserEntry, Entry
  <2>2. Talk(E \o <<UserEntry(ms)>>)
    BY <2>1, TalkThenUser
  <2> QED BY <1>2, <2>2
<1> QED BY <1>1, <1>2

(* With every call answered, what a turn stages completes the conversation. *)
LEMMA WholeThenStaged ==
  ASSUME NEW a \in Agent, Whole(a), a.pendingToolCalls = <<>>,
         NEW input \in Input, input.results = a.pendingToolResults
  PROVE  Talk(a.history \o Staged(input))
<1> DEFINE rs == a.pendingToolResults
           tools == [k \in DOMAIN rs |-> ToolEntry(rs[k])]
           mail == IF input.msgs = {} THEN <<>> ELSE <<UserEntry(input.msgs)>>
<1>1. Staged(input) = tools \o mail
  BY DEF Staged
<1>2. rs \in Seq(ToolCall) /\ a.history \in Seq(Entry) /\ input.msgs \in SUBSET Messages
  BY DEF Agent, Input
<1>3. mail \in Seq(Entry)
  <2>1. UserEntry(input.msgs) \in Entry
    BY <1>2 DEF UserEntry, Entry
  <2>2. <<UserEntry(input.msgs)>> \in Seq(Entry) /\ <<>> \in Seq(Entry)
    BY <2>1
  <2> QED BY <2>2
<1>4. tools \in Seq(Entry)
  <2>1. /\ DOMAIN rs = 1..Len(rs) /\ Len(rs) \in Nat
        /\ \A i \in 1..Len(rs) : rs[i] \in ToolCall
    BY <1>2, LenProperties, ElementOfSeq
  <2>2. \A i \in 1..Len(rs) : ToolEntry(rs[i]) \in Entry
    BY <2>1 DEF ToolEntry, Entry
  <2> QED BY <2>1, <2>2, IsASeq
<1>5. CASE a.history = <<>> /\ rs = <<>>
  <2>1. Talk(<<>> \o mail)
    <3>1. <<>> \in Seq(Entry)
      BY EmptySeq
    <3> QED BY <1>2, <3>1, NoTalk, TalkThenMail
  <2>2. tools = <<>>
    BY <1>5, <1>4, EmptySeq, LenProperties
  <2>3. Staged(input) = mail
    <3>1. <<>> \o mail = mail
      BY <1>3, ConcatEmptySeq
    <3> QED BY <1>1, <2>2, <3>1
  <2> QED BY <1>5, <2>1, <2>3
<1>6. CASE \E P \in Seq(Entry) : Talk(P) /\ EndsWith(a, P)
  <2>1. PICK P \in Seq(Entry) : Talk(P) /\ EndsWith(a, P)
    BY <1>6
  <2>2. a.history = P \o <<AssistantEntry(Range(rs))>>
    <3>1. Range(rs) \union Range(<<>>) = Range(rs)
      BY NoEntries
    <3> QED BY <2>1, <3>1 DEF EndsWith
  <2>3. a.history \o tools \in Seq(Entry) /\ Talk(a.history \o tools)
    <3>1. Distinct(rs)
      BY DEF Whole
    <3> QED BY <1>2, <2>1, <2>2, <3>1, TalkThenResults
  <2>4. Talk((a.history \o tools) \o mail)
    BY <1>2, <2>3, TalkThenMail
  <2> HIDE DEF tools, mail
  <2>5. (a.history \o tools) \o mail = a.history \o (tools \o mail)
    BY <1>2, <1>3, <1>4, EntriesAssociate, Zenon
  <2> QED BY <1>1, <2>4, <2>5
<1> QED BY <1>5, <1>6 DEF Whole

(* The events that leave the history and the two lists of calls alone. *)
SameTalk(a, b) ==
  /\ b.history = a.history
  /\ b.pendingToolCalls = a.pendingToolCalls
  /\ b.pendingToolResults = a.pendingToolResults

LEMMA SameTalkIsWhole ==
  ASSUME NEW a, NEW b, Whole(a), SameTalk(a, b)
  PROVE  Whole(b)
  BY DEF Whole, SameTalk, EndsWith

(* Events that change nothing else of the conversation either ... *)
Steady(a, b) ==
  /\ SameTalk(a, b)
  /\ b.pendingMessages = a.pendingMessages
  /\ b.inferenceCall = a.inferenceCall
  /\ b.interrupted = a.interrupted

(* ... and those that give up what was staged. *)
Unstages(a, b) ==
  /\ SameTalk(a, b)
  /\ b.pendingMessages = <<>>
  /\ b.inferenceCall = NoCall
  /\ b.interrupted \in {NoCall, a.inferenceCall, a.interrupted}

LEMMA SteadyOps ==
  ASSUME NEW a \in Agent
  PROVE  /\ Steady(a, a)
         /\ Steady(a, AgentPaused(a))
         /\ Steady(a, AgentResumed(a))
         /\ Steady(a, OnStartCompleted(a))
         /\ Steady(a, CompletionHandled(a))
         /\ \A c : Steady(a, ToolStarted(a, c))
<1> USE DEF Agent, Steady, SameTalk
<1>1. Steady(a, a)
  OBVIOUS
<1>2. Steady(a, AgentPaused(a)) /\ Steady(a, AgentResumed(a))
  BY DEF AgentPaused, AgentResumed
<1>3. Steady(a, OnStartCompleted(a)) /\ Steady(a, CompletionHandled(a))
  BY DEF OnStartCompleted, CompletionHandled
<1>4. ASSUME NEW c PROVE Steady(a, ToolStarted(a, c))
  BY DEF ToolStarted
<1> QED BY <1>1, <1>2, <1>3, <1>4

LEMMA UnstagingOps ==
  ASSUME NEW a \in Agent
  PROVE  /\ Unstages(a, InferenceFailed(a))
         /\ Unstages(a, InferenceRetried(a))
         /\ (a.pendingMessages # <<>> => a.inferenceCall # NoCall) => Unstages(a, SessionRestarted(a))
<1> USE DEF Agent, Unstages, SameTalk
<1>1. Unstages(a, InferenceFailed(a)) /\ Unstages(a, InferenceRetried(a))
  BY DEF InferenceFailed, InferenceRetried
<1>2. ASSUME a.pendingMessages # <<>> => a.inferenceCall # NoCall
      PROVE  Unstages(a, SessionRestarted(a))
  <2> DEFINE b == SessionRestarted(a)
  <2>1. /\ b.pendingToolResults = a.pendingToolResults /\ b.history = a.history
        /\ b.pendingToolCalls = a.pendingToolCalls
        /\ b.inferenceCall = NoCall /\ b.interrupted \in {NoCall, a.inferenceCall, a.interrupted}
    BY DEF SessionRestarted
  <2>2. b.pendingMessages = <<>>
    BY <1>2 DEF SessionRestarted
  <2> HIDE DEF b
  <2>3. Unstages(a, b)
    BY <2>1, <2>2
  <2> QED BY <2>3 DEF b
<1> QED BY <1>1, <1>2

(* A result takes the place of its call. *)
LEMMA FinishedIsWhole ==
  ASSUME NEW a \in Agent, NEW n \in Nat, Whole(a), Tidy(a, n), NEW c \in Range(a.pendingToolCalls)
  PROVE  /\ Whole(ToolFinished(a, c))
         /\ ToolFinished(a, c).pendingMessages = a.pendingMessages
         /\ ToolFinished(a, c).inferenceCall = a.inferenceCall
         /\ ToolFinished(a, c).interrupted = a.interrupted
         /\ ToolFinished(a, c).history = a.history
<1> DEFINE b == ToolFinished(a, c)
           calls == a.pendingToolCalls
           rs == a.pendingToolResults
           w == Without(calls, c)
<1>1. /\ b.history = a.history /\ b.pendingMessages = a.pendingMessages
      /\ b.pendingToolCalls = w /\ b.pendingToolResults = Append(rs, c)
      /\ b.inferenceCall = a.inferenceCall /\ b.interrupted = a.interrupted
  BY DEF ToolFinished, Agent
<1>2. calls \in Seq(ToolCall) /\ rs \in Seq(ToolCall) /\ Distinct(calls) /\ Distinct(rs) /\ c \notin Range(rs)
  BY DEF Agent, Tidy, Distinct, Whole, Results
<1>3. c \in ToolCall /\ c \in Range(calls)
  <2>1. \A i \in DOMAIN calls : calls[i] \in ToolCall
    BY <1>2, LenProperties, ElementOfSeq
  <2> QED BY <2>1 DEF Range
<1> HIDE DEF b, calls, rs, w
<1>4. Range(w) = Range(calls) \ {c}
  <2>1. \A d \in Range(w) : d \in Range(calls) /\ d # c
    BY <1>2, WithoutDistinct DEF w, Distinct
  <2>2. PICK i \in 1..Len(calls) :
          /\ calls[i] = c
          /\ DOMAIN w = 1..(Len(calls) - 1)
          /\ \A k \in 1..(Len(calls) - 1) : w[k] = calls[IF k < i THEN k ELSE k + 1]
    BY <1>2, <1>3, WithoutElements DEF w
  <2>3. Len(calls) \in Nat /\ DOMAIN calls = 1..Len(calls)
    BY <1>2, LenProperties
  <2>4. ASSUME NEW d \in Range(calls), d # c PROVE d \in Range(w)
    <3>1. PICK j \in 1..Len(calls) : calls[j] = d
      BY <2>3 DEF Range
    <3>2. j # i
      BY <2>2, <2>4, <3>1
    <3>3. CASE j < i
      <4>1. j \in 1..(Len(calls) - 1) /\ w[j] = d
        BY <2>2, <2>3, <3>1, <3>3
      <4> QED BY <2>2, <4>1 DEF Range
    <3>4. CASE j > i
      <4>1. j - 1 \in 1..(Len(calls) - 1) /\ ~(j - 1 < i) /\ (j - 1) + 1 = j
        BY <2>3, <3>4
      <4>2. w[j - 1] = d
        BY <2>2, <3>1, <4>1
      <4> QED BY <2>2, <4>1, <4>2 DEF Range
    <3> QED BY <3>2, <3>3, <3>4
  <2> QED BY <2>1, <2>4
<1>5. Range(Append(rs, c)) = Range(rs) \union {c}
  <2>1. <<c>> \in Seq(ToolCall)
    BY <1>3
  <2>2. Append(rs, c) = rs \o <<c>>
    BY <1>2, <1>3, AppendIsConcat
  <2>3. Range(<<c>>) = {c}
    BY RangeOfOne
  <2>4. Range(rs \o <<c>>) = Range(rs) \union Range(<<c>>)
    BY <1>2, <2>1, RangeConcatenation, ZenonT(30)
  <2> QED BY <2>2, <2>3, <2>4
<1>6. Distinct(Append(rs, c))
  <2>1. /\ Len(rs) \in Nat /\ DOMAIN rs = 1..Len(rs) /\ Append(rs, c) \in Seq(ToolCall)
        /\ Len(Append(rs, c)) = Len(rs) + 1
        /\ (\A i \in 1..Len(rs) : Append(rs, c)[i] = rs[i])
        /\ Append(rs, c)[Len(rs) + 1] = c
    BY <1>2, <1>3, LenProperties, AppendProperties
  <2>2. DOMAIN Append(rs, c) = 1..(Len(rs) + 1)
    BY <2>1, LenProperties
  <2>3. \A i \in 1..Len(rs) : rs[i] # c
    BY <1>2, <2>1 DEF Range
  <2>4. \A i \in 1..(Len(rs) + 1) : i \in 1..Len(rs) \/ i = Len(rs) + 1
    BY <2>1
  <2>5. \A i, j \in 1..Len(rs) : rs[i] = rs[j] => i = j
    BY <1>2, <2>1 DEF Distinct
  <2> DEFINE s == Append(rs, c)
             m == Len(rs)
  <2>6. \A i, j \in 1..(m + 1) : s[i] = s[j] => i = j
    <3> SUFFICES ASSUME NEW i \in 1..(m + 1), NEW j \in 1..(m + 1), s[i] = s[j] PROVE i = j
      OBVIOUS
    <3>1. CASE i \in 1..m /\ j \in 1..m
      BY <2>1, <2>5, <3>1
    <3>2. CASE i \in 1..m /\ j = m + 1
      BY <2>1, <2>3, <3>2
    <3>3. CASE i = m + 1 /\ j \in 1..m
      BY <2>1, <2>3, <3>3
    <3> QED BY <2>4, <3>1, <3>2, <3>3
  <2> QED BY <2>2, <2>6 DEF Distinct
<1>7. Range(Append(rs, c)) \union Range(w) = Range(rs) \union Range(calls)
  BY <1>3, <1>4, <1>5
<1>8. calls # <<>>
  BY <1>3, NoEntries
<1>9. PICK P \in Seq(Entry) : Talk(P) /\ EndsWith(a, P)
  BY <1>8 DEF Whole, calls
<1>10. EndsWith(b, P)
  BY <1>1, <1>7, <1>9 DEF EndsWith, calls, rs
<1>11. Whole(b)
  BY <1>1, <1>6, <1>9, <1>10 DEF Whole
<1> QED BY <1>1, <1>11 DEF b

(* The calls of a committed response are the ones that are pending. *)
LEMMA CompletedIsWhole ==
  ASSUME NEW a \in Agent, NEW r \in Response, Talk(a.history \o a.pendingMessages)
  PROVE  LET b == InferenceCompleted(a, ToolCalls(r))
         IN  /\ Whole(b)
             /\ b.history = (a.history \o a.pendingMessages) \o <<AssistantEntry(Range(ToolCalls(r)))>>
             /\ b.pendingMessages = <<>> /\ b.inferenceCall = NoCall /\ b.interrupted = NoCall
<1> DEFINE b == InferenceCompleted(a, ToolCalls(r))
           P == a.history \o a.pendingMessages
<1>1. /\ b.history = P \o <<AssistantEntry(Range(ToolCalls(r)))>>
      /\ b.pendingMessages = <<>> /\ b.pendingToolCalls = ToolCalls(r)
      /\ b.pendingToolResults = <<>> /\ b.inferenceCall = NoCall /\ b.interrupted = NoCall
  BY DEF InferenceCompleted, Agent
<1>2. P \in Seq(Entry)
  <2>1. a.history \in Seq(Entry) /\ a.pendingMessages \in Seq(Entry)
    BY DEF Agent
  <2> QED BY <2>1, ConcatProperties
<1> HIDE DEF b, P
<1>3. Range(<<>>) \union Range(ToolCalls(r)) = Range(ToolCalls(r))
  BY NoEntries
<1>4. EndsWith(b, P)
  BY <1>1, <1>3 DEF EndsWith
<1>5. Distinct(b.pendingToolResults)
  BY <1>1 DEF Distinct
<1>6. Whole(b)
  BY <1>2, <1>4, <1>5 DEF Whole, P
<1> QED BY <1>1, <1>6 DEF b, P

-----------------------------------------------------------------------------
(* Staged messages and the call log *)

Asked(input) == agent.history \o Staged(input)

(* What the call log holds of a request is what was asked, as long as it may be replayed. *)
LogAnswers(id, input) == \A r \in callLog : r.id = id => r.asked = Asked(input)

AgentTalk ==
  /\ Whole(agent)
  /\ agent.pendingMessages # <<>> => agent.inferenceCall # NoCall
  /\ LogAnswers(agent.inferenceCall.id, agent.inferenceCall.input)
  /\ LogAnswers(agent.interrupted.id, agent.interrupted.input)

(* Where messages may be staged. *)
Staging == pc \in {"llm", "afterInference", "commit", "retry", "drop", "fail", "down"}

LoopTalk ==
  /\ ~Staging => agent.pendingMessages = <<>>
  /\ AtTool => turn.tool \in Range(agent.pendingToolCalls)
  /\ pc = "start" =>
       /\ turn.input.results = agent.pendingToolResults
       /\ LogAnswers(turn.call, turn.input)
       /\ turn.response.id # 0 => turn.response \in callLog
  /\ AtReply =>
       /\ agent.pendingMessages = Staged(turn.input)
       /\ agent.inferenceCall = [id |-> turn.call, input |-> turn.input]
       /\ agent.interrupted = NoCall
       /\ turn.response.asked = Asked(turn.input)
       /\ Talk(Asked(turn.input))

TalkInv == AgentTalk /\ LoopTalk

LEMMA SteadyKeepsTalk ==
  ASSUME TalkInv, Steady(agent, agent'), callLog' = callLog,
         Staging => Staging',
         AtTool' => AtTool /\ turn'.tool = turn.tool,
         pc' = "start" => pc = "start" /\ turn' = turn,
         AtReply' => /\ AtReply /\ turn'.input = turn.input /\ turn'.call = turn.call
                     /\ turn'.response.asked = turn.response.asked
  PROVE  TalkInv'
<1>1. \A input : Asked(input)' = Asked(input)
  BY DEF Asked, Steady, SameTalk
<1>2. \A id, input : LogAnswers(id, input) => LogAnswers(id, input)'
  BY <1>1 DEF LogAnswers
<1>3. Whole(agent')
  BY SameTalkIsWhole DEF TalkInv, AgentTalk, Steady
<1>4. AgentTalk'
  BY <1>2, <1>3 DEF TalkInv, AgentTalk, Steady
<1>5. LoopTalk'
  BY <1>1, <1>2 DEF TalkInv, LoopTalk, Steady, SameTalk
<1> QED BY <1>4, <1>5 DEF TalkInv

(* What was staged is given up, and the loop is at no tool and at no request. *)
LEMMA UnstagingKeepsTalk ==
  ASSUME TalkInv, ToolInv, Unstages(agent, agent'), callLog' = callLog,
         ~AtTool', pc' # "start", ~AtReply'
  PROVE  TalkInv'
<1>1. \A input : Asked(input)' = Asked(input)
  BY DEF Asked, Unstages, SameTalk
<1>2. \A id, input : LogAnswers(id, input) => LogAnswers(id, input)'
  BY <1>1 DEF LogAnswers
<1>3. Whole(agent')
  BY SameTalkIsWhole DEF TalkInv, AgentTalk, Unstages
<1>4. LogAnswers(NoCall.id, NoCall.input)'
  <2>1. \A r \in callLog : r.id # 0
    BY DEF ToolInv, Logged
  <2> QED BY <2>1, NoEntries DEF LogAnswers
<1>5. LogAnswers(agent.interrupted.id, agent.interrupted.input)'
  <2>1. agent'.interrupted \in {NoCall, agent.inferenceCall, agent.interrupted}
    BY DEF Unstages
  <2>2. CASE agent'.interrupted = NoCall
    BY <1>4, <2>2
  <2>3. CASE agent'.interrupted = agent.inferenceCall
    BY <1>2, <2>3 DEF TalkInv, AgentTalk
  <2>4. CASE agent'.interrupted = agent.interrupted
    BY <1>2, <2>4 DEF TalkInv, AgentTalk
  <2> QED BY <2>1, <2>2, <2>3, <2>4
<1>6. AgentTalk'
  BY <1>3, <1>4, <1>5 DEF AgentTalk, Unstages
<1>7. LoopTalk'
  BY DEF LoopTalk, Unstages
<1> QED BY <1>6, <1>7 DEF TalkInv

LEMMA DecisionTalk ==
  ASSUME TypeInv, TalkInv,
         \/ DecideNothing \/ DecideOnStart \/ DecideTool \/ DecideBackOff \/ DecideResume
         \/ DecideInfer \/ DecideComplete \/ Resume
  PROVE  TalkInv'
<1>1. agent \in Agent /\ turn \in Turn
  BY DEF TypeInv, TypeOK
<1>2. Steady(agent, agent')
  <2>1. CASE Resume
    BY <1>1, <2>1, SteadyOps DEF Resume
  <2>2. CASE ~Resume
    <3>1. agent' = agent
      BY <2>2 DEF DecideNothing, DecideOnStart, DecideTool, DecideBackOff, DecideResume,
                  DecideInfer, DecideComplete, durable
    <3> QED BY <1>1, <3>1, SteadyOps
  <2> QED BY <2>1, <2>2
<1>3. CASE ~DecideTool
  <2>1. /\ callLog' = callLog /\ pc \in {"top", "resume"}
        /\ pc' \in {"idle", "top", "onStart", "resume", "beforeInference", "onComplete"}
    BY <1>3 DEF DecideNothing, DecideOnStart, DecideBackOff, DecideResume, DecideInfer, DecideComplete,
                Resume, EndTurn, Emit, Resumes, durable
  <2>2. ~Staging /\ ~AtTool' /\ pc' # "start" /\ ~AtReply'
    BY <2>1 DEF Staging, AtTool, AtReply
  <2> QED BY <1>2, <2>1, <2>2, SteadyKeepsTalk
<1>4. CASE DecideTool
  <2>1. /\ UNCHANGED <<agent, callLog>> /\ pc = "top" /\ pc' = "beforeToolCall"
        /\ turn' = [turn EXCEPT !.tool = Head(agent.pendingToolCalls)]
        /\ agent.pendingToolCalls # <<>>
    BY <1>4 DEF DecideTool, durable, Decision
  <2>2. turn'.tool = Head(agent.pendingToolCalls)
    BY <1>1, <2>1 DEF Turn
  <2>3. Head(agent.pendingToolCalls) \in Range(agent.pendingToolCalls)
    <3>1. agent.pendingToolCalls \in Seq(ToolCall)
      BY <1>1 DEF Agent
    <3>2. Len(agent.pendingToolCalls) \in Nat \ {0} /\ DOMAIN agent.pendingToolCalls = 1..Len(agent.pendingToolCalls)
      BY <2>1, <3>1, EmptySeq, LenProperties
    <3>3. Head(agent.pendingToolCalls) = agent.pendingToolCalls[1]
      BY <2>1, <3>1
    <3> QED BY <3>2, <3>3 DEF Range
  <2>4. AgentTalk'
    BY <2>1 DEF TalkInv, AgentTalk, LogAnswers, Asked
  <2>5. ~Staging /\ pc' # "start" /\ ~AtReply'
    BY <2>1 DEF Staging, AtReply
  <2>6. LoopTalk'
    BY <2>1, <2>2, <2>3, <2>5 DEF TalkInv, LoopTalk
  <2> QED BY <2>4, <2>6 DEF TalkInv
<1> QED BY <1>3, <1>4

LEMMA HookTalk ==
  ASSUME TypeInv, TalkInv,
         \/ HandlerPause \/ OnPauseDone \/ OnStartHooks \/ OnStartDone \/ OnCompleteHooks
         \/ CompleteDone \/ OnErrorHooks \/ BeforeToolCallHooks \/ ToolStart \/ ToolReturns
  PROVE  TalkInv'
<1>1. agent \in Agent /\ turn \in Turn
  BY DEF TypeInv, TypeOK
<1> USE DEF durable, Emit, Resumes, EmitsNext, EndTurn
<1>2. Steady(agent, agent') /\ callLog' = callLog
  <2>1. CASE HandlerPause \/ OnStartDone \/ CompleteDone \/ ToolStart
    BY <1>1, <2>1, SteadyOps DEF HandlerPause, OnStartDone, CompleteDone, ToolStart
  <2>2. CASE ~(HandlerPause \/ OnStartDone \/ CompleteDone \/ ToolStart)
    <3>1. agent' = agent /\ callLog' = callLog
      BY <2>2 DEF OnPauseDone, OnStartHooks, OnCompleteHooks, OnErrorHooks, BeforeToolCallHooks,
                  ToolReturns, HookPauses
    <3> QED BY <1>1, <3>1, SteadyOps
  <2> QED BY <2>1, <2>2
<1>3. ~Staging /\ pc' # "start" /\ ~AtReply'
  <2>1. CASE HandlerPause \/ OnPauseDone \/ OnStartHooks \/ OnStartDone \/ OnCompleteHooks
    BY <2>1 DEF HandlerPause, OnPauseDone, OnStartHooks, OnStartDone, OnCompleteHooks, HookPauses,
                Staging, AtReply
  <2>2. CASE CompleteDone \/ OnErrorHooks \/ BeforeToolCallHooks \/ ToolStart \/ ToolReturns
    BY <2>2 DEF CompleteDone, OnErrorHooks, BeforeToolCallHooks, ToolStart, ToolReturns, HookPauses,
                Staging, AtReply
  <2> QED BY <2>1, <2>2
<1>4. AtTool' => AtTool /\ turn'.tool = turn.tool
  <2>1. CASE HandlerPause \/ ToolStart
    BY <2>1 DEF HandlerPause, ToolStart, AtTool
  <2>2. CASE OnPauseDone
    <3>1. \/ pc' \in {"top", "idle"}
          \/ /\ pc = "onPause" /\ turn.hook = "afterToolCall" /\ pc' = "toolDone"
             /\ turn' = [turn EXCEPT !.hook = "none"]
      BY <2>2 DEF OnPauseDone
    <3>2. turn' = [turn EXCEPT !.hook = "none"] => turn'.tool = turn.tool
      BY <1>1, HookKeepsTurn
    <3> QED BY <3>1, <3>2 DEF AtTool
  <2>3. CASE OnStartHooks \/ CompleteDone
    BY <2>3 DEF OnStartHooks, CompleteDone, AtTool
  <2>4. CASE OnStartDone
    <3>1. pc' = "top" \/ (pc' = "pause" /\ turn' = turn /\ turn.hook = "onStart")
      BY <2>4 DEF OnStartDone
    <3> QED BY <3>1 DEF AtTool
  <2>5. CASE OnCompleteHooks \/ OnErrorHooks
    <3>1. \/ pc' \in {"completeDone", "top"}
          \/ \E hook \in {"onComplete", "onError"} : pc' = "pause" /\ turn' = [turn EXCEPT !.hook = hook]
      BY <2>5 DEF OnCompleteHooks, OnErrorHooks, HookPauses
    <3>2. ASSUME NEW hook \in {"onComplete", "onError"}, turn' = [turn EXCEPT !.hook = hook]
          PROVE  turn'.hook = hook
      BY <1>1, <3>2, HookKeepsTurn
    <3> QED BY <3>1, <3>2 DEF AtTool
  <2>6. CASE BeforeToolCallHooks \/ ToolReturns
    <3>1. AtTool
      BY <2>6 DEF BeforeToolCallHooks, ToolReturns, AtTool
    <3>2. turn' = turn \/ \E hook \in AllHooks : turn' = [turn EXCEPT !.hook = hook]
      BY <2>6 DEF BeforeToolCallHooks, ToolReturns, HookPauses, AllHooks
    <3>3. ASSUME NEW hook, turn' = [turn EXCEPT !.hook = hook] PROVE turn'.tool = turn.tool
      BY <1>1, <3>3, HookKeepsTurn
    <3> QED BY <3>1, <3>2, <3>3
  <2> QED BY <2>1, <2>2, <2>3, <2>4, <2>5, <2>6
<1> QED BY <1>2, <1>3, <1>4, SteadyKeepsTalk

-----------------------------------------------------------------------------
(* The request in flight *)

(* A request is fresh, or the one the call log answers for the same input. *)
LEMMA BeforeInferenceTalk ==
  ASSUME TypeInv, ToolInv, TalkInv, BeforeInferenceHooks
  PROVE  TalkInv'
<1>1. agent \in Agent /\ turn \in Turn /\ requests \in Nat /\ callLog \subseteq Response
  BY DEF TypeInv, TypeOK
<1>2. UNCHANGED <<agent, callLog>> /\ pc = "beforeInference" /\ pc' \in {"pause", "start"}
  BY DEF BeforeInferenceHooks, HookPauses, Emit, durable
<1>3. ~Staging /\ ~AtReply'
  BY <1>2 DEF Staging, AtReply
<1>4. Steady(agent, agent')
  BY <1>1, <1>2, SteadyOps
<1>5. CASE HookPauses("beforeInference")
  <2>1. pc' = "pause" /\ turn'.hook = "beforeInference"
    BY <1>1, <1>5, HookKeepsTurn DEF HookPauses, Emit
  <2>2. ~AtTool' /\ pc' # "start"
    BY <2>1 DEF AtTool
  <2> QED BY <1>2, <1>3, <1>4, <2>2, SteadyKeepsTalk
<1>6. CASE ~HookPauses("beforeInference")
  <2> DEFINE input == [results |-> agent.pendingToolResults, msgs |-> turn.input.msgs]
             n == requests + 1
  <2>1. pc' = "start" /\ input.results = agent.pendingToolResults
    BY <1>6 DEF BeforeInferenceHooks, Emit
  <2>2. ~AtTool'
    BY <2>1 DEF AtTool
  <2>3. turn.response.id = 0
    BY DEF BeforeInferenceHooks, ToolInv, AtHand, BeforeRequest
  <2> HIDE DEF input, n
  <2>4. \/ turn' = [turn EXCEPT !.input = input, !.call = n]
        \/ \E r \in Replayable(input) : turn' = [turn EXCEPT !.input = input, !.call = r.id, !.response = r]
    BY <1>6 DEF BeforeInferenceHooks, input, n
  <2>5. /\ turn'.input = input
        /\ LogAnswers(turn'.call, input)
        /\ turn'.response.id # 0 => turn'.response \in callLog
    <3>1. CASE turn' = [turn EXCEPT !.input = input, !.call = n]
      <4>1. turn'.input = input /\ turn'.call = n /\ turn'.response = turn.response
        BY <1>1, <3>1 DEF Turn
      <4>2. \A r \in callLog : r.id # n
        <5>1. n \notin 1..requests
          BY <1>1 DEF n
        <5> QED BY <5>1 DEF ToolInv, Logged
      <4> QED BY <2>3, <4>1, <4>2 DEF LogAnswers
    <3>2. CASE \E r \in Replayable(input) :
                  turn' = [turn EXCEPT !.input = input, !.call = r.id, !.response = r]
      <4>1. PICK r \in callLog : /\ agent.interrupted.id = r.id /\ agent.interrupted.input = input
                                 /\ turn' = [turn EXCEPT !.input = input, !.call = r.id, !.response = r]
        BY <3>2 DEF Replayable
      <4>2. turn'.input = input /\ turn'.call = r.id /\ turn'.response = r
        BY <1>1, <4>1 DEF Turn
      <4>3. LogAnswers(r.id, input)
        BY <4>1 DEF TalkInv, AgentTalk
      <4> QED BY <4>1, <4>2, <4>3
    <3> QED BY <2>4, <3>1, <3>2
  <2>6. \A i, k : LogAnswers(i, k)' <=> LogAnswers(i, k)
    BY <1>2 DEF LogAnswers, Asked
  <2>7. AgentTalk'
    BY <1>2, <2>6 DEF TalkInv, AgentTalk
  <2>8. LoopTalk'
    <3>1. LogAnswers(turn.call, turn.input)'
      BY <1>2, <2>5 DEF LogAnswers, Asked
    <3>2. agent'.pendingMessages = <<>>
      BY <1>2, <1>3 DEF TalkInv, LoopTalk
    <3> QED BY <1>2, <1>3, <2>1, <2>2, <2>5, <3>1, <3>2 DEF LoopTalk
  <2> QED BY <2>7, <2>8 DEF TalkInv
<1> QED BY <1>5, <1>6

(* What is sent is the whole history with the staged messages, and it is paired. *)
LEMMA StartTalk ==
  ASSUME HasCallLog, TypeInv, StatusInv, ToolInv, TalkInv, Start
  PROVE  TalkInv'
<1>1. /\ agent \in Agent /\ turn \in Turn /\ requests \in Nat /\ callLog \subseteq Response
      /\ turn.input \in Input /\ turn.response \in Response
  BY DEF TypeInv, TypeOK, Turn
<1> DEFINE call == [id |-> turn.call, input |-> turn.input]
           staged == Staged(turn.input)
<1>2. /\ agent' = InferenceStarted(agent, staged, call)
      /\ callLog' = callLog /\ pc = "start" /\ pc' \in {"llm", "afterInference"}
      /\ \/ turn' = turn /\ turn.response.id # 0
         \/ turn' = [turn EXCEPT !.response.asked = agent.history \o staged] /\ turn.response.id = 0
  BY DEF Start, Resumes
<1>3. /\ turn.call \in 1..requests /\ turn.response.id \in {0, turn.call}
  BY <1>2 DEF ToolInv, AtHand, AtRequest
<1>4. agent.pendingToolCalls = <<>>
  BY <1>2 DEF StatusInv, CallsResolved, InInference
<1>5. staged \in Seq(Entry) /\ agent.pendingMessages = <<>>
  BY <1>1, <1>2, StagedType DEF TalkInv, LoopTalk, Staging
<1>6. /\ SameTalk(agent, agent') /\ agent'.pendingMessages = staged
      /\ agent'.inferenceCall = call /\ agent'.interrupted = NoCall
  <2>1. /\ SameTalk(agent, agent') /\ agent'.pendingMessages = agent.pendingMessages \o staged
        /\ agent'.inferenceCall = call /\ agent'.interrupted = NoCall
    BY <1>1, <1>2 DEF InferenceStarted, Agent, SameTalk
  <2>2. <<>> \o staged = staged
    BY <1>5, ConcatEmptySeq
  <2> QED BY <1>5, <2>1, <2>2
<1>7. call.id = turn.call /\ call.input = turn.input
  OBVIOUS
<1> HIDE DEF call, staged
<1>8. turn'.call = turn.call /\ turn'.input = turn.input
  <2>1. CASE turn' = turn
    BY <2>1
  <2>2. CASE turn' = [turn EXCEPT !.response.asked = agent.history \o staged]
    BY <1>1, <2>2 DEF Turn
  <2> QED BY <1>2, <2>1, <2>2
<1>9. turn'.response.asked = agent.history \o staged
  <2>1. CASE turn' = turn /\ turn.response.id # 0
    <3>1. turn.response \in callLog /\ LogAnswers(turn.call, turn.input) /\ turn.response.id = turn.call
      BY <1>2, <1>3, <2>1 DEF TalkInv, LoopTalk
    <3>2. turn.response.asked = agent.history \o staged
      BY <3>1 DEF LogAnswers, Asked, staged
    <3> QED BY <2>1, <3>2
  <2>2. CASE turn' = [turn EXCEPT !.response.asked = agent.history \o staged]
    BY <1>1, <2>2 DEF Turn, Response
  <2> QED BY <1>2, <2>1, <2>2
<1>10. Talk(agent.history \o staged)
  <2>1. turn.input.results = agent.pendingToolResults
    BY <1>2 DEF TalkInv, LoopTalk
  <2> QED BY <1>1, <1>4, <2>1, WholeThenStaged DEF TalkInv, AgentTalk, staged
<1>11. agent'.history = agent.history /\ Asked(turn.input)' = agent.history \o staged
  <2>1. agent'.history = agent.history
    BY <1>6 DEF SameTalk
  <2> QED BY <1>8, <2>1 DEF Asked, staged
<1>12. LogAnswers(agent.inferenceCall.id, agent.inferenceCall.input)'
  <2>1. LogAnswers(turn.call, turn.input)
    BY <1>2 DEF TalkInv, LoopTalk
  <2> QED BY <1>2, <1>6, <1>7, <1>11, <2>1 DEF LogAnswers, Asked
<1>13. LogAnswers(agent.interrupted.id, agent.interrupted.input)'
  <2>1. \A r \in callLog : r.id # 0
    BY DEF ToolInv, Logged
  <2> QED BY <1>2, <1>6, <2>1, NoEntries DEF LogAnswers
<1>14. Whole(agent')
  BY <1>6, SameTalkIsWhole DEF TalkInv, AgentTalk
<1>15. agent'.inferenceCall # NoCall
  <2>1. call.id # 0
    BY <1>3, <1>7
  <2> QED BY <1>6, <2>1, NoEntries
<1>16. AgentTalk'
  BY <1>12, <1>13, <1>14, <1>15 DEF AgentTalk, LogAnswers, Asked
<1>17. LoopTalk'
  <2>1. Staging' /\ ~AtTool' /\ pc' # "start"
    BY <1>2 DEF Staging, AtTool
  <2>2. agent'.pendingMessages = Staged(turn'.input) /\ agent'.inferenceCall = [id |-> turn'.call, input |-> turn'.input]
    BY <1>6, <1>8 DEF call, staged
  <2> QED BY <1>6, <1>9, <1>10, <1>11, <2>1, <2>2 DEF LoopTalk
<1> QED BY <1>16, <1>17 DEF TalkInv

LEMMA RespondTalk ==
  ASSUME TypeInv, ToolInv, TalkInv, LlmResponds
  PROVE  TalkInv'
<1>1. turn \in Turn /\ requests \in Nat /\ callLog \subseteq Response
  BY DEF TypeInv, TypeOK
<1>2. PICK n \in 0..MaxTools :
        LET r == [id |-> turn.call, tools |-> n, asked |-> turn.response.asked]
        IN  /\ turn' = [turn EXCEPT !.response = r]
            /\ callLog' = callLog \/ callLog' = callLog \union {r}
  BY DEF LlmResponds
<1>3. agent' = agent /\ pc = "llm" /\ pc' = "afterInference"
  BY DEF LlmResponds
<1> DEFINE r == [id |-> turn.call, tools |-> n, asked |-> turn.response.asked]
<1>4. /\ turn'.call = turn.call /\ turn'.input = turn.input /\ turn'.response = r
      /\ callLog' \subseteq callLog \union {r} /\ r.id = turn.call /\ r.asked = turn.response.asked
  BY <1>1, <1>2 DEF Turn
<1> HIDE DEF r
<1>5. /\ agent.inferenceCall = [id |-> turn.call, input |-> turn.input] /\ agent.interrupted = NoCall
      /\ turn.response.asked = Asked(turn.input) /\ turn.call \in 1..requests
  BY <1>3 DEF TalkInv, LoopTalk, AtReply, ToolInv, AtHand, AtRequest
<1>6. \A input : Asked(input)' = Asked(input)
  BY <1>3 DEF Asked
<1>7. LogAnswers(agent.inferenceCall.id, agent.inferenceCall.input)'
  <2>1. LogAnswers(turn.call, turn.input)
    BY <1>5 DEF TalkInv, AgentTalk
  <2>2. agent'.inferenceCall.id = turn.call /\ agent'.inferenceCall.input = turn.input
    BY <1>3, <1>5
  <2> QED BY <1>4, <1>5, <1>6, <2>1, <2>2 DEF LogAnswers
<1>8. LogAnswers(agent.interrupted.id, agent.interrupted.input)'
  <2>1. \A q \in callLog \union {r} : q.id # 0
    BY <1>1, <1>4, <1>5 DEF ToolInv, Logged
  <2>2. agent'.interrupted.id = 0
    BY <1>3, <1>5, NoEntries
  <2> QED BY <1>4, <2>1, <2>2 DEF LogAnswers
<1>9. AgentTalk'
  BY <1>3, <1>7, <1>8 DEF TalkInv, AgentTalk
<1>10. LoopTalk'
  <2>1. Staging' /\ ~AtTool' /\ pc' # "start" /\ AtReply
    BY <1>3 DEF Staging, AtTool, AtReply
  <2> QED BY <1>3, <1>4, <1>6, <2>1 DEF TalkInv, LoopTalk
<1> QED BY <1>9, <1>10 DEF TalkInv

(* The reply of a turn joins the conversation it answers. *)
LEMMA CommitTalk ==
  ASSUME TypeInv, ToolInv, TalkInv, Commit
  PROVE  /\ TalkInv'
         /\ agent'.history = turn.response.asked \o <<AssistantEntry(Range(ToolCalls(turn.response)))>>
<1>1. agent \in Agent /\ turn.response \in Response
  BY DEF TypeInv, TypeOK, Turn
<1>2. /\ agent' = InferenceCompleted(agent, ToolCalls(turn.response)) /\ callLog' = callLog
      /\ pc = "commit"
      /\ pc' \in {"consume", "top"} \/ (pc' = "pause" /\ turn'.hook = "afterInference")
  BY DEF Commit, AfterConsume, EmitsNext, Resumes
<1>3. /\ agent.pendingMessages = Staged(turn.input) /\ turn.response.asked = Asked(turn.input)
      /\ Talk(Asked(turn.input))
  BY DEF Commit, TalkInv, LoopTalk, AtReply
<1>4. /\ agent.history \o agent.pendingMessages = turn.response.asked
      /\ Talk(agent.history \o agent.pendingMessages)
  BY <1>3 DEF Asked
<1>5. /\ Whole(agent') /\ agent'.pendingMessages = <<>>
      /\ agent'.history = (agent.history \o agent.pendingMessages)
                             \o <<AssistantEntry(Range(ToolCalls(turn.response)))>>
      /\ agent'.inferenceCall = NoCall /\ agent'.interrupted = NoCall
  BY <1>1, <1>2, <1>4, CompletedIsWhole
<1>6. AgentTalk'
  <2>1. \A r \in callLog' : r.id # 0
    BY <1>2 DEF ToolInv, Logged
  <2> QED BY <1>5, <2>1, NoEntries DEF AgentTalk, LogAnswers
<1>7. ~AtTool' /\ ~AtReply' /\ pc' # "start"
  BY <1>2 DEF AtTool, AtReply
<1>8. LoopTalk'
  BY <1>5, <1>7 DEF LoopTalk
<1> QED BY <1>4, <1>5, <1>6, <1>8 DEF TalkInv

-----------------------------------------------------------------------------
LEMMA InitTools == Init => ToolInv
<1> SUFFICES ASSUME Init PROVE ToolInv
  OBVIOUS
<1>1. /\ agent = Spawned /\ pc = "idle" /\ callLog = {} /\ requests = 0
  BY DEF Init
<1>2. Results(agent) = {} /\ Awaited(agent) = {0} /\ agent.pendingToolCalls = <<>>
  BY <1>1, NoEntries DEF Spawned, Results, Awaited
<1>3. Tidy(agent, requests)
  BY <1>1, <1>2, NoEntries DEF Tidy
<1>4. AtHand
  BY <1>1 DEF AtHand, AtTool, BeforeRequest, AtRequest
<1> QED BY <1>1, <1>3, <1>4 DEF ToolInv, Logged

LEMMA RequestTalk ==
  ASSUME HasCallLog, TypeInv, StatusInv, ToolInv, TalkInv,
         \/ BeforeInferenceHooks \/ Start \/ LlmResponds \/ LlmFailsRetryably \/ LlmFailsFatally
         \/ Drop \/ Fail \/ AfterInferenceHooks \/ Retry \/ Commit \/ Consume
  PROVE  TalkInv'
<1>1. agent \in Agent /\ turn \in Turn
  BY DEF TypeInv, TypeOK
<1>2. CASE BeforeInferenceHooks \/ Start \/ LlmResponds \/ Commit
  BY <1>2, BeforeInferenceTalk, StartTalk, RespondTalk, CommitTalk
<1>3. CASE LlmFailsRetryably \/ LlmFailsFatally \/ Drop
  <2>1. UNCHANGED <<agent, callLog>> /\ pc' \in {"fail", "drop"}
    BY <1>3 DEF LlmFailsRetryably, LlmFailsFatally, Drop, Emit, EmitsNext, durable
  <2>2. Staging' /\ ~AtTool' /\ pc' # "start" /\ ~AtReply'
    BY <2>1 DEF Staging, AtTool, AtReply
  <2> QED BY <1>1, <2>1, <2>2, SteadyOps, SteadyKeepsTalk
<1>4. CASE Fail \/ Retry
  <2>1. Unstages(agent, agent') /\ callLog' = callLog
    BY <1>1, <1>4, UnstagingOps DEF Fail, Retry
  <2>2. pc' \in {"onError", "top", "beforeInference"}
    BY <1>4 DEF Fail, Retry, Resumes
  <2>3. ~AtTool' /\ pc' # "start" /\ ~AtReply'
    BY <2>2 DEF AtTool, AtReply
  <2> QED BY <2>1, <2>3, UnstagingKeepsTalk
<1>5. CASE AfterInferenceHooks
  <2>1. /\ UNCHANGED <<agent, callLog>> /\ pc = "afterInference" /\ pc' \in {"commit", "retry"}
        /\ turn' = turn \/ turn' = [turn EXCEPT !.hook = "afterInference"]
    BY <1>5 DEF AfterInferenceHooks, Emit, durable
  <2>2. turn'.input = turn.input /\ turn'.call = turn.call /\ turn'.response = turn.response
    <3>1. CASE turn' = turn
      BY <3>1
    <3>2. CASE turn' = [turn EXCEPT !.hook = "afterInference"]
      BY <1>1, <3>2, HookKeepsTurn
    <3> QED BY <2>1, <3>1, <3>2
  <2>3. Staging' /\ ~AtTool' /\ pc' # "start" /\ AtReply
    BY <2>1 DEF Staging, AtTool, AtReply
  <2> QED BY <1>1, <2>1, <2>2, <2>3, SteadyOps, SteadyKeepsTalk
<1>6. CASE Consume
  <2>1. /\ UNCHANGED <<agent, callLog>> /\ pc = "consume"
        /\ pc' = "top" \/ (pc' = "pause" /\ turn'.hook = "afterInference")
    BY <1>6 DEF Consume, AfterConsume, EmitsNext, Resumes
  <2>2. ~Staging /\ ~AtTool' /\ pc' # "start" /\ ~AtReply'
    BY <2>1 DEF Staging, AtTool, AtReply
  <2> QED BY <1>1, <2>1, <2>2, SteadyOps, SteadyKeepsTalk
<1> QED BY <1>2, <1>3, <1>4, <1>5, <1>6

LEMMA ToolDoneTalk ==
  ASSUME TypeInv, ToolInv, TalkInv, ToolDone
  PROVE  TalkInv'
<1>1. agent \in Agent /\ requests \in Nat
  BY DEF TypeInv, TypeOK
<1>2. /\ agent' = ToolFinished(agent, turn.tool) /\ callLog' = callLog
      /\ pc = "toolDone" /\ pc' \in {"top", "idle"}
  BY DEF ToolDone, EndTurn
<1>3. turn.tool \in Range(agent.pendingToolCalls)
  BY <1>2 DEF TalkInv, LoopTalk, AtTool
<1>4. /\ Whole(agent') /\ agent'.history = agent.history
      /\ agent'.pendingMessages = agent.pendingMessages
      /\ agent'.inferenceCall = agent.inferenceCall /\ agent'.interrupted = agent.interrupted
  BY <1>1, <1>2, <1>3, FinishedIsWhole DEF TalkInv, AgentTalk, ToolInv
<1>5. \A id, input : LogAnswers(id, input) => LogAnswers(id, input)'
  BY <1>2, <1>4 DEF LogAnswers, Asked
<1>6. AgentTalk'
  BY <1>4, <1>5 DEF TalkInv, AgentTalk
<1>7. ~Staging /\ ~AtTool' /\ pc' # "start" /\ ~AtReply'
  BY <1>2 DEF Staging, AtTool, AtReply
<1>8. LoopTalk'
  BY <1>4, <1>7 DEF TalkInv, LoopTalk
<1> QED BY <1>6, <1>8 DEF TalkInv

(* No append is refused and nobody rewinds. *)
Unfaulted == budget.appendFailures = 0 /\ operator.call # "agents.rewind"

LEMMA StepUnfaulted ==
  ASSUME "agents.rewind" \notin Operations, TypeInv, Unfaulted, [Next]_vars
  PROVE  Unfaulted' /\ ~AppendFails
<1>1. budget \in Budgets /\ budget.appendFailures = 0
  BY DEF TypeInv, TypeOK, Unfaulted
<1>2. operator'.call # "agents.rewind"
  BY NoRewindCalled DEF Unfaulted
<1>3. ~AppendFails
  <2> SUFFICES ASSUME Spend("appendFailures") PROVE FALSE
    BY DEF AppendFails
  <2>1. budget.appendFailures > 0
    BY DEF Spend
  <2> QED BY <1>1, <2>1
<1> DEFINE Kinds == {"toolTurns", "retryable", "fatal", "pauses", "hookRetries", "rewinds", "crashes"}
<1>4. budget' = budget \/ \E kind \in Kinds : Spend(kind)
  <2>1. CASE LoopStep
    <3>1. CASE \/ DecideNothing \/ DecideOnStart \/ DecideTool \/ DecideBackOff \/ DecideResume
               \/ DecideInfer \/ DecideComplete \/ Resume \/ HandlerPause \/ OnPauseDone
               \/ OnStartHooks \/ OnStartDone \/ OnCompleteHooks \/ CompleteDone
      BY <3>1 DEF DecideNothing, DecideOnStart, DecideTool, DecideBackOff, DecideResume, DecideInfer,
                  DecideComplete, Resume, HandlerPause, OnPauseDone, OnStartHooks, OnStartDone,
                  OnCompleteHooks, CompleteDone, HookPauses
    <3>2. CASE \/ BeforeInferenceHooks \/ Start \/ LlmResponds \/ LlmFailsRetryably \/ LlmFailsFatally
               \/ Drop \/ Fail \/ OnErrorHooks
      BY <3>2 DEF BeforeInferenceHooks, Start, LlmResponds, LlmFailsRetryably, LlmFailsFatally, Drop, Fail,
                  OnErrorHooks, HookPauses
    <3>3. CASE \/ AfterInferenceHooks \/ Retry \/ Commit \/ Consume
               \/ BeforeToolCallHooks \/ ToolStart \/ ToolReturns \/ ToolDone
      BY <3>3 DEF AfterInferenceHooks, Retry, Commit, Consume, BeforeToolCallHooks, ToolStart, ToolReturns,
                  ToolDone, HookPauses
    <3> QED BY <1>3, <2>1, <3>1, <3>2, <3>3 DEF LoopStep
  <2>2. CASE WakeStep \/ (\E m \in Messages : Send(m) \/ SendStep(m))
    BY <2>2 DEF WakeStep, DebounceFires, DebounceCheck, BackoffElapses, RetryFires, Send, SendStep,
                MessageStored, SendSchedules
  <2>3. CASE OperatorCall \/ OperatorStep
    BY <2>3 DEF OperatorCall, OperatorStep, CallPause, CallResume, CallRewind, OperationApplied,
                OperationReturns
  <2>4. CASE Crash \/ Restart \/ UNCHANGED vars
    BY <2>4 DEF Crash, Restart, vars
  <2> QED BY <2>1, <2>2, <2>3, <2>4 DEF Next
<1>5. budget'.appendFailures = 0
  BY <1>1, <1>4, SpendKeepsAppends
<1> QED BY <1>2, <1>3, <1>5 DEF Unfaulted

LEMMA StepTalk ==
  ASSUME "agents.rewind" \notin Operations, HasCallLog,
         TypeInv, StatusInv, ToolInv, Unfaulted, TalkInv, [Next]_vars
  PROVE  TalkInv'
<1>1. agent \in Agent /\ operator.call # "agents.rewind" /\ ~AppendFails
  BY StepUnfaulted DEF TypeInv, TypeOK, Unfaulted
<1>2. CASE LoopStep
  BY <1>1, <1>2, DecisionTalk, HookTalk, RequestTalk, ToolDoneTalk DEF LoopStep
<1>3. CASE Crash
  <2>1. UNCHANGED <<agent, callLog>> /\ pc' = "down"
    BY <1>3 DEF Crash, durable
  <2>2. Staging' /\ ~AtTool' /\ pc' # "start" /\ ~AtReply'
    BY <2>1 DEF Staging, AtTool, AtReply
  <2> QED BY <1>1, <2>1, <2>2, SteadyOps, SteadyKeepsTalk
<1>4. CASE Restart
  <2>1. agent' = SessionRestarted(agent) /\ callLog' = callLog /\ pc' = "top"
    BY <1>4 DEF Restart
  <2>2. Unstages(agent, agent')
    BY <1>1, <2>1, UnstagingOps DEF TalkInv, AgentTalk
  <2>3. ~AtTool' /\ pc' # "start" /\ ~AtReply'
    BY <2>1 DEF AtTool, AtReply
  <2> QED BY <2>1, <2>2, <2>3, UnstagingKeepsTalk
<1>5. CASE ~(LoopStep \/ Crash \/ Restart)
  <2>1. /\ turn' = turn /\ callLog' = callLog
        /\ pc' = pc \/ (pc = "idle" /\ pc' = "top")
        /\ agent' \in {agent, AgentPaused(agent), AgentResumed(agent)}
    <3>1. CASE WakeStep
      BY <3>1 DEF WakeStep, DebounceFires, DebounceCheck, BackoffElapses, RetryFires, durable
    <3>2. CASE \E m \in Messages : Send(m) \/ SendStep(m)
      BY <3>2 DEF Send, SendStep, MessageStored, SendSchedules, durable
    <3>3. CASE OperatorCall
      BY <3>3 DEF OperatorCall, CallPause, CallResume, CallRewind, Calls, durable
    <3>4. CASE OperatorStep
      BY <1>1, <3>4 DEF OperatorStep, OperationApplied, OperationReturns, Continue, durable
    <3>5. CASE UNCHANGED vars
      BY <3>5 DEF vars, durable
    <3> QED BY <1>5, <3>1, <3>2, <3>3, <3>4, <3>5 DEF Next
  <2>2. Steady(agent, agent')
    BY <1>1, <2>1, SteadyOps
  <2>3. /\ Staging => Staging'
        /\ AtTool' => AtTool
        /\ pc' = "start" => pc = "start"
        /\ AtReply' => AtReply
    BY <2>1 DEF Staging, AtTool, AtReply
  <2> QED BY <2>1, <2>2, <2>3, SteadyKeepsTalk
<1> QED BY <1>2, <1>3, <1>4, <1>5

LEMMA InitTalk ==
  ASSUME Init, Budget.appendFailures = 0
  PROVE  TalkInv /\ Unfaulted
<1>1. /\ agent = Spawned /\ callLog = {} /\ pc = "idle" /\ operator = NoOperation /\ budget = Budget
  BY DEF Init
<1>2. Whole(agent) /\ agent.pendingMessages = <<>>
  BY <1>1 DEF Spawned, Whole, Distinct
<1>3. AgentTalk
  BY <1>1, <1>2 DEF AgentTalk, LogAnswers
<1>4. ~AtTool /\ ~AtReply
  BY <1>1 DEF AtTool, AtReply
<1>5. LoopTalk
  BY <1>1, <1>2, <1>4 DEF LoopTalk
<1> QED BY <1>1, <1>3, <1>5 DEF TalkInv, Unfaulted, NoOperation

(* The invariants of a session without refused appends and rewinds. *)
LEMMA TalkInvariant ==
  ASSUME "agents.rewind" \notin Operations, HasCallLog, Budget.appendFailures = 0
  PROVE  Spec => [](TypeInv /\ StatusInv /\ ToolInv /\ Unfaulted /\ TalkInv)
<1>1. Init => ToolInv /\ Unfaulted /\ TalkInv
  BY InitTools, InitTalk
<1>2. TypeInv /\ StatusInv /\ ToolInv /\ Unfaulted /\ TalkInv /\ [Next]_vars => ToolInv' /\ Unfaulted' /\ TalkInv'
  BY StepTools, StepUnfaulted, StepTalk
<1>3. Spec => []StatusInv
  BY StatusInvariant
<1> QED BY <1>1, <1>2, <1>3, TypeCorrect, PTL DEF Spec

(***************************************************************************)
(* What is sent to the provider pairs tool_use and tool_result, whatever   *)
(* pauses, retries, failures, crashes and loads interleave: unless an      *)
(* append is refused or the history is rewound, the history ends with the  *)
(* assistant message whose results are pending, and a turn stages them all.*)
(***************************************************************************)
THEOREM RequestsPairedHolds ==
  ASSUME "agents.rewind" \notin Operations, HasCallLog, Budget.appendFailures = 0
  PROVE  Spec => []RequestsPaired
<1>1. TalkInv => RequestsPaired
  <2> SUFFICES ASSUME TalkInv, pc = "llm" PROVE Paired(turn.response.asked)
    BY DEF RequestsPaired
  <2>1. turn.response.asked = Asked(turn.input) /\ Talk(Asked(turn.input))
    BY DEF TalkInv, LoopTalk, AtReply
  <2> QED BY <2>1 DEF Talk
<1> QED BY <1>1, TalkInvariant, PTL

(***************************************************************************)
(* A reply is committed right after the conversation it answers, also one  *)
(* that a load replays from the call log: what was staged for the request  *)
(* is what the commit moves to the history.                                *)
(***************************************************************************)
THEOREM ReplyFollowsItsRequestHolds ==
  ASSUME "agents.rewind" \notin Operations, HasCallLog, Budget.appendFailures = 0
  PROVE  Spec => ReplyFollowsItsRequest
<1> DEFINE Follows == agent'.history = turn.response.asked
                                         \o <<AssistantEntry(Range(ToolCalls(turn.response)))>>
<1>1. TypeInv /\ ToolInv /\ TalkInv /\ [Next]_vars => [Committing => Follows]_vars
  <2> SUFFICES ASSUME TypeInv, ToolInv, TalkInv, Next, pc = "commit", pc' # "commit", agent' # agent
               PROVE  Follows
    BY DEF Committing
  <2>1. Commit
    <3>1. CASE LoopStep
      <4>1. ~(\/ DecideNothing \/ DecideOnStart \/ DecideTool \/ DecideBackOff \/ DecideResume
              \/ DecideInfer \/ DecideComplete \/ Resume \/ HandlerPause \/ OnPauseDone
              \/ OnStartHooks \/ OnStartDone \/ OnCompleteHooks \/ CompleteDone)
        BY DEF DecideNothing, DecideOnStart, DecideTool, DecideBackOff, DecideResume, DecideInfer,
               DecideComplete, Resume, HandlerPause, OnPauseDone, OnStartHooks, OnStartDone,
               OnCompleteHooks, CompleteDone
      <4>2. ~(\/ BeforeInferenceHooks \/ Start \/ LlmResponds \/ LlmFailsRetryably \/ LlmFailsFatally
              \/ Drop \/ Fail \/ OnErrorHooks)
        BY DEF BeforeInferenceHooks, Start, LlmResponds, LlmFailsRetryably, LlmFailsFatally, Drop, Fail,
               OnErrorHooks
      <4>3. ~(AfterInferenceHooks \/ Retry \/ Consume \/ BeforeToolCallHooks \/ ToolStart \/ ToolReturns
              \/ ToolDone \/ AppendFails)
        BY DEF AfterInferenceHooks, Retry, Consume, BeforeToolCallHooks, ToolStart, ToolReturns, ToolDone,
               AppendFails, durable
      <4> QED BY <3>1, <4>1, <4>2, <4>3 DEF LoopStep
    <3>2. ~(WakeStep \/ (\E m \in Messages : Send(m) \/ SendStep(m)))
      BY DEF WakeStep, DebounceFires, DebounceCheck, BackoffElapses, RetryFires, Send, SendStep,
             MessageStored, SendSchedules, durable
    <3>3. ~(OperatorCall \/ OperatorStep \/ Crash \/ Restart)
      BY DEF OperatorCall, OperatorStep, CallPause, CallResume, CallRewind, Calls, OperationApplied,
             OperationReturns, Crash, Restart, durable
    <3> QED BY <3>1, <3>2, <3>3 DEF Next
  <2> QED BY <2>1, CommitTalk
<1> QED BY <1>1, TalkInvariant, PTL DEF Spec, ReplyFollowsItsRequest

=============================================================================
