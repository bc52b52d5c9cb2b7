# A verification development for roj

roj runs sessions of LLM agents. A session is event sourced: its state is a fold over a durable
log, its agents are loops that append events, and everything else (plugins, hosts, clients) acts
by appending events or by waking agents. The hard part of such a system is not what a handler
computes but what happens between two of its awaits. These modules model that part, TLC checks it
on small instances and TLAPS proves the central properties for every instance. Paths below are
relative to `src/packages/sdk/src` unless they start with `src/`.

`PROJECT.json` holds the same information for tools: components, runs, the source lines behind each
definition, hazards, findings, theorems, and for each checked property a mutation of the code's
model that breaks it.

## 1. Inventory

### Agent run loop: `core/agents/agent.ts`
State: `processing`, `scheduled`, `pendingReschedule`, an interrupted call to replay, the wakes armed
with the scheduler; and the locals of the running turn. Operations: `continue` (runs turns until
`decide` has nothing to do), `scheduleProcessing`, `deliverWake` (debounce, retry), `runInference`,
`executeToolCall`, eight plugin hooks, the backoff after an error, `shutdown`. It reads the session's
projection, appends to the store, calls the provider and the tools, and is called by senders, by the
operator and by the scheduler. Hard: every `await` lets a pause, a resume, a rewind, a message or a
crash in. Correct when no request is malformed, no message is lost or answered by a reply that never
saw it, no tool call runs again once its result is recorded, and no agent with work is left asleep.

### Session reducer: `core/sessions/state.ts`, `core/agents/state.ts`
State: per agent a status, the history, the staged messages, pending tool calls and results, the
inference call in flight, failure counts. Operations: one per event type. Hard: the order of events is
decided by the write queue, so an event may be folded in on a state its author never saw; a load folds
the whole log and then `session_restarted`. Correct when a pause is never overwritten and tool calls
always meet their results.

### SessionStore: `core/sessions/session-store.ts`, over `core/events/event-store.ts`
State: the projection, a promise chain of writes, a fence, a detached flag, a remembered failure.
Operations: `emit`, `emitBatch`, `load`, `waitForIdle`, `whenSettled`, `detach`. Hard: an append may
hang, be refused, fail without saying whether it committed, or commit after its deadline; the runtime
may be disposed and replaced meanwhile; another host may take the log. Correct when what a caller is
told is true, the log keeps the order of the calls, and a projection that is served is current.

### SessionManager and runtime activity: `core/sessions/session-manager.ts`, `runtime-activity.ts`
State: a tenure per activation of a session, a cache entry per runtime ever built in it (loading, ready or
evicting), the runtime's activity (ready, parking, unloading, disposed, revoked) and the leases on it.
Operations: activate, look up and load, create, lease, deliver a wake, close, evict what is idle, park, revoke,
shut down; fork and reopen. Hard: loads, ready hooks, disposals, parks and revocations all await each other.
Correct when at most one runtime stands on the log, a parked or revoked one leaves nothing on it, a leased
one stays resident, every caller is answered and every park settles.

### Event stores: `core/events/file.ts`, `memory.ts`, and the store of the Kompjutr platform
State: the log file, its committed length in memory, `meta.json` and a cache of it, a flag that it lags. Operations:
append and batch, load, range reads, reconciliation. Hard: a crash anywhere in an append, a rollback that fails, counters
written after the log, a session handed to another host. Correct when the store keeps the contract above it and
pollers miss and repeat nothing.

### Session, agents and mailbox plugins: `core/sessions/session.ts`, `plugins/agents`, `plugins/mailbox`
State: the agents of a session, their mailboxes, close and park hooks, a hold. Operations: spawn, send,
pause, resume, rewind, hold and release, fork, supervision ticks. Hard: a resume races the turn it
resumes; a message is consumed only after the reply to it is committed. Correct when each message is
delivered, and twice only if a crash or a refused append fell between the commit and the consumption.

### workers plugin: `plugins/workers/plugin.ts`, `context.ts`
State: worker entries in the projection; in memory the running bodies, launches claimed, and bodies abandoned
after their stop. Operations: spawn, pause, resume, cancel, and the session's ready, park, close and hold-release
hooks. Hard: the projection changes when an event lands and the maps at once; a body may ignore its stop. Correct
when no worker runs twice, one called running has a run, and a stopped one lets the runtime go.

### services plugin: `plugins/services/service.ts`, `pid-registry.ts`
State: an entry per service, starts and stops in flight, retry timers and counters, and a registry of pids on
disk. Operations: start, stop, restart, close, the sweep at boot; the exit of the child, the startup timeout and
the retries come in between. Correct when one process of a service runs at a time, each survivor of a crash is on
record, and a close leaves nothing behind.

### Other stateful plugins
`user-chat` (retried deliveries and answers), `limits-guard` (counters against limits), `uploads` (preprocessing with
its own recovery), `context-compact` (rewrites the history before an inference). Each keeps a projection beside
in-memory handles, and each is correct when the two agree after a crash.

### Schedulers: `platform/scheduler.ts`, `src/packages/isolate-runtime/src/alarm-scheduler.ts`
Keyed wakes: in-process timers, or rows in a durable store with one alarm slot. Hard: an isolate evicted
between writing a row, arming the alarm and finishing a delivery. Correct when every wake that was asked
for and not cancelled is delivered.

### Transport: `src/packages/transport/src`
WebSocket connections that reconnect with backoff and buffer what they cannot send. Correct when there is
one live socket and notifications keep their order.

### The rest
Providers and routing, tools, presets, context rendering, images, the file store, HTTP and RPC, hosts,
CLIs and user interfaces: sequential code or I/O, listed in `PROJECT.json` with the reason each is left out.

## 2. Modules

    AgentReducer            events -> agent state (operators only)
       |
    AgentTurn               the loop, its environment, Spec and FairSpec
       |
    AgentTurnProperties     type invariant and properties
       |            \
    MCAgentTurn      AgentTurnProofs

    EventLog                what a caller of the store may rely on
       ^  refined by        ^  refined by
    SessionStore         FileEventStore     the write queue; the file under it
       |       \            |          \
    MCSessionStore  \    MCFileEventStore  \
               SessionStoreProofs     FileEventStoreProofs

    AlarmScheduler          wakes over one alarm slot (isolate-runtime)
       |            \
    MCAlarmScheduler   AlarmSchedulerProofs

    SessionRuntime          tenures, cache entries, runtimes, leases: who may be on the log
       |
    SessionRuntimeProofs    types; out of service for good
       |
    SessionWriterProofs     one writer, quiet releases, leases kept

    Workers                 worker bodies and their projection
       |       \
    MCWorkers   WorkersProofs

    Services                one service's process, its executor and the pid registry
       |
    ServicesProofs

The modules meet at interfaces rather than in one product. `EventLog` is what `SessionStore` gives its callers and
what `FileEventStore` gives `SessionStore`. The guard under which `SessionStore` loads and reactivates (the old
runtime has nothing unsafe) is what `SessionRuntime` shows of the manager (`SingleWriter`). `AgentTurn` uses the
store as a queue that applies or refuses; `Workers` does the same, and its park, close and load are those of
`SessionRuntime`, seen from one plugin.

### AgentReducer
`Agent` is the part of `AgentState` that control depends on. There is one operator per event, from the
state before it to the state after, and `Decision`, which is `Agent.decide`. A message, a tool call
and a tool result are entries of the history; their text is left out.

### AgentTurn
An action is what runs between two awaits. `store.emit` is two of them: the caller joins the store's
FIFO queue (`Emit`), and a later action applies its event and runs the caller to its next await. `pc` is
where the loop stands and `turn` its locals, in particular the decision and the staged messages it
computed before the event was applied. Up to one event per sender, one of the operator and one of the
loop wait in `queue`.

| code | actions |
| --- | --- |
| `runContinue`, `decide` | `Continue`, `DecideNothing`, `DecideOnStart`, `DecideTool`, `DecideResume`, `DecideInfer`, `DecideComplete`, `EndTurn` |
| `runInference` | `BeforeInferenceHooks`, `Start`, `LlmResponds`, `LlmFailsRetryably`, `LlmFailsFatally`, `Drop`, `Fail`, `OnErrorHooks`, `AfterInferenceHooks`, `Retry`, `Commit`, `Consume` |
| `executeToolCall` | `BeforeToolCallHooks`, `ToolStart`, `ToolReturns`, `ToolDone` |
| other hooks, `emitHandlerPause` | `OnStartHooks`, `OnStartDone`, `OnCompleteHooks`, `CompleteDone`, `HandlerPause`, `OnPauseDone` |
| `scheduleProcessing`, wakes, backoff | `ScheduleProcessing`, `DebounceFires`, `DebounceCheck`, `RetryFires`, `BackoffElapses` |
| `mailbox.send` | `Send`, `MessageStored`, `SendSchedules` |
| pause, resume, rewind | `CallPause`, `CallResume`, `CallRewind`, `OperationApplied`, `OperationReturns` |
| a rejected append, a crash, a load | `AppendFails`, `Crash`, `Restart` |

Left out: runtime leases, closing, context compaction, dequeue gates, spawning and other agents,
`handler_completed` events the reducer ignores, `agent_input_consumed` (they add waits and no state),
and `beforeInference` answering `skip`, which no plugin of the repository does. A turn aborted by
`shutdown` emits nothing more and is a `Crash` here.

### SessionStore and EventLog
`pending` is the promise chain (`tail`), `running` says whether its head called `append`, `appending` holds
the appends the event store has not answered, whether or not their deadline passed. `runtime` and `lost`
are what the Session and the tenure add: a store that fences revokes its runtime, a load waits until the
old runtime has no unsafe writes, a park drains the queue and detaches. A batch commits as a whole, so one
log entry is one call of `emit` or `emitBatch`. The event store is external: an append commits or not at any time until it is answered,
and its outcome is then settled (`core/events/event-store.ts:24-43`). Listeners follow the projection and
are left out. `EventLog` has the log and one answer per write: refused writes never commit, successful
ones have, and the remaining answers promise nothing.

### AlarmScheduler
`wakes` and `retries` are the rows in the isolate's KV store, `slot` the host's alarm; these survive an eviction.
`armedAt`, `tail` (the chain of reconcile calls, each labelled with who awaits it), `writing`, `target` and how far
`alarm()` is (`phase`, `due`) do not. `asked` is what callers are owed and belongs to the specification, not the code.
`Wake`, `Cancel` and the suspension are the callers' operations; `AlreadyArmed`, `StartWrite`, `WriteSucceeds` and `WriteFails` are
`applyAlarm`; `AlarmFires`, `Delivered`, `DeliveryThrows`, `AllDelivered` and `FlushEnds` are `deliverWakes`; `FetchFlushes`
is the flush of a request; `Boot` is a new isolate. Time is relative (ticks left until due), so the clock needs no bound. The host
is external, with three assumptions: KV rows are durable when written, a slot write takes effect together with its answer (so no
alarm is delivered before the answer to the write that set it), and a rejected write left the slot alone.

### SessionRuntime
One session id in one process. `tenures` and `current` are `SessionManager.tenures`; `entries` are all cache entries ever made,
each a record of what the code spreads over `SessionCacheEntry`, `Session`, its store and its `RuntimeActivity`; `resident` is
`sessions.get(id)`. A caller (`acquireSessionLease`, `withWakeTarget`, `createSession`) is a program counter over the awaits of
`getSession`. `load` is the progress of an entry's promise, `job` that of its park, `disposal` that of `performDisposal`.

| code | actions |
| --- | --- |
| `activateSession`, `parkSession`, `revokeSession`, `shutdown` | `Activate`, `BeginPark`, `RevokeSession`, `ShutdownBegins`, `ShutdownDisposes`, `ShutdownEnds` |
| `getSession`, its callers | `Ask`, `LookupEvicts`, `Unloaded`, `LoadAwaited`, `LoadAwaitFails`, `Acquire`, `DeliverWake`, `Release` |
| `loadSession`, `createSession`, `createSessionInstance` | `LoadReads`, `LoadBuilds`, `Recovered`, `RecoveryFails`, `CreateAppends`, `CreateLands`, `SessionStarts`, `HooksEnd`, `HooksThrow`, `Unwound` |
| `evictIdleSessions`, a close, `performDisposal`, `forgetEntry` | `SweepBegins`, `SweepDisposes`, `CloseSession`, `DisposalStarts`, `DisposalEnds`, `Forget` |
| `parkEntry`, `performPark` | `ParkLoaded`, `ParkUnloaded`, `ParkHooksEnd`, `ParkDrains`, `ParkCleanupEnds`, `ParkSettles`, `ParkResolves`, `ParkRejects` |
| writes, a fence, local cleanup | `WriteStarts`, `WriteSettles`, `WriteFences`, `CleanupEnds` |

`LateRecovery` is FALSE in the runs; see section 6.

### FileEventStore
`lines` and `torn` are the bytes of `events.jsonl`, `meta` is `meta.json`; `sizes`, `stale` and `cache` are the fields of one store object per
host. An append is `AppendBegins`, `TakesSize`, `AppendProgresses` (half a line at a time), then `AppendEnds` and `UpdatesMetadata`, or `AppendFails` and
`RollBack`; a load is `LoadReads` and `Reconciles`. `RangeOf` is `readRange`, evaluated on every state. The abstract log of the refinement is the
history of writes whose last line lies in what an append or a load has established as committed.

### Workers
`entry` and `queue` are the projection and the events on their way to it; `running`, `launching` and `abandoned` are the plugin's maps, `body` the
calls of `executeWorker`. `Spawn`, `Resume`, `Cancel` and `Pause` begin a call, `Launches`, `StopWaits`, `StopEnds` and `Answers` go on with it after an
await; `Enters`, `Progresses`, `Returns`, `Reports`, `Finishes` and `Ends` are a body; `ParkBegins`, `ParkWaits`, `CloseBegins`, `Leaves`, `Crash`, `LoadBegins`,
`LoadLaunches` and `LoadEnds` the session.

### Services
`entry` is `RunningService` by process and `current` the process `services` maps the type to, so an entry that was replaced is still there for the
child's listeners. `start`, `stop` and `close` are the calls in flight (each map holds at most one per service), `revival` and `portRetry` the timers,
`registry` the record on disk, `forgets` and `late` its deletions, `lateRecords` the writes of it that outlived their deadline. `os` is external: a process exits when it likes, or after it was killed.
`lost` names the processes that a failed signal put out of reach, `unrecorded` those whose record failed or was undone by a write nobody waits for
(`Undoes`). All properties leave the lost ones out; the unrecorded ones are left out of `SurvivorsAreRecorded`, and of the others only once
their runtime is gone and nothing in the model knows of them.

## 3. Runs

| run | question | states |
| --- | --- | --- |
| `AgentTurn_core` | the safety of a turn with two tool calls, a retrying hook, pauses from an operator and from hooks, a failure for good, a crash | 7.2 million |
| `AgentTurn_faults` | the same under provider failures, a refused append, a rewind, six pausing hooks and a polling debounce | 4.3 million |
| `AgentTurn_liveness` | is every stored message consumed, or its agent paused? | 0.3 million |
| `SessionStore` | the store's safety under every fault it handles; does it implement `EventLog`, and does every emit settle? | 0.9 million |
| `AlarmScheduler` | are wakes kept, covered and delivered around failing writes, throwing deliveries, an eviction and a suspension? | 0.6 million |
| `SessionRuntime_safety` | one runtime on the log at a time, nothing left by a tenure that ended, leases kept | 0.7 million |
| `SessionRuntime_liveness` | is every caller answered, and does every park settle? | 0.1 million |
| `FileEventStore` | is the log whole, are range reads exact, does the store implement `EventLog`? | 0.5 million |
| `Workers` | one run per worker, no running worker without one, no lease pinned by a stopped one | 5.2 million |
| `Services` | one process at a time, on record, none left by a close, no transition without an end | 0.3 million |
| `AgentTurn_pause`, `Workers_result` | statements of the repository's comments and tests that the code does not keep (section 6) | counterexamples |

Bounds. `Budget` (`AgentTurn`) and `MaxUpsets`, `MaxFaults` (elsewhere) count what the environment may still do, so that state is finite
without bounding what the code may do in answer. Two messages are enough for a message to arrive at every point of a turn
that works on another; two tool calls for a turn to stop between them; one pause, crash, rewind or refused
append for each pair of (fault, point of the turn). In `AgentTurn_faults` two retryable failures let a second one find
the wake of the first; the session's resume is called there and the agents plugin's in `AgentTurn_core`. In `SessionStore` three writes that commit and one empty batch give a writer that
runs, one queued behind it and one called later; a poison write is one whose event the reducer throws on; one foreign entry
is enough to move the log past a stale projection. In `SessionRuntime_safety` two activations and two runtimes give an old runtime and
its successor, of the same tenure or the next; two upsets let any two of a park, an eviction, a failure, a shutdown and a revocation meet. The liveness
run has one activation. `FileEventStore` has a creating batch, another batch and two single events,
so a torn batch, a torn line and whole lines can lie behind one another, and three faults, for a crash during the repair of what an earlier fault
left. `Workers` has two bodies per runtime, for a resume beside a body that ignored its stop, and room for one of its two
workers, so that a spawn meets the limit. `Services` has two processes and one upset: a process, its
successor and one thing that goes wrong. Messages, ordinary writes, workers and calls are interchangeable and are
declared symmetric in runs that check no liveness; in `SessionStore`, which checks it, the second of two alike writes is not called before the first,
a restriction of the environment alone, which no fairness obliges to call.

Deadlock. The systems stop when nobody sends and budgets are spent, so `CHECK_DEADLOCK FALSE`. That nothing is
stuck with work to do is `NoLostWakeup`, `MessagesAreHandled`, `EveryEmitSettles` and `EveryWakeIsDelivered`.

Fairness. `AgentTurn!FairSpec` assumes what the event loop gives (continuations run, timers fire, the store
applies what is queued), that the provider and tools answer, that a backoff elapses, and that a
host loads a crashed session again. Nobody is obliged to send, to pause or to resume. `SessionStore!FairSpec`
assumes only that microtasks run and the append deadline fires: the event store owes no answer.
`AlarmScheduler!FairSpec` assumes that slot writes are answered, the alarm and the clock come, deliveries end, and
something starts an evicted isolate again (its alarm, or a request when it died before the alarm was set). Two keys, a delay of 0,
one clamped to 0 and one longer than the retry delay let any wake be drained with, before or after another and a retry
come due before a wake. `SessionRuntime!FairSpec` assumes that what a load, a hook, a write, a disposal or a park awaits comes to an end and that a lease
is returned; nobody has to park or evict. `Services!FairSpec` assumes that the executor goes on, that resolvers and the registry settle (by answer or
deadline), and that a killed process goes; none has to become ready or to heed SIGTERM. `Workers!FairSpec`, which only makes the
counterexample one of a system that goes on, obliges no body to return.

## 4. Properties

Agent turns: `StatusMatchesToolCalls` and `RequestsPaired` (a provider never sees a tool call without its result),
`ReplyFollowsItsRequest` (a reply is committed onto the history its request was built from, also when it is
replayed from the call log after a crash), `ConsumedOnceCommitted` and `DeliveredOncePerFault` (a message leaves the mailbox
only once the history holds it or its own request failed for good, and enters the history twice only after a crash or a
refused append), `ToolRunsUntilRecorded` (a tool whose result is recorded is not started again),
`ScheduledHasWake`, `NoLostWakeup`, `MessagesAreHandled`.

Store: `StateFollowsLog`, `ProjectionIsCurrent`, `AnswersAreTrue`, `WritesInCallOrder`,
`NothingLandsAfterPark`, `EveryEmitSettles`, `ImplementsEventLog`.

Alarm scheduler: `WakesSurvive` (no eviction loses a wake), `Covered` (the alarm comes no later than any row),
`NoSpuriousDelivery`, `EveryWakeIsDelivered`. The last is claimed until a slot write fails or the isolate is suspended: when the write before
a dispatch fails, `deliverDue` rejects with the host's alarm already cleared, and only a later entry point flushes.

Session runtime: `SingleWriter` (from reading the log until the store is detached and its last write settled, runtimes do not
overlap), `ReleasedIsQuiet` (what a park or a revocation leaves behind), `LeaseKeepsResident`, `NeverBackInService`, `EveryCallAnswered`,
`EveryParkSettles`.

File event store: `LogIsWhole` (acknowledged writes are whole, refused ones absent, lines never glued), `RangesAreExact` (a poller gets the events
after its cursor under their own indices), `KeepsTheContract`.

Workers: `OneRunPerWorker`, `RunningHasRun`, `StoppedLetsGo`, and `ResultIsKept`, which fails. Services: `OneProcess`, `SurvivorsAreRecorded`,
`ClosedIsEmpty`, `TransitionsEnd`.

Each is stated above its definition. `NoLostWakeup` and `MessagesAreHandled` are checked without refused
appends: after one the turn ends in whatever status it had, and only the next load reschedules it.
`RequestsPaired`, `ReplyFollowsItsRequest` and `ConsumedOnceCommitted` are checked without rewinds, the first two without refused appends too: `agents.rewind` splices
the history under a turn in flight and drops what it staged, and no document promises otherwise.

## 5. Proofs

`AgentTurnProofs` proves, for any set of messages, any number of tool calls, any hooks, operations and budgets:

- `TypesHold`, from the stronger `TypeInv` (`TypeCorrect`): besides types it says that a rewind under way starts inside the
  history, which a shorter one would turn into a history that is no sequence of entries.
- `StatusMatchesToolCallsHolds`. Inductive with `TypeInv` alone: the reducers keep it whatever the order of events.
- `ScheduledHasWakeHolds`.
- `NoLostWakeupHolds`, under `"session.resume" \notin Operations`, no `debounceCallback` and no refused append.
  Each assumption is needed: section 6, items 3 to 5, says how the code breaks it without.
- `ToolRunsUntilRecordedHolds`. `ToolInv`: a pending call occurs once and has no result in the history, staged or pending; the
  call the loop stands at has none; and a request that may still be committed (the turn's, the agent's, or the one a load would
  replay from the call log) has named no call yet. The last part is what keeps a replayed response from naming a finished call.
- `ConsumedOnceCommittedHolds`, under `"agents.rewind" \notin Operations`: a rewind may take back what the turn in flight has
  staged. `CommittedInv`: the turn's messages are staged from `inference_started` to the commit, and in the history from there
  until they are consumed.
- `DeliveredOncePerFaultHolds`, under no assumption. `DeliveryInv` counts: a message that is still in the mailbox will be staged
  once more, so the times it is in the history or staged are at most the faults so far, unless it is on its way in this very turn; then one
  more. It also says that a turn's messages are in the mailbox until it consumes them, and that a send waits in the queue once.
  The counts rest on `OccConcat` and `OccPart`: occurrences add up under concatenation, and a rewind never raises them.
- `RequestsPairedHolds` and `ReplyFollowsItsRequestHolds`, without `agents.rewind`, with a call log and without refused appends. `TalkInv`
  adds to `ToolInv` what each part of the state holds of the conversation. `Whole`: the history is paired, but for a last assistant message whose calls are
  exactly the pending ones and those whose result is pending. `AgentTalk`: nothing stays staged outside a turn, so that a load finds it in
  the call it interrupts; what the call log holds under a name that may be replayed was asked with just that input. `LoopTalk`: from
  `inference_started` to the commit what is staged is the turn's input, and the response in hand answers the history with it. The step that matters
  is `TalkThenResults`: the results of an assistant message, put right after it, complete a paired conversation. The hypotheses are all needed, for both
  properties: in the instance of the core run with any one of them dropped, TLC finds a request and a commit that break them (section 6, items 5 and 17).

`SessionStoreProofs` proves all of the store's safety, and `Implements`: `Spec => EventLog!LogSpec` under the
mapping of answers, where a detached write counts as one of unknown outcome. The inductive invariants are
`RuntimeInv` (how fences, disposal, park and load exclude each other), `QueueInv` (the queue is in call order, everything in it
is unanswered, only its head may be in flight, an append that outlived its deadline implies a fence), `OrderInv` (what is committed was called before what is queued) and
`ProjectionInv` (the log is ahead of an accepting store by the one append it waits for). TLC checked each of them as an invariant
before it was proved. For any sets of writes, poison and empty ones, and any number of foreign entries.

`AlarmSchedulerProofs` proves the scheduler's safety for any keys, delays, retry delay and budgets. `TypeInv` says that at most one
reconcile is awaited by `alarm()`, the one of its phase; `SlotInv` that rows change only with a reconcile queued behind any write under
way, or go away, so that a last write covers what is left (with Ticks shifting all times alike); `CleanInv` that without faults a
retry row belongs to a running delivery. `WakesSurvive` is inductive with `TypeInv`.

`SessionRuntimeProofs` proves `TypesHold` and `NeverBackInServiceHolds` for any callers and any number of activations, runtimes and upsets,
`LateRecovery` included. Each thing that may befall an entry (a forced unload, an eviction, a revocation, a forget, a park's steps) takes its
activity forward or leaves it. The last step of a park sets `disposed` whatever was there; that it never meets a revoked runtime is the part of the
invariant that has to be inductive (a revocation ends the park it meets, and a park does not start on what is revoked), beside that callers and the
cache name entries that were made.

`SessionWriterProofs` proves `SingleWriterHolds` (where `LateRecovery = FALSE`), `ReleasedIsQuietHolds` and `LeaseKeepsResidentHolds`, again for any number of
tenures and runtimes, from `WInv`, whose parts are: `Fits` (how far a load, a job, a disposal and the activity of one entry can be at once), `Leases`
(the leases of an activity are the callers that hold them), `Tenancy` (only the current tenure has entries that are loading or in service), `Pendings` (a tenure being
parked is no longer active), `Order` (entries are made in turn, and the one on the log and the one in the cache are the last made),
`Residency` (what left the cache is past its reads and takes no writes, unless revoked) and `Calls` (what a call believes of its entry between two awaits). `SoleWriter` is what the code gives without the assumption: of two entries on the log,
one is the orphan of a recovery write. `SingleWriter` follows where there is none; item 6 of section 6 says why the assumption is needed.

`FileEventStoreProofs` proves `LogIsWholeHolds`, `RangesAreExactHold` and `KeepsTheContractHolds`, for any writes of any length, hosts and faults. `FileInv` says
that the lines beyond what an append found are its own, in order; that what the host that loaded last holds as committed is the length of the log, unless its own append is under way
or its repair is owed; and that the counters equal the log's length or are known to be stale. The refinement needs two more invariants: `Decided`, that beyond what is
established as committed lie the lines of at most one write, which is asked or was answered with unknown outcome, and `Ranked`, that writes end in the file in the order the history lists
them, so that a load or an append adds at most one write to the abstract log, at its end.

`WorkersProofs` proves `TypesHold`, `OneRunPerWorkerHolds`, `StoppedLetsGoHolds` and `RunningHasRunHolds` for any workers and calls and any number of runs, parks and closes.
`IInv` says that the claim a resume takes on `pendingLaunches` keeps two launches of a worker apart; that the projection keeps a
launch apart from a run that already exists, since a run is known, listed and unstopped, or stopped and on its way out; and that each event in the
queue is awaited by the call, load or run it names, so that applying it moves only that one. It assumes, beyond what the code needs, that the names of calls
and of the host are not run numbers. `RunningHasRun` takes `TruthInv` besides: a worker called running is at work, about to be launched by
someone who will get there, or the subject of an event in the queue that puts the projection right.

`ServicesProofs` proves `OneProcessHolds`, `SurvivorsAreRecordedHolds` and `ClosedIsEmptyHolds`, and the types, for any number of children, any
limits of retries and any number of failed signals, failed or late records, reloads and crashes. None of the three is inductive. `RunInv` says who may run in
each stage: the child a start has spawned and not yet entered, the child the service names, or one whose reap outlives a close. `StartInv`
says that a start reaches its spawn only once what it supersedes is spent (killed, gone or out of reach) and its record deleted, and `RecordInv`
that no deletion is under way while a process runs and that no earlier child can ask for another one: its deletion is done, or its exit was handled. A
record or a deletion that lands after its deadline, and a deletion of an older runtime, undo whatever is on record by then; that process is `unrecorded`, which
`SurvivorsAreRecorded` excepts, as it does one whose own record failed: without the exception TLC finds the behaviour of section 6, item 11. `Spec` without fairness is enough for all four.

Every safety invariant and action property of the passing runs is so stated by a theorem. Only model-checked: liveness (`MessagesAreHandled`,
`EveryEmitSettles`, `EveryWakeIsDelivered`, `EveryCallAnswered`, `EveryParkSettles`, `TransitionsEnd`), which with ENABLED is out of the
prover's reach, as is induction over data. No module uses RECURSIVE.

## 6. Where code and documents disagree

With a run that shows it:

1. `AgentTurn_pause`: a pause folded in between the decision to infer and `inference_started`, or before
   `inference_failed`, is overwritten (`core/sessions/state.ts:252`, `:304`), although `session.ts:405` says a
   pause holds until a resume and the other inference and tool reducers preserve it.
2. `Workers_result`: `workers.cancel` checks the projection, then waits for the body to stop, and then overwrites the
   result that body reported meanwhile (`plugins/workers/plugin.ts:803-814`), although the comment at `:801` names just this as
   what the check prevents.

Met while modelling, and kept out of the runs as assumptions:

3. `performResumeAgent` calls `agent.continue()`, a no-op while the paused turn still winds
   down (`session.ts:376`, `agent.ts:280`); the resumed agent then has work and no wake. `NoLostWakeup` is checked for `agents.resume`.
4. With a `debounceCallback`, `runDebounceCheck` ignores pending tool calls and cancels the
   schedule of an agent resumed into them (`agent.ts:493`). `NoLostWakeup` is checked without a callback.
5. Without an `llmLogger`, an agent paused during its inference keeps its staged messages
   across a load and stages them again (`core/sessions/state.ts:448`). `ReplyFollowsItsRequest` and `RequestsPaired` are checked with a call log.
6. `SessionCacheEntry` says its store is looked at where there is no runtime yet (`session-manager.ts:146`), and `isUnsafe` does; `activate` (`:214`) and
   `beginPark` (`:244`, `:264`) ask `entry.runtime?.hasUnsafeResources()` only. A recovery write that outlives its deadline then belongs to an entry
   without a runtime, and the next tenure may load beside it: `SingleWriter` fails with `LateRecovery = TRUE`.
7. A park between the first line of `evictIdleSessions` and its await finds an activity already unloading and no eviction, and rejects for good, like
   one that meets a close (`session-manager.ts:1681`, `:284`); the host has to revoke.
8. `readRange` labels a tail by the counters. If those lag and their repair fails too, the events carry indices that are too low
   (`core/events/file.ts:370-427` against `event-store.ts`, "Index of first returned event"). `RangesAreExact` is about a session whose load succeeded.
9. A crash in the middle of a batch leaves a prefix of it (`core/events/file.ts:198-225`; the README of the package names the gap). `KeepsTheContract` counts a
   write as committed once its last line is there.
10. A cancel that overlaps a resume leaves an entry "running" with no configuration, and two overlapping pauses with a resume between them leave one "paused" whose
    body runs (`plugins/workers/plugin.ts:796-853`). `RunningHasRun` asks only for what a relaunch could use.
11. The pid record is keyed by service. A deletion that outlived its deadline, or one from a child of an older runtime of the same session, deletes the record of
    the successor (`plugins/services/service.ts:207`, `:820`). A record that outlived its deadline is not cancelled either (`:663-683`, `:250`): the start kills its
    child and fails, the next one records its own, and the late write (`pid-registry.ts:74`) puts the dead child's pid over it. The comment at `service.ts:669`
    takes care of the child, and `pidForgets` (`:207`) orders only deletions before a record. A crash then leaves a process that no sweep knows of; only the
    reconcile of `onSessionReady`, should the session be loaded again, would find it. The model counts that successor as `unrecorded`.
12. A stop that fails after the one-shot startup timer ran out restores `starting`, which nothing ends any more (`service.ts:777-802`, `:1350-1359`).
    `TransitionsEnd` excludes it (`upsets > 0`).
13. A stop of a failed service beside a start in flight answers Ok, and the service starts nevertheless (`service.ts:1001`, `:1322-1341`).
14. `pauseAgentsWithWork` pauses a session's agents one event at a time (`session.ts:409-418`): a crash in between leaves interrupted work partly held,
    which the next load does not recognise (`session-manager.ts:953-963` against the comment at `:121-131`). Not modelled.
15. `answerQuestion` checks `answered` before its append and has no call in flight to join, as `sendMessage` has (`plugins/user-chat/plugin.ts:853-883`, `:762-842`). Not modelled.
16. `ClientConnection.connect`: if the socket factory throws at once, the rejected promise is stored after it was cleared, and every later `connect` returns
    it; during a reconnect, `connect` opens a second socket (`client-connection.ts:53-67`, `:162-172`). Not modelled.
17. An `inference_completed` that is refused leaves its messages staged, as in item 5, and the next turn stages them again; an `agents.rewind` during a tool call takes
    the assistant message away, and the result of the tool is recorded and sent all the same (`plugins/agents/plugin.ts:364-384` has no guard for it). Both properties are checked and proved without either.

## 7. Not modelled, and the plan

Not modelled because a model would only restate it: HTTP and RPC plumbing, adapters, the UI packages, the CLI, builders, presets,
content rendering, tools over I/O. Not modelled yet, most important first:

1. The hold of interrupted work and the user's side of a session: `pauseAgentsWithWork`, `releaseHold`, `user-chat` with its retried deliveries and
   answers (items 14 and 15), over `SessionRuntime`'s loads.
2. Several agents: spawn, reports to a parent, supervision, over an abstract turn that `AgentTurn` is shown to implement.
3. `Transport`: the client's connection state machine and the send buffer (item 16).
4. Fork and reopen in `SessionRuntime`; limits-guard, uploads, context compaction and dequeue gates.
