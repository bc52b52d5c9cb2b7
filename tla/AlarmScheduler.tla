--------------------------- MODULE AlarmScheduler ---------------------------
(***************************************************************************)
(* The scheduler of an isolate with one alarm slot                         *)
(* (src/packages/isolate-runtime/src/alarm-scheduler.ts), with what drives *)
(* it: callers that wake and cancel, the host's alarm, entry points that   *)
(* flush (runtime.ts), an eviction of the isolate and its next start.      *)
(*                                                                         *)
(* Rows move synchronously and survive an eviction.  The slot is written   *)
(* asynchronously by one reconcile at a time, each against the rows as     *)
(* they stand when it runs; `tail` is the promise chain of those calls.    *)
(*                                                                         *)
(* Time is relative: a time is how many ticks are left, 0 is due (the      *)
(* drain slack is below a tick), None is no time.  Wakes long due are not  *)
(* told apart.  The host is external: a slot write takes effect and is     *)
(* answered in one step, so an alarm is never delivered before the answer  *)
(* to the write that set it, and a rejected write has not changed the slot. *)
(* It delivers one alarm at a time (alarm-scheduler.ts:196).               *)
(***************************************************************************)
EXTENDS Integers, Sequences, FiniteSets

CONSTANTS
  Keys,        \* wake keys
  Delays,      \* delays a caller may ask for, in ticks
  RetryDelay,  \* inFlightRetryMs, in ticks
  Budget       \* how often the environment may do what it may do

Budgets == [calls : Nat, throws : Nat, failures : Nat, evictions : Nat, suspends : Nat]

ASSUME AlarmAssumption ==
  /\ Delays \subseteq Int
  /\ RetryDelay \in Nat \ {0}
  /\ Budget \in Budgets

None  == -1
Times == Nat \union {None}

VARIABLES
  slot,        \* the host's alarm
  wakes, retries,  \* the persisted rows: when each key is due
  alive,       \* is there an isolate?
  armedAt,     \* what it believes the slot holds
  tail,        \* the reconcile calls not yet settled, each by who awaits it
  writing,     \* has the first of them called setAlarm or deleteAlarm?
  target,      \* ... and for which time
  suspended,
  phase,       \* how far alarm() is: "idle", "rearm", "deliver", "settle", "flush" or "last"
  due,         \* the keys deliverDue drained and has not delivered
  asked,       \* what callers are owed: "no", "yes", or "again" for a wake asked for
               \* while the key's delivery was already under way
  budget

rows    == <<wakes, retries>>
writer  == <<armedAt, writing, target>>
isolate == <<alive, suspended>>
drain   == <<phase, due>>
vars    == <<slot, rows, writer, tail, isolate, drain, asked, budget>>

Waiters == {"caller", "rearm", "settle", "last"}

Init ==
  /\ slot = None /\ wakes = [k \in Keys |-> None] /\ retries = [k \in Keys |-> None]
  /\ alive = TRUE /\ armedAt = None /\ tail = <<>>
  /\ writing = FALSE /\ target = None
  /\ suspended = FALSE /\ phase = "idle" /\ due = {}
  /\ asked = [k \in Keys |-> "no"]
  /\ budget = Budget

Spend(what) == budget[what] > 0 /\ budget' = [budget EXCEPT ![what] = @ - 1]

RowTimes == ({wakes[k] : k \in Keys} \union {retries[k] : k \in Keys}) \ {None}

IsEarliest(t) ==
  IF RowTimes = {} THEN t = None ELSE t \in RowTimes /\ \A r \in RowTimes : t <= r

Reconcile(waiter) == tail' = Append(tail, waiter)

-----------------------------------------------------------------------------
(* Callers.  A suspended scheduler ignores them.                           *)

(* Seeded fault: a negative delay is kept. *)
DueIn_Unclamped(delay) == delay

DueIn(delay) == IF delay > 0 THEN delay ELSE 0

Wake(k, delay) ==
  /\ alive /\ Spend("calls") /\ ~suspended
  /\ wakes' = [wakes EXCEPT ![k] = DueIn(delay)]
  /\ Reconcile("caller")
  /\ asked' = [asked EXCEPT ![k] = IF k \in due THEN "again" ELSE "yes"]
  /\ UNCHANGED <<slot, retries, writer, isolate, drain>>

Cancel(k) ==
  /\ alive /\ Spend("calls") /\ ~suspended
  /\ wakes[k] # None
  /\ wakes' = [wakes EXCEPT ![k] = None]
  /\ Reconcile("caller")
  /\ asked' = [asked EXCEPT ![k] = "no"]
  /\ UNCHANGED <<slot, retries, writer, isolate, drain>>

SuspendBegins ==
  /\ alive /\ ~suspended /\ Spend("suspends")
  /\ suspended' = TRUE
  /\ UNCHANGED <<slot, rows, writer, tail, alive, drain, asked>>

SuspendEnds ==
  /\ suspended /\ suspended' = FALSE
  /\ UNCHANGED <<slot, rows, writer, tail, alive, drain, asked, budget>>

\* No delivery is under way any more.
Interrupted == [k \in Keys |-> IF asked[k] = "again" THEN "yes" ELSE asked[k]]

-----------------------------------------------------------------------------
(* applyAlarm, run for the head of the tail.                               *)

\* What the awaited reconcile lets deliverDue and flush do next.
Continue(waiter, ok) ==
  phase' = CASE waiter = "caller" -> phase
             [] waiter = "rearm"  -> IF ~ok THEN "idle" ELSE IF due = {} THEN "flush" ELSE "deliver"
             [] waiter = "settle" -> IF ok THEN "flush" ELSE "idle"
             [] waiter = "last"   -> "idle"

Settles(ok) ==
  /\ tail' = Tail(tail)
  /\ Continue(Head(tail), ok)
  /\ IF Head(tail) = "rearm" /\ ~ok   \* deliverDue rejects before it delivers anything
     THEN due' = {} /\ asked' = Interrupted
     ELSE UNCHANGED <<due, asked>>
  /\ writing' = FALSE /\ target' = None
  /\ UNCHANGED <<rows, isolate>>

AlreadyArmed ==
  /\ tail # <<>> /\ ~writing
  /\ IsEarliest(armedAt)
  /\ Settles(TRUE)
  /\ UNCHANGED <<slot, armedAt, budget>>

StartWrite ==
  /\ tail # <<>> /\ ~writing
  /\ ~IsEarliest(armedAt)
  /\ \E t \in RowTimes \union {None} : IsEarliest(t) /\ target' = t
  /\ writing' = TRUE
  /\ UNCHANGED <<slot, rows, armedAt, tail, isolate, drain, asked, budget>>

WriteSucceeds ==
  /\ writing
  /\ slot' = target /\ armedAt' = target
  /\ Settles(TRUE)
  /\ UNCHANGED budget

WriteFails ==
  /\ writing /\ Spend("failures")
  /\ Settles(FALSE)
  /\ UNCHANGED <<slot, armedAt>>

-----------------------------------------------------------------------------
(* The host's alarm(): deliverDue, then flush.                             *)

DueBy(times) == {k \in Keys : times[k] = 0}

\* A drained key has a retry row until its delivery ends.
Drain ==
  /\ due' = DueBy(wakes) \union DueBy(retries)
  /\ wakes' = [k \in Keys |-> IF k \in due' THEN None ELSE wakes[k]]
  /\ retries' = [k \in Keys |-> IF k \in due' THEN RetryDelay ELSE retries[k]]
  /\ Reconcile("rearm") /\ phase' = "rearm"
  /\ UNCHANGED <<writing, target, isolate, asked, budget>>

(* Seeded fault: the slot is believed armed although the host has cleared it. *)
AlarmFires_KeepsArmedAt ==
  /\ alive /\ phase = "idle" /\ slot = 0
  /\ slot' = None /\ UNCHANGED armedAt
  /\ Drain

AlarmFires ==
  /\ alive /\ phase = "idle" /\ slot = 0
  /\ slot' = None /\ armedAt' = None
  /\ Drain

DeliveryEnds(k, owed) ==
  /\ phase = "deliver" /\ k \in due
  /\ due' = due \ {k}
  /\ asked' = [asked EXCEPT ![k] = IF @ = "again" THEN "yes" ELSE owed]
  /\ UNCHANGED <<slot, writer, tail, isolate, phase>>

(* Seeded faults: the retry row outlives its delivery; a delivery takes along the
   wake that its turn armed for itself. *)
Delivered_KeepsRetry(k) == DeliveryEnds(k, "no") /\ UNCHANGED <<rows, budget>>
Delivered_ClearsWake(k) ==
  /\ DeliveryEnds(k, "no")
  /\ wakes' = [wakes EXCEPT ![k] = None]
  /\ retries' = [retries EXCEPT ![k] = None]
  /\ UNCHANGED budget

Delivered(k) ==
  /\ DeliveryEnds(k, "no")
  /\ retries' = [retries EXCEPT ![k] = None]
  /\ UNCHANGED <<wakes, budget>>

DeliveryThrows(k) == DeliveryEnds(k, asked[k]) /\ Spend("throws") /\ UNCHANGED rows

AllDelivered ==
  /\ phase = "deliver" /\ due = {}
  /\ Reconcile("settle") /\ phase' = "settle"
  /\ UNCHANGED <<slot, rows, writer, isolate, due, asked, budget>>

\* The tail is quiet; an entry point writes once more when a write failed.
FlushEnds ==
  /\ phase = "flush" /\ tail = <<>>
  /\ IF IsEarliest(armedAt)
     THEN phase' = "idle" /\ UNCHANGED tail
     ELSE phase' = "last" /\ Reconcile("last")
  /\ UNCHANGED <<slot, rows, writer, isolate, due, asked, budget>>

FetchFlushes ==
  /\ alive /\ tail = <<>> /\ ~IsEarliest(armedAt)
  /\ Reconcile("caller")
  /\ UNCHANGED <<slot, rows, writer, isolate, drain, asked, budget>>

-----------------------------------------------------------------------------
(* The isolate and the clock.                                              *)

\* A write under way takes effect or not; everything in memory is gone.
Evict ==
  /\ alive /\ Spend("evictions")
  /\ slot' \in {slot} \union IF writing THEN {target} ELSE {}
  /\ alive' = FALSE /\ armedAt' = None /\ tail' = <<>> /\ writing' = FALSE /\ target' = None
  /\ suspended' = FALSE /\ phase' = "idle" /\ due' = {}
  /\ asked' = Interrupted
  /\ UNCHANGED rows

(* Seeded fault: rows are read and the slot is left as the last isolate left it. *)
Boot_NoReconcile ==
  /\ ~alive /\ alive' = TRUE
  /\ UNCHANGED <<slot, rows, writer, tail, suspended, drain, asked, budget>>

Boot ==
  /\ ~alive /\ alive' = TRUE
  /\ tail' = IF RowTimes = {} THEN <<>> ELSE <<"caller">>
  /\ UNCHANGED <<slot, rows, writer, suspended, drain, asked, budget>>

Earlier(t) == IF t > 0 THEN t - 1 ELSE t

Tick ==
  /\ \E t \in RowTimes \union {slot} : t > 0
  /\ slot' = Earlier(slot) /\ armedAt' = Earlier(armedAt) /\ target' = Earlier(target)
  /\ wakes' = [k \in Keys |-> Earlier(wakes[k])]
  /\ retries' = [k \in Keys |-> Earlier(retries[k])]
  /\ UNCHANGED <<tail, writing, isolate, drain, asked, budget>>

-----------------------------------------------------------------------------
Callers   == \E k \in Keys : Cancel(k) \/ \E delay \in Delays : Wake(k, delay)
SlotStep  == AlreadyArmed \/ StartWrite \/ WriteSucceeds \/ WriteFails
AlarmStep == AlarmFires \/ AllDelivered \/ FlushEnds

Next ==
  \/ Callers \/ SuspendBegins \/ SuspendEnds
  \/ SlotStep \/ AlarmStep \/ FetchFlushes
  \/ \E k \in Keys : Delivered(k) \/ DeliveryThrows(k)
  \/ Evict \/ Boot \/ Tick

Spec == Init /\ [][Next]_vars

\* Slot writes are answered, alarms and the clock come, deliveries end, and someone
\* starts an evicted isolate again.  Nobody is obliged to wake, cancel or fetch.
Fairness ==
  /\ WF_vars(AlreadyArmed \/ StartWrite \/ WriteSucceeds) /\ WF_vars(AlarmStep)
  /\ WF_vars(\E k \in Keys : Delivered(k))
  /\ WF_vars(Boot) /\ WF_vars(Tick)

FairSpec == Spec /\ Fairness

-----------------------------------------------------------------------------
(* Properties                                                              *)

TypeOK ==
  /\ slot \in Times /\ wakes \in [Keys -> Times] /\ retries \in [Keys -> Times]
  /\ alive \in BOOLEAN /\ armedAt \in Times /\ tail \in Seq(Waiters)
  /\ writing \in BOOLEAN /\ target \in Times /\ suspended \in BOOLEAN
  /\ phase \in {"idle", "rearm", "deliver", "settle", "flush", "last"}
  /\ due \subseteq Keys
  /\ asked \in [Keys -> {"no", "yes", "again"}]
  /\ budget \in Budgets

\* A wake that was asked for and neither cancelled nor delivered has a row: an
\* eviction at any moment finds it.  A row that deliverDue dropped before its retry
\* row is written, or that a delivery's end takes along, would lose it.
WakesSurvive ==
  \A k \in Keys :
    /\ asked[k] # "no" => wakes[k] # None \/ retries[k] # None
    /\ asked[k] = "again" => wakes[k] # None

\* Once the slot writes settle and none failed, or flush finds nothing to do, the
\* host's alarm comes no later than any row: with deliveries still running too
\* ("a wake that runs long, or throws, must not strand the ones behind it").
Covered ==
  alive /\ tail = <<>> /\ (IsEarliest(armedAt) \/ budget.failures = Budget.failures)
    => \A r \in RowTimes : slot # None /\ slot <= r

\* Without throws, failed writes and evictions nobody is woken twice for one wake, and
\* nobody whose wake was cancelled before it was drained: a delivery that ends takes
\* its retry row along before the slot is written for it.
NoSpuriousDelivery ==
  [][(\A fault \in {"throws", "failures", "evictions"} : budget[fault] = Budget[fault])
       => \A k \in due' \ due : asked[k] # "no"]_vars

\* Every wake asked for is delivered or cancelled, through throws and evictions, unless a
\* slot write fails or the isolate is suspended.
EveryWakeIsDelivered ==
  \A k \in Keys :
    asked[k] # "no" ~> (asked[k] = "no" \/ \E fault \in {"failures", "suspends"} : budget[fault] < Budget[fault])
=============================================================================
