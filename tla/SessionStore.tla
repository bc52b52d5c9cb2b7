---------------------------- MODULE SessionStore ----------------------------
(***************************************************************************)
(* SessionStore (core/sessions/session-store.ts): the ordered write queue  *)
(* of a resident session over its durable log, and the projection folded   *)
(* from it.  With it, what decides whether the projection may be trusted:  *)
(* the runtime that stops when the store fences (Session), the manager     *)
(* that loads a replacement once the old writes are answered               *)
(* (SessionManager), a crash, and another host that takes the log over.    *)
(*                                                                         *)
(* An event store is external.  Its append may commit at any time until it *)
(* is answered, and then the outcome is settled (EventStore in             *)
(* core/events/event-store.ts).  A batch commits as a whole, so a log      *)
(* entry is a write.  Listeners are left out: they follow the projection.  *)
(***************************************************************************)
EXTENDS Naturals, Sequences, Functions, FiniteSets

CONSTANTS
  Writes,      \* calls of emit or emitBatch
  Empty,       \* those of an empty batch
  Poison,      \* those with an event the reducer throws on
  Foreign,     \* an entry of the log written by another host
  MaxForeign   \* bound on the entries other hosts write

ASSUME WritesAssumption ==
  /\ Foreign \notin Writes
  /\ Empty \subseteq Writes /\ Poison \subseteq Writes
  /\ MaxForeign \in Nat

VARIABLES
  log,        \* the durable log, oldest entry first
  owned,      \* does this host own it?
  appending,  \* the appends the event store has not answered
  state,      \* the entries folded into the projection
  pending,    \* the chain of unsettled operations; its head is the one that runs
  running,    \* has the head called append?
  fence, failure, detached,
  runtime,    \* "loading" (no Session yet), "live", "parked" or "gone"
  lost,       \* the tenure's state is 'lost'
  answer,     \* what each call of emit resolved to
  submitted,  \* the place of each write in the order of the calls; 0 is not called
  calls       \* number of calls so far

eventStore == <<log, owned, appending>>
store      == <<state, pending, running, fence, failure, detached>>
vars       == <<eventStore, store, runtime, lost, answer, submitted, calls>>

Fences  == {"none", "ownership", "unknown", "reducer"}
Answers == {"none",       \* not called, or not settled
            "ok",
            "refused",    \* EventAppendError: definitely not committed
            "lost",       \* SessionOwnershipLostError
            "unknown",    \* EventAppendOutcomeUnknownError, or an unclassified error
            "detached",   \* SessionRuntimeDetachedError
            "failed",     \* what the reducer threw
            "crashed"}

Init ==
  /\ log = <<>> /\ owned = TRUE
  /\ appending = {}
  /\ state = <<>>
  /\ pending = <<>> /\ running = FALSE
  /\ fence = "none" /\ failure = FALSE /\ detached = FALSE
  /\ runtime = "loading"
  /\ lost = FALSE
  /\ answer = [w \in Writes |-> "none"]
  /\ submitted = [w \in Writes |-> 0]
  /\ calls = 0

(* hasPendingWrites *)
HasPendingWrites == pending # <<>> \/ appending # {}

-----------------------------------------------------------------------------
(* enqueue *)

(* A runtime being loaded awaits each of its writes and stops at the first that fails. *)
MayEmit ==
  \/ runtime = "loading" /\ pending = <<>> /\ ~failure
  \/ runtime = "live"
  \/ detached

Emit(w) ==
  /\ MayEmit
  /\ submitted[w] = 0
  /\ calls' = calls + 1
  /\ submitted' = [submitted EXCEPT ![w] = calls + 1]
  /\ IF fence = "none" /\ ~detached /\ w \notin Empty
     THEN pending' = Append(pending, w) /\ UNCHANGED answer
     ELSE /\ answer' = [answer EXCEPT ![w] = IF fence # "none" THEN "refused"
                                             ELSE IF detached THEN "detached" ELSE "ok"]
          /\ UNCHANGED pending
  /\ UNCHANGED <<eventStore, state, running, fence, failure, detached, runtime, lost>>

(* The head's turn, once everything before it settled. *)
Start ==
  /\ pending # <<>> /\ ~running
  /\ fence = "none" /\ ~detached
  /\ running' = TRUE
  /\ appending' = appending \union {Head(pending)}
  /\ UNCHANGED <<log, owned, state, pending, fence, failure, detached, runtime, lost, answer,
                 submitted, calls>>

(* The head settles; only a write that succeeds leaves no failure behind. *)
Settles(outcome) ==
  /\ answer' = [answer EXCEPT ![Head(pending)] = outcome]
  /\ pending' = Tail(pending)
  /\ running' = FALSE
  /\ failure' = (failure \/ outcome # "ok")

HeadRefused ==
  /\ pending # <<>> /\ ~running
  /\ fence # "none" \/ detached
  /\ Settles(IF fence # "none" THEN "refused" ELSE "detached")
  /\ UNCHANGED <<eventStore, state, fence, detached, runtime, lost, submitted, calls>>

(* Seeded fault: only a lost ownership fences. *)
FenceWith_OnlyOwnership(error) ==
  IF error = "ownership"
  THEN /\ fence' = error
       /\ detached' = (runtime # "loading")
       /\ runtime' = IF runtime = "loading" THEN runtime ELSE "gone"
       /\ lost' = (lost \/ runtime # "loading")
  ELSE UNCHANGED <<fence, detached, runtime, lost>>

(* fenceWith; the listener of a built Session revokes the runtime at once. *)
FenceWith(error) ==
  /\ fence' = error
  /\ IF runtime = "loading"
     THEN UNCHANGED <<detached, runtime, lost>>
     ELSE /\ detached' = TRUE
          /\ runtime' = "gone"
          /\ lost' = (lost \/ error = "ownership")

-----------------------------------------------------------------------------
(* The event store *)

Committed(w) == w \in Range(log)

Lands(w) ==
  /\ w \in appending /\ ~Committed(w)
  /\ owned
  /\ log' = Append(log, w)
  /\ UNCHANGED <<owned, appending, store, runtime, lost, answer, submitted, calls>>

Answered(w) == appending' = appending \ {w} /\ UNCHANGED <<log, owned>>

Succeeds ==
  /\ running /\ Committed(Head(pending))
  /\ Answered(Head(pending))
  /\ \/ /\ detached
        /\ Settles("detached")
        /\ UNCHANGED <<state, fence, detached, runtime, lost>>
     \/ /\ ~detached /\ Head(pending) \in Poison
        /\ Settles("failed")
        /\ FenceWith("reducer")
        /\ UNCHANGED state
     \/ /\ ~detached /\ Head(pending) \notin Poison
        /\ Settles("ok")
        /\ state' = Append(state, Head(pending))
        /\ UNCHANGED <<fence, detached, runtime, lost>>
  /\ UNCHANGED <<submitted, calls>>

(* Seeded faults: any error counts as one of these; one the callers do not know. *)
Refuses_AnyError ==
  /\ running
  /\ Answered(Head(pending))
  /\ Settles("refused")
  /\ UNCHANGED <<state, fence, detached, runtime, lost, submitted, calls>>
Refuses_Unnamed ==
  /\ running /\ ~Committed(Head(pending))
  /\ Answered(Head(pending))
  /\ Settles("error")
  /\ UNCHANGED <<state, fence, detached, runtime, lost, submitted, calls>>

(* EventAppendError: nothing of it can commit later. *)
Refuses ==
  /\ running /\ ~Committed(Head(pending))
  /\ Answered(Head(pending))
  /\ Settles("refused")
  /\ UNCHANGED <<state, fence, detached, runtime, lost, submitted, calls>>

(* SessionOwnershipLostError *)
RefusesOwner ==
  /\ running /\ ~Committed(Head(pending)) /\ ~owned
  /\ Answered(Head(pending))
  /\ Settles("lost")
  /\ FenceWith("ownership")
  /\ UNCHANGED <<state, submitted, calls>>

(* Any other error: the append may have committed. *)
FailsUnclassified ==
  /\ running
  /\ Answered(Head(pending))
  /\ Settles("unknown")
  /\ FenceWith("unknown")
  /\ UNCHANGED <<state, submitted, calls>>

(* Seeded faults: a late append counts as refused; it fences nothing; detach stops the timer. *)
Deadline_Refuses ==
  /\ running
  /\ Settles("refused")
  /\ UNCHANGED <<eventStore, state, fence, detached, runtime, lost, submitted, calls>>
Deadline_NoFence ==
  /\ running
  /\ Settles("unknown")
  /\ UNCHANGED <<eventStore, state, fence, detached, runtime, lost, submitted, calls>>
Deadline_WhileAttached ==
  /\ running /\ ~detached
  /\ Settles("unknown")
  /\ FenceWith("unknown")
  /\ UNCHANGED <<eventStore, state, submitted, calls>>

(* queueTimeoutMs passed: the wait ends, the append does not. *)
Deadline ==
  /\ running
  /\ Settles("unknown")
  /\ FenceWith("unknown")
  /\ UNCHANGED <<eventStore, state, submitted, calls>>

(* The answer to an append nobody waits for any more. *)
LateAnswer ==
  /\ \E w \in appending :
       /\ running => w # Head(pending)
       /\ Answered(w)
  /\ UNCHANGED <<store, runtime, lost, answer, submitted, calls>>

-----------------------------------------------------------------------------
(* The runtime around the store *)

(* Recovery is written, or not needed; the Session is built. *)
GoesLive ==
  /\ runtime = "loading" /\ pending = <<>> /\ ~failure
  /\ runtime' = "live"
  /\ UNCHANGED <<eventStore, store, lost, answer, submitted, calls>>

LoadFails ==
  /\ runtime = "loading" /\ pending = <<>> /\ failure
  /\ runtime' = "gone"
  /\ lost' = (lost \/ fence = "ownership")
  /\ UNCHANGED <<eventStore, store, answer, submitted, calls>>

(* Disposal, whose drain is bounded, or revocation: writes may be under way. *)
Detach ==
  /\ runtime = "live"
  /\ detached' = TRUE
  /\ runtime' = "gone"
  /\ UNCHANGED <<eventStore, state, pending, running, fence, failure, lost, answer, submitted,
                 calls>>

(* waitForIdle reports a failure once: the park fails and may be tried again. *)
ParkFails ==
  /\ runtime = "live" /\ pending = <<>> /\ failure
  /\ failure' = FALSE
  /\ UNCHANGED <<eventStore, state, pending, running, fence, detached, runtime, lost, answer,
                 submitted, calls>>

Parks ==
  /\ runtime = "live" /\ pending = <<>> /\ ~failure
  /\ detached' = TRUE
  /\ runtime' = "parked"
  /\ UNCHANGED <<eventStore, state, pending, running, fence, failure, lost, answer, submitted,
                 calls>>

(* Seeded fault: the replacement does not wait for the appends of the old store. *)
Load_TooEarly ==
  /\ ~lost
  /\ runtime \in {"parked", "gone"}
  /\ Range(log) \cap Poison = {}
  /\ owned' = (owned \/ runtime = "parked")
  /\ state' = log
  /\ pending' = <<>> /\ running' = FALSE
  /\ fence' = "none" /\ failure' = FALSE /\ detached' = FALSE
  /\ runtime' = "loading"
  /\ UNCHANGED <<log, appending, lost, answer, submitted, calls>>

(***************************************************************************)
(* A new store from the log.  After a stop the manager admits it once the  *)
(* old store has no pending write (isUnsafe); after a park at once, under  *)
(* a new activation, which the host makes when the log is its own again.   *)
(***************************************************************************)
Load ==
  /\ ~lost
  /\ \/ runtime = "parked"
     \/ runtime = "gone" /\ ~HasPendingWrites
  /\ Range(log) \cap Poison = {}
  /\ owned' = (owned \/ runtime = "parked")
  /\ state' = log
  /\ pending' = <<>> /\ running' = FALSE
  /\ fence' = "none" /\ failure' = FALSE /\ detached' = FALSE
  /\ runtime' = "loading"
  /\ UNCHANGED <<log, appending, lost, answer, submitted, calls>>

(* activateSession after a loss: a new tenure, once the old runtime is safe. *)
Reactivate ==
  /\ lost /\ runtime = "gone" /\ ~HasPendingWrites
  /\ lost' = FALSE
  /\ owned' = TRUE
  /\ UNCHANGED <<log, appending, store, runtime, answer, submitted, calls>>

(* The process dies; an append the event store has not committed never will be. *)
Crash ==
  /\ answer' = [w \in Writes |-> IF w \in Range(pending) THEN "crashed" ELSE answer[w]]
  /\ appending' = {}
  /\ pending' = <<>> /\ running' = FALSE
  /\ fence' = "none" /\ failure' = FALSE /\ detached' = FALSE
  /\ runtime' = "gone"
  /\ lost' = FALSE
  /\ UNCHANGED <<log, owned, state, submitted, calls>>

-----------------------------------------------------------------------------
(* Other hosts *)

TakenOver ==
  /\ owned
  /\ owned' = FALSE
  /\ UNCHANGED <<log, appending, store, runtime, lost, answer, submitted, calls>>

ForeignAppend ==
  /\ ~owned
  /\ Cardinality({i \in DOMAIN log : log[i] = Foreign}) < MaxForeign
  /\ log' = Append(log, Foreign)
  /\ UNCHANGED <<owned, appending, store, runtime, lost, answer, submitted, calls>>

-----------------------------------------------------------------------------
QueueStep == Start \/ HeadRefused \/ Deadline

Next ==
  \/ \E w \in Writes : Emit(w) \/ Lands(w)
  \/ QueueStep
  \/ Succeeds \/ Refuses \/ RefusesOwner \/ FailsUnclassified \/ LateAnswer
  \/ GoesLive \/ LoadFails \/ Detach \/ ParkFails \/ Parks \/ Load \/ Reactivate \/ Crash
  \/ TakenOver \/ ForeignAppend

Spec == Init /\ [][Next]_vars

(* Microtasks and the deadline's timer run; the event store owes no answer. *)
FairSpec == Spec /\ WF_vars(QueueStep)

-----------------------------------------------------------------------------
TypeOK ==
  /\ log \in Seq(Writes \union {Foreign}) /\ owned \in BOOLEAN
  /\ appending \subseteq Writes
  /\ state \in Seq(Writes \union {Foreign})
  /\ pending \in Seq(Writes) /\ running \in BOOLEAN
  /\ fence \in Fences /\ failure \in BOOLEAN /\ detached \in BOOLEAN
  /\ runtime \in {"loading", "live", "parked", "gone"}
  /\ lost \in BOOLEAN
  /\ answer \in [Writes -> Answers]
  /\ submitted \in [Writes -> Nat] /\ calls \in Nat

(***************************************************************************)
(* The projection is always a prefix of the log, also after a batch whose  *)
(* outcome was unknown, a reload and a takeover.                           *)
(***************************************************************************)
StateFollowsLog ==
  Len(state) <= Len(log) /\ \A i \in DOMAIN state : state[i] = log[i]

(***************************************************************************)
(* Nothing this host committed is missing from the projection of a store   *)
(* that still accepts writes: an append that committed is folded in, or    *)
(* the store is fenced or detached.  A runtime loaded too early, behind a  *)
(* late write of the old one, would never catch up.                        *)
(***************************************************************************)
Accepting == runtime \in {"loading", "live"} /\ fence = "none" /\ ~detached

ProjectionIsCurrent ==
  Accepting /\ owned =>
    log = IF running /\ Committed(Head(pending)) THEN Append(state, Head(pending)) ELSE state

(***************************************************************************)
(* What a caller is told is true for good: a write that succeeded is in    *)
(* the log, one refused with EventAppendError or for lost ownership is     *)
(* not, and a retry of it cannot write it twice.                           *)
(***************************************************************************)
AnswersAreTrue ==
  \A w \in Writes :
    /\ answer[w] = "ok" => w \in Range(log) \/ w \in Empty
    /\ answer[w] \in {"refused", "lost"} => w \notin Range(log)

(***************************************************************************)
(* This host's writes are in the log in the order in which emit was        *)
(* called, across reloads and crashes, and no write is in it twice: no     *)
(* write is ordered behind one whose outcome nobody knows.                 *)
(***************************************************************************)
WritesInCallOrder ==
  \A i, j \in DOMAIN log :
    i < j /\ log[i] \in Writes /\ log[j] \in Writes
      => submitted[log[i]] < submitted[log[j]]

(***************************************************************************)
(* Once a park succeeded, nothing of this runtime reaches the log: the     *)
(* next host may open it.                                                  *)
(***************************************************************************)
NothingLandsAfterPark ==
  [][runtime = "parked" /\ log' # log => log' = Append(log, Foreign)]_vars

(***************************************************************************)
(* Every emit settles even if the event store never answers: a stalled     *)
(* write cannot wedge close and park.                                      *)
(***************************************************************************)
EveryEmitSettles == \A w \in Writes : submitted[w] > 0 ~> answer[w] # "none"

(* What a caller can conclude from its answer. *)
Outcome(w) ==
  CASE answer[w] = "none" -> IF submitted[w] = 0 THEN "new" ELSE "asked"
    [] answer[w] = "ok" -> "ok"
    [] answer[w] \in {"refused", "lost"} -> "refused"
    [] OTHER -> "unknown"

Abstract == INSTANCE EventLog WITH answer <- [w \in Writes |-> Outcome(w)]

(* SessionStore implements EventLog. *)
ImplementsEventLog == Abstract!LogSpec
=============================================================================
