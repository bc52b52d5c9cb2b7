------------------------- MODULE SessionStoreProofs -------------------------
(***************************************************************************)
(* Proofs of SessionStore's properties for every set of writes, and of its *)
(* implementing EventLog.                                                  *)
(***************************************************************************)
EXTENDS SessionStore, SequenceTheorems, TLAPS

LEMMA RangeAppend ==
  ASSUME NEW S, NEW s \in Seq(S), NEW e \in S
  PROVE  Range(Append(s, e)) = Range(s) \union {e}
<1>1. /\ DOMAIN s = 1..Len(s) /\ Len(s) \in Nat
      /\ DOMAIN Append(s, e) = 1..(Len(s) + 1)
      /\ \A i \in 1..Len(s) : Append(s, e)[i] = s[i]
      /\ Append(s, e)[Len(s) + 1] = e
  BY AppendProperties, LenProperties
<1> QED
  BY <1>1 DEF Range

LEMMA TailShifts ==
  ASSUME NEW S, NEW s \in Seq(S), s # <<>>
  PROVE  /\ Tail(s) \in Seq(S) /\ Len(s) \in Nat \ {0} /\ Len(Tail(s)) = Len(s) - 1
         /\ \A i \in 1..Len(Tail(s)) : i + 1 \in 2..Len(s) /\ Tail(s)[i] = s[i + 1]
         /\ Head(s) = s[1] /\ s[1] \in S
<1>1. Tail(s) \in Seq(S) /\ Len(Tail(s)) = Len(s) - 1
      /\ \A i \in 1..Len(Tail(s)) : Tail(s)[i] = s[i + 1]
  BY HeadTailProperties
<1>2. Len(s) \in Nat \ {0}
  BY LenProperties, EmptySeq
<1>3. Head(s) = s[1] /\ s[1] \in S
  BY <1>2
<1> QED
  BY <1>1, <1>2, <1>3

-----------------------------------------------------------------------------
(* Types *)

(* The head that runs is there: Settles may take it off. *)
TypeInv == TypeOK /\ (running => pending # <<>>)

LEMMA Typed == TypeInv /\ [Next]_vars => TypeInv'
<1> SUFFICES ASSUME TypeInv, [Next]_vars PROVE TypeInv'
  OBVIOUS
<1> USE DEF TypeInv, TypeOK, Answers, Fences, eventStore, store
<1>1. pending # <<>> => Head(pending) \in Writes /\ Tail(pending) \in Seq(Writes)
  BY TailShifts
<1>2. \A w \in Writes : Append(pending, w) \in Seq(Writes) /\ Append(pending, w) # <<>>
  OBVIOUS
<1>3. \A w \in Writes \union {Foreign} : /\ Append(log, w) \in Seq(Writes \union {Foreign})
                                         /\ Append(state, w) \in Seq(Writes \union {Foreign})
  OBVIOUS
<1>4. ASSUME NEW w \in Writes, Emit(w) \/ Lands(w) PROVE TypeInv'
  <2>1. CASE Emit(w)
    <3>1. calls + 1 \in Nat
      OBVIOUS
    <3> DEFINE n == calls + 1
    <3>2. n \in Nat /\ calls' = n /\ submitted' = [submitted EXCEPT ![w] = n]
      BY <2>1, <3>1 DEF Emit
    <3> HIDE DEF n
    <3>3. calls' \in Nat /\ submitted' \in [Writes -> Nat]
      BY <3>2
    <3>4. /\ pending' = pending \/ pending' = Append(pending, w)
          /\ answer' = answer \/ \E a \in Answers : answer' = [answer EXCEPT ![w] = a]
      BY <2>1 DEF Emit
    <3>5. pending' \in Seq(Writes) /\ (running => pending' # <<>>)
      BY <1>2, <3>4
    <3>6. answer' \in [Writes -> Answers]
      BY <3>4
    <3>7. UNCHANGED <<log, owned, appending, state, running, fence, failure, detached, runtime, lost>>
      BY <2>1 DEF Emit
    <3> QED
      BY <3>3, <3>5, <3>6, <3>7
  <2>2. CASE Lands(w)
    BY <1>3, <2>2 DEF Lands
  <2> QED
    BY <1>4, <2>1, <2>2
<1>5. CASE Start
  BY <1>1, <1>5 DEF Start
<1>6. CASE HeadRefused \/ Deadline
  BY <1>1, <1>6 DEF HeadRefused, Deadline, Settles, FenceWith
<1>7. CASE Succeeds
  BY <1>1, <1>3, <1>7 DEF Succeeds, Answered, Settles, FenceWith
<1>8. CASE Refuses \/ RefusesOwner \/ FailsUnclassified
  BY <1>1, <1>8 DEF Refuses, RefusesOwner, FailsUnclassified, Answered, Settles, FenceWith
<1>9. CASE LateAnswer
  BY <1>9 DEF LateAnswer, Answered
<1>10. CASE GoesLive \/ LoadFails \/ Detach
  <2>1. CASE GoesLive
    BY <2>1 DEF GoesLive
  <2>2. CASE LoadFails
    BY <2>2 DEF LoadFails
  <2>3. CASE Detach
    BY <2>3 DEF Detach
  <2> QED
    BY <1>10, <2>1, <2>2, <2>3
<1>11. CASE ParkFails \/ Parks \/ Reactivate
  <2>1. CASE ParkFails
    BY <2>1 DEF ParkFails
  <2>2. CASE Parks
    BY <2>2 DEF Parks
  <2>3. CASE Reactivate
    BY <2>3 DEF Reactivate
  <2> QED
    BY <1>11, <2>1, <2>2, <2>3
<1>12. CASE Load
  <2>1. log \in Seq(Writes \union {Foreign}) /\ <<>> \in Seq(Writes)
    OBVIOUS
  <2>2. /\ log' = log /\ appending' = appending /\ answer' = answer /\ submitted' = submitted
        /\ calls' = calls /\ lost' = lost /\ state' = log /\ owned' \in BOOLEAN
        /\ pending' = <<>> /\ running' = FALSE /\ fence' = "none" /\ failure' = FALSE
        /\ detached' = FALSE /\ runtime' = "loading"
    BY <1>12 DEF Load
  <2> QED
    BY <2>1, <2>2
<1>13. CASE Crash
  <2>1. <<>> \in Seq(Writes)
    OBVIOUS
  <2>2. answer' \in [Writes -> Answers]
    BY <1>13 DEF Crash
  <2>3. /\ log' = log /\ owned' = owned /\ state' = state /\ submitted' = submitted /\ calls' = calls
        /\ appending' = {} /\ pending' = <<>> /\ running' = FALSE /\ fence' = "none"
        /\ failure' = FALSE /\ detached' = FALSE /\ runtime' = "gone" /\ lost' = FALSE
    BY <1>13 DEF Crash
  <2> QED
    BY <2>1, <2>2, <2>3
<1>14. CASE TakenOver \/ ForeignAppend
  <2>1. CASE TakenOver
    BY <2>1 DEF TakenOver
  <2>2. CASE ForeignAppend
    BY <1>3, <2>2 DEF ForeignAppend
  <2> QED
    BY <1>14, <2>1, <2>2
<1>15. CASE UNCHANGED vars
  BY <1>15 DEF vars
<1> QED
  BY <1>4, <1>5, <1>6, <1>7, <1>8, <1>9, <1>10, <1>11, <1>12, <1>13, <1>14, <1>15
  DEF Next, QueueStep
-----------------------------------------------------------------------------
(* The runtime and the store's fence: a runtime that fenced never parks. *)
RuntimeInv ==
  /\ TypeInv
  /\ runtime \in {"live", "parked"} => fence = "none"
  /\ runtime = "parked" => pending = <<>> /\ detached
  /\ runtime = "loading" /\ fence # "none" => failure
  /\ pending # <<>> => detached \/ runtime \in {"loading", "live"}

LEMMA RuntimeKept == RuntimeInv /\ [Next]_vars => RuntimeInv'
<1> SUFFICES ASSUME RuntimeInv, [Next]_vars PROVE RuntimeInv'
  OBVIOUS
<1>1. TypeInv'
  BY Typed DEF RuntimeInv
<1>2. running => pending # <<>>
  BY DEF RuntimeInv, TypeInv
<1>3. ASSUME NEW w \in Writes, Emit(w) \/ Lands(w) PROVE RuntimeInv'
  BY <1>1, <1>3 DEF RuntimeInv, Emit, MayEmit, Lands, eventStore, store
<1>4. CASE Start \/ HeadRefused \/ Deadline
  BY <1>1, <1>2, <1>4
  DEF RuntimeInv, Start, HeadRefused, Deadline, Settles, FenceWith, eventStore, store
<1>5. CASE Succeeds
  <2>1. /\ pending # <<>> /\ pending' = Tail(pending)
        /\ \/ UNCHANGED <<fence, runtime, detached>> /\ (failure => failure')
           \/ fence' # "none" /\ failure' /\ runtime' = runtime /\ runtime = "loading" /\ detached' = detached
           \/ runtime' = "gone" /\ detached'
    BY <1>2, <1>5 DEF Succeeds, Settles, FenceWith
  <2> QED
    BY <1>1, <2>1 DEF RuntimeInv
<1>6. CASE Refuses \/ RefusesOwner \/ FailsUnclassified
  BY <1>1, <1>2, <1>6
  DEF RuntimeInv, Refuses, RefusesOwner, FailsUnclassified, Answered, Settles, FenceWith
<1>7. CASE LateAnswer \/ TakenOver \/ ForeignAppend \/ Reactivate
  BY <1>1, <1>7 DEF RuntimeInv, LateAnswer, TakenOver, ForeignAppend, Reactivate, store
<1>8. CASE GoesLive \/ LoadFails \/ Detach \/ ParkFails \/ Parks
  BY <1>1, <1>8 DEF RuntimeInv, GoesLive, LoadFails, Detach, ParkFails, Parks, eventStore, store
<1>9. CASE Load \/ Crash
  BY <1>1, <1>9 DEF RuntimeInv, Load, Crash
<1>10. CASE UNCHANGED vars
  BY <1>1, <1>10 DEF RuntimeInv, vars, store
<1> QED
  BY <1>3, <1>4, <1>5, <1>6, <1>7, <1>8, <1>9, <1>10 DEF Next, QueueStep

-----------------------------------------------------------------------------
(***************************************************************************)
(* The queue.  An append that the event store has not answered is that of  *)
(* the running head, or one given up on, and then the store is fenced: so  *)
(* there is never a second one, and what is queued was never tried.        *)
(***************************************************************************)
QueueInCallOrder ==
  \A i, j \in DOMAIN pending : i < j => submitted[pending[i]] < submitted[pending[j]]

NotCalled ==
  \A w \in Writes :
    /\ submitted[w] <= calls
    /\ submitted[w] = 0 => answer[w] = "none" /\ ~Committed(w) /\ w \notin appending

Queued ==
  \A i \in DOMAIN pending :
    /\ answer[pending[i]] = "none" /\ submitted[pending[i]] # 0
    /\ i # 1 \/ ~running => ~Committed(pending[i]) /\ pending[i] \notin appending

HeadRuns == running => pending # <<>> /\ Head(pending) \in appending /\ fence = "none"

InFlight ==
  \A w \in appending :
    \/ running /\ w = Head(pending)
    \/ answer[w] = "unknown" /\ fence # "none"

OneInFlight == \A v, w \in appending : v = w

InFlightFirst ==
  \A w \in appending, i \in DOMAIN pending :
    w = pending[i] \/ submitted[w] < submitted[pending[i]]

QueueInv ==
  /\ TypeInv
  /\ QueueInCallOrder /\ NotCalled /\ Queued
  /\ HeadRuns /\ InFlight /\ OneInFlight /\ InFlightFirst

(* What is not in the log yet was called after everything of this host that is. *)
LogFirst ==
  /\ \A e \in Writes, w \in appending :
       Committed(e) /\ ~Committed(w) => submitted[e] < submitted[w]
  /\ \A e \in Writes, i \in DOMAIN pending :
       Committed(e) /\ ~Committed(pending[i]) => submitted[e] < submitted[pending[i]]

OrderInv == QueueInv /\ LogFirst /\ WritesInCallOrder

(* While the store accepts writes, the log is ahead by the running head at most. *)
LogAhead ==
  Accepting =>
    IF running /\ Committed(Head(pending))
    THEN /\ Len(state) < Len(log) /\ log[Len(state) + 1] = Head(pending)
         /\ owned => Len(log) = Len(state) + 1
    ELSE owned => Len(log) = Len(state)

ProjectionInv == RuntimeInv /\ QueueInv /\ StateFollowsLog /\ LogAhead

-----------------------------------------------------------------------------
(* The head settles: what an answer, a deadline or a refusal does to the queue. *)
LEMMA SettlesKeepsQueue ==
  ASSUME QueueInv, TypeInv', pending # <<>>, NEW outcome \in Answers \ {"none"}, Settles(outcome),
         UNCHANGED <<log, submitted, calls>>,
         fence' = fence \/ fence' # "none",
         \/ appending' = appending \ {Head(pending)}
         \/ appending' = appending /\ ~running
         \/ appending' = appending /\ outcome = "unknown" /\ fence' # "none"
  PROVE  QueueInv'
<1> DEFINE h == Head(pending)
<1>1. /\ h \in Writes /\ h = pending[1] /\ 1 \in DOMAIN pending
      /\ \A i \in DOMAIN pending' : /\ i + 1 \in DOMAIN pending /\ i + 1 # 1 /\ 1 < i + 1
                                    /\ pending'[i] = pending[i + 1]
      /\ \A i, j \in DOMAIN pending' : i < j => i + 1 < j + 1
  <2>1. pending \in Seq(Writes) /\ pending' = Tail(pending)
    BY DEF QueueInv, TypeInv, TypeOK, Settles
  <2>2. /\ Len(pending) \in Nat \ {0} /\ Len(pending') = Len(pending) - 1
        /\ \A i \in 1..Len(pending') : pending'[i] = pending[i + 1]
        /\ Head(pending) = pending[1] /\ pending[1] \in Writes /\ pending' \in Seq(Writes)
    BY <2>1, TailShifts
  <2>3. DOMAIN pending = 1..Len(pending) /\ DOMAIN pending' = 1..Len(pending')
    BY <2>1, <2>2
  <2> QED
    BY <2>2, <2>3
<1>2. /\ answer' = [answer EXCEPT ![h] = outcome] /\ ~running' /\ outcome # "none"
      /\ answer \in [Writes -> Answers]
      /\ \A w \in Writes : Committed(w)' <=> Committed(w)
      /\ submitted' = submitted /\ calls' = calls /\ appending' \subseteq appending
      /\ appending \subseteq Writes
  BY DEF Settles, QueueInv, TypeInv, TypeOK, Committed
<1>3. \A i \in DOMAIN pending : i # 1 => pending[i] # h
  <2>1. \A i \in DOMAIN pending : i # 1 => submitted[pending[1]] < submitted[pending[i]]
    <3>1. DOMAIN pending = 1..Len(pending) /\ Len(pending) \in Nat
      BY DEF QueueInv, TypeInv, TypeOK
    <3> QED
      BY <1>1, <3>1 DEF QueueInv, QueueInCallOrder
  <2>2. submitted[h] \in Nat
    BY <1>1 DEF QueueInv, TypeInv, TypeOK
  <2> QED
    BY <1>1, <2>1, <2>2
<1>4. h \in appending => running
  BY <1>1 DEF QueueInv, Queued
<1>5. \A i \in DOMAIN pending' : pending'[i] \in Writes
  BY DEF TypeInv, TypeOK
<1> HIDE DEF h
<1>6. QueueInCallOrder'
  BY <1>1, <1>2 DEF QueueInv, QueueInCallOrder
<1>7. NotCalled'
  BY <1>1, <1>2 DEF QueueInv, NotCalled, Queued
<1>8. Queued'
  BY <1>1, <1>2, <1>3, <1>5 DEF QueueInv, Queued
<1>9. HeadRuns' /\ OneInFlight'
  BY <1>2 DEF QueueInv, HeadRuns, OneInFlight
<1>10. InFlight'
  <2> SUFFICES ASSUME NEW w \in appending' PROVE answer'[w] = "unknown" /\ fence' # "none"
    BY DEF InFlight
  <2>1. (running /\ w = h) \/ (answer[w] = "unknown" /\ fence # "none")
    BY <1>2 DEF QueueInv, InFlight, h
  <2> QED
    BY <1>1, <1>2, <1>4, <2>1 DEF h
<1>11. InFlightFirst'
  BY <1>1, <1>2 DEF QueueInv, InFlightFirst
<1> QED
  BY <1>6, <1>7, <1>8, <1>9, <1>10, <1>11 DEF QueueInv

(* The rest of the system leaves the queue's variables as they are. *)
LEMMA UnchangedKeepsQueue ==
  ASSUME QueueInv, TypeInv', UNCHANGED <<log, appending, pending, running, fence, answer, submitted, calls>>
  PROVE  QueueInv'
<1>1. \A w \in Writes : Committed(w)' <=> Committed(w)
  BY DEF Committed
<1>2. QueueInCallOrder' /\ OneInFlight' /\ InFlightFirst'
  BY DEF QueueInv, QueueInCallOrder, OneInFlight, InFlightFirst
<1>3. HeadRuns' /\ InFlight'
  BY DEF QueueInv, HeadRuns, InFlight
<1>4. NotCalled'
  BY <1>1 DEF QueueInv, NotCalled
<1>5. Queued'
  BY <1>1 DEF QueueInv, Queued, TypeInv, TypeOK
<1> QED
  BY <1>2, <1>3, <1>4, <1>5 DEF QueueInv

(* An entry of the log is all that changes. *)
LEMMA LogGrows ==
  ASSUME TypeOK, NEW e \in Writes \union {Foreign}, log' = Append(log, e)
  PROVE  \A w \in Writes : Committed(w)' <=> Committed(w) \/ w = e
<1>1. log \in Seq(Writes \union {Foreign})
  BY DEF TypeOK
<1>2. Range(log') = Range(log) \union {e}
  BY <1>1, RangeAppend
<1> QED
  BY <1>2 DEF Committed

LEMMA EmitKeepsQueue ==
  ASSUME QueueInv, TypeInv', NEW w \in Writes, Emit(w)
  PROVE  QueueInv'
<1> DEFINE n == calls + 1
<1>1. /\ submitted[w] = 0 /\ submitted' = [submitted EXCEPT ![w] = n] /\ calls' = n
      /\ appending' = appending /\ log' = log /\ running' = running /\ fence' = fence
      /\ \/ pending' = Append(pending, w) /\ answer' = answer
         \/ pending' = pending /\ \E a \in Answers : answer' = [answer EXCEPT ![w] = a]
  <2>1. /\ submitted[w] = 0 /\ submitted' = [submitted EXCEPT ![w] = n] /\ calls' = n
        /\ appending' = appending /\ log' = log /\ running' = running /\ fence' = fence
    BY DEF Emit, eventStore
  <2>2. \/ pending' = Append(pending, w) /\ answer' = answer
        \/ /\ pending' = pending
           /\ answer' = [answer EXCEPT ![w] = IF fence # "none" THEN "refused"
                                             ELSE IF detached THEN "detached" ELSE "ok"]
    BY DEF Emit
  <2> DEFINE a == IF fence # "none" THEN "refused" ELSE IF detached THEN "detached" ELSE "ok"
  <2>3. a \in Answers
    BY DEF Answers
  <2> HIDE DEF a
  <2>4. \/ pending' = Append(pending, w) /\ answer' = answer
        \/ pending' = pending /\ answer' = [answer EXCEPT ![w] = a]
    BY <2>2 DEF a
  <2>5. \/ pending' = Append(pending, w) /\ answer' = answer
        \/ pending' = pending /\ \E b \in Answers : answer' = [answer EXCEPT ![w] = b]
    BY <2>3, <2>4, Zenon
  <2> QED
    BY <2>1, <2>5, Zenon
<1>2. /\ submitted \in [Writes -> Nat] /\ answer \in [Writes -> Answers] /\ appending \subseteq Writes
      /\ calls \in Nat /\ n \in Nat /\ n # 0 /\ calls < n /\ pending \in Seq(Writes)
      /\ \A i \in DOMAIN pending : pending[i] \in Writes
  <2>1. /\ submitted \in [Writes -> Nat] /\ answer \in [Writes -> Answers] /\ appending \subseteq Writes
        /\ calls \in Nat /\ pending \in Seq(Writes)
    BY DEF QueueInv, TypeInv, TypeOK
  <2>2. n \in Nat /\ n # 0 /\ calls < n
    BY <2>1
  <2> HIDE DEF n
  <2> QED
    BY <2>1, <2>2
<1>3. \A v \in Writes : submitted[v] < n
  BY <1>2 DEF QueueInv, NotCalled
<1>4. \A v \in Writes : Committed(v)' <=> Committed(v)
  BY <1>1 DEF Committed
<1>5. answer[w] = "none" /\ ~Committed(w) /\ w \notin appending
  BY <1>1 DEF QueueInv, NotCalled
<1>6. \A i \in DOMAIN pending : pending[i] # w
  BY <1>1 DEF QueueInv, Queued
<1>7. /\ \A v \in Writes \ {w} : submitted'[v] = submitted[v] /\ answer'[v] = answer[v]
      /\ submitted'[w] = n
  BY <1>1, <1>2
<1>8. NotCalled'
  <2>1. \A v \in Writes : submitted'[v] <= n
    BY <1>2, <1>3, <1>7
  <2> QED
    BY <1>1, <1>2, <1>4, <1>7, <2>1 DEF QueueInv, NotCalled
<1>9. CASE pending' = pending
  <2>1. QueueInCallOrder' /\ Queued'
    BY <1>1, <1>2, <1>4, <1>6, <1>7, <1>9 DEF QueueInv, QueueInCallOrder, Queued
  <2>2. HeadRuns' /\ InFlight' /\ OneInFlight'
    BY <1>1, <1>2, <1>5, <1>7, <1>9 DEF QueueInv, HeadRuns, InFlight, OneInFlight
  <2>3. InFlightFirst'
    BY <1>1, <1>2, <1>5, <1>6, <1>7, <1>9 DEF QueueInv, InFlightFirst
  <2> QED
    BY <1>8, <2>1, <2>2, <2>3 DEF QueueInv
<1>10. CASE pending' = Append(pending, w) /\ answer' = answer
  <2> DEFINE m == Len(pending) + 1
  <2>1. /\ DOMAIN pending = 1..Len(pending) /\ Len(pending) \in Nat /\ m \in DOMAIN pending'
        /\ \A i \in DOMAIN pending' : i # m => i \in DOMAIN pending /\ i < m /\ pending'[i] = pending[i]
        /\ pending'[m] = w /\ pending' # <<>>
        /\ pending # <<>> => Head(pending') = Head(pending)
        /\ m = 1 <=> pending = <<>>
        /\ \A i, j \in DOMAIN pending' : i < j => i # m
    BY <1>2, <1>10, AppendProperties, LenProperties, EmptySeq
  <2> HIDE DEF m, n
  <2>2. QueueInCallOrder'
    BY <1>1, <1>2, <1>3, <1>6, <1>7, <2>1 DEF QueueInv, QueueInCallOrder
  <2>3. Queued'
    BY <1>1, <1>2, <1>4, <1>5, <1>6, <1>7, <1>10, <2>1 DEF QueueInv, Queued
  <2>4. HeadRuns' /\ InFlight' /\ OneInFlight'
    <3>1. running => pending # <<>>
      BY DEF QueueInv, TypeInv
    <3> QED
      BY <1>1, <1>2, <1>5, <1>7, <1>10, <2>1, <3>1 DEF QueueInv, HeadRuns, InFlight, OneInFlight
  <2>5. InFlightFirst'
    BY <1>1, <1>2, <1>3, <1>5, <1>6, <1>7, <2>1 DEF QueueInv, InFlightFirst
  <2> QED
    BY <1>8, <2>2, <2>3, <2>4, <2>5 DEF QueueInv
<1> QED
  BY <1>1, <1>9, <1>10

LEMMA StartKeepsQueue ==
  ASSUME QueueInv, TypeInv', Start
  PROVE  QueueInv'
<1>1. /\ pending # <<>> /\ ~running /\ fence = "none" /\ running' /\ appending' = appending \union {Head(pending)}
      /\ UNCHANGED <<log, pending, fence, answer, submitted, calls>>
  BY DEF Start
<1>2. appending = {}
  BY <1>1 DEF QueueInv, InFlight
<1>3. /\ pending \in Seq(Writes) /\ DOMAIN pending = 1..Len(pending) /\ Len(pending) \in Nat \ {0}
      /\ Head(pending) = pending[1] /\ 1 \in DOMAIN pending
  BY <1>1, TailShifts DEF QueueInv, TypeInv, TypeOK
<1>4. QueueInCallOrder' /\ HeadRuns' /\ InFlight' /\ OneInFlight'
  BY <1>1, <1>2 DEF QueueInv, QueueInCallOrder, HeadRuns, InFlight, OneInFlight
<1>5. \A i \in DOMAIN pending : i # 1 => submitted[pending[1]] < submitted[pending[i]]
  BY <1>3 DEF QueueInv, QueueInCallOrder
<1>6. \A i \in DOMAIN pending : i # 1 => pending[i] # pending[1]
  BY <1>3, <1>5 DEF QueueInv, TypeInv, TypeOK
<1>7. NotCalled' /\ Queued'
  BY <1>1, <1>2, <1>3, <1>6 DEF QueueInv, NotCalled, Queued, Committed
<1>8. InFlightFirst'
  BY <1>1, <1>2, <1>3, <1>5 DEF QueueInv, InFlightFirst
<1> QED
  BY <1>4, <1>7, <1>8 DEF QueueInv

LEMMA LandsKeepsQueue ==
  ASSUME QueueInv, TypeInv', NEW w \in Writes, Lands(w)
  PROVE  QueueInv'
<1>1. /\ w \in appending /\ log' = Append(log, w)
      /\ UNCHANGED <<appending, pending, running, fence, answer, submitted, calls>>
  BY DEF Lands, store
<1>2. \A v \in Writes : Committed(v)' <=> Committed(v) \/ v = w
  BY <1>1, LogGrows DEF QueueInv, TypeInv
<1>3. \A i \in DOMAIN pending : pending[i] \in Writes
  BY DEF QueueInv, TypeInv, TypeOK
<1>4. NotCalled' /\ Queued'
  BY <1>1, <1>2, <1>3 DEF QueueInv, NotCalled, Queued
<1> QED
  BY <1>1, <1>4
  DEF QueueInv, QueueInCallOrder, HeadRuns, InFlight, OneInFlight, InFlightFirst

(* Whatever a replacement is loaded after, no append of the old store is under way. *)
LEMMA LoadAfterAppends ==
  ASSUME RuntimeInv, QueueInv, Load
  PROVE  appending' = {}
<1>1. runtime = "parked" => pending = <<>> /\ fence = "none"
  BY DEF RuntimeInv
<1>2. running => pending # <<>>
  BY DEF QueueInv, TypeInv
<1>3. runtime = "parked" => appending = {}
  BY <1>1, <1>2 DEF QueueInv, InFlight
<1> QED
  BY <1>3 DEF Load, HasPendingWrites

LEMMA QueueKept == RuntimeInv /\ QueueInv /\ [Next]_vars => QueueInv'
<1> SUFFICES ASSUME RuntimeInv, QueueInv, [Next]_vars PROVE QueueInv'
  OBVIOUS
<1>1. TypeInv'
  BY Typed DEF QueueInv
<1>2. pending # <<>> /\ running => ~HeadRefused
  BY DEF HeadRefused
<1>3. running => pending # <<>>
  BY DEF QueueInv, TypeInv
<1>4. ASSUME NEW w \in Writes, Emit(w) \/ Lands(w) PROVE QueueInv'
  BY <1>1, <1>4, EmitKeepsQueue, LandsKeepsQueue
<1>5. CASE Start
  BY <1>1, <1>5, StartKeepsQueue
<1>6. CASE HeadRefused
  <2>1. PICK o \in Answers \ {"none"} : Settles(o)
    BY <1>6 DEF HeadRefused, Answers
  <2>2. /\ pending # <<>> /\ ~running /\ UNCHANGED <<log, submitted, calls>>
        /\ fence' = fence /\ appending' = appending
    BY <1>6 DEF HeadRefused, eventStore
  <2> QED
    BY <1>1, <2>1, <2>2, SettlesKeepsQueue
<1>7. CASE Deadline
  <2>1. /\ Settles("unknown") /\ UNCHANGED <<log, submitted, calls>>
        /\ fence' # "none" /\ appending' = appending /\ pending # <<>>
    BY <1>3, <1>7 DEF Deadline, FenceWith, eventStore
  <2> QED
    BY <1>1, <2>1, SettlesKeepsQueue DEF Answers
<1>8. CASE Succeeds \/ Refuses \/ RefusesOwner \/ FailsUnclassified
  <2>1. PICK o \in Answers \ {"none"} : Settles(o)
    BY <1>8 DEF Succeeds, Refuses, RefusesOwner, FailsUnclassified, Answers
  <2>2. /\ pending # <<>> /\ UNCHANGED <<log, submitted, calls>>
        /\ fence' = fence \/ fence' # "none"
        /\ appending' = appending \ {Head(pending)}
    BY <1>3, <1>8 DEF Succeeds, Refuses, RefusesOwner, FailsUnclassified, Answered, FenceWith
  <2> QED
    BY <1>1, <2>1, <2>2, SettlesKeepsQueue
<1>9. CASE LateAnswer
  <2>1. /\ UNCHANGED <<log, pending, running, fence, answer, submitted, calls>>
        /\ \E w \in appending : (running => w # Head(pending)) /\ appending' = appending \ {w}
    BY <1>9 DEF LateAnswer, Answered, store
  <2> QED
    BY <1>1, <2>1
    DEF QueueInv, QueueInCallOrder, NotCalled, Queued, HeadRuns, InFlight, OneInFlight, InFlightFirst,
        Committed
<1>10. CASE GoesLive \/ LoadFails \/ Detach \/ ParkFails \/ Parks \/ Reactivate \/ TakenOver
  <2>1. UNCHANGED <<log, appending, pending, running, fence, answer, submitted, calls>>
    BY <1>10
    DEF GoesLive, LoadFails, Detach, ParkFails, Parks, Reactivate, TakenOver, eventStore, store
  <2> QED
    BY <1>1, <2>1, UnchangedKeepsQueue
<1>11. CASE Load \/ Crash
  <2>1. appending' = {}
    BY <1>11, LoadAfterAppends DEF Crash
  <2>2. pending' = <<>> /\ ~running' /\ UNCHANGED <<log, submitted, calls>>
    BY <1>11 DEF Load, Crash
  <2>3. \A w \in Writes : submitted[w] = 0 => answer'[w] = answer[w]
    <3>1. \A w \in Range(pending) : submitted[w] # 0
      BY DEF QueueInv, Queued, Range
    <3>2. answer \in [Writes -> Answers]
      BY DEF QueueInv, TypeInv, TypeOK
    <3> QED
      BY <1>11, <3>1, <3>2 DEF Load, Crash
  <2>4. QueueInCallOrder' /\ Queued' /\ HeadRuns' /\ InFlight' /\ OneInFlight' /\ InFlightFirst'
    BY <2>1, <2>2 DEF QueueInCallOrder, Queued, HeadRuns, InFlight, OneInFlight, InFlightFirst
  <2>5. NotCalled'
    BY <2>1, <2>2, <2>3 DEF QueueInv, NotCalled, Committed
  <2> QED
    BY <1>1, <2>4, <2>5 DEF QueueInv
<1>12. CASE ForeignAppend
  <2>1. /\ log' = Append(log, Foreign)
        /\ UNCHANGED <<appending, pending, running, fence, answer, submitted, calls>>
    BY <1>12 DEF ForeignAppend, store
  <2>2. \A v \in Writes : Committed(v)' <=> Committed(v)
    BY <2>1, LogGrows, WritesAssumption DEF QueueInv, TypeInv
  <2>3. \A i \in DOMAIN pending : pending[i] \in Writes
    BY DEF QueueInv, TypeInv, TypeOK
  <2> QED
    BY <1>1, <2>1, <2>2, <2>3
    DEF QueueInv, QueueInCallOrder, NotCalled, Queued, HeadRuns, InFlight, OneInFlight, InFlightFirst
<1>13. CASE UNCHANGED vars
  BY <1>1, <1>13, UnchangedKeepsQueue DEF vars, eventStore, store
<1> QED
  BY <1>4, <1>5, <1>6, <1>7, <1>8, <1>9, <1>10, <1>11, <1>12, <1>13 DEF Next, QueueStep

-----------------------------------------------------------------------------
(* The order of the log *)

(* The steps that settle or end something leave the log, and queue nothing. *)
LEMMA OtherSteps ==
  ASSUME QueueInv,
         \/ HeadRefused \/ Deadline \/ Succeeds \/ Refuses \/ RefusesOwner \/ FailsUnclassified
         \/ LateAnswer \/ GoesLive \/ LoadFails \/ Detach \/ ParkFails \/ Parks \/ Reactivate
         \/ TakenOver
  PROVE  /\ log' = log /\ submitted' = submitted /\ appending' \subseteq appending
         /\ pending' = pending \/ (pending # <<>> /\ pending' = Tail(pending))
<1>1. running => pending # <<>>
  BY DEF QueueInv, TypeInv
<1>2. CASE HeadRefused \/ Deadline
  BY <1>1, <1>2 DEF HeadRefused, Deadline, Settles, eventStore
<1>3. CASE Succeeds \/ Refuses \/ RefusesOwner \/ FailsUnclassified
  BY <1>1, <1>3 DEF Succeeds, Refuses, RefusesOwner, FailsUnclassified, Answered, Settles
<1>4. CASE LateAnswer
  <2>1. UNCHANGED <<log, submitted, pending>> /\ \E w \in appending : appending' = appending \ {w}
    BY <1>4 DEF LateAnswer, Answered, store
  <2> QED
    BY <2>1
<1>5. CASE GoesLive \/ LoadFails \/ Detach \/ ParkFails \/ Parks \/ Reactivate \/ TakenOver
  <2>1. UNCHANGED <<log, submitted, pending, appending>>
    BY <1>5 DEF GoesLive, LoadFails, Detach, ParkFails, Parks, Reactivate, TakenOver, eventStore, store
  <2> QED
    BY <2>1
<1> QED
  BY <1>2, <1>3, <1>4, <1>5

LEMMA OrderKept == RuntimeInv /\ OrderInv /\ [Next]_vars => OrderInv'
<1> SUFFICES ASSUME RuntimeInv, OrderInv, [Next]_vars PROVE LogFirst' /\ WritesInCallOrder'
  BY QueueKept DEF OrderInv
<1>1. QueueInv /\ LogFirst /\ WritesInCallOrder /\ TypeOK
  BY DEF OrderInv, QueueInv, TypeInv
<1>2. /\ log \in Seq(Writes \union {Foreign}) /\ pending \in Seq(Writes)
      /\ submitted \in [Writes -> Nat] /\ appending \subseteq Writes
      /\ \A i \in DOMAIN pending : pending[i] \in Writes
      /\ \A i \in DOMAIN log : log[i] \in Writes => Committed(log[i])
  BY <1>1 DEF TypeOK, Committed, Range
<1>3. ASSUME NEW w \in Writes, Emit(w) PROVE LogFirst' /\ WritesInCallOrder'
  <2> DEFINE n == calls + 1
  <2>1. /\ log' = log /\ appending' = appending /\ submitted' = [submitted EXCEPT ![w] = n]
        /\ ~Committed(w) /\ w \notin appending
        /\ pending' = pending \/ pending' = Append(pending, w)
    BY <1>1, <1>3 DEF Emit, eventStore, QueueInv, NotCalled
  <2>2. \A v \in Writes : submitted[v] < n /\ submitted[v] \in Nat /\ n \in Nat
    BY <1>1, <1>2 DEF TypeOK, QueueInv, NotCalled
  <2>3. \A i \in DOMAIN pending : pending[i] # w
    BY <1>1, <1>3 DEF Emit, QueueInv, Queued
  <2>4. \A i \in DOMAIN pending' : pending'[i] = w \/ (i \in DOMAIN pending /\ pending'[i] = pending[i])
    BY <1>2, <2>1, AppendProperties, LenProperties
  <2> HIDE DEF n
  <2>5. \A v \in Writes : submitted'[v] = IF v = w THEN n ELSE submitted[v]
    BY <1>2, <2>1, <2>2
  <2>6. LogFirst'
    BY <1>1, <1>2, <2>1, <2>2, <2>3, <2>4, <2>5 DEF LogFirst, Committed
  <2>7. WritesInCallOrder'
    BY <1>1, <1>2, <2>1, <2>5 DEF WritesInCallOrder
  <2> QED
    BY <2>6, <2>7
<1>4. ASSUME NEW w \in Writes, Lands(w) PROVE LogFirst' /\ WritesInCallOrder'
  <2>1. /\ w \in appending /\ ~Committed(w) /\ log' = Append(log, w)
        /\ UNCHANGED <<appending, pending, submitted>>
    BY <1>4 DEF Lands, store
  <2>2. \A v \in Writes : Committed(v)' <=> Committed(v) \/ v = w
    BY <1>1, <2>1, LogGrows
  <2>3. LogFirst'
    BY <1>1, <1>2, <2>1, <2>2 DEF LogFirst, QueueInv, OneInFlight, InFlightFirst
  <2>4. /\ DOMAIN log = 1..Len(log) /\ Len(log) \in Nat
        /\ \A i \in DOMAIN log' : i # Len(log) + 1 => i \in DOMAIN log /\ log'[i] = log[i]
        /\ log'[Len(log) + 1] = w
        /\ \A i, j \in DOMAIN log' : i < j => i # Len(log) + 1
    BY <1>2, <2>1, AppendProperties, LenProperties
  <2>5. WritesInCallOrder'
    BY <1>1, <1>2, <2>1, <2>4 DEF WritesInCallOrder, LogFirst
  <2> QED
    BY <2>3, <2>5
<1>5. CASE Start
  <2>1. /\ pending # <<>> /\ fence = "none" /\ ~running
        /\ UNCHANGED <<log, pending, submitted>> /\ appending' = appending \union {Head(pending)}
    BY <1>5 DEF Start
  <2>2. Head(pending) = pending[1] /\ 1 \in DOMAIN pending
    BY <1>2, <2>1, TailShifts
  <2>3. appending = {}
    BY <1>1, <2>1 DEF QueueInv, InFlight
  <2> QED
    BY <1>1, <1>2, <2>1, <2>2, <2>3 DEF LogFirst, WritesInCallOrder, Committed
<1>6. CASE \/ HeadRefused \/ Deadline \/ Succeeds \/ Refuses \/ RefusesOwner \/ FailsUnclassified
           \/ LateAnswer \/ GoesLive \/ LoadFails \/ Detach \/ ParkFails \/ Parks \/ Reactivate
           \/ TakenOver
  <2>1. /\ log' = log /\ submitted' = submitted /\ appending' \subseteq appending
        /\ pending' = pending \/ (pending # <<>> /\ pending' = Tail(pending))
    BY <1>1, <1>6, OtherSteps
  <2>2. \A i \in DOMAIN pending' : \E j \in DOMAIN pending : pending'[i] = pending[j]
    <3>1. CASE pending' = pending
      BY <3>1
    <3>2. CASE pending # <<>> /\ pending' = Tail(pending)
      <4>1. /\ Tail(pending) \in Seq(Writes) /\ Len(Tail(pending)) = Len(pending) - 1
            /\ \A i \in 1..Len(Tail(pending)) : i + 1 \in 2..Len(pending) /\ Tail(pending)[i] = pending[i + 1]
        BY <1>2, <3>2, TailShifts
      <4>2. DOMAIN pending = 1..Len(pending) /\ DOMAIN Tail(pending) = 1..Len(Tail(pending)) /\ Len(pending) \in Nat
        BY <1>2, <4>1, LenProperties
      <4>3. \A i \in DOMAIN pending' : i + 1 \in DOMAIN pending /\ pending'[i] = pending[i + 1]
        BY <3>2, <4>1, <4>2
      <4> QED
        BY <4>3
    <3> QED
      BY <2>1, <3>1, <3>2
  <2> QED
    BY <1>1, <1>2, <2>1, <2>2 DEF LogFirst, WritesInCallOrder, Committed
<1>7. CASE Load \/ Crash
  <2>1. appending' = {} /\ pending' = <<>> /\ UNCHANGED <<log, submitted>>
    BY <1>1, <1>7, LoadAfterAppends DEF Load, Crash
  <2> QED
    BY <1>1, <2>1 DEF LogFirst, WritesInCallOrder
<1>8. CASE ForeignAppend
  <2>1. log' = Append(log, Foreign) /\ UNCHANGED <<appending, pending, submitted>>
    BY <1>8 DEF ForeignAppend, store
  <2>2. \A v \in Writes : Committed(v)' <=> Committed(v)
    BY <1>1, <2>1, LogGrows, WritesAssumption
  <2>3. /\ DOMAIN log = 1..Len(log) /\ Len(log) \in Nat
        /\ \A i \in DOMAIN log' : i # Len(log) + 1 => i \in DOMAIN log /\ log'[i] = log[i]
        /\ log'[Len(log) + 1] = Foreign
    BY <1>2, <2>1, AppendProperties, LenProperties
  <2> QED
    BY <1>1, <1>2, <2>1, <2>2, <2>3, WritesAssumption DEF LogFirst, WritesInCallOrder
<1>9. CASE UNCHANGED vars
  BY <1>1, <1>9 DEF vars, eventStore, store, LogFirst, WritesInCallOrder, Committed
<1> QED
  BY <1>3, <1>4, <1>5, <1>6, <1>7, <1>8, <1>9 DEF Next, QueueStep

-----------------------------------------------------------------------------
(* The projection *)

(* A prefix of the log stays one, and the next entry of the log extends it. *)
LEMMA PrefixGrows ==
  ASSUME TypeOK, StateFollowsLog, NEW e \in Writes \union {Foreign}
  PROVE  /\ log' = Append(log, e) /\ state' = state => StateFollowsLog'
         /\ log' = log /\ state' = Append(state, e) /\ Len(state) < Len(log) /\ log[Len(state) + 1] = e
              => StateFollowsLog'
<1>1. /\ DOMAIN state = 1..Len(state) /\ DOMAIN log = 1..Len(log)
      /\ Len(state) \in Nat /\ Len(log) \in Nat
  BY LenProperties DEF TypeOK
<1>2. ASSUME log' = Append(log, e), state' = state PROVE StateFollowsLog'
  <2>1. Len(log') = Len(log) + 1 /\ \A i \in DOMAIN log : log'[i] = log[i]
    BY <1>2, AppendProperties DEF TypeOK
  <2> QED
    BY <1>1, <1>2, <2>1 DEF StateFollowsLog
<1>3. ASSUME log' = log, state' = Append(state, e), Len(state) < Len(log), log[Len(state) + 1] = e
      PROVE  StateFollowsLog'
  <2>1. /\ Len(state') = Len(state) + 1 /\ DOMAIN state' = 1..(Len(state) + 1)
        /\ \A i \in DOMAIN state : state'[i] = state[i]
        /\ state'[Len(state) + 1] = e
    BY <1>3, <1>1, AppendProperties DEF TypeOK
  <2>2. \A i \in DOMAIN state' : i \in DOMAIN state \/ i = Len(state) + 1
    BY <1>1, <2>1
  <2> QED
    BY <1>1, <1>3, <2>1, <2>2 DEF StateFollowsLog
<1> QED
  BY <1>2, <1>3

LEMMA ProjectionKept == ProjectionInv /\ [Next]_vars => ProjectionInv'
<1> SUFFICES ASSUME ProjectionInv, [Next]_vars PROVE StateFollowsLog' /\ LogAhead'
  BY RuntimeKept, QueueKept DEF ProjectionInv
<1>1. /\ RuntimeInv /\ QueueInv /\ StateFollowsLog /\ LogAhead /\ TypeOK
      /\ (running => pending # <<>> /\ fence = "none")
      /\ (pending # <<>> => detached \/ runtime \in {"loading", "live"})
  BY DEF ProjectionInv, QueueInv, RuntimeInv, TypeInv, HeadRuns
<1>2. Len(state) \in Nat /\ Len(log) \in Nat /\ (pending # <<>> => Head(pending) \in Writes)
  BY <1>1, LenProperties, TailShifts DEF TypeOK
<1>3. ASSUME NEW w \in Writes, Emit(w) PROVE StateFollowsLog' /\ LogAhead'
  <2>1. /\ UNCHANGED <<log, owned, state, running, fence, detached, runtime>>
        /\ pending' = pending \/ pending' = Append(pending, w)
    BY <1>3 DEF Emit, eventStore
  <2>2. pending # <<>> => Head(pending') = Head(pending)
    <3>1. ASSUME pending # <<>>, pending' = Append(pending, w) PROVE Head(pending') = Head(pending)
      <4>1. pending \in Seq(Writes) /\ Len(pending) \in Nat \ {0} /\ Head(pending) = pending[1]
        BY <1>1, <3>1, TailShifts DEF TypeOK
      <4>2. pending'[1] = pending[1] /\ Len(pending') = Len(pending) + 1 /\ pending' \in Seq(Writes)
        BY <3>1, <4>1, AppendProperties
      <4>3. pending' # <<>>
        BY <4>1, <4>2, EmptySeq
      <4> QED
        BY <4>1, <4>2, <4>3, TailShifts
    <3> QED
      BY <2>1, <3>1
  <2> QED
    BY <1>1, <2>1, <2>2 DEF StateFollowsLog, LogAhead, Accepting, Committed
<1>4. ASSUME NEW w \in Writes, Lands(w) PROVE StateFollowsLog' /\ LogAhead'
  <2>1. /\ w \in appending /\ ~Committed(w) /\ owned /\ log' = Append(log, w)
        /\ UNCHANGED <<owned, state, pending, running, fence, detached, runtime>>
    BY <1>4 DEF Lands, store
  <2>2. \A v \in Writes : Committed(v)' <=> Committed(v) \/ v = w
    BY <1>1, <2>1, LogGrows
  <2>3. StateFollowsLog'
    BY <1>1, <2>1, PrefixGrows
  <2>4. Len(log') = Len(log) + 1 /\ log'[Len(log) + 1] = w
    BY <1>1, <2>1, AppendProperties DEF TypeOK
  <2>5. Accepting => running /\ w = Head(pending)
    BY <1>1, <2>1 DEF Accepting, QueueInv, InFlight
  <2>6. Accepting => Len(log) = Len(state)
    BY <1>1, <2>1, <2>5 DEF LogAhead
  <2>7. LogAhead'
    BY <1>2, <2>1, <2>2, <2>4, <2>5, <2>6 DEF LogAhead, Accepting
  <2> QED
    BY <2>3, <2>7
<1>5. CASE Start
  <2>1. /\ pending # <<>> /\ ~running
        /\ UNCHANGED <<log, owned, state, pending, fence, detached, runtime>>
    BY <1>5 DEF Start
  <2>2. ~Committed(Head(pending))
    <3>1. Head(pending) = pending[1] /\ 1 \in DOMAIN pending
      BY <1>1, <2>1, TailShifts DEF TypeOK
    <3> QED
      BY <1>1, <2>1, <3>1 DEF QueueInv, Queued
  <2> QED
    BY <1>1, <2>1, <2>2 DEF StateFollowsLog, LogAhead, Accepting, Committed
<1>6. CASE HeadRefused
  <2>1. /\ ~running /\ ~running' /\ (fence # "none" \/ detached)
        /\ UNCHANGED <<log, owned, state, fence, detached>>
    BY <1>6 DEF HeadRefused, Settles, eventStore
  <2> QED
    BY <1>1, <2>1 DEF StateFollowsLog, LogAhead, Accepting
<1>7. CASE Deadline \/ RefusesOwner \/ FailsUnclassified
  <2>1. fence' # "none" /\ UNCHANGED <<log, state>>
    BY <1>7 DEF Deadline, RefusesOwner, FailsUnclassified, FenceWith, Answered, eventStore
  <2> QED
    BY <1>1, <2>1 DEF StateFollowsLog, LogAhead, Accepting
<1>8. CASE Succeeds
  <2>1. running /\ Committed(Head(pending)) /\ log' = log /\ owned' = owned /\ ~running'
    BY <1>8 DEF Succeeds, Answered, Settles
  <2>2. CASE state' = state /\ (fence' # "none" \/ (detached /\ detached' = detached))
    BY <1>1, <2>1, <2>2 DEF StateFollowsLog, LogAhead, Accepting
  <2>3. CASE /\ ~detached /\ state' = Append(state, Head(pending))
             /\ UNCHANGED <<fence, detached, runtime>>
    <3>1. Accepting
      BY <1>1, <2>1, <2>3 DEF Accepting
    <3>2. /\ Len(state) < Len(log) /\ log[Len(state) + 1] = Head(pending)
          /\ owned => Len(log) = Len(state) + 1
      BY <1>1, <2>1, <3>1 DEF LogAhead
    <3>3. StateFollowsLog'
      BY <1>1, <1>2, <2>1, <2>3, <3>2, PrefixGrows
    <3>4. Len(state') = Len(state) + 1
      BY <1>1, <1>2, <2>1, <2>3, AppendProperties DEF TypeOK
    <3>5. LogAhead'
      BY <2>1, <3>2, <3>4 DEF LogAhead
    <3> QED
      BY <3>3, <3>5
  <2> QED
    BY <1>8, <2>2, <2>3 DEF Succeeds, FenceWith
<1>9. CASE Refuses
  <2>1. /\ running /\ ~Committed(Head(pending)) /\ ~running'
        /\ UNCHANGED <<log, owned, state, fence, detached, runtime>>
    BY <1>9 DEF Refuses, Answered, Settles
  <2> QED
    BY <1>1, <2>1 DEF StateFollowsLog, LogAhead, Accepting
<1>10. CASE LateAnswer \/ GoesLive \/ ParkFails
  <2>1. /\ UNCHANGED <<log, owned, state, pending, running, fence, detached>>
        /\ runtime' \in {"loading", "live"} => runtime \in {"loading", "live"}
    BY <1>10 DEF LateAnswer, GoesLive, ParkFails, Answered, eventStore, store
  <2> QED
    BY <1>1, <2>1 DEF StateFollowsLog, LogAhead, Accepting, Committed
<1>11. CASE LoadFails \/ Detach \/ Parks \/ Reactivate \/ Crash
  <2>1. runtime' \notin {"loading", "live"} /\ UNCHANGED <<log, state>>
    BY <1>11 DEF LoadFails, Detach, Parks, Reactivate, Crash, eventStore, store
  <2> QED
    BY <1>1, <2>1 DEF StateFollowsLog, LogAhead, Accepting
<1>12. CASE Load
  <2>1. log' = log /\ state' = log /\ ~running'
    BY <1>12 DEF Load
  <2> QED
    BY <1>2, <2>1 DEF StateFollowsLog, LogAhead
<1>13. CASE TakenOver \/ ForeignAppend
  <2>1. /\ ~owned' /\ UNCHANGED <<state, pending, running, fence, detached, runtime>>
        /\ log' = log \/ log' = Append(log, Foreign)
    BY <1>13 DEF TakenOver, ForeignAppend, store
  <2>2. CASE log' = log
    BY <1>1, <2>1, <2>2 DEF StateFollowsLog, LogAhead, Accepting, Committed
  <2>3. CASE log' = Append(log, Foreign)
    <3>1. StateFollowsLog'
      BY <1>1, <2>1, <2>3, PrefixGrows
    <3>2. \A v \in Writes : Committed(v)' <=> Committed(v)
      BY <1>1, <2>3, LogGrows, WritesAssumption
    <3>3. Len(log') = Len(log) + 1 /\ \A i \in 1..Len(log) : log'[i] = log[i]
      BY <1>1, <2>3, AppendProperties DEF TypeOK
    <3>4. LogAhead'
      BY <1>1, <1>2, <2>1, <3>2, <3>3 DEF LogAhead, Accepting
    <3> QED
      BY <3>1, <3>4
  <2> QED
    BY <2>1, <2>2, <2>3
<1>14. CASE UNCHANGED vars
  BY <1>1, <1>14 DEF vars, eventStore, store, StateFollowsLog, LogAhead, Accepting, Committed
<1> QED
  BY <1>3, <1>4, <1>5, <1>6, <1>7, <1>8, <1>9, <1>10, <1>11, <1>12, <1>13, <1>14
  DEF Next, QueueStep

(* LogAhead and StateFollowsLog say where each entry of the log is in the projection. *)
LEMMA CurrentFollows == ProjectionInv => ProjectionIsCurrent
<1> SUFFICES ASSUME ProjectionInv, Accepting, owned
             PROVE  log = IF running /\ Committed(Head(pending)) THEN Append(state, Head(pending)) ELSE state
  BY DEF ProjectionIsCurrent
<1>1. TypeOK /\ StateFollowsLog /\ LogAhead /\ (running => pending # <<>>)
  BY DEF ProjectionInv, RuntimeInv, TypeInv
<1>2. /\ log \in Seq(Writes \union {Foreign}) /\ state \in Seq(Writes \union {Foreign})
      /\ Len(state) \in Nat /\ DOMAIN state = 1..Len(state)
      /\ (pending # <<>> => Head(pending) \in Writes)
  BY <1>1, LenProperties, TailShifts DEF TypeOK
<1>3. CASE running /\ Committed(Head(pending))
  <2> DEFINE h == Head(pending)
  <2>1. h \in Writes /\ Len(log) = Len(state) + 1 /\ log[Len(state) + 1] = h
    BY <1>1, <1>2, <1>3 DEF LogAhead
  <2>2. /\ Append(state, h) \in Seq(Writes \union {Foreign}) /\ Len(Append(state, h)) = Len(state) + 1
        /\ \A i \in 1..Len(state) : Append(state, h)[i] = state[i]
        /\ Append(state, h)[Len(state) + 1] = h
    BY <1>2, <2>1, AppendProperties
  <2> HIDE DEF h
  <2>3. \A i \in 1..Len(log) : log[i] = Append(state, h)[i]
    BY <1>1, <1>2, <2>1, <2>2 DEF StateFollowsLog
  <2>4. log = Append(state, h)
    BY <1>2, <2>1, <2>2, <2>3, SeqEqual
  <2> QED
    BY <1>3, <2>4 DEF h
<1>4. CASE ~(running /\ Committed(Head(pending)))
  <2>1. Len(log) = Len(state)
    BY <1>1, <1>4 DEF LogAhead
  <2>2. \A i \in 1..Len(log) : log[i] = state[i]
    BY <1>1, <1>2, <2>1 DEF StateFollowsLog
  <2>3. log = state
    BY <1>2, <2>1, <2>2, SeqEqual
  <2> QED
    BY <1>4, <2>3
<1> QED
  BY <1>3, <1>4

-----------------------------------------------------------------------------
(* What callers are told *)

(* What a step does to the answers: nothing, the emitted write's, the head's, or all queued ones. *)
LEMMA AnswersKept == QueueInv /\ AnswersAreTrue /\ [Next]_vars => AnswersAreTrue'
<1> SUFFICES ASSUME QueueInv, AnswersAreTrue, [Next]_vars PROVE AnswersAreTrue'
  OBVIOUS
<1>1. /\ TypeOK /\ (running => pending # <<>>) /\ answer \in [Writes -> Answers]
  BY DEF QueueInv, TypeInv, TypeOK
<1>2. pending # <<>> => /\ Head(pending) \in Writes /\ Head(pending) = pending[1] /\ 1 \in DOMAIN pending
  BY <1>1, TailShifts DEF TypeOK
<1>3. AnswersAreTrue <=>
        \A w \in Writes : /\ answer[w] = "ok" => Committed(w) \/ w \in Empty
                          /\ answer[w] \in {"refused", "lost"} => ~Committed(w)
  BY DEF AnswersAreTrue, Committed
<1>4. AnswersAreTrue' <=>
        \A w \in Writes : /\ answer'[w] = "ok" => Committed(w)' \/ w \in Empty
                          /\ answer'[w] \in {"refused", "lost"} => ~Committed(w)'
  BY DEF AnswersAreTrue, Committed
<1>5. ASSUME NEW w \in Writes, Emit(w) PROVE AnswersAreTrue'
  <2>1. /\ ~Committed(w) /\ log' = log
        /\ \/ answer' = answer
           \/ answer' = [answer EXCEPT ![w] = "refused"]
           \/ answer' = [answer EXCEPT ![w] = "detached"]
           \/ w \in Empty /\ answer' = [answer EXCEPT ![w] = "ok"]
    BY <1>5 DEF Emit, eventStore, QueueInv, NotCalled
  <2>2. \A v \in Writes : Committed(v)' <=> Committed(v)
    BY <2>1 DEF Committed
  <2> QED
    BY <1>1, <1>3, <1>4, <2>1, <2>2
<1>6. ASSUME NEW w \in Writes, Lands(w) PROVE AnswersAreTrue'
  <2>1. w \in appending /\ log' = Append(log, w) /\ answer' = answer
    BY <1>6 DEF Lands
  <2>2. \A v \in Writes : Committed(v)' <=> Committed(v) \/ v = w
    BY <1>1, <2>1, LogGrows
  <2>3. answer[w] \in {"none", "unknown"}
    BY <1>1, <1>2, <2>1 DEF QueueInv, InFlight, Queued
  <2> QED
    BY <1>3, <1>4, <2>1, <2>2, <2>3
<1>7. CASE HeadRefused
  <2>1. /\ pending # <<>> /\ ~running /\ log' = log
        /\ \/ answer' = [answer EXCEPT ![Head(pending)] = "refused"]
           \/ answer' = [answer EXCEPT ![Head(pending)] = "detached"]
    BY <1>7 DEF HeadRefused, Settles, eventStore
  <2>2. \A v \in Writes : Committed(v)' <=> Committed(v)
    BY <2>1 DEF Committed
  <2>3. ~Committed(Head(pending))
    BY <1>2, <2>1 DEF QueueInv, Queued
  <2> QED
    BY <1>1, <1>2, <1>3, <1>4, <2>1, <2>2, <2>3
<1>8. CASE Deadline \/ Succeeds \/ Refuses \/ RefusesOwner \/ FailsUnclassified
  <2>1. /\ running /\ log' = log
        /\ \/ \E o \in {"unknown", "detached", "failed"} : answer' = [answer EXCEPT ![Head(pending)] = o]
           \/ Committed(Head(pending)) /\ answer' = [answer EXCEPT ![Head(pending)] = "ok"]
           \/ /\ ~Committed(Head(pending))
              /\ \E o \in {"refused", "lost"} : answer' = [answer EXCEPT ![Head(pending)] = o]
    BY <1>8
    DEF Deadline, Succeeds, Refuses, RefusesOwner, FailsUnclassified, Settles, Answered, eventStore
  <2>2. \A v \in Writes : Committed(v)' <=> Committed(v)
    BY <2>1 DEF Committed
  <2> QED
    BY <1>1, <1>2, <1>3, <1>4, <2>1, <2>2
<1>9. CASE Crash
  <2>1. log' = log /\ \A w \in Writes : answer'[w] = answer[w] \/ answer'[w] = "crashed"
    BY <1>9 DEF Crash
  <2>2. \A v \in Writes : Committed(v)' <=> Committed(v)
    BY <2>1 DEF Committed
  <2> QED
    BY <1>3, <1>4, <2>1, <2>2
<1>10. CASE ForeignAppend
  <2>1. log' = Append(log, Foreign) /\ answer' = answer
    BY <1>10 DEF ForeignAppend
  <2>2. \A v \in Writes : Committed(v)' <=> Committed(v)
    BY <1>1, <2>1, LogGrows, WritesAssumption
  <2> QED
    BY <1>3, <1>4, <2>1, <2>2
<1>11. CASE \/ Start \/ LateAnswer \/ GoesLive \/ LoadFails \/ Detach \/ ParkFails \/ Parks
            \/ Load \/ Reactivate \/ TakenOver \/ UNCHANGED vars
  <2>1. UNCHANGED <<log, answer>>
    BY <1>11
    DEF Start, LateAnswer, GoesLive, LoadFails, Detach, ParkFails, Parks, Load, Reactivate, TakenOver,
        Answered, eventStore, vars
  <2>2. \A v \in Writes : Committed(v)' <=> Committed(v)
    BY <2>1 DEF Committed
  <2> QED
    BY <1>3, <1>4, <2>1, <2>2
<1> QED
  BY <1>5, <1>6, <1>7, <1>8, <1>9, <1>10, <1>11 DEF Next, QueueStep

-----------------------------------------------------------------------------
(* After a park *)
LEMMA ParkedIsFinal ==
  RuntimeInv /\ QueueInv /\ [Next]_vars
    => [runtime = "parked" /\ log' # log => log' = Append(log, Foreign)]_vars
<1> SUFFICES ASSUME RuntimeInv, QueueInv, [Next]_vars, runtime = "parked", log' # log
             PROVE  log' = Append(log, Foreign)
  OBVIOUS
<1>1. pending = <<>> /\ fence = "none" /\ ~running
  BY DEF RuntimeInv, TypeInv
<1>2. appending = {}
  BY <1>1 DEF QueueInv, InFlight
<1>3. \A w \in Writes : ~Lands(w)
  BY <1>2 DEF Lands
<1>4. ~Start /\ ~Load /\ ~Crash /\ ~(\E w \in Writes : Emit(w))
  BY DEF Start, Load, Crash, Emit, eventStore
<1>5. CASE ForeignAppend
  BY <1>5 DEF ForeignAppend
<1>6. log' = log \/ ForeignAppend
  BY <1>3, <1>4, OtherSteps DEF Next, QueueStep, vars, eventStore
<1> QED
  BY <1>5, <1>6

-----------------------------------------------------------------------------
(* The implementation of EventLog *)

told == [w \in Writes |-> Outcome(w)]

(* A step of one write w moves w's outcome alone. *)
LEMMA OneOutcome ==
  ASSUME QueueInv, NEW w \in Writes, NEW o \in Answers, NEW n \in Nat,
         answer' = [answer EXCEPT ![w] = o], submitted' = [submitted EXCEPT ![w] = n]
  PROVE  /\ told' = [told EXCEPT ![w] = Outcome(w)']
         /\ answer'[w] = o /\ submitted'[w] = n
<1>1. answer \in [Writes -> Answers] /\ submitted \in [Writes -> Nat]
  BY DEF QueueInv, TypeInv, TypeOK
<1>2. answer'[w] = o /\ submitted'[w] = n
  BY <1>1
<1>3. \A v \in Writes \ {w} : answer'[v] = answer[v] /\ submitted'[v] = submitted[v]
  BY <1>1
<1>4. \A v \in Writes \ {w} : Outcome(v)' = Outcome(v)
  BY <1>3 DEF Outcome
<1>5. told' = [v \in Writes |-> Outcome(v)']
  BY DEF told
<1>6. [told EXCEPT ![w] = Outcome(w)'] = [v \in Writes |-> IF v = w THEN Outcome(w)' ELSE Outcome(v)]
  BY DEF told
<1> QED
  BY <1>2, <1>4, <1>5, <1>6

LEMMA EmitImplements ==
  ASSUME QueueInv, NEW w \in Writes, Emit(w)
  PROVE  Abstract!LogNext
<1> DEFINE n == calls + 1
<1>1. /\ answer \in [Writes -> Answers] /\ submitted \in [Writes -> Nat] /\ n \in Nat /\ n # 0
  BY DEF QueueInv, TypeInv, TypeOK
<1>2. /\ submitted[w] = 0 /\ submitted' = [submitted EXCEPT ![w] = n] /\ log' = log
      /\ answer[w] = "none" /\ w \notin Range(log)
      /\ \/ answer' = answer
         \/ answer' = [answer EXCEPT ![w] = "refused"]
         \/ answer' = [answer EXCEPT ![w] = "detached"]
         \/ w \in Empty /\ answer' = [answer EXCEPT ![w] = "ok"]
  BY DEF Emit, eventStore, QueueInv, NotCalled, Committed
<1> HIDE DEF n
<1>3. told[w] = "new"
  BY <1>2 DEF told, Outcome
<1>4. CASE answer' = answer
  <2>1. answer' = [answer EXCEPT ![w] = "none"]
    BY <1>1, <1>2, <1>4
  <2>2. told' = [told EXCEPT ![w] = "asked"]
    BY <1>1, <1>2, <2>1, OneOutcome DEF Outcome, Answers
  <2>3. Abstract!Submit(w)
    BY <1>2, <1>3, <2>2 DEF Abstract!Submit, told
  <2> QED
    BY <2>3 DEF Abstract!LogNext
<1>5. CASE answer' = [answer EXCEPT ![w] = "refused"]
  <2>1. told' = [told EXCEPT ![w] = "refused"]
    BY <1>1, <1>2, <1>5, OneOutcome DEF Outcome, Answers
  <2>2. Abstract!Refuse(w)
    BY <1>2, <1>3, <2>1 DEF Abstract!Refuse, Abstract!Range, Range, told
  <2> QED
    BY <2>2 DEF Abstract!LogNext
<1>6. CASE answer' = [answer EXCEPT ![w] = "detached"]
  <2>1. told' = [told EXCEPT ![w] = "unknown"]
    BY <1>1, <1>2, <1>6, OneOutcome DEF Outcome, Answers
  <2>2. told' = [v \in Writes |-> IF v \in {w} THEN "unknown" ELSE told[v]]
    BY <2>1 DEF told
  <2>3. Abstract!GiveUp({w})
    BY <1>2, <1>3, <2>2 DEF Abstract!GiveUp, told
  <2> QED
    BY <2>3 DEF Abstract!LogNext
<1>7. CASE w \in Empty /\ answer' = [answer EXCEPT ![w] = "ok"]
  <2>1. told' = [told EXCEPT ![w] = "ok"]
    BY <1>1, <1>2, <1>7, OneOutcome DEF Outcome, Answers
  <2>2. Abstract!Acknowledge(w)
    BY <1>2, <1>3, <1>7, <2>1 DEF Abstract!Acknowledge, told
  <2> QED
    BY <2>2 DEF Abstract!LogNext
<1> QED
  BY <1>2, <1>4, <1>5, <1>6, <1>7

(* A head that settles was asked for; what it is told is what the log shows, or nothing. *)
LEMMA SettlesImplements ==
  ASSUME QueueInv, pending # <<>>, NEW o \in Answers \ {"none"}, Settles(o),
         UNCHANGED <<log, submitted>>,
         o = "ok" => Committed(Head(pending)),
         o \in {"refused", "lost"} => ~Committed(Head(pending))
  PROVE  Abstract!LogNext
<1>1. Head(pending) \in Writes /\ Head(pending) = pending[1] /\ 1 \in DOMAIN pending
  BY TailShifts DEF QueueInv, TypeInv, TypeOK
<1> PICK h \in Writes : h = Head(pending)
  BY <1>1
<1>2. answer[h] = "none" /\ submitted[h] # 0
  BY <1>1 DEF QueueInv, Queued
<1>3. answer' = [answer EXCEPT ![h] = o] /\ log' = log /\ submitted' = submitted
      /\ submitted \in [Writes -> Nat]
  BY DEF Settles, QueueInv, TypeInv, TypeOK
<1>4. told[h] = "asked"
  BY <1>1, <1>2 DEF told, Outcome
<1>5. told' = [told EXCEPT ![h] = Outcome(h)'] /\ answer'[h] = o
  <2> DEFINE n == submitted[h]
  <2>1. n \in Nat /\ submitted' = [submitted EXCEPT ![h] = n]
    BY <1>1, <1>3
  <2>2. o \in Answers /\ QueueInv /\ answer' = [answer EXCEPT ![h] = o]
    BY <1>3
  <2> HIDE DEF n
  <2> QED
    BY <1>1, <2>1, <2>2, OneOutcome
<1>6. Outcome(h)' = IF o = "ok" THEN "ok" ELSE IF o \in {"refused", "lost"} THEN "refused" ELSE "unknown"
  <2>1. o \in Answers /\ o # "none" /\ answer'[h] = o
    BY <1>5
  <2>2. CASE o = "ok"
    BY <2>1, <2>2 DEF Outcome
  <2>3. CASE o \in {"refused", "lost"}
    BY <2>1, <2>3 DEF Outcome
  <2>4. CASE o \notin {"ok", "refused", "lost"}
    BY <2>1, <2>4 DEF Outcome
  <2> QED
    BY <2>2, <2>3, <2>4
<1>7. CASE o = "ok"
  <2>1. Abstract!Acknowledge(h)
    BY <1>3, <1>4, <1>5, <1>6, <1>7 DEF Abstract!Acknowledge, Abstract!Range, Range, told, Committed
  <2> QED
    BY <1>1, <2>1 DEF Abstract!LogNext
<1>8. CASE o \in {"refused", "lost"}
  <2>1. Abstract!Refuse(h)
    BY <1>3, <1>4, <1>5, <1>6, <1>8 DEF Abstract!Refuse, Abstract!Range, Range, told, Committed
  <2> QED
    BY <1>1, <2>1 DEF Abstract!LogNext
<1>9. CASE o \notin {"ok", "refused", "lost"}
  <2>1. told' = [v \in Writes |-> IF v \in {h} THEN "unknown" ELSE told[v]]
    BY <1>5, <1>6, <1>9 DEF told
  <2>2. Abstract!GiveUp({h})
    BY <1>3, <1>4, <2>1 DEF Abstract!GiveUp, told
  <2> QED
    BY <1>1, <2>2 DEF Abstract!LogNext
<1> QED
  BY <1>7, <1>8, <1>9

LEMMA LandsImplements ==
  ASSUME QueueInv, NEW w \in Writes, Lands(w)
  PROVE  Abstract!LogNext
<1>1. /\ w \in appending /\ ~Committed(w) /\ log' = Append(log, w)
      /\ UNCHANGED <<answer, submitted>>
  BY DEF Lands
<1>2. answer[w] \in {"none", "unknown"} /\ submitted[w] # 0
  <2>1. pending # <<>> => Head(pending) = pending[1] /\ 1 \in DOMAIN pending
    BY TailShifts DEF QueueInv, TypeInv, TypeOK
  <2> QED
    BY <1>1, <2>1 DEF QueueInv, TypeInv, InFlight, Queued, NotCalled
<1>3. told[w] \in {"asked", "unknown"}
  BY <1>2 DEF told, Outcome
<1>4. told' = told
  BY <1>1 DEF told, Outcome
<1>5. Abstract!Commit(w)
  BY <1>1, <1>3, <1>4 DEF Abstract!Commit, Abstract!Range, Range, told, Committed
<1> QED
  BY <1>5 DEF Abstract!LogNext

LEMMA CrashImplements ==
  ASSUME QueueInv, Crash
  PROVE  Abstract!LogNext
<1> DEFINE S == Range(pending)
<1>1. S \subseteq Writes /\ \A w \in S : answer[w] = "none" /\ submitted[w] # 0
  BY DEF QueueInv, TypeInv, TypeOK, Queued, Range
<1>2. /\ log' = log /\ submitted' = submitted
      /\ answer' = [w \in Writes |-> IF w \in S THEN "crashed" ELSE answer[w]]
  BY DEF Crash
<1> HIDE DEF S
<1>3. \A w \in Writes : Outcome(w)' = IF w \in S THEN "unknown" ELSE Outcome(w)
  BY <1>1, <1>2 DEF Outcome
<1>4. \A w \in S : told[w] = "asked"
  BY <1>1 DEF told, Outcome
<1>5. told' = [w \in Writes |-> IF w \in S THEN "unknown" ELSE told[w]]
  BY <1>1, <1>3 DEF told
<1> PICK T \in SUBSET Writes : T = S
  BY <1>1
<1>6. Abstract!GiveUp(T)
  BY <1>2, <1>4, <1>5 DEF Abstract!GiveUp, told
<1> QED
  BY <1>6 DEF Abstract!LogNext

LEMMA StepImplements ==
  RuntimeInv /\ QueueInv /\ [Next]_vars => [Abstract!LogNext]_<<log, told>>
<1> SUFFICES ASSUME RuntimeInv, QueueInv, [Next]_vars
             PROVE  Abstract!LogNext \/ UNCHANGED <<log, told>>
  OBVIOUS
<1>1. running => pending # <<>>
  BY DEF RuntimeInv, TypeInv
<1>2. ASSUME NEW w \in Writes, Emit(w) \/ Lands(w) PROVE Abstract!LogNext
  BY <1>2, EmitImplements, LandsImplements
<1>3. CASE HeadRefused
  <2>1. pending # <<>> /\ ~running /\ UNCHANGED <<log, submitted>>
    BY <1>3 DEF HeadRefused, eventStore
  <2>2. ~Committed(Head(pending))
    <3>1. Head(pending) = pending[1] /\ 1 \in DOMAIN pending
      BY <2>1, TailShifts DEF QueueInv, TypeInv, TypeOK
    <3> QED
      BY <2>1, <3>1 DEF QueueInv, Queued
  <2>3. PICK o \in {"refused", "detached"} : Settles(o)
    BY <1>3 DEF HeadRefused
  <2> QED
    BY <2>1, <2>2, <2>3, SettlesImplements DEF Answers
<1>4. CASE Deadline \/ Succeeds \/ Refuses \/ RefusesOwner \/ FailsUnclassified
  <2>1. running /\ pending # <<>> /\ UNCHANGED <<log, submitted>>
    BY <1>1, <1>4
    DEF Deadline, Succeeds, Refuses, RefusesOwner, FailsUnclassified, Answered, eventStore
  <2>2. PICK o \in Answers \ {"none"} :
          /\ Settles(o)
          /\ o = "ok" => Committed(Head(pending))
          /\ o \in {"refused", "lost"} => ~Committed(Head(pending))
    BY <1>4 DEF Deadline, Succeeds, Refuses, RefusesOwner, FailsUnclassified, Answers
  <2> QED
    BY <2>1, <2>2, SettlesImplements
<1>5. CASE Crash
  BY <1>5, CrashImplements
<1>6. CASE ForeignAppend
  <2>1. log' = Append(log, Foreign) /\ UNCHANGED <<answer, submitted>>
    BY <1>6 DEF ForeignAppend
  <2>2. told' = told
    BY <2>1 DEF told, Outcome
  <2>3. Abstract!OtherCommits
    BY <2>1, <2>2 DEF Abstract!OtherCommits, told
  <2> QED
    BY <2>3 DEF Abstract!LogNext
<1>7. CASE \/ Start \/ LateAnswer \/ GoesLive \/ LoadFails \/ Detach \/ ParkFails \/ Parks
           \/ Load \/ Reactivate \/ TakenOver \/ UNCHANGED vars
  <2>1. UNCHANGED <<log, answer, submitted>>
    BY <1>7
    DEF Start, LateAnswer, GoesLive, LoadFails, Detach, ParkFails, Parks, Load, Reactivate, TakenOver,
        Answered, eventStore, vars
  <2> QED
    BY <2>1 DEF told, Outcome
<1> QED
  BY <1>2, <1>3, <1>4, <1>5, <1>6, <1>7 DEF Next, QueueStep

-----------------------------------------------------------------------------
(* Types and the queue hold in every behaviour. *)
LEMMA QueueHolds == Spec => [](RuntimeInv /\ QueueInv)
<1>1. Init => RuntimeInv /\ QueueInv
  <2> SUFFICES ASSUME Init PROVE RuntimeInv /\ QueueInv
    OBVIOUS
  <2>1. TypeInv
    <3>1. <<>> \in Seq(Writes) /\ <<>> \in Seq(Writes \union {Foreign})
      OBVIOUS
    <3>2. answer \in [Writes -> Answers] /\ submitted \in [Writes -> Nat]
      BY DEF Init, Answers
    <3> QED
      BY <3>1, <3>2 DEF Init, TypeInv, TypeOK, Fences
  <2>2. Range(log) = {}
    BY DEF Init, Range
  <2> QED
    BY <2>1, <2>2
    DEF Init, RuntimeInv, QueueInv, QueueInCallOrder, NotCalled, Queued, HeadRuns, InFlight, OneInFlight,
        InFlightFirst, Committed
<1> QED
  BY <1>1, RuntimeKept, QueueKept, PTL DEF Spec

(***************************************************************************)
(* The queue, the answers, the fence and the log are well formed, whatever *)
(* the interleaving of callers, answers, deadlines, reloads and crashes.   *)
(***************************************************************************)
THEOREM TypesHold == Spec => []TypeOK
<1>1. RuntimeInv => TypeOK
  BY DEF RuntimeInv, TypeInv
<1> QED
  BY <1>1, QueueHolds, PTL

(***************************************************************************)
(* The projection is always a prefix of the log (StateFollowsLog), also    *)
(* after a write of unknown outcome, a reload and a takeover.              *)
(***************************************************************************)
THEOREM StateFollowsLogHolds == Spec => []StateFollowsLog
<1>1. Init => StateFollowsLog /\ LogAhead
  BY DEF Init, StateFollowsLog, LogAhead
<1>2. ProjectionInv <=> RuntimeInv /\ QueueInv /\ StateFollowsLog /\ LogAhead
  BY DEF ProjectionInv
<1> QED
  BY <1>1, <1>2, ProjectionKept, QueueHolds, PTL DEF Spec

(***************************************************************************)
(* While the store accepts writes and the host owns the log, nothing       *)
(* committed is missing from the projection but the running head.          *)
(***************************************************************************)
THEOREM ProjectionIsCurrentHolds == Spec => []ProjectionIsCurrent
<1>1. Init => StateFollowsLog /\ LogAhead
  BY DEF Init, StateFollowsLog, LogAhead
<1>2. ProjectionInv <=> RuntimeInv /\ QueueInv /\ StateFollowsLog /\ LogAhead
  BY DEF ProjectionInv
<1> QED
  BY <1>1, <1>2, ProjectionKept, CurrentFollows, QueueHolds, PTL DEF Spec

(***************************************************************************)
(* What emit told its caller stays true: a write that succeeded is in the  *)
(* log, and one that was refused never will be.                            *)
(***************************************************************************)
THEOREM AnswersAreTrueHolds == Spec => []AnswersAreTrue
<1>1. Init => AnswersAreTrue
  BY DEF Init, AnswersAreTrue
<1> QED
  BY <1>1, AnswersKept, QueueHolds, PTL DEF Spec

(***************************************************************************)
(* The log holds this host's writes in the order of the calls of emit,     *)
(* each once.                                                              *)
(***************************************************************************)
THEOREM WritesInCallOrderHolds == Spec => []WritesInCallOrder
<1>1. Init => LogFirst /\ WritesInCallOrder
  BY DEF Init, LogFirst, WritesInCallOrder
<1>2. OrderInv <=> QueueInv /\ LogFirst /\ WritesInCallOrder
  BY DEF OrderInv
<1> QED
  BY <1>1, <1>2, OrderKept, QueueHolds, PTL DEF Spec

(* After a park no write of this runtime lands. *)
THEOREM NothingLandsAfterParkHolds == Spec => NothingLandsAfterPark
<1> QED
  BY ParkedIsFinal, QueueHolds, PTL DEF Spec, NothingLandsAfterPark

(***************************************************************************)
(* The write queue, its deadline and its fence, with reloads, parks,       *)
(* takeovers and crashes, implement the abstract log.                      *)
(***************************************************************************)
THEOREM Implements == Spec => ImplementsEventLog
<1>1. Init => Abstract!LogInit
  BY DEF Init, Abstract!LogInit, Outcome
<1>2. RuntimeInv /\ QueueInv /\ [Next]_vars
        => [Abstract!LogNext]_<<log, [w \in Writes |-> Outcome(w)]>>
  BY StepImplements DEF told
<1> QED
  BY <1>1, <1>2, QueueHolds, PTL DEF Spec, ImplementsEventLog, Abstract!LogSpec
=============================================================================
