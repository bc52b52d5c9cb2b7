------------------------ MODULE AlarmSchedulerProofs ------------------------
(***************************************************************************)
(* Safety of the alarm scheduler for any keys, delays, retry delay and     *)
(* budgets.  TypeInv adds to the types how far alarm() is and which        *)
(* reconcile it awaits; SlotInv relates the slot, what the isolate         *)
(* believes of it and the write under way to the rows; CleanInv relates    *)
(* the rows to what callers are owed while nothing fails.                  *)
(***************************************************************************)
EXTENDS AlarmScheduler, TLAPS

Phases == {"idle", "rearm", "deliver", "settle", "flush", "last"}

\* At most one reconcile is awaited by alarm(), and it is the one of its phase.
TailInv ==
  /\ \A i \in DOMAIN tail : tail[i] # "caller" => tail[i] = phase
  /\ \A i, j \in DOMAIN tail : tail[i] # "caller" /\ tail[j] # "caller" => i = j

TypeInv ==
  /\ TypeOK
  /\ TailInv
  /\ writing => tail # <<>>
  /\ due # {} => phase \in {"rearm", "deliver"}
  /\ \A k \in Keys : asked[k] = "again" => k \in due
  /\ ~alive => tail = <<>> /\ phase = "idle" /\ armedAt = None

Covers(t) == \A r \in RowTimes : t # None /\ t <= r

NoneFailed == budget.failures = Budget.failures

\* Rows change by a reconcile of their own, or only go away.
SlotInv ==
  /\ budget.failures <= Budget.failures
  /\ armedAt # None => slot = armedAt
  /\ alive /\ tail = <<>> /\ NoneFailed => Covers(armedAt)
  /\ writing /\ Len(tail) = 1 /\ NoneFailed => Covers(target)

FaultFree == \A fault \in {"throws", "failures", "evictions"} : budget[fault] = Budget[fault]

CleanInv ==
  /\ \A fault \in {"throws", "failures", "evictions"} : budget[fault] <= Budget[fault]
  /\ FaultFree => \A k \in Keys :
       /\ wakes[k] # None => asked[k] # "no"
       /\ retries[k] # None => k \in due
       /\ k \in due /\ wakes[k] # None => asked[k] = "again"

-----------------------------------------------------------------------------
(* What queueing and settling a reconcile do to the tail.                  *)

LEMMA AppendTail ==
  ASSUME NEW s \in Seq(Waiters), NEW w \in Waiters
  PROVE  /\ Append(s, w) \in Seq(Waiters) /\ Append(s, w) # <<>>
         /\ Len(Append(s, w)) = Len(s) + 1
         /\ DOMAIN Append(s, w) = 1 .. (Len(s) + 1)
         /\ \A i \in DOMAIN s : Append(s, w)[i] = s[i]
         /\ Append(s, w)[Len(s) + 1] = w
  OBVIOUS

LEMMA PopTail ==
  ASSUME NEW s \in Seq(Waiters), s # <<>>
  PROVE  /\ Tail(s) \in Seq(Waiters) /\ Len(Tail(s)) = Len(s) - 1
         /\ Head(s) \in Waiters /\ Head(s) = s[1] /\ 1 \in DOMAIN s
         /\ \A i \in DOMAIN Tail(s) : i + 1 \in DOMAIN s /\ Tail(s)[i] = s[i + 1] /\ i \in Nat \ {0}
  OBVIOUS

\* A call nobody in alarm() awaits may be queued at any time.
LEMMA CallerQueued ==
  ASSUME TypeInv, Reconcile("caller"), phase' = phase
  PROVE  TailInv' /\ tail' \in Seq(Waiters) /\ tail' # <<>>
  <1>1. tail \in Seq(Waiters) /\ "caller" \in Waiters
    BY DEF TypeInv, TypeOK, Waiters
  <1>2. tail' = Append(tail, "caller")
    BY DEF Reconcile
  <1>3. tail' \in Seq(Waiters) /\ tail' # <<>>
    BY <1>1, <1>2, AppendTail
  <1>4. \A i \in DOMAIN tail' : tail'[i] # "caller" => i \in DOMAIN tail /\ tail'[i] = tail[i]
    BY <1>1, <1>2, AppendTail
  <1>5. QED
    BY <1>3, <1>4 DEF TypeInv, TailInv

\* alarm() queues one only when it awaits none.
LEMMA AlarmQueued ==
  ASSUME TypeInv, NEW w \in Waiters \ {"caller"}, Reconcile(w), phase' = w,
         phase \notin {"rearm", "settle", "last"}
  PROVE  TailInv' /\ tail' \in Seq(Waiters) /\ tail' # <<>>
  <1>1. tail \in Seq(Waiters) /\ w \in Waiters
    BY DEF TypeInv, TypeOK
  <1>2. tail' = Append(tail, w)
    BY DEF Reconcile
  <1>3. tail' \in Seq(Waiters) /\ tail' # <<>>
    BY <1>1, <1>2, AppendTail
  <1>4. \A i \in DOMAIN tail : tail[i] = "caller"
    <2>1. \A i \in DOMAIN tail : tail[i] \in Waiters
      BY <1>1
    <2>2. QED
      BY <2>1 DEF TypeInv, TailInv, Waiters
  <1>5. \A i \in DOMAIN tail' : tail'[i] # "caller" => i = Len(tail) + 1 /\ tail'[i] = w
    BY <1>1, <1>2, <1>4, AppendTail
  <1>6. QED
    BY <1>3, <1>5 DEF TailInv

\* Once a reconcile of alarm() settles, only callers' are left.
LEMMA TailSettled ==
  ASSUME TypeInv, tail # <<>>, NEW ok \in BOOLEAN, Settles(ok)
  PROVE  /\ TailInv' /\ tail' \in Seq(Waiters)
         /\ Len(tail') = Len(tail) - 1
         /\ phase' \in Phases
         /\ due' \subseteq due
         /\ due' # {} => phase' \in {"rearm", "deliver"}
         /\ asked' \in [Keys -> {"no", "yes", "again"}]
         /\ \A k \in Keys : asked'[k] = "again" => k \in due'
         /\ ~writing' /\ target' = None
         /\ \A k \in Keys : asked'[k] = asked[k] \/ (asked[k] = "again" /\ asked'[k] = "yes")
  <1>1. tail \in Seq(Waiters)
    BY DEF TypeInv, TypeOK
  <1>2. tail' = Tail(tail)
    BY DEF Settles
  <1>3. /\ tail' \in Seq(Waiters) /\ Len(tail') = Len(tail) - 1
        /\ Head(tail) \in Waiters /\ Head(tail) = tail[1] /\ 1 \in DOMAIN tail
    BY <1>1, <1>2, PopTail
  <1>4. \A i \in DOMAIN tail' : i + 1 \in DOMAIN tail /\ tail'[i] = tail[i + 1] /\ i \in Nat \ {0}
    BY <1>1, <1>2, PopTail
  <1>5. CASE Head(tail) = "caller"
    <2>1. phase' = phase /\ due' = due /\ asked' = asked
      BY <1>5 DEF Settles, Continue
    <2>2. TailInv'
      <3>1. \A i \in DOMAIN tail' : tail'[i] # "caller" => tail'[i] = phase'
        BY <1>4, <2>1 DEF TypeInv, TailInv
      <3>2. \A i, j \in DOMAIN tail' : tail'[i] # "caller" /\ tail'[j] # "caller" => i = j
        <4>1. SUFFICES ASSUME NEW i \in DOMAIN tail', NEW j \in DOMAIN tail',
                              tail'[i] # "caller", tail'[j] # "caller"
                       PROVE  i = j
          OBVIOUS
        <4>2. i + 1 = j + 1
          BY <1>4, <4>1 DEF TypeInv, TailInv
        <4>3. QED
          BY <1>4, <4>2
      <3>3. QED
        BY <3>1, <3>2 DEF TailInv
    <2>3. QED
      BY <1>3, <2>1, <2>2 DEF TypeInv, TypeOK, Settles, Phases
  <1>6. CASE Head(tail) # "caller"
    <2>1. Head(tail) = phase /\ phase \in {"rearm", "settle", "last"}
      BY <1>3, <1>6 DEF TypeInv, TailInv, Waiters
    <2>2. \A i \in DOMAIN tail' : tail'[i] = "caller"
      <3>1. SUFFICES ASSUME NEW i \in DOMAIN tail', tail'[i] # "caller" PROVE FALSE
        OBVIOUS
      <3>2. i + 1 = 1
        BY <1>3, <1>4, <1>6, <3>1 DEF TypeInv, TailInv
      <3>3. QED
        BY <1>4, <3>2
    <2>3. TailInv'
      BY <2>2 DEF TailInv
    <2>4. CASE phase = "rearm" /\ ~ok
      <3>1. due' = {} /\ asked' = Interrupted /\ phase' = "idle"
        BY <2>1, <2>4 DEF Settles, Continue
      <3>2. QED
        BY <1>3, <2>3, <3>1 DEF TypeInv, TypeOK, Settles, Phases, Interrupted
    <2>5. CASE ~(phase = "rearm" /\ ~ok)
      <3>1. due' = due /\ asked' = asked
        BY <2>1, <2>5 DEF Settles
      <3>2. phase' \in Phases /\ (due' # {} => phase' \in {"rearm", "deliver"})
        <4>1. CASE phase = "rearm"
          BY <2>1, <2>5, <3>1, <4>1 DEF Settles, Continue, Phases
        <4>2. CASE phase = "settle"
          BY <2>1, <3>1, <4>2 DEF Settles, Continue, Phases, TypeInv
        <4>3. CASE phase = "last"
          BY <2>1, <3>1, <4>3 DEF Settles, Continue, Phases, TypeInv
        <4>4. QED
          BY <2>1, <4>1, <4>2, <4>3
      <3>3. QED
        BY <1>3, <2>3, <3>1, <3>2 DEF TypeInv, TypeOK, Settles
    <2>6. QED
      BY <2>4, <2>5
  <1>7. QED
    BY <1>5, <1>6

-----------------------------------------------------------------------------
(* Types                                                                   *)

LEMMA Spent ==
  ASSUME budget \in Budgets, NEW what \in {"calls", "throws", "failures", "evictions", "suspends"},
         Spend(what)
  PROVE  /\ budget' \in Budgets
         /\ budget'[what] = budget[what] - 1 /\ budget[what] > 0
         /\ \A other \in {"calls", "throws", "failures", "evictions", "suspends"} \ {what} :
              budget'[other] = budget[other]
  BY DEF Spend, Budgets

LEMMA EarlierTimes ==
  /\ \A t \in Times : Earlier(t) \in Times
  /\ \A t \in Times : Earlier(t) = None <=> t = None
  /\ \A t, u \in Times : t <= u => Earlier(t) <= Earlier(u)
  BY DEF Earlier, Times, None

LEMMA RowTimesTyped == TypeOK => RowTimes \subseteq Times \ {None}
  BY DEF TypeOK, RowTimes

LEMMA EmptyTail == <<>> \in Seq(Waiters) /\ DOMAIN <<>> = {} /\ Len(<<>>) = 0
  OBVIOUS

LEMMA OneCaller ==
  /\ <<"caller">> \in Seq(Waiters) /\ <<"caller">> # <<>> /\ Len(<<"caller">>) = 1
  /\ \A i \in DOMAIN <<"caller">> : <<"caller">>[i] = "caller"
  BY DEF Waiters

LEMMA TypeInit == Init => TypeInv
  <1> SUFFICES ASSUME Init PROVE TypeInv
    OBVIOUS
  <1>1. TypeOK
    BY AlarmAssumption, EmptyTail DEF Init, TypeOK, Times
  <1>2. TailInv
    BY EmptyTail DEF Init, TailInv
  <1>3. QED
    BY <1>1, <1>2 DEF Init, TypeInv

LEMMA TypeStep == TypeInv /\ [Next]_vars => TypeInv'
  <1> SUFFICES ASSUME TypeInv, [Next]_vars PROVE TypeInv'
    OBVIOUS
  <1> USE AlarmAssumption DEF rows, writer, isolate, drain
  <1>1. ASSUME NEW k \in Keys, NEW delay \in Delays, Wake(k, delay) PROVE TypeInv'
    <2>1. TailInv' /\ tail' \in Seq(Waiters) /\ tail' # <<>>
      BY <1>1, CallerQueued DEF Wake
    <2>2. budget' \in Budgets
      BY <1>1, Spent DEF Wake, TypeInv, TypeOK
    <2>3. DueIn(delay) \in Times
      BY DEF DueIn, Times
    <2>4. QED
      BY <1>1, <2>1, <2>2, <2>3 DEF Wake, TypeInv, TypeOK
  <1>2. ASSUME NEW k \in Keys, Cancel(k) PROVE TypeInv'
    <2>1. TailInv' /\ tail' \in Seq(Waiters) /\ tail' # <<>>
      BY <1>2, CallerQueued DEF Cancel
    <2>2. budget' \in Budgets
      BY <1>2, Spent DEF Cancel, TypeInv, TypeOK
    <2>3. QED
      BY <1>2, <2>1, <2>2 DEF Cancel, TypeInv, TypeOK, Times
  <1>3. CASE SuspendBegins
    <2>1. budget' \in Budgets
      BY <1>3, Spent DEF SuspendBegins, TypeInv, TypeOK
    <2>2. QED
      BY <1>3, <2>1 DEF SuspendBegins, TypeInv, TypeOK, TailInv
  <1>4. CASE SuspendEnds
    BY <1>4 DEF SuspendEnds, TypeInv, TypeOK, TailInv
  <1>5. CASE AlreadyArmed
    BY <1>5, TailSettled DEF AlreadyArmed, Settles, TypeInv, TypeOK, Phases, Times
  <1>6. CASE StartWrite
    <2>1. target' \in Times
      BY <1>6, RowTimesTyped DEF StartWrite, TypeInv, Times
    <2>2. QED
      BY <1>6, <2>1 DEF StartWrite, TypeInv, TypeOK, TailInv
  <1>7. CASE WriteSucceeds
    <2>1. tail # <<>> /\ alive /\ target \in Times
      BY <1>7 DEF WriteSucceeds, TypeInv, TypeOK
    <2>2. QED
      BY <1>7, <2>1, TailSettled DEF WriteSucceeds, Settles, TypeInv, TypeOK, Phases, Times
  <1>8. CASE WriteFails
    <2>1. tail # <<>> /\ alive
      BY <1>8 DEF WriteFails, TypeInv, TypeOK
    <2>2. budget' \in Budgets
      BY <1>8, Spent DEF WriteFails, TypeInv, TypeOK
    <2>3. QED
      BY <1>8, <2>1, <2>2, TailSettled DEF WriteFails, Settles, TypeInv, TypeOK, Phases, Times
  <1>9. CASE AlarmFires
    <2>1. due' \subseteq Keys /\ phase = "idle"
      BY <1>9 DEF AlarmFires, Drain, DueBy
    <2>2. TailInv' /\ tail' \in Seq(Waiters) /\ tail' # <<>>
      BY <1>9, <2>1, AlarmQueued DEF AlarmFires, Drain, Waiters
    <2>3. wakes' \in [Keys -> Times] /\ retries' \in [Keys -> Times]
      BY <1>9 DEF AlarmFires, Drain, TypeInv, TypeOK, Times
    <2>4. \A k \in Keys : asked'[k] # "again"
      BY <1>9 DEF AlarmFires, Drain, TypeInv
    <2>5. QED
      BY <1>9, <2>1, <2>2, <2>3, <2>4 DEF AlarmFires, Drain, TypeInv, TypeOK, Times
  <1>10. ASSUME NEW k \in Keys, Delivered(k) PROVE TypeInv'
    BY <1>10 DEF Delivered, DeliveryEnds, TypeInv, TypeOK, TailInv, Times
  <1>11. ASSUME NEW k \in Keys, DeliveryThrows(k) PROVE TypeInv'
    <2>1. budget' \in Budgets
      BY <1>11, Spent DEF DeliveryThrows, DeliveryEnds, TypeInv, TypeOK
    <2>2. QED
      BY <1>11, <2>1 DEF DeliveryThrows, DeliveryEnds, TypeInv, TypeOK, TailInv
  <1>12. CASE AllDelivered
    <2>1. TailInv' /\ tail' \in Seq(Waiters) /\ tail' # <<>>
      BY <1>12, AlarmQueued DEF AllDelivered, Waiters
    <2>2. QED
      BY <1>12, <2>1 DEF AllDelivered, TypeInv, TypeOK
  <1>13. CASE FlushEnds
    <2>1. CASE IsEarliest(armedAt)
      BY <1>13, <2>1 DEF FlushEnds, TypeInv, TypeOK, TailInv
    <2>2. CASE ~IsEarliest(armedAt)
      <3>1. TailInv' /\ tail' \in Seq(Waiters) /\ tail' # <<>>
        BY <1>13, <2>2, AlarmQueued DEF FlushEnds, Waiters
      <3>2. QED
        BY <1>13, <2>2, <3>1 DEF FlushEnds, TypeInv, TypeOK
    <2>3. QED
      BY <2>1, <2>2
  <1>14. CASE FetchFlushes
    <2>1. TailInv' /\ tail' \in Seq(Waiters) /\ tail' # <<>>
      BY <1>14, CallerQueued DEF FetchFlushes
    <2>2. QED
      BY <1>14, <2>1 DEF FetchFlushes, TypeInv, TypeOK
  <1>15. CASE Evict
    <2>1. budget' \in Budgets
      BY <1>15, Spent DEF Evict, TypeInv, TypeOK
    <2>2. asked' \in [Keys -> {"no", "yes", "again"}] /\ \A k \in Keys : asked'[k] # "again"
      BY <1>15 DEF Evict, Interrupted, TypeInv, TypeOK
    <2>3. slot' \in Times /\ tail' = <<>>
      BY <1>15 DEF Evict, TypeInv, TypeOK
    <2>4. TypeOK'
      BY <1>15, <2>1, <2>2, <2>3, EmptyTail DEF Evict, TypeInv, TypeOK, Times
    <2>5. TailInv'
      BY <2>3, EmptyTail DEF TailInv
    <2>6. QED
      BY <1>15, <2>2, <2>4, <2>5 DEF Evict, TypeInv
  <1>16. CASE Boot
    <2>1. tail' \in Seq(Waiters) /\ TailInv'
      BY <1>16, EmptyTail, OneCaller DEF Boot, TailInv
    <2>2. QED
      BY <1>16, <2>1 DEF Boot, TypeInv, TypeOK
  <1>17. CASE Tick
    <2>1. /\ slot' \in Times /\ armedAt' \in Times /\ target' \in Times
          /\ wakes' \in [Keys -> Times] /\ retries' \in [Keys -> Times]
      BY <1>17, EarlierTimes DEF Tick, TypeInv, TypeOK
    <2>2. ~alive => armedAt' = None
      BY <1>17, EarlierTimes DEF Tick, TypeInv, TypeOK
    <2>3. QED
      BY <1>17, <2>1, <2>2 DEF Tick, TypeInv, TypeOK, TailInv
  <1>18. CASE UNCHANGED vars
    BY <1>18 DEF vars, TypeInv, TypeOK, TailInv
  <1>19. QED
    BY <1>1, <1>2, <1>3, <1>4, <1>5, <1>6, <1>7, <1>8, <1>9, <1>10, <1>11, <1>12, <1>13,
       <1>14, <1>15, <1>16, <1>17, <1>18 DEF Next, Callers, SlotStep, AlarmStep

\* Every variable of the scheduler keeps its type (alarm-scheduler.ts:118-160).
THEOREM TypeCorrect == Spec => []TypeInv
  BY TypeInit, TypeStep, PTL DEF Spec

THEOREM TypesHold == Spec => []TypeOK
  <1>1. TypeInv => TypeOK
    BY DEF TypeInv
  <1>2. QED
    BY <1>1, TypeCorrect, PTL

-----------------------------------------------------------------------------
(* Rows                                                                    *)

LEMMA RowsStep == TypeInv /\ WakesSurvive /\ [Next]_vars => WakesSurvive'
  <1> SUFFICES ASSUME TypeInv, WakesSurvive, [Next]_vars PROVE WakesSurvive'
    OBVIOUS
  <1> USE AlarmAssumption DEF rows, writer, isolate, drain
  <1>1. ASSUME NEW k \in Keys, NEW delay \in Delays, Wake(k, delay) PROVE WakesSurvive'
    <2>1. DueIn(delay) # None
      BY DEF DueIn, None
    <2>2. QED
      BY <1>1, <2>1 DEF Wake, WakesSurvive, TypeInv, TypeOK
  <1>2. ASSUME NEW k \in Keys, Cancel(k) PROVE WakesSurvive'
    BY <1>2 DEF Cancel, WakesSurvive, TypeInv, TypeOK
  <1>3. CASE SuspendBegins \/ SuspendEnds \/ StartWrite \/ FetchFlushes \/ Boot \/ UNCHANGED vars
    BY <1>3 DEF SuspendBegins, SuspendEnds, StartWrite, FetchFlushes, Boot, vars,
                WakesSurvive
  <1>4. CASE AlreadyArmed \/ WriteSucceeds \/ WriteFails
    <2>1. tail # <<>> /\ \E ok \in BOOLEAN : Settles(ok)
      BY <1>4 DEF AlreadyArmed, WriteSucceeds, WriteFails, TypeInv
    <2>2. UNCHANGED rows
      BY <2>1 DEF Settles
    <2>3. QED
      BY <2>1, <2>2, TailSettled DEF WakesSurvive
  <1>5. CASE AlarmFires
    <2>1. RetryDelay # None
      BY DEF None
    <2>2. \A k \in Keys : asked[k] # "again"
      BY <1>5 DEF AlarmFires, Drain, TypeInv
    <2>3. QED
      BY <1>5, <2>1, <2>2 DEF AlarmFires, Drain, WakesSurvive
  <1>6. ASSUME NEW k \in Keys, Delivered(k) PROVE WakesSurvive'
    BY <1>6 DEF Delivered, DeliveryEnds, WakesSurvive, TypeInv, TypeOK
  <1>7. ASSUME NEW k \in Keys, DeliveryThrows(k) PROVE WakesSurvive'
    BY <1>7 DEF DeliveryThrows, DeliveryEnds, WakesSurvive, TypeInv, TypeOK
  <1>8. CASE AllDelivered \/ FlushEnds
    BY <1>8 DEF AllDelivered, FlushEnds, WakesSurvive
  <1>9. CASE Evict
    BY <1>9 DEF Evict, Interrupted, WakesSurvive
  <1>10. CASE Tick
    BY <1>10, EarlierTimes DEF Tick, WakesSurvive, TypeInv, TypeOK
  <1>11. QED
    BY <1>1, <1>2, <1>3, <1>4, <1>5, <1>6, <1>7, <1>8, <1>9, <1>10
       DEF Next, Callers, SlotStep, AlarmStep

\* An eviction at any moment finds a row for every wake that was asked for and neither
\* cancelled nor delivered (deliverDue, alarm-scheduler.ts:179-208).
THEOREM WakesSurviveHolds == Spec => []WakesSurvive
  <1>1. Init => WakesSurvive
    BY DEF Init, WakesSurvive
  <1>2. QED
    BY <1>1, RowsStep, TypeCorrect, PTL DEF Spec

-----------------------------------------------------------------------------
(* The slot                                                                *)

LEMMA FailuresKept ==
  ASSUME TypeOK, SlotInv, NEW what \in {"calls", "throws", "failures", "evictions", "suspends"},
         Spend(what)
  PROVE  /\ budget'.failures <= Budget.failures
         /\ NoneFailed' => NoneFailed /\ what # "failures"
  <1>1. budget \in Budgets /\ Budget \in Budgets
    BY AlarmAssumption DEF TypeOK
  <1>2. budget.failures \in Nat /\ Budget.failures \in Nat
    BY <1>1 DEF Budgets
  <1>3. CASE what = "failures"
    BY <1>1, <1>2, <1>3, Spent DEF SlotInv, NoneFailed
  <1>4. CASE what # "failures"
    BY <1>1, <1>4, Spent DEF SlotInv, NoneFailed
  <1>5. QED
    BY <1>3, <1>4

LEMMA EarliestCovers ==
  ASSUME TypeOK, NEW t \in Times, IsEarliest(t)
  PROVE  Covers(t)
  BY RowTimesTyped DEF IsEarliest, Covers, Times

\* A longer tail promises nothing yet.
LEMMA LongTail ==
  ASSUME TypeInv, NEW w \in Waiters, Reconcile(w), UNCHANGED writing
  PROVE  tail' # <<>> /\ (writing' => Len(tail') # 1)
  <1>1. tail \in Seq(Waiters) /\ tail' = Append(tail, w)
    BY DEF TypeInv, TypeOK, Reconcile
  <1>2. tail' # <<>> /\ Len(tail') = Len(tail) + 1
    BY <1>1, AppendTail
  <1>3. writing => Len(tail) # 0
    BY <1>1 DEF TypeInv
  <1>4. QED
    BY <1>1, <1>2, <1>3

LEMMA SlotStays == TypeInv /\ SlotInv /\ [Next]_vars => SlotInv'
  <1> SUFFICES ASSUME TypeInv, SlotInv, [Next]_vars PROVE SlotInv'
    OBVIOUS
  <1> USE AlarmAssumption DEF rows, writer, isolate, drain
  <1>0. TypeOK /\ tail \in Seq(Waiters)
    BY DEF TypeInv, TypeOK
  <1>1. ASSUME NEW k \in Keys, NEW delay \in Delays, Wake(k, delay) PROVE SlotInv'
    <2>1. tail' # <<>> /\ (writing' => Len(tail') # 1)
      BY <1>1, LongTail DEF Wake, Waiters
    <2>2. QED
      BY <1>0, <1>1, <2>1, FailuresKept DEF Wake, SlotInv
  <1>2. ASSUME NEW k \in Keys, Cancel(k) PROVE SlotInv'
    <2>1. tail' # <<>> /\ (writing' => Len(tail') # 1)
      BY <1>2, LongTail DEF Cancel, Waiters
    <2>2. QED
      BY <1>0, <1>2, <2>1, FailuresKept DEF Cancel, SlotInv
  <1>3. CASE SuspendBegins
    BY <1>0, <1>3, FailuresKept DEF SuspendBegins, SlotInv, Covers, RowTimes
  <1>4. CASE SuspendEnds \/ UNCHANGED vars
    <2>1. UNCHANGED <<slot, wakes, retries, alive, armedAt, tail, writing, target, budget>>
      BY <1>4 DEF SuspendEnds, vars
    <2>2. QED
      BY <2>1 DEF SlotInv, NoneFailed, Covers, RowTimes
  <1>5. CASE AlreadyArmed
    <2>1. Covers(armedAt) /\ ~writing'
      BY <1>0, <1>5, EarliestCovers, TailSettled DEF AlreadyArmed, TypeOK
    <2>2. UNCHANGED <<slot, armedAt, rows, budget>>
      BY <1>5 DEF AlreadyArmed, Settles
    <2>3. QED
      BY <2>1, <2>2 DEF SlotInv, NoneFailed, Covers, RowTimes
  <1>6. CASE StartWrite
    <2>1. target' \in Times /\ IsEarliest(target')
      BY <1>0, <1>6, RowTimesTyped DEF StartWrite, Times
    <2>2. Covers(target')
      BY <1>0, <2>1, EarliestCovers
    <2>3. QED
      BY <1>6, <2>2 DEF StartWrite, SlotInv, NoneFailed, Covers, RowTimes
  <1>7. CASE WriteSucceeds
    <2>1. tail # <<>> /\ Len(tail') = Len(tail) - 1 /\ ~writing' /\ tail' \in Seq(Waiters)
      BY <1>7, TailSettled DEF WriteSucceeds, TypeInv
    <2>2. UNCHANGED rows
      BY <1>7 DEF WriteSucceeds, Settles
    <2>3. tail' = <<>> => Len(tail) = 1
      BY <1>0, <2>1
    <2>4. QED
      BY <1>7, <2>1, <2>2, <2>3 DEF WriteSucceeds, SlotInv, NoneFailed, Covers, RowTimes
  <1>8. CASE WriteFails
    <2>1. budget'.failures <= Budget.failures /\ ~NoneFailed'
      BY <1>0, <1>8, FailuresKept DEF WriteFails
    <2>2. QED
      BY <1>8, <2>1 DEF WriteFails, SlotInv
  <1>9. CASE AlarmFires
    <2>1. tail' # <<>> /\ (writing' => Len(tail') # 1)
      BY <1>9, LongTail DEF AlarmFires, Drain, Waiters
    <2>2. QED
      BY <1>9, <2>1 DEF AlarmFires, Drain, SlotInv
  <1>10. ASSUME NEW k \in Keys, Delivered(k) PROVE SlotInv'
    <2>1. RowTimes' \subseteq RowTimes
      BY <1>0, <1>10 DEF Delivered, DeliveryEnds, RowTimes, TypeOK
    <2>2. \A t : Covers(t) => Covers(t)'
      BY <2>1 DEF Covers
    <2>3. QED
      BY <1>10, <2>2 DEF Delivered, DeliveryEnds, SlotInv, NoneFailed, Covers
  <1>11. ASSUME NEW k \in Keys, DeliveryThrows(k) PROVE SlotInv'
    BY <1>0, <1>11, FailuresKept DEF DeliveryThrows, DeliveryEnds, SlotInv, Covers, RowTimes
  <1>12. CASE AllDelivered
    <2>1. tail' # <<>> /\ (writing' => Len(tail') # 1)
      BY <1>12, LongTail DEF AllDelivered, Waiters
    <2>2. QED
      BY <1>12, <2>1 DEF AllDelivered, SlotInv
  <1>13. CASE FlushEnds
    <2>1. CASE IsEarliest(armedAt)
      BY <1>13, <2>1 DEF FlushEnds, SlotInv, NoneFailed, Covers, RowTimes
    <2>2. CASE ~IsEarliest(armedAt)
      <3>1. tail' # <<>> /\ (writing' => Len(tail') # 1)
        BY <1>13, <2>2, LongTail DEF FlushEnds, Waiters
      <3>2. QED
        BY <1>13, <3>1 DEF FlushEnds, SlotInv
    <2>3. QED
      BY <2>1, <2>2
  <1>14. CASE FetchFlushes
    <2>1. tail' # <<>> /\ (writing' => Len(tail') # 1)
      BY <1>14, LongTail DEF FetchFlushes, Waiters
    <2>2. QED
      BY <1>14, <2>1 DEF FetchFlushes, SlotInv
  <1>15. CASE Evict
    BY <1>0, <1>15, FailuresKept DEF Evict, SlotInv
  <1>16. CASE Boot
    <2>1. tail' = <<>> => RowTimes' = {}
      BY <1>16, OneCaller DEF Boot, RowTimes
    <2>2. ~writing'
      BY <1>16 DEF Boot, TypeInv
    <2>3. QED
      BY <1>16, <2>1, <2>2 DEF Boot, SlotInv, Covers
  <1>17. CASE Tick
    <2>1. \A t \in Times : Covers(t) => \A r \in RowTimes' : Earlier(t) # None /\ Earlier(t) <= r
      <3>1. SUFFICES ASSUME NEW t \in Times, Covers(t), NEW r \in RowTimes'
                     PROVE  Earlier(t) # None /\ Earlier(t) <= r
        OBVIOUS
      <3>2. PICK u \in RowTimes : r = Earlier(u)
        <4>1. \A k \in Keys : wakes'[k] = Earlier(wakes[k]) /\ retries'[k] = Earlier(retries[k])
          BY <1>17 DEF Tick
        <4>2. PICK k \in Keys : r = Earlier(wakes[k]) \/ r = Earlier(retries[k])
          BY <4>1 DEF RowTimes
        <4>3. r # None
          BY DEF RowTimes
        <4>4. QED
          BY <1>0, <4>2, <4>3, EarlierTimes DEF TypeOK, RowTimes
      <3>3. QED
        BY <1>0, <3>1, <3>2, EarlierTimes, RowTimesTyped DEF Covers
    <2>2. armedAt \in Times /\ slot \in Times /\ target \in Times
      BY <1>0 DEF TypeOK
    <2>3. Covers(armedAt) => Covers(armedAt)'
      BY <1>17, <2>1, <2>2 DEF Tick, Covers
    <2>4. Covers(target) => Covers(target)'
      BY <1>17, <2>1, <2>2 DEF Tick, Covers
    <2>5. armedAt' # None => slot' = armedAt'
      BY <1>17, <2>2, EarlierTimes DEF Tick, SlotInv
    <2>6. QED
      BY <1>17, <2>3, <2>4, <2>5 DEF Tick, SlotInv, NoneFailed
  <1>18. QED
    BY <1>1, <1>2, <1>3, <1>4, <1>5, <1>6, <1>7, <1>8, <1>9, <1>10, <1>11, <1>12, <1>13,
       <1>14, <1>15, <1>16, <1>17 DEF Next, Callers, SlotStep, AlarmStep

\* The host's alarm comes no later than any row once the slot writes settled and none
\* failed, or whenever the isolate believes it (applyAlarm, flush).
THEOREM CoveredHolds == Spec => []Covered
  <1>1. Init => SlotInv
    BY AlarmAssumption DEF Init, SlotInv, Covers, RowTimes, Budgets, NoneFailed
  <1>2. TypeInv /\ SlotInv => Covered
    <2> SUFFICES ASSUME TypeInv, SlotInv, alive, tail = <<>>, IsEarliest(armedAt) \/ NoneFailed
                 PROVE  \A r \in RowTimes : slot # None /\ slot <= r
      BY DEF Covered, NoneFailed
    <2>1. Covers(armedAt)
      BY EarliestCovers DEF SlotInv, TypeInv, TypeOK
    <2>2. QED
      BY <2>1 DEF Covers, SlotInv
  <1>3. QED
    BY <1>1, <1>2, SlotStays, TypeCorrect, PTL DEF Spec

-----------------------------------------------------------------------------
(* Deliveries without faults                                               *)

LEMMA FaultsCounted ==
  ASSUME TypeOK, CleanInv, NEW what \in {"calls", "throws", "failures", "evictions", "suspends"},
         Spend(what)
  PROVE  /\ \A fault \in {"throws", "failures", "evictions"} : budget'[fault] <= Budget[fault]
         /\ FaultFree' => FaultFree
         /\ what \in {"throws", "failures", "evictions"} => ~FaultFree'
  <1>1. budget \in Budgets /\ Budget \in Budgets
    BY AlarmAssumption DEF TypeOK
  <1>2. \A fault \in {"throws", "failures", "evictions"} :
          budget[fault] \in Nat /\ Budget[fault] \in Nat
    BY <1>1 DEF Budgets
  <1>3. /\ budget'[what] = budget[what] - 1
        /\ \A fault \in {"throws", "failures", "evictions"} \ {what} : budget'[fault] = budget[fault]
    BY <1>1, Spent
  <1>4. QED
    BY <1>2, <1>3 DEF CleanInv, FaultFree

LEMMA CleanStep == TypeInv /\ CleanInv /\ [Next]_vars => CleanInv'
  <1> SUFFICES ASSUME TypeInv, CleanInv, [Next]_vars PROVE CleanInv'
    OBVIOUS
  <1> USE AlarmAssumption DEF rows, writer, isolate, drain
  <1>0. TypeOK
    BY DEF TypeInv
  <1>1. ASSUME NEW k \in Keys, NEW delay \in Delays, Wake(k, delay) PROVE CleanInv'
    <2>1. /\ \A fault \in {"throws", "failures", "evictions"} : budget'[fault] <= Budget[fault]
          /\ FaultFree' => FaultFree
      BY <1>0, <1>1, FaultsCounted DEF Wake
    <2>2. /\ \A l \in Keys \ {k} : wakes'[l] = wakes[l] /\ asked'[l] = asked[l]
          /\ asked'[k] = IF k \in due THEN "again" ELSE "yes"
          /\ UNCHANGED <<retries, due>>
      BY <1>0, <1>1 DEF Wake, TypeOK
    <2>3. QED
      BY <2>1, <2>2 DEF CleanInv
  <1>2. ASSUME NEW k \in Keys, Cancel(k) PROVE CleanInv'
    <2>1. /\ \A fault \in {"throws", "failures", "evictions"} : budget'[fault] <= Budget[fault]
          /\ FaultFree' => FaultFree
      BY <1>0, <1>2, FaultsCounted DEF Cancel
    <2>2. /\ \A l \in Keys \ {k} : wakes'[l] = wakes[l] /\ asked'[l] = asked[l]
          /\ wakes'[k] = None
          /\ UNCHANGED <<retries, due>>
      BY <1>0, <1>2 DEF Cancel, TypeOK
    <2>3. QED
      BY <2>1, <2>2 DEF CleanInv
  <1>3. CASE SuspendBegins
    BY <1>0, <1>3, FaultsCounted DEF SuspendBegins, CleanInv
  <1>4. CASE SuspendEnds \/ StartWrite \/ FetchFlushes \/ AllDelivered \/ FlushEnds \/ Boot
             \/ UNCHANGED vars
    <2>1. UNCHANGED <<wakes, retries, due, asked, budget>>
      BY <1>4 DEF SuspendEnds, StartWrite, FetchFlushes, AllDelivered, FlushEnds, Boot, vars
    <2>2. QED
      BY <2>1 DEF CleanInv, FaultFree
  <1>5. CASE AlreadyArmed \/ WriteSucceeds
    <2>1. Settles(TRUE) /\ UNCHANGED budget
      BY <1>5 DEF AlreadyArmed, WriteSucceeds
    <2>2. UNCHANGED <<wakes, retries, due, asked, budget>>
      BY <2>1 DEF Settles
    <2>3. QED
      BY <2>2 DEF CleanInv, FaultFree
  <1>6. CASE WriteFails
    BY <1>0, <1>6, FaultsCounted DEF WriteFails, CleanInv
  <1>7. CASE AlarmFires
    <2>1. due = {}
      BY <1>7 DEF AlarmFires, Drain, TypeInv
    <2>2. ASSUME FaultFree', NEW k \in Keys
          PROVE  /\ wakes'[k] # None => asked'[k] # "no" /\ k \notin due'
                 /\ retries'[k] # None => k \in due'
      <3>1. FaultFree /\ UNCHANGED <<asked, budget>>
        BY <1>7, <2>2 DEF AlarmFires, Drain, FaultFree
      <3>2. retries[k] = None
        BY <2>1, <3>1 DEF CleanInv
      <3>3. QED
        BY <1>7, <3>1, <3>2 DEF AlarmFires, Drain, CleanInv
    <2>3. UNCHANGED budget
      BY <1>7 DEF AlarmFires, Drain
    <2>4. QED
      BY <2>2, <2>3 DEF CleanInv
  <1>8. ASSUME NEW k \in Keys, Delivered(k) PROVE CleanInv'
    <2>1. /\ \A l \in Keys \ {k} : retries'[l] = retries[l] /\ asked'[l] = asked[l]
          /\ retries'[k] = None
          /\ asked[k] = "again" => asked'[k] = "yes"
          /\ due' = due \ {k} /\ k \in due
          /\ UNCHANGED <<wakes, budget>>
      BY <1>0, <1>8 DEF Delivered, DeliveryEnds, TypeOK
    <2>2. QED
      BY <2>1 DEF CleanInv, FaultFree
  <1>9. ASSUME NEW k \in Keys, DeliveryThrows(k) PROVE CleanInv'
    BY <1>0, <1>9, FaultsCounted DEF DeliveryThrows, DeliveryEnds, CleanInv
  <1>10. CASE Evict
    BY <1>0, <1>10, FaultsCounted DEF Evict, CleanInv
  <1>11. CASE Tick
    BY <1>0, <1>11, EarlierTimes DEF Tick, CleanInv, FaultFree, TypeOK
  <1>12. QED
    BY <1>1, <1>2, <1>3, <1>4, <1>5, <1>6, <1>7, <1>8, <1>9, <1>10, <1>11
       DEF Next, Callers, SlotStep, AlarmStep

\* Without throws, failed writes and evictions no delivery starts that nobody is owed
\* (deliverDue, alarm-scheduler.ts:184-205).
THEOREM NoSpuriousDeliveryHolds == Spec => NoSpuriousDelivery
  <1>1. Init => CleanInv
    BY AlarmAssumption DEF Init, CleanInv, Budgets
  <1>2. TypeInv /\ CleanInv /\ [Next]_vars
          => [FaultFree => \A k \in due' \ due : asked[k] # "no"]_vars
    <2> SUFFICES ASSUME TypeInv, CleanInv, Next, FaultFree, NEW k \in due' \ due
                 PROVE  asked[k] # "no"
      OBVIOUS
    <2>1. CASE AlarmFires
      <3>1. k \in Keys /\ due = {} /\ (wakes[k] = 0 \/ retries[k] = 0)
        BY <2>1 DEF AlarmFires, Drain, DueBy, TypeInv
      <3>2. QED
        BY <3>1 DEF CleanInv, None
    <2>2. CASE ~AlarmFires
      <3>1. due' \subseteq due
        <4>1. ASSUME NEW ok \in BOOLEAN, Settles(ok) PROVE due' \subseteq due
          BY <4>1 DEF Settles
        <4>2. QED
          BY <2>2, <4>1 DEF Next, Callers, Wake, Cancel, SuspendBegins, SuspendEnds, SlotStep,
             AlreadyArmed, StartWrite, WriteSucceeds, WriteFails, AlarmStep, AllDelivered,
             FlushEnds, FetchFlushes, Delivered, DeliveryThrows, DeliveryEnds, Evict, Boot,
             Tick, drain
      <3>2. QED
        BY <3>1
    <2>3. QED
      BY <2>1, <2>2
  <1>3. QED
    BY <1>1, <1>2, CleanStep, TypeCorrect, PTL DEF Spec, NoSpuriousDelivery, FaultFree
=============================================================================
