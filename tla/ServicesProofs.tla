--------------------------- MODULE ServicesProofs ---------------------------
(***************************************************************************)
(* Proofs about the services plugin's executor: one process of a service   *)
(* runs at a time, one that would survive the agent is on record, and a    *)
(* closed executor leaves nothing behind.                                  *)
(*                                                                         *)
(* None of the three is inductive.  Whether a second process may be        *)
(* spawned depends on what became of the first, which the entry alone does *)
(* not tell; whether its record stays depends on the deletions that every  *)
(* child before it may still ask for.  The invariant says both, for each   *)
(* stage of a start, a stop and a close.                                   *)
(***************************************************************************)
EXTENDS Services, TLAPS

Statuses == {"none", "starting", "ready", "stopping", "stopped", "failed"}

EntryType == [status : Statuses, exited : BOOLEAN]
StartType == [pc : {"none", "reaps", "forgets", "resolves", "records", "enters", "withdraws"},
              child : Processes \union {None}]
StopType  == [pc : {"none", "terminates", "reaps", "forgets", "settles"}, child : Processes \union {None},
              from : Statuses, ok : BOOLEAN]
CloseType == [pc : {"open", "starts", "stops", "stopping", "forces", "terminates", "forgets", "ends", "closed", "down"},
              hard : BOOLEAN, from : Statuses]

TypeOK ==
  /\ os \in [Processes -> {"none", "alive", "killed", "gone"}]
  /\ closed \subseteq Processes /\ startup \subseteq Processes /\ reaps \subseteq Processes
  /\ entry \in [Processes -> EntryType]
  /\ current \in Processes \union {None} /\ registry \in Processes \union {None}
  /\ forgets \in [Processes -> {"no", "pending", "done"}]
  /\ late \subseteq Processes /\ lost \subseteq Processes /\ mine \subseteq Processes
  /\ lateRecords \subseteq Processes /\ unrecorded \subseteq Processes
  /\ start \in StartType /\ stop \in StopType /\ close \in CloseType
  /\ revival \in BOOLEAN /\ portRetry \in BOOLEAN
  /\ restarts \in 0..MaxRestartRetries /\ conflicts \in 0..MAX_PORT_CONFLICT_RETRIES
  /\ upsets \in 0..MaxUpsets

(* Killed, or gone; spent as well once it is out of reach of any signal. *)
Dead(p)  == os[p] \in {"killed", "gone"}
Spent(p) == Dead(p) \/ p \in lost

(* What a process has behind it: nothing before it is spawned; an entry that is over, or a deletion that *)
(* was asked for, is of a process that is gone, killed, out of reach, or about to be reaped.              *)
LifeInv ==
  \A p \in Processes :
    /\ os[p] = "none" => entry[p] = NoEntry /\ p \notin closed \union reaps \union mine \union late /\ forgets[p] = "no"
    /\ entry[p].exited => Dead(p)
    /\ p \in mine => /\ entry[p].status \in {"failed", "stopped"} => Spent(p) \/ p \in reaps
                     /\ forgets[p] # "no" => Spent(p)
                     /\ p \in closed => os[p] = "gone"
    /\ p \in reaps => entry[p].status # "none"

(* The service names a child of this runtime, with an entry. *)
CurrentInv == current # None => current \in mine /\ entry[current].status # "none"

(* A start: it holds its child apart from every other, and reclaims and forgets what it supersedes first. *)
StartInv ==
  /\ start.pc = "none" => start.child = None
  /\ start.pc \in {"records", "enters", "withdraws"} =>
       /\ start.child \in mine /\ entry[start.child] = NoEntry
       /\ start.child # current /\ start.child # stop.child
  /\ start.pc \in {"records", "enters"} => forgets[start.child] = "no"
  /\ start.pc = "withdraws" => Dead(start.child) /\ Closing
  /\ start.pc = "reaps" => start.child = current /\ current # None
  /\ start.pc # "none" /\ current # None =>
       /\ entry[current].status \in {"failed", "stopped"}
       /\ start.pc # "reaps" => Spent(current)
       /\ start.pc = "forgets" => forgets[current] # "no"
       /\ start.pc \in {"resolves", "records", "enters"} => forgets[current] = "done"

(* A stop has a child, and forgets it when the child is gone or its claim was given up. *)
StopInv ==
  /\ stop.pc = "none" => stop.child = None
  /\ stop.pc # "none" => stop.child \in mine /\ entry[stop.child].status \in {"stopping", "failed", "stopped"}
  /\ stop.pc = "terminates" => stop.from \in Live
  /\ stop.pc \in {"forgets", "settles"} => entry[stop.child].exited

(* A close waits for a start and for a stop, then ends what is left. *)
CloseInv ==
  /\ close.pc \notin {"open", "starts"} => start.pc = "none"
  /\ close.pc \notin {"open", "starts", "stops", "stopping"} => stop.pc = "none"
  /\ close.pc \in {"stopping", "forces", "terminates", "forgets"} => current # None
  /\ close.pc = "stopping" => /\ stop.pc # "none" => stop.child = current
                              /\ stop.pc = "none" /\ stop.ok => entry[current].exited
  /\ close.pc = "terminates" => close.from # "none"
  /\ close.pc = "forgets" => entry[current].exited
  /\ close.pc = "ends" /\ current # None => Spent(current) \/ current \in reaps
  /\ close.pc \in {"closed", "down"} => current = None /\ ~revival /\ ~portRetry
  /\ close.pc = "down" =>
       mine = {} /\ reaps = {} /\ startup = {} /\ late = {} /\ \A p \in Processes : forgets[p] # "pending"

(* Who may run, while the agent serves. *)
RunInv ==
  close.pc # "down" => \A p \in Running :
    /\ p \in mine
    /\ \/ start.pc \in {"records", "enters"} /\ p = start.child
       \/ start.pc \in {"none", "reaps"} /\ p = current
       \/ close.pc = "closed" /\ p \in reaps

(* A superseded child is not forgotten once more. *)
Quiet(q) == entry[q].status = "none" \/ forgets[q] = "done" \/ (q \in closed /\ stop.child # q)

Superseded(q) ==
  /\ q \in mine \ Running /\ q # current
  /\ start.pc \in {"records", "enters", "withdraws"} => q # start.child

(* What the record depends on: while a process runs, or is about to be spawned, no deletion is under way, and *)
(* none will be asked for on behalf of a child that came before.                                             *)
RecordInv ==
  /\ Running # {} \/ start.pc = "resolves" => NoForgets
  /\ close.pc # "closed" \/ Running # {} => \A q \in Processes : Superseded(q) => Quiet(q)

IInv ==
  /\ TypeOK
  /\ LifeInv /\ CurrentInv /\ StartInv /\ StopInv /\ CloseInv /\ RunInv /\ RecordInv
  /\ OneProcess /\ SurvivorsAreRecorded

LEMMA Distinct == None \notin Processes
  BY DEF None, Processes

(* Marking an entry as exited changes no other. *)
LEMMA EntryExits ==
  ASSUME TypeOK, NEW p \in Processes, entry' = [entry EXCEPT ![p].exited = TRUE]
  PROVE  /\ entry' \in [Processes -> EntryType]
         /\ \A q \in Processes : /\ entry'[q].status = entry[q].status
                                 /\ entry'[q].exited <=> q = p \/ entry[q].exited
                                 /\ q # p => entry'[q] = entry[q]
<1>1. entry[p] \in [status : Statuses, exited : BOOLEAN] /\ entry[p].status \in Statuses
  BY DEF TypeOK, EntryType
<1>2. entry'[p] = [entry[p] EXCEPT !.exited = TRUE] /\ \A q \in Processes : q # p => entry'[q] = entry[q]
  BY DEF TypeOK
<1>3. entry'[p] = [status |-> entry[p].status, exited |-> TRUE]
  BY <1>1, <1>2
<1>4. entry' \in [Processes -> EntryType]
  BY <1>1, <1>2, <1>3 DEF TypeOK, EntryType
<1> QED BY <1>2, <1>3, <1>4

(* What reapEntry leaves of the process it was called for: its claim on the group ends, unless the signal failed. *)
Reclaimed(p) ==
  /\ entry' \in [Processes -> EntryType] /\ os' \in [Processes -> {"none", "alive", "killed", "gone"}]
  /\ lost' \subseteq Processes /\ lost \subseteq lost' /\ lost' \subseteq lost \union {p} /\ upsets' \in 0..MaxUpsets
  /\ \A q \in Processes :
       /\ entry'[q].status = entry[q].status
       /\ q # p => entry'[q].exited = entry[q].exited /\ os'[q] = os[q]
       /\ os'[q] = "none" <=> os[q] = "none"
       /\ os'[q] = "gone" <=> os[q] = "gone"
       /\ os[q] = "killed" => os'[q] = "killed"
       /\ entry'[q].exited => os'[q] \in {"killed", "gone"}
       /\ entry[q].exited => entry'[q].exited
       /\ entry[q] = NoEntry => entry'[q] = NoEntry
  /\ os'[p] \in {"killed", "gone"} \/ p \in lost'
  /\ ~entry'[p].exited => p \in lost'

LEMMA ReapedEffect ==
  ASSUME IInv, NEW p \in Processes, Reaped(p), entry[p].status # "none"
  PROVE  Reclaimed(p)
<1> USE DEF IInv, Reclaimed
<1>1. os[p] # "none" /\ (entry[p].exited => os[p] \in {"killed", "gone"}) /\ os[p] \in {"none", "alive", "killed", "gone"}
  BY DEF TypeOK, LifeInv, Dead, NoEntry
<1>2. CASE entry[p].exited /\ UNCHANGED <<os, entry, lost, upsets>>
  BY <1>2 DEF TypeOK, LifeInv, Dead
<1>3. CASE ~entry[p].exited /\ os' = Kill(os, p) /\ entry' = [entry EXCEPT ![p].exited = TRUE] /\ UNCHANGED <<lost, upsets>>
  <2>1. entry' \in [Processes -> EntryType] /\ \A q \in Processes :
          entry'[q].status = entry[q].status /\ (entry'[q].exited <=> entry[q].exited \/ q = p) /\ (q # p => entry'[q] = entry[q])
    BY <1>3 DEF TypeOK, EntryType
  <2>2. os' \in [Processes -> {"none", "alive", "killed", "gone"}] /\ (\A q \in Processes : q # p => os'[q] = os[q])
        /\ os'[p] = IF os[p] = "alive" THEN "killed" ELSE os[p]
    BY <1>3 DEF TypeOK, Kill
  <2>3. \A q \in Processes : entry'[q].exited => os'[q] \in {"killed", "gone"}
    BY <1>1, <2>1, <2>2 DEF LifeInv, Dead
  <2>4. \A q \in Processes : entry[q] = NoEntry => entry'[q] = NoEntry
    BY <2>1 DEF NoEntry
  <2>5. os'[p] \in {"killed", "gone"} /\ entry'[p].exited
    BY <1>1, <2>1, <2>2
  <2> QED BY <1>3, <2>1, <2>2, <2>3, <2>4, <2>5 DEF TypeOK
<1>4. CASE ~entry[p].exited /\ os[p] = "alive" /\ Upset /\ lost' = lost \union {p} /\ UNCHANGED <<os, entry>>
  BY <1>4, ServicesAssumption DEF TypeOK, LifeInv, Dead, Upset
<1> QED BY <1>2, <1>3, <1>4 DEF Reaped

(* A step that takes a process out of those running supersedes none that matters. *)
LEMMA StillSuperseded ==
  ASSUME IInv, Running' \subseteq Running, UNCHANGED <<mine, current, start, close>>,
         close.pc # "closed" \/ Running' # {},
         NEW q \in Processes, Superseded(q)'
  PROVE  Superseded(q)
<1> USE DEF IInv
<1>1. q \in mine /\ q # current /\ (start.pc \in {"records", "enters", "withdraws"} => q # start.child) /\ q \notin Running'
  BY DEF Superseded
<1>2. ASSUME q \in Running PROVE FALSE
  <2>1. CASE close.pc = "closed"
    BY <1>1, <1>2, <2>1 DEF OneProcess
  <2>2. CASE close.pc = "down"
    BY <1>1, <2>2 DEF CloseInv
  <2>3. CASE close.pc \notin {"closed", "down"}
    BY <1>1, <1>2, <2>3 DEF RunInv
  <2> QED BY <2>1, <2>2, <2>3
<1> QED BY <1>2 DEF Superseded

-----------------------------------------------------------------------------
(* One lemma for each action: it keeps each part of the invariant. *)
LEMMA ExitsKeeps == ASSUME IInv, NEW p \in Processes, Exits(p) PROVE IInv'
<1> USE Distinct DEF IInv, Exits, processes, recorded, timers, Closing
<1>1. TypeOK'
  BY DEF TypeOK
<1>2. LifeInv'
  BY DEF LifeInv, Dead, Spent
<1>3. CurrentInv'
  BY DEF CurrentInv
<1>4. StartInv'
  BY DEF StartInv, Dead, Spent
<1>5. StopInv'
  BY DEF StopInv
<1>6. CloseInv'
  BY DEF CloseInv, Dead, Spent
<1>7. RunInv'
  BY DEF RunInv, Running
<1>8. RecordInv'
  BY StillSuperseded DEF RecordInv, Running, NoForgets, Quiet
<1>9. OneProcess'
  BY DEF OneProcess, Running
<1>10. SurvivorsAreRecorded'
  BY DEF SurvivorsAreRecorded, Running
<1> QED BY <1>1, <1>2, <1>3, <1>4, <1>5, <1>6, <1>7, <1>8, <1>9, <1>10

LEMMA UnlinksKeeps == ASSUME IInv, NEW p \in Processes, Unlinks(p) PROVE IInv'
<1> USE Distinct DEF IInv, Unlinks, Undoes, processes, recorded, timers, Closing
<1>1. TypeOK'
  BY DEF TypeOK
<1>2. LifeInv'
  BY DEF LifeInv, Dead, Spent
<1>3. CurrentInv'
  BY DEF CurrentInv
<1>4. StartInv'
  BY DEF StartInv, Dead, Spent
<1>5. StopInv'
  BY DEF StopInv
<1>6. CloseInv'
  BY DEF CloseInv, Dead, Spent
<1>7. RunInv'
  BY DEF RunInv, Running
<1>8. RecordInv'
  BY StillSuperseded DEF RecordInv, Running, NoForgets, Quiet
<1>9. OneProcess'
  BY DEF OneProcess, Running
<1>10. SurvivorsAreRecorded'
  BY DEF SurvivorsAreRecorded, Running, RecordInv, NoForgets
<1> QED BY <1>1, <1>2, <1>3, <1>4, <1>5, <1>6, <1>7, <1>8, <1>9, <1>10

LEMMA ForgetTimesOutKeeps == ASSUME IInv, NEW p \in Processes, ForgetTimesOut(p) PROVE IInv'
<1> USE Distinct DEF IInv, ForgetTimesOut, Upset, processes, recorded, timers, Closing
<1>1. TypeOK'
  <2>1. /\ os' \in [Processes -> {"none", "alive", "killed", "gone"}]
        /\ forgets' \in [Processes -> {"no", "pending", "done"}] /\ entry' \in [Processes -> EntryType]
        /\ closed' \subseteq Processes /\ startup' \subseteq Processes /\ reaps' \subseteq Processes
        /\ late' \subseteq Processes /\ lost' \subseteq Processes /\ mine' \subseteq Processes
        /\ lateRecords' \subseteq Processes /\ unrecorded' \subseteq Processes
        /\ current' \in Processes \union {None} /\ registry' \in Processes \union {None}
        /\ revival' \in BOOLEAN /\ portRetry' \in BOOLEAN /\ restarts' \in 0..MaxRestartRetries
        /\ conflicts' \in 0..MAX_PORT_CONFLICT_RETRIES
    BY DEF TypeOK
  <2>2. start' \in StartType
    BY DEF TypeOK, StartType, Idle
  <2>3. stop' \in StopType
    BY DEF TypeOK, StopType, NoStop, Statuses
  <2>4. close' \in CloseType
    BY DEF TypeOK, CloseType
  <2>5. upsets' \in 0..MaxUpsets
    BY ServicesAssumption DEF TypeOK
  <2> QED BY <2>1, <2>2, <2>3, <2>4, <2>5 DEF TypeOK
<1>2. LifeInv'
  BY DEF LifeInv, Dead, Spent
<1>3. CurrentInv'
  BY DEF CurrentInv
<1>4. StartInv'
  BY DEF TypeOK, StartInv, Dead, Spent, Idle, NoStop
<1>5. StopInv'
  BY DEF StopInv, NoStop
<1>6. CloseInv'
  BY DEF CloseInv, Dead, Spent, LifeInv, NoStop
<1>7. RunInv'
  BY DEF RunInv, Running
<1>8. RecordInv'
  BY DEF RecordInv, Running, NoForgets, Superseded, Quiet, Idle, NoStop
<1>9. OneProcess'
  BY DEF OneProcess, Running
<1>10. SurvivorsAreRecorded'
  BY DEF SurvivorsAreRecorded, Running
<1> QED BY <1>1, <1>2, <1>3, <1>4, <1>5, <1>6, <1>7, <1>8, <1>9, <1>10

LEMMA LateUnlinksKeeps == ASSUME IInv, NEW p \in Processes, LateUnlinks(p) PROVE IInv'
<1> USE Distinct DEF IInv, LateUnlinks, processes, recorded, timers, Closing, Undoes
<1>1. TypeOK'
  BY DEF TypeOK
<1>2. LifeInv'
  BY DEF LifeInv, Dead, Spent
<1>3. CurrentInv'
  BY DEF CurrentInv
<1>4. StartInv'
  BY DEF StartInv, Dead, Spent
<1>5. StopInv'
  BY DEF StopInv
<1>6. CloseInv'
  BY DEF CloseInv, Dead, Spent
<1>7. RunInv'
  BY DEF RunInv, Running
<1>8. RecordInv'
  BY StillSuperseded DEF RecordInv, Running, NoForgets, Quiet
<1>9. OneProcess'
  BY DEF OneProcess, Running
<1>10. SurvivorsAreRecorded'
  BY DEF SurvivorsAreRecorded, Running
<1> QED BY <1>1, <1>2, <1>3, <1>4, <1>5, <1>6, <1>7, <1>8, <1>9, <1>10

LEMMA LateRecordsKeeps == ASSUME IInv, NEW p \in Processes, LateRecords(p) PROVE IInv'
<1> USE Distinct DEF IInv, LateRecords, processes, recorded, timers, Closing, Undoes
<1>1. TypeOK'
  BY DEF TypeOK
<1>2. LifeInv'
  BY DEF LifeInv, Dead, Spent
<1>3. CurrentInv'
  BY DEF CurrentInv
<1>4. StartInv'
  BY DEF StartInv, Dead, Spent
<1>5. StopInv'
  BY DEF StopInv
<1>6. CloseInv'
  BY DEF CloseInv, Dead, Spent
<1>7. RunInv'
  BY DEF RunInv, Running
<1>8. RecordInv'
  BY StillSuperseded DEF RecordInv, Running, NoForgets, Quiet
<1>9. OneProcess'
  BY DEF OneProcess, Running
<1>10. SurvivorsAreRecorded'
  BY DEF SurvivorsAreRecorded, Running
<1> QED BY <1>1, <1>2, <1>3, <1>4, <1>5, <1>6, <1>7, <1>8, <1>9, <1>10

LEMMA MarkReadyKeeps == ASSUME IInv, NEW p \in Processes, MarkReady(p) PROVE IInv'
<1> USE Distinct DEF IInv, MarkReady, processes, recorded, timers, Closing
<1>1. TypeOK'
  BY ServicesAssumption DEF TypeOK, EntryType, Statuses
<1>2. LifeInv'
  BY DEF LifeInv, Dead, Spent
<1>3. CurrentInv'
  BY DEF CurrentInv
<1>4. StartInv'
  BY DEF StartInv
<1>5. StopInv'
  BY DEF StopInv
<1>6. CloseInv'
  BY DEF CloseInv, Dead, Spent
<1>7. RunInv'
  BY DEF RunInv, Running
<1>8. RecordInv'
  BY DEF RecordInv, Running, NoForgets, Superseded, Quiet
<1>9. OneProcess'
  BY DEF OneProcess, Running
<1>10. SurvivorsAreRecorded'
  BY DEF SurvivorsAreRecorded, Running
<1> QED BY <1>1, <1>2, <1>3, <1>4, <1>5, <1>6, <1>7, <1>8, <1>9, <1>10

LEMMA StartupTimesOutKeeps == ASSUME IInv, NEW p \in Processes, StartupTimesOut(p) PROVE IInv'
<1> USE Distinct DEF IInv, StartupTimesOut, processes, recorded, timers, Closing
<1>1. TypeOK'
  BY DEF TypeOK, EntryType, Statuses
<1>2. LifeInv'
  BY <1>1 DEF TypeOK, LifeInv, Dead, Spent, EntryType, NoEntry
<1>3. CurrentInv'
  BY DEF TypeOK, CurrentInv, EntryType
<1>4. StartInv'
  BY DEF StartInv, Dead, Spent
<1>5. StopInv'
  BY DEF TypeOK, StopInv
<1>6. CloseInv'
  BY DEF TypeOK, CloseInv, Dead, Spent, EntryType
<1>7. RunInv'
  BY DEF RunInv, Running
<1>8. RecordInv'
  BY DEF TypeOK, RecordInv, Running, NoForgets, Superseded, Quiet
<1>9. OneProcess'
  BY DEF OneProcess, Running
<1>10. SurvivorsAreRecorded'
  BY DEF SurvivorsAreRecorded, Running
<1> QED BY <1>1, <1>2, <1>3, <1>4, <1>5, <1>6, <1>7, <1>8, <1>9, <1>10

LEMMA StartKeeps == ASSUME IInv, Start PROVE IInv'
<1> USE Distinct DEF IInv, Start, Begins, Serves, Status, processes, recorded, timers, Closing
<1>p. current # None => current \in Processes /\ current \in mine /\ entry[current].status \in Statuses \ {"none"}
  BY DEF TypeOK, CurrentInv, EntryType
<1>1. TypeOK'
  BY DEF TypeOK, StartType, Idle
<1>2. LifeInv'
  BY DEF LifeInv, Dead, Spent
<1>3. CurrentInv'
  BY DEF CurrentInv
<1>4. StartInv'
  BY <1>p DEF Idle, Live, Statuses, StartInv
<1>5. StopInv'
  BY DEF StopInv
<1>6. CloseInv'
  BY DEF CloseInv
<1>7. RunInv'
  BY DEF RunInv, Running, Idle
<1>8. RecordInv'
  BY DEF RecordInv, Running, NoForgets, Superseded, Quiet, Idle
<1>9. OneProcess'
  BY DEF OneProcess, Running
<1>10. SurvivorsAreRecorded'
  BY DEF SurvivorsAreRecorded, Running
<1> QED BY <1>1, <1>2, <1>3, <1>4, <1>5, <1>6, <1>7, <1>8, <1>9, <1>10

LEMMA RetriesKeeps == ASSUME IInv, Retries PROVE IInv'
<1> USE Distinct DEF IInv, Retries, Begins, Status, processes, recorded, timers, Closing
<1>p. current # None => current \in Processes /\ current \in mine /\ entry[current].status \in Statuses \ {"none"}
  BY DEF TypeOK, CurrentInv, EntryType
<1>1. TypeOK'
  <2>1. /\ os' \in [Processes -> {"none", "alive", "killed", "gone"}]
        /\ forgets' \in [Processes -> {"no", "pending", "done"}] /\ entry' \in [Processes -> EntryType]
        /\ closed' \subseteq Processes /\ startup' \subseteq Processes /\ reaps' \subseteq Processes
        /\ late' \subseteq Processes /\ lost' \subseteq Processes /\ mine' \subseteq Processes
        /\ lateRecords' \subseteq Processes /\ unrecorded' \subseteq Processes
        /\ current' \in Processes \union {None} /\ registry' \in Processes \union {None} /\ stop' \in StopType
        /\ close' \in CloseType /\ revival' \in BOOLEAN /\ portRetry' \in BOOLEAN
        /\ restarts' \in 0..MaxRestartRetries /\ conflicts' \in 0..MAX_PORT_CONFLICT_RETRIES
        /\ upsets' \in 0..MaxUpsets
    BY DEF TypeOK
  <2>2. start' \in StartType
    BY DEF TypeOK, StartType, Idle
  <2> QED BY <2>1, <2>2 DEF TypeOK
<1>2. LifeInv'
  BY DEF LifeInv, Dead, Spent
<1>3. CurrentInv'
  BY DEF CurrentInv
<1>4. StartInv'
  BY <1>p DEF Idle, StartInv, Live, Statuses, Dead, Spent
<1>5. StopInv'
  BY DEF StopInv
<1>6. CloseInv'
  BY DEF CloseInv
<1>7. RunInv'
  BY DEF RunInv, Running, Idle
<1>8. RecordInv'
  BY DEF RecordInv, Running, NoForgets, Superseded, Quiet, Idle
<1>9. OneProcess'
  BY DEF OneProcess, Running
<1>10. SurvivorsAreRecorded'
  BY DEF SurvivorsAreRecorded, Running
<1> QED BY <1>1, <1>2, <1>3, <1>4, <1>5, <1>6, <1>7, <1>8, <1>9, <1>10

LEMMA StartForgetsKeeps == ASSUME IInv, StartForgets PROVE IInv'
<1> USE Distinct DEF IInv, StartForgets, processes, recorded, timers, Closing
<1>1. TypeOK'
  BY DEF TypeOK, StartType, Idle
<1>2. LifeInv'
  BY DEF LifeInv, Dead, Spent
<1>3. CurrentInv'
  BY DEF CurrentInv
<1>4. StartInv'
  BY DEF Idle, StartInv, Dead, Spent, NoForgets, CurrentInv, TypeOK
<1>5. StopInv'
  BY DEF StopInv
<1>6. CloseInv'
  BY DEF CloseInv
<1>7. RunInv'
  BY DEF RunInv, Running
<1>8. RecordInv'
  BY DEF RecordInv, Running, NoForgets, Superseded, Quiet
<1>9. OneProcess'
  BY DEF OneProcess, Running
<1>10. SurvivorsAreRecorded'
  BY DEF SurvivorsAreRecorded, Running
<1> QED BY <1>1, <1>2, <1>3, <1>4, <1>5, <1>6, <1>7, <1>8, <1>9, <1>10

LEMMA StartRefusedKeeps == ASSUME IInv, StartRefused PROVE IInv'
<1> USE Distinct DEF IInv, StartRefused, processes, recorded, timers, Closing
<1>1. TypeOK'
  BY DEF TypeOK, StartType, Idle
<1>2. LifeInv'
  BY DEF LifeInv, Dead, Spent
<1>3. CurrentInv'
  BY DEF CurrentInv
<1>4. StartInv'
  BY DEF StartInv, Idle
<1>5. StopInv'
  BY DEF StopInv
<1>6. CloseInv'
  BY DEF CloseInv
<1>7. RunInv'
  BY DEF RunInv, Running
<1>8. RecordInv'
  BY DEF RecordInv, Running, NoForgets, Superseded, Quiet
<1>9. OneProcess'
  BY DEF OneProcess, Running
<1>10. SurvivorsAreRecorded'
  BY DEF SurvivorsAreRecorded, Running
<1> QED BY <1>1, <1>2, <1>3, <1>4, <1>5, <1>6, <1>7, <1>8, <1>9, <1>10

LEMMA SpawnsKeeps == ASSUME IInv, NEW p \in Processes, Spawns(p) PROVE IInv'
<1> USE Distinct DEF IInv, Spawns, processes, recorded, timers, Closing
<1>1. TypeOK'
  BY DEF TypeOK, StartType
<1>2. LifeInv'
  BY DEF TypeOK, LifeInv, Dead, Spent, NoEntry
<1>3. CurrentInv'
  BY DEF CurrentInv
<1>4. StartInv'
  BY DEF StartInv, Dead, Spent, LifeInv, StopInv
<1>5. StopInv'
  BY DEF StopInv
<1>6. CloseInv'
  BY DEF CloseInv
<1>7. RunInv'
  BY DEF RunInv, Running
<1>8. RecordInv'
  BY DEF RecordInv, Running, NoForgets, Superseded, Quiet, LifeInv
<1>9. OneProcess'
  BY DEF OneProcess, Running, RunInv
<1>10. SurvivorsAreRecorded'
  BY DEF SurvivorsAreRecorded, Running
<1> QED BY <1>1, <1>2, <1>3, <1>4, <1>5, <1>6, <1>7, <1>8, <1>9, <1>10

LEMMA StartRecordsKeeps == ASSUME IInv, StartRecords PROVE IInv'
<1> USE Distinct DEF IInv, StartRecords, Upset, processes, recorded, timers, Closing
<1>p. start.child \in mine /\ start.child \in Processes
  BY DEF TypeOK, StartInv
<1>1. TypeOK'
  BY <1>p, ServicesAssumption DEF TypeOK, StartType
<1>2. LifeInv'
  BY DEF LifeInv, Dead, Spent
<1>3. CurrentInv'
  BY DEF CurrentInv
<1>4. StartInv'
  BY DEF StartInv, Dead, Spent
<1>5. StopInv'
  BY DEF StopInv
<1>6. CloseInv'
  BY DEF CloseInv
<1>7. RunInv'
  BY DEF RunInv, Running
<1>8. RecordInv'
  BY DEF RecordInv, Running, NoForgets, Superseded, Quiet
<1>9. OneProcess'
  BY DEF OneProcess, Running
<1>10. SurvivorsAreRecorded'
  BY DEF SurvivorsAreRecorded, Running, RunInv, CloseInv
<1> QED BY <1>1, <1>2, <1>3, <1>4, <1>5, <1>6, <1>7, <1>8, <1>9, <1>10

LEMMA StartUnrecordedKeeps == ASSUME IInv, StartUnrecorded PROVE IInv'
<1> USE Distinct DEF IInv, StartUnrecorded, Upset, Kill, processes, recorded, timers, Closing
<1>1. TypeOK'
  <2>1. /\ os' \in [Processes -> {"none", "alive", "killed", "gone"}]
        /\ forgets' \in [Processes -> {"no", "pending", "done"}] /\ entry' \in [Processes -> EntryType]
        /\ closed' \subseteq Processes /\ startup' \subseteq Processes /\ reaps' \subseteq Processes
        /\ late' \subseteq Processes /\ lost' \subseteq Processes /\ mine' \subseteq Processes
        /\ lateRecords' \subseteq Processes /\ unrecorded' \subseteq Processes
        /\ current' \in Processes \union {None} /\ registry' \in Processes \union {None} /\ stop' \in StopType
        /\ close' \in CloseType /\ revival' \in BOOLEAN /\ portRetry' \in BOOLEAN
        /\ restarts' \in 0..MaxRestartRetries /\ conflicts' \in 0..MAX_PORT_CONFLICT_RETRIES
    BY DEF TypeOK, StartInv
  <2>2. start' \in StartType
    BY DEF StartType, Idle
  <2>3. upsets' \in 0..MaxUpsets
    BY ServicesAssumption DEF TypeOK
  <2> QED BY <2>1, <2>2, <2>3 DEF TypeOK
<1>2. LifeInv'
  BY DEF LifeInv, Dead, Spent
<1>3. CurrentInv'
  BY DEF CurrentInv
<1>4. StartInv'
  BY DEF StartInv, Idle
<1>5. StopInv'
  BY DEF StopInv
<1>6. CloseInv'
  BY DEF CloseInv
<1>7. RunInv'
  BY DEF TypeOK, RunInv, Running
<1>8. RecordInv'
  BY DEF RecordInv, Running, NoForgets, Superseded, Quiet, StartInv, Idle, NoEntry
<1>9. OneProcess'
  BY DEF OneProcess, Running
<1>10. SurvivorsAreRecorded'
  BY DEF TypeOK, SurvivorsAreRecorded, Running
<1> QED BY <1>1, <1>2, <1>3, <1>4, <1>5, <1>6, <1>7, <1>8, <1>9, <1>10

LEMMA StartWithdrawsKeeps == ASSUME IInv, StartWithdraws PROVE IInv'
<1> USE Distinct DEF IInv, StartWithdraws, processes, recorded, timers, Closing
<1>1. TypeOK'
  BY DEF TypeOK, StartType, Idle
<1>2. LifeInv'
  BY DEF LifeInv, Dead, Spent
<1>3. CurrentInv'
  BY DEF CurrentInv
<1>4. StartInv'
  BY DEF StartInv, Idle
<1>5. StopInv'
  BY DEF StopInv
<1>6. CloseInv'
  BY DEF CloseInv
<1>7. RunInv'
  BY DEF RunInv, Running
<1>8. RecordInv'
  BY DEF RecordInv, Running, NoForgets, Superseded, Quiet, StartInv, Idle, NoEntry
<1>9. OneProcess'
  BY DEF OneProcess, Running
<1>10. SurvivorsAreRecorded'
  BY DEF SurvivorsAreRecorded, Running
<1> QED BY <1>1, <1>2, <1>3, <1>4, <1>5, <1>6, <1>7, <1>8, <1>9, <1>10

LEMMA StopKeeps == ASSUME IInv, Stop PROVE IInv'
<1> USE Distinct DEF IInv, Stop, StopBegins, Serves, Status, processes, recorded, timers, Closing
<1>p. current # None => current \in Processes /\ current \in mine /\ entry[current].status \in Statuses \ {"none"}
  BY DEF TypeOK, CurrentInv, EntryType
<1>e. entry' \in [Processes -> EntryType] /\ \A q \in Processes :
       /\ entry'[q].status = IF q = current /\ entry[q].status \in Live THEN "stopping" ELSE entry[q].status
       /\ entry'[q].exited <=> entry[q].exited
       /\ q # current => entry'[q] = entry[q]
  BY DEF TypeOK, EntryType, Statuses, Live
<1>1. TypeOK'
  <2>1. /\ os' \in [Processes -> {"none", "alive", "killed", "gone"}]
        /\ forgets' \in [Processes -> {"no", "pending", "done"}] /\ closed' \subseteq Processes
        /\ startup' \subseteq Processes /\ reaps' \subseteq Processes /\ late' \subseteq Processes
        /\ lost' \subseteq Processes /\ lateRecords' \subseteq Processes /\ unrecorded' \subseteq Processes
        /\ mine' \subseteq Processes /\ current' \in Processes \union {None}
        /\ registry' \in Processes \union {None} /\ start' \in StartType /\ close' \in CloseType
        /\ revival' \in BOOLEAN /\ portRetry' \in BOOLEAN /\ conflicts' \in 0..MAX_PORT_CONFLICT_RETRIES
        /\ upsets' \in 0..MaxUpsets
    BY DEF TypeOK
  <2>2. entry' \in [Processes -> EntryType]
    BY <1>e
  <2>3. stop' \in StopType
    <3>1. Status \in Statuses /\ current \in Processes \union {None}
      BY <1>p DEF Statuses
    <3>2. CASE stop' = [pc |-> "terminates", child |-> current, from |-> Status, ok |-> TRUE]
      BY <3>1, <3>2 DEF StopType
    <3>3. CASE stop' = [pc |-> "reaps", child |-> current, from |-> Status, ok |-> TRUE]
      BY <3>1, <3>3 DEF StopType
    <3>4. CASE stop' = [NoStop EXCEPT !.ok = FALSE] \/ stop' = stop
      BY <3>4 DEF TypeOK, StopType, NoStop, Statuses
    <3> QED BY <3>2, <3>3, <3>4
  <2>4. restarts' \in 0..MaxRestartRetries
    BY ServicesAssumption
  <2> QED BY <2>1, <2>2, <2>3, <2>4 DEF TypeOK
<1>2. LifeInv'
  BY <1>p, <1>e DEF LifeInv, Dead, Spent
<1>3. CurrentInv'
  BY <1>p, <1>e DEF CurrentInv
<1>4. StartInv'
  BY DEF TypeOK, StartInv, Dead, Spent, NoStop, Live
<1>5. StopInv'
  BY <1>p, <1>e DEF NoStop, Live, Statuses, StopInv
<1>6. CloseInv'
  BY DEF CloseInv
<1>7. RunInv'
  BY DEF RunInv, Running
<1>8. RecordInv'
  BY <1>e DEF RecordInv, Running, NoForgets, Superseded, Quiet, NoStop
<1>9. OneProcess'
  BY DEF OneProcess, Running
<1>10. SurvivorsAreRecorded'
  BY DEF SurvivorsAreRecorded, Running
<1> QED BY <1>1, <1>2, <1>3, <1>4, <1>5, <1>6, <1>7, <1>8, <1>9, <1>10

LEMMA StopKillsKeeps == ASSUME IInv, StopKills PROVE IInv'
<1> USE Distinct DEF IInv, StopKills, Kill, processes, recorded, timers, Closing
<1>1. TypeOK'
  BY DEF TypeOK
<1>2. LifeInv'
  BY DEF LifeInv, Dead, Spent
<1>3. CurrentInv'
  BY DEF CurrentInv
<1>4. StartInv'
  BY DEF StartInv, Dead, Spent
<1>5. StopInv'
  BY DEF StopInv
<1>6. CloseInv'
  BY DEF CloseInv
<1>7. RunInv'
  BY DEF RunInv, Running
<1>8. RecordInv'
  BY DEF RecordInv, Running, NoForgets, Superseded, Quiet, RunInv, CloseInv
<1>9. OneProcess'
  BY DEF OneProcess, Running
<1>10. SurvivorsAreRecorded'
  BY DEF SurvivorsAreRecorded, Running
<1> QED BY <1>1, <1>2, <1>3, <1>4, <1>5, <1>6, <1>7, <1>8, <1>9, <1>10

LEMMA StopTerminatedKeeps == ASSUME IInv, StopTerminated PROVE IInv'
<1> USE Distinct DEF IInv, StopTerminated, Forgotten, processes, recorded, timers, Closing
<1>p. stop.child \in mine /\ stop.child \in Processes
  BY DEF TypeOK, StopInv
<1>v. entry' = [entry EXCEPT ![stop.child].exited = TRUE]
  OBVIOUS
<1>e. entry' \in [Processes -> EntryType] /\ \A q \in Processes :
       /\ entry'[q].status = entry[q].status
       /\ entry'[q].exited <=> q = stop.child \/ entry[q].exited
       /\ q # stop.child => entry'[q] = entry[q]
  BY <1>p, <1>v, EntryExits
<1>1. TypeOK'
  BY <1>e DEF TypeOK, StopType
<1>2. LifeInv'
  BY DEF LifeInv, Dead, Spent
<1>3. CurrentInv'
  BY DEF CurrentInv
<1>4. StartInv'
  BY DEF StartInv, Dead, Spent
<1>5. StopInv'
  BY <1>e DEF StopInv
<1>6. CloseInv'
  BY DEF CloseInv
<1>7. RunInv'
  BY DEF RunInv, Running
<1>8. RecordInv'
  BY <1>e DEF RecordInv, Running, NoForgets, Superseded, Quiet, RunInv, StartInv, StopInv, CloseInv
<1>9. OneProcess'
  BY DEF OneProcess, Running
<1>10. SurvivorsAreRecorded'
  BY DEF SurvivorsAreRecorded, Running
<1> QED BY <1>1, <1>2, <1>3, <1>4, <1>5, <1>6, <1>7, <1>8, <1>9, <1>10

LEMMA StopFailsKeeps == ASSUME IInv, StopFails PROVE IInv'
<1> USE Distinct DEF IInv, StopFails, Upset, processes, recorded, timers, Closing
<1>p. stop.child \in mine /\ stop.child \in Processes
  BY DEF TypeOK, StopInv
<1>v. stop.from \in Live /\ stop.from \in Statuses /\ entry[stop.child].status \in Statuses
  BY DEF StopInv, Statuses, Live
<1>e. entry' \in [Processes -> EntryType] /\ \A q \in Processes :
       /\ entry'[q].status = IF q = stop.child /\ entry[q].status = "stopping" THEN stop.from ELSE entry[q].status
       /\ entry'[q].exited <=> entry[q].exited
       /\ q # stop.child => entry'[q] = entry[q]
  BY <1>p, <1>v DEF TypeOK, EntryType
<1>1. TypeOK'
  <2>1. /\ os' \in [Processes -> {"none", "alive", "killed", "gone"}]
        /\ forgets' \in [Processes -> {"no", "pending", "done"}] /\ closed' \subseteq Processes
        /\ startup' \subseteq Processes /\ reaps' \subseteq Processes /\ late' \subseteq Processes
        /\ lost' \subseteq Processes /\ lateRecords' \subseteq Processes /\ unrecorded' \subseteq Processes
        /\ mine' \subseteq Processes /\ current' \in Processes \union {None}
        /\ registry' \in Processes \union {None} /\ start' \in StartType /\ close' \in CloseType
        /\ revival' \in BOOLEAN /\ portRetry' \in BOOLEAN /\ restarts' \in 0..MaxRestartRetries
        /\ conflicts' \in 0..MAX_PORT_CONFLICT_RETRIES
    BY DEF TypeOK
  <2>2. entry' \in [Processes -> EntryType]
    BY <1>e
  <2>3. stop' \in StopType
    BY DEF StopType, NoStop, Statuses
  <2>4. upsets' \in 0..MaxUpsets
    BY ServicesAssumption DEF TypeOK
  <2> QED BY <2>1, <2>2, <2>3, <2>4 DEF TypeOK
<1>2. LifeInv'
  BY <1>v DEF LifeInv, Dead, Spent, Live
<1>3. CurrentInv'
  BY <1>v DEF CurrentInv, Live
<1>4. StartInv'
  BY DEF TypeOK, StartInv, Dead, Spent, NoStop
<1>5. StopInv'
  BY DEF StopInv, NoStop
<1>6. CloseInv'
  BY DEF CloseInv, NoStop
<1>7. RunInv'
  BY DEF RunInv, Running
<1>8. RecordInv'
  BY DEF RecordInv, Running, NoForgets, Superseded, Quiet, NoStop
<1>9. OneProcess'
  BY DEF OneProcess, Running
<1>10. SurvivorsAreRecorded'
  BY DEF SurvivorsAreRecorded, Running
<1> QED BY <1>1, <1>2, <1>3, <1>4, <1>5, <1>6, <1>7, <1>8, <1>9, <1>10

LEMMA StopEndsKeeps == ASSUME IInv, StopEnds PROVE IInv'
<1> USE Distinct DEF IInv, StopEnds, processes, recorded, timers, Closing
<1>p. stop.child \in mine /\ stop.child \in Processes
  BY DEF TypeOK, StopInv
<1>v. entry[stop.child].status \in Statuses /\ entry[stop.child].exited
  BY DEF StopInv, Statuses
<1>e. entry' \in [Processes -> EntryType] /\ \A q \in Processes :
       /\ entry'[q].status = IF q = stop.child /\ (stop.pc = "settles" \/ entry[q].status = "stopping") THEN "stopped" ELSE entry[q].status
       /\ entry'[q].exited <=> entry[q].exited
       /\ q # stop.child => entry'[q] = entry[q]
  BY <1>p DEF TypeOK, EntryType, Statuses
<1>1. TypeOK'
  BY <1>e DEF TypeOK, StopType, NoStop, Statuses
<1>2. LifeInv'
  BY <1>v DEF LifeInv, Dead, Spent
<1>3. CurrentInv'
  BY DEF CurrentInv
<1>4. StartInv'
  BY DEF TypeOK, StartInv, Dead, Spent, NoStop
<1>5. StopInv'
  BY DEF StopInv, NoStop
<1>6. CloseInv'
  BY <1>v DEF CloseInv, NoStop
<1>7. RunInv'
  BY DEF RunInv, Running
<1>8. RecordInv'
  BY DEF RecordInv, Running, NoForgets, Superseded, Quiet, StopInv, NoStop
<1>9. OneProcess'
  BY DEF OneProcess, Running
<1>10. SurvivorsAreRecorded'
  BY DEF SurvivorsAreRecorded, Running
<1> QED BY <1>1, <1>2, <1>3, <1>4, <1>5, <1>6, <1>7, <1>8, <1>9, <1>10

LEMMA CloseKeeps == ASSUME IInv, Close PROVE IInv'
<1> USE Distinct DEF IInv, Close, processes, recorded, timers, Closing
<1>1. TypeOK'
  BY DEF TypeOK, CloseType
<1>2. LifeInv'
  BY DEF LifeInv, Dead, Spent
<1>3. CurrentInv'
  BY DEF CurrentInv
<1>4. StartInv'
  BY DEF StartInv, Dead, Spent
<1>5. StopInv'
  BY DEF StopInv
<1>6. CloseInv'
  BY DEF CloseInv
<1>7. RunInv'
  BY DEF RunInv, Running
<1>8. RecordInv'
  BY DEF RecordInv, Running, NoForgets, Superseded, Quiet
<1>9. OneProcess'
  BY DEF OneProcess, Running
<1>10. SurvivorsAreRecorded'
  BY DEF SurvivorsAreRecorded, Running
<1> QED BY <1>1, <1>2, <1>3, <1>4, <1>5, <1>6, <1>7, <1>8, <1>9, <1>10

LEMMA CloseStartsKeeps == ASSUME IInv, CloseStarts PROVE IInv'
<1> USE Distinct DEF IInv, CloseStarts, processes, recorded, timers, Closing
<1>1. TypeOK'
  BY DEF TypeOK, CloseType
<1>2. LifeInv'
  BY DEF LifeInv, Dead, Spent
<1>3. CurrentInv'
  BY DEF CurrentInv
<1>4. StartInv'
  BY DEF StartInv
<1>5. StopInv'
  BY DEF StopInv
<1>6. CloseInv'
  BY DEF CloseInv
<1>7. RunInv'
  BY DEF RunInv, Running
<1>8. RecordInv'
  BY DEF RecordInv, Running, NoForgets, Superseded, Quiet
<1>9. OneProcess'
  BY DEF OneProcess, Running
<1>10. SurvivorsAreRecorded'
  BY DEF SurvivorsAreRecorded, Running
<1> QED BY <1>1, <1>2, <1>3, <1>4, <1>5, <1>6, <1>7, <1>8, <1>9, <1>10

LEMMA CloseStopsKeeps == ASSUME IInv, CloseStops PROVE IInv'
<1> USE Distinct DEF IInv, CloseStops, StopBegins, Status, ClosePc, processes, recorded, timers, Closing
<1>p. current # None => current \in Processes /\ current \in mine /\ entry[current].status \in Statuses \ {"none"}
  BY DEF TypeOK, CurrentInv, EntryType
<1>e. entry' \in [Processes -> EntryType] /\ \A q \in Processes :
       /\ entry'[q].status = IF q = current /\ entry[q].status \in Live /\ close.hard = FALSE THEN "stopping" ELSE entry[q].status
       /\ entry'[q].exited <=> entry[q].exited
       /\ q # current => entry'[q] = entry[q]
  BY DEF TypeOK, EntryType, Statuses
<1>1. TypeOK'
  <2>1. /\ os' \in [Processes -> {"none", "alive", "killed", "gone"}]
        /\ forgets' \in [Processes -> {"no", "pending", "done"}] /\ closed' \subseteq Processes
        /\ startup' \subseteq Processes /\ reaps' \subseteq Processes /\ late' \subseteq Processes
        /\ lost' \subseteq Processes /\ lateRecords' \subseteq Processes /\ unrecorded' \subseteq Processes
        /\ mine' \subseteq Processes /\ current' \in Processes \union {None}
        /\ registry' \in Processes \union {None} /\ start' \in StartType /\ revival' \in BOOLEAN
        /\ portRetry' \in BOOLEAN /\ conflicts' \in 0..MAX_PORT_CONFLICT_RETRIES /\ upsets' \in 0..MaxUpsets
    BY DEF TypeOK
  <2>2. entry' \in [Processes -> EntryType]
    BY <1>e
  <2>3. stop' \in StopType
    <3>1. Status \in Statuses /\ current \in Processes \union {None}
      BY <1>p DEF Statuses
    <3>2. CASE stop' = [pc |-> "terminates", child |-> current, from |-> Status, ok |-> TRUE]
      BY <3>1, <3>2 DEF StopType
    <3>3. CASE stop' = [pc |-> "reaps", child |-> current, from |-> Status, ok |-> TRUE]
      BY <3>1, <3>3 DEF StopType
    <3>4. CASE stop' = [NoStop EXCEPT !.ok = FALSE] \/ stop' = stop
      BY <3>4 DEF TypeOK, StopType, NoStop, Statuses
    <3> QED BY <3>2, <3>3, <3>4
  <2>4. close' \in CloseType
    BY DEF TypeOK, CloseType
  <2>5. restarts' \in 0..MaxRestartRetries
    BY ServicesAssumption DEF TypeOK
  <2> QED BY <2>1, <2>2, <2>3, <2>4, <2>5 DEF TypeOK
<1>2. LifeInv'
  BY <1>p, <1>e DEF LifeInv, Dead, Spent
<1>3. CurrentInv'
  BY <1>p, <1>e DEF CurrentInv
<1>4. StartInv'
  BY DEF TypeOK, StartInv, Dead, Spent, CloseType, Live
<1>5. StopInv'
  BY <1>p, <1>e DEF StopInv, NoStop, Live, Statuses
<1>6. CloseInv'
  BY <1>p DEF TypeOK, CloseInv, LifeInv, Live, Statuses, Spent, Dead, CloseType, NoStop
<1>7. RunInv'
  BY DEF RunInv, Running
<1>8. RecordInv'
  BY <1>e DEF RecordInv, Running, NoForgets, Superseded, Quiet, NoStop
<1>9. OneProcess'
  BY DEF OneProcess, Running
<1>10. SurvivorsAreRecorded'
  BY DEF SurvivorsAreRecorded, Running
<1> QED BY <1>1, <1>2, <1>3, <1>4, <1>5, <1>6, <1>7, <1>8, <1>9, <1>10

LEMMA CloseStoppedKeeps == ASSUME IInv, CloseStopped PROVE IInv'
<1> USE Distinct DEF IInv, CloseStopped, ClosePc, processes, recorded, timers, Closing
<1>1. TypeOK'
  BY DEF TypeOK, CloseType
<1>2. LifeInv'
  BY DEF LifeInv, Dead, Spent
<1>3. CurrentInv'
  BY DEF CurrentInv
<1>4. StartInv'
  BY DEF StartInv, Dead, Spent
<1>5. StopInv'
  BY DEF StopInv
<1>6. CloseInv'
  BY DEF TypeOK, CloseInv, Dead, Spent, LifeInv
<1>7. RunInv'
  BY DEF RunInv, Running
<1>8. RecordInv'
  BY DEF RecordInv, Running, NoForgets, Superseded, Quiet
<1>9. OneProcess'
  BY DEF OneProcess, Running
<1>10. SurvivorsAreRecorded'
  BY DEF SurvivorsAreRecorded, Running
<1> QED BY <1>1, <1>2, <1>3, <1>4, <1>5, <1>6, <1>7, <1>8, <1>9, <1>10

LEMMA CloseForcesKeeps == ASSUME IInv, CloseForces PROVE IInv'
<1> USE Distinct DEF IInv, CloseForces, Status, processes, recorded, timers, Closing
<1>p. current # None /\ current \in mine /\ current \in Processes
  BY DEF TypeOK, CurrentInv, CloseInv
<1>e. entry' \in [Processes -> EntryType] /\ \A q \in Processes :
       /\ entry'[q].status = IF q = current THEN "stopping" ELSE entry[q].status
       /\ entry'[q].exited <=> entry[q].exited
       /\ q # current => entry'[q] = entry[q]
  BY <1>p DEF TypeOK, EntryType, Statuses
<1>1. TypeOK'
  BY <1>e, <1>p DEF TypeOK, CloseType, EntryType
<1>2. LifeInv'
  BY <1>p DEF LifeInv, Dead, Spent
<1>3. CurrentInv'
  BY DEF CurrentInv
<1>4. StartInv'
  BY DEF StartInv, CloseInv
<1>5. StopInv'
  BY DEF StopInv
<1>6. CloseInv'
  BY DEF CloseInv, CurrentInv
<1>7. RunInv'
  BY DEF RunInv, Running
<1>8. RecordInv'
  BY DEF RecordInv, Running, NoForgets, Superseded, Quiet
<1>9. OneProcess'
  BY DEF OneProcess, Running
<1>10. SurvivorsAreRecorded'
  BY DEF SurvivorsAreRecorded, Running
<1> QED BY <1>1, <1>2, <1>3, <1>4, <1>5, <1>6, <1>7, <1>8, <1>9, <1>10

LEMMA CloseKillsKeeps == ASSUME IInv, CloseKills PROVE IInv'
<1> USE Distinct DEF IInv, CloseKills, Kill, processes, recorded, timers, Closing
<1>1. TypeOK'
  BY DEF TypeOK
<1>2. LifeInv'
  BY DEF LifeInv, Dead, Spent
<1>3. CurrentInv'
  BY DEF CurrentInv
<1>4. StartInv'
  BY DEF StartInv, Dead, Spent
<1>5. StopInv'
  BY DEF StopInv
<1>6. CloseInv'
  BY DEF CloseInv
<1>7. RunInv'
  BY DEF RunInv, Running
<1>8. RecordInv'
  BY DEF RecordInv, Running, NoForgets, Superseded, Quiet
<1>9. OneProcess'
  BY DEF OneProcess, Running
<1>10. SurvivorsAreRecorded'
  BY DEF SurvivorsAreRecorded, Running
<1> QED BY <1>1, <1>2, <1>3, <1>4, <1>5, <1>6, <1>7, <1>8, <1>9, <1>10

LEMMA CloseTerminatedKeeps == ASSUME IInv, CloseTerminated PROVE IInv'
<1> USE Distinct DEF IInv, CloseTerminated, Forgotten, ClosePc, processes, recorded, timers, Closing
<1>p. current # None /\ current \in mine /\ current \in Processes
  BY DEF TypeOK, CurrentInv, CloseInv
<1>v. entry' = [entry EXCEPT ![current].exited = TRUE]
  OBVIOUS
<1>e. entry' \in [Processes -> EntryType] /\ \A q \in Processes :
       /\ entry'[q].status = entry[q].status
       /\ entry'[q].exited <=> q = current \/ entry[q].exited
       /\ q # current => entry'[q] = entry[q]
  BY <1>p, <1>v, EntryExits
<1>1. TypeOK'
  BY <1>e DEF TypeOK, CloseType
<1>2. LifeInv'
  BY DEF LifeInv, Dead, Spent
<1>3. CurrentInv'
  BY DEF CurrentInv
<1>4. StartInv'
  BY DEF StartInv, Dead, Spent
<1>5. StopInv'
  BY DEF StopInv
<1>6. CloseInv'
  BY <1>e DEF CloseInv
<1>7. RunInv'
  BY DEF RunInv, Running
<1>8. RecordInv'
  BY DEF RecordInv, Running, Superseded, Quiet, RunInv, CloseInv
<1>9. OneProcess'
  BY DEF OneProcess, Running
<1>10. SurvivorsAreRecorded'
  BY DEF SurvivorsAreRecorded, Running
<1> QED BY <1>1, <1>2, <1>3, <1>4, <1>5, <1>6, <1>7, <1>8, <1>9, <1>10

LEMMA CloseFailsKeeps == ASSUME IInv, CloseFails PROVE IInv'
<1> USE Distinct DEF IInv, CloseFails, Upset, ClosePc, processes, recorded, timers, Closing
<1>p. current # None /\ current \in mine /\ current \in Processes
  BY DEF TypeOK, CurrentInv, CloseInv
<1>e. entry' \in [Processes -> EntryType] /\ \A q \in Processes :
       /\ entry'[q].status = IF q = current /\ entry[q].status = "stopping" THEN close.from ELSE entry[q].status
       /\ entry'[q].exited <=> entry[q].exited
       /\ q # current => entry'[q] = entry[q]
  BY <1>p DEF TypeOK, EntryType, CloseType
<1>1. TypeOK'
  BY <1>e, ServicesAssumption DEF TypeOK, CloseType
<1>2. LifeInv'
  BY DEF LifeInv, Dead, Spent, CloseInv
<1>3. CurrentInv'
  BY DEF CurrentInv, CloseInv
<1>4. StartInv'
  BY DEF StartInv, Dead, Spent
<1>5. StopInv'
  BY DEF StopInv, CloseInv
<1>6. CloseInv'
  BY DEF CloseInv, Spent
<1>7. RunInv'
  BY DEF RunInv, Running
<1>8. RecordInv'
  BY DEF RecordInv, Running, NoForgets, Superseded, Quiet
<1>9. OneProcess'
  BY DEF OneProcess, Running
<1>10. SurvivorsAreRecorded'
  BY DEF SurvivorsAreRecorded, Running
<1> QED BY <1>1, <1>2, <1>3, <1>4, <1>5, <1>6, <1>7, <1>8, <1>9, <1>10

LEMMA CloseForgetsKeeps == ASSUME IInv, CloseForgets PROVE IInv'
<1> USE Distinct DEF IInv, CloseForgets, ClosePc, processes, recorded, timers, Closing
<1>p. current # None /\ current \in mine /\ current \in Processes
  BY DEF TypeOK, CurrentInv, CloseInv
<1>e. entry' \in [Processes -> EntryType] /\ \A q \in Processes :
       /\ entry'[q].status = IF q = current THEN "stopped" ELSE entry[q].status
       /\ entry'[q].exited <=> entry[q].exited
       /\ q # current => entry'[q] = entry[q]
  BY <1>p DEF TypeOK, EntryType, Statuses
<1>1. TypeOK'
  BY <1>e DEF TypeOK, CloseType
<1>2. LifeInv'
  BY DEF LifeInv, Dead, Spent, CloseInv
<1>3. CurrentInv'
  BY DEF CurrentInv
<1>4. StartInv'
  BY DEF StartInv, Dead, Spent
<1>5. StopInv'
  BY DEF StopInv
<1>6. CloseInv'
  BY <1>e DEF CloseInv, Dead, Spent, LifeInv
<1>7. RunInv'
  BY DEF RunInv, Running
<1>8. RecordInv'
  BY DEF RecordInv, Running, NoForgets, Superseded, Quiet
<1>9. OneProcess'
  BY DEF OneProcess, Running
<1>10. SurvivorsAreRecorded'
  BY DEF SurvivorsAreRecorded, Running
<1> QED BY <1>1, <1>2, <1>3, <1>4, <1>5, <1>6, <1>7, <1>8, <1>9, <1>10

LEMMA CloseEndsKeeps == ASSUME IInv, CloseEnds PROVE IInv'
<1> USE Distinct DEF IInv, CloseEnds, ClosePc, processes, recorded, timers, Closing
<1>1. TypeOK'
  BY DEF TypeOK, CloseType
<1>2. LifeInv'
  BY DEF LifeInv, Dead, Spent
<1>3. CurrentInv'
  BY DEF CurrentInv
<1>4. StartInv'
  BY DEF StartInv, CloseInv
<1>5. StopInv'
  BY DEF StopInv
<1>6. CloseInv'
  BY DEF CloseInv
<1>7. RunInv'
  BY DEF RunInv, Running, CloseInv, Dead, Spent
<1>8. RecordInv'
  BY DEF RecordInv, Running, NoForgets, Superseded, Quiet, RunInv, CloseInv
<1>9. OneProcess'
  BY DEF OneProcess, Running
<1>10. SurvivorsAreRecorded'
  BY DEF SurvivorsAreRecorded, Running
<1> QED BY <1>1, <1>2, <1>3, <1>4, <1>5, <1>6, <1>7, <1>8, <1>9, <1>10

LEMMA ReopenKeeps == ASSUME IInv, Reopen PROVE IInv'
<1> USE Distinct DEF IInv, Reopen, Upset, Fresh, Open, processes, recorded, timers, Closing
<1>1. TypeOK'
  <2>1. /\ os' \in [Processes -> {"none", "alive", "killed", "gone"}]
        /\ forgets' \in [Processes -> {"no", "pending", "done"}] /\ entry' \in [Processes -> EntryType]
        /\ closed' \subseteq Processes /\ startup' \subseteq Processes /\ reaps' \subseteq Processes
        /\ late' \subseteq Processes /\ lost' \subseteq Processes /\ mine' \subseteq Processes
        /\ lateRecords' \subseteq Processes /\ unrecorded' \subseteq Processes
        /\ current' \in Processes \union {None} /\ registry' \in Processes \union {None}
    BY DEF TypeOK
  <2>2. start' \in StartType
    BY DEF StartType, Idle
  <2>3. stop' \in StopType
    BY DEF StopType, NoStop, Statuses
  <2>4. close' \in CloseType
    BY DEF CloseType, Statuses
  <2>5. revival' \in BOOLEAN /\ portRetry' \in BOOLEAN
    OBVIOUS
  <2>6. restarts' \in 0..MaxRestartRetries
    BY ServicesAssumption
  <2>7. conflicts' \in 0..MAX_PORT_CONFLICT_RETRIES
    BY ServicesAssumption
  <2>8. upsets' \in 0..MaxUpsets
    BY ServicesAssumption DEF TypeOK
  <2> QED BY <2>1, <2>2, <2>3, <2>4, <2>5, <2>6, <2>7, <2>8 DEF TypeOK
<1>2. LifeInv'
  BY DEF LifeInv, Dead
<1>3. CurrentInv'
  BY DEF CurrentInv
<1>4. StartInv'
  BY DEF StartInv, Idle
<1>5. StopInv'
  BY DEF StopInv, NoStop
<1>6. CloseInv'
  BY DEF CloseInv
<1>7. RunInv'
  BY DEF RunInv, Running, CloseInv
<1>8. RecordInv'
  BY DEF RecordInv, NoForgets, Superseded
<1>9. OneProcess'
  BY DEF OneProcess, Running
<1>10. SurvivorsAreRecorded'
  BY DEF SurvivorsAreRecorded, Running, CloseInv
<1> QED BY <1>1, <1>2, <1>3, <1>4, <1>5, <1>6, <1>7, <1>8, <1>9, <1>10

LEMMA CrashKeeps == ASSUME IInv, Crash PROVE IInv'
<1> USE Distinct DEF IInv, Crash, Upset, Fresh, Open, processes, recorded, timers, Closing
<1>p. start.pc = "records" => start.child \in mine /\ start.child \in Processes
  BY DEF TypeOK, StartInv
<1>1. TypeOK'
  <2>1. /\ os' \in [Processes -> {"none", "alive", "killed", "gone"}]
        /\ forgets' \in [Processes -> {"no", "pending", "done"}] /\ entry' \in [Processes -> EntryType]
        /\ closed' \subseteq Processes /\ startup' \subseteq Processes /\ reaps' \subseteq Processes
        /\ current' \in Processes \union {None} /\ registry' \in Processes \union {None}
    BY DEF TypeOK
  <2>2. /\ late' \subseteq Processes /\ lost' \subseteq Processes /\ mine' \subseteq Processes
        /\ lateRecords' \subseteq Processes /\ unrecorded' \subseteq Processes
    BY <1>p DEF TypeOK
  <2>3. start' \in StartType
    BY DEF StartType, Idle
  <2>4. stop' \in StopType
    BY DEF StopType, NoStop, Statuses
  <2>5. close' \in CloseType
    BY DEF CloseType, Statuses
  <2>6. revival' \in BOOLEAN /\ portRetry' \in BOOLEAN
    OBVIOUS
  <2>7. restarts' \in 0..MaxRestartRetries
    BY ServicesAssumption
  <2>8. conflicts' \in 0..MAX_PORT_CONFLICT_RETRIES
    BY ServicesAssumption
  <2>9. upsets' \in 0..MaxUpsets
    BY ServicesAssumption DEF TypeOK
  <2> QED BY <2>1, <2>2, <2>3, <2>4, <2>5, <2>6, <2>7, <2>8, <2>9 DEF TypeOK
<1>2. LifeInv'
  BY DEF LifeInv, Dead
<1>3. CurrentInv'
  BY DEF CurrentInv
<1>4. StartInv'
  BY DEF StartInv, Idle
<1>5. StopInv'
  BY DEF StopInv, NoStop
<1>6. CloseInv'
  BY DEF CloseInv, Idle, NoStop
<1>7. RunInv'
  BY DEF RunInv
<1>8. RecordInv'
  BY DEF RecordInv, NoForgets, Superseded
<1>9. OneProcess'
  BY DEF OneProcess, Running
<1>10. SurvivorsAreRecorded'
  BY DEF SurvivorsAreRecorded, Running
<1> QED BY <1>1, <1>2, <1>3, <1>4, <1>5, <1>6, <1>7, <1>8, <1>9, <1>10

LEMMA BootKeeps == ASSUME IInv, Boot PROVE IInv'
<1> USE Distinct DEF IInv, Boot, Open, Kill, processes, recorded, timers, Closing
<1>1. TypeOK'
  BY DEF TypeOK, CloseType, Statuses
<1>2. LifeInv'
  BY DEF LifeInv, Dead, CloseInv
<1>3. CurrentInv'
  BY DEF CurrentInv
<1>4. StartInv'
  BY DEF StartInv, CloseInv
<1>5. StopInv'
  BY DEF StopInv
<1>6. CloseInv'
  BY DEF CloseInv
<1>7. RunInv'
  BY DEF Running, SurvivorsAreRecorded, CloseInv, TypeOK, Kill, RunInv
<1>8. RecordInv'
  BY DEF RecordInv, NoForgets, Superseded, CloseInv
<1>9. OneProcess'
  BY DEF OneProcess, Running
<1>10. SurvivorsAreRecorded'
  BY DEF TypeOK, SurvivorsAreRecorded, Running
<1> QED BY <1>1, <1>2, <1>3, <1>4, <1>5, <1>6, <1>7, <1>8, <1>9, <1>10

LEMMA StartReapsKeeps == ASSUME IInv, StartReaps PROVE IInv'
<1> USE Distinct DEF IInv, StartReaps, Reclaimed, Forgotten, processes, recorded, timers, Closing
<1>p. start.child \in Processes /\ entry[start.child].status # "none" /\ start.child \in mine
  BY DEF TypeOK, StartInv, CurrentInv
<1>e. Reclaimed(start.child)
  BY <1>p, ReapedEffect DEF StartReaps
<1>1. TypeOK'
  BY <1>e DEF TypeOK, StartType
<1>2. LifeInv'
  BY <1>p, <1>e DEF LifeInv, Dead, Spent
<1>3. CurrentInv'
  BY <1>e DEF TypeOK, CurrentInv
<1>4. StartInv'
  BY <1>e DEF TypeOK, StartInv, Dead, Spent
<1>5. StopInv'
  BY <1>e DEF TypeOK, StopInv
<1>6. CloseInv'
  BY DEF CloseInv
<1>7. RunInv'
  BY <1>e DEF RunInv, Running, StartInv
<1>8. RecordInv'
  BY <1>e DEF RecordInv, Running, Superseded, Quiet, RunInv, StartInv, CloseInv
<1>9. OneProcess'
  BY <1>e DEF OneProcess, Running
<1>10. SurvivorsAreRecorded'
  BY <1>e DEF SurvivorsAreRecorded, Running
<1> QED BY <1>1, <1>2, <1>3, <1>4, <1>5, <1>6, <1>7, <1>8, <1>9, <1>10

LEMMA StopReapsKeeps == ASSUME IInv, StopReaps PROVE IInv'
<1> USE Distinct DEF IInv, StopReaps, Reclaimed, Forgotten, processes, recorded, timers, Closing
<1>p. stop.child \in Processes /\ entry[stop.child].status # "none" /\ stop.child \in mine
  BY DEF TypeOK, StopInv
<1>e. Reclaimed(stop.child)
  BY <1>p, ReapedEffect DEF StopReaps
<1>1. TypeOK'
  <2>1. /\ closed' \subseteq Processes /\ startup' \subseteq Processes /\ reaps' \subseteq Processes
        /\ current' \in Processes \union {None} /\ registry' \in Processes \union {None}
        /\ start' \in StartType /\ close' \in CloseType /\ revival' \in BOOLEAN /\ portRetry' \in BOOLEAN
        /\ restarts' \in 0..MaxRestartRetries /\ conflicts' \in 0..MAX_PORT_CONFLICT_RETRIES
    BY DEF TypeOK
  <2>2. os' \in [Processes -> {"none", "alive", "killed", "gone"}] /\ forgets' \in [Processes -> {"no", "pending", "done"}]
    BY <1>e DEF TypeOK
  <2>3. entry' \in [Processes -> EntryType]
    BY <1>e
  <2>4. /\ late' \subseteq Processes /\ lost' \subseteq Processes /\ mine' \subseteq Processes
        /\ lateRecords' \subseteq Processes /\ unrecorded' \subseteq Processes
    BY <1>e DEF TypeOK
  <2>5. stop' \in StopType
    BY DEF TypeOK, StopType, NoStop, Statuses
  <2>6. upsets' \in 0..MaxUpsets
    BY <1>e
  <2> QED BY <2>1, <2>2, <2>3, <2>4, <2>5, <2>6 DEF TypeOK
<1>2. LifeInv'
  BY <1>e DEF TypeOK, LifeInv, Dead, Spent
<1>3. CurrentInv'
  BY <1>e DEF TypeOK, CurrentInv
<1>4. StartInv'
  BY <1>e DEF StartInv, TypeOK, StopType, NoStop, Dead, Spent
<1>5. StopInv'
  BY <1>e DEF TypeOK, StopInv, StopType, NoStop
<1>6. CloseInv'
  BY DEF TypeOK, CloseInv, StopType, NoStop
<1>7. RunInv'
  BY <1>e DEF RunInv, Running
<1>8. RecordInv'
  BY <1>p, <1>e DEF RecordInv, Running, NoForgets, Superseded, Quiet, RunInv, StartInv, CloseInv, TypeOK, StopType, NoStop
<1>9. OneProcess'
  BY <1>e DEF OneProcess, Running
<1>10. SurvivorsAreRecorded'
  BY <1>e DEF SurvivorsAreRecorded, Running
<1> QED BY <1>1, <1>2, <1>3, <1>4, <1>5, <1>6, <1>7, <1>8, <1>9, <1>10

LEMMA ReapsKeeps == ASSUME IInv, NEW p \in Processes, Reaps(p) PROVE IInv'
<1> USE Distinct DEF IInv, Reaps, Reclaimed, processes, recorded, timers, Closing
<1>p. p \in Processes /\ entry[p].status # "none"
  BY DEF LifeInv
<1>e. Reclaimed(p)
  BY <1>p, ReapedEffect DEF Reaps
<1>1. TypeOK'
  BY <1>e DEF TypeOK
<1>2. LifeInv'
  BY <1>e DEF LifeInv, Dead, Spent
<1>3. CurrentInv'
  BY <1>e DEF TypeOK, CurrentInv
<1>4. StartInv'
  BY <1>e DEF TypeOK, StartInv, Dead, Spent
<1>5. StopInv'
  BY <1>e DEF TypeOK, StopInv
<1>6. CloseInv'
  BY <1>e DEF TypeOK, CloseInv, Dead, Spent
<1>7. RunInv'
  BY <1>e DEF RunInv, Running
<1>8. RecordInv'
  BY <1>e, StillSuperseded DEF RecordInv, Running, NoForgets, Quiet
<1>9. OneProcess'
  BY <1>e DEF OneProcess, Running
<1>10. SurvivorsAreRecorded'
  BY <1>e DEF SurvivorsAreRecorded, Running
<1> QED BY <1>1, <1>2, <1>3, <1>4, <1>5, <1>6, <1>7, <1>8, <1>9, <1>10

LEMMA ClosesKeeps == ASSUME IInv, NEW p \in Processes, Closes(p) PROVE IInv'
<1> USE Distinct DEF IInv, Closes, Forgotten, Fails, ScheduleRestart, Revives, Conflicts, processes, recorded, timers, Closing
<1>1. TypeOK'
  <2>1. /\ closed' \subseteq Processes /\ startup' \subseteq Processes /\ reaps' \subseteq Processes
        /\ late' \subseteq Processes /\ lost' \subseteq Processes /\ mine' \subseteq Processes
        /\ lateRecords' \subseteq Processes /\ unrecorded' \subseteq Processes
        /\ start' \in StartType /\ stop' \in StopType /\ close' \in CloseType /\ upsets' \in 0..MaxUpsets
    BY DEF TypeOK
  <2>2. os' \in [Processes -> {"none", "alive", "killed", "gone"}] /\ forgets' \in [Processes -> {"no", "pending", "done"}]
    BY DEF TypeOK
  <2>3. entry' \in [Processes -> EntryType]
    <3>1. entry[p].status \in Statuses
      BY DEF TypeOK, EntryType
    <3>2. CASE entry' = entry
      BY <3>2 DEF TypeOK
    <3>3. CASE entry' = [entry EXCEPT ![p] = [status |-> "failed", exited |-> TRUE]]
      BY <3>3 DEF TypeOK, EntryType, Statuses
    <3>4. CASE entry' = [entry EXCEPT ![p].exited = TRUE]
      BY <3>4, EntryExits
    <3>5. CASE entry' = [entry EXCEPT ![p] = [status |-> IF current = p /\ @.status = "stopping" THEN "stopped" ELSE @.status, exited |-> TRUE]]
      BY <3>1, <3>5 DEF TypeOK, EntryType, Statuses
    <3> QED BY <3>2, <3>3, <3>4, <3>5
  <2>4. current' \in Processes \union {None} /\ registry' \in Processes \union {None}
    BY DEF TypeOK
  <2>5. revival' \in BOOLEAN /\ portRetry' \in BOOLEAN
    BY DEF TypeOK
  <2>6. restarts' \in 0..MaxRestartRetries
    BY ServicesAssumption DEF TypeOK
  <2>7. conflicts' \in 0..MAX_PORT_CONFLICT_RETRIES
    BY ServicesAssumption DEF TypeOK
  <2> QED BY <2>1, <2>2, <2>3, <2>4, <2>5, <2>6, <2>7 DEF TypeOK
<1>2. LifeInv'
  BY DEF TypeOK, LifeInv, Dead, Spent, EntryType
<1>3. CurrentInv'
  BY DEF TypeOK, CurrentInv
<1>4. StartInv'
  BY DEF TypeOK, StartInv, Dead, Spent, NoEntry
<1>5. StopInv'
  BY DEF TypeOK, StopInv
<1>6. CloseInv'
  BY DEF TypeOK, CloseInv, Dead, Spent
<1>7. RunInv'
  BY DEF RunInv, Running
<1>8. RecordInv'
  BY DEF TypeOK, RecordInv, Running, NoForgets, Superseded, Quiet, RunInv, StartInv, StopInv, CloseInv
<1>9. OneProcess'
  BY DEF OneProcess, Running
<1>10. SurvivorsAreRecorded'
  BY DEF SurvivorsAreRecorded, Running
<1> QED BY <1>1, <1>2, <1>3, <1>4, <1>5, <1>6, <1>7, <1>8, <1>9, <1>10

LEMMA StartEntersKeeps == ASSUME IInv, StartEnters PROVE IInv'
<1> USE Distinct DEF IInv, StartEnters, Kill, Forgotten, Fails, ScheduleRestart, Revives, Conflicts, processes, recorded, timers, Closing
<1>p. start.child \in mine /\ start.child \in Processes /\ entry[start.child] = NoEntry /\ os[start.child] # "none"
  BY DEF TypeOK, StartInv, LifeInv
<1>1. TypeOK'
  <2>1. /\ late' \subseteq Processes /\ lost' \subseteq Processes /\ mine' \subseteq Processes
        /\ lateRecords' \subseteq Processes /\ unrecorded' \subseteq Processes
        /\ stop' \in StopType /\ close' \in CloseType /\ upsets' \in 0..MaxUpsets
    BY DEF TypeOK
  <2>2. os' \in [Processes -> {"none", "alive", "killed", "gone"}] /\ forgets' \in [Processes -> {"no", "pending", "done"}]
    BY DEF TypeOK
  <2>3. entry' \in [Processes -> EntryType]
    <3>1. CASE entry' = entry
      BY <3>1 DEF TypeOK
    <3>2. CASE entry' = [entry EXCEPT ![start.child].status = "starting"]
      BY <1>p, <3>2 DEF TypeOK, EntryType, Statuses
    <3>3. CASE \E s \in {"failed", "starting"} : entry' = [entry EXCEPT ![start.child] = [status |-> s, exited |-> TRUE]]
      BY <1>p, <3>3 DEF TypeOK, EntryType, Statuses
    <3> QED BY <3>1, <3>2, <3>3
  <2>4. closed' \subseteq Processes /\ startup' \subseteq Processes /\ reaps' \subseteq Processes
    BY <1>p DEF TypeOK
  <2>5. current' \in Processes \union {None} /\ registry' \in Processes \union {None}
    BY <1>p DEF TypeOK
  <2>6. start' \in StartType
    BY DEF TypeOK, StartType, Idle
  <2>7. revival' \in BOOLEAN /\ portRetry' \in BOOLEAN
    BY DEF TypeOK
  <2>8. restarts' \in 0..MaxRestartRetries
    BY ServicesAssumption DEF TypeOK
  <2>9. conflicts' \in 0..MAX_PORT_CONFLICT_RETRIES
    BY ServicesAssumption DEF TypeOK
  <2> QED BY <2>1, <2>2, <2>3, <2>4, <2>5, <2>6, <2>7, <2>8, <2>9 DEF TypeOK
<1>2. LifeInv'
  <2>1. \A q \in Processes : (os[q] = "none" => entry[q] = NoEntry /\ q \notin closed \union reaps \union mine \union late /\ forgets[q] = "no")'
    BY <1>p DEF TypeOK, LifeInv
  <2>2. \A q \in Processes : (entry[q].exited => Dead(q))'
    BY <1>p DEF TypeOK, LifeInv, Dead, NoEntry
  <2>3. \A q \in mine' : (entry[q].status \in {"failed", "stopped"} => Spent(q) \/ q \in reaps)'
    BY <1>p DEF TypeOK, LifeInv, Dead, Spent, NoEntry
  <2>4. \A q \in mine' : (forgets[q] # "no" => Spent(q))'
    BY DEF TypeOK, LifeInv, Dead, Spent
  <2>5. \A q \in mine' : (q \in closed => os[q] = "gone")'
    BY DEF TypeOK, LifeInv
  <2>6. \A q \in reaps' : entry'[q].status # "none"
    BY <1>p DEF TypeOK, LifeInv, NoEntry
  <2> QED BY <2>1, <2>2, <2>3, <2>4, <2>5, <2>6 DEF LifeInv
<1>3. CurrentInv'
  BY <1>p DEF TypeOK, CurrentInv, NoEntry
<1>4. StartInv'
  BY <1>p DEF TypeOK, StartType, Idle, StartInv, Dead, Spent
<1>5. StopInv'
  BY DEF TypeOK, StopInv, StartInv
<1>6. CloseInv'
  BY DEF CloseInv
<1>7. RunInv'
  BY DEF TypeOK, RunInv, Running, LifeInv, Idle
<1>8. RecordInv'
  BY DEF TypeOK, RecordInv, Running, NoForgets, Superseded, Quiet, RunInv, LifeInv, StartInv, CloseInv, StartType, Idle
<1>9. OneProcess'
  BY DEF TypeOK, OneProcess, Running
<1>10. SurvivorsAreRecorded'
  BY DEF TypeOK, SurvivorsAreRecorded, Running
<1> QED BY <1>1, <1>2, <1>3, <1>4, <1>5, <1>6, <1>7, <1>8, <1>9, <1>10

-----------------------------------------------------------------------------
LEMMA InitHolds == Init => IInv
<1> SUFFICES ASSUME Init PROVE IInv
  OBVIOUS
<1> USE DEF Init
<1>1. TypeOK
  <2>1. 0 \in 0..MaxRestartRetries /\ 0 \in 0..MAX_PORT_CONFLICT_RETRIES /\ 0 \in 0..MaxUpsets
    BY ServicesAssumption
  <2>2. start \in StartType /\ stop \in StopType /\ close \in CloseType
    BY DEF StartType, StopType, CloseType, Statuses, Idle, NoStop, Open
  <2>3. entry \in [Processes -> EntryType]
    BY DEF EntryType, Statuses, NoEntry
  <2> QED BY <2>1, <2>2, <2>3 DEF TypeOK
<1>2. LifeInv /\ CurrentInv
  BY DEF LifeInv, CurrentInv, NoEntry
<1>3. StartInv /\ StopInv /\ CloseInv
  BY DEF StartInv, StopInv, CloseInv, Idle, NoStop, Open
<1>4. Running = {}
  BY DEF Running
<1>5. RunInv /\ OneProcess /\ SurvivorsAreRecorded
  BY <1>4 DEF RunInv, OneProcess, SurvivorsAreRecorded
<1>6. RecordInv
  BY <1>4 DEF RecordInv, Superseded, NoForgets, Idle
<1> QED BY <1>1, <1>2, <1>3, <1>5, <1>6 DEF IInv

LEMMA StutterKeeps == ASSUME IInv, UNCHANGED vars PROVE IInv'
  BY DEF IInv, vars, processes, recorded, timers, TypeOK, LifeInv, CurrentInv, StartInv, StopInv, CloseInv, RunInv,
         RecordInv, Running, Superseded, Quiet, NoForgets, Dead, Spent, Closing, OneProcess, SurvivorsAreRecorded

LEMMA NextKeeps == ASSUME IInv, [Next]_vars PROVE IInv'
<1>1. CASE UNCHANGED vars
  BY <1>1, StutterKeeps
<1>2. CASE Start \/ Retries \/ Stop \/ Close \/ Reopen \/ Crash \/ Boot
  BY <1>2, StartKeeps, RetriesKeeps, StopKeeps, CloseKeeps, ReopenKeeps, CrashKeeps, BootKeeps
<1>3. CASE StartGoesOn \/ StartRefused \/ StartUnrecorded
  BY <1>3, StartReapsKeeps, StartForgetsKeeps, StartRecordsKeeps, StartEntersKeeps, StartWithdrawsKeeps,
     StartRefusedKeeps, StartUnrecordedKeeps DEF StartGoesOn
<1>4. CASE StopGoesOn \/ StopFails
  BY <1>4, StopKillsKeeps, StopTerminatedKeeps, StopReapsKeeps, StopEndsKeeps, StopFailsKeeps DEF StopGoesOn
<1>5. CASE CloseGoesOn \/ CloseFails
  BY <1>5, CloseStartsKeeps, CloseStopsKeeps, CloseStoppedKeeps, CloseForcesKeeps, CloseKillsKeeps,
     CloseTerminatedKeeps, CloseForgetsKeeps, CloseEndsKeeps, CloseFailsKeeps DEF CloseGoesOn
<1>6. CASE \E p \in Processes : \/ Exits(p) \/ Unlinks(p) \/ ForgetTimesOut(p) \/ LateUnlinks(p) \/ LateRecords(p)
                                \/ Reaps(p) \/ Closes(p) \/ MarkReady(p) \/ StartupTimesOut(p) \/ Spawns(p)
  BY <1>6, ExitsKeeps, UnlinksKeeps, ForgetTimesOutKeeps, LateUnlinksKeeps, LateRecordsKeeps, ReapsKeeps, ClosesKeeps,
     MarkReadyKeeps, StartupTimesOutKeeps, SpawnsKeeps
<1> QED BY <1>1, <1>2, <1>3, <1>4, <1>5, <1>6 DEF Next

LEMMA Invariance == Spec => []IInv
<1>1. IInv /\ [Next]_vars => IInv'
  BY NextKeeps
<1> QED BY <1>1, InitHolds, PTL DEF Spec

(* Every step of the executor leaves its state in its types, restarts and conflicts within their limits. *)
THEOREM TypesHold == Spec => []TypeOK
<1>1. IInv => TypeOK
  BY DEF IInv
<1> QED BY <1>1, Invariance, PTL

(* However a start, a stop, a close, the child's own exit, the timeouts and the retries interleave, one *)
(* process of the service runs at a time, for any limits of retries and any number of children, failed  *)
(* signals, failed records, reloads and crashes.                                                        *)
THEOREM OneProcessHolds == Spec => []OneProcess
<1>1. IInv => OneProcess
  BY DEF IInv
<1> QED BY <1>1, Invariance, PTL

(* A process that would survive the agent is on record for the sweep of the next boot: what deletes the *)
(* record (forgetPid) never runs beside a start that has recorded its own.                              *)
THEOREM SurvivorsAreRecordedHolds == Spec => []SurvivorsAreRecorded
<1>1. IInv => SurvivorsAreRecorded
  BY DEF IInv
<1> QED BY <1>1, Invariance, PTL

(* A closed executor has no process but one whose reap is under way, no timer and no start in flight. *)
THEOREM ClosedIsEmptyHolds == Spec => []ClosedIsEmpty
<1>1. IInv => ClosedIsEmpty
  BY Distinct DEF IInv, ClosedIsEmpty, RunInv, CloseInv, Running
<1> QED BY <1>1, Invariance, PTL
=============================================================================
