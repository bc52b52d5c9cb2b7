------------------------------ MODULE Services ------------------------------
(***************************************************************************)
(* The services plugin's executor (plugins/services/service.ts) for one    *)
(* service of one session, with the pid registry that outlives the agent   *)
(* (pid-registry.ts) and the sweep at its boot.                            *)
(*                                                                         *)
(* A start, a stop and a close each take many awaits, and the child's own  *)
(* exit, the startup timeout and two kinds of retry timer land in between. *)
(* The executor knows a process only through the entry of its service: a   *)
(* process that is alive and neither there nor in the registry runs until  *)
(* the machine is out of memory.                                           *)
(*                                                                         *)
(* A process group is one process here, alive until it exits or is killed, *)
(* and every service has a readiness condition.  Left out: ports, logs,    *)
(* the published status, pid reuse (a start time always tells it).         *)
(***************************************************************************)
EXTENDS Naturals, FiniteSets

CONSTANTS
  MaxProcesses,              \* bound: children spawned
  MAX_PORT_CONFLICT_RETRIES,
  MaxRestartRetries,         \* restartPolicy.maxRetries
  MaxUpsets                  \* bound: signals, records and deletions that fail, crashes, reloads

ASSUME ServicesAssumption ==
  /\ MAX_PORT_CONFLICT_RETRIES \in Nat /\ MaxRestartRetries \in Nat
  /\ MaxProcesses \in Nat /\ MaxUpsets \in Nat

Processes == 1..MaxProcesses
None      == 0

VARIABLES
  os,        \* what became of each process
  closed,    \* the children whose 'close' was handled, or buffered during setup
  entry,     \* RunningService, by its process
  startup,   \* children whose startup timer is armed
  current,   \* the process of services.get(type)
  registry,  \* the process on record
  forgets,   \* forgetPid of each child: "no", "pending" or "done"
  late,      \* deletions that outlived their deadline and are still to land
  reaps,     \* reapEntry calls nobody waits for
  start, stop, close,
  revival,   \* restartTimers
  portRetry, \* portConflictTimers
  restarts,  \* restartRetries
  conflicts, \* portConflictRetries
  mine,      \* children of this runtime
  lost,      \* processes that a failed signal put out of reach
  lateRecords, \* children whose record outlived its deadline and is still to land
  unrecorded,  \* processes whose record failed, or was undone by a write nobody waits for
  upsets

processes == <<os, closed, entry, startup, reaps>>
recorded  == <<registry, forgets, late, lost, lateRecords, unrecorded>>
timers    == <<revival, portRetry, restarts, conflicts>>
vars == <<processes, recorded, timers, current, start, stop, close, mine, upsets>>

NoEntry  == [status |-> "none", exited |-> FALSE]
Idle     == [pc |-> "none", child |-> None]
NoStop   == [pc |-> "none", child |-> None, from |-> "none", ok |-> TRUE]
Open     == [pc |-> "open", hard |-> FALSE, from |-> "none"]

Init ==
  /\ os = [p \in Processes |-> "none"] /\ closed = {} /\ startup = {} /\ reaps = {}
  /\ entry = [p \in Processes |-> NoEntry]
  /\ current = None /\ registry = None /\ late = {} /\ lost = {} /\ mine = {}
  /\ lateRecords = {} /\ unrecorded = {}
  /\ forgets = [p \in Processes |-> "no"]
  /\ start = Idle /\ stop = NoStop /\ close = Open
  /\ revival = FALSE /\ portRetry = FALSE /\ restarts = 0 /\ conflicts = 0
  /\ upsets = 0

Upset   == upsets < MaxUpsets /\ upsets' = upsets + 1
Closing == close.pc # "open"
Serves  == close.pc \notin {"closed", "down"}
Status  == IF current = None THEN "none" ELSE entry[current].status
Live    == {"starting", "ready"}

-----------------------------------------------------------------------------
(* Processes.  A group goes when it likes, or because it was killed. *)
Exits(p) ==
  /\ os[p] \in {"alive", "killed"}
  /\ os' = [os EXCEPT ![p] = "gone"]
  /\ UNCHANGED <<closed, entry, startup, reaps, recorded, timers, current, start, stop, close, mine, upsets>>

Kill(o, p) == IF o[p] = "alive" THEN [o EXCEPT ![p] = "killed"] ELSE o

(* forgetPid: one deletion for each child, whoever asks. *)
Forgotten(f, p) == IF f[p] = "no" THEN [f EXCEPT ![p] = "pending"] ELSE f

(* A write nobody waits for undoes the record of whatever process is on record when it lands. *)
Undoes(own) == unrecorded' = unrecorded \union ({registry} \ {None, own})

(* The deletion is of whatever is on record by then.  That of an older runtime is waited for by nobody. *)
Unlinks(p) ==
  /\ forgets[p] = "pending"
  /\ forgets' = [forgets EXCEPT ![p] = "done"]
  /\ registry' = None
  /\ IF p \in mine THEN UNCHANGED unrecorded ELSE Undoes(None)
  /\ UNCHANGED <<late, lost, lateRecords, processes, timers, current, start, stop, close, mine, upsets>>

(* withDeadline: whoever waited for the deletion fails, and the deletion lands when it lands. *)
ForgetTimesOut(p) ==
  /\ forgets[p] = "pending" /\ Upset
  /\ forgets' = [forgets EXCEPT ![p] = "no"]
  /\ late' = late \union {p}
  /\ start' = IF start.pc = "forgets" THEN Idle ELSE start
  /\ stop' = IF stop.pc \in {"forgets", "settles"} /\ stop.child = p THEN [NoStop EXCEPT !.ok = FALSE] ELSE stop
  /\ close' = IF close.pc = "forgets" /\ current = p THEN [close EXCEPT !.pc = "ends"] ELSE close
  /\ UNCHANGED <<registry, lost, lateRecords, unrecorded, processes, timers, current, mine>>

LateUnlinks(p) ==
  /\ p \in late
  /\ late' = late \ {p}
  /\ registry' = None /\ Undoes(None)
  /\ UNCHANGED <<forgets, lost, lateRecords, processes, timers, current, start, stop, close, mine, upsets>>

(* A record that outlived its deadline lands as well, over that of whatever child came next. *)
LateRecords(p) ==
  /\ p \in lateRecords
  /\ lateRecords' = lateRecords \ {p}
  /\ registry' = p /\ Undoes(p)
  /\ UNCHANGED <<forgets, late, lost, processes, timers, current, start, stop, close, mine, upsets>>

(* reapEntry, once the start time is read: the claim on the group ends unless the signal failed. *)
Reaped(p) ==
  \/ /\ entry[p].exited
     /\ UNCHANGED <<os, entry, lost, upsets>>
  \/ /\ ~entry[p].exited
     /\ os' = Kill(os, p)
     /\ entry' = [entry EXCEPT ![p].exited = TRUE]
     /\ UNCHANGED <<lost, upsets>>
  \/ /\ ~entry[p].exited /\ os[p] = "alive" /\ Upset
     /\ lost' = lost \union {p}
     /\ UNCHANGED <<os, entry>>

Reaps(p) ==
  /\ p \in reaps /\ Reaped(p)
  /\ reaps' = reaps \ {p}
  /\ UNCHANGED <<closed, startup, registry, forgets, late, lateRecords, unrecorded, timers, current, start, stop, close, mine>>

-----------------------------------------------------------------------------
(* handleClose *)
Revives == revival' = TRUE /\ restarts' = restarts + 1

(* scheduleRestart: a service that had been up for long, ready or not, gets its budget anew. *)
ScheduleRestart ==
  IF Closing THEN UNCHANGED <<revival, restarts>>
  ELSE \/ restarts < MaxRestartRetries /\ Revives
       \/ MaxRestartRetries > 0 /\ revival' = TRUE /\ restarts' = 1
       \/ restarts >= MaxRestartRetries /\ restarts' = 0 /\ UNCHANGED revival

Fails(p) ==
  /\ entry' = [entry EXCEPT ![p] = [status |-> "failed", exited |-> TRUE]]
  /\ conflicts' = 0
  /\ ScheduleRestart

(* A conflict of ports drops the entry, and a start with another port follows. *)
Conflicts == ~Closing /\ conflicts < MAX_PORT_CONFLICT_RETRIES /\ conflicts' = conflicts + 1

Closes(p) ==
  /\ os[p] = "gone" /\ p \notin closed /\ close.pc # "down"
  /\ closed' = closed \union {p}
  /\ startup' = startup \ {p}
  /\ IF entry[p].status = "none"
     THEN UNCHANGED <<entry, forgets, timers, current>>   \* bufferClose
     ELSE /\ forgets' = Forgotten(forgets, p)
          /\ \/ /\ current = p /\ entry[p].status \in Live
                /\ Fails(p)
                /\ UNCHANGED <<portRetry, current>>
             \/ /\ current = p /\ entry[p].status = "starting" /\ Conflicts
                /\ current' = None /\ portRetry' = TRUE
                /\ entry' = [entry EXCEPT ![p].exited = TRUE]
                /\ UNCHANGED <<revival, restarts>>
             \/ /\ current # p \/ entry[p].status \notin Live
                /\ entry' = [entry EXCEPT ![p] = [status |-> IF current = p /\ @.status = "stopping" THEN "stopped"
                                                            ELSE @.status, exited |-> TRUE]]
                /\ UNCHANGED <<timers, current>>
  /\ UNCHANGED <<os, reaps, registry, late, lost, lateRecords, unrecorded, start, stop, close, mine, upsets>>

MarkReady(p) ==
  /\ current = p /\ entry[p].status = "starting" /\ os[p] = "alive"
  /\ entry' = [entry EXCEPT ![p].status = "ready"]
  /\ startup' = startup \ {p} /\ conflicts' = 0
  /\ UNCHANGED <<os, closed, reaps, recorded, revival, portRetry, restarts, current, start, stop, close, mine, upsets>>

(* Seeded fault: a timeout is only logged. *)
StartupTimesOut_Logged(p) ==
  /\ p \in startup /\ close.pc # "down"
  /\ startup' = startup \ {p}
  /\ UNCHANGED <<os, closed, entry, reaps, recorded, timers, current, start, stop, close, mine, upsets>>

(* The timer runs out once, whether or not it finds its entry starting. *)
StartupTimesOut(p) ==
  /\ p \in startup /\ close.pc # "down"
  /\ startup' = startup \ {p}
  /\ IF current = p /\ entry[p].status = "starting"
     THEN entry' = [entry EXCEPT ![p].status = "failed"] /\ reaps' = reaps \union {p}
     ELSE UNCHANGED <<entry, reaps>>
  /\ UNCHANGED <<os, closed, recorded, timers, current, start, stop, close, mine, upsets>>

-----------------------------------------------------------------------------
(* start; a call while one is in flight joins it. *)
Begins ==
  /\ revival' = FALSE
  /\ start' = IF Status \in Live \union {"stopping"} THEN Idle
              ELSE IF current # None THEN [pc |-> "reaps", child |-> current]
              ELSE [pc |-> "forgets", child |-> None]

Start ==
  /\ Serves /\ ~Closing /\ start.pc = "none"
  /\ Begins
  /\ UNCHANGED <<processes, recorded, portRetry, restarts, conflicts, current, stop, close, mine, upsets>>

(* A retry timer fires. *)
Retries ==
  /\ revival \/ portRetry
  /\ ~Closing
  /\ \/ portRetry /\ portRetry' = FALSE
        /\ IF start.pc = "none" THEN Begins ELSE UNCHANGED <<start, revival>>
     \/ revival /\ UNCHANGED portRetry
        /\ IF start.pc = "none" THEN Begins ELSE revival' = FALSE /\ UNCHANGED start
  /\ UNCHANGED <<processes, recorded, restarts, conflicts, current, stop, close, mine, upsets>>

(* Seeded fault: what the new process supersedes is only forgotten. *)
StartReaps_Not ==
  /\ start.pc = "reaps"
  /\ forgets' = Forgotten(forgets, start.child)
  /\ start' = [start EXCEPT !.pc = "forgets"]
  /\ UNCHANGED <<processes, registry, late, lost, lateRecords, unrecorded, timers, current, stop, close, mine, upsets>>

(* What the new process supersedes is reclaimed and forgotten first. *)
StartReaps ==
  /\ start.pc = "reaps" /\ Reaped(start.child)
  /\ forgets' = Forgotten(forgets, start.child)
  /\ start' = [start EXCEPT !.pc = "forgets"]
  /\ UNCHANGED <<closed, startup, reaps, registry, late, lateRecords, unrecorded, timers, current, stop, close, mine>>

NoForgets == \A p \in mine : forgets[p] # "pending"

(* Seeded fault: the new process is recorded beside a deletion. *)
StartForgets_Hasty ==
  /\ start.pc = "forgets"
  /\ start' = IF Closing THEN Idle ELSE [start EXCEPT !.pc = "resolves"]
  /\ UNCHANGED <<processes, recorded, timers, current, stop, close, mine, upsets>>

StartForgets ==
  /\ start.pc = "forgets" /\ NoForgets
  /\ start' = IF Closing THEN Idle ELSE [start EXCEPT !.pc = "resolves"]
  /\ UNCHANGED <<processes, recorded, timers, current, stop, close, mine, upsets>>

(* availableWhen, the working directory, the command: any may refuse. *)
StartRefused ==
  /\ start.pc = "resolves"
  /\ start' = Idle
  /\ UNCHANGED <<processes, recorded, timers, current, stop, close, mine, upsets>>

Spawns(p) ==
  /\ start.pc = "resolves" /\ ~Closing
  /\ os[p] = "none" /\ \A q \in Processes : q < p => os[q] # "none"
  /\ os' = [os EXCEPT ![p] = "alive"]
  /\ mine' = mine \union {p}
  /\ start' = [pc |-> "records", child |-> p]
  /\ UNCHANGED <<closed, entry, startup, reaps, recorded, timers, current, stop, close, upsets>>

(* The child is on record; or it is not, and nothing says so. *)
StartRecords ==
  /\ start.pc = "records"
  /\ start' = [start EXCEPT !.pc = "enters"]
  /\ \/ registry' = start.child /\ UNCHANGED <<unrecorded, upsets>>
     \/ Upset /\ unrecorded' = unrecorded \union {start.child} /\ UNCHANGED registry
  /\ UNCHANGED <<processes, forgets, late, lost, lateRecords, timers, current, stop, close, mine>>

(* The deadline passed before it was: the child is killed, and its record lands when it lands. *)
StartUnrecorded ==
  /\ start.pc = "records" /\ Upset
  /\ os' = Kill(os, start.child)
  /\ lateRecords' = lateRecords \union {start.child}
  /\ start' = Idle
  /\ UNCHANGED <<closed, entry, startup, reaps, registry, forgets, late, lost, unrecorded, timers, current, stop, close, mine>>

(* The entry is set, unless the executor is closing; a child that exited during the setup is *)
(* dealt with as handleClose would have, and a conflict of ports starts over.               *)
StartEnters ==
  LET p == start.child
  IN  /\ start.pc = "enters"
      /\ IF Closing
         THEN /\ os' = Kill(os, p)
              /\ forgets' = Forgotten(forgets, p)
              /\ start' = [start EXCEPT !.pc = "withdraws"]
              /\ UNCHANGED <<entry, startup, current, timers>>
         ELSE IF p \notin closed
         THEN /\ current' = p
              /\ entry' = [entry EXCEPT ![p].status = "starting"]
              /\ startup' = startup \union {p}
              /\ start' = Idle
              /\ UNCHANGED <<os, forgets, timers>>
         ELSE /\ forgets' = Forgotten(forgets, p)
              /\ \/ current' = p /\ Fails(p) /\ start' = Idle /\ UNCHANGED portRetry
                 \/ current' = None /\ Conflicts /\ start' = [pc |-> "forgets", child |-> None]
                    /\ entry' = [entry EXCEPT ![p] = [status |-> "starting", exited |-> TRUE]]
                    /\ UNCHANGED <<portRetry, revival, restarts>>
              /\ UNCHANGED <<os, startup>>
      /\ UNCHANGED <<closed, reaps, registry, late, lost, lateRecords, unrecorded, stop, close, mine, upsets>>

StartWithdraws ==
  /\ start.pc = "withdraws" /\ forgets[start.child] # "pending"
  /\ start' = Idle
  /\ UNCHANGED <<processes, recorded, timers, current, stop, close, mine, upsets>>

-----------------------------------------------------------------------------
(* stop; a call while one is in flight joins it.  A restart is a stop and a start. *)
StopBegins ==
  /\ revival' = FALSE /\ restarts' = 0
  /\ IF Status \in Live
     THEN /\ stop' = [pc |-> "terminates", child |-> current, from |-> Status, ok |-> TRUE]
          /\ entry' = [entry EXCEPT ![current].status = "stopping"]
     ELSE /\ stop' = IF Status = "failed" \/ (current # None /\ revival)
                     THEN [pc |-> "reaps", child |-> current, from |-> Status, ok |-> TRUE]
                     ELSE [NoStop EXCEPT !.ok = FALSE]
          /\ UNCHANGED entry

Stop ==
  /\ Serves /\ stop.pc = "none" /\ close.pc \in {"open", "starts"}
  /\ StopBegins
  /\ UNCHANGED <<os, closed, startup, reaps, recorded, portRetry, conflicts, current, start, close, mine, upsets>>

(* terminateProcessGroup: SIGTERM, a grace period, SIGKILL. *)
StopKills ==
  /\ stop.pc = "terminates" /\ os[stop.child] = "alive"
  /\ os' = Kill(os, stop.child)
  /\ UNCHANGED <<closed, entry, startup, reaps, recorded, timers, current, start, stop, close, mine, upsets>>

StopTerminated ==
  LET p == stop.child
  IN  /\ stop.pc = "terminates" /\ os[p] = "gone"
      /\ entry' = [entry EXCEPT ![p].exited = TRUE]
      /\ forgets' = Forgotten(forgets, p)
      /\ stop' = [stop EXCEPT !.pc = "forgets"]
      /\ UNCHANGED <<os, closed, startup, reaps, registry, late, lost, lateRecords, unrecorded, timers, current, start, close, mine, upsets>>

(* The signals fail, or the group survives them: the entry is what it was. *)
StopFails ==
  LET p == stop.child
  IN  /\ stop.pc = "terminates" /\ os[p] \in {"alive", "killed"} /\ Upset
      /\ entry' = [entry EXCEPT ![p].status = IF @ = "stopping" THEN stop.from ELSE @]
      /\ stop' = [NoStop EXCEPT !.ok = FALSE]
      /\ UNCHANGED <<os, closed, startup, reaps, recorded, timers, current, start, close, mine>>

StopReaps ==
  /\ stop.pc = "reaps" /\ Reaped(stop.child)
  /\ IF entry'[stop.child].exited
     THEN forgets' = Forgotten(forgets, stop.child) /\ stop' = [stop EXCEPT !.pc = "settles"]
     ELSE stop' = [NoStop EXCEPT !.ok = FALSE] /\ UNCHANGED forgets
  /\ UNCHANGED <<closed, startup, reaps, registry, late, lateRecords, unrecorded, timers, current, start, close, mine>>

StopEnds ==
  LET p == stop.child
  IN  /\ stop.pc \in {"forgets", "settles"} /\ forgets[p] # "pending"
      /\ entry' = [entry EXCEPT ![p].status = IF stop.pc = "settles" \/ @ = "stopping" THEN "stopped" ELSE @]
      /\ stop' = NoStop
      /\ UNCHANGED <<os, closed, startup, reaps, recorded, timers, current, start, close, mine, upsets>>

-----------------------------------------------------------------------------
(* close; "hard" when the session was revoked, or a stop was under way. *)
ClosePc(pc) == close' = [close EXCEPT !.pc = pc]

Close ==
  /\ close.pc = "open"
  /\ \E hard \in BOOLEAN : close' = [close EXCEPT !.pc = "starts", !.hard = hard]
  /\ portRetry' = FALSE
  /\ UNCHANGED <<processes, recorded, revival, restarts, conflicts, current, start, stop, mine, upsets>>

(* Seeded fault: a start in flight is not waited for. *)
CloseStarts_Hasty ==
  /\ close.pc = "starts"
  /\ close' = [close EXCEPT !.pc = "stops", !.hard = @ \/ stop.pc # "none"]
  /\ portRetry' = FALSE
  /\ UNCHANGED <<processes, recorded, revival, restarts, conflicts, current, start, stop, mine, upsets>>

CloseStarts ==
  /\ close.pc = "starts" /\ start.pc = "none"
  /\ close' = [close EXCEPT !.pc = "stops", !.hard = @ \/ stop.pc # "none"]
  /\ portRetry' = FALSE
  /\ UNCHANGED <<processes, recorded, revival, restarts, conflicts, current, start, stop, mine, upsets>>

CloseStops ==
  /\ close.pc = "stops" /\ stop.pc = "none"
  /\ IF Status \notin Live \union {"stopping"} /\ ~(revival /\ Status \notin {"none", "stopped"})
     THEN ClosePc("ends") /\ UNCHANGED <<entry, stop, revival, restarts>>
     ELSE IF close.hard THEN ClosePc("forces") /\ UNCHANGED <<entry, stop, revival, restarts>>
     ELSE ClosePc("stopping") /\ StopBegins
  /\ UNCHANGED <<os, closed, startup, reaps, recorded, portRetry, conflicts, current, start, mine, upsets>>

CloseStopped ==
  /\ close.pc = "stopping" /\ stop.pc = "none"
  /\ ClosePc(IF stop.ok THEN "ends" ELSE "forces")
  /\ UNCHANGED <<processes, recorded, timers, current, start, stop, mine, upsets>>

(* forceStopForClose *)
CloseForces ==
  /\ close.pc = "forces"
  /\ close' = [close EXCEPT !.pc = "terminates", !.from = Status]
  /\ entry' = [entry EXCEPT ![current].status = "stopping"]
  /\ UNCHANGED <<os, closed, startup, reaps, recorded, timers, current, start, stop, mine, upsets>>

CloseKills ==
  /\ close.pc = "terminates" /\ os[current] = "alive"
  /\ os' = Kill(os, current)
  /\ UNCHANGED <<closed, entry, startup, reaps, recorded, timers, current, start, stop, close, mine, upsets>>

CloseTerminated ==
  /\ close.pc = "terminates" /\ os[current] = "gone"
  /\ entry' = [entry EXCEPT ![current].exited = TRUE]
  /\ forgets' = Forgotten(forgets, current)
  /\ ClosePc("forgets")
  /\ UNCHANGED <<os, closed, startup, reaps, registry, late, lost, lateRecords, unrecorded, timers, current, start, stop, mine, upsets>>

CloseFails ==
  /\ close.pc = "terminates" /\ os[current] \in {"alive", "killed"} /\ Upset
  /\ entry' = [entry EXCEPT ![current].status = IF @ = "stopping" THEN close.from ELSE @]
  /\ lost' = lost \union {current}
  /\ ClosePc("ends")
  /\ UNCHANGED <<os, closed, startup, reaps, registry, forgets, late, lateRecords, unrecorded, timers, current, start, stop, mine>>

CloseForgets ==
  /\ close.pc = "forgets" /\ forgets[current] # "pending"
  /\ entry' = [entry EXCEPT ![current].status = "stopped"]
  /\ ClosePc("ends")
  /\ UNCHANGED <<os, closed, startup, reaps, recorded, timers, current, start, stop, mine, upsets>>

CloseEnds ==
  /\ close.pc = "ends" /\ NoForgets
  /\ revival' = FALSE /\ portRetry' = FALSE
  /\ current' = None
  /\ ClosePc("closed")
  /\ UNCHANGED <<processes, recorded, restarts, conflicts, start, stop, mine, upsets>>

-----------------------------------------------------------------------------
(* The agent. *)
Fresh ==
  /\ current' = None /\ start' = Idle /\ stop' = NoStop /\ mine' = {}
  /\ revival' = FALSE /\ portRetry' = FALSE /\ restarts' = 0 /\ conflicts' = 0

(* The session is loaded again: another executor, in the agent where the old one's children *)
(* still report.                                                                            *)
Reopen ==
  /\ close.pc = "closed" /\ Upset
  /\ close' = Open
  /\ Fresh
  /\ UNCHANGED <<processes, recorded>>

Crash ==
  /\ close.pc # "down" /\ Upset
  /\ close' = [Open EXCEPT !.pc = "down"]
  /\ Fresh
  /\ reaps' = {} /\ startup' = {} /\ late' = {}
  /\ lateRecords' = {}
  /\ lost' = lost \union (reaps \ mine)
  /\ unrecorded' = IF start.pc = "records" THEN unrecorded \union {start.child} ELSE unrecorded
  /\ forgets' = [p \in Processes |-> IF forgets[p] = "pending" THEN "done" ELSE forgets[p]]
  /\ UNCHANGED <<os, closed, entry, registry>>

(* sweepOrphans, before the agent serves *)
Boot ==
  /\ close.pc = "down"
  /\ close' = Open
  /\ os' = IF registry = None THEN os ELSE Kill(os, registry)
  /\ registry' = None
  /\ closed' = {p \in Processes : os[p] # "none"}
  /\ UNCHANGED <<entry, startup, reaps, forgets, late, lost, lateRecords, unrecorded, timers, current, start, stop, mine, upsets>>

-----------------------------------------------------------------------------
StartGoesOn == StartReaps \/ StartForgets \/ StartRecords \/ StartEnters \/ StartWithdraws

StopGoesOn == StopKills \/ StopTerminated \/ StopReaps \/ StopEnds

CloseGoesOn == \/ CloseStarts \/ CloseStops \/ CloseStopped \/ CloseForces \/ CloseKills
               \/ CloseTerminated \/ CloseForgets \/ CloseEnds

Next ==
  \/ Start \/ Retries \/ Stop \/ Close \/ Reopen \/ Crash \/ Boot
  \/ StartGoesOn \/ StartRefused \/ StartUnrecorded
  \/ StopGoesOn \/ StopFails \/ CloseGoesOn \/ CloseFails
  \/ \E p \in Processes : \/ Exits(p) \/ Unlinks(p) \/ ForgetTimesOut(p) \/ LateUnlinks(p) \/ LateRecords(p)
                          \/ Reaps(p) \/ Closes(p) \/ MarkReady(p) \/ StartupTimesOut(p) \/ Spawns(p)

Spec == Init /\ [][Next]_vars

(* Steps of the executor are taken, resolvers and the registry settle, and what was killed goes. *)
(* No process has to become ready or to heed SIGTERM.                                            *)
Fairness ==
  /\ WF_vars(StartGoesOn) /\ WF_vars(StartRefused \/ \E p \in Processes : Spawns(p))
  /\ WF_vars(StopGoesOn) /\ WF_vars(CloseGoesOn)
  /\ \A p \in Processes :
       /\ WF_vars(Unlinks(p)) /\ WF_vars(Closes(p)) /\ WF_vars(Reaps(p)) /\ WF_vars(StartupTimesOut(p))
       /\ WF_vars(os[p] = "killed" /\ Exits(p))

FairSpec == Spec /\ Fairness

-----------------------------------------------------------------------------
(* Those nobody is about to kill: a reap that an older runtime left behind is not waited for, and what an *)
(* older runtime left off record nobody knows of.                                                        *)
Running == {p \in Processes : os[p] = "alive"} \ (lost \union ((reaps \union unrecorded) \ mine))

(***************************************************************************)
(* However starts, stops, exits, timeouts, retries and a close interleave, *)
(* one process of the service runs at a time: the one before it is gone or *)
(* was killed when the next is spawned.                                   *)
(***************************************************************************)
OneProcess == \A p, q \in Running : p = q

(***************************************************************************)
(* A process that would survive the agent is on record for the sweep of    *)
(* the next boot, from its start until it is gone or killed.  Excepted are *)
(* those whose own record failed, or was undone by a write that nobody     *)
(* waits for: a record or a deletion that outlived its deadline, or a      *)
(* deletion that an older runtime left under way.                          *)
(***************************************************************************)
SurvivorsAreRecorded ==
  \A p \in Running \ unrecorded : registry = p \/ (start.pc = "records" /\ start.child = p)

(***************************************************************************)
(* A close leaves nothing behind: no process, no timer, no start that      *)
(* could still spawn one.                                                  *)
(***************************************************************************)
ClosedIsEmpty ==
  close.pc = "closed" => /\ Running \subseteq reaps   \* a reap is on its way
                         /\ ~revival /\ ~portRetry /\ start.pc = "none"

(***************************************************************************)
(* A transition holds the runtime, so each comes to an end: a start, a     *)
(* stop, a close; and, as long as no signal failed, a service that never   *)
(* becomes ready.                                                          *)
(***************************************************************************)
TransitionsEnd ==
  /\ start.pc # "none" ~> start.pc = "none"
  /\ stop.pc # "none" ~> stop.pc = "none"
  /\ close.pc = "starts" ~> close.pc \in {"closed", "down"}
  /\ \A p \in Processes : entry[p].status = "starting" ~> entry[p].status # "starting" \/ current # p \/ upsets > 0
=============================================================================
