------------------------------ MODULE Workers ------------------------------
(***************************************************************************)
(* The workers plugin (plugins/workers/plugin.ts, context.ts): background  *)
(* bodies of code that outlive the call that spawned them, are paused,     *)
(* resumed and cancelled by other calls, and are stopped on a deadline and *)
(* relaunched from the log when their session moves.                       *)
(*                                                                         *)
(* What a worker is lives in the projection and changes when an event      *)
(* lands; which bodies run lives in maps of the runtime and changes at     *)
(* once.  Calls await their events in between, in the order of the store's *)
(* write queue.  A body is external: it may emit progress, may return, and *)
(* may ignore that it was stopped for as long as it likes.                 *)
(*                                                                         *)
(* Left out: commands, messages to the owning agent, worker types.         *)
(***************************************************************************)
EXTENDS Naturals, Sequences, FiniteSets

CONSTANTS
  Workers, Calls,
  Host,        \* the session itself: its load, park and close
  MAX_CONCURRENT_WORKERS,
  MaxBodies,   \* bound: runs of execute() in one runtime
  MaxUpsets    \* bound: crashes, parks and closes; one append is refused besides

ASSUME WorkersAssumption ==
  /\ Host \notin Calls
  /\ (Calls \union {Host}) \intersect (1..MaxBodies) = {}   \* who emitted an event is a call or a body
  /\ MAX_CONCURRENT_WORKERS \in Nat \ {0}
  /\ MaxBodies \in Nat /\ MaxUpsets \in Nat

Bodies  == 1..MaxBodies
Callers == Calls \union {Host}

VARIABLES
  entry,      \* the projection
  queue,      \* events handed to the store that have not landed
  running,    \* runningWorkers: the body of each worker, 0 if none
  launching,  \* pendingLaunches
  abandoned,  \* abandonedWorkers
  body,       \* the runs of this runtime
  call,
  runtime,    \* "off", "ready", "parking" or "unloading"
  todo,       \* workers the load has yet to look at
  upsets,
  refused      \* an append was refused

budgets == <<upsets, refused>>
maps == <<running, launching, abandoned>>
vars == <<entry, queue, maps, body, call, runtime, todo, budgets>>

NoEntry == [status |-> "none", kept |-> FALSE, pendingStart |-> FALSE, held |-> FALSE]
NoBody  == [worker |-> Host, pc |-> "none", active |-> FALSE, lease |-> FALSE]
NoCall  == [op |-> "none", worker |-> Host, pc |-> "idle", bodies |-> {}, exited |-> TRUE,
            seen |-> NoEntry]

Init ==
  /\ entry = [w \in Workers |-> NoEntry]
  /\ queue = <<>>
  /\ running = [w \in Workers |-> 0] /\ launching = {} /\ abandoned = {}
  /\ body = [b \in Bodies |-> NoBody]
  /\ call = [c \in Callers |-> NoCall]
  /\ runtime = "ready" /\ todo = {}
  /\ upsets = 0 /\ refused = FALSE

Upset == upsets < MaxUpsets /\ upsets' = upsets + 1 /\ UNCHANGED refused

Listed   == {w \in Workers : running[w] # 0}
Waits(x) == \E i \in 1..Len(queue) : queue[i].by = x
Emits(type, w, x) == queue' = Append(queue, [type |-> type, worker |-> w, by |-> x])

At(c, pc)   == call[c].pc = pc
Goes(c, pc) == call' = [call EXCEPT ![c].pc = pc]
Done(c)     == call' = [call EXCEPT ![c] = NoCall]

Serves == runtime = "ready" /\ At(Host, "idle")

-----------------------------------------------------------------------------
(* The reducer. *)
Final == {"ended", "cancelled"}   \* worker_completed and worker_failed end it alike

Applied(e, type) ==
  CASE type = "started"   -> [NoEntry EXCEPT !.status = "running", !.kept = TRUE, !.pendingStart = TRUE]
    [] type = "execution" -> [e EXCEPT !.pendingStart = FALSE]
    [] type = "sub"       -> e
    [] type = "running"   -> [e EXCEPT !.status = "running", !.held = FALSE]
    [] type = "paused"    -> [e EXCEPT !.status = "paused", !.held = FALSE]
    [] type = "held"      -> [e EXCEPT !.status = "paused", !.held = TRUE]
    [] OTHER              -> [NoEntry EXCEPT !.status = type]

Commit ==
  /\ queue # <<>>
  /\ entry' = [entry EXCEPT ![Head(queue).worker] = Applied(@, Head(queue).type)]
  /\ queue' = Tail(queue)
  /\ UNCHANGED <<maps, body, call, runtime, todo, budgets>>

(* The runtime ends: whatever its maps held goes with it, and bodies that still run can neither *)
(* emit nor touch files.                                                                       *)
GoesOff ==
  /\ runtime' = "off" /\ todo' = {} /\ queue' = <<>>
  /\ running' = [w \in Workers |-> 0] /\ launching' = {} /\ abandoned' = {}
  /\ body' = [b \in Bodies |-> NoBody]
  /\ call' = [c \in Callers |-> NoCall]

(* The store refuses an event: the call that emitted it fails, a body whose own event it was *)
(* reports a failure instead, a load gives up.                                               *)
Refuse ==
  /\ queue # <<>> /\ ~refused /\ refused' = TRUE
  /\ LET i == Head(queue)
     IN  IF i.by = Host THEN GoesOff
         ELSE IF i.by \in Calls
         THEN /\ queue' = Tail(queue)
              /\ Done(i.by)
              /\ launching' = IF call[i.by].op = "resume" THEN launching \ {i.worker} ELSE launching
              /\ UNCHANGED <<running, abandoned, body, runtime, todo>>
         ELSE /\ LET again == i.type # "sub" /\ body[i.by].pc # "failing" /\ body[i.by].active
                 IN  /\ queue' = IF again THEN Append(Tail(queue), [i EXCEPT !.type = "ended"]) ELSE Tail(queue)
                     /\ body' = IF i.type = "sub" THEN body
                                ELSE [body EXCEPT ![i.by].pc = IF again THEN "failing" ELSE "draining"]
              /\ UNCHANGED <<maps, call, runtime, todo>>
  /\ UNCHANGED <<entry, upsets>>

-----------------------------------------------------------------------------
(* launchWorker *)
Room == Cardinality(Listed) < MAX_CONCURRENT_WORKERS

Starts(w, e) ==
  \E b \in Bodies :
    /\ body[b].pc = "none" /\ \A o \in Bodies : o < b => body[o].pc # "none"
    /\ body' = [body EXCEPT ![b] = [worker |-> w, pc |-> IF e.pendingStart THEN "starting" ELSE "executing",
                                   active |-> TRUE, lease |-> TRUE]]
    /\ running' = [running EXCEPT ![w] = b]
    /\ IF e.pendingStart THEN Emits("execution", w, b) ELSE UNCHANGED queue

(* A call whose event has landed launches the worker; where it may not, the projection is put right. *)
Launches(c) ==
  LET w == call[c].worker  resume == call[c].op = "resume"
  IN  /\ At(c, "launch") /\ ~Waits(c)
      /\ IF runtime = "parking"
         THEN /\ Done(c)
              /\ launching' = launching \ {w}
              /\ UNCHANGED <<queue, running, body>>
         ELSE IF runtime = "ready" /\ Room
         THEN /\ Starts(w, call[c].seen)
              /\ Done(c)
              /\ launching' = launching \ {w}
         ELSE /\ Emits(IF ~resume THEN "ended" ELSE IF call[c].seen.held THEN "held" ELSE "paused", w, c)
              /\ Goes(c, "answer")
              /\ UNCHANGED <<running, body, launching>>
      /\ UNCHANGED <<entry, abandoned, runtime, todo, budgets>>

Answers(c) ==
  /\ At(c, "answer") /\ ~Waits(c)
  /\ Done(c)
  /\ launching' = IF call[c].op = "resume" THEN launching \ {call[c].worker} ELSE launching
  /\ UNCHANGED <<entry, queue, running, abandoned, body, runtime, todo, budgets>>

Spawn(c, w) ==
  /\ At(c, "idle") /\ Serves /\ entry[w].status = "none" /\ Room
  /\ \A d \in Calls : At(d, "launch") => call[d].worker # w   \* a new worker has an id of its own
  /\ Emits("started", w, c)
  /\ call' = [call EXCEPT ![c] = [NoCall EXCEPT !.op = "spawn", !.worker = w, !.pc = "launch",
                                               !.seen = Applied(NoEntry, "started")]]
  /\ UNCHANGED <<entry, maps, body, runtime, todo, budgets>>

Resumable(w) ==
  /\ entry[w].status = "paused" /\ entry[w].kept
  /\ running[w] = 0 /\ w \notin abandoned
  /\ Cardinality(Listed) + Cardinality(launching) < MAX_CONCURRENT_WORKERS

Claim(c, w) ==
  /\ launching' = launching \union {w}
  /\ Emits("running", w, c)
  /\ call' = [call EXCEPT ![c] = [NoCall EXCEPT !.op = "resume", !.worker = w, !.pc = "launch",
                                               !.seen = entry[w]]]

(* Seeded fault: the projection alone decides; a body that ignored its stop is not looked at. *)
Resume_BesideBody(c, w) ==
  /\ At(c, "idle") /\ Serves /\ entry[w].status = "paused" /\ entry[w].kept /\ w \notin launching
  /\ Cardinality(Listed) + Cardinality(launching) < MAX_CONCURRENT_WORKERS
  /\ Claim(c, w)
  /\ UNCHANGED <<entry, running, abandoned, body, runtime, todo, budgets>>

(* relaunchPausedWorker, for resume and for the release of a hold *)
Resume(c, w) ==
  /\ At(c, "idle") /\ Serves /\ Resumable(w) /\ w \notin launching
  /\ Claim(c, w)
  /\ UNCHANGED <<entry, running, abandoned, body, runtime, todo, budgets>>

-----------------------------------------------------------------------------
(* stopWorkers, for cancel, pause, park and close *)
Stops(c, op, w, S) ==
  /\ body' = [b \in Bodies |-> IF b \in S THEN [body[b] EXCEPT !.active = FALSE] ELSE body[b]]
  /\ call' = [call EXCEPT ![c] = [NoCall EXCEPT !.op = op, !.worker = w, !.pc = "stopping", !.bodies = S]]

Cancel(c, w) ==
  /\ At(c, "idle") /\ Serves /\ entry[w].status \in {"running", "paused"}
  /\ IF running[w] # 0 THEN Stops(c, "cancelled", w, {running[w]}) /\ UNCHANGED queue
     ELSE /\ Emits("cancelled", w, c)
          /\ call' = [call EXCEPT ![c] = [NoCall EXCEPT !.op = "cancelled", !.worker = w, !.pc = "answer"]]
          /\ UNCHANGED body
  /\ UNCHANGED <<entry, maps, runtime, todo, budgets>>

Pause(c, w) ==
  /\ At(c, "idle") /\ Serves /\ entry[w].status = "running" /\ running[w] # 0
  /\ Stops(c, "paused", w, {running[w]})
  /\ UNCHANGED <<entry, queue, maps, runtime, todo, budgets>>

Gone(S) == \A b \in S : body[b].pc = "gone"

(* Its bodies returned, or the deadline passed ... *)
StopWaits(c) ==
  /\ At(c, "stopping")
  /\ call' = [call EXCEPT ![c].pc = "effects", ![c].exited = Gone(call[c].bodies)]
  /\ UNCHANGED <<entry, queue, maps, body, runtime, todo, budgets>>

Released(S) == [b \in Bodies |-> IF b \in S THEN [body[b] EXCEPT !.lease = FALSE] ELSE body[b]]

(* Seeded fault: leases are taken back only where both deadlines passed. *)
StopEnds_Lenient(c) ==
  LET S == call[c].bodies
  IN  /\ At(c, "effects")
      /\ body' = IF call[c].exited \/ \A b \in S : ~Waits(b) THEN body ELSE Released(S)
      /\ abandoned' = IF call[c].exited THEN abandoned
                      ELSE abandoned \union {body[b].worker : b \in {d \in S : body[d].pc # "gone"}}
      /\ running' = [w \in Workers |-> IF running[w] \in S THEN 0 ELSE running[w]]
      /\ IF c = Host THEN Goes(c, "stopped") /\ UNCHANGED queue
         ELSE Goes(c, "answer") /\ Emits(call[c].op, call[c].worker, c)
      /\ UNCHANGED <<entry, launching, runtime, todo, budgets>>

(* ... then its effects drained, or their deadline passed: leases are given back, and a body *)
(* that is still running is remembered.                                                      *)
StopEnds(c) ==
  LET S == call[c].bodies
  IN  /\ At(c, "effects")
      /\ body' = IF call[c].exited /\ \A b \in S : ~Waits(b) THEN body ELSE Released(S)
      /\ abandoned' = IF call[c].exited THEN abandoned
                      ELSE abandoned \union {body[b].worker : b \in {d \in S : body[d].pc # "gone"}}
      /\ running' = [w \in Workers |-> IF running[w] \in S THEN 0 ELSE running[w]]
      /\ IF c = Host THEN Goes(c, "stopped") /\ UNCHANGED queue
         ELSE Goes(c, "answer") /\ Emits(call[c].op, call[c].worker, c)
      /\ UNCHANGED <<entry, launching, runtime, todo, budgets>>

-----------------------------------------------------------------------------
(* executeWorker: the code around a body. *)
Enters(b) ==
  /\ body[b].pc = "starting" /\ ~Waits(b)
  /\ body' = [body EXCEPT ![b].pc = IF body[b].active THEN "executing" ELSE "draining"]
  /\ UNCHANGED <<entry, queue, maps, call, runtime, todo, budgets>>

(* A progress event; the body need not await it before it returns. *)
Progresses(b) ==
  /\ body[b].pc = "executing" /\ body[b].active /\ ~Waits(b)
  /\ Emits("sub", body[b].worker, b)
  /\ UNCHANGED <<entry, maps, body, call, runtime, todo, budgets>>

(* It returns or throws: a run that was not stopped will say so ... *)
Returns(b) ==
  /\ body[b].pc = "executing"
  /\ body' = [body EXCEPT ![b].pc = IF body[b].active THEN "returned" ELSE "draining"]
  /\ UNCHANGED <<entry, queue, maps, call, runtime, todo, budgets>>

(* ... once the progress it emitted has settled, stopped meanwhile or not. *)
Reports(b) ==
  /\ body[b].pc = "returned" /\ ~Waits(b)
  /\ Emits("ended", body[b].worker, b)
  /\ body' = [body EXCEPT ![b].pc = "finishing"]
  /\ UNCHANGED <<entry, maps, call, runtime, todo, budgets>>

Finishes(b) ==
  /\ body[b].pc \in {"finishing", "failing"} /\ ~Waits(b)
  /\ body' = [body EXCEPT ![b].pc = "draining"]
  /\ UNCHANGED <<entry, queue, maps, call, runtime, todo, budgets>>

(* Its effects drained, or the deadline passed. *)
Ends(b) ==
  /\ body[b].pc = "draining"
  /\ body' = [body EXCEPT ![b] = [NoBody EXCEPT !.pc = "gone"]]
  /\ running' = [w \in Workers |-> IF running[w] = b THEN 0 ELSE running[w]]
  /\ abandoned' = abandoned \ {body[b].worker}
  /\ UNCHANGED <<entry, queue, launching, call, runtime, todo, budgets>>

-----------------------------------------------------------------------------
(* The session. *)
ParkBegins ==
  /\ Serves /\ Upset
  /\ runtime' = "parking"
  /\ call' = [call EXCEPT ![Host] = [NoCall EXCEPT !.op = "park", !.pc = "awaiting",
                                                  !.bodies = {running[w] : w \in Listed}]]
  /\ UNCHANGED <<entry, queue, maps, body, todo>>

(* onSessionPark: the bodies may finish; those that outlive the drain are stopped. *)
ParkWaits ==
  LET S == call[Host].bodies \intersect {running[w] : w \in Listed}
  IN  /\ At(Host, "awaiting")
      /\ IF Gone(call[Host].bodies) THEN Goes(Host, "stopped") /\ UNCHANGED body
         ELSE Stops(Host, "park", call[Host].worker, S)
      /\ UNCHANGED <<entry, queue, maps, runtime, todo, budgets>>

(* onSessionClose, when the session is closed, evicted or disposed of *)
CloseBegins ==
  /\ Serves /\ Upset
  /\ runtime' = "unloading"
  /\ Stops(Host, "close", call[Host].worker, {running[w] : w \in Listed})
  /\ UNCHANGED <<entry, queue, maps, todo>>

(* A park waits for every lease and call, a close does not. *)
Leaves ==
  /\ At(Host, "stopped") /\ queue = <<>>
  /\ runtime = "parking" => /\ \A b \in Bodies : ~body[b].lease
                            /\ \A c \in Calls : At(c, "idle")
  /\ GoesOff
  /\ UNCHANGED <<entry, budgets>>

Crash == runtime # "off" /\ Upset /\ GoesOff /\ UNCHANGED entry

(* A load relaunches what was running, or holds it. *)
LoadBegins ==
  /\ runtime = "off"
  /\ runtime' = "ready"
  /\ todo' = {w \in Workers : entry[w].status = "running" /\ entry[w].kept}
  /\ \E op \in {"load", "hold"} : call' = [call EXCEPT ![Host] = [NoCall EXCEPT !.op = op, !.pc = "loading"]]
  /\ UNCHANGED <<entry, queue, maps, body, budgets>>

(* Seeded fault: a worker that a hold keeps down is passed over. *)
LoadLaunches_Skips(w) ==
  /\ At(Host, "loading") /\ w \in todo /\ ~Waits(Host)
  /\ todo' = todo \ {w}
  /\ IF call[Host].op = "hold" THEN UNCHANGED <<queue, running, body>>
     ELSE IF ~Room THEN Emits("paused", w, Host) /\ UNCHANGED <<running, body>>
     ELSE Starts(w, entry[w])
  /\ UNCHANGED <<entry, launching, abandoned, call, runtime, budgets>>

LoadLaunches(w) ==
  /\ At(Host, "loading") /\ w \in todo /\ ~Waits(Host)
  /\ todo' = todo \ {w}
  /\ IF call[Host].op = "hold" THEN Emits("held", w, Host) /\ UNCHANGED <<running, body>>
     ELSE IF ~Room THEN Emits("paused", w, Host) /\ UNCHANGED <<running, body>>
     ELSE Starts(w, entry[w])
  /\ UNCHANGED <<entry, launching, abandoned, call, runtime, budgets>>

LoadEnds ==
  /\ At(Host, "loading") /\ todo = {} /\ ~Waits(Host)
  /\ call' = [call EXCEPT ![Host] = NoCall]
  /\ UNCHANGED <<entry, queue, maps, body, runtime, todo, budgets>>

-----------------------------------------------------------------------------
Surrounds(b) == Enters(b) \/ Reports(b) \/ Finishes(b) \/ Ends(b)

Continues(c) == StopWaits(c) \/ StopEnds(c)

Loads == (\E w \in Workers : LoadLaunches(w)) \/ LoadEnds

Next ==
  \/ Commit \/ Refuse
  \/ \E c \in Calls : Launches(c) \/ Answers(c)
                      \/ \E w \in Workers : Spawn(c, w) \/ Resume(c, w) \/ Cancel(c, w) \/ Pause(c, w)
  \/ \E c \in Callers : Continues(c)
  \/ \E b \in Bodies : Surrounds(b) \/ Progresses(b) \/ Returns(b)
  \/ ParkBegins \/ ParkWaits \/ CloseBegins \/ Leaves \/ Crash \/ LoadBegins \/ Loads

Spec == Init /\ [][Next]_vars

(* The store settles what it is given, deadlines pass, loads end.  No body has to return. *)
Fairness ==
  /\ WF_vars(Commit) /\ WF_vars(ParkWaits) /\ WF_vars(Leaves) /\ WF_vars(Loads)
  /\ \A c \in Calls : WF_vars(Launches(c) \/ Answers(c))
  /\ \A c \in Callers : WF_vars(Continues(c))
  /\ \A b \in Bodies : WF_vars(Surrounds(b))

FairSpec == Spec /\ Fairness

-----------------------------------------------------------------------------
Statuses == {"none", "running", "paused"} \union Final

EntryType == [status : Statuses, kept : BOOLEAN, pendingStart : BOOLEAN, held : BOOLEAN]

Event == [type : {"started", "execution", "sub", "running", "paused", "held"} \union Final,
          worker : Workers, by : Callers \union Bodies]

BodyType == [worker : Workers \union {Host}, active : BOOLEAN, lease : BOOLEAN,
             pc : {"none", "starting", "executing", "returned", "finishing", "failing", "draining", "gone"}]

CallType == [op : {"none", "spawn", "resume", "cancelled", "paused", "park", "close", "load", "hold"},
             worker : Workers \union {Host},
             pc : {"idle", "launch", "answer", "awaiting", "stopping", "effects", "stopped", "loading"},
             bodies : SUBSET Bodies, exited : BOOLEAN, seen : EntryType]

TypeOK ==
  /\ entry \in [Workers -> EntryType]
  /\ queue \in Seq(Event)
  /\ running \in [Workers -> Bodies \union {0}]
  /\ launching \subseteq Workers /\ abandoned \subseteq Workers
  /\ body \in [Bodies -> BodyType]
  /\ call \in [Callers -> CallType]
  /\ runtime \in {"off", "ready", "parking", "unloading"}
  /\ todo \subseteq Workers /\ upsets \in 0..MaxUpsets /\ refused \in BOOLEAN

(***************************************************************************)
(* A worker's execute() never runs twice at once in a runtime, not beside  *)
(* one that ignored its stop either; and a run that was not stopped is the *)
(* listed one, so that a pause, a cancel or a close finds it.              *)
(***************************************************************************)
Runs(b) == body[b].pc \in {"starting", "executing", "returned", "finishing", "failing"}

OneRunPerWorker ==
  /\ \A b, d \in Bodies : Runs(b) /\ Runs(d) /\ body[b].worker = body[d].worker => b = d
  /\ \A b \in Bodies : Runs(b) /\ body[b].active => running[body[b].worker] = b

(***************************************************************************)
(* The projection is truthful once everything has landed: a worker it      *)
(* calls running, with what a relaunch needs, has a run, whatever refused  *)
(* to launch it, as long as no append was refused.                         *)
(***************************************************************************)
AtRest == Serves /\ queue = <<>> /\ \A c \in Calls : At(c, "idle")

RunningHasRun ==
  AtRest /\ ~refused => \A w \in Workers : entry[w].status = "running" /\ entry[w].kept => running[w] # 0

(***************************************************************************)
(* A worker that ignores its stop does not pin the runtime: a stopped run  *)
(* holds a lease only while a call with a deadline is still at it, or it   *)
(* returned and gives the lease back itself.                               *)
(***************************************************************************)
StoppedLetsGo ==
  \A b \in Bodies :
    body[b].lease /\ ~body[b].active =>
      \/ body[b].pc = "draining"
      \/ \E c \in Callers : call[c].pc \in {"stopping", "effects"} /\ b \in call[c].bodies

(***************************************************************************)
(* The result of a worker stays: nothing overwrites a worker that ended.   *)
(***************************************************************************)
ResultIsKept ==
  [][\A w \in Workers : entry[w].status = "ended" => entry'[w].status = "ended"]_vars
=============================================================================
