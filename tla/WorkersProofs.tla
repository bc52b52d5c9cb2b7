--------------------------- MODULE WorkersProofs ---------------------------
(***************************************************************************)
(* That a worker never runs twice in a runtime, that a stopped run lets go *)
(* of its lease, and that a worker called running has a run, for every set *)
(* of workers and calls and any number of runs, parks and closes.          *)
(*                                                                         *)
(* The claim a resume takes on pendingLaunches keeps two launches of one   *)
(* worker apart, the projection keeps a launch apart from a run that       *)
(* already exists, and the queue ties each event to the call, load or run  *)
(* that awaits it: IInv says so, and every action keeps it.  The last part *)
(* adds what is still on its way for a worker the projection calls running *)
(* (TruthInv).                                                             *)
(***************************************************************************)
EXTENDS Workers, TLAPS

(* A run that still has code of the plugin around it. *)
Live(b) == body[b].pc \notin {"none", "gone"}

(* It will start the worker, or holds a claim on it. *)
Claims(c) == call[c].pc = "launch" \/ (call[c].pc = "answer" /\ call[c].op = "resume")

Of(c) == call[c].worker

(* What is in the queue, and who awaits it: a call its one event, a run its one lifecycle event. *)
CallEvents ==
  \A i \in 1..Len(queue) : queue[i].by \in Calls =>
    /\ queue[i].worker = Of(queue[i].by)
    /\ call[queue[i].by].pc \in {"launch", "answer"}
    /\ queue[i].type # "sub"
    /\ queue[i].type \in {"paused", "held"} =>
         At(queue[i].by, "answer") /\ call[queue[i].by].op \in {"resume", "paused"}
HostEvents == \A i \in 1..Len(queue) : queue[i].by = Host => At(Host, "loading") /\ queue[i].type # "sub"
BodyEvents ==
  \A i \in 1..Len(queue) : queue[i].by \in Bodies =>
    \/ queue[i].type = "sub"
    \/ queue[i].type \in {"execution", "ended"} /\ body[queue[i].by].pc \in {"starting", "finishing", "failing"}
OneEvent ==
  \A i, j \in 1..Len(queue) :
    queue[i].by = queue[j].by /\ queue[i].type # "sub" /\ queue[j].type # "sub" => i = j

QueueInv == CallEvents /\ HostEvents /\ BodyEvents /\ OneEvent

(* What a call is at, and what the projection says of its worker meanwhile. *)
CallShape ==
  \A c \in Calls : /\ ~At(c, "idle") => Of(c) \in Workers
                   /\ call[c].pc \in {"idle", "launch", "answer", "stopping", "effects"}
                   /\ call[c].op \in {"none", "spawn", "resume", "cancelled", "paused"}
                   /\ At(c, "launch") => call[c].op \in {"spawn", "resume"}
                   /\ call[c].op \in {"spawn", "resume"} => call[c].pc \in {"launch", "answer"}
                   /\ At(c, "idle") <=> call[c].op = "none"

KnownInv == \A c \in Calls : call[c].op \in {"resume", "paused", "cancelled"} => entry[Of(c)].status # "none"

Spawning(c) == call[c].op = "spawn" /\ At(c, "launch")

SpawnInv ==
  /\ \A c \in Calls : Spawning(c) => entry[Of(c)].status # "paused"
  /\ \A c \in Calls : Spawning(c) /\ entry[Of(c)].status = "none" =>
       \E i \in 1..Len(queue) : queue[i].by = c /\ queue[i].type = "started"
  /\ \A c, d \in Calls : Spawning(c) /\ call[d].op \in {"resume", "paused"} => Of(d) # Of(c)

ClaimInv ==
  /\ \A c \in Calls : call[c].op = "resume" => Of(c) \in launching
  /\ \A c, d \in Calls : Claims(c) /\ Claims(d) /\ Of(c) = Of(d) => c = d

(* A runtime that is off holds nothing; a load runs alone. *)
HostInv ==
  /\ call[Host].pc \notin {"launch", "answer"}
  /\ runtime = "off" => /\ queue = <<>>
                        /\ \A b \in Bodies : body[b] = NoBody
                        /\ \A c \in Callers : call[c] = NoCall
  /\ At(Host, "loading") => /\ runtime = "ready"
                            /\ \A c \in Calls : At(c, "idle")
  /\ todo # {} => At(Host, "loading")
  /\ \A w \in todo : entry[w].status # "none"

(* Every run is of a worker the projection knows, is the only one of that worker, and is found in *)
(* one of the maps; a run that was not stopped is the listed one.                                 *)
KnownRuns    == \A b \in Bodies : Live(b) => body[b].worker \in Workers /\ entry[body[b].worker].status # "none"
OneRun       == \A b, d \in Bodies : Live(b) /\ Live(d) /\ body[b].worker = body[d].worker => b = d
RunsFound    == \A b \in Bodies : Live(b) => running[body[b].worker] = b \/ body[b].worker \in abandoned
ListedRuns   == \A w \in Workers : running[w] # 0 => Live(running[w]) /\ body[running[w]].worker = w
ActiveListed == \A b \in Bodies : Live(b) /\ body[b].active => running[body[b].worker] = b

BodyInv == KnownRuns /\ OneRun /\ RunsFound /\ ListedRuns /\ ActiveListed

(* What is about to be launched has no run. *)
LeasesLive  == \A b \in Bodies : ~Live(b) => ~body[b].lease
LaunchApart == \A c \in Calls, b \in Bodies : At(c, "launch") /\ Live(b) => body[b].worker # Of(c)
TodoApart   == \A b \in Bodies : Live(b) => body[b].worker \notin todo

ApartInv == LeasesLive /\ LaunchApart /\ TodoApart

(* What a call stops are runs, and they stay stopped. *)
StopsRuns  == \A c \in Callers : call[c].pc \in {"stopping", "effects"} =>
                \A b \in call[c].bodies : ~body[b].active /\ body[b].pc # "none"
AwaitsRuns == At(Host, "awaiting") => \A b \in call[Host].bodies : body[b].pc # "none"
ExitedGone == \A c \in Callers : At(c, "effects") /\ call[c].exited => Gone(call[c].bodies)

StopInv == StopsRuns /\ AwaitsRuns /\ ExitedGone

IInv ==
  /\ TypeOK
  /\ QueueInv
  /\ CallShape /\ KnownInv /\ SpawnInv /\ ClaimInv
  /\ HostInv
  /\ BodyInv /\ ApartInv /\ StopInv
  /\ StoppedLetsGo

-----------------------------------------------------------------------------
(* Sequences, actors and null records. *)

LEMMA Appended ==
  ASSUME NEW S, NEW s \in Seq(S), NEW e \in S
  PROVE  /\ Append(s, e) \in Seq(S)
         /\ \A i \in 1..Len(Append(s, e)) : (i = Len(Append(s, e)) /\ Append(s, e)[i] = e) \/ (i \in 1..Len(s) /\ Append(s, e)[i] = s[i])
         /\ \A i \in 1..Len(s) : i \in 1..Len(Append(s, e)) /\ Append(s, e)[i] = s[i]
         /\ Len(s) + 1 \in 1..Len(Append(s, e)) /\ Append(s, e)[Len(s) + 1] = e
  OBVIOUS

LEMMA Popped ==
  ASSUME NEW S, NEW s \in Seq(S), s # <<>>
  PROVE  /\ Tail(s) \in Seq(S) /\ Head(s) \in S
         /\ 1 \in 1..Len(s) /\ Head(s) = s[1]
         /\ \A i \in 1..Len(Tail(s)) : i + 1 \in 1..Len(s) /\ Tail(s)[i] = s[i + 1]
         /\ \A i \in 1..Len(s) : i = 1 \/ (i - 1 \in 1..Len(Tail(s)) /\ Tail(s)[i - 1] = s[i])
  OBVIOUS

LEMMA Actors == Host \notin Calls /\ \A c \in Callers : c \notin Bodies
  BY WorkersAssumption DEF Callers, Bodies

EventTypes == {"started", "execution", "sub", "running", "paused", "held", "ended", "cancelled"}

LEMMA Nulls == NoEntry \in EntryType /\ NoBody \in BodyType /\ NoCall \in CallType
  BY DEF NoEntry, NoBody, NoCall, EntryType, BodyType, CallType, Statuses, Final

LEMMA StopsBodies == ASSUME TypeOK PROVE \A c \in Callers : call[c].bodies \subseteq Bodies
  BY DEF TypeOK, CallType

LEMMA AppliedType ==
  ASSUME NEW e \in EntryType, NEW type \in EventTypes
  PROVE  /\ Applied(e, type) \in EntryType
         /\ Applied(e, type).status = "none" => e.status = "none" /\ type \in {"execution", "sub"}
         /\ Applied(e, type).status = "paused" => type \in {"paused", "held"} \/ (e.status = "paused" /\ type \in {"execution", "sub"})
<1>1. CASE type = "started"   BY <1>1 DEF Applied, EntryType, NoEntry, Statuses, Final
<1>2. CASE type = "execution" BY <1>2 DEF Applied, EntryType, NoEntry, Statuses, Final
<1>3. CASE type = "sub"       BY <1>3 DEF Applied, EntryType, NoEntry, Statuses, Final
<1>4. CASE type = "running"
  <2>1. Applied(e, type) = [e EXCEPT !.status = "running", !.held = FALSE]
    BY <1>4 DEF Applied
  <2> QED BY <2>1, <1>4 DEF EntryType, Statuses
<1>5. CASE type = "paused"
  <2>1. Applied(e, type) = [e EXCEPT !.status = "paused", !.held = FALSE]
    BY <1>5 DEF Applied
  <2>2. "paused" \in Statuses
    BY DEF Statuses
  <2>3. Applied(e, type) \in EntryType /\ Applied(e, type).status = "paused"
    BY <2>1, <2>2 DEF EntryType
  <2> QED BY <2>3, <1>5
<1>6. CASE type = "held"
  <2>1. Applied(e, type) = [e EXCEPT !.status = "paused", !.held = TRUE]
    BY <1>6 DEF Applied
  <2>2. "paused" \in Statuses
    BY DEF Statuses
  <2>3. Applied(e, type) \in EntryType /\ Applied(e, type).status = "paused"
    BY <2>1, <2>2 DEF EntryType
  <2> QED BY <2>3, <1>6
<1>7. CASE type \in {"ended", "cancelled"} BY <1>7 DEF Applied, EntryType, NoEntry, Statuses, Final
<1> QED BY <1>1, <1>2, <1>3, <1>4, <1>5, <1>6, <1>7 DEF EventTypes

-----------------------------------------------------------------------------
(* What the shared operators do. *)

LEMMA EmitsEffect ==
  ASSUME TypeOK, NEW type \in EventTypes, NEW w \in Workers, NEW x \in Callers \union Bodies,
         Emits(type, w, x)
  PROVE  /\ queue' \in Seq(Event)
         /\ \A i \in 1..Len(queue') :
              \/ i = Len(queue') /\ queue'[i].type = type /\ queue'[i].worker = w /\ queue'[i].by = x
              \/ i \in 1..Len(queue) /\ queue'[i] = queue[i]
         /\ \A i \in 1..Len(queue) : i \in 1..Len(queue') /\ queue'[i] = queue[i]
         /\ \E i \in 1..Len(queue') : queue'[i].by = x /\ queue'[i].type = type
<1> DEFINE e == [type |-> type, worker |-> w, by |-> x]
<1>1. e \in Event
  BY DEF Event, EventTypes, Final
<1>2. queue' = Append(queue, e) /\ queue \in Seq(Event)
  BY DEF Emits, TypeOK
<1>3. e.type = type /\ e.worker = w /\ e.by = x
  OBVIOUS
<1> QED BY <1>1, <1>2, <1>3, Appended

LEMMA CallEffect ==
  ASSUME TypeOK, NEW c \in Callers, NEW r \in CallType, call' = [call EXCEPT ![c] = r]
  PROVE  /\ call' \in [Callers -> CallType]
         /\ call'[c] = r
         /\ \A d \in Callers : d # c => call'[d] = call[d]
  BY DEF TypeOK

LEMMA GoesEffect ==
  ASSUME TypeOK, NEW c \in Callers,
         NEW pc \in {"idle", "launch", "answer", "awaiting", "stopping", "effects", "stopped", "loading"},
         NEW exited \in BOOLEAN,
         \/ Goes(c, pc) /\ exited = call[c].exited
         \/ call' = [call EXCEPT ![c].pc = pc, ![c].exited = exited]
  PROVE  /\ call' \in [Callers -> CallType]
         /\ call'[c].pc = pc /\ call'[c].exited = exited
         /\ call'[c].op = call[c].op /\ call'[c].worker = call[c].worker /\ call'[c].bodies = call[c].bodies
         /\ \A d \in Callers : d # c => call'[d] = call[d]
<1> DEFINE r == [call[c] EXCEPT !.pc = pc, !.exited = exited]
<1>1. call \in [Callers -> CallType] /\ call[c] \in CallType
  BY DEF TypeOK
<1>2. /\ r \in CallType /\ r.pc = pc /\ r.exited = exited
      /\ r.op = call[c].op /\ r.worker = call[c].worker /\ r.bodies = call[c].bodies
  BY <1>1 DEF CallType
<1>3. call' = [call EXCEPT ![c] = r]
  <2>1. CASE Goes(c, pc) /\ exited = call[c].exited
    <3>1. r = [call[c] EXCEPT !.pc = pc]
      BY <1>1, <2>1 DEF CallType
    <3> QED BY <1>1, <2>1, <3>1 DEF Goes
  <2>2. CASE call' = [call EXCEPT ![c].pc = pc, ![c].exited = exited]
    BY <1>1, <2>2
  <2> QED BY <2>1, <2>2
<1> HIDE DEF r
<1> QED BY <1>1, <1>2, <1>3

LEMMA StopsEffect ==
  ASSUME TypeOK, NEW c \in Callers, NEW op \in {"cancelled", "paused", "park", "close"},
         NEW w \in Workers \union {Host}, NEW S \in SUBSET Bodies, Stops(c, op, w, S)
  PROVE  /\ body' \in [Bodies -> BodyType]
         /\ \A b \in Bodies : /\ body'[b].worker = body[b].worker /\ body'[b].pc = body[b].pc
                              /\ body'[b].lease = body[b].lease
                              /\ body'[b].active => body[b].active /\ b \notin S
                              /\ body[b].active /\ b \notin S => body'[b].active
         /\ call' \in [Callers -> CallType]
         /\ call'[c].op = op /\ call'[c].worker = w /\ call'[c].pc = "stopping" /\ call'[c].bodies = S
         /\ \A d \in Callers : d # c => call'[d] = call[d]
<1> DEFINE r == [NoCall EXCEPT !.op = op, !.worker = w, !.pc = "stopping", !.bodies = S]
<1>1. r \in CallType /\ r.op = op /\ r.worker = w /\ r.pc = "stopping" /\ r.bodies = S
  BY Nulls DEF CallType, NoCall
<1>2. call' = [call EXCEPT ![c] = r]
  BY DEF Stops
<1>3. \A b \in Bodies : [body[b] EXCEPT !.active = FALSE] \in BodyType /\ body[b] \in BodyType
  BY DEF TypeOK, BodyType
<1>4. body' = [b \in Bodies |-> IF b \in S THEN [body[b] EXCEPT !.active = FALSE] ELSE body[b]]
  BY DEF Stops
<1>5. /\ body' \in [Bodies -> BodyType]
      /\ \A b \in Bodies : /\ body'[b].worker = body[b].worker /\ body'[b].pc = body[b].pc
                           /\ body'[b].lease = body[b].lease
                           /\ body'[b].active => body[b].active /\ b \notin S
                           /\ body[b].active /\ b \notin S => body'[b].active
  BY <1>3, <1>4 DEF BodyType
<1> QED BY <1>1, <1>2, <1>5, CallEffect

LEMMA StartsEffect ==
  ASSUME TypeOK, NEW w \in Workers, NEW e, Starts(w, e)
  PROVE  \E b \in Bodies :
           /\ body[b].pc = "none"
           /\ body' \in [Bodies -> BodyType]
           /\ body'[b].worker = w /\ body'[b].active /\ body'[b].lease /\ body'[b].pc \in {"starting", "executing"}
           /\ body'[b].pc = "executing" => UNCHANGED queue
           /\ \A d \in Bodies : d # b => body'[d] = body[d]
           /\ running' \in [Workers -> Bodies \union {0}]
           /\ running'[w] = b /\ \A v \in Workers : v # w => running'[v] = running[v]
           /\ queue' \in Seq(Event)
           /\ \A i \in 1..Len(queue') :
                \/ i = Len(queue') /\ queue'[i].type = "execution" /\ queue'[i].worker = w /\ queue'[i].by = b
                \/ i \in 1..Len(queue) /\ queue'[i] = queue[i]
           /\ \A i \in 1..Len(queue) : i \in 1..Len(queue') /\ queue'[i] = queue[i]
<1>1. PICK b \in Bodies :
        /\ body[b].pc = "none"
        /\ body' = [body EXCEPT ![b] = [worker |-> w, pc |-> IF e.pendingStart THEN "starting" ELSE "executing",
                                       active |-> TRUE, lease |-> TRUE]]
        /\ running' = [running EXCEPT ![w] = b]
        /\ IF e.pendingStart THEN Emits("execution", w, b) ELSE UNCHANGED queue
  BY DEF Starts
<1> DEFINE pc == IF e.pendingStart THEN "starting" ELSE "executing"
           r  == [worker |-> w, pc |-> pc, active |-> TRUE, lease |-> TRUE]
<1>2. pc \in {"starting", "executing"}
  OBVIOUS
<1>3. r \in BodyType /\ r.worker = w /\ r.active /\ r.lease /\ r.pc \in {"starting", "executing"}
  BY <1>2 DEF BodyType
<1>4. /\ body' \in [Bodies -> BodyType] /\ body'[b] = r
      /\ \A d \in Bodies : d # b => body'[d] = body[d]
  BY <1>1, <1>3 DEF TypeOK
<1>5. /\ running' \in [Workers -> Bodies \union {0}]
      /\ running'[w] = b /\ \A v \in Workers : v # w => running'[v] = running[v]
  BY <1>1 DEF TypeOK
<1>6. /\ queue' \in Seq(Event)
      /\ \A i \in 1..Len(queue') :
           \/ i = Len(queue') /\ queue'[i].type = "execution" /\ queue'[i].worker = w /\ queue'[i].by = b
           \/ i \in 1..Len(queue) /\ queue'[i] = queue[i]
      /\ \A i \in 1..Len(queue) : i \in 1..Len(queue') /\ queue'[i] = queue[i]
  <2>1. CASE Emits("execution", w, b)
    BY <2>1, EmitsEffect DEF EventTypes
  <2>2. CASE UNCHANGED queue
    BY <2>2 DEF TypeOK
  <2> QED BY <1>1, <2>1, <2>2
<1>7. body'[b].pc = "executing" => UNCHANGED queue
  BY <1>1, <1>4
<1> QED BY <1>1, <1>3, <1>4, <1>5, <1>6, <1>7

LEMMA BodyEffect ==
  ASSUME TypeOK, NEW b \in Bodies,
         NEW pc \in {"none", "starting", "executing", "returned", "finishing", "failing", "draining", "gone"},
         body' = [body EXCEPT ![b].pc = pc]
  PROVE  /\ body' \in [Bodies -> BodyType]
         /\ body'[b].pc = pc /\ body'[b].worker = body[b].worker /\ body'[b].active = body[b].active
         /\ body'[b].lease = body[b].lease
         /\ \A d \in Bodies : d # b => body'[d] = body[d]
  BY DEF TypeOK, BodyType

LEMMA StopEndsEffect ==
  ASSUME TypeOK, NEW c \in Callers, StopEnds(c),
         c \in Calls => Of(c) \in Workers /\ call[c].op \in EventTypes,
         \A b \in call[c].bodies : body[b].pc # "none" /\ (Live(b) => body[b].worker \in Workers)
  PROVE  LET S == call[c].bodies
         IN  /\ body' \in [Bodies -> BodyType]
             /\ \A b \in Bodies : /\ body'[b].worker = body[b].worker /\ body'[b].pc = body[b].pc
                                  /\ body'[b].active = body[b].active
                                  /\ body'[b].lease => body[b].lease /\ (b \in S => call[c].exited)
             /\ abandoned \subseteq abandoned' /\ abandoned' \subseteq Workers
             /\ \A b \in S : call[c].exited \/ body[b].pc = "gone" \/ body[b].worker \in abandoned'
             /\ running' \in [Workers -> Bodies \union {0}]
             /\ \A w \in Workers : running'[w] = IF running[w] \in S THEN 0 ELSE running[w]
             /\ call' \in [Callers -> CallType]
             /\ call'[c].pc = IF c = Host THEN "stopped" ELSE "answer"
             /\ call'[c].op = call[c].op /\ call'[c].worker = call[c].worker /\ call'[c].bodies = S
             /\ \A d \in Callers : d # c => call'[d] = call[d]
<1> DEFINE S == call[c].bodies
<1>1. S \subseteq Bodies /\ call[c].exited \in BOOLEAN
  BY DEF TypeOK, CallType
<1>2. /\ body' \in [Bodies -> BodyType]
      /\ \A b \in Bodies : /\ body'[b].worker = body[b].worker /\ body'[b].pc = body[b].pc
                           /\ body'[b].active = body[b].active
                           /\ body'[b].lease => body[b].lease /\ (b \in S => call[c].exited)
  <2>1. CASE body' = body /\ call[c].exited
    BY <2>1 DEF TypeOK
  <2>2. CASE body' = Released(S)
    <3>1. \A b \in Bodies : /\ body[b] \in BodyType
                            /\ body'[b] = IF b \in S THEN [body[b] EXCEPT !.lease = FALSE] ELSE body[b]
      BY <2>2 DEF Released, TypeOK
    <3>2. \A b \in Bodies : [body[b] EXCEPT !.lease = FALSE] \in BodyType
      BY <3>1 DEF BodyType
    <3> QED BY <2>2, <3>1, <3>2 DEF Released, BodyType
  <2> QED BY <2>1, <2>2 DEF StopEnds
<1>3. /\ abandoned \subseteq abandoned' /\ abandoned' \subseteq Workers
      /\ \A b \in S : call[c].exited \/ body[b].pc = "gone" \/ body[b].worker \in abandoned'
  <2>1. CASE call[c].exited
    BY <2>1 DEF StopEnds, TypeOK
  <2>2. CASE ~call[c].exited
    <3>1. abandoned' = abandoned \union {body[b].worker : b \in {d \in S : body[d].pc # "gone"}}
      BY <2>2 DEF StopEnds
    <3>2. \A b \in S : body[b].pc # "gone" => body[b].worker \in Workers
      BY DEF Live
    <3> QED BY <3>1, <3>2 DEF TypeOK
  <2> QED BY <2>1, <2>2
<1>4. /\ running' \in [Workers -> Bodies \union {0}]
      /\ \A w \in Workers : running'[w] = IF running[w] \in S THEN 0 ELSE running[w]
  BY DEF StopEnds, TypeOK
<1>5. Goes(c, IF c = Host THEN "stopped" ELSE "answer")
  BY DEF StopEnds
<1>6. (IF c = Host THEN "stopped" ELSE "answer") \in {"stopped", "answer"}
  OBVIOUS
<1>7. /\ call' \in [Callers -> CallType]
      /\ call'[c].pc = IF c = Host THEN "stopped" ELSE "answer"
      /\ call'[c].op = call[c].op /\ call'[c].worker = call[c].worker /\ call'[c].bodies = S
      /\ \A d \in Callers : d # c => call'[d] = call[d]
  BY <1>1, <1>5, <1>6, GoesEffect
<1> QED BY <1>2, <1>3, <1>4, <1>7

-----------------------------------------------------------------------------
(* The reducer and the store. *)
LEMMA CommitKeeps == ASSUME IInv, Commit PROVE IInv'
<1> USE Actors DEF IInv
<1>1. /\ queue # <<>> /\ queue' = Tail(queue)
      /\ entry' = [entry EXCEPT ![Head(queue).worker] = Applied(@, Head(queue).type)]
      /\ UNCHANGED <<running, launching, abandoned, body, call, runtime, todo, upsets, refused>>
  BY DEF Commit, maps, budgets
<1>2. /\ queue' \in Seq(Event) /\ Head(queue) \in Event
      /\ 1 \in 1..Len(queue) /\ Head(queue) = queue[1]
      /\ \A i \in 1..Len(queue') : i + 1 \in 1..Len(queue) /\ queue'[i] = queue[i + 1]
      /\ \A i \in 1..Len(queue) : i = 1 \/ (i - 1 \in 1..Len(queue') /\ queue'[i - 1] = queue[i])
  BY <1>1, Popped DEF TypeOK
<1>3. PICK w \in Workers, type \in EventTypes : w = queue[1].worker /\ type = queue[1].type
  BY <1>2 DEF Event, EventTypes, Final
<1>4. /\ entry' \in [Workers -> EntryType]
      /\ \A v \in Workers : v # w => entry'[v] = entry[v]
      /\ entry'[w].status = "none" => entry[w].status = "none" /\ type \in {"execution", "sub"}
      /\ entry'[w].status = "paused" => \/ type \in {"paused", "held"}
                                        \/ entry[w].status = "paused" /\ type \in {"execution", "sub"}
  <2>1. entry[w] \in EntryType
    BY DEF TypeOK
  <2>2. entry' = [entry EXCEPT ![w] = Applied(entry[w], type)]
    BY <1>1, <1>2, <1>3
  <2>3. Applied(entry[w], type) \in EntryType
    BY <2>1, AppliedType
  <2>4. entry' \in [Workers -> EntryType] /\ entry'[w] = Applied(entry[w], type)
        /\ \A v \in Workers : v # w => entry'[v] = entry[v]
    BY <2>2, <2>3 DEF TypeOK
  <2> QED BY <2>1, <2>4, AppliedType
<1>5. TypeOK'
  BY <1>1, <1>2, <1>3, <1>4 DEF TypeOK, At, Of, Callers
<1>6. QueueInv'
  <2> USE <1>1, <1>2, <1>3, <1>4, <1>5 DEF At, Of, Callers
  <2>1. CallEvents'  BY DEF QueueInv, CallEvents
  <2>2. HostEvents'  BY DEF QueueInv, HostEvents
  <2>3. BodyEvents'  BY DEF QueueInv, BodyEvents
  <2>4. OneEvent'  BY DEF QueueInv, OneEvent, CallEvents
  <2> QED BY <2>1, <2>2, <2>3, <2>4 DEF QueueInv
<1>7. CallShape'
  BY <1>1, <1>2, <1>3, <1>4, <1>5 DEF CallShape, At, Of, Callers
<1>8. KnownInv'
  BY <1>1, <1>2, <1>3, <1>4, <1>5 DEF KnownInv, At, Of, Callers
<1>9. SpawnInv'
  <2> USE <1>1, <1>2, <1>3, <1>4, <1>5 DEF SpawnInv, Spawning, Of, At
  <2>1. ASSUME NEW c \in Calls, Spawning(c) PROVE entry[Of(c)]'.status # "paused"
    <3>1. SUFFICES ASSUME Of(c) = w, type \in {"paused", "held"} PROVE FALSE
      BY <2>1
    <3>2. queue[1].by \in Calls
      BY <2>1, <3>1 DEF QueueInv, HostEvents, BodyEvents, HostInv, Event, Callers
    <3>3. Of(queue[1].by) = w /\ call[queue[1].by].op \in {"resume", "paused"}
      BY <3>1, <3>2 DEF QueueInv, CallEvents
    <3> QED BY <2>1, <3>1, <3>2, <3>3
  <2>2. ASSUME NEW c \in Calls, Spawning(c), entry[Of(c)]'.status = "none"
        PROVE  \E i \in 1..Len(queue') : queue'[i].by = c /\ queue'[i].type = "started"
    <3>1. PICK i \in 1..Len(queue) : queue[i].by = c /\ queue[i].type = "started"
      BY <2>2
    <3>2. i # 1
      BY <2>2, <3>1 DEF QueueInv, CallEvents
    <3>3. i - 1 \in 1..Len(queue') /\ queue'[i - 1] = queue[i]
      BY <3>2
    <3> QED BY <3>1, <3>3
  <2> QED BY <2>1, <2>2
<1>10. ClaimInv'
  BY <1>1, <1>2, <1>3, <1>4, <1>5 DEF ClaimInv, Claims, CallShape, At, Of, Callers
<1>11. HostInv'
  BY <1>1, <1>2, <1>3, <1>4, <1>5 DEF HostInv, At, Of, Callers, Event
<1>12. BodyInv'
  BY <1>1, <1>2, <1>3, <1>4, <1>5 DEF BodyInv, KnownRuns, OneRun, RunsFound, ListedRuns, ActiveListed, Live, At, Of, Callers
<1>13. ApartInv'
  BY <1>1, <1>2, <1>3, <1>4, <1>5 DEF ApartInv, LeasesLive, LaunchApart, TodoApart, Live, At, Of, Callers
<1>14. StopInv'
  BY <1>1, <1>2, <1>3, <1>4, <1>5 DEF StopInv, StopsRuns, AwaitsRuns, ExitedGone, Gone, At, Of, Callers
<1>15. StoppedLetsGo'
  BY <1>1, <1>2, <1>3, <1>4, <1>5 DEF StoppedLetsGo, At, Of, Callers
<1> QED BY <1>5, <1>6, <1>7, <1>8, <1>9, <1>10, <1>11, <1>12, <1>13, <1>14, <1>15

-----------------------------------------------------------------------------
(* The runtime ends: a crash, the end of a park or a close. *)
LEMMA GoesOffKeeps == ASSUME IInv, GoesOff, UNCHANGED entry, upsets' \in 0..MaxUpsets, refused' \in BOOLEAN PROVE IInv'
<1> USE Actors DEF IInv
<1>1. /\ runtime' = "off" /\ todo' = {} /\ queue' = <<>> /\ launching' = {} /\ abandoned' = {} /\ entry' = entry
      /\ running' = [w \in Workers |-> 0] /\ \A w \in Workers : running'[w] = 0
      /\ body' = [b \in Bodies |-> NoBody] /\ \A b \in Bodies : body'[b] = NoBody
      /\ call' = [c \in Callers |-> NoCall] /\ \A c \in Callers : call'[c] = NoCall
  BY DEF GoesOff
<1>2. /\ NoCall.op = "none" /\ NoCall.pc = "idle" /\ NoBody.pc = "none" /\ ~NoBody.lease /\ Host \in Callers
      /\ NoCall \in CallType /\ NoBody \in BodyType
  BY Nulls DEF NoCall, NoBody, Callers
<1>3. TypeOK'
  BY <1>1, <1>2 DEF TypeOK, At, Of, Callers
<1>4. QueueInv'
  <2> USE <1>1, <1>2, <1>3 DEF At, Of, Callers, Waits
  <2>1. CallEvents'  BY DEF QueueInv, CallEvents
  <2>2. HostEvents'  BY DEF QueueInv, HostEvents
  <2>3. BodyEvents'  BY DEF QueueInv, BodyEvents
  <2>4. OneEvent'  BY DEF QueueInv, OneEvent
  <2> QED BY <2>1, <2>2, <2>3, <2>4 DEF QueueInv
<1>5. CallShape'
  BY <1>1, <1>2, <1>3 DEF CallShape, At, Of, Callers
<1>6. KnownInv'
  BY <1>1, <1>2, <1>3 DEF KnownInv, At, Of, Callers
<1>7. SpawnInv'
  BY <1>1, <1>2, <1>3 DEF SpawnInv, Spawning, At, Of, Callers
<1>8. ClaimInv'
  BY <1>1, <1>2, <1>3 DEF ClaimInv, Claims, CallShape, At, Of, Callers
<1>9. HostInv'
  BY <1>1, <1>2, <1>3 DEF HostInv, At, Of, Callers
<1>10. BodyInv'
  BY <1>1, <1>2, <1>3 DEF BodyInv, KnownRuns, OneRun, RunsFound, ListedRuns, ActiveListed, Live, At, Of, Callers
<1>11. ApartInv'
  BY <1>1, <1>2, <1>3 DEF ApartInv, LeasesLive, LaunchApart, TodoApart, Live, At, Of, Callers
<1>12. StopInv'
  BY <1>1, <1>2, <1>3 DEF StopInv, StopsRuns, AwaitsRuns, ExitedGone, Gone, At, Of, Callers
<1>13. StoppedLetsGo'
  BY <1>1, <1>2, <1>3 DEF StoppedLetsGo, At, Of, Callers
<1> QED BY <1>3, <1>4, <1>5, <1>6, <1>7, <1>8, <1>9, <1>10, <1>11, <1>12, <1>13

LEMMA LeavesKeeps == ASSUME IInv, Leaves PROVE IInv'
<1>1. /\ GoesOff /\ UNCHANGED entry
      /\ upsets' \in 0..MaxUpsets /\ refused' \in BOOLEAN
  BY WorkersAssumption DEF Leaves, budgets, IInv, TypeOK, WorkersAssumption
<1> QED BY <1>1, GoesOffKeeps

LEMMA CrashKeeps == ASSUME IInv, Crash PROVE IInv'
<1>1. /\ GoesOff /\ UNCHANGED entry
      /\ upsets' \in 0..MaxUpsets /\ refused' \in BOOLEAN
  BY WorkersAssumption DEF Crash, Upset, IInv, TypeOK, WorkersAssumption
<1> QED BY <1>1, GoesOffKeeps

-----------------------------------------------------------------------------
(* A refused append: a load gives up, a call fails, a run reports the failure or drains. *)
LEMMA RefusedHead ==
  ASSUME IInv, Refuse
  PROVE  /\ queue # <<>> /\ Head(queue) \in Event /\ Tail(queue) \in Seq(Event)
         /\ 1 \in 1..Len(queue) /\ Head(queue) = queue[1]
         /\ \A i \in 1..Len(Tail(queue)) : i + 1 \in 1..Len(queue) /\ Tail(queue)[i] = queue[i + 1]
         /\ \A i \in 1..Len(queue) : i = 1 \/ (i - 1 \in 1..Len(Tail(queue)) /\ Tail(queue)[i - 1] = queue[i])
         /\ UNCHANGED <<entry, upsets>> /\ refused' \in BOOLEAN
<1>1. queue # <<>> /\ queue \in Seq(Event) /\ UNCHANGED <<entry, upsets>> /\ refused' = TRUE
  BY DEF Refuse, IInv, TypeOK
<1> QED BY <1>1, Popped

LEMMA RefuseHostKeeps == ASSUME IInv, Refuse, Head(queue).by = Host PROVE IInv'
<1>1. GoesOff /\ UNCHANGED entry /\ upsets' \in 0..MaxUpsets /\ refused' \in BOOLEAN
  BY RefusedHead DEF Refuse, IInv, TypeOK
<1> QED BY <1>1, GoesOffKeeps

LEMMA RefuseCallKeeps == ASSUME IInv, NEW c \in Calls, Refuse, Head(queue).by = c PROVE IInv'
<1> USE Actors DEF IInv
<1>1. /\ c \in Callers /\ c # Host /\ queue' = Tail(queue) /\ call' = [call EXCEPT ![c] = NoCall]
      /\ launching' = IF call[c].op = "resume" THEN launching \ {queue[1].worker} ELSE launching
      /\ UNCHANGED <<entry, running, abandoned, body, runtime, todo, upsets>> /\ refused' \in BOOLEAN
  BY RefusedHead DEF Refuse, Done, Callers
<1>2. /\ 1 \in 1..Len(queue) /\ queue[1].by = c /\ queue[1].worker = call[c].worker
      /\ call[c].pc \in {"launch", "answer"} /\ queue[1].type # "sub"
      /\ queue' \in Seq(Event)
      /\ \A i \in 1..Len(queue') : i + 1 \in 1..Len(queue) /\ queue'[i] = queue[i + 1]
      /\ \A i \in 1..Len(queue) : i = 1 \/ (i - 1 \in 1..Len(queue') /\ queue'[i - 1] = queue[i])
  BY <1>1, RefusedHead DEF QueueInv, CallEvents, Of
<1>3. /\ call' \in [Callers -> CallType] /\ call'[c].pc = "idle" /\ call'[c].op = "none" /\ call'[c].bodies = {}
      /\ \A d \in Callers : d # c => call'[d] = call[d]
  BY <1>1, CallEffect, Nulls DEF NoCall
<1>4. TypeOK'
  BY <1>1, <1>2, <1>3 DEF TypeOK, At, Of, Callers
<1>5. QueueInv'
  <2> USE <1>1, <1>2, <1>3, <1>4 DEF At, Of, Callers, Waits
  <2>1. CallEvents'  BY DEF QueueInv, CallEvents, OneEvent
  <2>2. HostEvents'  BY DEF QueueInv, HostEvents
  <2>3. BodyEvents'  BY DEF QueueInv, BodyEvents
  <2>4. OneEvent'  BY DEF QueueInv, OneEvent
  <2> QED BY <2>1, <2>2, <2>3, <2>4 DEF QueueInv
<1>6. CallShape'
  BY <1>1, <1>2, <1>3, <1>4 DEF CallShape, At, Of, Callers
<1>7. KnownInv'
  BY <1>1, <1>2, <1>3, <1>4 DEF KnownInv, At, Of, Callers
<1>8. SpawnInv'
  <2> USE <1>1, <1>2, <1>3 DEF SpawnInv, Spawning, Of, At
  <2>1. ASSUME NEW d \in Calls, Spawning(d)', entry[Of(d)]'.status = "none"
        PROVE  \E i \in 1..Len(queue') : queue'[i].by = d /\ queue'[i].type = "started"
    <3>1. PICK i \in 1..Len(queue) : queue[i].by = d /\ queue[i].type = "started"
      BY <2>1
    <3>2. i # 1
      BY <2>1, <3>1
    <3>3. i - 1 \in 1..Len(queue') /\ queue'[i - 1] = queue[i]
      BY <3>2
    <3> QED BY <3>1, <3>3
  <2> QED BY <2>1
<1>9. ClaimInv'
  BY <1>1, <1>2, <1>3, <1>4 DEF ClaimInv, Claims, CallShape, At, Of, Callers
<1>10. HostInv'
  BY <1>1, <1>2, <1>3, <1>4 DEF HostInv, At, Of, Callers, NoCall
<1>11. BodyInv'
  BY <1>1, <1>2, <1>3, <1>4 DEF BodyInv, KnownRuns, OneRun, RunsFound, ListedRuns, ActiveListed, Live, At, Of, Callers
<1>12. ApartInv'
  BY <1>1, <1>2, <1>3, <1>4 DEF ApartInv, LeasesLive, LaunchApart, TodoApart, Live, At, Of, Callers
<1>13. StopInv'
  BY <1>1, <1>2, <1>3, <1>4 DEF StopInv, StopsRuns, AwaitsRuns, ExitedGone, Gone, At, Of, Callers
<1>14. StoppedLetsGo'
  BY <1>1, <1>2, <1>3, <1>4 DEF StoppedLetsGo, At, Of, Callers
<1> QED BY <1>4, <1>5, <1>6, <1>7, <1>8, <1>9, <1>10, <1>11, <1>12, <1>13, <1>14

LEMMA RefuseBodyKeeps == ASSUME IInv, NEW b \in Bodies, Refuse, Head(queue).by = b PROVE IInv'
<1> USE Actors DEF IInv
<1>1. PICK again \in BOOLEAN :
       /\ again => queue[1].type # "sub" /\ body[b].pc # "failing"
       /\ queue' = IF again THEN Append(Tail(queue), [queue[1] EXCEPT !.type = "ended"]) ELSE Tail(queue)
       /\ body' = IF queue[1].type = "sub" THEN body
                  ELSE [body EXCEPT ![b].pc = IF again THEN "failing" ELSE "draining"]
       /\ UNCHANGED <<entry, running, launching, abandoned, call, runtime, todo, upsets>> /\ refused' \in BOOLEAN
  <2>1. b \notin Calls /\ b # Host /\ Head(queue) = queue[1]
    BY Actors, RefusedHead DEF Callers
  <2>2. LET again == queue[1].type # "sub" /\ body[b].pc # "failing" /\ body[b].active
        IN  /\ queue' = IF again THEN Append(Tail(queue), [queue[1] EXCEPT !.type = "ended"]) ELSE Tail(queue)
            /\ body' = IF queue[1].type = "sub" THEN body
                       ELSE [body EXCEPT ![b].pc = IF again THEN "failing" ELSE "draining"]
            /\ UNCHANGED <<maps, call, runtime, todo, entry, upsets>> /\ refused' \in BOOLEAN
    BY <2>1 DEF Refuse
  <2>3. CASE queue[1].type # "sub" /\ body[b].pc # "failing" /\ body[b].active
    BY <2>2, <2>3 DEF maps
  <2>4. CASE ~(queue[1].type # "sub" /\ body[b].pc # "failing" /\ body[b].active)
    BY <2>2, <2>4 DEF maps
  <2> QED BY <2>3, <2>4
<1>2. /\ queue[1] \in Event /\ queue[1].by = b /\ queue[1].type \in {"sub", "execution", "ended"} /\ 1 \in 1..Len(queue)
      /\ queue[1].type # "sub" => /\ body[b].pc \in {"starting", "finishing", "failing"}
                                  /\ \A i \in 1..Len(queue) : queue[i].by = b /\ i # 1 => queue[i].type = "sub"
  BY RefusedHead DEF QueueInv, BodyEvents, OneEvent
<1>3. /\ body' \in [Bodies -> BodyType]
      /\ \A d \in Bodies : /\ body'[d].worker = body[d].worker /\ body'[d].active = body[d].active
                           /\ body'[d].lease = body[d].lease
      /\ body'[b].pc = IF queue[1].type = "sub" THEN body[b].pc ELSE IF again THEN "failing" ELSE "draining"
      /\ \A d \in Bodies : d # b => body'[d] = body[d]
  <2>1. CASE queue[1].type = "sub"
    BY <1>1, <2>1 DEF TypeOK
  <2>2. CASE queue[1].type # "sub"
    <3> DEFINE pc == IF again THEN "failing" ELSE "draining"
    <3>1. pc \in {"none", "starting", "executing", "returned", "finishing", "failing", "draining", "gone"}
      OBVIOUS
    <3>2. body' = [body EXCEPT ![b].pc = pc]
      BY <1>1, <2>2
    <3>3. pc = IF queue[1].type = "sub" THEN body[b].pc ELSE IF again THEN "failing" ELSE "draining"
      BY <2>2
    <3> HIDE DEF pc
    <3>4. /\ body' \in [Bodies -> BodyType]
          /\ body'[b].pc = pc /\ body'[b].worker = body[b].worker /\ body'[b].active = body[b].active
          /\ body'[b].lease = body[b].lease
          /\ \A d \in Bodies : d # b => body'[d] = body[d]
      BY <3>1, <3>2, BodyEffect
    <3> QED BY <3>3, <3>4
  <2> QED BY <2>1, <2>2
<1>4. /\ queue' \in Seq(Event)
      /\ \A i \in 1..Len(queue') :
           \/ i = Len(queue') /\ again /\ queue'[i].type = "ended" /\ queue'[i].by = b
           \/ i + 1 \in 1..Len(queue) /\ queue'[i] = queue[i + 1]
      /\ \A i \in 1..Len(queue) : i = 1 \/ (i - 1 \in 1..Len(queue') /\ queue'[i - 1] = queue[i])
  <2> DEFINE e == [queue[1] EXCEPT !.type = "ended"]
  <2>1. e \in Event /\ e.type = "ended" /\ e.by = b
    BY <1>2 DEF Event, Final
  <2>2. CASE again
    <3>1. queue' = Append(Tail(queue), e)
      BY <1>1, <2>2
    <3>2. Tail(queue) \in Seq(Event)
      BY RefusedHead
    <3> QED BY <2>1, <2>2, <3>1, <3>2, RefusedHead, Appended
  <2>3. CASE ~again
    BY <1>1, <2>3, RefusedHead
  <2> QED BY <2>2, <2>3
<1>5. TypeOK'
  BY <1>1, <1>2, <1>3, <1>4 DEF TypeOK, At, Of, Callers
<1>6. QueueInv'
  <2> USE <1>1, <1>2, <1>3, <1>4, <1>5 DEF At, Of, Callers, Waits
  <2>1. CallEvents'  BY DEF QueueInv, CallEvents
  <2>2. HostEvents'  BY DEF QueueInv, HostEvents
  <2>3. BodyEvents'  BY DEF QueueInv, BodyEvents
  <2>4. OneEvent'  BY DEF QueueInv, OneEvent
  <2> QED BY <2>1, <2>2, <2>3, <2>4 DEF QueueInv
<1>7. CallShape'
  BY <1>1, <1>2, <1>3, <1>4, <1>5 DEF CallShape, At, Of, Callers
<1>8. KnownInv'
  BY <1>1, <1>2, <1>3, <1>4, <1>5 DEF KnownInv, At, Of, Callers
<1>9. SpawnInv'
  <2> USE <1>1, <1>2, <1>4 DEF SpawnInv, Spawning, Of, At
  <2>1. ASSUME NEW d \in Calls, Spawning(d)', entry[Of(d)]'.status = "none"
        PROVE  \E i \in 1..Len(queue') : queue'[i].by = d /\ queue'[i].type = "started"
    <3>1. PICK i \in 1..Len(queue) : queue[i].by = d /\ queue[i].type = "started"
      BY <2>1
    <3>2. i # 1
      BY <2>1, <3>1 DEF Callers
    <3>3. i - 1 \in 1..Len(queue') /\ queue'[i - 1] = queue[i]
      BY <3>2
    <3> QED BY <3>1, <3>3
  <2> QED BY <2>1
<1>10. ClaimInv'
  BY <1>1, <1>2, <1>3, <1>4, <1>5 DEF ClaimInv, Claims, CallShape, At, Of, Callers
<1>11. HostInv'
  BY <1>1, <1>2, <1>3, <1>4, <1>5 DEF HostInv, At, Of, Callers, NoBody
<1>12. BodyInv'
  <2> USE <1>1, <1>2, <1>3, <1>4, <1>5 DEF At, Of, Callers, Live
  <2>1. KnownRuns'  BY DEF BodyInv, KnownRuns
  <2>2. OneRun'  BY DEF BodyInv, OneRun
  <2>3. RunsFound'  BY DEF BodyInv, RunsFound
  <2>4. ListedRuns'  BY DEF BodyInv, ListedRuns
  <2>5. ActiveListed'  BY DEF BodyInv, ActiveListed
  <2> QED BY <2>1, <2>2, <2>3, <2>4, <2>5 DEF BodyInv
<1>13. ApartInv'
  <2> USE <1>1, <1>2, <1>3, <1>4, <1>5 DEF At, Of, Callers, Live
  <2>1. LeasesLive'  BY DEF ApartInv, LeasesLive
  <2>2. LaunchApart'  BY DEF ApartInv, LaunchApart
  <2>3. TodoApart'  BY DEF ApartInv, TodoApart
  <2> QED BY <2>1, <2>2, <2>3 DEF ApartInv
<1>14. StopInv'
  <2> USE <1>1, <1>2, <1>3, <1>4, <1>5 DEF At, Of, Callers, Gone
  <2>1. StopsRuns'  BY DEF StopInv, StopsRuns
  <2>2. AwaitsRuns'  BY DEF StopInv, AwaitsRuns
  <2>3. ExitedGone'  BY StopsBodies DEF StopInv, ExitedGone
  <2> QED BY <2>1, <2>2, <2>3 DEF StopInv
<1>15. StoppedLetsGo'
  BY <1>1, <1>2, <1>3, <1>4, <1>5 DEF StoppedLetsGo, At, Of, Callers
<1> QED BY <1>5, <1>6, <1>7, <1>8, <1>9, <1>10, <1>11, <1>12, <1>13, <1>14, <1>15

LEMMA RefuseKeeps == ASSUME IInv, Refuse PROVE IInv'
<1>1. Head(queue).by \in Callers \union Bodies
  BY RefusedHead DEF Event
<1> QED BY <1>1, RefuseHostKeeps, RefuseCallKeeps, RefuseBodyKeeps DEF Callers

-----------------------------------------------------------------------------
(* spawn, resume and the launch they end in. *)
LEMMA SpawnKeeps == ASSUME IInv, NEW c \in Calls, NEW w \in Workers, Spawn(c, w) PROVE IInv'
<1> USE Actors DEF IInv
<1>1. /\ c \in Callers /\ call[c].pc = "idle" /\ runtime = "ready" /\ call[Host].pc = "idle"
      /\ entry[w].status = "none"
      /\ \A d \in Calls : call[d].pc = "launch" => call[d].worker # w
      /\ Emits("started", w, c)
      /\ UNCHANGED <<entry, running, launching, abandoned, body, runtime, todo, upsets, refused>>
  BY DEF Spawn, Serves, At, Callers, maps, budgets
<1>2. PICK r \in CallType : /\ r.op = "spawn" /\ r.worker = w /\ r.pc = "launch"
                            /\ call' = [call EXCEPT ![c] = r]
  <2>1. Applied(NoEntry, "started") \in EntryType
    BY Nulls, AppliedType DEF EventTypes
  <2> QED BY <2>1, Nulls DEF Spawn, CallType, NoCall
<1>3. /\ call' \in [Callers -> CallType] /\ call'[c] = r
      /\ \A d \in Callers : d # c => call'[d] = call[d]
  BY <1>1, <1>2, CallEffect
<1>4. /\ queue' \in Seq(Event)
      /\ \A i \in 1..Len(queue') :
           \/ i = Len(queue') /\ queue'[i].type = "started" /\ queue'[i].worker = w /\ queue'[i].by = c
           \/ i \in 1..Len(queue) /\ queue'[i] = queue[i]
      /\ \A i \in 1..Len(queue) : i \in 1..Len(queue') /\ queue'[i] = queue[i]
      /\ \E i \in 1..Len(queue') : queue'[i].by = c /\ queue'[i].type = "started"
  BY <1>1, EmitsEffect DEF EventTypes
<1>5. TypeOK'
  BY <1>1, <1>2, <1>3, <1>4 DEF TypeOK, At, Of, Callers
<1>6. QueueInv'
  <2> USE <1>1, <1>2, <1>3, <1>4, <1>5 DEF At, Of, Callers, Waits
  <2>1. CallEvents'  BY DEF QueueInv, CallEvents
  <2>2. HostEvents'  BY DEF QueueInv, HostEvents
  <2>3. BodyEvents'  BY DEF QueueInv, BodyEvents
  <2>4. OneEvent'  BY DEF QueueInv, OneEvent, CallEvents
  <2> QED BY <2>1, <2>2, <2>3, <2>4 DEF QueueInv
<1>7. CallShape'
  BY <1>1, <1>2, <1>3, <1>4, <1>5 DEF CallShape, At, Of, Callers
<1>8. KnownInv'
  BY <1>1, <1>2, <1>3, <1>4, <1>5 DEF KnownInv, At, Of, Callers
<1>9. SpawnInv'
  BY <1>1, <1>2, <1>3, <1>4, <1>5 DEF SpawnInv, Spawning, At, Of, Callers, KnownInv
<1>10. ClaimInv'
  BY <1>1, <1>2, <1>3, <1>4, <1>5 DEF ClaimInv, Claims, CallShape, At, Of, Callers, KnownInv
<1>11. HostInv'
  BY <1>1, <1>2, <1>3, <1>4, <1>5 DEF HostInv, At, Of, Callers
<1>12. BodyInv'
  BY <1>1, <1>2, <1>3, <1>4, <1>5 DEF BodyInv, KnownRuns, OneRun, RunsFound, ListedRuns, ActiveListed, Live, At, Of, Callers
<1>13. ApartInv'
  BY <1>1, <1>2, <1>3, <1>4, <1>5 DEF ApartInv, LeasesLive, LaunchApart, TodoApart, Live, At, Of, Callers, BodyInv, KnownRuns
<1>14. StopInv'
  BY <1>1, <1>2, <1>3, <1>4, <1>5 DEF StopInv, StopsRuns, AwaitsRuns, ExitedGone, Gone, At, Of, Callers
<1>15. StoppedLetsGo'
  BY <1>1, <1>2, <1>3, <1>4, <1>5 DEF StoppedLetsGo, At, Of, Callers
<1> QED BY <1>5, <1>6, <1>7, <1>8, <1>9, <1>10, <1>11, <1>12, <1>13, <1>14, <1>15

LEMMA ResumeKeeps == ASSUME IInv, NEW c \in Calls, NEW w \in Workers, Resume(c, w) PROVE IInv'
<1> USE Actors DEF IInv
<1>1. /\ c \in Callers /\ call[c].pc = "idle" /\ runtime = "ready" /\ call[Host].pc = "idle"
      /\ entry[w].status = "paused" /\ running[w] = 0 /\ w \notin abandoned /\ w \notin launching
      /\ launching' = launching \union {w}
      /\ Emits("running", w, c)
      /\ UNCHANGED <<entry, running, abandoned, body, runtime, todo, upsets, refused>>
  BY DEF Resume, Serves, At, Resumable, Claim, Callers, budgets
<1>2. PICK r \in CallType : /\ r.op = "resume" /\ r.worker = w /\ r.pc = "launch"
                            /\ call' = [call EXCEPT ![c] = r]
  BY <1>1, Nulls DEF Resume, Claim, CallType, NoCall, TypeOK
<1>3. /\ call' \in [Callers -> CallType] /\ call'[c] = r
      /\ \A d \in Callers : d # c => call'[d] = call[d]
  BY <1>1, <1>2, CallEffect
<1>4. /\ queue' \in Seq(Event)
      /\ \A i \in 1..Len(queue') :
           \/ i = Len(queue') /\ queue'[i].type = "running" /\ queue'[i].worker = w /\ queue'[i].by = c
           \/ i \in 1..Len(queue) /\ queue'[i] = queue[i]
      /\ \A i \in 1..Len(queue) : i \in 1..Len(queue') /\ queue'[i] = queue[i]
  BY <1>1, EmitsEffect DEF EventTypes
<1>5. TypeOK'
  BY <1>1, <1>2, <1>3, <1>4 DEF TypeOK, At, Of, Callers
<1>6. QueueInv'
  <2> USE <1>1, <1>2, <1>3, <1>4, <1>5 DEF At, Of, Callers
  <2>1. CallEvents'  BY DEF QueueInv, CallEvents
  <2>2. HostEvents'  BY DEF QueueInv, HostEvents
  <2>3. BodyEvents'  BY DEF QueueInv, BodyEvents
  <2>4. OneEvent'  BY DEF QueueInv, OneEvent, CallEvents
  <2> QED BY <2>1, <2>2, <2>3, <2>4 DEF QueueInv
<1>7. CallShape'
  BY <1>1, <1>2, <1>3, <1>4, <1>5 DEF CallShape, At, Of, Callers
<1>8. KnownInv'
  BY <1>1, <1>2, <1>3, <1>4, <1>5 DEF KnownInv, At, Of, Callers
<1>9. SpawnInv'
  BY <1>1, <1>2, <1>3, <1>4, <1>5 DEF SpawnInv, Spawning, At, Of, Callers
<1>10. ClaimInv'
  BY <1>1, <1>2, <1>3, <1>4, <1>5 DEF ClaimInv, Claims, CallShape, At, Of, Callers, SpawnInv, Spawning
<1>11. HostInv'
  BY <1>1, <1>2, <1>3, <1>4, <1>5 DEF HostInv, At, Of, Callers
<1>12. BodyInv'
  BY <1>1, <1>2, <1>3, <1>4, <1>5 DEF BodyInv, KnownRuns, OneRun, RunsFound, ListedRuns, ActiveListed, Live, At, Of, Callers
<1>13. ApartInv'
  BY <1>1, <1>2, <1>3, <1>4, <1>5 DEF ApartInv, LeasesLive, LaunchApart, TodoApart, Live, At, Of, Callers, BodyInv, RunsFound, Bodies
<1>14. StopInv'
  BY <1>1, <1>2, <1>3, <1>4, <1>5 DEF StopInv, StopsRuns, AwaitsRuns, ExitedGone, Gone, At, Of, Callers
<1>15. StoppedLetsGo'
  BY <1>1, <1>2, <1>3, <1>4, <1>5 DEF StoppedLetsGo, At, Of, Callers
<1> QED BY <1>5, <1>6, <1>7, <1>8, <1>9, <1>10, <1>11, <1>12, <1>13, <1>14, <1>15

(* A call whose event has landed: the projection knows its worker, and no load is at work. *)
LEMMA Launching ==
  ASSUME IInv, NEW c \in Calls, At(c, "launch"), ~Waits(c)
  PROVE  /\ c \in Callers /\ Of(c) \in Workers /\ call[c].op \in {"spawn", "resume"}
         /\ \A i \in 1..Len(queue) : queue[i].by # c
         /\ entry[Of(c)].status # "none"
         /\ call[Host].pc # "loading" /\ runtime # "off" /\ todo = {}
<1> USE Actors DEF IInv, At, Of, Waits, Callers
<1>1. /\ c \in Callers /\ Of(c) \in Workers /\ call[c].op \in {"spawn", "resume"}
      /\ \A i \in 1..Len(queue) : queue[i].by # c
  BY DEF CallShape
<1>2. entry[Of(c)].status # "none"
  BY <1>1 DEF SpawnInv, Spawning, KnownInv
<1>3. call[Host].pc # "loading" /\ runtime # "off" /\ todo = {}
  BY <1>1 DEF HostInv, NoCall
<1> QED BY <1>1, <1>2, <1>3

LEMMA LaunchGivesUpKeeps == ASSUME IInv, NEW c \in Calls, Launches(c), runtime = "parking" PROVE IInv'
<1> USE Actors DEF IInv
<1>1. /\ c \in Callers /\ call[c].pc = "launch" /\ Of(c) \in Workers /\ call[c].op \in {"spawn", "resume"}
      /\ \A i \in 1..Len(queue) : queue[i].by # c
      /\ entry[Of(c)].status # "none"
      /\ call[Host].pc # "loading" /\ runtime # "off" /\ todo = {}
      /\ UNCHANGED <<entry, abandoned, runtime, todo, upsets, refused>>
  BY Launching DEF Launches, At, Waits, budgets
<1>2. /\ call' = [call EXCEPT ![c] = NoCall] /\ launching' = launching \ {Of(c)}
      /\ UNCHANGED <<queue, running, body>>
  BY DEF Launches, Done, Of
<1>3. /\ call' \in [Callers -> CallType] /\ call'[c].pc = "idle" /\ call'[c].op = "none" /\ call'[c].bodies = {}
      /\ \A d \in Callers : d # c => call'[d] = call[d]
  BY <1>1, <1>2, CallEffect, Nulls DEF NoCall
<1>4. TypeOK'
  BY <1>1, <1>2, <1>3 DEF TypeOK, At, Of, Callers
<1>5. QueueInv'
  BY <1>1, <1>2, <1>3, <1>4 DEF QueueInv, CallEvents, HostEvents, BodyEvents, OneEvent, At, Of, Callers
<1>6. CallShape'
  BY <1>1, <1>2, <1>3, <1>4 DEF CallShape, At, Of, Callers
<1>7. KnownInv'
  BY <1>1, <1>2, <1>3, <1>4 DEF KnownInv, At, Of, Callers
<1>8. SpawnInv'
  BY <1>1, <1>2, <1>3, <1>4 DEF SpawnInv, Spawning, At, Of, Callers
<1>9. ClaimInv'
  BY <1>1, <1>2, <1>3, <1>4 DEF ClaimInv, Claims, CallShape, At, Of, Callers
<1>10. HostInv'
  BY <1>1, <1>2, <1>3, <1>4 DEF HostInv, At, Of, Callers
<1>11. BodyInv'
  BY <1>1, <1>2, <1>3, <1>4 DEF BodyInv, KnownRuns, OneRun, RunsFound, ListedRuns, ActiveListed, Live, At, Of, Callers
<1>12. ApartInv'
  BY <1>1, <1>2, <1>3, <1>4 DEF ApartInv, LeasesLive, LaunchApart, TodoApart, Live, At, Of, Callers
<1>13. StopInv'
  BY <1>1, <1>2, <1>3, <1>4 DEF StopInv, StopsRuns, AwaitsRuns, ExitedGone, Gone, At, Of, Callers
<1>14. StoppedLetsGo'
  BY <1>1, <1>2, <1>3, <1>4 DEF StoppedLetsGo, At, Of, Callers
<1> QED BY <1>4, <1>5, <1>6, <1>7, <1>8, <1>9, <1>10, <1>11, <1>12, <1>13, <1>14

LEMMA LaunchStartsKeeps == ASSUME IInv, NEW c \in Calls, Launches(c), runtime = "ready", Room PROVE IInv'
<1> USE Actors DEF IInv
<1>1. /\ c \in Callers /\ call[c].pc = "launch" /\ Of(c) \in Workers /\ call[c].op \in {"spawn", "resume"}
      /\ \A i \in 1..Len(queue) : queue[i].by # c
      /\ entry[Of(c)].status # "none"
      /\ call[Host].pc # "loading" /\ runtime # "off" /\ todo = {}
      /\ UNCHANGED <<entry, abandoned, runtime, todo, upsets, refused>>
  BY Launching DEF Launches, At, Waits, budgets
<1>2. /\ call' = [call EXCEPT ![c] = NoCall] /\ launching' = launching \ {Of(c)} /\ Starts(Of(c), call[c].seen)
  BY DEF Launches, Done, Of
<1>3. /\ call' \in [Callers -> CallType] /\ call'[c].pc = "idle" /\ call'[c].op = "none" /\ call'[c].bodies = {}
      /\ \A d \in Callers : d # c => call'[d] = call[d]
  BY <1>1, <1>2, CallEffect, Nulls DEF NoCall
<1>4. PICK b \in Bodies :
       /\ body[b].pc = "none"
       /\ body' \in [Bodies -> BodyType]
       /\ body'[b].worker = Of(c) /\ body'[b].active /\ body'[b].lease /\ body'[b].pc \in {"starting", "executing"}
       /\ body'[b].pc = "executing" => UNCHANGED queue
       /\ \A d \in Bodies : d # b => body'[d] = body[d]
       /\ running' \in [Workers -> Bodies \union {0}]
       /\ running'[Of(c)] = b /\ \A v \in Workers : v # Of(c) => running'[v] = running[v]
       /\ queue' \in Seq(Event)
       /\ \A i \in 1..Len(queue') :
            \/ i = Len(queue') /\ queue'[i].type = "execution" /\ queue'[i].worker = Of(c) /\ queue'[i].by = b
            \/ i \in 1..Len(queue) /\ queue'[i] = queue[i]
       /\ \A i \in 1..Len(queue) : i \in 1..Len(queue') /\ queue'[i] = queue[i]
  BY <1>1, <1>2, StartsEffect
<1>5. \A d \in Bodies : Live(d) => body[d].worker # Of(c)
  BY <1>1 DEF ApartInv, LaunchApart, At
<1>6. TypeOK'
  BY <1>1, <1>2, <1>3, <1>4, <1>5 DEF TypeOK, At, Of, Callers
<1>7. QueueInv'
  <2> USE <1>1, <1>2, <1>3, <1>4, <1>5, <1>6 DEF At, Of, Callers, Waits
  <2>1. CallEvents'
    <3> SUFFICES ASSUME NEW i \in 1..Len(queue'), queue'[i].by \in Calls
                 PROVE  /\ queue'[i].worker = call'[queue'[i].by].worker
                        /\ call'[queue'[i].by].pc \in {"launch", "answer"}
                        /\ queue'[i].type # "sub"
                        /\ queue'[i].type \in {"paused", "held"} =>
                             call'[queue'[i].by].pc = "answer" /\ call'[queue'[i].by].op \in {"resume", "paused"}
      BY DEF CallEvents
    <3>1. i \in 1..Len(queue) /\ queue'[i] = queue[i]
      OBVIOUS
    <3>2. queue[i].by # c
      BY <3>1
    <3> QED BY <3>1, <3>2 DEF QueueInv, CallEvents
  <2>2. HostEvents'  BY DEF QueueInv, HostEvents
  <2>3. BodyEvents'  BY DEF QueueInv, BodyEvents
  <2>4. OneEvent'  BY DEF QueueInv, OneEvent, BodyEvents
  <2> QED BY <2>1, <2>2, <2>3, <2>4 DEF QueueInv
<1>8. CallShape'
  BY <1>1, <1>2, <1>3, <1>4, <1>5, <1>6 DEF CallShape, At, Of, Callers
<1>9. KnownInv'
  BY <1>1, <1>2, <1>3, <1>4, <1>5, <1>6 DEF KnownInv, At, Of, Callers
<1>10. SpawnInv'
  BY <1>1, <1>2, <1>3, <1>4, <1>5, <1>6 DEF SpawnInv, Spawning, At, Of, Callers
<1>11. ClaimInv'
  BY <1>1, <1>2, <1>3, <1>4, <1>5, <1>6 DEF ClaimInv, Claims, CallShape, At, Of, Callers
<1>12. HostInv'
  BY <1>1, <1>2, <1>3, <1>4, <1>5, <1>6 DEF HostInv, At, Of, Callers
<1>13. BodyInv'
  <2> USE <1>1, <1>2, <1>3, <1>4, <1>5, <1>6 DEF At, Of, Callers, Live
  <2>1. KnownRuns'  BY DEF BodyInv, KnownRuns
  <2>2. OneRun'  BY DEF BodyInv, OneRun
  <2>3. RunsFound'  BY DEF BodyInv, RunsFound, KnownRuns
  <2>4. ListedRuns'  BY DEF BodyInv, ListedRuns, TypeOK, KnownRuns
  <2>5. ActiveListed'  BY DEF BodyInv, ActiveListed, KnownRuns
  <2> QED BY <2>1, <2>2, <2>3, <2>4, <2>5 DEF BodyInv
<1>14. ApartInv'
  BY <1>1, <1>2, <1>3, <1>4, <1>5, <1>6 DEF ApartInv, LeasesLive, LaunchApart, TodoApart, Live, At, Of, Callers, ClaimInv, Claims, CallShape
<1>15. StopInv'
  <2> USE <1>1, <1>2, <1>3, <1>4, <1>5, <1>6 DEF At, Of, Callers, Gone
  <2>1. StopsRuns'  BY StopsBodies DEF StopInv, StopsRuns
  <2>2. AwaitsRuns'  BY StopsBodies DEF StopInv, AwaitsRuns
  <2>3. ExitedGone'  BY StopsBodies DEF StopInv, ExitedGone
  <2> QED BY <2>1, <2>2, <2>3 DEF StopInv
<1>16. StoppedLetsGo'
  BY <1>1, <1>2, <1>3, <1>4, <1>5, <1>6 DEF StoppedLetsGo, At, Of, Callers
<1> QED BY <1>6, <1>7, <1>8, <1>9, <1>10, <1>11, <1>12, <1>13, <1>14, <1>15, <1>16

LEMMA LaunchRefusedKeeps == ASSUME IInv, NEW c \in Calls, Launches(c), runtime # "parking", ~(runtime = "ready" /\ Room) PROVE IInv'
<1> USE Actors DEF IInv
<1>1. /\ c \in Callers /\ call[c].pc = "launch" /\ Of(c) \in Workers /\ call[c].op \in {"spawn", "resume"}
      /\ \A i \in 1..Len(queue) : queue[i].by # c
      /\ entry[Of(c)].status # "none"
      /\ call[Host].pc # "loading" /\ runtime # "off" /\ todo = {}
      /\ UNCHANGED <<entry, abandoned, runtime, todo, upsets, refused>>
  BY Launching DEF Launches, At, Waits, budgets
<1>2. PICK type \in {"ended", "held", "paused"} :
       /\ type = "ended" <=> call[c].op # "resume"
       /\ Emits(type, Of(c), c) /\ Goes(c, "answer")
       /\ UNCHANGED <<running, body, launching>>
  BY DEF Launches, Of
<1>3. /\ call' \in [Callers -> CallType]
      /\ call'[c].pc = "answer"
      /\ call'[c].op = call[c].op /\ call'[c].worker = call[c].worker /\ call'[c].bodies = call[c].bodies
      /\ \A d \in Callers : d # c => call'[d] = call[d]
  <2>1. call[c].exited \in BOOLEAN
    BY <1>1 DEF TypeOK, CallType
  <2> QED BY <1>1, <1>2, <2>1, GoesEffect
<1>4. /\ queue' \in Seq(Event)
      /\ \A i \in 1..Len(queue') :
           \/ i = Len(queue') /\ queue'[i].type = type /\ queue'[i].worker = Of(c) /\ queue'[i].by = c
           \/ i \in 1..Len(queue) /\ queue'[i] = queue[i]
      /\ \A i \in 1..Len(queue) : i \in 1..Len(queue') /\ queue'[i] = queue[i]
  BY <1>1, <1>2, EmitsEffect DEF EventTypes
<1>5. TypeOK'
  BY <1>1, <1>2, <1>3, <1>4 DEF TypeOK, At, Of, Callers
<1>6. QueueInv'
  <2> USE <1>1, <1>2, <1>3, <1>4, <1>5 DEF At, Of, Callers, Waits
  <2>1. CallEvents'  BY DEF QueueInv, CallEvents
  <2>2. HostEvents'  BY DEF QueueInv, HostEvents
  <2>3. BodyEvents'  BY DEF QueueInv, BodyEvents
  <2>4. OneEvent'  BY DEF QueueInv, OneEvent
  <2> QED BY <2>1, <2>2, <2>3, <2>4 DEF QueueInv
<1>7. CallShape'
  BY <1>1, <1>2, <1>3, <1>4, <1>5 DEF CallShape, At, Of, Callers
<1>8. KnownInv'
  BY <1>1, <1>2, <1>3, <1>4, <1>5 DEF KnownInv, At, Of, Callers
<1>9. SpawnInv'
  BY <1>1, <1>2, <1>3, <1>4, <1>5 DEF SpawnInv, Spawning, At, Of, Callers
<1>10. ClaimInv'
  BY <1>1, <1>2, <1>3, <1>4, <1>5 DEF ClaimInv, Claims, CallShape, At, Of, Callers
<1>11. HostInv'
  BY <1>1, <1>2, <1>3, <1>4, <1>5 DEF HostInv, At, Of, Callers
<1>12. BodyInv'
  BY <1>1, <1>2, <1>3, <1>4, <1>5 DEF BodyInv, KnownRuns, OneRun, RunsFound, ListedRuns, ActiveListed, Live, At, Of, Callers
<1>13. ApartInv'
  BY <1>1, <1>2, <1>3, <1>4, <1>5 DEF ApartInv, LeasesLive, LaunchApart, TodoApart, Live, At, Of, Callers
<1>14. StopInv'
  BY <1>1, <1>2, <1>3, <1>4, <1>5 DEF StopInv, StopsRuns, AwaitsRuns, ExitedGone, Gone, At, Of, Callers
<1>15. StoppedLetsGo'
  BY <1>1, <1>2, <1>3, <1>4, <1>5 DEF StoppedLetsGo, At, Of, Callers
<1> QED BY <1>5, <1>6, <1>7, <1>8, <1>9, <1>10, <1>11, <1>12, <1>13, <1>14, <1>15

LEMMA LaunchesKeeps == ASSUME IInv, NEW c \in Calls, Launches(c) PROVE IInv'
  BY LaunchGivesUpKeeps, LaunchStartsKeeps, LaunchRefusedKeeps

LEMMA AnswersKeeps == ASSUME IInv, NEW c \in Calls, Answers(c) PROVE IInv'
<1> USE Actors DEF IInv
<1>1. /\ c \in Callers /\ call[c].pc = "answer" /\ NoCall.pc = "idle" /\ NoCall.op = "none"
      /\ \A i \in 1..Len(queue) : queue[i].by # c
      /\ call' = [call EXCEPT ![c] = NoCall]
      /\ launching' = IF call[c].op = "resume" THEN launching \ {call[c].worker} ELSE launching
      /\ UNCHANGED <<entry, queue, running, abandoned, body, runtime, todo, upsets, refused>>
  BY DEF Answers, At, Done, Waits, NoCall, Callers, budgets
<1>2. /\ call' \in [Callers -> CallType] /\ call'[c] = NoCall
      /\ \A d \in Callers : d # c => call'[d] = call[d]
  BY <1>1, Nulls, CallEffect
<1>3. TypeOK'
  BY <1>1, <1>2 DEF TypeOK, At, Of, Callers
<1>4. QueueInv'
  BY <1>1, <1>2, <1>3 DEF QueueInv, CallEvents, HostEvents, BodyEvents, OneEvent, At, Of, Callers
<1>5. CallShape'
  BY <1>1, <1>2, <1>3 DEF CallShape, At, Of, Callers
<1>6. KnownInv'
  BY <1>1, <1>2, <1>3 DEF KnownInv, At, Of, Callers
<1>7. SpawnInv'
  BY <1>1, <1>2, <1>3 DEF SpawnInv, Spawning, At, Of, Callers
<1>8. ClaimInv'
  BY <1>1, <1>2, <1>3 DEF ClaimInv, Claims, CallShape, At, Of, Callers
<1>9. HostInv'
  BY <1>1, <1>2, <1>3 DEF HostInv, At, Of, Callers, NoCall
<1>10. BodyInv'
  BY <1>1, <1>2, <1>3 DEF BodyInv, KnownRuns, OneRun, RunsFound, ListedRuns, ActiveListed, Live, At, Of, Callers
<1>11. ApartInv'
  BY <1>1, <1>2, <1>3 DEF ApartInv, LeasesLive, LaunchApart, TodoApart, Live, At, Of, Callers
<1>12. StopInv'
  BY <1>1, <1>2, <1>3 DEF StopInv, StopsRuns, AwaitsRuns, ExitedGone, Gone, At, Of, Callers
<1>13. StoppedLetsGo'
  BY <1>1, <1>2, <1>3 DEF StoppedLetsGo, At, Of, Callers
<1> QED BY <1>3, <1>4, <1>5, <1>6, <1>7, <1>8, <1>9, <1>10, <1>11, <1>12, <1>13

-----------------------------------------------------------------------------
(* cancel, pause and the stop they share with park and close. *)
LEMMA CancelIdleKeeps == ASSUME IInv, NEW c \in Calls, NEW w \in Workers, Cancel(c, w), running[w] = 0 PROVE IInv'
<1> USE Actors DEF IInv
<1>1. /\ c \in Callers /\ call[c].pc = "idle" /\ runtime = "ready" /\ call[Host].pc = "idle"
      /\ entry[w].status # "none"
      /\ UNCHANGED <<entry, running, launching, abandoned, runtime, todo, upsets, refused>>
  BY DEF Cancel, Serves, At, Callers, maps, budgets
<1>2. PICK r \in CallType : /\ r.op = "cancelled" /\ r.worker = w /\ r.pc = "answer"
                            /\ call' = [call EXCEPT ![c] = r]
  BY Nulls DEF Cancel, CallType, NoCall
<1>3. /\ call' \in [Callers -> CallType] /\ call'[c] = r
      /\ \A d \in Callers : d # c => call'[d] = call[d]
  BY <1>1, <1>2, CallEffect
<1>4. UNCHANGED body /\ Emits("cancelled", w, c)
  BY DEF Cancel
<1>5. /\ queue' \in Seq(Event)
      /\ \A i \in 1..Len(queue') :
           \/ i = Len(queue') /\ queue'[i].type = "cancelled" /\ queue'[i].worker = w /\ queue'[i].by = c
           \/ i \in 1..Len(queue) /\ queue'[i] = queue[i]
      /\ \A i \in 1..Len(queue) : i \in 1..Len(queue') /\ queue'[i] = queue[i]
  BY <1>1, <1>4, EmitsEffect DEF EventTypes
<1>6. TypeOK'
  BY <1>1, <1>2, <1>3, <1>4, <1>5 DEF TypeOK, At, Of, Callers
<1>7. QueueInv'
  <2> USE <1>1, <1>2, <1>3, <1>4, <1>5, <1>6 DEF At, Of, Callers, Waits
  <2>1. CallEvents'  BY DEF QueueInv, CallEvents
  <2>2. HostEvents'  BY DEF QueueInv, HostEvents
  <2>3. BodyEvents'  BY DEF QueueInv, BodyEvents
  <2>4. OneEvent'  BY DEF QueueInv, OneEvent, CallEvents
  <2> QED BY <2>1, <2>2, <2>3, <2>4 DEF QueueInv
<1>8. CallShape'
  BY <1>1, <1>2, <1>3, <1>4, <1>5, <1>6 DEF CallShape, At, Of, Callers
<1>9. KnownInv'
  BY <1>1, <1>2, <1>3, <1>4, <1>5, <1>6 DEF KnownInv, At, Of, Callers
<1>10. SpawnInv'
  BY <1>1, <1>2, <1>3, <1>4, <1>5, <1>6 DEF SpawnInv, Spawning, At, Of, Callers
<1>11. ClaimInv'
  BY <1>1, <1>2, <1>3, <1>4, <1>5, <1>6 DEF ClaimInv, Claims, CallShape, At, Of, Callers
<1>12. HostInv'
  BY <1>1, <1>2, <1>3, <1>4, <1>5, <1>6 DEF HostInv, At, Of, Callers
<1>13. BodyInv'
  BY <1>1, <1>2, <1>3, <1>4, <1>5, <1>6 DEF BodyInv, KnownRuns, OneRun, RunsFound, ListedRuns, ActiveListed, Live, At, Of, Callers
<1>14. ApartInv'
  BY <1>1, <1>2, <1>3, <1>4, <1>5, <1>6 DEF ApartInv, LeasesLive, LaunchApart, TodoApart, Live, At, Of, Callers
<1>15. StopInv'
  BY <1>1, <1>2, <1>3, <1>4, <1>5, <1>6 DEF StopInv, StopsRuns, AwaitsRuns, ExitedGone, Gone, At, Of, Callers
<1>16. StoppedLetsGo'
  BY <1>1, <1>2, <1>3, <1>4, <1>5, <1>6 DEF StoppedLetsGo, At, Of, Callers
<1> QED BY <1>6, <1>7, <1>8, <1>9, <1>10, <1>11, <1>12, <1>13, <1>14, <1>15, <1>16

LEMMA CancelRunningKeeps == ASSUME IInv, NEW c \in Calls, NEW w \in Workers, Cancel(c, w), running[w] # 0 PROVE IInv'
<1> USE Actors DEF IInv
<1>1. /\ c \in Callers /\ call[c].pc = "idle" /\ runtime = "ready" /\ call[Host].pc = "idle"
      /\ entry[w].status # "none"
      /\ UNCHANGED <<entry, running, launching, abandoned, runtime, todo, upsets, refused>>
  BY DEF Cancel, Serves, At, Callers, maps, budgets
<1>2. /\ running[w] \in Bodies /\ Live(running[w]) /\ body[running[w]].worker = w
      /\ Stops(c, "cancelled", w, {running[w]})
      /\ UNCHANGED queue
  BY DEF Cancel, TypeOK, BodyInv, ListedRuns
<1>3. /\ body' \in [Bodies -> BodyType]
      /\ \A b \in Bodies : /\ body'[b].worker = body[b].worker /\ body'[b].pc = body[b].pc
                           /\ body'[b].lease = body[b].lease
                           /\ body'[b].active => body[b].active /\ b # running[w]
                           /\ body[b].active /\ b # running[w] => body'[b].active
      /\ call' \in [Callers -> CallType]
      /\ call'[c].op = "cancelled" /\ call'[c].worker = w /\ call'[c].pc = "stopping" /\ call'[c].bodies = {running[w]}
      /\ \A d \in Callers : d # c => call'[d] = call[d]
  BY <1>1, <1>2, StopsEffect
<1>4. TypeOK'
  BY <1>1, <1>2, <1>3 DEF TypeOK, At, Of, Callers
<1>5. QueueInv'
  BY <1>1, <1>2, <1>3, <1>4 DEF QueueInv, CallEvents, HostEvents, BodyEvents, OneEvent, At, Of, Callers
<1>6. CallShape'
  BY <1>1, <1>2, <1>3, <1>4 DEF CallShape, At, Of, Callers
<1>7. KnownInv'
  BY <1>1, <1>2, <1>3, <1>4 DEF KnownInv, At, Of, Callers
<1>8. SpawnInv'
  BY <1>1, <1>2, <1>3, <1>4 DEF SpawnInv, Spawning, At, Of, Callers
<1>9. ClaimInv'
  BY <1>1, <1>2, <1>3, <1>4 DEF ClaimInv, Claims, CallShape, At, Of, Callers
<1>10. HostInv'
  BY <1>1, <1>2, <1>3, <1>4 DEF HostInv, At, Of, Callers
<1>11. BodyInv'
  <2> USE <1>1, <1>2, <1>3, <1>4 DEF At, Of, Callers, Live
  <2>1. KnownRuns'  BY DEF BodyInv, KnownRuns
  <2>2. OneRun'  BY DEF BodyInv, OneRun
  <2>3. RunsFound'  BY DEF BodyInv, RunsFound
  <2>4. ListedRuns'  BY DEF BodyInv, ListedRuns, TypeOK
  <2>5. ActiveListed'  BY DEF BodyInv, ActiveListed
  <2> QED BY <2>1, <2>2, <2>3, <2>4, <2>5 DEF BodyInv
<1>12. ApartInv'
  BY <1>1, <1>2, <1>3, <1>4 DEF ApartInv, LeasesLive, LaunchApart, TodoApart, Live, At, Of, Callers
<1>13. StopInv'
  <2> USE <1>1, <1>2, <1>3, <1>4 DEF At, Of, Callers, Gone
  <2>1. StopsRuns'  BY StopsBodies DEF StopInv, StopsRuns, Live
  <2>2. AwaitsRuns'  BY DEF StopInv, AwaitsRuns
  <2>3. ExitedGone'  BY StopsBodies DEF StopInv, ExitedGone
  <2> QED BY <2>1, <2>2, <2>3 DEF StopInv
<1>14. StoppedLetsGo'
  BY <1>1, <1>2, <1>3, <1>4 DEF StoppedLetsGo, At, Of, Callers
<1> QED BY <1>4, <1>5, <1>6, <1>7, <1>8, <1>9, <1>10, <1>11, <1>12, <1>13, <1>14

LEMMA CancelKeeps == ASSUME IInv, NEW c \in Calls, NEW w \in Workers, Cancel(c, w) PROVE IInv'
  BY CancelIdleKeeps, CancelRunningKeeps

LEMMA PauseKeeps == ASSUME IInv, NEW c \in Calls, NEW w \in Workers, Pause(c, w) PROVE IInv'
<1> USE Actors DEF IInv
<1>1. /\ c \in Callers /\ call[c].pc = "idle" /\ runtime = "ready" /\ call[Host].pc = "idle"
      /\ entry[w].status = "running" /\ running[w] \in Bodies
      /\ Live(running[w]) /\ body[running[w]].worker = w
      /\ Stops(c, "paused", w, {running[w]})
      /\ UNCHANGED <<entry, queue, running, launching, abandoned, runtime, todo, upsets, refused>>
  BY DEF Pause, Serves, At, Callers, maps, budgets, TypeOK, BodyInv, ListedRuns
<1>2. /\ body' \in [Bodies -> BodyType]
      /\ \A b \in Bodies : /\ body'[b].worker = body[b].worker /\ body'[b].pc = body[b].pc
                           /\ body'[b].lease = body[b].lease
                           /\ body'[b].active => body[b].active /\ b # running[w]
                           /\ body[b].active /\ b # running[w] => body'[b].active
      /\ call' \in [Callers -> CallType]
      /\ call'[c].op = "paused" /\ call'[c].worker = w /\ call'[c].pc = "stopping" /\ call'[c].bodies = {running[w]}
      /\ \A d \in Callers : d # c => call'[d] = call[d]
  BY <1>1, StopsEffect
<1>3. TypeOK'
  BY <1>1, <1>2 DEF TypeOK, At, Of, Callers
<1>4. QueueInv'
  BY <1>1, <1>2, <1>3 DEF QueueInv, CallEvents, HostEvents, BodyEvents, OneEvent, At, Of, Callers
<1>5. CallShape'
  BY <1>1, <1>2, <1>3 DEF CallShape, At, Of, Callers
<1>6. KnownInv'
  BY <1>1, <1>2, <1>3 DEF KnownInv, At, Of, Callers
<1>7. SpawnInv'
  BY <1>1, <1>2, <1>3 DEF SpawnInv, Spawning, At, Of, Callers, ApartInv, LaunchApart, Live
<1>8. ClaimInv'
  BY <1>1, <1>2, <1>3 DEF ClaimInv, Claims, CallShape, At, Of, Callers
<1>9. HostInv'
  BY <1>1, <1>2, <1>3 DEF HostInv, At, Of, Callers
<1>10. BodyInv'
  <2> USE <1>1, <1>2, <1>3 DEF At, Of, Callers, Live
  <2>1. KnownRuns'  BY DEF BodyInv, KnownRuns
  <2>2. OneRun'  BY DEF BodyInv, OneRun
  <2>3. RunsFound'  BY DEF BodyInv, RunsFound
  <2>4. ListedRuns'  BY DEF BodyInv, ListedRuns, TypeOK
  <2>5. ActiveListed'  BY DEF BodyInv, ActiveListed
  <2> QED BY <2>1, <2>2, <2>3, <2>4, <2>5 DEF BodyInv
<1>11. ApartInv'
  BY <1>1, <1>2, <1>3 DEF ApartInv, LeasesLive, LaunchApart, TodoApart, Live, At, Of, Callers
<1>12. StopInv'
  <2> USE <1>1, <1>2, <1>3 DEF At, Of, Callers, Gone
  <2>1. StopsRuns'  BY StopsBodies DEF StopInv, StopsRuns, Live
  <2>2. AwaitsRuns'  BY DEF StopInv, AwaitsRuns
  <2>3. ExitedGone'  BY StopsBodies DEF StopInv, ExitedGone
  <2> QED BY <2>1, <2>2, <2>3 DEF StopInv
<1>13. StoppedLetsGo'
  BY <1>1, <1>2, <1>3 DEF StoppedLetsGo, At, Of, Callers
<1> QED BY <1>3, <1>4, <1>5, <1>6, <1>7, <1>8, <1>9, <1>10, <1>11, <1>12, <1>13

LEMMA StopWaitsKeeps == ASSUME IInv, NEW c \in Callers, StopWaits(c) PROVE IInv'
<1> USE Actors DEF IInv
<1>1. PICK e \in BOOLEAN : /\ e => Gone(call[c].bodies)
                          /\ call' = [call EXCEPT ![c].pc = "effects", ![c].exited = e]
  <2>1. CASE Gone(call[c].bodies)
    <3>1. call' = [call EXCEPT ![c].pc = "effects", ![c].exited = TRUE]
      BY <2>1 DEF StopWaits
    <3> QED BY <2>1, <3>1
  <2>2. CASE ~Gone(call[c].bodies)
    <3>1. Gone(call[c].bodies) = FALSE
      BY <2>2 DEF Gone
    <3>2. call' = [call EXCEPT ![c].pc = "effects", ![c].exited = FALSE]
      BY <3>1 DEF StopWaits
    <3> QED BY <3>2
  <2> QED BY <2>1, <2>2
<1>2. /\ call[c].pc = "stopping"
      /\ UNCHANGED <<entry, queue, running, launching, abandoned, body, runtime, todo, upsets, refused>>
  BY DEF StopWaits, At, maps, budgets
<1>3. /\ call' \in [Callers -> CallType]
      /\ call'[c].pc = "effects" /\ call'[c].exited = e
      /\ call'[c].op = call[c].op /\ call'[c].worker = call[c].worker /\ call'[c].bodies = call[c].bodies
      /\ \A d \in Callers : d # c => call'[d] = call[d]
  BY <1>1, GoesEffect
<1>4. TypeOK'
  BY <1>1, <1>2, <1>3 DEF TypeOK, At, Of, Callers
<1>5. QueueInv'
  BY <1>1, <1>2, <1>3, <1>4 DEF QueueInv, CallEvents, HostEvents, BodyEvents, OneEvent, At, Of, Callers
<1>6. CallShape'
  BY <1>1, <1>2, <1>3, <1>4 DEF CallShape, At, Of, Callers
<1>7. KnownInv'
  BY <1>1, <1>2, <1>3, <1>4 DEF KnownInv, At, Of, Callers
<1>8. SpawnInv'
  BY <1>1, <1>2, <1>3, <1>4 DEF SpawnInv, Spawning, At, Of, Callers
<1>9. ClaimInv'
  BY <1>1, <1>2, <1>3, <1>4 DEF ClaimInv, Claims, CallShape, At, Of, Callers
<1>10. HostInv'
  BY <1>1, <1>2, <1>3, <1>4 DEF HostInv, At, Of, Callers, NoCall
<1>11. BodyInv'
  BY <1>1, <1>2, <1>3, <1>4 DEF BodyInv, KnownRuns, OneRun, RunsFound, ListedRuns, ActiveListed, Live, At, Of, Callers
<1>12. ApartInv'
  BY <1>1, <1>2, <1>3, <1>4 DEF ApartInv, LeasesLive, LaunchApart, TodoApart, Live, At, Of, Callers
<1>13. StopInv'
  <2> USE <1>1, <1>2, <1>3, <1>4 DEF At, Of, Callers, Gone
  <2>1. StopsRuns'  BY DEF StopInv, StopsRuns
  <2>2. AwaitsRuns'  BY DEF StopInv, AwaitsRuns
  <2>3. ExitedGone'  BY StopsBodies DEF StopInv, ExitedGone
  <2> QED BY <2>1, <2>2, <2>3 DEF StopInv
<1>14. StoppedLetsGo'
  BY <1>1, <1>2, <1>3, <1>4 DEF StoppedLetsGo, At, Of, Callers
<1> QED BY <1>4, <1>5, <1>6, <1>7, <1>8, <1>9, <1>10, <1>11, <1>12, <1>13, <1>14

LEMMA StopEndsKeeps == ASSUME IInv, NEW c \in Callers, StopEnds(c) PROVE IInv'
<1> USE Actors DEF IInv
<1>1. /\ call[c].pc = "effects"
      /\ c \in Calls => call[c].worker \in Workers /\ call[c].op \in {"cancelled", "paused"}
      /\ call[c].exited => \A b \in call[c].bodies : body[b].pc = "gone"
      /\ \A b \in call[c].bodies : b \in Bodies /\ ~body[b].active
      /\ UNCHANGED <<entry, launching, runtime, todo, upsets, refused>>
  BY StopsBodies DEF StopEnds, At, Of, CallShape, StopInv, StopsRuns, ExitedGone, Gone, budgets
<1>2. /\ body' \in [Bodies -> BodyType]
      /\ \A b \in Bodies : /\ body'[b].worker = body[b].worker /\ body'[b].pc = body[b].pc
                           /\ body'[b].active = body[b].active
                           /\ body'[b].lease => body[b].lease /\ (b \in call[c].bodies => call[c].exited)
      /\ abandoned \subseteq abandoned' /\ abandoned' \subseteq Workers
      /\ \A b \in call[c].bodies : call[c].exited \/ body[b].pc = "gone" \/ body[b].worker \in abandoned'
      /\ running' \in [Workers -> Bodies \union {0}]
      /\ \A w \in Workers : running'[w] = IF running[w] \in call[c].bodies THEN 0 ELSE running[w]
      /\ call' \in [Callers -> CallType]
      /\ call'[c].pc = IF c = Host THEN "stopped" ELSE "answer"
      /\ call'[c].op = call[c].op /\ call'[c].worker = call[c].worker /\ call'[c].bodies = call[c].bodies
      /\ \A d \in Callers : d # c => call'[d] = call[d]
  <2>1. c \in Calls => Of(c) \in Workers /\ call[c].op \in EventTypes
    BY <1>1 DEF EventTypes, Of
  <2>2. \A b \in call[c].bodies : body[b].pc # "none" /\ (Live(b) => body[b].worker \in Workers)
    BY <1>1, StopsBodies DEF StopInv, StopsRuns, BodyInv, KnownRuns
  <2> QED BY <2>1, <2>2, StopEndsEffect
<1>3. /\ queue' \in Seq(Event)
      /\ \A i \in 1..Len(queue') :
           \/ i = Len(queue') /\ c \in Calls /\ queue'[i].type = call[c].op /\ queue'[i].worker = Of(c) /\ queue'[i].by = c
           \/ i \in 1..Len(queue) /\ queue'[i] = queue[i]
      /\ \A i \in 1..Len(queue) : i \in 1..Len(queue') /\ queue'[i] = queue[i]
      /\ c = Host => UNCHANGED queue
  <2>1. CASE c = Host
    BY <2>1 DEF StopEnds, TypeOK
  <2>2. CASE c \in Calls
    <3>1. Emits(call[c].op, call[c].worker, c)
      BY <2>2 DEF StopEnds
    <3> QED BY <1>1, <2>2, <3>1, EmitsEffect DEF EventTypes, Of
  <2> QED BY <2>1, <2>2 DEF Callers
<1>4. TypeOK'
  BY <1>1, <1>2, <1>3 DEF TypeOK, At, Of, Callers
<1>5. QueueInv'
  <2> USE <1>1, <1>2, <1>3, <1>4 DEF At, Of, Callers, Waits
  <2>1. CallEvents'  BY DEF QueueInv, CallEvents
  <2>2. HostEvents'  BY DEF QueueInv, HostEvents
  <2>3. BodyEvents'  BY DEF QueueInv, BodyEvents
  <2>4. OneEvent'  BY DEF QueueInv, OneEvent, CallEvents
  <2> QED BY <2>1, <2>2, <2>3, <2>4 DEF QueueInv
<1>6. CallShape'
  BY <1>1, <1>2, <1>3, <1>4 DEF CallShape, At, Of, Callers
<1>7. KnownInv'
  BY <1>1, <1>2, <1>3, <1>4 DEF KnownInv, At, Of, Callers
<1>8. SpawnInv'
  <2> USE <1>1, <1>2, <1>3, <1>4 DEF Spawning, At, Of, Callers
  <2>1. \A d \in Calls : Spawning(d) => entry[Of(d)].status # "paused"
    BY DEF SpawnInv
  <2>2. (\A d \in Calls : Spawning(d) => entry[Of(d)].status # "paused")'
    BY <2>1
  <2>3. (\A d \in Calls : Spawning(d) /\ entry[Of(d)].status = "none" =>
           \E i \in 1..Len(queue) : queue[i].by = d /\ queue[i].type = "started")'
    BY DEF SpawnInv
  <2>4. (\A d, f \in Calls : Spawning(d) /\ call[f].op \in {"resume", "paused"} => Of(f) # Of(d))'
    BY DEF SpawnInv
  <2> QED BY <2>2, <2>3, <2>4 DEF SpawnInv
<1>9. ClaimInv'
  BY <1>1, <1>2, <1>3, <1>4 DEF ClaimInv, Claims, CallShape, At, Of, Callers
<1>10. HostInv'
  BY <1>1, <1>2, <1>3, <1>4 DEF HostInv, At, Of, Callers, NoCall, NoBody
<1>11. BodyInv'
  <2> USE <1>1, <1>2, <1>3, <1>4 DEF At, Of, Callers, Live
  <2>1. KnownRuns'  BY DEF BodyInv, KnownRuns
  <2>2. OneRun'  BY DEF BodyInv, OneRun
  <2>3. RunsFound'  BY DEF BodyInv, RunsFound, KnownRuns
  <2>4. ListedRuns'  BY DEF BodyInv, ListedRuns
  <2>5. ActiveListed'  BY DEF BodyInv, ActiveListed, KnownRuns
  <2> QED BY <2>1, <2>2, <2>3, <2>4, <2>5 DEF BodyInv
<1>12. ApartInv'
  <2> USE <1>1, <1>2, <1>3, <1>4 DEF At, Of, Callers, Live
  <2>1. LeasesLive'  BY DEF ApartInv, LeasesLive, BodyInv
  <2>2. LaunchApart'  BY DEF ApartInv, LaunchApart
  <2>3. TodoApart'  BY DEF ApartInv, TodoApart
  <2> QED BY <2>1, <2>2, <2>3 DEF ApartInv
<1>13. StopInv'
  <2> USE <1>1, <1>2, <1>3, <1>4 DEF At, Of, Callers, Gone
  <2>1. StopsRuns'  BY StopsBodies DEF StopInv, StopsRuns
  <2>2. AwaitsRuns'  BY StopsBodies DEF StopInv, AwaitsRuns
  <2>3. ExitedGone'  BY StopsBodies DEF StopInv, ExitedGone
  <2> QED BY <2>1, <2>2, <2>3 DEF StopInv
<1>14. StoppedLetsGo'
  <2>1. SUFFICES ASSUME NEW b \in Bodies, body'[b].lease, ~body'[b].active, body'[b].pc # "draining"
                 PROVE  \E d \in Callers : call'[d].pc \in {"stopping", "effects"} /\ b \in call'[d].bodies
    BY DEF StoppedLetsGo
  <2>2. body[b].lease /\ ~body[b].active /\ body[b].pc # "draining" /\ b \notin call[c].bodies
    BY <1>1, <1>2, <2>1 DEF ApartInv, LeasesLive, Live
  <2>3. PICK d \in Callers : call[d].pc \in {"stopping", "effects"} /\ b \in call[d].bodies
    BY <2>2 DEF StoppedLetsGo
  <2> QED BY <1>2, <2>2, <2>3
<1> QED BY <1>4, <1>5, <1>6, <1>7, <1>8, <1>9, <1>10, <1>11, <1>12, <1>13, <1>14

-----------------------------------------------------------------------------
(* executeWorker. *)
LEMMA EntersKeeps == ASSUME IInv, NEW b \in Bodies, Enters(b) PROVE IInv'
<1> USE Actors DEF IInv
<1>1. PICK pc \in {"executing", "draining"} :
       /\ body[b].pc = "starting" /\ \A i \in 1..Len(queue) : queue[i].by # b
       /\ body' = [body EXCEPT ![b].pc = pc]
       /\ UNCHANGED <<entry, queue, running, launching, abandoned, call, runtime, todo, upsets, refused>>
  BY DEF Enters, Waits, maps, budgets
<1>2. /\ body' \in [Bodies -> BodyType]
      /\ body'[b].pc = pc /\ body'[b].worker = body[b].worker /\ body'[b].active = body[b].active
      /\ body'[b].lease = body[b].lease
      /\ \A d \in Bodies : d # b => body'[d] = body[d]
  BY <1>1, BodyEffect
<1>3. TypeOK'
  BY <1>1, <1>2 DEF TypeOK, At, Of, Callers
<1>4. QueueInv'
  BY <1>1, <1>2, <1>3 DEF QueueInv, CallEvents, HostEvents, BodyEvents, OneEvent, At, Of, Callers
<1>5. CallShape'
  BY <1>1, <1>2, <1>3 DEF CallShape, At, Of, Callers
<1>6. KnownInv'
  BY <1>1, <1>2, <1>3 DEF KnownInv, At, Of, Callers
<1>7. SpawnInv'
  BY <1>1, <1>2, <1>3 DEF SpawnInv, Spawning, At, Of, Callers
<1>8. ClaimInv'
  BY <1>1, <1>2, <1>3 DEF ClaimInv, Claims, CallShape, At, Of, Callers
<1>9. HostInv'
  BY <1>1, <1>2, <1>3 DEF HostInv, At, Of, Callers, NoBody
<1>10. BodyInv'
  BY <1>1, <1>2, <1>3 DEF BodyInv, KnownRuns, OneRun, RunsFound, ListedRuns, ActiveListed, Live, At, Of, Callers
<1>11. ApartInv'
  BY <1>1, <1>2, <1>3 DEF ApartInv, LeasesLive, LaunchApart, TodoApart, Live, At, Of, Callers
<1>12. StopInv'
  BY <1>1, <1>2, <1>3 DEF StopInv, StopsRuns, AwaitsRuns, ExitedGone, Gone, At, Of, Callers
<1>13. StoppedLetsGo'
  BY <1>1, <1>2, <1>3 DEF StoppedLetsGo, At, Of, Callers
<1> QED BY <1>3, <1>4, <1>5, <1>6, <1>7, <1>8, <1>9, <1>10, <1>11, <1>12, <1>13

LEMMA ProgressesKeeps == ASSUME IInv, NEW b \in Bodies, Progresses(b) PROVE IInv'
<1> USE Actors DEF IInv
<1>1. /\ body[b].pc = "executing" /\ body[b].worker \in Workers
      /\ Emits("sub", body[b].worker, b)
      /\ UNCHANGED <<entry, running, launching, abandoned, body, call, runtime, todo, upsets, refused>>
  BY DEF Progresses, maps, budgets, BodyInv, KnownRuns, Live
<1>2. /\ queue' \in Seq(Event)
      /\ \A i \in 1..Len(queue') :
           \/ i = Len(queue') /\ queue'[i].type = "sub" /\ queue'[i].worker = body[b].worker /\ queue'[i].by = b
           \/ i \in 1..Len(queue) /\ queue'[i] = queue[i]
      /\ \A i \in 1..Len(queue) : i \in 1..Len(queue') /\ queue'[i] = queue[i]
  BY <1>1, EmitsEffect DEF EventTypes
<1>3. TypeOK'
  BY <1>1, <1>2 DEF TypeOK, At, Of, Callers
<1>4. QueueInv'
  BY <1>1, <1>2, <1>3 DEF QueueInv, CallEvents, HostEvents, BodyEvents, OneEvent, At, Of, Callers
<1>5. CallShape'
  BY <1>1, <1>2, <1>3 DEF CallShape, At, Of, Callers
<1>6. KnownInv'
  BY <1>1, <1>2, <1>3 DEF KnownInv, At, Of, Callers
<1>7. SpawnInv'
  BY <1>1, <1>2, <1>3 DEF SpawnInv, Spawning, At, Of, Callers
<1>8. ClaimInv'
  BY <1>1, <1>2, <1>3 DEF ClaimInv, Claims, CallShape, At, Of, Callers
<1>9. HostInv'
  BY <1>1, <1>2, <1>3 DEF HostInv, At, Of, Callers, NoBody
<1>10. BodyInv'
  BY <1>1, <1>2, <1>3 DEF BodyInv, KnownRuns, OneRun, RunsFound, ListedRuns, ActiveListed, Live, At, Of, Callers
<1>11. ApartInv'
  BY <1>1, <1>2, <1>3 DEF ApartInv, LeasesLive, LaunchApart, TodoApart, Live, At, Of, Callers
<1>12. StopInv'
  BY <1>1, <1>2, <1>3 DEF StopInv, StopsRuns, AwaitsRuns, ExitedGone, Gone, At, Of, Callers
<1>13. StoppedLetsGo'
  BY <1>1, <1>2, <1>3 DEF StoppedLetsGo, At, Of, Callers
<1> QED BY <1>3, <1>4, <1>5, <1>6, <1>7, <1>8, <1>9, <1>10, <1>11, <1>12, <1>13

LEMMA ReturnsKeeps == ASSUME IInv, NEW b \in Bodies, Returns(b) PROVE IInv'
<1> USE Actors DEF IInv
<1>1. PICK pc \in {"returned", "draining"} :
       /\ body[b].pc = "executing"
       /\ body' = [body EXCEPT ![b].pc = pc]
       /\ UNCHANGED <<entry, queue, running, launching, abandoned, call, runtime, todo, upsets, refused>>
  BY DEF Returns, maps, budgets
<1>2. /\ body' \in [Bodies -> BodyType]
      /\ body'[b].pc = pc /\ body'[b].worker = body[b].worker /\ body'[b].active = body[b].active
      /\ body'[b].lease = body[b].lease
      /\ \A d \in Bodies : d # b => body'[d] = body[d]
  BY <1>1, BodyEffect
<1>3. TypeOK'
  BY <1>1, <1>2 DEF TypeOK, At, Of, Callers
<1>4. QueueInv'
  BY <1>1, <1>2, <1>3 DEF QueueInv, CallEvents, HostEvents, BodyEvents, OneEvent, At, Of, Callers
<1>5. CallShape'
  BY <1>1, <1>2, <1>3 DEF CallShape, At, Of, Callers
<1>6. KnownInv'
  BY <1>1, <1>2, <1>3 DEF KnownInv, At, Of, Callers
<1>7. SpawnInv'
  BY <1>1, <1>2, <1>3 DEF SpawnInv, Spawning, At, Of, Callers
<1>8. ClaimInv'
  BY <1>1, <1>2, <1>3 DEF ClaimInv, Claims, CallShape, At, Of, Callers
<1>9. HostInv'
  BY <1>1, <1>2, <1>3 DEF HostInv, At, Of, Callers, NoBody
<1>10. BodyInv'
  BY <1>1, <1>2, <1>3 DEF BodyInv, KnownRuns, OneRun, RunsFound, ListedRuns, ActiveListed, Live, At, Of, Callers
<1>11. ApartInv'
  BY <1>1, <1>2, <1>3 DEF ApartInv, LeasesLive, LaunchApart, TodoApart, Live, At, Of, Callers
<1>12. StopInv'
  BY <1>1, <1>2, <1>3 DEF StopInv, StopsRuns, AwaitsRuns, ExitedGone, Gone, At, Of, Callers
<1>13. StoppedLetsGo'
  BY <1>1, <1>2, <1>3 DEF StoppedLetsGo, At, Of, Callers
<1> QED BY <1>3, <1>4, <1>5, <1>6, <1>7, <1>8, <1>9, <1>10, <1>11, <1>12, <1>13

LEMMA ReportsKeeps == ASSUME IInv, NEW b \in Bodies, Reports(b) PROVE IInv'
<1> USE Actors DEF IInv
<1>1. /\ body[b].pc = "returned" /\ body' = [body EXCEPT ![b].pc = "finishing"]
      /\ body[b].worker \in Workers /\ \A i \in 1..Len(queue) : queue[i].by # b
      /\ Emits("ended", body[b].worker, b)
      /\ UNCHANGED <<entry, running, launching, abandoned, call, runtime, todo, upsets, refused>>
  BY DEF Reports, Waits, maps, budgets, BodyInv, KnownRuns, Live
<1>2. /\ body' \in [Bodies -> BodyType]
      /\ body'[b].pc = "finishing" /\ body'[b].worker = body[b].worker /\ body'[b].active = body[b].active
      /\ body'[b].lease = body[b].lease
      /\ \A d \in Bodies : d # b => body'[d] = body[d]
  BY <1>1, BodyEffect
<1>3. /\ queue' \in Seq(Event)
      /\ \A i \in 1..Len(queue') :
           \/ i = Len(queue') /\ queue'[i].type = "ended" /\ queue'[i].worker = body[b].worker /\ queue'[i].by = b
           \/ i \in 1..Len(queue) /\ queue'[i] = queue[i]
      /\ \A i \in 1..Len(queue) : i \in 1..Len(queue') /\ queue'[i] = queue[i]
  BY <1>1, EmitsEffect DEF EventTypes
<1>4. TypeOK'
  BY <1>1, <1>2, <1>3 DEF TypeOK, At, Of, Callers
<1>5. QueueInv'
  <2> USE <1>1, <1>2, <1>3, <1>4 DEF At, Of, Callers, Waits
  <2>1. CallEvents'  BY DEF QueueInv, CallEvents
  <2>2. HostEvents'  BY DEF QueueInv, HostEvents
  <2>3. BodyEvents'  BY DEF QueueInv, BodyEvents
  <2>4. OneEvent'  BY DEF QueueInv, OneEvent, BodyEvents
  <2> QED BY <2>1, <2>2, <2>3, <2>4 DEF QueueInv
<1>6. CallShape'
  BY <1>1, <1>2, <1>3, <1>4 DEF CallShape, At, Of, Callers
<1>7. KnownInv'
  BY <1>1, <1>2, <1>3, <1>4 DEF KnownInv, At, Of, Callers
<1>8. SpawnInv'
  BY <1>1, <1>2, <1>3, <1>4 DEF SpawnInv, Spawning, At, Of, Callers
<1>9. ClaimInv'
  BY <1>1, <1>2, <1>3, <1>4 DEF ClaimInv, Claims, CallShape, At, Of, Callers
<1>10. HostInv'
  BY <1>1, <1>2, <1>3, <1>4 DEF HostInv, At, Of, Callers, NoBody
<1>11. BodyInv'
  BY <1>1, <1>2, <1>3, <1>4 DEF BodyInv, KnownRuns, OneRun, RunsFound, ListedRuns, ActiveListed, Live, At, Of, Callers
<1>12. ApartInv'
  BY <1>1, <1>2, <1>3, <1>4 DEF ApartInv, LeasesLive, LaunchApart, TodoApart, Live, At, Of, Callers
<1>13. StopInv'
  BY <1>1, <1>2, <1>3, <1>4 DEF StopInv, StopsRuns, AwaitsRuns, ExitedGone, Gone, At, Of, Callers
<1>14. StoppedLetsGo'
  BY <1>1, <1>2, <1>3, <1>4 DEF StoppedLetsGo, At, Of, Callers
<1> QED BY <1>4, <1>5, <1>6, <1>7, <1>8, <1>9, <1>10, <1>11, <1>12, <1>13, <1>14

LEMMA FinishesKeeps == ASSUME IInv, NEW b \in Bodies, Finishes(b) PROVE IInv'
<1> USE Actors DEF IInv
<1>1. PICK pc \in {"executing", "draining"} :
       /\ body[b].pc \in {"finishing", "failing"} /\ \A i \in 1..Len(queue) : queue[i].by # b
       /\ body' = [body EXCEPT ![b].pc = pc]
       /\ UNCHANGED <<entry, queue, running, launching, abandoned, call, runtime, todo, upsets, refused>>
  BY DEF Finishes, Waits, maps, budgets
<1>2. /\ body' \in [Bodies -> BodyType]
      /\ body'[b].pc = pc /\ body'[b].worker = body[b].worker /\ body'[b].active = body[b].active
      /\ body'[b].lease = body[b].lease
      /\ \A d \in Bodies : d # b => body'[d] = body[d]
  BY <1>1, BodyEffect
<1>3. TypeOK'
  BY <1>1, <1>2 DEF TypeOK, At, Of, Callers
<1>4. QueueInv'
  BY <1>1, <1>2, <1>3 DEF QueueInv, CallEvents, HostEvents, BodyEvents, OneEvent, At, Of, Callers
<1>5. CallShape'
  BY <1>1, <1>2, <1>3 DEF CallShape, At, Of, Callers
<1>6. KnownInv'
  BY <1>1, <1>2, <1>3 DEF KnownInv, At, Of, Callers
<1>7. SpawnInv'
  BY <1>1, <1>2, <1>3 DEF SpawnInv, Spawning, At, Of, Callers
<1>8. ClaimInv'
  BY <1>1, <1>2, <1>3 DEF ClaimInv, Claims, CallShape, At, Of, Callers
<1>9. HostInv'
  BY <1>1, <1>2, <1>3 DEF HostInv, At, Of, Callers, NoBody
<1>10. BodyInv'
  BY <1>1, <1>2, <1>3 DEF BodyInv, KnownRuns, OneRun, RunsFound, ListedRuns, ActiveListed, Live, At, Of, Callers
<1>11. ApartInv'
  BY <1>1, <1>2, <1>3 DEF ApartInv, LeasesLive, LaunchApart, TodoApart, Live, At, Of, Callers
<1>12. StopInv'
  BY <1>1, <1>2, <1>3 DEF StopInv, StopsRuns, AwaitsRuns, ExitedGone, Gone, At, Of, Callers
<1>13. StoppedLetsGo'
  BY <1>1, <1>2, <1>3 DEF StoppedLetsGo, At, Of, Callers
<1> QED BY <1>3, <1>4, <1>5, <1>6, <1>7, <1>8, <1>9, <1>10, <1>11, <1>12, <1>13

LEMMA EndsKeeps == ASSUME IInv, NEW b \in Bodies, Ends(b) PROVE IInv'
<1> USE Actors DEF IInv
<1>1. /\ body[b].pc = "draining" /\ body[b].worker \in Workers
      /\ body' = [body EXCEPT ![b] = [NoBody EXCEPT !.pc = "gone"]]
      /\ running' = [w \in Workers |-> IF running[w] = b THEN 0 ELSE running[w]]
      /\ abandoned' = abandoned \ {body[b].worker}
      /\ UNCHANGED <<entry, queue, launching, call, runtime, todo, upsets, refused>>
  BY DEF Ends, budgets, BodyInv, KnownRuns, Live
<1>2. /\ body' \in [Bodies -> BodyType]
      /\ body'[b].pc = "gone" /\ ~body'[b].active /\ ~body'[b].lease
      /\ \A d \in Bodies : d # b => body'[d] = body[d]
  BY <1>1, Nulls DEF TypeOK, BodyType, NoBody
<1>3. TypeOK'
  BY <1>1, <1>2 DEF TypeOK, At, Of, Callers
<1>4. QueueInv'
  BY <1>1, <1>2, <1>3 DEF QueueInv, CallEvents, HostEvents, BodyEvents, OneEvent, At, Of, Callers
<1>5. CallShape'
  BY <1>1, <1>2, <1>3 DEF CallShape, At, Of, Callers
<1>6. KnownInv'
  BY <1>1, <1>2, <1>3 DEF KnownInv, At, Of, Callers
<1>7. SpawnInv'
  BY <1>1, <1>2, <1>3 DEF SpawnInv, Spawning, At, Of, Callers
<1>8. ClaimInv'
  BY <1>1, <1>2, <1>3 DEF ClaimInv, Claims, CallShape, At, Of, Callers
<1>9. HostInv'
  BY <1>1, <1>2, <1>3 DEF HostInv, At, Of, Callers, NoBody
<1>10. BodyInv'
  BY <1>1, <1>2, <1>3 DEF BodyInv, KnownRuns, OneRun, RunsFound, ListedRuns, ActiveListed, Live, At, Of, Callers
<1>11. ApartInv'
  BY <1>1, <1>2, <1>3 DEF ApartInv, LeasesLive, LaunchApart, TodoApart, Live, At, Of, Callers
<1>12. StopInv'
  BY <1>1, <1>2, <1>3 DEF StopInv, StopsRuns, AwaitsRuns, ExitedGone, Gone, At, Of, Callers
<1>13. StoppedLetsGo'
  BY <1>1, <1>2, <1>3 DEF StoppedLetsGo, At, Of, Callers
<1> QED BY <1>3, <1>4, <1>5, <1>6, <1>7, <1>8, <1>9, <1>10, <1>11, <1>12, <1>13

-----------------------------------------------------------------------------
(* The session: park, close and load. *)
LEMMA ParkBeginsKeeps == ASSUME IInv, ParkBegins PROVE IInv'
<1> USE Actors DEF IInv
<1>1. /\ call[Host].pc = "idle" /\ runtime = "ready" /\ runtime' = "parking"
      /\ upsets < MaxUpsets /\ upsets' = upsets + 1
      /\ UNCHANGED <<entry, queue, running, launching, abandoned, body, todo, refused>>
  BY DEF ParkBegins, Serves, Upset, At, maps
<1>2. \A d \in {running[w] : w \in Listed} : d \in Bodies /\ Live(d)
  BY DEF Listed, BodyInv, ListedRuns, TypeOK
<1>3. PICK r \in CallType : /\ r.op = "park" /\ r.pc = "awaiting" /\ r.bodies = {running[w] : w \in Listed}
                            /\ call' = [call EXCEPT ![Host] = r]
  <2> DEFINE r == [NoCall EXCEPT !.op = "park", !.pc = "awaiting", !.bodies = {running[w] : w \in Listed}]
  <2>1. r \in CallType
    BY <1>2, Nulls DEF CallType, NoCall
  <2> QED BY <2>1 DEF ParkBegins, NoCall
<1>4. /\ Host \in Callers /\ call' \in [Callers -> CallType] /\ call'[Host] = r
      /\ \A d \in Callers : d # Host => call'[d] = call[d]
  BY <1>3, CallEffect DEF Callers
<1>5. TypeOK'
  BY <1>1, <1>2, <1>3, <1>4, WorkersAssumption DEF TypeOK, At, Of, Callers, WorkersAssumption
<1>6. QueueInv'
  <2> USE <1>1, <1>2, <1>3, <1>4, <1>5 DEF At, Of, Callers
  <2>1. CallEvents'  BY DEF QueueInv, CallEvents
  <2>2. HostEvents'  BY DEF QueueInv, HostEvents
  <2>3. BodyEvents'  BY DEF QueueInv, BodyEvents
  <2>4. OneEvent'  BY DEF QueueInv, OneEvent, CallEvents
  <2> QED BY <2>1, <2>2, <2>3, <2>4 DEF QueueInv
<1>7. CallShape'
  BY <1>1, <1>2, <1>3, <1>4, <1>5 DEF CallShape, At, Of, Callers
<1>8. KnownInv'
  BY <1>1, <1>2, <1>3, <1>4, <1>5 DEF KnownInv, At, Of, Callers
<1>9. SpawnInv'
  BY <1>1, <1>2, <1>3, <1>4, <1>5 DEF SpawnInv, Spawning, At, Of, Callers
<1>10. ClaimInv'
  BY <1>1, <1>2, <1>3, <1>4, <1>5 DEF ClaimInv, Claims, CallShape, At, Of, Callers
<1>11. HostInv'
  BY <1>1, <1>2, <1>3, <1>4, <1>5 DEF HostInv, At, Of, Callers
<1>12. BodyInv'
  BY <1>1, <1>2, <1>3, <1>4, <1>5 DEF BodyInv, KnownRuns, OneRun, RunsFound, ListedRuns, ActiveListed, Live, At, Of, Callers
<1>13. ApartInv'
  BY <1>1, <1>2, <1>3, <1>4, <1>5 DEF ApartInv, LeasesLive, LaunchApart, TodoApart, Live, At, Of, Callers
<1>14. StopInv'
  BY <1>1, <1>2, <1>3, <1>4, <1>5, StopsBodies DEF StopInv, StopsRuns, AwaitsRuns, ExitedGone, Gone, At, Of, Callers, Live
<1>15. StoppedLetsGo'
  BY <1>1, <1>2, <1>3, <1>4, <1>5 DEF StoppedLetsGo, At, Of, Callers
<1> QED BY <1>5, <1>6, <1>7, <1>8, <1>9, <1>10, <1>11, <1>12, <1>13, <1>14, <1>15

LEMMA ParkLeavesKeeps == ASSUME IInv, ParkWaits, Gone(call[Host].bodies) PROVE IInv'
<1> USE Actors DEF IInv
<1>1. /\ Host \in Callers /\ call[Host].pc = "awaiting" /\ Goes(Host, "stopped") /\ call[Host].exited \in BOOLEAN
      /\ UNCHANGED <<entry, queue, running, launching, abandoned, body, runtime, todo, upsets, refused>>
  BY DEF ParkWaits, At, Callers, maps, budgets, TypeOK, CallType
<1>2. /\ call' \in [Callers -> CallType]
      /\ call'[Host].pc = "stopped"
      /\ call'[Host].op = call[Host].op /\ call'[Host].worker = call[Host].worker
      /\ call'[Host].bodies = call[Host].bodies
      /\ \A d \in Callers : d # Host => call'[d] = call[d]
  BY <1>1, GoesEffect
<1>3. TypeOK'
  BY <1>1, <1>2 DEF TypeOK, At, Of, Callers
<1>4. QueueInv'
  BY <1>1, <1>2, <1>3 DEF QueueInv, CallEvents, HostEvents, BodyEvents, OneEvent, At, Of, Callers
<1>5. CallShape'
  BY <1>1, <1>2, <1>3 DEF CallShape, At, Of, Callers
<1>6. KnownInv'
  BY <1>1, <1>2, <1>3 DEF KnownInv, At, Of, Callers
<1>7. SpawnInv'
  BY <1>1, <1>2, <1>3 DEF SpawnInv, Spawning, At, Of, Callers
<1>8. ClaimInv'
  BY <1>1, <1>2, <1>3 DEF ClaimInv, Claims, CallShape, At, Of, Callers
<1>9. HostInv'
  BY <1>1, <1>2, <1>3 DEF HostInv, At, Of, Callers, NoCall
<1>10. BodyInv'
  BY <1>1, <1>2, <1>3 DEF BodyInv, KnownRuns, OneRun, RunsFound, ListedRuns, ActiveListed, Live, At, Of, Callers
<1>11. ApartInv'
  BY <1>1, <1>2, <1>3 DEF ApartInv, LeasesLive, LaunchApart, TodoApart, Live, At, Of, Callers
<1>12. StopInv'
  BY <1>1, <1>2, <1>3 DEF StopInv, StopsRuns, AwaitsRuns, ExitedGone, Gone, At, Of, Callers
<1>13. StoppedLetsGo'
  BY <1>1, <1>2, <1>3 DEF StoppedLetsGo, At, Of, Callers
<1> QED BY <1>3, <1>4, <1>5, <1>6, <1>7, <1>8, <1>9, <1>10, <1>11, <1>12, <1>13

LEMMA ParkStopsKeeps == ASSUME IInv, ParkWaits, ~Gone(call[Host].bodies) PROVE IInv'
<1> USE Actors DEF IInv
<1>1. /\ Host \in Callers /\ call[Host].pc = "awaiting" /\ call[Host].worker \in Workers \union {Host}
      /\ Stops(Host, "park", call[Host].worker, call[Host].bodies \intersect {running[w] : w \in Listed})
      /\ UNCHANGED <<entry, queue, running, launching, abandoned, runtime, todo, upsets, refused>>
  BY DEF ParkWaits, At, Callers, maps, budgets, TypeOK, CallType
<1>2. PICK S \in SUBSET Bodies : /\ S = call[Host].bodies \intersect {running[w] : w \in Listed}
                                 /\ \A b \in S : body[b].pc # "none"
  <2>1. \A b \in {running[w] : w \in Listed} : b \in Bodies /\ Live(b)
    BY DEF Listed, BodyInv, ListedRuns, TypeOK
  <2> QED BY <2>1 DEF Live
<1>3. /\ body' \in [Bodies -> BodyType]
      /\ \A b \in Bodies : /\ body'[b].worker = body[b].worker /\ body'[b].pc = body[b].pc
                           /\ body'[b].lease = body[b].lease
                           /\ body'[b].active => body[b].active /\ b \notin S
                           /\ body[b].active /\ b \notin S => body'[b].active
      /\ call' \in [Callers -> CallType]
      /\ call'[Host].op = "park" /\ call'[Host].pc = "stopping" /\ call'[Host].bodies = S
      /\ \A d \in Callers : d # Host => call'[d] = call[d]
  BY <1>1, <1>2, StopsEffect
<1>4. TypeOK'
  BY <1>1, <1>2, <1>3 DEF TypeOK, At, Of, Callers
<1>5. QueueInv'
  BY <1>1, <1>2, <1>3, <1>4 DEF QueueInv, CallEvents, HostEvents, BodyEvents, OneEvent, At, Of, Callers
<1>6. CallShape'
  BY <1>1, <1>2, <1>3, <1>4 DEF CallShape, At, Of, Callers
<1>7. KnownInv'
  BY <1>1, <1>2, <1>3, <1>4 DEF KnownInv, At, Of, Callers
<1>8. SpawnInv'
  BY <1>1, <1>2, <1>3, <1>4 DEF SpawnInv, Spawning, At, Of, Callers
<1>9. ClaimInv'
  BY <1>1, <1>2, <1>3, <1>4 DEF ClaimInv, Claims, CallShape, At, Of, Callers
<1>10. HostInv'
  BY <1>1, <1>2, <1>3, <1>4 DEF HostInv, At, Of, Callers, NoCall
<1>11. BodyInv'
  <2> USE <1>1, <1>2, <1>3, <1>4 DEF At, Of, Callers, Live
  <2>1. KnownRuns'  BY DEF BodyInv, KnownRuns
  <2>2. OneRun'  BY DEF BodyInv, OneRun
  <2>3. RunsFound'  BY DEF BodyInv, RunsFound
  <2>4. ListedRuns'  BY DEF BodyInv, ListedRuns, TypeOK
  <2>5. ActiveListed'  BY DEF BodyInv, ActiveListed
  <2> QED BY <2>1, <2>2, <2>3, <2>4, <2>5 DEF BodyInv
<1>12. ApartInv'
  BY <1>1, <1>2, <1>3, <1>4 DEF ApartInv, LeasesLive, LaunchApart, TodoApart, Live, At, Of, Callers
<1>13. StopInv'
  <2> USE <1>1, <1>2, <1>3, <1>4 DEF At, Of, Callers, Gone
  <2>1. StopsRuns'  BY StopsBodies DEF StopInv, StopsRuns
  <2>2. AwaitsRuns'  BY DEF StopInv, AwaitsRuns
  <2>3. ExitedGone'  BY StopsBodies DEF StopInv, ExitedGone
  <2> QED BY <2>1, <2>2, <2>3 DEF StopInv
<1>14. StoppedLetsGo'
  BY <1>1, <1>2, <1>3, <1>4 DEF StoppedLetsGo, At, Of, Callers
<1> QED BY <1>4, <1>5, <1>6, <1>7, <1>8, <1>9, <1>10, <1>11, <1>12, <1>13, <1>14

LEMMA ParkWaitsKeeps == ASSUME IInv, ParkWaits PROVE IInv'
  BY ParkLeavesKeeps, ParkStopsKeeps

LEMMA CloseBeginsKeeps == ASSUME IInv, CloseBegins PROVE IInv'
<1> USE Actors DEF IInv
<1>1. /\ Host \in Callers /\ call[Host].pc = "idle" /\ runtime = "ready" /\ runtime' = "unloading"
      /\ upsets < MaxUpsets /\ upsets' = upsets + 1
      /\ Stops(Host, "close", call[Host].worker, {running[w] : w \in Listed})
      /\ UNCHANGED <<entry, queue, running, launching, abandoned, todo, refused>>
  BY DEF CloseBegins, Serves, Upset, At, maps, Callers
<1>2. PICK S \in SUBSET Bodies : S = {running[w] : w \in Listed} /\ \A b \in S : Live(b)
  <2>1. \A b \in {running[w] : w \in Listed} : b \in Bodies /\ Live(b)
    BY DEF Listed, BodyInv, ListedRuns, TypeOK
  <2> QED BY <2>1
<1>3. /\ body' \in [Bodies -> BodyType]
      /\ \A b \in Bodies : /\ body'[b].worker = body[b].worker /\ body'[b].pc = body[b].pc
                           /\ body'[b].lease = body[b].lease
                           /\ body'[b].active => body[b].active /\ b \notin S
                           /\ body[b].active /\ b \notin S => body'[b].active
      /\ call' \in [Callers -> CallType]
      /\ call'[Host].op = "close" /\ call'[Host].pc = "stopping" /\ call'[Host].bodies = S
      /\ \A d \in Callers : d # Host => call'[d] = call[d]
  <2>1. call[Host].worker \in Workers \union {Host}
    BY <1>1 DEF TypeOK, CallType
  <2> QED BY <1>1, <1>2, <2>1, StopsEffect
<1>4. TypeOK'
  BY <1>1, <1>2, <1>3, WorkersAssumption DEF TypeOK, At, Of, Callers, WorkersAssumption
<1>5. QueueInv'
  BY <1>1, <1>2, <1>3, <1>4 DEF QueueInv, CallEvents, HostEvents, BodyEvents, OneEvent, At, Of, Callers
<1>6. CallShape'
  BY <1>1, <1>2, <1>3, <1>4 DEF CallShape, At, Of, Callers
<1>7. KnownInv'
  BY <1>1, <1>2, <1>3, <1>4 DEF KnownInv, At, Of, Callers
<1>8. SpawnInv'
  BY <1>1, <1>2, <1>3, <1>4 DEF SpawnInv, Spawning, At, Of, Callers
<1>9. ClaimInv'
  BY <1>1, <1>2, <1>3, <1>4 DEF ClaimInv, Claims, CallShape, At, Of, Callers
<1>10. HostInv'
  BY <1>1, <1>2, <1>3, <1>4 DEF HostInv, At, Of, Callers
<1>11. BodyInv'
  <2> USE <1>1, <1>2, <1>3, <1>4 DEF At, Of, Callers, Live
  <2>1. KnownRuns'  BY DEF BodyInv, KnownRuns
  <2>2. OneRun'  BY DEF BodyInv, OneRun
  <2>3. RunsFound'  BY DEF BodyInv, RunsFound
  <2>4. ListedRuns'  BY DEF BodyInv, ListedRuns, TypeOK
  <2>5. ActiveListed'  BY DEF BodyInv, ActiveListed
  <2> QED BY <2>1, <2>2, <2>3, <2>4, <2>5 DEF BodyInv
<1>12. ApartInv'
  BY <1>1, <1>2, <1>3, <1>4 DEF ApartInv, LeasesLive, LaunchApart, TodoApart, Live, At, Of, Callers
<1>13. StopInv'
  <2> USE <1>1, <1>2, <1>3, <1>4 DEF At, Of, Callers, Gone
  <2>1. StopsRuns'  BY StopsBodies DEF StopInv, StopsRuns, Live
  <2>2. AwaitsRuns'  BY DEF StopInv, AwaitsRuns
  <2>3. ExitedGone'  BY StopsBodies DEF StopInv, ExitedGone
  <2> QED BY <2>1, <2>2, <2>3 DEF StopInv
<1>14. StoppedLetsGo'
  BY <1>1, <1>2, <1>3, <1>4 DEF StoppedLetsGo, At, Of, Callers
<1> QED BY <1>4, <1>5, <1>6, <1>7, <1>8, <1>9, <1>10, <1>11, <1>12, <1>13, <1>14

LEMMA LoadBeginsKeeps == ASSUME IInv, LoadBegins PROVE IInv'
<1> USE Actors DEF IInv
<1>1. /\ runtime = "off" /\ runtime' = "ready"
      /\ todo' \subseteq Workers /\ \A w \in todo' : entry[w].status # "none"
      /\ UNCHANGED <<entry, queue, running, launching, abandoned, body, upsets, refused>>
  BY DEF LoadBegins, maps, budgets
<1>2. /\ queue = <<>> /\ \A b \in Bodies : body[b] = NoBody
      /\ \A c \in Callers : call[c] = NoCall
  BY <1>1 DEF HostInv
<1>3. PICK r \in CallType : /\ r.pc = "loading" /\ r.bodies = {} /\ call' = [call EXCEPT ![Host] = r]
  BY Nulls DEF LoadBegins, CallType, NoCall
<1>4. /\ Host \in Callers /\ call' \in [Callers -> CallType] /\ call'[Host] = r
      /\ \A d \in Callers : d # Host => call'[d] = call[d]
  BY <1>3, CallEffect DEF Callers
<1>5. TypeOK'
  BY <1>1, <1>2, <1>3, <1>4 DEF TypeOK, At, Of, Callers
<1>6. QueueInv'
  <2> USE <1>1, <1>2, <1>3, <1>4, <1>5 DEF At, Of, Callers
  <2>1. CallEvents'  BY DEF QueueInv, CallEvents
  <2>2. HostEvents'  BY DEF QueueInv, HostEvents
  <2>3. BodyEvents'  BY DEF QueueInv, BodyEvents
  <2>4. OneEvent'  BY DEF QueueInv, OneEvent, CallEvents
  <2> QED BY <2>1, <2>2, <2>3, <2>4 DEF QueueInv
<1>7. CallShape'
  BY <1>1, <1>2, <1>3, <1>4, <1>5 DEF CallShape, At, Of, Callers
<1>8. KnownInv'
  BY <1>1, <1>2, <1>3, <1>4, <1>5 DEF KnownInv, At, Of, Callers
<1>9. SpawnInv'
  BY <1>1, <1>2, <1>3, <1>4, <1>5 DEF SpawnInv, Spawning, At, Of, Callers
<1>10. ClaimInv'
  BY <1>1, <1>2, <1>3, <1>4, <1>5 DEF ClaimInv, Claims, CallShape, At, Of, Callers
<1>11. HostInv'
  BY <1>1, <1>2, <1>3, <1>4, <1>5 DEF HostInv, At, Of, Callers, NoCall
<1>12. BodyInv'
  BY <1>1, <1>2, <1>3, <1>4, <1>5 DEF BodyInv, KnownRuns, OneRun, RunsFound, ListedRuns, ActiveListed, Live, At, Of, Callers, NoBody
<1>13. ApartInv'
  BY <1>1, <1>2, <1>3, <1>4, <1>5 DEF ApartInv, LeasesLive, LaunchApart, TodoApart, Live, At, Of, Callers, NoBody
<1>14. StopInv'
  BY <1>1, <1>2, <1>3, <1>4, <1>5 DEF StopInv, StopsRuns, AwaitsRuns, ExitedGone, Gone, At, Of, Callers, NoCall
<1>15. StoppedLetsGo'
  BY <1>1, <1>2, <1>3, <1>4, <1>5 DEF StoppedLetsGo, At, Of, Callers, NoBody
<1> QED BY <1>5, <1>6, <1>7, <1>8, <1>9, <1>10, <1>11, <1>12, <1>13, <1>14, <1>15

LEMMA LoadStartsKeeps == ASSUME IInv, NEW w \in Workers, LoadLaunches(w), Starts(w, entry[w]) PROVE IInv'
<1> USE Actors DEF IInv
<1>1. /\ Host \in Callers /\ call[Host].pc = "loading" /\ runtime = "ready" /\ w \in todo /\ todo' = todo \ {w}
      /\ \A i \in 1..Len(queue) : queue[i].by # Host
      /\ \A c \in Calls : call[c].pc = "idle"
      /\ entry[w].status # "none"
      /\ \A b \in Bodies : Live(b) => body[b].worker # w
      /\ UNCHANGED <<entry, launching, abandoned, call, runtime, upsets, refused>>
  BY DEF LoadLaunches, Waits, At, Callers, budgets, HostInv, ApartInv, TodoApart
<1>2. PICK b \in Bodies :
       /\ body[b].pc = "none"
       /\ body' \in [Bodies -> BodyType]
       /\ body'[b].worker = w /\ body'[b].active /\ body'[b].lease /\ body'[b].pc \in {"starting", "executing"}
       /\ body'[b].pc = "executing" => UNCHANGED queue
       /\ \A d \in Bodies : d # b => body'[d] = body[d]
       /\ running' \in [Workers -> Bodies \union {0}]
       /\ running'[w] = b /\ \A v \in Workers : v # w => running'[v] = running[v]
       /\ queue' \in Seq(Event)
       /\ \A i \in 1..Len(queue') :
            \/ i = Len(queue') /\ queue'[i].type = "execution" /\ queue'[i].worker = w /\ queue'[i].by = b
            \/ i \in 1..Len(queue) /\ queue'[i] = queue[i]
       /\ \A i \in 1..Len(queue) : i \in 1..Len(queue') /\ queue'[i] = queue[i]
  BY StartsEffect
<1>3. TypeOK'
  BY <1>1, <1>2 DEF TypeOK, At, Of, Callers
<1>4. QueueInv'
  <2> USE <1>1, <1>2, <1>3 DEF At, Of, Callers, Waits
  <2>1. CallEvents'  BY DEF QueueInv, CallEvents
  <2>2. HostEvents'  BY DEF QueueInv, HostEvents
  <2>3. BodyEvents'  BY DEF QueueInv, BodyEvents
  <2>4. OneEvent'  BY DEF QueueInv, OneEvent, BodyEvents
  <2> QED BY <2>1, <2>2, <2>3, <2>4 DEF QueueInv
<1>5. CallShape'
  BY <1>1, <1>2, <1>3 DEF CallShape, At, Of, Callers
<1>6. KnownInv'
  BY <1>1, <1>2, <1>3 DEF KnownInv, At, Of, Callers
<1>7. SpawnInv'
  BY <1>1, <1>2, <1>3 DEF SpawnInv, Spawning, At, Of, Callers
<1>8. ClaimInv'
  BY <1>1, <1>2, <1>3 DEF ClaimInv, Claims, CallShape, At, Of, Callers
<1>9. HostInv'
  BY <1>1, <1>2, <1>3 DEF HostInv, At, Of, Callers
<1>10. BodyInv'
  <2> USE <1>1, <1>2, <1>3 DEF At, Of, Callers, Live
  <2>1. KnownRuns'  BY DEF BodyInv, KnownRuns
  <2>2. OneRun'  BY DEF BodyInv, OneRun
  <2>3. RunsFound'  BY DEF BodyInv, RunsFound, KnownRuns
  <2>4. ListedRuns'  BY DEF BodyInv, ListedRuns, TypeOK, KnownRuns
  <2>5. ActiveListed'  BY DEF BodyInv, ActiveListed, KnownRuns
  <2> QED BY <2>1, <2>2, <2>3, <2>4, <2>5 DEF BodyInv
<1>11. ApartInv'
  BY <1>1, <1>2, <1>3 DEF ApartInv, LeasesLive, LaunchApart, TodoApart, Live, At, Of, Callers
<1>12. StopInv'
  <2> USE <1>1, <1>2, <1>3 DEF At, Of, Callers, Gone
  <2>1. StopsRuns'  BY StopsBodies DEF StopInv, StopsRuns
  <2>2. AwaitsRuns'  BY StopsBodies DEF StopInv, AwaitsRuns
  <2>3. ExitedGone'  BY StopsBodies DEF StopInv, ExitedGone
  <2> QED BY <2>1, <2>2, <2>3 DEF StopInv
<1>13. StoppedLetsGo'
  BY <1>1, <1>2, <1>3 DEF StoppedLetsGo, At, Of, Callers
<1> QED BY <1>3, <1>4, <1>5, <1>6, <1>7, <1>8, <1>9, <1>10, <1>11, <1>12, <1>13

LEMMA LoadHoldsKeeps == ASSUME IInv, NEW w \in Workers, LoadLaunches(w), ~Starts(w, entry[w]) PROVE IInv'
<1> USE Actors DEF IInv
<1>1. /\ Host \in Callers /\ call[Host].pc = "loading" /\ runtime = "ready" /\ w \in todo /\ todo' = todo \ {w}
      /\ \A i \in 1..Len(queue) : queue[i].by # Host
      /\ \A c \in Calls : call[c].pc = "idle"
      /\ entry[w].status # "none"
      /\ \A b \in Bodies : Live(b) => body[b].worker # w
      /\ UNCHANGED <<entry, launching, abandoned, call, runtime, upsets, refused>>
  BY DEF LoadLaunches, Waits, At, Callers, budgets, HostInv, ApartInv, TodoApart
<1>2. PICK type \in {"held", "paused"} : Emits(type, w, Host) /\ UNCHANGED <<running, body>>
  BY DEF LoadLaunches
<1>3. /\ queue' \in Seq(Event)
      /\ \A i \in 1..Len(queue') :
           \/ i = Len(queue') /\ queue'[i].type = type /\ queue'[i].worker = w /\ queue'[i].by = Host
           \/ i \in 1..Len(queue) /\ queue'[i] = queue[i]
      /\ \A i \in 1..Len(queue) : i \in 1..Len(queue') /\ queue'[i] = queue[i]
  BY <1>1, <1>2, EmitsEffect DEF EventTypes
<1>4. TypeOK'
  BY <1>1, <1>2, <1>3 DEF TypeOK, At, Of, Callers
<1>5. QueueInv'
  <2> USE <1>1, <1>2, <1>3, <1>4 DEF At, Of, Callers, Waits
  <2>1. CallEvents'  BY DEF QueueInv, CallEvents
  <2>2. HostEvents'  BY DEF QueueInv, HostEvents
  <2>3. BodyEvents'  BY DEF QueueInv, BodyEvents
  <2>4. OneEvent'  BY DEF QueueInv, OneEvent, HostEvents
  <2> QED BY <2>1, <2>2, <2>3, <2>4 DEF QueueInv
<1>6. CallShape'
  BY <1>1, <1>2, <1>3, <1>4 DEF CallShape, At, Of, Callers
<1>7. KnownInv'
  BY <1>1, <1>2, <1>3, <1>4 DEF KnownInv, At, Of, Callers
<1>8. SpawnInv'
  BY <1>1, <1>2, <1>3, <1>4 DEF SpawnInv, Spawning, At, Of, Callers
<1>9. ClaimInv'
  BY <1>1, <1>2, <1>3, <1>4 DEF ClaimInv, Claims, CallShape, At, Of, Callers
<1>10. HostInv'
  BY <1>1, <1>2, <1>3, <1>4 DEF HostInv, At, Of, Callers
<1>11. BodyInv'
  BY <1>1, <1>2, <1>3, <1>4 DEF BodyInv, KnownRuns, OneRun, RunsFound, ListedRuns, ActiveListed, Live, At, Of, Callers
<1>12. ApartInv'
  BY <1>1, <1>2, <1>3, <1>4 DEF ApartInv, LeasesLive, LaunchApart, TodoApart, Live, At, Of, Callers
<1>13. StopInv'
  BY <1>1, <1>2, <1>3, <1>4 DEF StopInv, StopsRuns, AwaitsRuns, ExitedGone, Gone, At, Of, Callers
<1>14. StoppedLetsGo'
  BY <1>1, <1>2, <1>3, <1>4 DEF StoppedLetsGo, At, Of, Callers
<1> QED BY <1>4, <1>5, <1>6, <1>7, <1>8, <1>9, <1>10, <1>11, <1>12, <1>13, <1>14

LEMMA LoadLaunchesKeeps == ASSUME IInv, NEW w \in Workers, LoadLaunches(w) PROVE IInv'
  BY LoadStartsKeeps, LoadHoldsKeeps

LEMMA LoadEndsKeeps == ASSUME IInv, LoadEnds PROVE IInv'
<1> USE Actors DEF IInv
<1>1. /\ call[Host].pc = "loading" /\ todo = {} /\ \A i \in 1..Len(queue) : queue[i].by # Host
      /\ call' = [call EXCEPT ![Host] = NoCall]
      /\ UNCHANGED <<entry, queue, running, launching, abandoned, body, runtime, todo, upsets, refused>>
  BY DEF LoadEnds, Waits, At, maps, budgets
<1>2. PICK r \in CallType : /\ r.pc = "idle" /\ r.bodies = {} /\ call' = [call EXCEPT ![Host] = r]
  BY <1>1, Nulls DEF NoCall
<1>3. /\ Host \in Callers /\ call' \in [Callers -> CallType] /\ call'[Host] = r
      /\ \A d \in Callers : d # Host => call'[d] = call[d]
  BY <1>2, CallEffect DEF Callers
<1>4. TypeOK'
  BY <1>1, <1>2, <1>3 DEF TypeOK, At, Of, Callers
<1>5. QueueInv'
  BY <1>1, <1>2, <1>3, <1>4 DEF QueueInv, CallEvents, HostEvents, BodyEvents, OneEvent, At, Of, Callers
<1>6. CallShape'
  BY <1>1, <1>2, <1>3, <1>4 DEF CallShape, At, Of, Callers
<1>7. KnownInv'
  BY <1>1, <1>2, <1>3, <1>4 DEF KnownInv, At, Of, Callers
<1>8. SpawnInv'
  BY <1>1, <1>2, <1>3, <1>4 DEF SpawnInv, Spawning, At, Of, Callers
<1>9. ClaimInv'
  BY <1>1, <1>2, <1>3, <1>4 DEF ClaimInv, Claims, CallShape, At, Of, Callers
<1>10. HostInv'
  BY <1>1, <1>2, <1>3, <1>4 DEF HostInv, At, Of, Callers
<1>11. BodyInv'
  BY <1>1, <1>2, <1>3, <1>4 DEF BodyInv, KnownRuns, OneRun, RunsFound, ListedRuns, ActiveListed, Live, At, Of, Callers
<1>12. ApartInv'
  BY <1>1, <1>2, <1>3, <1>4 DEF ApartInv, LeasesLive, LaunchApart, TodoApart, Live, At, Of, Callers
<1>13. StopInv'
  BY <1>1, <1>2, <1>3, <1>4 DEF StopInv, StopsRuns, AwaitsRuns, ExitedGone, Gone, At, Of, Callers
<1>14. StoppedLetsGo'
  BY <1>1, <1>2, <1>3, <1>4 DEF StoppedLetsGo, At, Of, Callers
<1> QED BY <1>4, <1>5, <1>6, <1>7, <1>8, <1>9, <1>10, <1>11, <1>12, <1>13, <1>14

-----------------------------------------------------------------------------
(* The theorems. *)
LEMMA InitHolds == ASSUME Init PROVE IInv
<1>1. TypeOK
  <2>1. entry \in [Workers -> EntryType] /\ body \in [Bodies -> BodyType] /\ call \in [Callers -> CallType]
    BY Nulls DEF Init
  <2>2. queue \in Seq(Event) /\ running \in [Workers -> Bodies \union {0}]
    BY DEF Init
  <2>3. upsets \in 0..MaxUpsets
    BY WorkersAssumption DEF Init, WorkersAssumption
  <2> QED BY <2>1, <2>2, <2>3 DEF Init, TypeOK
<1>2. QueueInv
  BY DEF Init, QueueInv, CallEvents, HostEvents, BodyEvents, OneEvent
<1>3. CallShape /\ KnownInv /\ SpawnInv /\ ClaimInv
  BY DEF Init, CallShape, KnownInv, SpawnInv, Spawning, ClaimInv, Claims, NoCall, At, Callers
<1>4. HostInv
  BY DEF Init, HostInv, NoCall, At, Callers
<1>5. BodyInv /\ ApartInv
  BY DEF Init, BodyInv, KnownRuns, OneRun, RunsFound, ListedRuns, ActiveListed,
         ApartInv, LeasesLive, LaunchApart, TodoApart, Live, NoBody
<1>6. StopInv /\ StoppedLetsGo
  BY DEF Init, StopInv, StopsRuns, AwaitsRuns, ExitedGone, StoppedLetsGo, NoCall, NoBody, At, Callers
<1> QED BY <1>1, <1>2, <1>3, <1>4, <1>5, <1>6 DEF IInv

LEMMA StepKeeps == ASSUME IInv, [Next]_vars PROVE IInv'
<1>1. CASE Commit                                                  BY <1>1, CommitKeeps
<1>2. CASE Refuse                                                  BY <1>2, RefuseKeeps
<1>3. ASSUME NEW c \in Calls, Launches(c) PROVE IInv'              BY <1>3, LaunchesKeeps
<1>4. ASSUME NEW c \in Calls, Answers(c) PROVE IInv'               BY <1>4, AnswersKeeps
<1>5. ASSUME NEW c \in Calls, NEW w \in Workers, Spawn(c, w) PROVE IInv'   BY <1>5, SpawnKeeps
<1>6. ASSUME NEW c \in Calls, NEW w \in Workers, Resume(c, w) PROVE IInv'  BY <1>6, ResumeKeeps
<1>7. ASSUME NEW c \in Calls, NEW w \in Workers, Cancel(c, w) PROVE IInv'  BY <1>7, CancelKeeps
<1>8. ASSUME NEW c \in Calls, NEW w \in Workers, Pause(c, w) PROVE IInv'   BY <1>8, PauseKeeps
<1>9. ASSUME NEW c \in Callers, Continues(c) PROVE IInv'
  BY <1>9, StopWaitsKeeps, StopEndsKeeps DEF Continues
<1>10. ASSUME NEW b \in Bodies, Surrounds(b) PROVE IInv'
  BY <1>10, EntersKeeps, ReportsKeeps, FinishesKeeps, EndsKeeps DEF Surrounds
<1>11. ASSUME NEW b \in Bodies, Progresses(b) PROVE IInv'          BY <1>11, ProgressesKeeps
<1>12. ASSUME NEW b \in Bodies, Returns(b) PROVE IInv'             BY <1>12, ReturnsKeeps
<1>13. CASE ParkBegins                                             BY <1>13, ParkBeginsKeeps
<1>14. CASE ParkWaits                                              BY <1>14, ParkWaitsKeeps
<1>15. CASE CloseBegins                                            BY <1>15, CloseBeginsKeeps
<1>16. CASE Leaves                                                 BY <1>16, LeavesKeeps
<1>17. CASE Crash                                                  BY <1>17, CrashKeeps
<1>18. CASE LoadBegins                                             BY <1>18, LoadBeginsKeeps
<1>19. CASE Loads
  BY <1>19, LoadLaunchesKeeps, LoadEndsKeeps DEF Loads
<1>20. CASE UNCHANGED vars
  <2> USE <1>20 DEF IInv, vars, maps, budgets, At, Of
  <2>1. TypeOK' /\ HostInv' /\ StoppedLetsGo'
    BY DEF TypeOK, HostInv, StoppedLetsGo
  <2>2. QueueInv' /\ CallShape' /\ KnownInv' /\ SpawnInv' /\ ClaimInv'
    BY DEF QueueInv, CallEvents, HostEvents, BodyEvents, OneEvent,
           CallShape, KnownInv, SpawnInv, Spawning, ClaimInv, Claims
  <2>3. BodyInv' /\ ApartInv' /\ StopInv'
    BY DEF BodyInv, KnownRuns, OneRun, RunsFound, ListedRuns, ActiveListed, Live,
           ApartInv, LeasesLive, LaunchApart, TodoApart, StopInv, StopsRuns, AwaitsRuns, ExitedGone, Gone
  <2> QED BY <2>1, <2>2, <2>3
<1> QED BY <1>1, <1>2, <1>3, <1>4, <1>5, <1>6, <1>7, <1>8, <1>9, <1>10, <1>11, <1>12, <1>13, <1>14,
           <1>15, <1>16, <1>17, <1>18, <1>19, <1>20 DEF Next

(* IInv holds initially and every action keeps it. *)
THEOREM InductiveInvariant == Spec => []IInv
  BY InitHolds, StepKeeps, PTL DEF Spec

(* Every variable keeps its type: the projection, the queue, the maps and the runs. *)
THEOREM TypesHold == Spec => []TypeOK
<1>1. IInv => TypeOK
  BY DEF IInv
<1> QED BY <1>1, InductiveInvariant, PTL

(* launchWorker and executeWorker: a worker has one run at a time, and a run that was not
   stopped is the one in runningWorkers. *)
THEOREM OneRunPerWorkerHolds == Spec => []OneRunPerWorker
<1>1. IInv => OneRunPerWorker
  BY DEF IInv, OneRunPerWorker, Runs, BodyInv, OneRun, ActiveListed, Live
<1> QED BY <1>1, InductiveInvariant, PTL

(* stopWorkers: a stopped run holds a lease only while it drains or a stop is still at it. *)
THEOREM StoppedLetsGoHolds == Spec => []StoppedLetsGo
<1>1. IInv => StoppedLetsGo
  BY DEF IInv
<1> QED BY <1>1, InductiveInvariant, PTL

-----------------------------------------------------------------------------
(* That a worker called running has a run.  While no append was refused and the session serves, *)
(* such a worker is at work, or something is still going to put the projection right: the load  *)
(* has yet to look at it, a call is launching or stopping it, or an event that takes it down is *)
(* in the queue.  The event that calls it running is awaited by the call that launches it.      *)
Down == {"paused", "held"} \union Final

Works(w) == running[w] # 0 /\ body[running[w]].active /\ body[running[w]].pc \in {"starting", "executing", "returned"}

AtIt(c) == call[c].pc \in {"launch", "stopping", "effects"}

TakenDown(w) == \E i \in 1..Len(queue) : queue[i].worker = w /\ queue[i].type \in Down

Pending(w) == w \in todo \/ (\E c \in Calls : AtIt(c) /\ Of(c) = w) \/ TakenDown(w)

Ups == \A i \in 1..Len(queue) :
         queue[i].type \in {"started", "running"} => queue[i].by \in Calls /\ At(queue[i].by, "launch")

Truth == \A w \in Workers : entry[w].status = "running" /\ entry[w].kept => Works(w) \/ Pending(w)

Truthful == call[Host].pc \in {"idle", "loading"} /\ Ups /\ Truth

TruthInv == ~refused /\ runtime = "ready" => Truthful

LEMMA AppliedStatus ==
  ASSUME NEW e \in EntryType, NEW type \in EventTypes
  PROVE  /\ type \in Down => Applied(e, type).status # "running"
         /\ type \in {"execution", "sub"} => Applied(e, type).status = e.status /\ Applied(e, type).kept = e.kept
<1>1. CASE type = "execution" BY <1>1 DEF Applied, EntryType, Down, Final
<1>2. CASE type = "sub"       BY <1>2 DEF Applied, Down, Final
<1>3. CASE type = "paused"
  <2>1. Applied(e, type) = [e EXCEPT !.status = "paused", !.held = FALSE]
    BY <1>3 DEF Applied
  <2> QED BY <2>1, <1>3 DEF EntryType
<1>4. CASE type = "held"
  <2>1. Applied(e, type) = [e EXCEPT !.status = "paused", !.held = TRUE]
    BY <1>4 DEF Applied
  <2> QED BY <2>1, <1>4 DEF EntryType
<1>5. CASE type \in Final     BY <1>5 DEF Applied, Final, NoEntry
<1> QED BY <1>1, <1>2, <1>3, <1>4, <1>5 DEF Down

(* What was true stays true where the queue only grows and each worker that was at work, or had *)
(* something pending, still is or has.                                                          *)
LEMMA TruthStays ==
  ASSUME Truth, UNCHANGED entry,
         \A i \in 1..Len(queue) : i \in 1..Len(queue') /\ queue'[i] = queue[i],
         \A w \in Workers : Works(w) => Works(w)' \/ Pending(w)',
         \A w \in todo : Works(w)' \/ Pending(w)',
         \A w \in Workers, c \in Calls : AtIt(c) /\ Of(c) = w => Works(w)' \/ Pending(w)'
  PROVE  Truth'
<1> SUFFICES ASSUME NEW w \in Workers, entry[w].status = "running", entry[w].kept
             PROVE  Works(w)' \/ Pending(w)'
  BY DEF Truth
<1>1. CASE Works(w)
  BY <1>1
<1>2. CASE w \in todo
  BY <1>2
<1>3. ASSUME NEW c \in Calls, AtIt(c), Of(c) = w PROVE Works(w)' \/ Pending(w)'
  BY <1>3
<1>4. CASE TakenDown(w)
  <2>1. TakenDown(w)'
    BY <1>4 DEF TakenDown
  <2> QED BY <2>1 DEF Pending
<1> QED BY <1>1, <1>2, <1>3, <1>4 DEF Truth, Pending

(* An event is in the queue once it is emitted. *)
LEMMA EmitsIt ==
  ASSUME TypeOK, NEW type \in EventTypes, NEW w \in Workers, NEW x \in Callers \union Bodies,
         Emits(type, w, x)
  PROVE  \E i \in 1..Len(queue') : queue'[i].worker = w /\ queue'[i].type = type
<1> DEFINE e == [type |-> type, worker |-> w, by |-> x]
<1>1. e \in Event /\ e.type = type /\ e.worker = w
  BY DEF Event, EventTypes, Final
<1>2. queue' = Append(queue, e) /\ queue \in Seq(Event)
  BY DEF Emits, TypeOK
<1> HIDE DEF e
<1>3. Len(queue) + 1 \in 1..Len(queue') /\ queue'[Len(queue) + 1] = e
  BY <1>1, <1>2, Appended
<1> QED BY <1>1, <1>3

LEMMA CommitTells == ASSUME IInv, TruthInv, Commit PROVE TruthInv'
<1> USE Actors
<1>1. /\ queue # <<>> /\ queue' = Tail(queue) /\ queue \in Seq(Event) /\ entry \in [Workers -> EntryType]
      /\ entry' = [entry EXCEPT ![Head(queue).worker] = Applied(@, Head(queue).type)]
      /\ UNCHANGED <<running, launching, abandoned, body, call, runtime, todo, upsets, refused>>
  BY DEF Commit, maps, budgets, IInv, TypeOK
<1>2. /\ queue' \in Seq(Event) /\ Head(queue) \in Event
      /\ 1 \in 1..Len(queue) /\ Head(queue) = queue[1]
      /\ \A i \in 1..Len(queue') : i + 1 \in 1..Len(queue) /\ queue'[i] = queue[i + 1]
      /\ \A i \in 1..Len(queue) : i = 1 \/ (i - 1 \in 1..Len(queue') /\ queue'[i - 1] = queue[i])
  BY <1>1, Popped
<1>3. PICK v \in Workers, type \in EventTypes : v = queue[1].worker /\ type = queue[1].type
  BY <1>2 DEF Event, EventTypes, Final
<1>4. entry'[v] = Applied(entry[v], type) /\ \A w \in Workers : w # v => entry'[w] = entry[w]
  BY <1>1, <1>2, <1>3
<1>5. /\ entry[v] \in EntryType
      /\ type \in Down => entry'[v].status # "running"
      /\ type \in {"execution", "sub"} => entry'[v].status = entry[v].status /\ entry'[v].kept = entry[v].kept
  BY <1>1, <1>4, AppliedStatus
<1> SUFFICES ASSUME ~refused, runtime = "ready", Truthful PROVE Truthful'
  BY <1>1 DEF TruthInv
<1>6. Ups' /\ call'[Host].pc \in {"idle", "loading"}
  BY <1>1, <1>2 DEF Truthful, Ups, At
<1>7. \A w \in Workers : Works(w)' <=> Works(w)
  BY <1>1 DEF Works
<1>8. \A w \in Workers : (w \in todo \/ \E c \in Calls : AtIt(c) /\ Of(c) = w) => Pending(w)'
  BY <1>1 DEF Pending, AtIt, Of
<1>9. \A w \in Workers : TakenDown(w) /\ (w # v \/ type \notin Down) => TakenDown(w)'
  BY <1>2, <1>3 DEF TakenDown
<1>10. type \in {"started", "running"} => \E c \in Calls : AtIt(c) /\ Of(c) = v
  BY <1>2, <1>3 DEF Truthful, Ups, IInv, QueueInv, CallEvents, At, AtIt
<1>11. type \in {"started", "running", "execution", "sub"} \union Down
  BY DEF EventTypes, Down, Final
<1>12. ASSUME NEW w \in Workers, entry'[w].status = "running", entry'[w].kept PROVE Works(w)' \/ Pending(w)'
  <2>1. CASE w = v /\ type \in {"started", "running"}
    BY <2>1, <1>8, <1>10
  <2>2. CASE w # v \/ type \in {"execution", "sub"}
    <3>1. entry[w].status = "running" /\ entry[w].kept
      BY <2>2, <1>4, <1>5, <1>12
    <3>2. Works(w) \/ Pending(w)
      BY <3>1 DEF Truthful, Truth
    <3>3. w # v \/ type \notin Down
      BY <2>2 DEF Down, Final
    <3> QED BY <3>2, <3>3, <1>7, <1>8, <1>9 DEF Pending
  <2>3. CASE w = v /\ type \in Down
    BY <2>3, <1>5, <1>12
  <2> QED BY <2>1, <2>2, <2>3, <1>11
<1> QED BY <1>6, <1>12 DEF Truthful, Truth

LEMMA SpawnTells == ASSUME IInv, TruthInv, NEW c \in Calls, NEW v \in Workers, Spawn(c, v) PROVE TruthInv'
<1> USE Actors
<1>1. /\ c \in Callers /\ c # Host /\ call[c].pc = "idle" /\ TypeOK
      /\ Emits("started", v, c)
      /\ UNCHANGED <<entry, running, body, runtime, todo, refused>>
  BY DEF Spawn, At, Callers, maps, budgets, IInv
<1>2. PICK r \in CallType : r.worker = v /\ r.pc = "launch" /\ call' = [call EXCEPT ![c] = r]
  <2>1. Applied(NoEntry, "started") \in EntryType
    BY Nulls, AppliedType DEF EventTypes
  <2> QED BY <2>1, Nulls DEF Spawn, CallType, NoCall
<1>3. call'[c] = r /\ \A d \in Callers : d # c => call'[d] = call[d]
  BY <1>1, <1>2, CallEffect
<1>4. /\ \A i \in 1..Len(queue') :
           \/ queue'[i].type = "started" /\ queue'[i].by = c
           \/ i \in 1..Len(queue) /\ queue'[i] = queue[i]
      /\ \A i \in 1..Len(queue) : i \in 1..Len(queue') /\ queue'[i] = queue[i]
  BY <1>1, EmitsEffect DEF EventTypes
<1> SUFFICES ASSUME Truthful PROVE Truthful'
  BY <1>1 DEF TruthInv
<1>5. Ups' /\ call'[Host].pc \in {"idle", "loading"}
  BY <1>1, <1>2, <1>3, <1>4 DEF Truthful, Ups, At, Callers
<1>6. \A w \in Workers : (Works(w) => Works(w)') /\ (w \in todo => Pending(w)')
  BY <1>1 DEF Works, Pending
<1>7. \A w \in Workers, d \in Calls : AtIt(d) /\ Of(d) = w => Pending(w)'
  BY <1>1, <1>3 DEF Pending, AtIt, Of, Callers
<1>8. todo \subseteq Workers
  BY <1>1 DEF TypeOK
<1>9. Truth'
  BY <1>1, <1>4, <1>6, <1>7, <1>8, TruthStays DEF Truthful
<1> QED BY <1>5, <1>9 DEF Truthful

LEMMA ResumeTells == ASSUME IInv, TruthInv, NEW c \in Calls, NEW v \in Workers, Resume(c, v) PROVE TruthInv'
<1> USE Actors
<1>1. /\ c \in Callers /\ c # Host /\ call[c].pc = "idle" /\ TypeOK
      /\ Emits("running", v, c)
      /\ UNCHANGED <<entry, running, body, runtime, todo, refused>>
  BY DEF Resume, Claim, At, Callers, budgets, IInv
<1>2. PICK r \in CallType : r.worker = v /\ r.pc = "launch" /\ call' = [call EXCEPT ![c] = r]
  BY <1>1, Nulls DEF Resume, Claim, CallType, NoCall, TypeOK
<1>3. call'[c] = r /\ \A d \in Callers : d # c => call'[d] = call[d]
  BY <1>1, <1>2, CallEffect
<1>4. /\ \A i \in 1..Len(queue') :
           \/ queue'[i].type = "running" /\ queue'[i].by = c
           \/ i \in 1..Len(queue) /\ queue'[i] = queue[i]
      /\ \A i \in 1..Len(queue) : i \in 1..Len(queue') /\ queue'[i] = queue[i]
  BY <1>1, EmitsEffect DEF EventTypes
<1> SUFFICES ASSUME Truthful PROVE Truthful'
  BY <1>1 DEF TruthInv
<1>5. Ups' /\ call'[Host].pc \in {"idle", "loading"}
  BY <1>1, <1>2, <1>3, <1>4 DEF Truthful, Ups, At, Callers
<1>6. \A w \in Workers : (Works(w) => Works(w)') /\ (w \in todo => Pending(w)')
  BY <1>1 DEF Works, Pending
<1>7. \A w \in Workers, d \in Calls : AtIt(d) /\ Of(d) = w => Pending(w)'
  BY <1>1, <1>3 DEF Pending, AtIt, Of, Callers
<1>8. todo \subseteq Workers
  BY <1>1 DEF TypeOK
<1>9. Truth'
  BY <1>1, <1>4, <1>6, <1>7, <1>8, TruthStays DEF Truthful
<1> QED BY <1>5, <1>9 DEF Truthful

(* A run that starts is at work, and no other run is touched. *)
LEMMA StartsWork ==
  ASSUME TypeOK, ListedRuns, NEW v \in Workers, NEW e, Starts(v, e)
  PROVE  /\ \A i \in 1..Len(queue') : queue'[i].type = "execution" \/ (i \in 1..Len(queue) /\ queue'[i] = queue[i])
         /\ \A i \in 1..Len(queue) : i \in 1..Len(queue') /\ queue'[i] = queue[i]
         /\ Works(v)' /\ \A w \in Workers : Works(w) => Works(w)'
<1>1. PICK b \in Bodies :
       /\ body[b].pc = "none"
       /\ body'[b].active /\ body'[b].pc \in {"starting", "executing"}
       /\ \A d \in Bodies : d # b => body'[d] = body[d]
       /\ running'[v] = b /\ \A w \in Workers : w # v => running'[w] = running[w]
       /\ \A i \in 1..Len(queue') : queue'[i].type = "execution" \/ (i \in 1..Len(queue) /\ queue'[i] = queue[i])
       /\ \A i \in 1..Len(queue) : i \in 1..Len(queue') /\ queue'[i] = queue[i]
  BY StartsEffect
<1>2. b # 0 /\ \A w \in Workers : running[w] \in Bodies \union {0}
  BY WorkersAssumption DEF Bodies, TypeOK
<1>3. Works(v)'
  BY <1>1, <1>2 DEF Works
<1>4. \A w \in Workers : Works(w) => Works(w)'
  BY <1>1, <1>2, <1>3 DEF Works
<1> QED BY <1>1, <1>3, <1>4

LEMMA LaunchesTells == ASSUME IInv, TruthInv, NEW c \in Calls, Launches(c) PROVE TruthInv'
<1> USE Actors
<1>1. /\ c \in Callers /\ c # Host /\ call[c].pc = "launch" /\ Of(c) \in Workers /\ TypeOK /\ ListedRuns
      /\ \A i \in 1..Len(queue) : queue[i].by # c
      /\ UNCHANGED <<entry, runtime, todo, refused>>
  BY Launching DEF Launches, At, Waits, budgets, IInv, BodyInv
<1> SUFFICES ASSUME runtime = "ready", Truthful PROVE Truthful'
  BY <1>1 DEF TruthInv
<1>2. CASE Room
  <2>1. call' = [call EXCEPT ![c] = NoCall] /\ Starts(Of(c), call[c].seen)
    BY <1>2 DEF Launches, Done, Of
  <2>2. call'[c].pc = "idle" /\ \A d \in Callers : d # c => call'[d] = call[d]
    BY <1>1, <2>1, CallEffect, Nulls DEF NoCall
  <2>3. PICK v \in Workers : v = Of(c) /\ Starts(v, call[c].seen)
    BY <1>1, <2>1
  <2>4. /\ \A i \in 1..Len(queue') : queue'[i].type = "execution" \/ (i \in 1..Len(queue) /\ queue'[i] = queue[i])
        /\ \A i \in 1..Len(queue) : i \in 1..Len(queue') /\ queue'[i] = queue[i]
        /\ Works(v)' /\ \A w \in Workers : Works(w) => Works(w)'
    BY <1>1, <2>3, StartsWork
  <2>5. Ups' /\ call'[Host].pc \in {"idle", "loading"}
    BY <1>1, <2>2, <2>4 DEF Truthful, Ups, At, Callers
  <2>6. \A w \in todo : Pending(w)'
    BY <1>1 DEF Pending
  <2>7. \A w \in Workers, d \in Calls : AtIt(d) /\ Of(d) = w => Works(w)' \/ Pending(w)'
    BY <1>1, <2>2, <2>3, <2>4 DEF Pending, AtIt, Of, Callers
  <2>8. Truth'
    BY <1>1, <2>4, <2>6, <2>7, TruthStays DEF Truthful
  <2> QED BY <2>5, <2>8 DEF Truthful
<1>3. CASE ~Room
  <2>1. PICK type \in {"ended", "held", "paused"} :
          Emits(type, Of(c), c) /\ Goes(c, "answer") /\ UNCHANGED <<running, body>>
    <3>1. (IF call[c].op # "resume" THEN "ended" ELSE IF call[c].seen.held THEN "held" ELSE "paused") \in {"ended", "held", "paused"}
      OBVIOUS
    <3> QED BY <1>3, <3>1 DEF Launches, Of
  <2>2. call'[c].pc = "answer" /\ \A d \in Callers : d # c => call'[d] = call[d]
    BY <1>1, <2>1, GoesEffect DEF TypeOK, CallType
  <2>3. type \in EventTypes /\ type \in Down /\ type \notin {"started", "running"}
    BY DEF EventTypes, Down, Final
  <2>4. PICK v \in Workers : v = Of(c) /\ Emits(type, v, c)
    BY <1>1, <2>1
  <2>5. /\ \A i \in 1..Len(queue') : queue'[i].type = type \/ (i \in 1..Len(queue) /\ queue'[i] = queue[i])
        /\ \A i \in 1..Len(queue) : i \in 1..Len(queue') /\ queue'[i] = queue[i]
        /\ \E i \in 1..Len(queue') : queue'[i].worker = v /\ queue'[i].type = type
    BY <1>1, <2>3, <2>4, EmitsEffect, EmitsIt
  <2>6. Ups' /\ call'[Host].pc \in {"idle", "loading"}
    BY <1>1, <2>2, <2>3, <2>5 DEF Truthful, Ups, At, Callers
  <2>7. TakenDown(v)' /\ \A w \in Workers : (Works(w) => Works(w)') /\ (w \in todo => Pending(w)')
    BY <1>1, <2>1, <2>3, <2>5 DEF Works, Pending, TakenDown
  <2>8. \A w \in Workers, d \in Calls : AtIt(d) /\ Of(d) = w => Pending(w)'
    BY <1>1, <2>2, <2>4, <2>7 DEF Pending, AtIt, Of, Callers
  <2>9. todo \subseteq Workers
    BY <1>1 DEF TypeOK
  <2>10. Truth'
    BY <1>1, <2>5, <2>7, <2>8, <2>9, TruthStays DEF Truthful
  <2> QED BY <2>6, <2>10 DEF Truthful
<1> QED BY <1>2, <1>3

LEMMA AnswersTells == ASSUME IInv, TruthInv, NEW c \in Calls, Answers(c) PROVE TruthInv'
<1> USE Actors
<1>1. /\ c \in Callers /\ c # Host /\ call[c].pc = "answer" /\ TypeOK /\ call' = [call EXCEPT ![c] = NoCall]
      /\ UNCHANGED <<entry, queue, running, body, runtime, todo, refused>>
  BY DEF Answers, At, Done, Callers, budgets, IInv
<1>2. call'[c].pc = "idle" /\ \A d \in Callers : d # c => call'[d] = call[d]
  BY <1>1, CallEffect, Nulls DEF NoCall
<1> SUFFICES ASSUME Truthful PROVE Truthful'
  BY <1>1 DEF TruthInv
<1>3. Ups' /\ call'[Host].pc \in {"idle", "loading"}
  BY <1>1, <1>2 DEF Truthful, Ups, At, Callers
<1>4. \A w \in Workers : (Works(w) => Works(w)') /\ (w \in todo => Pending(w)')
  BY <1>1 DEF Works, Pending
<1>5. \A w \in Workers, d \in Calls : AtIt(d) /\ Of(d) = w => Pending(w)'
  BY <1>1, <1>2 DEF Pending, AtIt, Of, Callers
<1>6. todo \subseteq Workers
  BY <1>1 DEF TypeOK
<1>7. Truth'
  BY <1>1, <1>4, <1>5, <1>6, TruthStays DEF Truthful
<1> QED BY <1>3, <1>7 DEF Truthful

(* A call that stops a worker's run is at it until the event that takes the worker down is given. *)
LEMMA StopsTells ==
  ASSUME IInv, TruthInv, NEW c \in Calls, NEW v \in Workers, NEW op \in {"cancelled", "paused"},
         running[v] # 0, At(c, "idle"), Stops(c, op, v, {running[v]}),
         UNCHANGED <<entry, queue, running, runtime, todo, refused>>
  PROVE  TruthInv'
<1> USE Actors
<1>1. /\ c \in Callers /\ c # Host /\ call[c].pc = "idle" /\ TypeOK /\ running[v] \in Bodies
      /\ \A w \in Workers : running[w] \in Bodies \union {0}
      /\ \A w \in Workers : running[w] # 0 /\ running[w] = running[v] => w = v
  BY DEF At, Callers, IInv, TypeOK, BodyInv, ListedRuns
<1>2. PICK S \in SUBSET Bodies : S = {running[v]}
  BY <1>1
<1>3. /\ \A b \in Bodies : body'[b].pc = body[b].pc /\ (body[b].active /\ b \notin S => body'[b].active)
      /\ call'[c].worker = v /\ call'[c].pc = "stopping"
      /\ \A d \in Callers : d # c => call'[d] = call[d]
  BY <1>1, <1>2, StopsEffect
<1> SUFFICES ASSUME Truthful PROVE Truthful'
  BY DEF TruthInv
<1>4. Ups' /\ call'[Host].pc \in {"idle", "loading"}
  BY <1>1, <1>3 DEF Truthful, Ups, At, Callers
<1>5. Pending(v)' /\ \A w \in todo : Pending(w)'
  BY <1>3 DEF Pending, AtIt, Of
<1>6. \A w \in Workers : w # v /\ Works(w) => Works(w)'
  BY <1>1, <1>2, <1>3 DEF Works
<1>7. \A w \in Workers, d \in Calls : AtIt(d) /\ Of(d) = w => Pending(w)'
  BY <1>1, <1>3 DEF Pending, AtIt, Of, Callers
<1>8. \A w \in Workers : Works(w) => Works(w)' \/ Pending(w)'
  BY <1>5, <1>6
<1>9. Truth'
  BY <1>1, <1>5, <1>7, <1>8, TruthStays DEF Truthful, TypeOK
<1> QED BY <1>4, <1>9 DEF Truthful

LEMMA CancelTells == ASSUME IInv, TruthInv, NEW c \in Calls, NEW v \in Workers, Cancel(c, v) PROVE TruthInv'
<1> USE Actors
<1>1. /\ c \in Callers /\ c # Host /\ call[c].pc = "idle" /\ TypeOK
      /\ UNCHANGED <<entry, running, runtime, todo, refused>>
  BY DEF Cancel, At, Callers, maps, budgets, IInv
<1>2. CASE running[v] # 0
  BY <1>1, <1>2, StopsTells DEF Cancel, At
<1>3. CASE running[v] = 0
  <2>1. Emits("cancelled", v, c) /\ UNCHANGED body
    BY <1>3 DEF Cancel
  <2>2. PICK r \in CallType : r.pc = "answer" /\ call' = [call EXCEPT ![c] = r]
    BY <1>3, Nulls DEF Cancel, CallType, NoCall
  <2>3. call'[c] = r /\ \A d \in Callers : d # c => call'[d] = call[d]
    BY <1>1, <2>2, CallEffect
  <2>4. /\ \A i \in 1..Len(queue') : queue'[i].type = "cancelled" \/ (i \in 1..Len(queue) /\ queue'[i] = queue[i])
        /\ \A i \in 1..Len(queue) : i \in 1..Len(queue') /\ queue'[i] = queue[i]
    BY <1>1, <2>1, EmitsEffect DEF EventTypes
  <2> SUFFICES ASSUME Truthful PROVE Truthful'
    BY <1>1 DEF TruthInv
  <2>5. Ups' /\ call'[Host].pc \in {"idle", "loading"}
    BY <1>1, <2>2, <2>3, <2>4 DEF Truthful, Ups, At, Callers
  <2>6. \A w \in Workers : (Works(w) => Works(w)') /\ (w \in todo => Pending(w)')
    BY <1>1, <2>1 DEF Works, Pending
  <2>7. \A w \in Workers, d \in Calls : AtIt(d) /\ Of(d) = w => Pending(w)'
    BY <1>1, <2>3 DEF Pending, AtIt, Of, Callers
  <2>8. todo \subseteq Workers
    BY <1>1 DEF TypeOK
  <2>9. Truth'
    BY <1>1, <2>4, <2>6, <2>7, <2>8, TruthStays DEF Truthful
  <2> QED BY <2>5, <2>9 DEF Truthful
<1> QED BY <1>2, <1>3

LEMMA PauseTells == ASSUME IInv, TruthInv, NEW c \in Calls, NEW v \in Workers, Pause(c, v) PROVE TruthInv'
  BY StopsTells DEF Pause, maps, budgets

LEMMA StopWaitsTells == ASSUME IInv, TruthInv, NEW c \in Callers, StopWaits(c) PROVE TruthInv'
<1> USE Actors
<1>1. /\ call[c].pc = "stopping" /\ TypeOK
      /\ call' = [call EXCEPT ![c].pc = "effects", ![c].exited = Gone(call[c].bodies)]
      /\ UNCHANGED <<entry, queue, running, body, runtime, todo, refused>>
  BY DEF StopWaits, At, maps, budgets, IInv
<1>2. /\ call'[c].pc = "effects" /\ call'[c].worker = call[c].worker
      /\ \A d \in Callers : d # c => call'[d] = call[d]
  <2>1. Gone(call[c].bodies) \in BOOLEAN
    BY DEF Gone
  <2> QED BY <1>1, <2>1, GoesEffect
<1> SUFFICES ASSUME Truthful PROVE Truthful'
  BY <1>1 DEF TruthInv
<1>3. c \in Calls
  BY <1>1 DEF Truthful, Callers
<1>4. Ups' /\ call'[Host].pc \in {"idle", "loading"}
  <2>1. call'[Host] = call[Host] /\ \A d \in Calls : call[d].pc = "launch" => call'[d].pc = "launch"
    BY <1>1, <1>2, <1>3 DEF Callers
  <2> QED BY <1>1, <2>1 DEF Truthful, Ups, At
<1>5. \A w \in Workers : (Works(w) => Works(w)') /\ (w \in todo => Pending(w)')
  BY <1>1 DEF Works, Pending
<1>6. \A w \in Workers, d \in Calls : AtIt(d) /\ Of(d) = w => Pending(w)'
  BY <1>1, <1>2, <1>3 DEF Pending, AtIt, Of, Callers
<1>7. todo \subseteq Workers
  BY <1>1 DEF TypeOK
<1>8. Truth'
  BY <1>1, <1>5, <1>6, <1>7, TruthStays DEF Truthful
<1> QED BY <1>4, <1>8 DEF Truthful

LEMMA StopEndsTells == ASSUME IInv, TruthInv, NEW c \in Callers, StopEnds(c) PROVE TruthInv'
<1> USE Actors
<1>1. call[c].pc = "effects" /\ TypeOK /\ UNCHANGED <<entry, runtime, todo, refused>>
  BY DEF StopEnds, At, budgets, IInv
<1> SUFFICES ASSUME Truthful PROVE Truthful'
  BY <1>1 DEF TruthInv
<1>2. /\ c \in Calls /\ c # Host /\ Of(c) \in Workers /\ call[c].op \in {"cancelled", "paused"}
      /\ call[c].op \in EventTypes /\ call[c].op \in Down
  BY <1>1 DEF Truthful, Callers, IInv, CallShape, At, EventTypes, Down, Final
<1>3. \A b \in call[c].bodies : /\ ~body[b].active /\ body[b].pc # "none"
                                /\ Live(b) => body[b].worker \in Workers
  BY <1>1, StopsBodies DEF IInv, StopInv, StopsRuns, BodyInv, KnownRuns
<1>4. /\ \A b \in Bodies : body'[b].pc = body[b].pc /\ body'[b].active = body[b].active
      /\ \A w \in Workers : running'[w] = IF running[w] \in call[c].bodies THEN 0 ELSE running[w]
      /\ call'[c].pc = "answer"
      /\ \A d \in Callers : d # c => call'[d] = call[d]
  BY <1>1, <1>2, <1>3, StopEndsEffect
<1>5. PICK v \in Workers, type \in EventTypes : v = Of(c) /\ type = call[c].op /\ Emits(type, v, c)
  BY <1>2 DEF StopEnds, Of
<1>6. type \in Down /\ type \notin {"started", "running"}
  BY <1>2, <1>5
<1>7. /\ \A i \in 1..Len(queue') : \/ queue'[i].type = type
                                   \/ i \in 1..Len(queue) /\ queue'[i] = queue[i]
      /\ \A i \in 1..Len(queue) : i \in 1..Len(queue') /\ queue'[i] = queue[i]
      /\ \E i \in 1..Len(queue') : queue'[i].worker = v /\ queue'[i].type = type
  BY <1>1, <1>5, EmitsEffect, EmitsIt
<1>8. Ups' /\ call'[Host].pc \in {"idle", "loading"}
  BY <1>1, <1>2, <1>4, <1>6, <1>7 DEF Truthful, Ups, At, Callers
<1>9. Pending(v)' /\ \A w \in todo : Pending(w)'
  BY <1>1, <1>6, <1>7 DEF Pending, TakenDown
<1>10. \A w \in Workers : Works(w) => Works(w)'
  BY <1>1, <1>3, <1>4 DEF Works, TypeOK
<1>11. \A w \in Workers, d \in Calls : AtIt(d) /\ Of(d) = w => Pending(w)'
  BY <1>2, <1>4, <1>5, <1>9 DEF Pending, AtIt, Of, Callers
<1>12. Truth'
  BY <1>1, <1>7, <1>9, <1>10, <1>11, TruthStays DEF Truthful, TypeOK
<1> QED BY <1>8, <1>12 DEF Truthful

(* The code around a body. *)
LEMMA EntersTells == ASSUME IInv, TruthInv, NEW b \in Bodies, Enters(b) PROVE TruthInv'
<1>1. /\ body[b].pc = "starting" /\ TypeOK
      /\ UNCHANGED <<entry, queue, running, call, runtime, todo, refused>>
  BY DEF Enters, maps, budgets, IInv
<1>2. /\ body'[b].active = body[b].active /\ (body[b].active => body'[b].pc = "executing")
      /\ \A d \in Bodies : d # b => body'[d] = body[d]
  <2>1. CASE body[b].active
    BY <1>1, <2>1, BodyEffect DEF Enters
  <2>2. CASE ~body[b].active
    BY <1>1, <2>2, BodyEffect DEF Enters
  <2> QED BY <2>1, <2>2
<1>3. \A w \in Workers : (Works(w) => Works(w)') /\ (Pending(w) => Pending(w)')
  BY <1>1, <1>2 DEF Works, Pending, AtIt, Of, TakenDown, TypeOK
<1> QED BY <1>1, <1>3 DEF TruthInv, Truthful, Ups, Truth, At

LEMMA ProgressesTells == ASSUME IInv, TruthInv, NEW b \in Bodies, Progresses(b) PROVE TruthInv'
<1>1. /\ body[b].worker \in Workers /\ TypeOK /\ Emits("sub", body[b].worker, b)
      /\ UNCHANGED <<entry, running, body, call, runtime, todo, refused>>
  BY DEF Progresses, maps, budgets, IInv, BodyInv, KnownRuns, Live
<1>2. /\ \A i \in 1..Len(queue') : queue'[i].type = "sub" \/ (i \in 1..Len(queue) /\ queue'[i] = queue[i])
      /\ \A i \in 1..Len(queue) : i \in 1..Len(queue') /\ queue'[i] = queue[i]
  BY <1>1, EmitsEffect DEF EventTypes
<1>3. \A w \in Workers : (Works(w) => Works(w)') /\ (Pending(w) => Pending(w)')
  BY <1>1, <1>2 DEF Works, Pending, AtIt, Of, TakenDown
<1>4. Ups => Ups'
  BY <1>1, <1>2 DEF Ups, At
<1> QED BY <1>1, <1>3, <1>4 DEF TruthInv, Truthful, Truth

LEMMA ReturnsTells == ASSUME IInv, TruthInv, NEW b \in Bodies, Returns(b) PROVE TruthInv'
<1>1. /\ body[b].pc = "executing" /\ TypeOK
      /\ UNCHANGED <<entry, queue, running, call, runtime, todo, refused>>
  BY DEF Returns, maps, budgets, IInv
<1>2. /\ body'[b].active = body[b].active /\ (body[b].active => body'[b].pc = "returned")
      /\ \A d \in Bodies : d # b => body'[d] = body[d]
  <2>1. CASE body[b].active
    BY <1>1, <2>1, BodyEffect DEF Returns
  <2>2. CASE ~body[b].active
    BY <1>1, <2>2, BodyEffect DEF Returns
  <2> QED BY <2>1, <2>2
<1>3. \A w \in Workers : (Works(w) => Works(w)') /\ (Pending(w) => Pending(w)')
  BY <1>1, <1>2 DEF Works, Pending, AtIt, Of, TakenDown, TypeOK
<1> QED BY <1>1, <1>3 DEF TruthInv, Truthful, Ups, Truth, At

(* A run that ends by itself is at work until it has given the event that says so. *)
LEMMA ReportsTells == ASSUME IInv, TruthInv, NEW b \in Bodies, Reports(b) PROVE TruthInv'
<1>1. /\ body[b].worker \in Workers /\ TypeOK
      /\ \A w \in Workers : running[w] = b => body[b].worker = w
      /\ UNCHANGED <<entry, running, call, runtime, todo, refused>>
  BY DEF Reports, maps, budgets, IInv, BodyInv, KnownRuns, ListedRuns, Live, Bodies
<1>2. \A d \in Bodies : d # b => body'[d] = body[d]
  BY <1>1 DEF Reports, TypeOK
<1>3. PICK v \in Workers : v = body[b].worker /\ Emits("ended", v, b)
  BY <1>1 DEF Reports
<1>4. /\ \A i \in 1..Len(queue') : queue'[i].type = "ended" \/ (i \in 1..Len(queue) /\ queue'[i] = queue[i])
      /\ \A i \in 1..Len(queue) : i \in 1..Len(queue') /\ queue'[i] = queue[i]
      /\ \E i \in 1..Len(queue') : queue'[i].worker = v /\ queue'[i].type = "ended"
  BY <1>1, <1>3, EmitsEffect, EmitsIt DEF EventTypes
<1>5. TakenDown(v)' /\ Pending(v)'
  BY <1>4 DEF Pending, TakenDown, Down, Final
<1>6. \A w \in Workers : w # v => (Works(w) => Works(w)') /\ (Pending(w) => Pending(w)')
  BY <1>1, <1>2, <1>3, <1>4 DEF Works, Pending, AtIt, Of, TakenDown, TypeOK
<1>7. Ups => Ups'
  BY <1>1, <1>4 DEF Ups, At
<1> QED BY <1>1, <1>5, <1>6, <1>7 DEF TruthInv, Truthful, Truth

LEMMA FinishesTells == ASSUME IInv, TruthInv, NEW b \in Bodies, Finishes(b) PROVE TruthInv'
<1>1. /\ body[b].pc \in {"finishing", "failing"} /\ TypeOK
      /\ UNCHANGED <<entry, queue, running, call, runtime, todo, refused>>
      /\ \A d \in Bodies : d # b => body'[d] = body[d]
  BY DEF Finishes, maps, budgets, IInv, TypeOK
<1>2. \A w \in Workers : (Works(w) => Works(w)') /\ (Pending(w) => Pending(w)')
  BY <1>1 DEF Works, Pending, AtIt, Of, TakenDown, TypeOK
<1> QED BY <1>1, <1>2 DEF TruthInv, Truthful, Ups, Truth, At

LEMMA EndsTells == ASSUME IInv, TruthInv, NEW b \in Bodies, Ends(b) PROVE TruthInv'
<1>1. /\ body[b].pc = "draining" /\ TypeOK
      /\ UNCHANGED <<entry, queue, call, runtime, todo, refused>>
      /\ \A d \in Bodies : d # b => body'[d] = body[d]
      /\ \A w \in Workers : running'[w] = IF running[w] = b THEN 0 ELSE running[w]
  BY DEF Ends, budgets, IInv, TypeOK
<1>2. \A w \in Workers : (Works(w) => Works(w)') /\ (Pending(w) => Pending(w)')
  BY <1>1 DEF Works, Pending, AtIt, Of, TakenDown, TypeOK
<1> QED BY <1>1, <1>2 DEF TruthInv, Truthful, Ups, Truth, At

(* The session: a load has every worker the projection calls running to look at. *)
LEMMA ParkWaitsTells == ASSUME IInv, TruthInv, ParkWaits PROVE TruthInv'
<1>1. call[Host].pc = "awaiting" /\ UNCHANGED <<runtime, refused>>
  BY DEF ParkWaits, At, budgets
<1> QED BY <1>1 DEF TruthInv, Truthful

LEMMA LoadBeginsTells == ASSUME IInv, LoadBegins PROVE TruthInv'
<1>1. /\ queue' = <<>> /\ entry' = entry
      /\ todo' = {w \in Workers : entry[w].status = "running" /\ entry[w].kept}
  BY DEF LoadBegins, IInv, HostInv
<1>2. call'[Host].pc = "loading"
  BY DEF LoadBegins, IInv, TypeOK, NoCall, Callers
<1> QED BY <1>1, <1>2 DEF TruthInv, Truthful, Ups, Truth, Pending

LEMMA LoadLaunchesTells == ASSUME IInv, TruthInv, NEW v \in Workers, LoadLaunches(v) PROVE TruthInv'
<1>1. /\ TypeOK /\ ListedRuns /\ todo' = todo \ {v}
      /\ UNCHANGED <<entry, call, runtime, refused>>
  BY DEF LoadLaunches, budgets, IInv, BodyInv
<1> SUFFICES ASSUME Truthful PROVE Truthful'
  BY <1>1 DEF TruthInv
<1>2. \A w \in Workers, c \in Calls : AtIt(c) /\ Of(c) = w => Pending(w)'
  BY <1>1 DEF Pending, AtIt, Of
<1>3. \A w \in todo : w # v => Pending(w)'
  BY <1>1 DEF Pending
<1>4. CASE Starts(v, entry[v])
  <2>1. /\ \A i \in 1..Len(queue') : queue'[i].type = "execution" \/ (i \in 1..Len(queue) /\ queue'[i] = queue[i])
        /\ \A i \in 1..Len(queue) : i \in 1..Len(queue') /\ queue'[i] = queue[i]
        /\ Works(v)' /\ \A w \in Workers : Works(w) => Works(w)'
    BY <1>1, <1>4, StartsWork
  <2>2. Ups'
    BY <1>1, <2>1 DEF Truthful, Ups, At
  <2>3. Truth'
    BY <1>1, <1>2, <1>3, <2>1, TruthStays DEF Truthful
  <2> QED BY <1>1, <2>2, <2>3 DEF Truthful
<1>5. CASE ~Starts(v, entry[v])
  <2>1. PICK type \in {"held", "paused"} : Emits(type, v, Host) /\ UNCHANGED <<running, body>>
    BY <1>5 DEF LoadLaunches
  <2>2. type \in EventTypes /\ type \in Down /\ Host \in Callers
    BY DEF EventTypes, Down, Final, Callers
  <2>3. /\ \A i \in 1..Len(queue') : queue'[i].type = type \/ (i \in 1..Len(queue) /\ queue'[i] = queue[i])
        /\ \A i \in 1..Len(queue) : i \in 1..Len(queue') /\ queue'[i] = queue[i]
        /\ \E i \in 1..Len(queue') : queue'[i].worker = v /\ queue'[i].type = type
    BY <1>1, <2>1, <2>2, EmitsEffect, EmitsIt
  <2>4. Ups'
    BY <1>1, <2>3 DEF Truthful, Ups, At
  <2>5. Pending(v)' /\ \A w \in Workers : Works(w) => Works(w)'
    BY <1>1, <2>1, <2>2, <2>3 DEF Works, Pending, TakenDown
  <2>6. Truth'
    BY <1>1, <1>2, <1>3, <2>3, <2>5, TruthStays DEF Truthful
  <2> QED BY <1>1, <2>4, <2>6 DEF Truthful
<1> QED BY <1>4, <1>5

LEMMA LoadEndsTells == ASSUME IInv, TruthInv, LoadEnds PROVE TruthInv'
<1> USE Actors
<1>1. /\ TypeOK /\ call' = [call EXCEPT ![Host] = NoCall] /\ Host \in Callers
      /\ UNCHANGED <<entry, queue, running, body, runtime, todo, refused>>
  BY DEF LoadEnds, maps, budgets, IInv, Callers
<1>2. call'[Host].pc = "idle" /\ \A c \in Calls : call'[c] = call[c]
  BY <1>1, CallEffect, Nulls DEF NoCall, Callers
<1>3. \A w \in Workers : (Works(w) => Works(w)') /\ (Pending(w) => Pending(w)')
  BY <1>1, <1>2 DEF Works, Pending, AtIt, Of, TakenDown
<1> QED BY <1>1, <1>2, <1>3 DEF TruthInv, Truthful, Ups, Truth, At

LEMMA StepTells == ASSUME IInv, TruthInv, [Next]_vars PROVE TruthInv'
<1>1. CASE Commit                                                      BY <1>1, CommitTells
<1>2. CASE Refuse                                                      BY <1>2 DEF Refuse, TruthInv
<1>3. ASSUME NEW c \in Calls, Launches(c) PROVE TruthInv'              BY <1>3, LaunchesTells
<1>4. ASSUME NEW c \in Calls, Answers(c) PROVE TruthInv'               BY <1>4, AnswersTells
<1>5. ASSUME NEW c \in Calls, NEW w \in Workers, Spawn(c, w) PROVE TruthInv'   BY <1>5, SpawnTells
<1>6. ASSUME NEW c \in Calls, NEW w \in Workers, Resume(c, w) PROVE TruthInv'  BY <1>6, ResumeTells
<1>7. ASSUME NEW c \in Calls, NEW w \in Workers, Cancel(c, w) PROVE TruthInv'  BY <1>7, CancelTells
<1>8. ASSUME NEW c \in Calls, NEW w \in Workers, Pause(c, w) PROVE TruthInv'   BY <1>8, PauseTells
<1>9. ASSUME NEW c \in Callers, Continues(c) PROVE TruthInv'
  BY <1>9, StopWaitsTells, StopEndsTells DEF Continues
<1>10. ASSUME NEW b \in Bodies, Surrounds(b) PROVE TruthInv'
  BY <1>10, EntersTells, ReportsTells, FinishesTells, EndsTells DEF Surrounds
<1>11. ASSUME NEW b \in Bodies, Progresses(b) PROVE TruthInv'          BY <1>11, ProgressesTells
<1>12. ASSUME NEW b \in Bodies, Returns(b) PROVE TruthInv'             BY <1>12, ReturnsTells
<1>13. CASE ParkBegins \/ CloseBegins                                  BY <1>13 DEF ParkBegins, CloseBegins, TruthInv
<1>14. CASE ParkWaits                                                  BY <1>14, ParkWaitsTells
<1>15. CASE Leaves \/ Crash                                            BY <1>15 DEF Leaves, Crash, GoesOff, TruthInv
<1>16. CASE LoadBegins                                                 BY <1>16, LoadBeginsTells
<1>17. CASE Loads
  BY <1>17, LoadLaunchesTells, LoadEndsTells DEF Loads
<1>18. CASE UNCHANGED vars
  BY <1>18 DEF vars, maps, budgets, TruthInv, Truthful, Ups, Truth, Works, Pending, TakenDown, AtIt, Of, At
<1> QED BY <1>1, <1>2, <1>3, <1>4, <1>5, <1>6, <1>7, <1>8, <1>9, <1>10, <1>11, <1>12, <1>13, <1>14,
           <1>15, <1>16, <1>17, <1>18 DEF Next

LEMMA InitTells == ASSUME Init PROVE TruthInv
  BY DEF Init, TruthInv, Truthful, Ups, Truth, NoEntry, NoCall, Callers

(* launchWorker, stopWorkers and relaunchOrHold: when nothing is under way, a worker that the
   projection calls running has a run. *)
THEOREM RunningHasRunHolds == Spec => []RunningHasRun
<1>1. Init => IInv /\ TruthInv
  BY InitHolds, InitTells
<1>2. IInv /\ TruthInv /\ [Next]_vars => (IInv /\ TruthInv)'
  BY StepKeeps, StepTells
<1>3. ASSUME IInv, TruthInv PROVE RunningHasRun
  <2> SUFFICES ASSUME AtRest, ~refused, NEW w \in Workers, entry[w].status = "running", entry[w].kept
               PROVE  running[w] # 0
    BY DEF RunningHasRun
  <2>1. todo = {} /\ queue = <<>> /\ \A c \in Calls : call[c].pc = "idle"
    BY <1>3 DEF AtRest, Serves, At, IInv, HostInv
  <2>2. Works(w) \/ Pending(w)
    BY <1>3 DEF TruthInv, Truthful, Truth, AtRest, Serves
  <2>3. ~Pending(w)
    BY <2>1 DEF Pending, AtIt, TakenDown
  <2> QED BY <2>2, <2>3 DEF Works
<1> QED BY <1>1, <1>2, <1>3, PTL DEF Spec
=============================================================================
