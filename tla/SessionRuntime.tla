--------------------------- MODULE SessionRuntime ---------------------------
(***************************************************************************)
(* Who may run a session, in one process                                   *)
(* (src/packages/sdk/src/core/sessions/session-manager.ts, session.ts and  *)
(* runtime-activity.ts), for one session id.                               *)
(*                                                                         *)
(* A tenure is one activation of the session.  Under it the cache builds   *)
(* runtimes from the log, hands them to callers under leases, and drops    *)
(* them: an idle sweep evicts, a close disposes, a host parks the tenure   *)
(* to hand the log to another host, or revokes it when that takes too long, *)
(* and a store that refuses a write stops its own runtime.  Every await of *)
(* these is a step of its own, so they interleave.                         *)
(*                                                                         *)
(* Left out: reopen and fork, the hold of interrupted work, what agents do *)
(* under their leases other than write (AgentTurn), how a write is queued  *)
(* (SessionStore).  A park's deadline bounds its caller only.              *)
(***************************************************************************)
EXTENDS Naturals, FiniteSets

CONSTANTS
  Leasers,     \* calls of acquireSessionLease
  Wakers,      \* wakes the scheduler delivers
  Creators,    \* calls of createSession
  MaxTenures, MaxEntries,   \* bounds: activations and runtimes over the session's life
  MaxUpsets,   \* bound: parks, revocations, shutdowns, idle evictions and failures, together
  LateRecovery \* may the write a load recovers with miss its deadline and still be running?

ASSUME RuntimeAssumption ==
  /\ MaxTenures \in Nat /\ MaxEntries \in Nat
  /\ MaxUpsets \in Nat /\ LateRecovery \in BOOLEAN

Callers == Leasers \union Wakers \union Creators
Tenures == 1..MaxTenures
Entries == 1..MaxEntries

VARIABLES
  tenures,   \* the activations: state, created on first access?, and how its park stands
  current,   \* tenures.get(id), 0 if none
  entries,   \* the cache entries ever made, each with its runtime, store and activity
  resident,  \* sessions.get(id), 0 if none
  shutdown,  \* "no", "running" or "done"
  log,       \* "absent", "open" or "closed"
  callers,   \* where each call is, and under which tenure and with which entry
  upsets     \* how many are left

vars == <<tenures, current, entries, resident, shutdown, log, callers, upsets>>

NoTenure == [state |-> "none", implicit |-> FALSE, park |-> "none"]

NoEntry ==
  [tenure |-> 0, cache |-> "loading", load |-> "none", failure |-> "none",
   runtime |-> FALSE, store |-> "none", writing |-> FALSE, activity |-> "ready",
   disposal |-> "none", cause |-> "none", swept |-> FALSE, busy |-> {}, dirty |-> FALSE,
   job |-> "none", retained |-> FALSE, forget |-> FALSE]

Idle == [pc |-> "idle", tenure |-> 0, entry |-> 0]

Init ==
  /\ tenures = [t \in Tenures |-> NoTenure]
  /\ current = 0
  /\ entries = [e \in Entries |-> NoEntry]
  /\ resident = 0
  /\ shutdown = "no"
  /\ log \in {"absent", "open", "closed"}
  /\ callers = [c \in Callers |-> Idle]
  /\ upsets = MaxUpsets

Upset == upsets > 0 /\ upsets' = upsets - 1

(* Bounds: the next activation, the next runtime. *)
NewTenure(t) == tenures[t].state = "none" /\ \A u \in Tenures : u < t => tenures[u].state # "none"
NewEntry(e)  == entries[e].tenure = 0 /\ \A f \in Entries : f < e => entries[f].tenure # 0

-----------------------------------------------------------------------------
(* What the entry of a runtime is and how it changes. *)
Stopped == {"disposed", "revoked"}

Settled(r) == r.load \in {"done", "failed"}

(* hasUnsafeResources *)
RuntimeUnsafe(r) == r.runtime /\ (r.writing \/ r.busy # {} \/ r.dirty)

(* isUnsafe: the store counts where there is no runtime. *)
Unsafe(r) == RuntimeUnsafe(r) \/ (~r.runtime /\ r.writing)

Leased(e) == \E c \in Callers : callers[c].pc = "holding" /\ callers[c].entry = e

Parking == {"load", "unload", "hooks", "drain", "cleanup", "settle"}

(* The activity stops; a park that waits under untilRevoked is released. *)
Stopping(r, activity) ==
  [r EXCEPT !.activity = activity, !.job = IF @ \in Parking THEN "gone" ELSE @]

(* Seeded fault: a forced disposal takes a revoked runtime back. *)
ForcedUnload_Any(r) == Stopping(r, "unloading")

(* Seeded fault: the entry's word for an unload, on its activity. *)
ForcedUnload_Entry(r) == IF r.activity = "ready" THEN [r EXCEPT !.activity = "evicting"] ELSE r

(* beginForcedUnload *)
ForcedUnload(r) ==
  IF r.activity = "parking" THEN Stopping(r, "unloading")
  ELSE IF r.activity = "ready" THEN [r EXCEPT !.activity = "unloading"]
  ELSE r

(* Session.dispose: the first caller starts the disposal. *)
Disposing(r, cause) ==
  [ForcedUnload(r) EXCEPT !.disposal = IF @ = "none" THEN "begun" ELSE @,
                          !.cause = IF r.disposal = "none" THEN cause ELSE @]

(* beginCacheEntryDisposal *)
Evicting(r, cause) ==
  IF r.cache = "evicting" THEN r ELSE [Disposing(r, cause) EXCEPT !.cache = "evicting"]

(* Session.revoke *)
RuntimeRevoked(r) ==
  [Stopping(r, "revoked") EXCEPT !.store = "detached", !.busy = @ \union {"cleanup"}]

(* Revoking an entry stops its activity, and its runtime if there is one. *)
Revoked(r) ==
  IF r.runtime /\ r.activity # "revoked" THEN RuntimeRevoked(r) ELSE Stopping(r, "revoked")

(* forgetEntry: now, later, or not at all while the runtime is up. *)
Forgotten(r) ==
  IF ~Settled(r) THEN [r EXCEPT !.forget = TRUE]
  ELSE IF r.runtime /\ r.activity \notin Stopped THEN [r EXCEPT !.forget = FALSE]
  ELSE IF Unsafe(r) THEN [r EXCEPT !.forget = TRUE]
  ELSE [r EXCEPT !.forget = FALSE, !.retained = FALSE,
                 !.activity = IF r.runtime \/ @ = "revoked" THEN @ ELSE "disposed"]

Retained(t) == {e \in Entries : entries[e].retained /\ entries[e].tenure = t}

Becomes(e, r) == entries' = [entries EXCEPT ![e] = r]

Drops(e) == resident' = IF resident = e THEN 0 ELSE resident

(* assertAdmission *)
Admitted(t) == shutdown = "no" /\ tenures[t].state = "active" /\ current = t

(* The last check of admission: an entry no longer resident may still be winding down. *)
Blocked(t) ==
  /\ resident = 0
  /\ \E e \in Retained(t) :
       /\ \A f \in Entries : entries[f].tenure = t => f <= e
       /\ Unsafe(entries[e])

-----------------------------------------------------------------------------
(* The host. *)

(* Seeded fault: an activation that looks at the tenure's state only. *)
MayActivate_Eager ==
  shutdown = "no" /\ (current # 0 => tenures[current].state \notin {"active", "parking"})

(* activate refuses while the old tenure has a load or an unsafe runtime. *)
MayActivate ==
  /\ shutdown = "no"
  /\ current # 0 =>
       /\ tenures[current].state \notin {"active", "parking"}
       /\ \A e \in Retained(current) : Settled(entries[e]) /\ ~RuntimeUnsafe(entries[e])

Opened(t, implicit) ==
  /\ NewTenure(t)
  /\ tenures' = [tenures EXCEPT ![t] = [state |-> "active", implicit |-> implicit, park |-> "none"]]
  /\ current' = t

Cleared(t) ==
  [e \in Entries |->
     IF entries[e].tenure = t THEN [entries[e] EXCEPT !.retained = FALSE] ELSE entries[e]]

Activate ==
  /\ MayActivate
  /\ \E t \in Tenures : Opened(t, FALSE)
  /\ entries' = Cleared(current)
  /\ UNCHANGED <<resident, shutdown, log, callers, upsets>>

(* How parkEntry starts on an entry. *)
ParkStarts(r) ==
  LET p == [r EXCEPT !.activity = IF @ = "ready" THEN "parking" ELSE @]
  IN  [p EXCEPT !.job =
         IF p.activity = "revoked" THEN "gone"
         ELSE IF p.cache # "evicting" THEN "load"
         ELSE IF p.cause # "idle" THEN "gone"
         ELSE "unload"]

(* parkSession.  A handle that does not hold the session any more resolves at once, one whose *)
(* log was lost rejects, one already parking joins that park: no step of the model.           *)
BeginPark(t) ==
  /\ current = t /\ tenures[t].state \in {"active", "parking"} /\ tenures[t].park = "none"
  /\ LET live == {e \in Retained(t) : entries[e].activity # "disposed"}
     IN  IF \E e \in Retained(t) \ live : RuntimeUnsafe(entries[e])
         THEN tenures' = [tenures EXCEPT ![t].state = "parking", ![t].park = "terminal"] /\ UNCHANGED entries
         ELSE IF live = {}
         THEN /\ tenures' = [tenures EXCEPT ![t].state = "released", ![t].park = "resolved"]
              /\ entries' = Cleared(t)
         ELSE /\ tenures' = [tenures EXCEPT ![t].state = "parking", ![t].park = "pending"]
              /\ entries' = [e \in Entries |->
                   IF e \in live /\ entries[e].job = "none" THEN ParkStarts(entries[e]) ELSE entries[e]]
  /\ Upset
  /\ UNCHANGED <<current, resident, shutdown, log, callers>>

RevokeSession(t) ==
  /\ current = t /\ tenures[t].state \notin {"released", "revoked"}
  /\ tenures' = [tenures EXCEPT ![t].state = "revoked"]
  /\ entries' = [e \in Entries |->
       IF e \notin Retained(t) THEN entries[e]
       ELSE IF entries[e].runtime THEN Forgotten(Revoked(entries[e]))
       ELSE Revoked(entries[e])]
  /\ resident' = IF resident \in Retained(t) THEN 0 ELSE resident
  /\ Upset
  /\ UNCHANGED <<current, shutdown, log, callers>>

ShutdownBegins ==
  /\ shutdown = "no"
  /\ shutdown' = "running"
  /\ Upset
  /\ UNCHANGED <<tenures, current, entries, resident, log, callers>>

ShutdownDisposes(e) ==
  /\ shutdown = "running" /\ entries[e].retained /\ entries[e].load = "done"
  /\ entries[e].activity \notin Stopped /\ entries[e].cache # "evicting"
  /\ Becomes(e, Evicting(entries[e], "shutdown"))
  /\ UNCHANGED <<tenures, current, resident, shutdown, log, callers, upsets>>

ShutdownEnds ==
  /\ shutdown = "running"
  /\ \A e \in Entries : entries[e].retained =>
       \/ entries[e].load = "failed" \/ entries[e].activity = "disposed"
       \/ entries[e].load = "done" /\ entries[e].activity = "revoked" /\ "cleanup" \notin entries[e].busy
  /\ \A e \in Entries : entries[e].cache = "evicting" => entries[e].disposal = "done"
  /\ shutdown' = "done" /\ resident' = 0
  /\ UNCHANGED <<tenures, current, entries, log, callers, upsets>>

-----------------------------------------------------------------------------
(* Callers.  acquireSessionLease, withWakeTarget and createSession share admission. *)
At(c, pc) == callers[c].pc = pc
Goes(c, pc) == callers' = [callers EXCEPT ![c].pc = pc]

(* Refused or done: the model does not tell a call's answers apart. *)
Answered(c) == callers' = [callers EXCEPT ![c] = [Idle EXCEPT !.pc = "answered"]]

Joins(c, t, pc, e) == callers' = [callers EXCEPT ![c] = [pc |-> pc, tenure |-> t, entry |-> e]]

(* A wake does not rebuild what is being torn down. *)
WakeRefused(c) ==
  /\ c \in Wakers
  /\ resident # 0 /\ (entries[resident].cache = "evicting" \/ entries[resident].activity # "ready")

Builds(c, t, load) ==
  \E e \in Entries :
    /\ NewEntry(e)
    /\ Becomes(e, [NoEntry EXCEPT !.tenure = t, !.load = load, !.retained = TRUE])
    /\ resident' = e
    /\ Joins(c, t, "await", e)

(* One turn of getSession's loop, up to what it awaits; createSession wants no entry. *)
LooksUp(c, t) ==
  IF resident = 0 THEN Builds(c, t, IF c \in Creators THEN "creating" ELSE "queued")
  ELSE /\ UNCHANGED <<entries, resident>>
       /\ LET r == entries[resident]
          IN  IF c \in Creators THEN Answered(c)
              ELSE Joins(c, t, IF r.cache = "evicting" THEN "unload"
                               ELSE IF r.cache = "ready" /\ r.activity # "ready" THEN "evict"
                               ELSE "await", resident)

LooksUpAgain(c, t) ==
  IF Admitted(t) /\ ~Blocked(t) THEN LooksUp(c, t) ELSE Answered(c) /\ UNCHANGED <<entries, resident>>

(* First access opens an implicit tenure. *)
Ask(c) ==
  /\ At(c, "idle")
  /\ \/ /\ current = 0 /\ shutdown = "no"
        /\ \E t \in Tenures : Opened(t, TRUE) /\ LooksUp(c, t)
     \/ /\ UNCHANGED <<tenures, current>>
        /\ IF current # 0 /\ ~WakeRefused(c) THEN LooksUpAgain(c, current)
           ELSE (current # 0 \/ shutdown # "no") /\ Answered(c) /\ UNCHANGED <<entries, resident>>
  /\ UNCHANGED <<shutdown, log, upsets>>

(* It met a runtime that no longer serves: it disposes of it and waits. *)
LookupEvicts(c) ==
  /\ At(c, "evict")
  /\ Becomes(callers[c].entry, Evicting(entries[callers[c].entry], "disposed"))
  /\ Goes(c, "unload")
  /\ UNCHANGED <<tenures, current, resident, shutdown, log, upsets>>

Unloaded(c) ==
  /\ At(c, "unload") /\ entries[callers[c].entry].disposal = "done"
  /\ LooksUpAgain(c, callers[c].tenure)
  /\ UNCHANGED <<tenures, current, shutdown, log, upsets>>

(* The load it awaited is done: it is served, or sent round again, or no longer admitted. *)
LoadAwaited(c) ==
  LET e == callers[c].entry  r == entries[e]  t == callers[c].tenure
  IN  /\ At(c, "await") /\ r.load = "done"
      /\ IF ~Admitted(t) THEN Answered(c) /\ Drops(e) /\ Becomes(e, Forgotten(r))
         ELSE IF c \notin Creators /\ (resident # e \/ r.activity # "ready") THEN LooksUpAgain(c, t)
         ELSE /\ IF c \in Creators THEN Answered(c) ELSE Goes(c, "got")
              /\ UNCHANGED resident
              /\ Becomes(e, IF resident = e /\ r.cache = "loading" THEN [r EXCEPT !.cache = "ready"] ELSE r)
      /\ UNCHANGED <<tenures, current, shutdown, log, upsets>>

(* ... or it failed.  Only a lookup reports a lost log, and only a lookup of a session that *)
(* does not exist takes the tenure it opened back.                                         *)
LoadAwaitFails(c) ==
  LET e == callers[c].entry  r == entries[e]  t == callers[c].tenure
      lost == r.failure = "lost" /\ c \notin Creators /\ current = t
              /\ tenures[t].state \in {"active", "parking"}
      gone == r.failure = "missing" /\ c \notin Creators
              /\ tenures[t].implicit /\ tenures[t].state = "active" /\ current = t
              /\ Retained(t) \subseteq {e}
              /\ ~Forgotten(r).retained
  IN  /\ At(c, "await") /\ r.load = "failed"
      /\ Answered(c) /\ Drops(e) /\ Becomes(e, Forgotten(r))
      /\ tenures' = IF lost THEN [tenures EXCEPT ![t].state = "lost"] ELSE tenures
      /\ current' = IF gone THEN 0 ELSE current
      /\ UNCHANGED <<shutdown, log, upsets>>

(* The lease: the runtime may have gone between the lookup and now. *)
Acquire(c) ==
  LET e == callers[c].entry  t == callers[c].tenure
  IN  /\ At(c, "got") /\ c \in Leasers
      /\ IF tenures[t].state # "active" \/ current # t THEN Answered(c) /\ UNCHANGED <<entries, resident>>
         ELSE IF resident = 0 THEN Goes(c, "bare") /\ UNCHANGED <<entries, resident>>
         ELSE IF resident = e /\ entries[e].activity = "ready" THEN Goes(c, "holding") /\ UNCHANGED <<entries, resident>>
         ELSE IF resident = e /\ entries[e].cache = "evicting" THEN Goes(c, "unload") /\ UNCHANGED <<entries, resident>>
         ELSE LooksUpAgain(c, t)
      /\ UNCHANGED <<tenures, current, shutdown, log, upsets>>

(* A wake is delivered under a lease, skipped if the session is closed, or rejected so that *)
(* its host keeps it.                                                                     *)
DeliverWake(c) ==
  LET e == callers[c].entry
  IN  /\ At(c, "got") /\ c \in Wakers
      /\ IF Admitted(callers[c].tenure) /\ log # "closed" /\ resident = e /\ entries[e].activity = "ready"
         THEN Goes(c, "holding") ELSE Answered(c)
      /\ UNCHANGED <<tenures, current, entries, resident, shutdown, log, upsets>>

Release(c) ==
  /\ callers[c].pc \in {"holding", "bare"}
  /\ Answered(c)
  /\ UNCHANGED <<tenures, current, entries, resident, shutdown, log, upsets>>

(* A holder closes the session: the runtime disposes of itself when session_closed lands. *)
CloseSession(c) ==
  LET e == callers[c].entry
  IN  /\ At(c, "holding") /\ log = "open" /\ entries[e].store = "open" /\ ~entries[e].writing
      /\ log' = "closed"
      /\ Becomes(e, IF resident = e THEN Evicting(entries[e], "closed") ELSE Disposing(entries[e], "closed"))
      /\ UNCHANGED <<tenures, current, resident, shutdown, callers, upsets>>

-----------------------------------------------------------------------------
(* A load, up to the runtime it builds. *)
LoadFails(e, r, why) == Becomes(e, [r EXCEPT !.load = "failed", !.failure = why])

(* createSessionInstance fails: a revoked tenure revokes the runtime, an active one disposes of *)
(* it before the load rejects, under any other the runtime stays as it is.                     *)
Unwinds(e, r, why) ==
  LET t == tenures[r.tenure].state
  IN  Becomes(e, IF t = "revoked"
                 THEN [(IF r.activity = "revoked" /\ r.store = "detached" THEN r ELSE RuntimeRevoked(r))
                         EXCEPT !.load = "failed", !.failure = why]
                 ELSE IF t = "active" /\ r.activity # "revoked"
                 THEN [Disposing(r, "idle") EXCEPT !.load = "unwinding", !.failure = why]
                 ELSE [r EXCEPT !.load = "failed", !.failure = why])

LoadReads(e) ==
  LET r == entries[e]
  IN  /\ r.load = "queued"
      /\ IF ~Admitted(r.tenure) THEN LoadFails(e, r, "unavailable")
         ELSE IF log = "absent" THEN LoadFails(e, r, "missing")
         ELSE Becomes(e, [r EXCEPT !.load = "read"])
      /\ UNCHANGED <<tenures, current, resident, shutdown, log, callers, upsets>>

(* The store is built from what was read; interrupted work makes the load write. *)
LoadBuilds(e) ==
  LET r == entries[e]
  IN  /\ r.load = "read"
      /\ IF ~Admitted(r.tenure) THEN LoadFails(e, r, "unavailable")
         ELSE \E recovers \in BOOLEAN :
                /\ recovers => log = "open"
                /\ Becomes(e, [r EXCEPT !.store = "open", !.writing = recovers,
                                        !.load = IF recovers THEN "recovering" ELSE "built"])
      /\ UNCHANGED <<tenures, current, resident, shutdown, log, callers, upsets>>

Recovered(e) ==
  /\ entries[e].load = "recovering"
  /\ Becomes(e, [entries[e] EXCEPT !.writing = FALSE, !.load = "built"])
  /\ UNCHANGED <<tenures, current, resident, shutdown, log, callers, upsets>>

(* Refused, refused for another owner, or still running when its deadline passes.  The store is *)
(* fenced and nothing else refers to it.                                                       *)
RecoveryFails(e) ==
  /\ entries[e].load = "recovering" /\ Upset
  /\ \E late \in BOOLEAN, why \in {"error", "lost"} :
       /\ late => LateRecovery /\ why = "error"
       /\ Becomes(e, [entries[e] EXCEPT !.writing = late, !.store = "detached",
                                        !.load = "failed", !.failure = why])
  /\ UNCHANGED <<tenures, current, resident, shutdown, log, callers>>

(* A new session's log is appended to without a store; the load is not settled before the *)
(* append is.                                                                             *)
CreateAppends(e) ==
  LET r == entries[e]
  IN  /\ r.load = "creating"
      /\ IF ~Admitted(r.tenure) THEN LoadFails(e, r, "unavailable")
         ELSE IF log # "absent" THEN LoadFails(e, r, "error")
         ELSE Becomes(e, [r EXCEPT !.load = "appending", !.writing = TRUE])
      /\ UNCHANGED <<tenures, current, resident, shutdown, log, callers, upsets>>

CreateLands(e) ==
  LET r == [entries[e] EXCEPT !.writing = FALSE]
  IN  /\ r.load = "appending"
      /\ \/ /\ log' = "open" /\ UNCHANGED upsets
            /\ IF Admitted(r.tenure) THEN Becomes(e, [r EXCEPT !.store = "open", !.load = "built"])
               ELSE LoadFails(e, r, "unavailable")
         \/ /\ Upset /\ UNCHANGED log
            /\ LoadFails(e, r, "error")
      /\ UNCHANGED <<tenures, current, resident, shutdown, callers>>

(* The session exists; its contexts and ready hooks run, unless it is closed. *)
SessionStarts(e) ==
  LET r == [entries[e] EXCEPT !.runtime = TRUE]
  IN  /\ r.load = "built"
      /\ IF ~Admitted(r.tenure) THEN Unwinds(e, r, "unavailable")
         ELSE Becomes(e, [r EXCEPT !.load = "hooks"])
      /\ UNCHANGED <<tenures, current, resident, shutdown, log, callers, upsets>>

(* Seeded fault: a hook waits for the lease a park refuses. *)
HooksEnd_Patient(e) ==
  LET r == entries[e]
  IN  /\ r.load = "hooks" /\ r.activity # "parking"
      /\ IF Admitted(r.tenure) THEN Becomes(e, [r EXCEPT !.load = "done"]) ELSE Unwinds(e, r, "unavailable")
      /\ UNCHANGED <<tenures, current, resident, shutdown, log, callers, upsets>>

(* The hooks run to their end; the last check is on the tenure, each hook's own on the activity. *)
HooksEnd(e) ==
  LET r == entries[e]
  IN  /\ r.load = "hooks"
      /\ \/ Admitted(r.tenure) /\ Becomes(e, [r EXCEPT !.load = "done"])
         \/ (~Admitted(r.tenure) \/ r.activity # "ready") /\ Unwinds(e, r, "unavailable")
      /\ UNCHANGED <<tenures, current, resident, shutdown, log, callers, upsets>>

HooksThrow(e) ==
  /\ entries[e].load = "hooks" /\ Upset
  /\ Unwinds(e, entries[e], "error")
  /\ UNCHANGED <<tenures, current, resident, shutdown, log, callers>>

Unwound(e) ==
  /\ entries[e].load = "unwinding" /\ entries[e].disposal = "done"
  /\ Becomes(e, [entries[e] EXCEPT !.load = "failed"])
  /\ UNCHANGED <<tenures, current, resident, shutdown, log, callers, upsets>>

-----------------------------------------------------------------------------
(* Writes of a runtime: by a lease holder, a hook of its load, its park or its disposal. *)
Writer(e) ==
  LET r == entries[e]
  IN  \/ Leased(e) \/ r.load = "hooks" \/ r.disposal = "draining"
      \/ r.job \in {"hooks", "cleanup"}

WriteStarts(e) ==
  /\ entries[e].runtime /\ entries[e].store = "open" /\ ~entries[e].writing /\ Writer(e)
  /\ Becomes(e, [entries[e] EXCEPT !.writing = TRUE])
  /\ UNCHANGED <<tenures, current, resident, shutdown, log, callers, upsets>>

WriteSettles(e) ==
  /\ entries[e].writing /\ entries[e].load \notin {"recovering", "appending"}
  /\ Becomes(e, [entries[e] EXCEPT !.writing = FALSE])
  /\ UNCHANGED <<tenures, current, resident, shutdown, log, callers, upsets>>

(* The store fences: the runtime revokes itself and the cache drops it.  The write may still be *)
(* running; one that found another owner is over, and loses the tenure.                         *)
WriteFences(e) ==
  LET r == entries[e]  t == r.tenure
  IN  /\ r.runtime /\ r.store = "open" /\ r.writing /\ Upset
      /\ \E owner \in {"kept", "lost"}, settled \in BOOLEAN :
           LET stopped == [RuntimeRevoked(r) EXCEPT !.writing = ~settled]
           IN  /\ owner = "lost" => settled
               /\ Becomes(e, IF r.retained THEN Forgotten(stopped) ELSE stopped)
               /\ IF r.retained THEN Drops(e) ELSE UNCHANGED resident
               /\ tenures' = IF owner = "lost" /\ current = t /\ tenures[t].state \in {"active", "parking"}
                             THEN [tenures EXCEPT ![t].state = "lost"] ELSE tenures
      /\ UNCHANGED <<current, shutdown, log, callers>>

(* Cleanup of a revoked runtime; a hook that fails leaves it unsafe for good. *)
CleanupEnds(e) ==
  LET r == [entries[e] EXCEPT !.busy = @ \ {"cleanup"}]
  IN  /\ "cleanup" \in entries[e].busy /\ r.job # "cleanup"
      /\ \/ Becomes(e, [r EXCEPT !.dirty = FALSE]) /\ UNCHANGED upsets
         \/ Becomes(e, [r EXCEPT !.dirty = TRUE]) /\ Upset
      /\ UNCHANGED <<tenures, current, resident, shutdown, log, callers>>

(* An entry that could not be forgotten at once. *)
Forget(e) ==
  LET r == entries[e]
  IN  /\ r.forget /\ Settled(r) /\ ~Unsafe(r)
      /\ Becomes(e, Forgotten(r))
      /\ UNCHANGED <<tenures, current, resident, shutdown, log, callers, upsets>>

-----------------------------------------------------------------------------
(* Eviction and disposal. *)

(* Seeded fault: the sweep looks at the entry, not at its leases. *)
SweepBegins_Blind(e) ==
  /\ resident = e /\ entries[e].cache = "ready" /\ entries[e].activity = "ready"
  /\ Upset
  /\ Becomes(e, [entries[e] EXCEPT !.activity = "unloading", !.swept = TRUE])
  /\ UNCHANGED <<tenures, current, resident, shutdown, log, callers>>

(* evictIdleSessions, up to its await *)
SweepBegins(e) ==
  /\ resident = e /\ entries[e].cache = "ready" /\ entries[e].activity = "ready" /\ ~Leased(e)
  /\ Upset
  /\ Becomes(e, [entries[e] EXCEPT !.activity = "unloading", !.swept = TRUE])
  /\ UNCHANGED <<tenures, current, resident, shutdown, log, callers>>

(* ... and from it *)
SweepDisposes(e) ==
  /\ entries[e].swept
  /\ Becomes(e, [Evicting(entries[e], "idle") EXCEPT !.swept = FALSE])
  /\ UNCHANGED <<tenures, current, resident, shutdown, log, callers, upsets>>

(* Seeded fault: the entry of a disposed runtime stays in the cache. *)
Disposed_Resident(e, r) == Becomes(e, IF r.cache = "evicting" THEN Forgotten(r) ELSE r) /\ UNCHANGED resident

Disposed(e, r) ==
  /\ Becomes(e, IF r.cache = "evicting" THEN Forgotten(r) ELSE r)
  /\ IF r.cache = "evicting" THEN Drops(e) ELSE UNCHANGED resident

(* performDisposal tears down an unloading runtime; it throws if that was revoked meanwhile. *)
DisposalStarts(e) ==
  LET r == entries[e]
  IN  /\ r.disposal = "begun"
      /\ IF r.activity = "unloading"
         THEN Becomes(e, [r EXCEPT !.disposal = "draining"]) /\ UNCHANGED resident
         ELSE Disposed(e, [r EXCEPT !.disposal = "done"])
      /\ UNCHANGED <<tenures, current, shutdown, log, callers, upsets>>

(* Close hooks ran, turns drained or were given up on; the store is detached last. *)
DisposalEnds(e) ==
  LET r == entries[e]
  IN  /\ r.disposal = "draining"
      /\ Disposed(e, [r EXCEPT !.disposal = "done", !.store = "detached",
                               !.activity = IF @ = "revoked" THEN @ ELSE "disposed"])
      /\ UNCHANGED <<tenures, current, shutdown, log, callers, upsets>>

-----------------------------------------------------------------------------
(* Parking: each entry's drain, and the park of the tenure that waits for them all. *)
ParkFails(e, r) == Becomes(e, [r EXCEPT !.job = "failed"]) /\ Upset

(* The load settled; Session.park starts the park hooks on a runtime that is parking. *)
ParkLoaded(e) ==
  LET r    == entries[e]
      park == r.load = "done" \/ (r.failure = "unavailable" /\ r.runtime)
      p    == [r EXCEPT !.activity = IF @ = "ready" THEN "parking" ELSE @]
  IN  /\ r.job = "load" /\ Settled(r)
      /\ IF ~park
         THEN IF r.failure = "unavailable"
              THEN Becomes(e, [r EXCEPT !.job = "done"]) /\ Drops(e)
              ELSE Becomes(e, [r EXCEPT !.job = "failed"]) /\ UNCHANGED resident
         ELSE /\ UNCHANGED resident
              /\ Becomes(e, IF p.activity = "parking"
                            THEN [p EXCEPT !.job = "hooks", !.busy = @ \union {"park"}]
                            ELSE [p EXCEPT !.job = "gone"])
      /\ UNCHANGED <<tenures, current, shutdown, log, callers, upsets>>

ParkUnloaded(e) ==
  /\ entries[e].job = "unload" /\ entries[e].disposal = "done"
  /\ Becomes(e, [entries[e] EXCEPT !.job = "done"])
  /\ UNCHANGED <<tenures, current, resident, shutdown, log, callers, upsets>>

ParkHooksEnd(e) ==
  LET r == [entries[e] EXCEPT !.busy = @ \ {"park"}]
  IN  /\ "park" \in entries[e].busy
      /\ IF r.job = "hooks"
         THEN \/ Becomes(e, [r EXCEPT !.job = "drain"]) /\ UNCHANGED upsets
              \/ ParkFails(e, r)
         ELSE Becomes(e, r) /\ UNCHANGED upsets
      /\ UNCHANGED <<tenures, current, resident, shutdown, log, callers>>

(* Seeded fault: the leases are not waited for. *)
ParkDrains_Hasty(e) ==
  /\ entries[e].job = "drain" /\ ~entries[e].writing
  /\ Becomes(e, [entries[e] EXCEPT !.job = "cleanup", !.busy = @ \union {"cleanup"}])
  /\ UNCHANGED <<tenures, current, resident, shutdown, log, callers, upsets>>

(* Every lease is back and every write settled: the close hooks run. *)
ParkDrains(e) ==
  /\ entries[e].job = "drain" /\ ~Leased(e) /\ ~entries[e].writing
  /\ Becomes(e, [entries[e] EXCEPT !.job = "cleanup", !.busy = @ \union {"cleanup"}])
  /\ UNCHANGED <<tenures, current, resident, shutdown, log, callers, upsets>>

ParkCleanupEnds(e) ==
  LET r == [entries[e] EXCEPT !.busy = @ \ {"cleanup"}]
  IN  /\ entries[e].job = "cleanup"
      /\ \/ Becomes(e, [r EXCEPT !.job = "settle", !.dirty = FALSE]) /\ UNCHANGED upsets
         \/ ParkFails(e, [r EXCEPT !.dirty = TRUE])
      /\ UNCHANGED <<tenures, current, resident, shutdown, log, callers>>

(* The scheduler's calls and the last writes settle; then the store is detached. *)
ParkSettles(e) ==
  LET r == entries[e]
  IN  /\ r.job = "settle" /\ ~r.writing
      /\ \/ /\ Becomes(e, [r EXCEPT !.job = "done", !.store = "detached", !.activity = "disposed"])
            /\ Drops(e) /\ UNCHANGED upsets
         \/ ParkFails(e, r) /\ UNCHANGED resident
      /\ UNCHANGED <<tenures, current, shutdown, log, callers>>

Jobs(t) == {e \in Entries : entries[e].tenure = t /\ entries[e].job # "none"}

ParkResolves(t) ==
  /\ tenures[t].park = "pending" /\ \A e \in Jobs(t) : entries[e].job = "done"
  /\ IF tenures[t].state = "parking" /\ \A e \in Retained(t) : ~RuntimeUnsafe(entries[e])
     THEN /\ tenures' = [tenures EXCEPT ![t].state = "released", ![t].park = "resolved"]
          /\ entries' = Cleared(t)
     ELSE /\ tenures' = [tenures EXCEPT ![t].park = IF tenures[t].state = "lost" THEN "none" ELSE "terminal"]
          /\ UNCHANGED entries
  /\ UNCHANGED <<current, resident, shutdown, log, callers, upsets>>

(* A drain that failed can be tried again; one that found the runtime gone cannot. *)
ParkRejects(t) ==
  /\ tenures[t].park = "pending"
  /\ \E e \in Jobs(t) :
       /\ entries[e].job \in {"failed", "gone"}
       /\ LET again == \/ tenures[t].state = "lost"
                       \/ tenures[t].state = "parking" /\ entries[e].job = "failed"
          IN  /\ tenures' = [tenures EXCEPT ![t].park = IF again THEN "none" ELSE "terminal"]
              /\ entries' = [f \in Entries |->
                   IF again /\ f \in Jobs(t) /\ entries[f].job \in {"done", "failed"}
                   THEN [entries[f] EXCEPT !.job = "none"] ELSE entries[f]]
  /\ UNCHANGED <<current, resident, shutdown, log, callers, upsets>>

-----------------------------------------------------------------------------
CallerStep(c) ==
  \/ LookupEvicts(c) \/ Unloaded(c) \/ LoadAwaited(c) \/ LoadAwaitFails(c)
  \/ Acquire(c) \/ DeliverWake(c) \/ Release(c)

(* What the runtime does on its own. *)
Load(e) ==
  \/ LoadReads(e) \/ LoadBuilds(e) \/ Recovered(e) \/ RecoveryFails(e)
  \/ CreateAppends(e) \/ CreateLands(e) \/ SessionStarts(e) \/ HooksEnd(e) \/ HooksThrow(e) \/ Unwound(e)

Disposal(e) == SweepDisposes(e) \/ DisposalStarts(e) \/ DisposalEnds(e)

Park(e) ==
  \/ ParkLoaded(e) \/ ParkUnloaded(e) \/ ParkHooksEnd(e) \/ ParkDrains(e) \/ ParkCleanupEnds(e)
  \/ ParkSettles(e)

Host ==
  \/ Activate \/ ShutdownBegins
  \/ \E t \in Tenures : BeginPark(t) \/ RevokeSession(t)

Next ==
  \/ Host \/ ShutdownEnds
  \/ \E t \in Tenures : ParkResolves(t) \/ ParkRejects(t)
  \/ \E c \in Callers : Ask(c) \/ CallerStep(c) \/ CloseSession(c)
  \/ \E e \in Entries : \/ Load(e) \/ Park(e) \/ Disposal(e) \/ SweepBegins(e) \/ ShutdownDisposes(e)
                        \/ WriteStarts(e) \/ WriteSettles(e) \/ WriteFences(e)
                        \/ CleanupEnds(e) \/ Forget(e)

Spec == Init /\ [][Next]_vars

(***************************************************************************)
(* Promises settle: what a load, a hook, a write, a disposal or a park     *)
(* awaits comes to an end, and a caller that was served returns its lease. *)
(* Nothing obliges a host to park, a sweep to run or a write to fail.      *)
(***************************************************************************)
Fairness ==
  /\ \A c \in Callers : WF_vars(CallerStep(c))
  /\ \A e \in Entries :
       /\ WF_vars(Load(e)) /\ WF_vars(Disposal(e)) /\ WF_vars(Park(e)) /\ WF_vars(WriteSettles(e))
       /\ WF_vars(CleanupEnds(e)) /\ WF_vars(Forget(e)) /\ WF_vars(ShutdownDisposes(e))
  /\ \A t \in Tenures : WF_vars(ParkResolves(t) \/ ParkRejects(t))
  /\ WF_vars(ShutdownEnds)

FairSpec == Spec /\ Fairness

-----------------------------------------------------------------------------
TenureType == [state : {"none", "active", "parking", "released", "revoked", "lost"},
               implicit : BOOLEAN, park : {"none", "pending", "terminal", "resolved"}]

Loads      == {"none", "queued", "creating", "appending", "read", "recovering", "built", "hooks",
               "unwinding", "done", "failed"}
Failures   == {"none", "unavailable", "missing", "error", "lost"}
Stores     == {"none", "open", "detached"}
Activities == {"ready", "parking", "unloading"} \union Stopped
Disposals  == {"none", "begun", "draining", "done"}
Causes     == {"none", "idle", "closed", "disposed", "shutdown"}
ParkSteps  == Parking \union {"none", "done", "failed", "gone"}

EntryType ==
  [tenure : Tenures \union {0}, cache : {"loading", "ready", "evicting"}, load : Loads, failure : Failures,
   runtime : BOOLEAN, store : Stores, writing : BOOLEAN, activity : Activities,
   disposal : Disposals, cause : Causes, swept : BOOLEAN, busy : SUBSET {"park", "cleanup"},
   dirty : BOOLEAN, job : ParkSteps, retained : BOOLEAN, forget : BOOLEAN]

CallerType == [pc : {"idle", "await", "evict", "unload", "got", "holding", "bare", "answered"},
               tenure : Tenures \union {0}, entry : Entries \union {0}]

TypeOK ==
  /\ tenures \in [Tenures -> TenureType] /\ current \in Tenures \union {0}
  /\ entries \in [Entries -> EntryType] /\ resident \in Entries \union {0}
  /\ shutdown \in {"no", "running", "done"}
  /\ log \in {"absent", "open", "closed"}
  /\ callers \in [Callers -> CallerType]
  /\ upsets \in Nat

(***************************************************************************)
(* At any time at most one runtime of the session stands on the log: from  *)
(* the moment its load reads it until its store is detached and its last   *)
(* write has settled.  A runtime that reads behind a write still in flight *)
(* works on a log that is about to change under it.                        *)
(***************************************************************************)
OnLog(r) == r.writing \/ r.store = "open" \/ r.load = "read"

SingleWriter == \A e, f \in Entries : OnLog(entries[e]) /\ OnLog(entries[f]) => e = f

(***************************************************************************)
(* A tenure that ended is off the log.  Released, another host may open    *)
(* it: nothing of this one is on it, no hook of its teardown still runs,   *)
(* and no caller holds a lease on a runtime that was parked.  Revoked, it  *)
(* writes no more: every runtime it built, the one its load was building   *)
(* included, has its store detached.                                       *)
(***************************************************************************)
ReleasedIsQuiet ==
  \A e \in Entries :
    LET r == entries[e]
        ended(state) == r.tenure # 0 /\ tenures[r.tenure].state = state
    IN  /\ ended("released") =>
             /\ ~OnLog(r) /\ r.busy = {}
             /\ r.job = "done" /\ r.disposal = "none" => ~Leased(e)
        /\ ended("revoked") /\ r.runtime => r.store = "detached"

(***************************************************************************)
(* A lease keeps its runtime: while a caller holds one, only a close, a    *)
(* shutdown, a failed write or a revocation takes the runtime away, never  *)
(* the idle sweep.  And a caller that is given a session without a lease,  *)
(* because its entry left the cache meanwhile, never holds a runtime that  *)
(* still serves.                                                           *)
(***************************************************************************)
LeaseKeepsResident ==
  /\ \A e \in Entries :
       Leased(e) /\ entries[e].activity \in {"unloading", "disposed"} => entries[e].cause \in {"closed", "shutdown"}
  /\ \A c \in Callers :
       At(c, "bare") => entries[callers[c].entry].activity \in Stopped \/ shutdown # "no"

(***************************************************************************)
(* A runtime that left service does not come back, whatever disposals,     *)
(* parks and revocations meet on it.                                       *)
(***************************************************************************)
Rank == [ready |-> 0, parking |-> 1, unloading |-> 2, disposed |-> 3, revoked |-> 4]

NeverBackInService ==
  [][\A e \in Entries : Rank[entries'[e].activity] >= Rank[entries[e].activity]]_vars

(***************************************************************************)
(* Every caller is answered, unless the model is out of runtimes to build. *)
(***************************************************************************)
EveryCallAnswered ==
  \A c \in Callers :
    callers[c].pc # "idle" ~> (At(c, "answered") \/ \A e \in Entries : entries[e].tenure # 0)

(***************************************************************************)
(* A handover ends.  A park settles: it hands the log over or tells the    *)
(* host that it cannot.  After a revocation the session can be activated   *)
(* again, unless a cleanup hook failed.                                    *)
(***************************************************************************)
EveryParkSettles ==
  \A t \in Tenures :
    /\ tenures[t].park = "pending" ~> tenures[t].park # "pending"
    /\ tenures[t].state = "revoked" ~>
         (\A e \in Retained(t) : Settled(entries[e]) /\ (RuntimeUnsafe(entries[e]) => entries[e].dirty))
=============================================================================
