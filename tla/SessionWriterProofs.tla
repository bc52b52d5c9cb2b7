------------------------ MODULE SessionWriterProofs ------------------------
(***************************************************************************)
(* That the runtimes of a session take turns on its log, for every set of  *)
(* callers and any number of activations, runtimes and upsets: a single    *)
(* writer, a quiet log after a release or a revocation, and leases that    *)
(* keep their runtime.                                                     *)
(*                                                                         *)
(* The properties are about two runtimes, of two tenures; what makes them  *)
(* hold is what a runtime that left the cache has already given up.  WInv  *)
(* says it in parts: what the fields of an entry allow together (Fits),    *)
(* and with the leases on it (Leases); what they allow under the state of  *)
(* the tenure, and that only the current tenure has a runtime on the log   *)
(* (Tenancy); that this is the last runtime made (Order), and the one in   *)
(* the cache, or one that will not come to write any more (Residency); and *)
(* what a call still under way may believe of its entry (Calls).           *)
(*                                                                         *)
(* A step changes the record of one entry, or those of a tenure.  What it  *)
(* makes of a record is proved on the record alone: Serves(r, s, leased,   *)
(* t) says that the record r became s and suits its leases and its tenure  *)
(* t, and that nothing it gave up came back (Advances).  Keeps puts these  *)
(* together with what the step does to the cache, the tenures and the      *)
(* calls; each action is then a lemma.                                     *)
(***************************************************************************)
EXTENDS SessionRuntimeProofs

Made(e) == entries[e].tenure # 0

Loaded    == {"hooks", "unwinding", "done", "failed"}
PastHooks == {"unwinding", "done", "failed"}

(* It read the log, its store does not take writes any more, and no write of its runtime is out. *)
OffLog(r) == r.load \in Loaded /\ r.store # "open" /\ (r.writing => ~r.runtime)

(* How far the load is, and what there is of the session by then. *)
LoadFits(r) ==
  /\ r.load # "none"
  /\ r.load \in {"queued", "read", "creating"} => r.store = "none" /\ ~r.writing
  /\ r.load = "appending" => r.store = "none"
  /\ r.load \in {"recovering", "built"} => r.store = "open"
  /\ r.runtime => r.load \in Loaded
  /\ r.load \in {"hooks", "unwinding", "done"} => r.runtime
  /\ r.failure = "lost" => r.load = "failed" /\ ~r.runtime
  /\ r.load = "failed" /\ ~r.runtime =>
       r.store # "open" /\ (r.writing => r.failure = "error" /\ LateRecovery)
  /\ r.forget => r.load \in Loaded

(* A runtime has its store until it stopped, and no longer. *)
StoreFits(r) ==
  r.runtime => r.store \in {"open", "detached"} /\ (r.store = "detached" <=> r.activity \in Stopped)

(* An entry without a runtime: nothing of it is disposed of or parked. *)
BareFits(r) ==
  ~r.runtime =>
    /\ r.disposal = "none" /\ r.cache = "loading" /\ r.busy = {} /\ ~r.swept /\ r.activity # "unloading"
    /\ r.activity = "disposed" => r.load = "failed" /\ ~r.writing /\ ~r.retained
    /\ r.job \in {"none", "load", "gone", "done", "failed"}

(* A disposal stops a runtime whose load is over. *)
DisposalFits(r) ==
  /\ r.cache # "loading" => r.load = "done"
  /\ r.disposal # "none" => r.activity \notin {"ready", "parking"} /\ r.load \in PastHooks
  /\ r.disposal = "none" => r.cause = "none"
  /\ r.disposal = "done" => r.activity \in Stopped
  /\ r.load = "unwinding" => r.disposal # "none"
  /\ r.swept => r.activity \notin {"ready", "parking"} /\ r.load = "done"
  /\ r.activity = "disposed" => r.load \in PastHooks

(* What the park of an entry waits for, and what it found at its end. *)
JobFits(r) ==
  /\ r.job \in {"hooks", "drain", "cleanup", "settle"} => r.activity = "parking" /\ Settled(r)
  /\ r.job = "unload" => r.cache = "evicting"
  /\ r.job = "done" => /\ Settled(r)
                       /\ r.runtime => r.activity \in Stopped
                       /\ ~r.runtime => r.failure = "unavailable"

(* A tenure lets go only of what is off the log. *)
RetainedFits(r) == ~r.retained => OffLog(r) /\ r.busy = {} /\ r.load \in PastHooks

Fit(r) == LoadFits(r) /\ StoreFits(r) /\ BareFits(r) /\ DisposalFits(r) /\ JobFits(r) /\ RetainedFits(r)

(* The park waited for the leases, and so did the sweep. *)
LeaseFits(r, leased) ==
  /\ leased /\ r.activity \in {"unloading", "disposed"} => r.cause \in {"closed", "shutdown"}
  /\ r.job \in {"cleanup", "settle"} \/ (r.job = "done" /\ r.disposal = "none") => ~leased

(* What the state of the tenure says of an entry of it. *)
Under(r, t) ==
  /\ t.state # "none"
  /\ r.activity = "parking" \/ r.job # "none" => t.state # "active"
  /\ r.activity = "revoked" /\ ~r.runtime => t.state = "revoked"
  /\ r.load = "failed" /\ r.store = "open" => t.state # "active"
  /\ t.state = "revoked" /\ r.runtime => r.store = "detached"
  /\ t.state = "lost" => OffLog(r)
  /\ t.state = "released" => ~r.retained
  /\ ~r.retained /\ r.writing => t.state \in {"revoked", "lost"}
  /\ r.retained /\ t.park = "pending" => r.job # "none" \/ r.activity = "disposed" \/ t.state = "revoked"

Fits    == \A e \in Entries : Made(e) => Fit(entries[e])
Leases  == \A e \in Entries : Made(e) => LeaseFits(entries[e], Leased(e))
Tenancy ==
  \A e \in Entries : Made(e) =>
    /\ Under(entries[e], tenures[entries[e].tenure])
    /\ ~OffLog(entries[e]) => entries[e].tenure = current

Pendings == \A t \in Tenures : tenures[t].park = "pending" => tenures[t].state \notin {"none", "active"}

(* The runtimes are made in turn; the one on the log and the one in the cache are the last. *)
Latest(e) == \A f \in Entries : Made(f) => f <= e

Order ==
  /\ \A e, f \in Entries : f < e /\ Made(e) => Made(f)
  /\ \A e \in Entries : Made(e) /\ (~OffLog(entries[e]) \/ resident = e) => Latest(e)

Live(t) == tenures[t].state \in {"active", "parking"}

(* A runtime out of the cache is past its reads, or revoked; one whose log is lost stays in it. *)
Residency ==
  /\ \A e \in Entries : Made(e) /\ resident # e =>
       /\ entries[e].load \in Loaded \/ tenures[entries[e].tenure].state = "revoked"
       /\ Admitted(entries[e].tenure) => entries[e].store # "open"
  /\ resident # 0 =>
       LET r == entries[resident]
       IN  /\ tenures[r.tenure].state = "revoked" => ~r.retained
           /\ r.failure = "lost" => r.retained /\ ~r.forget /\ r.tenure = current /\ Live(current)

UnderWay(c) == callers[c].pc \notin {"idle", "answered"}

(* What a call believes of its entry between two steps. *)
CallFits(c) ==
  LET e == callers[c].entry  r == entries[e]  t == callers[c].tenure  pc == callers[c].pc
  IN  /\ r.tenure = current => t = current
      /\ tenures[t].state # "none"
      /\ pc \in {"got", "holding", "bare", "evict"} => r.load = "done"
      /\ pc = "evict" => r.activity \notin {"ready", "parking"}
      /\ pc = "bare" => r.activity \in Stopped \/ shutdown # "no"
      /\ c \in Creators => pc = "await" /\ r.load \notin {"queued", "read", "recovering"} /\ r.failure # "lost"
      /\ pc = "await" /\ r.failure = "lost" /\ t = current /\ Live(current) =>
           r.tenure = current /\ (resident = e \/ shutdown = "done") /\ Latest(e)

Calls == \A c \in Callers : UnderWay(c) => CallFits(c)

WInv == Fits /\ Leases /\ Tenancy /\ Pendings /\ Order /\ Residency /\ Calls

(* What an entry gave up does not come back. *)
Advances(r, s) ==
  /\ s.tenure = r.tenure
  /\ OffLog(r) => OffLog(s)
  /\ s.retained => r.retained
  /\ r.load \in Loaded => s.load \in Loaded
  /\ r.load = "done" => s.load = "done"
  /\ s.load \in {"queued", "read", "recovering"} => r.load \in {"queued", "read", "recovering"}
  /\ s.store = "open" => r.store = "open" \/ r.load \notin Loaded
  /\ s.failure = "lost" => r.failure = "lost" \/ (r.load = "recovering" /\ s.retained = r.retained /\ s.forget = r.forget)
  /\ r.activity \in Stopped => s.activity \in Stopped
  /\ r.activity \notin {"ready", "parking"} => s.activity \notin {"ready", "parking"}

(* All that is asked of what becomes of an entry under its tenure. *)
Serves(r, s, leased, t) == Fit(s) /\ LeaseFits(s, leased) /\ Under(s, t) /\ Advances(r, s)

(* A session that turned out to be lost stays in the cache as it is. *)
Steady(r, s) == s.failure = "lost" => s.retained = r.retained /\ s.forget = r.forget

Held(r, leased, t) ==
  /\ r \in EntryType /\ r.tenure # 0 /\ (leased => r.load = "done")
  /\ Fit(r) /\ LeaseFits(r, leased) /\ Under(r, t)

-----------------------------------------------------------------------------
(* What becomes of a record in each step of its entry. *)
USE DEF Serves, Steady, Held, EntryType, LeaseFits, Under, Advances, Fit, LoadFits, StoreFits, BareFits,
        DisposalFits, JobFits, RetainedFits, Settled, Loaded, PastHooks, OffLog, Stopped, Activities

LEMMA Unchanged ==
  ASSUME NEW r, NEW leased \in BOOLEAN, NEW t \in TenureType, Held(r, leased, t)
  PROVE  Serves(r, r, leased, t) /\ Steady(r, r)
  OBVIOUS

LEMMA LoadFailing ==
  ASSUME NEW r, NEW leased \in BOOLEAN, NEW t \in TenureType, Held(r, leased, t),
         r.load \in {"queued", "read", "creating"},
         NEW why \in {"unavailable", "missing", "error"}
  PROVE  LET s == [r EXCEPT !.load = "failed", !.failure = why]
         IN  Serves(r, s, leased, t) /\ Steady(r, s)
  OBVIOUS

LEMMA Reading ==
  ASSUME NEW r, NEW leased \in BOOLEAN, NEW t \in TenureType, Held(r, leased, t),
         r.load = "queued"
  PROVE  LET s == [r EXCEPT !.load = "read"]
         IN  Serves(r, s, leased, t) /\ Steady(r, s)
  OBVIOUS

LEMMA Building ==
  ASSUME NEW r, NEW leased \in BOOLEAN, NEW t \in TenureType, Held(r, leased, t),
         r.load = "read",
         t.state = "active",
         NEW recovers \in BOOLEAN
  PROVE  LET s == [r EXCEPT !.store = "open", !.writing = recovers,
                           !.load = IF recovers THEN "recovering" ELSE "built"]
         IN  Serves(r, s, leased, t) /\ Steady(r, s)
  OBVIOUS

LEMMA Recovers ==
  ASSUME NEW r, NEW leased \in BOOLEAN, NEW t \in TenureType, Held(r, leased, t),
         r.load = "recovering"
  PROVE  LET s == [r EXCEPT !.writing = FALSE, !.load = "built"]
         IN  Serves(r, s, leased, t) /\ Steady(r, s)
  OBVIOUS

LEMMA RecoveryFailing ==
  ASSUME NEW r, NEW leased \in BOOLEAN, NEW t \in TenureType, Held(r, leased, t),
         r.load = "recovering",
         NEW late \in BOOLEAN,
         NEW why \in {"error", "lost"},
         late => LateRecovery /\ why = "error"
  PROVE  LET s == [r EXCEPT !.writing = late, !.store = "detached", !.load = "failed", !.failure = why]
         IN  Serves(r, s, leased, t) /\ Steady(r, s)
  OBVIOUS

LEMMA Appends ==
  ASSUME NEW r, NEW leased \in BOOLEAN, NEW t \in TenureType, Held(r, leased, t),
         r.load = "creating"
  PROVE  LET s == [r EXCEPT !.load = "appending", !.writing = TRUE]
         IN  Serves(r, s, leased, t) /\ Steady(r, s)
  OBVIOUS

LEMMA Landing ==
  ASSUME NEW r, NEW leased \in BOOLEAN, NEW t \in TenureType, Held(r, leased, t),
         r.load = "appending",
         t.state = "active"
  PROVE  LET s == [[r EXCEPT !.writing = FALSE] EXCEPT !.store = "open", !.load = "built"]
         IN  Serves(r, s, leased, t) /\ Steady(r, s)
  OBVIOUS

LEMMA LandingFails ==
  ASSUME NEW r, NEW leased \in BOOLEAN, NEW t \in TenureType, Held(r, leased, t),
         r.load = "appending",
         NEW why \in {"unavailable", "error"}
  PROVE  LET s == [[r EXCEPT !.writing = FALSE] EXCEPT !.load = "failed", !.failure = why]
         IN  Serves(r, s, leased, t) /\ Steady(r, s)
  OBVIOUS

LEMMA Starting ==
  ASSUME NEW r, NEW leased \in BOOLEAN, NEW t \in TenureType, Held(r, leased, t),
         r.load = "built",
         t.state = "active"
  PROVE  LET s == [[r EXCEPT !.runtime = TRUE] EXCEPT !.load = "hooks"]
         IN  Serves(r, s, leased, t) /\ Steady(r, s)
  OBVIOUS

LEMMA HooksEnding ==
  ASSUME NEW r, NEW leased \in BOOLEAN, NEW t \in TenureType, Held(r, leased, t),
         r.load = "hooks"
  PROVE  LET s == [r EXCEPT !.load = "done"]
         IN  Serves(r, s, leased, t) /\ Steady(r, s)
  OBVIOUS

LEMMA UnwindingEnds ==
  ASSUME NEW r, NEW leased \in BOOLEAN, NEW t \in TenureType, Held(r, leased, t),
         r.load = "unwinding",
         r.disposal = "done"
  PROVE  LET s == [r EXCEPT !.load = "failed"]
         IN  Serves(r, s, leased, t) /\ Steady(r, s)
  OBVIOUS

LEMMA StartsRevoked ==
  ASSUME NEW r, NEW leased \in BOOLEAN, NEW t \in TenureType, Held(r, leased, t),
         r.load = "built",
         t.state = "revoked",
         NEW why \in {"unavailable", "error"}
  PROVE  LET s == [RuntimeRevoked([r EXCEPT !.runtime = TRUE]) EXCEPT !.load = "failed", !.failure = why]
         IN  Serves(r, s, leased, t) /\ Steady(r, s)
  BY DEF RuntimeRevoked, Stopping, Parking

LEMMA StartsDisposed ==
  ASSUME NEW r, NEW leased \in BOOLEAN, NEW t \in TenureType, Held(r, leased, t),
         r.load = "built",
         t.state = "active",
         r.activity # "revoked",
         NEW why \in {"unavailable", "error"}
  PROVE  LET s == [Disposing([r EXCEPT !.runtime = TRUE], "idle") EXCEPT !.load = "unwinding", !.failure = why]
         IN  Serves(r, s, leased, t) /\ Steady(r, s)
  BY DEF Disposing, ForcedUnload, Stopping, Parking

LEMMA StartsLeft ==
  ASSUME NEW r, NEW leased \in BOOLEAN, NEW t \in TenureType, Held(r, leased, t),
         r.load = "built",
         t.state \notin {"revoked", "active"},
         NEW why \in {"unavailable", "error"}
  PROVE  LET s == [[r EXCEPT !.runtime = TRUE] EXCEPT !.load = "failed", !.failure = why]
         IN  Serves(r, s, leased, t) /\ Steady(r, s)
  OBVIOUS

LEMMA HooksRevoked ==
  ASSUME NEW r, NEW leased \in BOOLEAN, NEW t \in TenureType, Held(r, leased, t),
         r.load = "hooks",
         t.state = "revoked",
         NEW why \in {"unavailable", "error"}
  PROVE  LET s == [RuntimeRevoked(r) EXCEPT !.load = "failed", !.failure = why]
         IN  Serves(r, s, leased, t) /\ Steady(r, s)
  BY DEF RuntimeRevoked, Stopping, Parking

LEMMA HooksDisposed ==
  ASSUME NEW r, NEW leased \in BOOLEAN, NEW t \in TenureType, Held(r, leased, t),
         r.load = "hooks",
         t.state = "active",
         r.activity # "revoked",
         NEW why \in {"unavailable", "error"}
  PROVE  LET s == [Disposing(r, "idle") EXCEPT !.load = "unwinding", !.failure = why]
         IN  Serves(r, s, leased, t) /\ Steady(r, s)
  BY DEF Disposing, ForcedUnload, Stopping, Parking

LEMMA HooksLeft ==
  ASSUME NEW r, NEW leased \in BOOLEAN, NEW t \in TenureType, Held(r, leased, t),
         r.load = "hooks",
         t.state # "active" \/ r.activity = "revoked",
         NEW why \in {"unavailable", "error"}
  PROVE  LET s == [r EXCEPT !.load = "failed", !.failure = why]
         IN  Serves(r, s, leased, t) /\ Steady(r, s)
  OBVIOUS

LEMMA WritingStarts ==
  ASSUME NEW r, NEW leased \in BOOLEAN, NEW t \in TenureType, Held(r, leased, t),
         r.runtime,
         r.store = "open"
  PROVE  LET s == [r EXCEPT !.writing = TRUE]
         IN  Serves(r, s, leased, t) /\ Steady(r, s)
  OBVIOUS

LEMMA WritingSettles ==
  ASSUME NEW r, NEW leased \in BOOLEAN, NEW t \in TenureType, Held(r, leased, t),
         r.load \notin {"recovering", "appending"}
  PROVE  LET s == [r EXCEPT !.writing = FALSE]
         IN  Serves(r, s, leased, t) /\ Steady(r, s)
  OBVIOUS

LEMMA CleaningUp ==
  ASSUME NEW r, NEW leased \in BOOLEAN, NEW t \in TenureType, Held(r, leased, t),
         "cleanup" \in r.busy,
         NEW d \in BOOLEAN
  PROVE  LET s == [[r EXCEPT !.busy = @ \ {"cleanup"}] EXCEPT !.dirty = d]
         IN  Serves(r, s, leased, t) /\ Steady(r, s)
  OBVIOUS

LEMMA Readies ==
  ASSUME NEW r, NEW leased \in BOOLEAN, NEW t \in TenureType, Held(r, leased, t),
         r.load = "done",
         r.cache = "loading"
  PROVE  LET s == [r EXCEPT !.cache = "ready"]
         IN  Serves(r, s, leased, t) /\ Steady(r, s)
  OBVIOUS

LEMMA Sweeping ==
  ASSUME NEW r, NEW leased \in BOOLEAN, NEW t \in TenureType, Held(r, leased, t),
         ~leased,
         r.cache = "ready",
         r.activity = "ready"
  PROVE  LET s == [r EXCEPT !.activity = "unloading", !.swept = TRUE]
         IN  Serves(r, s, leased, t) /\ Steady(r, s)
  OBVIOUS

LEMMA Evicts ==
  ASSUME NEW r, NEW leased \in BOOLEAN, NEW t \in TenureType, Held(r, leased, t),
         r.load = "done",
         NEW cause \in {"idle", "closed", "disposed", "shutdown"},
         cause \in {"closed", "shutdown"} \/ r.activity \notin {"ready", "parking"}
  PROVE  LET s == Evicting(r, cause)
         IN  Serves(r, s, leased, t) /\ Steady(r, s)
  BY DEF Evicting, Disposing, ForcedUnload, Stopping, Parking

LEMMA SweepEvicts ==
  ASSUME NEW r, NEW leased \in BOOLEAN, NEW t \in TenureType, Held(r, leased, t),
         r.swept
  PROVE  LET s == [Evicting(r, "idle") EXCEPT !.swept = FALSE]
         IN  Serves(r, s, leased, t) /\ Steady(r, s)
  BY DEF Evicting, Disposing, ForcedUnload, Stopping, Parking

LEMMA Closes ==
  ASSUME NEW r, NEW leased \in BOOLEAN, NEW t \in TenureType, Held(r, leased, t),
         r.load = "done"
  PROVE  LET s == Disposing(r, "closed")
         IN  Serves(r, s, leased, t) /\ Steady(r, s)
  BY DEF Disposing, ForcedUnload, Stopping, Parking

LEMMA Drains ==
  ASSUME NEW r, NEW leased \in BOOLEAN, NEW t \in TenureType, Held(r, leased, t),
         r.disposal = "begun",
         r.activity = "unloading"
  PROVE  LET s == [r EXCEPT !.disposal = "draining"]
         IN  Serves(r, s, leased, t) /\ Steady(r, s)
  OBVIOUS

LEMMA DisposalThrows ==
  ASSUME NEW r, NEW leased \in BOOLEAN, NEW t \in TenureType, Held(r, leased, t),
         r.disposal = "begun",
         r.activity # "unloading"
  PROVE  LET s == [r EXCEPT !.disposal = "done"]
         IN  Serves(r, s, leased, t) /\ Steady(r, s)
  OBVIOUS

LEMMA DisposalDone ==
  ASSUME NEW r, NEW leased \in BOOLEAN, NEW t \in TenureType, Held(r, leased, t),
         r.disposal = "draining"
  PROVE  LET s == [r EXCEPT !.disposal = "done", !.store = "detached",
                           !.activity = IF @ = "revoked" THEN @ ELSE "disposed"]
         IN  Serves(r, s, leased, t) /\ Steady(r, s)
  OBVIOUS

LEMMA ParkEndsUnloaded ==
  ASSUME NEW r, NEW leased \in BOOLEAN, NEW t \in TenureType, Held(r, leased, t),
         r.job = "load",
         Settled(r),
         r.load # "done",
         ~(r.failure = "unavailable" /\ r.runtime),
         NEW j \in {"done", "failed"},
         j = "done" => r.failure = "unavailable"
  PROVE  LET s == [r EXCEPT !.job = j]
         IN  Serves(r, s, leased, t) /\ Steady(r, s)
  OBVIOUS

LEMMA ParkHooks ==
  ASSUME NEW r, NEW leased \in BOOLEAN, NEW t \in TenureType, Held(r, leased, t),
         r.job = "load",
         Settled(r),
         r.load = "done" \/ r.runtime,
         r.activity \in {"ready", "parking"}
  PROVE  LET s == [[r EXCEPT !.activity = IF @ = "ready" THEN "parking" ELSE @]
                     EXCEPT !.job = "hooks", !.busy = @ \union {"park"}]
         IN  Serves(r, s, leased, t) /\ Steady(r, s)
  OBVIOUS

LEMMA ParkGone ==
  ASSUME NEW r, NEW leased \in BOOLEAN, NEW t \in TenureType, Held(r, leased, t),
         r.job = "load",
         r.activity \notin {"ready", "parking"}
  PROVE  LET s == [[r EXCEPT !.activity = IF @ = "ready" THEN "parking" ELSE @] EXCEPT !.job = "gone"]
         IN  Serves(r, s, leased, t) /\ Steady(r, s)
  OBVIOUS

LEMMA ParkUnloads ==
  ASSUME NEW r, NEW leased \in BOOLEAN, NEW t \in TenureType, Held(r, leased, t),
         r.job = "unload",
         r.disposal = "done"
  PROVE  LET s == [r EXCEPT !.job = "done"]
         IN  Serves(r, s, leased, t) /\ Steady(r, s)
  OBVIOUS

LEMMA ParkHooked ==
  ASSUME NEW r, NEW leased \in BOOLEAN, NEW t \in TenureType, Held(r, leased, t),
         "park" \in r.busy
  PROVE  LET s == [r EXCEPT !.busy = @ \ {"park"}]
         IN  Serves(r, s, leased, t) /\ Steady(r, s)
  OBVIOUS

LEMMA ParkHookEnds ==
  ASSUME NEW r, NEW leased \in BOOLEAN, NEW t \in TenureType, Held(r, leased, t),
         "park" \in r.busy,
         r.job = "hooks",
         NEW j \in {"drain", "failed"}
  PROVE  LET s == [[r EXCEPT !.busy = @ \ {"park"}] EXCEPT !.job = j]
         IN  Serves(r, s, leased, t) /\ Steady(r, s)
  OBVIOUS

LEMMA ParkDrained ==
  ASSUME NEW r, NEW leased \in BOOLEAN, NEW t \in TenureType, Held(r, leased, t),
         r.job = "drain",
         ~leased
  PROVE  LET s == [r EXCEPT !.job = "cleanup", !.busy = @ \union {"cleanup"}]
         IN  Serves(r, s, leased, t) /\ Steady(r, s)
  OBVIOUS

LEMMA ParkCleaned ==
  ASSUME NEW r, NEW leased \in BOOLEAN, NEW t \in TenureType, Held(r, leased, t),
         r.job = "cleanup",
         NEW d \in BOOLEAN,
         NEW j \in {"settle", "failed"}
  PROVE  LET s == [[r EXCEPT !.busy = @ \ {"cleanup"}] EXCEPT !.job = j, !.dirty = d]
         IN  Serves(r, s, leased, t) /\ Steady(r, s)
  OBVIOUS

LEMMA ParkDone ==
  ASSUME NEW r, NEW leased \in BOOLEAN, NEW t \in TenureType, Held(r, leased, t),
         r.job = "settle",
         ~r.writing
  PROVE  LET s == [r EXCEPT !.job = "done", !.store = "detached", !.activity = "disposed"]
         IN  Serves(r, s, leased, t) /\ Steady(r, s)
  OBVIOUS

LEMMA ParkGivesUp ==
  ASSUME NEW r, NEW leased \in BOOLEAN, NEW t \in TenureType, Held(r, leased, t),
         r.job = "settle"
  PROVE  LET s == [r EXCEPT !.job = "failed"]
         IN  Serves(r, s, leased, t) /\ Steady(r, s)
  OBVIOUS

LEMMA Flags ==
  ASSUME NEW r, NEW leased \in BOOLEAN, NEW t \in TenureType, Held(r, leased, t),
         r.load \in Loaded,
         NEW f \in BOOLEAN
  PROVE  Serves(r, [r EXCEPT !.forget = f], leased, t)
  OBVIOUS

LEMMA Lets ==
  ASSUME NEW r, NEW leased \in BOOLEAN, NEW t \in TenureType, Held(r, leased, t),
         Settled(r),
         ~Unsafe(r),
         r.runtime,
         r.activity \in Stopped
  PROVE  Serves(r, [r EXCEPT !.forget = FALSE, !.retained = FALSE, !.activity = r.activity], leased, t)
  BY DEF Unsafe, RuntimeUnsafe

LEMMA LetsBare ==
  ASSUME NEW r, NEW leased \in BOOLEAN, NEW t \in TenureType, Held(r, leased, t),
         Settled(r),
         ~Unsafe(r),
         ~r.runtime,
         NEW a \in {r.activity, "disposed"},
         r.activity = "disposed" => a = r.activity
  PROVE  Serves(r, [r EXCEPT !.forget = FALSE, !.retained = FALSE, !.activity = a], leased, t)
<1>1. LoadFits([r EXCEPT !.forget = FALSE, !.retained = FALSE, !.activity = a])
  BY DEF Unsafe, RuntimeUnsafe
<1>2. StoreFits([r EXCEPT !.forget = FALSE, !.retained = FALSE, !.activity = a])
  BY DEF Unsafe, RuntimeUnsafe
<1>3. BareFits([r EXCEPT !.forget = FALSE, !.retained = FALSE, !.activity = a])
  BY DEF Unsafe, RuntimeUnsafe
<1>4. DisposalFits([r EXCEPT !.forget = FALSE, !.retained = FALSE, !.activity = a])
  BY DEF Unsafe, RuntimeUnsafe
<1>5. JobFits([r EXCEPT !.forget = FALSE, !.retained = FALSE, !.activity = a])
  BY DEF Unsafe, RuntimeUnsafe
<1>6. RetainedFits([r EXCEPT !.forget = FALSE, !.retained = FALSE, !.activity = a])
  BY DEF Unsafe, RuntimeUnsafe
<1>7. LeaseFits([r EXCEPT !.forget = FALSE, !.retained = FALSE, !.activity = a], leased)
  BY DEF Unsafe, RuntimeUnsafe
<1>8. Under([r EXCEPT !.forget = FALSE, !.retained = FALSE, !.activity = a], t)
  BY DEF Unsafe, RuntimeUnsafe
<1>9. Advances(r, [r EXCEPT !.forget = FALSE, !.retained = FALSE, !.activity = a])
  BY DEF Unsafe, RuntimeUnsafe
<1> QED BY <1>1, <1>2, <1>3, <1>4, <1>5, <1>6, <1>7, <1>8, <1>9

LEMMA Fences ==
  ASSUME NEW r, NEW leased \in BOOLEAN, NEW t \in TenureType, Held(r, leased, t),
         NEW u \in TenureType,
         r.runtime,
         r.store = "open",
         NEW writing \in BOOLEAN,
         u.park = t.park,
         u.state = t.state \/ (u.state = "lost" /\ ~writing)
  PROVE  Serves(r, [RuntimeRevoked(r) EXCEPT !.writing = writing], leased, u)
  BY DEF RuntimeRevoked, Stopping, Parking

LEMMA RevokedAlready ==
  ASSUME NEW r, NEW leased \in BOOLEAN, NEW t \in TenureType, Held(r, leased, t),
         NEW u \in TenureType,
         ~r.retained,
         u.state = "revoked"
  PROVE  Serves(r, r, leased, u)
  OBVIOUS

LEMMA ParkPasses ==
  ASSUME NEW r, NEW leased \in BOOLEAN, NEW t \in TenureType, Held(r, leased, t),
         NEW u \in TenureType,
         t.state \in {"active", "parking"},
         u.state = "parking",
         u.park = "pending" /\ r.retained => r.job # "none" \/ r.activity = "disposed"
  PROVE  Serves(r, r, leased, u)
  OBVIOUS

LEMMA ParkAgain ==
  ASSUME NEW r, NEW leased \in BOOLEAN, NEW t \in TenureType, Held(r, leased, t),
         NEW u \in TenureType,
         u.state = t.state,
         u.park # "pending",
         r.job \in {"done", "failed"}
  PROVE  LET s == [r EXCEPT !.job = "none"]
         IN  Serves(r, s, leased, u) /\ Steady(r, s)
  OBVIOUS

LEMMA ParkClosed ==
  ASSUME NEW r, NEW leased \in BOOLEAN, NEW t \in TenureType, Held(r, leased, t), NEW u \in TenureType,
         \/ u.state = t.state
         \/ u.state = "lost" /\ OffLog(r) /\ t.state \in {"active", "parking"},
         u.park = t.park \/ u.park # "pending"
  PROVE  Serves(r, r, leased, u)
<1>1. CASE u.state = t.state
  BY <1>1
<1>2. CASE u.state = "lost" /\ OffLog(r) /\ t.state \in {"active", "parking"}
  BY <1>2
<1> QED BY <1>1, <1>2

LEMMA Clears ==
  ASSUME NEW r, NEW leased \in BOOLEAN, NEW t \in TenureType, Held(r, leased, t), NEW u \in TenureType,
         OffLog(r), r.busy = {}, r.load \in PastHooks,
         \/ u.state = t.state /\ (r.writing => t.state \in {"revoked", "lost"})
         \/ u.state = "released" /\ ~r.writing /\ t.state \in {"active", "parking"}
  PROVE  Serves(r, [r EXCEPT !.retained = FALSE], leased, u)
<1>1. CASE u.state = t.state /\ (r.writing => t.state \in {"revoked", "lost"})
  <2>1. LoadFits([r EXCEPT !.retained = FALSE])
    BY <1>1
  <2>2. StoreFits([r EXCEPT !.retained = FALSE])
    BY <1>1
  <2>3. BareFits([r EXCEPT !.retained = FALSE])
    BY <1>1
  <2>4. DisposalFits([r EXCEPT !.retained = FALSE])
    BY <1>1
  <2>5. JobFits([r EXCEPT !.retained = FALSE])
    BY <1>1
  <2>6. RetainedFits([r EXCEPT !.retained = FALSE])
    BY <1>1
  <2>7. LeaseFits([r EXCEPT !.retained = FALSE], leased)
    BY <1>1
  <2>8. Under([r EXCEPT !.retained = FALSE], u)
    BY <1>1
  <2>9. Advances(r, [r EXCEPT !.retained = FALSE])
    BY <1>1
  <2> QED BY <2>1, <2>2, <2>3, <2>4, <2>5, <2>6, <2>7, <2>8, <2>9
<1>2. CASE u.state = "released" /\ ~r.writing /\ t.state \in {"active", "parking"}
  <2>1. LoadFits([r EXCEPT !.retained = FALSE])
    BY <1>2
  <2>2. StoreFits([r EXCEPT !.retained = FALSE])
    BY <1>2
  <2>3. BareFits([r EXCEPT !.retained = FALSE])
    BY <1>2
  <2>4. DisposalFits([r EXCEPT !.retained = FALSE])
    BY <1>2
  <2>5. JobFits([r EXCEPT !.retained = FALSE])
    BY <1>2
  <2>6. RetainedFits([r EXCEPT !.retained = FALSE])
    BY <1>2
  <2>7. LeaseFits([r EXCEPT !.retained = FALSE], leased)
    BY <1>2
  <2>8. Under([r EXCEPT !.retained = FALSE], u)
    BY <1>2
  <2>9. Advances(r, [r EXCEPT !.retained = FALSE])
    BY <1>2
  <2> QED BY <2>1, <2>2, <2>3, <2>4, <2>5, <2>6, <2>7, <2>8, <2>9
<1> QED BY <1>1, <1>2

LEMMA RevokesRuntime ==
  ASSUME NEW r, NEW leased \in BOOLEAN, NEW t \in TenureType, Held(r, leased, t), NEW u \in TenureType,
         r.retained, u.state = "revoked", r.runtime, r.activity # "revoked"
  PROVE  Serves(r, RuntimeRevoked(r), leased, u)
<1>1. LoadFits(RuntimeRevoked(r))
  BY DEF RuntimeRevoked, Stopping, Parking
<1>2. StoreFits(RuntimeRevoked(r))
  BY DEF RuntimeRevoked, Stopping, Parking
<1>3. BareFits(RuntimeRevoked(r))
  BY DEF RuntimeRevoked, Stopping, Parking
<1>4. DisposalFits(RuntimeRevoked(r))
  BY DEF RuntimeRevoked, Stopping, Parking
<1>5. JobFits(RuntimeRevoked(r))
  BY DEF RuntimeRevoked, Stopping, Parking
<1>6. RetainedFits(RuntimeRevoked(r))
  BY DEF RuntimeRevoked, Stopping, Parking
<1>7. LeaseFits(RuntimeRevoked(r), leased)
  BY DEF RuntimeRevoked, Stopping, Parking
<1>8. Under(RuntimeRevoked(r), u)
  BY DEF RuntimeRevoked, Stopping, Parking
<1>9. Advances(r, RuntimeRevoked(r))
  BY DEF RuntimeRevoked, Stopping, Parking
<1> QED BY <1>1, <1>2, <1>3, <1>4, <1>5, <1>6, <1>7, <1>8, <1>9

LEMMA RevokesAgain ==
  ASSUME NEW r, NEW leased \in BOOLEAN, NEW t \in TenureType, Held(r, leased, t), NEW u \in TenureType,
         r.retained, u.state = "revoked", ~r.runtime \/ r.activity = "revoked"
  PROVE  Serves(r, Stopping(r, "revoked"), leased, u)
<1>1. LoadFits(Stopping(r, "revoked"))
  BY DEF Stopping, Parking
<1>2. StoreFits(Stopping(r, "revoked"))
  BY DEF Stopping, Parking
<1>3. BareFits(Stopping(r, "revoked"))
  BY DEF Stopping, Parking
<1>4. DisposalFits(Stopping(r, "revoked"))
  BY DEF Stopping, Parking
<1>5. JobFits(Stopping(r, "revoked"))
  BY DEF Stopping, Parking
<1>6. RetainedFits(Stopping(r, "revoked"))
  BY DEF Stopping, Parking
<1>7. LeaseFits(Stopping(r, "revoked"), leased)
  BY DEF Stopping, Parking
<1>8. Under(Stopping(r, "revoked"), u)
  BY DEF Stopping, Parking
<1>9. Advances(r, Stopping(r, "revoked"))
  BY DEF Stopping, Parking
<1> QED BY <1>1, <1>2, <1>3, <1>4, <1>5, <1>6, <1>7, <1>8, <1>9

LEMMA ParkJoins ==
  ASSUME NEW r, NEW leased \in BOOLEAN, NEW t \in TenureType, Held(r, leased, t), NEW u \in TenureType,
         r.retained, t.state \in {"active", "parking"}, r.job = "none", u.state = "parking",
         NEW j \in {"load", "gone", "unload"}, j = "unload" => r.cache = "evicting",
         NEW a, a = r.activity \/ (r.activity = "ready" /\ a = "parking")
  PROVE  Serves(r, [r EXCEPT !.activity = a, !.job = j], leased, u) /\ Steady(r, [r EXCEPT !.activity = a, !.job = j])
<1>1. LoadFits([r EXCEPT !.activity = a, !.job = j])
  BY DEF Parking
<1>2. StoreFits([r EXCEPT !.activity = a, !.job = j])
  BY DEF Parking
<1>3. BareFits([r EXCEPT !.activity = a, !.job = j])
  BY DEF Parking
<1>4. DisposalFits([r EXCEPT !.activity = a, !.job = j])
  BY DEF Parking
<1>5. JobFits([r EXCEPT !.activity = a, !.job = j])
  BY DEF Parking
<1>6. RetainedFits([r EXCEPT !.activity = a, !.job = j])
  BY DEF Parking
<1>7. LeaseFits([r EXCEPT !.activity = a, !.job = j], leased)
  BY DEF Parking
<1>8. Under([r EXCEPT !.activity = a, !.job = j], u)
  BY DEF Parking
<1>9. Advances(r, [r EXCEPT !.activity = a, !.job = j]) /\ Steady(r, [r EXCEPT !.activity = a, !.job = j])
  BY DEF Parking
<1> QED BY <1>1, <1>2, <1>3, <1>4, <1>5, <1>6, <1>7, <1>8, <1>9

LEMMA ServesTransitive ==
  ASSUME NEW r, NEW s, NEW v, NEW leased \in BOOLEAN, NEW t \in TenureType, NEW u \in TenureType,
         r.load \in Loaded, Serves(r, s, leased, t), Serves(s, v, leased, u)
  PROVE  Serves(r, v, leased, u)
  OBVIOUS

LEMMA ServesHeld ==
  ASSUME NEW r, NEW s \in EntryType, NEW leased \in BOOLEAN, NEW t \in TenureType, NEW u \in TenureType,
         Held(r, leased, t), Serves(r, s, leased, u)
  PROVE  Held(s, leased, u)
  OBVIOUS

HIDE DEF Serves, Steady, Held, EntryType, LeaseFits, Under, Advances, Fit, LoadFits, StoreFits, BareFits,
         DisposalFits, JobFits, RetainedFits, Settled, Loaded, PastHooks, OffLog, Stopped, Activities

LEMMA Revokes ==
  ASSUME NEW r, NEW leased \in BOOLEAN, NEW t \in TenureType, Held(r, leased, t), NEW u \in TenureType,
         r.retained, u.state = "revoked"
  PROVE  Serves(r, Revoked(r), leased, u)
  BY RevokesRuntime, RevokesAgain DEF Revoked

LEMMA ParkBegins ==
  ASSUME NEW r, NEW leased \in BOOLEAN, NEW t \in TenureType, Held(r, leased, t), NEW u \in TenureType,
         r.retained, t.state \in {"active", "parking"}, r.job = "none", u.state = "parking"
  PROVE  Serves(r, ParkStarts(r), leased, u) /\ Steady(r, ParkStarts(r))
<1>1. PICK a \in {r.activity, "parking"}, j \in {"load", "gone", "unload"} :
        /\ ParkStarts(r) = [r EXCEPT !.activity = a, !.job = j]
        /\ a = r.activity \/ (r.activity = "ready" /\ a = "parking")
        /\ j = "unload" => r.cache = "evicting"
  BY DEF ParkStarts, Held, EntryType
<1>2. Serves(r, [r EXCEPT !.activity = a, !.job = j], leased, u) /\ Steady(r, [r EXCEPT !.activity = a, !.job = j])
  BY <1>1, ParkJoins
<1> QED BY <1>1, <1>2

LEMMA ForgottenServes ==
  ASSUME NEW r, NEW leased \in BOOLEAN, NEW t \in TenureType, Held(r, leased, t), r.load \in Loaded
  PROVE  Serves(r, Forgotten(r), leased, t)
<1>1. ASSUME NEW f \in BOOLEAN
      PROVE  Serves(r, [r EXCEPT !.forget = f], leased, t)
  BY Flags
<1>2. CASE Forgotten(r) \in {[r EXCEPT !.forget = TRUE], [r EXCEPT !.forget = FALSE]}
  <2>1. Serves(r, [r EXCEPT !.forget = TRUE], leased, t) /\ Serves(r, [r EXCEPT !.forget = FALSE], leased, t)
    BY <1>1
  <2> QED BY <1>2, <2>1
<1>3. CASE /\ Settled(r) /\ ~Unsafe(r) /\ (r.runtime => r.activity \in Stopped)
           /\ Forgotten(r) = [r EXCEPT !.forget = FALSE, !.retained = FALSE,
                                       !.activity = IF r.runtime \/ @ = "revoked" THEN @ ELSE "disposed"]
  <2>1. CASE r.runtime
    <3>1. Serves(r, [r EXCEPT !.forget = FALSE, !.retained = FALSE, !.activity = r.activity], leased, t)
      BY <1>3, <2>1, Lets
    <3>2. Forgotten(r) = [r EXCEPT !.forget = FALSE, !.retained = FALSE, !.activity = r.activity]
      BY <1>3, <2>1
    <3> QED BY <3>1, <3>2
  <2>2. CASE ~r.runtime
    <3>1. ASSUME NEW a \in {r.activity, "disposed"}, r.activity = "disposed" => a = r.activity
          PROVE  Serves(r, [r EXCEPT !.forget = FALSE, !.retained = FALSE, !.activity = a], leased, t)
      BY <1>3, <2>2, <3>1, LetsBare
    <3>2. PICK a \in {r.activity, "disposed"} :
            Forgotten(r) = [r EXCEPT !.forget = FALSE, !.retained = FALSE, !.activity = a]
      BY <1>3, <2>2
    <3> QED BY <3>1, <3>2
  <2> QED BY <2>1, <2>2
<1> QED BY <1>2, <1>3 DEF Forgotten

-----------------------------------------------------------------------------
(* What a step leaves standing. *)
Tenure(e) == tenures[entries[e].tenure]
Later(e)  == tenures'[entries[e].tenure]

AdmittedNext(t) == shutdown' = "no" /\ tenures'[t].state = "active" /\ current' = t

Serving == \A e \in Entries : Made(e) => Serves(entries[e], entries'[e], Leased(e), Later(e))

Lapsing ==
  \A t \in Tenures : tenures[t].state # "none" =>
    /\ tenures'[t].state # "none"
    /\ tenures[t].state = "revoked" => tenures'[t].state = "revoked"
    /\ tenures'[t].state = "active" => tenures[t].state = "active"
    /\ tenures'[t].state \in {"active", "parking"} => tenures[t].state \in {"active", "parking"}

Turning ==
  \/ current' = current
  \/ /\ current' = 0 \/ tenures[current'].state = "none"
     /\ \A e \in Entries : Made(e) => OffLog(entries'[e])

Closing == (shutdown = "done" => shutdown' = "done") /\ (shutdown' = "no" => shutdown = "no")

(* The resident session leaves the cache, or stays in it. *)
Leaving ==
  resident # 0 /\ resident' = 0 =>
    LET s == entries'[resident]
    IN  /\ s.load \in Loaded \/ tenures'[s.tenure].state = "revoked"
        /\ s.store = "open" => ~AdmittedNext(s.tenure)
        /\ s.failure = "lost" /\ s.tenure = current' /\ current' = current /\ Live(current)' => shutdown' = "done"

Remaining ==
  resident' # 0 =>
    LET s == entries'[resident]
    IN  /\ tenures'[s.tenure].state = "revoked" => ~s.retained
        /\ s.failure = "lost" => Steady(entries[resident], s) /\ current' = current /\ Live(current)'

Leasing == \A e \in Entries : Leased(e)' => Leased(e) \/ (entries'[e].activity = "ready" /\ entries'[e].load = "done")

Calling == \A c \in Callers : callers'[c] = callers[c] \/ ~UnderWay(c)' \/ CallFits(c)'

(* Keeps is the frame of the proof: what each action has to show for WInv to stand. *)
LEMMA IsHeld ==
  ASSUME IInv, WInv, NEW e \in Entries, Made(e)
  PROVE  /\ Held(entries[e], Leased(e), Tenure(e)) /\ Leased(e) \in BOOLEAN
         /\ Tenure(e) \in TenureType /\ entries[e].tenure \in Tenures
<1>1. entries[e] \in EntryType /\ entries[e].tenure # 0
  BY DEF IInv, TypeOK, Made
<1>2. entries[e].tenure \in Tenures
  BY <1>1 DEF EntryType
<1>3. Leased(e) => entries[e].load = "done"
  BY DEF Leased, WInv, Calls, UnderWay, CallFits
<1>4. Fit(entries[e]) /\ LeaseFits(entries[e], Leased(e)) /\ Under(entries[e], Tenure(e))
  BY DEF WInv, Fits, Leases, Tenancy, Tenure
<1>5. Leased(e) \in BOOLEAN
  BY DEF Leased
<1> QED BY <1>1, <1>2, <1>3, <1>4, <1>5 DEF Held, Tenure, IInv, TypeOK

LEMMA ReadyLeases ==
  ASSUME NEW s \in EntryType, Fit(s), s.activity = "ready", s.load = "done"
  PROVE  LeaseFits(s, TRUE)
  BY DEF EntryType, Fit, LoadFits, JobFits, LeaseFits, Stopped

LEMMA LeaseEnds ==
  ASSUME NEW s, NEW was \in BOOLEAN, NEW is \in BOOLEAN, is => was, LeaseFits(s, was)
  PROVE  LeaseFits(s, is)
  BY DEF LeaseFits

LEMMA Keeps ==
  ASSUME IInv, WInv, IInv', Serving, \A e \in Entries : Made(e)' => Made(e),
         Leasing, Pendings', Lapsing, Turning, Closing, resident' \in {resident, 0}, Leaving, Remaining, Calling
  PROVE  WInv'
<1>1. ASSUME NEW e \in Entries, Made(e)
      PROVE  /\ Advances(entries[e], entries'[e]) /\ Fit(entries'[e]) /\ LeaseFits(entries'[e], Leased(e))
             /\ Under(entries'[e], Later(e))
             /\ entries'[e].tenure = entries[e].tenure /\ entries[e].tenure \in Tenures
             /\ entries'[e] \in EntryType /\ tenures[entries[e].tenure].state # "none"
  <2>1. entries[e].tenure \in Tenures /\ tenures[entries[e].tenure].state # "none"
    BY <1>1, IsHeld DEF WInv, Tenancy, Under
  <2>2. entries'[e] \in EntryType
    BY DEF IInv, TypeOK
  <2> QED BY <1>1, <2>1, <2>2 DEF Serving, Serves, Advances
<1>2. \A e \in Entries : Made(e)' <=> Made(e)
  BY <1>1 DEF Made
<1>3. Fits'
  BY <1>1, <1>2 DEF Fits
<1>4. Leases'
  <2> SUFFICES ASSUME NEW e \in Entries, Made(e)
               PROVE  LeaseFits(entries'[e], Leased(e)')
    BY <1>2 DEF Leases
  <2>1. Leased(e)' \in BOOLEAN /\ Leased(e) \in BOOLEAN
    BY DEF Leased
  <2>2. CASE Leased(e)' => Leased(e)
    BY <1>1, <2>1, <2>2, LeaseEnds
  <2>3. CASE Leased(e)' /\ entries'[e].activity = "ready" /\ entries'[e].load = "done"
    BY <1>1, <2>1, <2>3, ReadyLeases, LeaseEnds
  <2> QED BY <2>2, <2>3 DEF Leasing
<1>5. Tenancy'
  <2> SUFFICES ASSUME NEW e \in Entries, Made(e)
               PROVE  /\ Under(entries'[e], tenures'[entries'[e].tenure])
                      /\ ~OffLog(entries'[e]) => entries'[e].tenure = current'
    BY <1>2 DEF Tenancy
  <2>1. Under(entries'[e], tenures'[entries'[e].tenure])
    BY <1>1 DEF Later
  <2>2. ~OffLog(entries'[e]) => entries'[e].tenure = current'
    BY <1>1 DEF Turning, WInv, Tenancy, Advances
  <2> QED BY <2>1, <2>2
<1>6. \A e \in Entries : Latest(e)' <=> Latest(e)
  BY <1>2 DEF Latest
<1>7. Order'
  <2>1. \A e, f \in Entries : f < e /\ Made(e)' => Made(f)'
    BY <1>2 DEF WInv, Order
  <2>2. ASSUME NEW e \in Entries, Made(e)', ~OffLog(entries'[e]) \/ resident' = e
        PROVE  Latest(e)'
    <3>1. e # 0
      BY Distinct
    <3> QED BY <1>1, <1>2, <1>6, <2>2, <3>1 DEF WInv, Order, Advances
  <2> QED BY <2>1, <2>2 DEF Order
<1>8. Residency'
  <2>1. ASSUME NEW e \in Entries, Made(e), resident' # e
        PROVE  /\ entries'[e].load \in Loaded \/ tenures'[entries'[e].tenure].state = "revoked"
               /\ AdmittedNext(entries'[e].tenure) => entries'[e].store # "open"
    <3>1. CASE resident = e
      <4>1. e # 0
        BY Distinct
      <4> QED BY <2>1, <3>1, <4>1 DEF Leaving
    <3>2. CASE resident # e
      <4> DEFINE r == entries[e]  s == entries'[e]  t == entries[e].tenure
      <4>1. r.load \in Loaded \/ tenures[t].state = "revoked"
        BY <2>1, <3>2 DEF WInv, Residency
      <4>2. Admitted(t) => r.store # "open"
        BY <2>1, <3>2 DEF WInv, Residency
      <4>3. s.load \in Loaded \/ tenures'[t].state = "revoked"
        BY <1>1, <2>1, <4>1 DEF Advances, Lapsing
      <4>4. AdmittedNext(t) => Admitted(t)
        <5>1. current' = t => current = t
          BY <1>1, <2>1, Distinct DEF Turning
        <5>2. tenures'[t].state = "active" => tenures[t].state = "active"
          BY <1>1, <2>1 DEF Lapsing
        <5>3. AdmittedNext(t) => shutdown' = "no" /\ tenures'[t].state = "active" /\ current' = t
          BY DEF AdmittedNext
        <5> QED BY <5>1, <5>2, <5>3 DEF Closing, Admitted
      <4>5. Admitted(t) => tenures[t].state # "revoked"
        BY DEF Admitted
      <4>6. s.store = "open" => r.store = "open" \/ r.load \notin Loaded
        BY <1>1, <2>1 DEF Advances
      <4>7. s.tenure = t
        BY <1>1, <2>1
      <4>8. AdmittedNext(t) => s.store # "open"
        BY <4>1, <4>2, <4>4, <4>5, <4>6
      <4> HIDE DEF r
      <4> QED BY <4>3, <4>7, <4>8
    <3> QED BY <3>1, <3>2
  <2>2. ASSUME resident' # 0
        PROVE  LET s == entries'[resident']
               IN  /\ tenures'[s.tenure].state = "revoked" => ~s.retained
                   /\ s.failure = "lost" => s.retained /\ ~s.forget /\ s.tenure = current' /\ Live(current)'
    <3> DEFINE r == entries[resident]  s == entries'[resident]
    <3>1. resident' = resident /\ resident \in Entries /\ Made(resident)
      BY <2>2 DEF IInv, TypeOK, ResidentInv, Made
    <3>2. s.failure = "lost" => Steady(r, s) /\ current' = current /\ Live(current)'
      BY <2>2 DEF Remaining
    <3>3. s.tenure = r.tenure /\ Advances(r, s)
      BY <1>1, <3>1
    <3>4. CASE s.failure = "lost" /\ r.failure = "lost"
      <4>1. r.retained /\ ~r.forget /\ r.tenure = current
        BY <3>1, <3>4, <2>2 DEF WInv, Residency
      <4> QED BY <2>2, <3>1, <3>2, <3>3, <3>4, <4>1 DEF Steady, Remaining
    <3>5. CASE s.failure = "lost" /\ r.failure # "lost"
      <4>1. r.load = "recovering" /\ s.retained = r.retained /\ s.forget = r.forget
        BY <3>3, <3>5 DEF Advances
      <4>2. Fit(r) /\ r \in EntryType
        BY <3>1, IsHeld DEF Held
      <4>3. ~OffLog(r) /\ r.retained /\ ~r.forget
        BY <4>1, <4>2 DEF Fit, LoadFits, RetainedFits, OffLog, Loaded, EntryType
      <4>4. r.tenure = current
        BY <3>1, <4>3 DEF WInv, Tenancy
      <4> QED BY <2>2, <3>1, <3>2, <3>3, <4>1, <4>3, <4>4 DEF Remaining
    <3>6. CASE s.failure # "lost"
      BY <2>2, <3>1, <3>6 DEF Remaining
    <3> QED BY <3>4, <3>5, <3>6
  <2>3. ASSUME NEW e \in Entries, Made(e), Admitted(entries[e].tenure)'
        PROVE  AdmittedNext(entries'[e].tenure)
    BY <2>3 DEF Admitted, AdmittedNext
  <2>4. \A e \in Entries : Made(e)' /\ resident' # e =>
          /\ entries'[e].load \in Loaded \/ tenures'[entries'[e].tenure].state = "revoked"
          /\ Admitted(entries[e].tenure)' => entries'[e].store # "open"
    BY <1>2, <2>1, <2>3
  <2> QED BY <2>2, <2>4 DEF Residency
<1>9. Calls'
  <2> SUFFICES ASSUME NEW c \in Callers, UnderWay(c)', callers'[c] = callers[c]
               PROVE  CallFits(c)'
    BY DEF Calls, Calling
  <2> DEFINE e == callers[c].entry  r == entries[e]  s == entries'[e]  t == callers[c].tenure  pc == callers[c].pc
  <2>1. UnderWay(c) /\ CallFits(c)
    BY DEF UnderWay, WInv, Calls
  <2>2. t \in Tenures /\ e \in Entries /\ Made(e)
    BY <2>1 DEF UnderWay, IInv, CallersInv, Made
  <2>3. /\ Advances(r, s) /\ s.tenure = r.tenure /\ r.tenure \in Tenures
        /\ tenures[r.tenure].state # "none" /\ tenures[t].state # "none"
    BY <1>1, <2>1, <2>2 DEF CallFits
  <2>4. s.tenure = current' => t = current'
    BY <2>1, <2>2, <2>3, Distinct DEF Turning, CallFits
  <2>5. tenures'[t].state # "none"
    BY <2>2, <2>3 DEF Lapsing
  <2>6. pc \in {"got", "holding", "bare", "evict"} => s.load = "done"
    BY <2>1, <2>3 DEF CallFits, Advances
  <2>7. pc = "evict" => s.activity \notin {"ready", "parking"}
    BY <2>1, <2>3 DEF CallFits, Advances
  <2>8. pc = "bare" => s.activity \in Stopped \/ shutdown' # "no"
    BY <2>1, <2>3 DEF CallFits, Advances, Closing
  <2>9. c \in Creators => pc = "await" /\ s.load \notin {"queued", "read", "recovering"} /\ s.failure # "lost"
    BY <2>1, <2>3 DEF CallFits, Advances
  <2>10. ASSUME pc = "await", s.failure = "lost", t = current', Live(current)'
         PROVE  s.tenure = current' /\ (resident' = e \/ shutdown' = "done") /\ Latest(e)'
    <3>1. current' = current
      BY <2>2, <2>3, <2>10, Distinct DEF Turning
    <3>2. Live(current)
      BY <2>2, <2>3, <2>10, <3>1 DEF Lapsing, Live
    <3>3. r.tenure = current /\ (resident = e \/ shutdown = "done") /\ Latest(e)
      <4>1. CASE r.failure = "lost"
        BY <2>1, <2>10, <3>1, <3>2, <4>1 DEF CallFits
      <4>2. CASE r.failure # "lost"
        <5>1. r.load = "recovering"
          BY <2>3, <2>10, <4>2 DEF Advances
        <5>2. ~OffLog(r) /\ r.load \notin Loaded
          BY <5>1 DEF OffLog, Loaded
        <5>3. r.tenure = current /\ Latest(e)
          BY <2>2, <5>2 DEF WInv, Tenancy, Order
        <5>4. tenures[r.tenure].state # "revoked"
          BY <3>2, <5>3 DEF Live
        <5>5. resident = e
          BY <2>2, <5>2, <5>4 DEF WInv, Residency
        <5> QED BY <5>3, <5>5
      <4> QED BY <4>1, <4>2
    <3>4. s.tenure = current' /\ Latest(e)'
      BY <1>6, <2>2, <2>3, <3>1, <3>3
    <3>5. resident' = e \/ shutdown' = "done"
      <4>1. CASE shutdown = "done"
        BY <4>1 DEF Closing
      <4>2. CASE resident = e /\ resident' = 0
        BY <2>2, <2>10, <3>1, <3>4, <4>2, Distinct DEF Leaving
      <4> QED BY <3>3, <4>1, <4>2
    <3> QED BY <3>4, <3>5
  <2> QED BY <2>4, <2>5, <2>6, <2>7, <2>8, <2>9, <2>10 DEF CallFits
<1> QED BY <1>3, <1>4, <1>5, <1>7, <1>8, <1>9 DEF WInv

LEMMA CallersStay == ASSUME UNCHANGED callers PROVE Leasing /\ Calling
  BY DEF Leasing, Calling, Leased

LEMMA TenuresStay ==
  ASSUME IInv, WInv, UNCHANGED <<tenures, current>>
  PROVE  Pendings' /\ Lapsing /\ Turning /\ \A e \in Entries : Later(e) = Tenure(e)
  BY DEF WInv, Pendings, Lapsing, Turning, Later, Tenure

LEMMA UnchangedServes ==
  ASSUME IInv, WInv, NEW e \in Entries, Made(e)
  PROVE  Serves(entries[e], entries[e], Leased(e), Tenure(e)) /\ Steady(entries[e], entries[e])
  BY IsHeld, Unchanged

(* The resident session stays as good as it was. *)
LEMMA Remains ==
  ASSUME IInv, WInv, UNCHANGED <<tenures, current>>, resident' \in {resident, 0},
         resident' # 0 => LET r == entries[resident]  s == entries'[resident]
                          IN  Advances(r, s) /\ Steady(r, s)
  PROVE  Remaining
<1> SUFFICES ASSUME resident' # 0
             PROVE  LET s == entries'[resident]
                    IN  /\ tenures'[s.tenure].state = "revoked" => ~s.retained
                        /\ s.failure = "lost" => Steady(entries[resident], s) /\ current' = current /\ Live(current)'
  BY DEF Remaining
<1> DEFINE r == entries[resident]  s == entries'[resident]
<1>1. resident \in Entries /\ Made(resident)
  BY DEF IInv, TypeOK, ResidentInv, Made
<1>2. s.tenure = r.tenure /\ (s.retained => r.retained) /\ Steady(r, s)
  BY DEF Advances
<1>3. tenures[r.tenure].state = "revoked" => ~r.retained
  BY <1>1 DEF WInv, Residency
<1>4. ASSUME s.failure = "lost"
      PROVE  Live(current)
  <2>1. CASE r.failure = "lost"
    BY <1>1, <2>1 DEF WInv, Residency
  <2>2. CASE r.failure # "lost"
    <3>1. r.load = "recovering"
      BY <1>4, <2>2 DEF Advances
    <3>2. Held(r, Leased(resident), Tenure(resident)) /\ Tenure(resident) \in TenureType
      BY <1>1, IsHeld
    <3>3. ~OffLog(r) /\ r.retained
      BY <3>1, <3>2 DEF Held, Fit, RetainedFits, OffLog, Loaded, EntryType
    <3>4. Tenure(resident).state \in {"active", "parking"}
      BY <1>3, <3>2, <3>3 DEF Held, Under, Tenure, TenureType
    <3>5. r.tenure = current
      BY <1>1, <3>3 DEF WInv, Tenancy
    <3> QED BY <3>4, <3>5 DEF Live, Tenure
  <2> QED BY <2>1, <2>2
<1>5. Live(current)' <=> Live(current)
  BY DEF Live
<1> QED BY <1>2, <1>3, <1>4, <1>5

(* One entry changes and stays in the cache, or leaves it. *)
LEMMA EntryKeeps ==
  ASSUME IInv, WInv, IInv', NEW e \in Entries, Made(e), NEW s, Becomes(e, s),
         Serves(entries[e], s, Leased(e), Tenure(e)), UNCHANGED <<tenures, current, shutdown>>, Leasing, Calling,
         \/ UNCHANGED resident /\ (resident = e => Steady(entries[e], s))
         \/ /\ Drops(e) /\ s.load \in Loaded /\ (s.store = "open" => ~Admitted(s.tenure))
            /\ s.failure = "lost" /\ s.tenure = current => ~Live(current)
  PROVE  WInv'
<1>1. entries \in [Entries -> EntryType] /\ resident \in Entries \union {0}
  BY DEF IInv, TypeOK
<1>2. entries'[e] = s /\ \A f \in Entries : f # e => entries'[f] = entries[f]
  BY <1>1 DEF Becomes
<1>3. Serving
  BY <1>2, UnchangedServes, TenuresStay DEF Serving
<1>4. \A f \in Entries : Made(f)' => Made(f)
  BY <1>2 DEF Made
<1>5. resident' \in {resident, 0} /\ Closing
  BY DEF Drops, Closing
<1>6. Leaving
  <2> SUFFICES ASSUME resident # 0, resident' = 0
               PROVE  /\ entries'[resident].load \in Loaded
                      /\ entries'[resident].store = "open" => ~AdmittedNext(entries'[resident].tenure)
                      /\ ~(/\ entries'[resident].failure = "lost" /\ entries'[resident].tenure = current'
                           /\ current' = current /\ Live(current)')
    BY DEF Leaving
  <2>1. /\ resident = e /\ s.load \in Loaded /\ (s.store = "open" => ~Admitted(s.tenure))
        /\ s.failure = "lost" /\ s.tenure = current => ~Live(current)
    BY DEF Drops
  <2> QED BY <1>2, <2>1 DEF Admitted, AdmittedNext, Live
<1>7. Remaining
  <2> SUFFICES ASSUME resident' # 0
               PROVE  Advances(entries[resident], entries'[resident]) /\ Steady(entries[resident], entries'[resident])
    BY <1>5, Remains
  <2>1. resident \in Entries /\ Made(resident)
    BY <1>5 DEF IInv, TypeOK, ResidentInv, Made
  <2>2. CASE resident = e
    BY <1>2, <2>2 DEF Serves, Drops
  <2>3. CASE resident # e
    BY <1>2, <2>1, <2>3, UnchangedServes DEF Serves
  <2> QED BY <2>2, <2>3
<1> QED BY <1>3, <1>4, <1>5, <1>6, <1>7, TenuresStay, Keeps

(* A step of the runtime itself. *)
LEMMA RuntimeKeeps ==
  ASSUME IInv, WInv, IInv', NEW e \in Entries, Made(e), UNCHANGED <<tenures, current, resident, shutdown, callers>>,
         \E s : /\ Becomes(e, s) /\ Serves(entries[e], s, Leased(e), Tenure(e))
                /\ resident = e => Steady(entries[e], s)
  PROVE  WInv'
  BY EntryKeeps, CallersStay

(* No entry changes. *)
LEMMA NothingKeeps ==
  ASSUME IInv, WInv, IInv', UNCHANGED <<tenures, current, entries, resident>>, Closing, Leasing, Calling
  PROVE  WInv'
<1>1. Serving
  BY UnchangedServes, TenuresStay DEF Serving
<1>2. Leaving
  BY DEF Leaving
<1>3. Remaining
  <2> SUFFICES ASSUME resident' # 0
               PROVE  Advances(entries[resident], entries[resident]) /\ Steady(entries[resident], entries[resident])
    BY Remains
  <2>1. resident \in Entries /\ Made(resident)
    BY DEF IInv, TypeOK, ResidentInv, Made
  <2> QED BY <2>1, UnchangedServes DEF Serves
<1> QED BY <1>1, <1>2, <1>3, TenuresStay, Keeps DEF Made

LEMMA IsMade ==
  ASSUME IInv, NEW e \in Entries, entries[e] # NoEntry
  PROVE  Made(e)
  BY DEF IInv, Local, Made

-----------------------------------------------------------------------------
(* The steps of a load, of a write, of a sweep and of a park on an entry that stays where it is. *)
LEMMA LoadReadsKeeps == ASSUME IInv, WInv, IInv', NEW e \in Entries, LoadReads(e) PROVE WInv'
<1>1. Made(e)
  BY IsMade DEF LoadReads, NoEntry
<1>2. \E s : Becomes(e, s) /\ Serves(entries[e], s, Leased(e), Tenure(e)) /\ Steady(entries[e], s)
  BY <1>1, IsHeld, Reading, LoadFailing DEF LoadReads, LoadFails
<1> QED BY <1>1, <1>2, RuntimeKeeps DEF LoadReads

LEMMA LoadBuildsKeeps == ASSUME IInv, WInv, IInv', NEW e \in Entries, LoadBuilds(e) PROVE WInv'
<1>1. Made(e)
  <2>1. entries[e].load = "read"
    BY DEF LoadBuilds
  <2> QED BY <2>1, IsMade DEF NoEntry
<1>2. \E s : Becomes(e, s) /\ Serves(entries[e], s, Leased(e), Tenure(e)) /\ Steady(entries[e], s)
  <2>1. CASE ~Admitted(entries[e].tenure)
    BY <1>1, <2>1, IsHeld, LoadFailing DEF LoadBuilds, LoadFails
  <2>2. CASE Admitted(entries[e].tenure)
    <3>1. PICK recovers \in BOOLEAN :
            Becomes(e, [entries[e] EXCEPT !.store = "open", !.writing = recovers,
                                          !.load = IF recovers THEN "recovering" ELSE "built"])
      BY <2>2 DEF LoadBuilds
    <3>2. entries[e].load = "read" /\ Tenure(e).state = "active"
      BY <2>2 DEF LoadBuilds, Admitted, Tenure
    <3> QED BY <1>1, <3>1, <3>2, IsHeld, Building
  <2> QED BY <2>1, <2>2
<1> QED BY <1>1, <1>2, RuntimeKeeps DEF LoadBuilds

LEMMA RecoveredKeeps == ASSUME IInv, WInv, IInv', NEW e \in Entries, Recovered(e) PROVE WInv'
<1>1. Made(e)
  BY IsMade DEF Recovered, NoEntry
<1>2. \E s : Becomes(e, s) /\ Serves(entries[e], s, Leased(e), Tenure(e)) /\ Steady(entries[e], s)
  BY <1>1, IsHeld, Recovers DEF Recovered
<1> QED BY <1>1, <1>2, RuntimeKeeps DEF Recovered

LEMMA RecoveryFailsKeeps == ASSUME IInv, WInv, IInv', NEW e \in Entries, RecoveryFails(e) PROVE WInv'
<1>1. Made(e)
  BY IsMade DEF RecoveryFails, NoEntry
<1>2. \E s : Becomes(e, s) /\ Serves(entries[e], s, Leased(e), Tenure(e)) /\ Steady(entries[e], s)
  <2>1. PICK late \in BOOLEAN, why \in {"error", "lost"} :
          /\ late => LateRecovery /\ why = "error"
          /\ Becomes(e, [entries[e] EXCEPT !.writing = late, !.store = "detached",
                                           !.load = "failed", !.failure = why])
    BY DEF RecoveryFails
  <2>2. entries[e].load = "recovering"
    BY DEF RecoveryFails
  <2> DEFINE s == [entries[e] EXCEPT !.writing = late, !.store = "detached", !.load = "failed", !.failure = why]
  <2>3. Serves(entries[e], s, Leased(e), Tenure(e)) /\ Steady(entries[e], s)
    <3>1. Held(entries[e], Leased(e), Tenure(e)) /\ Leased(e) \in BOOLEAN /\ Tenure(e) \in TenureType
      BY <1>1, IsHeld
    <3> QED BY <2>1, <2>2, <3>1, RecoveryFailing
  <2> QED BY <2>1, <2>3
<1> QED BY <1>1, <1>2, RuntimeKeeps DEF RecoveryFails

LEMMA CreateAppendsKeeps == ASSUME IInv, WInv, IInv', NEW e \in Entries, CreateAppends(e) PROVE WInv'
<1>1. Made(e)
  BY IsMade DEF CreateAppends, NoEntry
<1>2. \E s : Becomes(e, s) /\ Serves(entries[e], s, Leased(e), Tenure(e)) /\ Steady(entries[e], s)
  BY <1>1, IsHeld, Appends, LoadFailing DEF CreateAppends, LoadFails
<1> QED BY <1>1, <1>2, RuntimeKeeps DEF CreateAppends

LEMMA CreateLandsKeeps == ASSUME IInv, WInv, IInv', NEW e \in Entries, CreateLands(e) PROVE WInv'
<1>1. Made(e)
  BY IsMade DEF CreateLands, NoEntry
<1>2. \E s : Becomes(e, s) /\ Serves(entries[e], s, Leased(e), Tenure(e)) /\ Steady(entries[e], s)
  <2> DEFINE r == entries[e]  w == [r EXCEPT !.writing = FALSE]
  <2>1. Held(r, Leased(e), Tenure(e)) /\ Leased(e) \in BOOLEAN /\ Tenure(e) \in TenureType /\ r.load = "appending"
    BY <1>1, IsHeld DEF CreateLands
  <2>2. w.tenure = r.tenure
    BY <2>1 DEF Held, EntryType
  <2>3. \/ Tenure(e).state = "active" /\ Becomes(e, [w EXCEPT !.store = "open", !.load = "built"])
        \/ \E why \in {"unavailable", "error"} : Becomes(e, [w EXCEPT !.load = "failed", !.failure = why])
    BY <2>2 DEF CreateLands, LoadFails, Admitted, Tenure
  <2>4. CASE Tenure(e).state = "active" /\ Becomes(e, [w EXCEPT !.store = "open", !.load = "built"])
    BY <2>1, <2>4, Landing
  <2>5. ASSUME NEW why \in {"unavailable", "error"}, Becomes(e, [w EXCEPT !.load = "failed", !.failure = why])
        PROVE  \E s : Becomes(e, s) /\ Serves(r, s, Leased(e), Tenure(e)) /\ Steady(r, s)
    BY <2>1, <2>5, LandingFails
  <2> QED BY <2>3, <2>4, <2>5
<1> QED BY <1>1, <1>2, RuntimeKeeps DEF CreateLands

LEMMA SessionStartsKeeps == ASSUME IInv, WInv, IInv', NEW e \in Entries, SessionStarts(e) PROVE WInv'
<1>1. Made(e)
  BY IsMade DEF SessionStarts, NoEntry
<1>2. \E s : Becomes(e, s) /\ Serves(entries[e], s, Leased(e), Tenure(e)) /\ Steady(entries[e], s)
  <2> DEFINE r == entries[e]  p == [r EXCEPT !.runtime = TRUE]  t == Tenure(e)
  <2>1. Held(r, Leased(e), t) /\ Leased(e) \in BOOLEAN /\ t \in TenureType /\ r.load = "built" /\ r.store = "open"
    BY <1>1, IsHeld DEF SessionStarts, Held, Fit, LoadFits
  <2>2. p.tenure = r.tenure /\ p.activity = r.activity /\ p.store = "open"
    BY <2>1 DEF Held, EntryType
  <2>3. \/ t.state = "active" /\ Becomes(e, [p EXCEPT !.load = "hooks"])
        \/ Unwinds(e, p, "unavailable")
    BY <2>2 DEF SessionStarts, Admitted, Tenure
  <2>4. CASE t.state = "active" /\ Becomes(e, [p EXCEPT !.load = "hooks"])
    BY <2>1, <2>4, Starting
  <2>5. CASE Unwinds(e, p, "unavailable")
    <3> DEFINE why == "unavailable"
    <3>1. \/ t.state = "revoked" /\ Becomes(e, [RuntimeRevoked(p) EXCEPT !.load = "failed", !.failure = why])
          \/ /\ t.state = "active" /\ r.activity # "revoked"
             /\ Becomes(e, [Disposing(p, "idle") EXCEPT !.load = "unwinding", !.failure = why])
          \/ t.state \notin {"revoked", "active"} /\ Becomes(e, [p EXCEPT !.load = "failed", !.failure = why])
          \/ /\ t.state = "active" /\ r.activity = "revoked"
             /\ Becomes(e, [p EXCEPT !.load = "failed", !.failure = why])
      BY <2>2, <2>5 DEF Unwinds, Tenure
    <3>2. ~(t.state = "active" /\ r.activity = "revoked")
      BY <2>1 DEF Held, Fit, LoadFits, Under, Loaded
    <3> QED BY <2>1, <3>1, <3>2, StartsRevoked, StartsDisposed, StartsLeft
  <2> QED BY <2>3, <2>4, <2>5
<1> QED BY <1>1, <1>2, RuntimeKeeps DEF SessionStarts

(* A load that fails in its hooks. *)
LEMMA HooksUnwind ==
  ASSUME IInv, WInv, NEW e \in Entries, Made(e), entries[e].load = "hooks",
         NEW why \in {"unavailable", "error"}, Unwinds(e, entries[e], why)
  PROVE  \E s : Becomes(e, s) /\ Serves(entries[e], s, Leased(e), Tenure(e)) /\ Steady(entries[e], s)
<1> DEFINE r == entries[e]
<1>1. Held(r, Leased(e), Tenure(e)) /\ Leased(e) \in BOOLEAN /\ Tenure(e) \in TenureType
  BY IsHeld
<1>2. CASE Tenure(e).state = "revoked"
  <2>1. CASE r.activity = "revoked" /\ r.store = "detached"
    <3>1. Becomes(e, [r EXCEPT !.load = "failed", !.failure = why])
      BY <1>2, <2>1 DEF Unwinds, Tenure
    <3> QED BY <1>1, <2>1, <3>1, HooksLeft
  <2>2. CASE ~(r.activity = "revoked" /\ r.store = "detached")
    <3>1. Becomes(e, [RuntimeRevoked(r) EXCEPT !.load = "failed", !.failure = why])
      BY <1>2, <2>2 DEF Unwinds, Tenure
    <3> QED BY <1>1, <1>2, <3>1, HooksRevoked
  <2> QED BY <2>1, <2>2
<1>3. CASE Tenure(e).state = "active" /\ r.activity # "revoked"
  <2>1. Becomes(e, [Disposing(r, "idle") EXCEPT !.load = "unwinding", !.failure = why])
    BY <1>3 DEF Unwinds, Tenure
  <2> QED BY <1>1, <1>3, <2>1, HooksDisposed
<1>4. CASE Tenure(e).state # "revoked" /\ ~(Tenure(e).state = "active" /\ r.activity # "revoked")
  <2>1. Becomes(e, [r EXCEPT !.load = "failed", !.failure = why])
    BY <1>4 DEF Unwinds, Tenure
  <2> QED BY <1>1, <1>4, <2>1, HooksLeft
<1> QED BY <1>2, <1>3, <1>4

LEMMA HooksEndKeeps == ASSUME IInv, WInv, IInv', NEW e \in Entries, HooksEnd(e) PROVE WInv'
<1>1. Made(e)
  BY IsMade DEF HooksEnd, NoEntry
<1>2. \E s : Becomes(e, s) /\ Serves(entries[e], s, Leased(e), Tenure(e)) /\ Steady(entries[e], s)
  <2>1. CASE Becomes(e, [entries[e] EXCEPT !.load = "done"])
    BY <1>1, <2>1, IsHeld, HooksEnding DEF HooksEnd
  <2>2. CASE Unwinds(e, entries[e], "unavailable")
    BY <1>1, <2>2, HooksUnwind DEF HooksEnd
  <2> QED BY <2>1, <2>2 DEF HooksEnd
<1> QED BY <1>1, <1>2, RuntimeKeeps DEF HooksEnd

LEMMA HooksThrowKeeps == ASSUME IInv, WInv, IInv', NEW e \in Entries, HooksThrow(e) PROVE WInv'
<1>1. Made(e)
  BY IsMade DEF HooksThrow, NoEntry
<1>2. \E s : Becomes(e, s) /\ Serves(entries[e], s, Leased(e), Tenure(e)) /\ Steady(entries[e], s)
  BY <1>1, HooksUnwind DEF HooksThrow
<1> QED BY <1>1, <1>2, RuntimeKeeps DEF HooksThrow

LEMMA UnwoundKeeps == ASSUME IInv, WInv, IInv', NEW e \in Entries, Unwound(e) PROVE WInv'
<1>1. Made(e)
  BY IsMade DEF Unwound, NoEntry
<1>2. \E s : Becomes(e, s) /\ Serves(entries[e], s, Leased(e), Tenure(e)) /\ Steady(entries[e], s)
  BY <1>1, IsHeld, UnwindingEnds DEF Unwound
<1> QED BY <1>1, <1>2, RuntimeKeeps DEF Unwound

LEMMA WriteStartsKeeps == ASSUME IInv, WInv, IInv', NEW e \in Entries, WriteStarts(e) PROVE WInv'
<1>1. Made(e)
  BY IsMade DEF WriteStarts, NoEntry
<1>2. \E s : Becomes(e, s) /\ Serves(entries[e], s, Leased(e), Tenure(e)) /\ Steady(entries[e], s)
  BY <1>1, IsHeld, WritingStarts DEF WriteStarts
<1> QED BY <1>1, <1>2, RuntimeKeeps DEF WriteStarts

LEMMA WriteSettlesKeeps == ASSUME IInv, WInv, IInv', NEW e \in Entries, WriteSettles(e) PROVE WInv'
<1>1. Made(e)
  BY IsMade DEF WriteSettles, NoEntry
<1>2. \E s : Becomes(e, s) /\ Serves(entries[e], s, Leased(e), Tenure(e)) /\ Steady(entries[e], s)
  BY <1>1, IsHeld, WritingSettles DEF WriteSettles
<1> QED BY <1>1, <1>2, RuntimeKeeps DEF WriteSettles

LEMMA CleanupEndsKeeps == ASSUME IInv, WInv, IInv', NEW e \in Entries, CleanupEnds(e) PROVE WInv'
<1>1. Made(e)
  BY IsMade DEF CleanupEnds, NoEntry
<1>2. \E s : Becomes(e, s) /\ Serves(entries[e], s, Leased(e), Tenure(e)) /\ Steady(entries[e], s)
  BY <1>1, IsHeld, CleaningUp DEF CleanupEnds
<1> QED BY <1>1, <1>2, RuntimeKeeps DEF CleanupEnds

LEMMA SweepDisposesKeeps == ASSUME IInv, WInv, IInv', NEW e \in Entries, SweepDisposes(e) PROVE WInv'
<1>1. Made(e)
  BY IsMade DEF SweepDisposes, NoEntry
<1>2. \E s : Becomes(e, s) /\ Serves(entries[e], s, Leased(e), Tenure(e)) /\ Steady(entries[e], s)
  BY <1>1, IsHeld, SweepEvicts DEF SweepDisposes
<1> QED BY <1>1, <1>2, RuntimeKeeps DEF SweepDisposes

LEMMA ShutdownDisposesKeeps == ASSUME IInv, WInv, IInv', NEW e \in Entries, ShutdownDisposes(e) PROVE WInv'
<1>1. Made(e)
  BY IsMade DEF ShutdownDisposes, NoEntry
<1>2. \E s : Becomes(e, s) /\ Serves(entries[e], s, Leased(e), Tenure(e)) /\ Steady(entries[e], s)
  BY <1>1, IsHeld, Evicts DEF ShutdownDisposes
<1> QED BY <1>1, <1>2, RuntimeKeeps DEF ShutdownDisposes

LEMMA ParkUnloadedKeeps == ASSUME IInv, WInv, IInv', NEW e \in Entries, ParkUnloaded(e) PROVE WInv'
<1>1. Made(e)
  BY IsMade DEF ParkUnloaded, NoEntry
<1>2. \E s : Becomes(e, s) /\ Serves(entries[e], s, Leased(e), Tenure(e)) /\ Steady(entries[e], s)
  BY <1>1, IsHeld, ParkUnloads DEF ParkUnloaded
<1> QED BY <1>1, <1>2, RuntimeKeeps DEF ParkUnloaded

LEMMA ParkHooksEndKeeps == ASSUME IInv, WInv, IInv', NEW e \in Entries, ParkHooksEnd(e) PROVE WInv'
<1>1. Made(e)
  BY IsMade DEF ParkHooksEnd, NoEntry
<1>2. \E s : Becomes(e, s) /\ Serves(entries[e], s, Leased(e), Tenure(e)) /\ Steady(entries[e], s)
  BY <1>1, IsHeld, ParkHooked, ParkHookEnds DEF ParkHooksEnd, ParkFails
<1> QED BY <1>1, <1>2, RuntimeKeeps DEF ParkHooksEnd

LEMMA ParkDrainsKeeps == ASSUME IInv, WInv, IInv', NEW e \in Entries, ParkDrains(e) PROVE WInv'
<1>1. Made(e)
  BY IsMade DEF ParkDrains, NoEntry
<1>2. \E s : Becomes(e, s) /\ Serves(entries[e], s, Leased(e), Tenure(e)) /\ Steady(entries[e], s)
  BY <1>1, IsHeld, ParkDrained DEF ParkDrains
<1> QED BY <1>1, <1>2, RuntimeKeeps DEF ParkDrains

LEMMA ParkCleanupEndsKeeps == ASSUME IInv, WInv, IInv', NEW e \in Entries, ParkCleanupEnds(e) PROVE WInv'
<1>1. Made(e)
  BY IsMade DEF ParkCleanupEnds, NoEntry
<1>2. \E s : Becomes(e, s) /\ Serves(entries[e], s, Leased(e), Tenure(e)) /\ Steady(entries[e], s)
  BY <1>1, IsHeld, ParkCleaned DEF ParkCleanupEnds, ParkFails
<1> QED BY <1>1, <1>2, RuntimeKeeps DEF ParkCleanupEnds

(* An entry that waited to be forgotten is not one whose log was found lost while it is resident. *)
LEMMA ForgetKeeps == ASSUME IInv, WInv, IInv', NEW e \in Entries, Forget(e) PROVE WInv'
<1>1. Made(e)
  BY IsMade DEF Forget, NoEntry
<1> DEFINE r == entries[e]
<1>2. Held(r, Leased(e), Tenure(e)) /\ r.load \in Loaded
  BY <1>1, IsHeld DEF Forget, Settled, Loaded
<1>3. Serves(r, Forgotten(r), Leased(e), Tenure(e)) /\ Becomes(e, Forgotten(r))
  BY <1>1, <1>2, IsHeld, ForgottenServes DEF Forget
<1>4. ASSUME resident = e
      PROVE  Steady(r, Forgotten(r))
  <2>1. e # 0 /\ r.forget
    BY Distinct DEF Forget
  <2>2. r.failure # "lost"
    BY <1>4, <2>1 DEF WInv, Residency
  <2>3. Forgotten(r).failure = "lost" => r.failure = "lost"
    BY <1>2, <1>3 DEF Serves, Advances, Loaded
  <2> QED BY <2>2, <2>3 DEF Steady
<1> QED BY <1>1, <1>3, <1>4, RuntimeKeeps DEF Forget

LEMMA SweepBeginsKeeps == ASSUME IInv, WInv, IInv', NEW e \in Entries, SweepBegins(e) PROVE WInv'
<1>1. Made(e)
  BY Distinct DEF SweepBegins, IInv, ResidentInv, Made
<1>2. \E s : Becomes(e, s) /\ Serves(entries[e], s, Leased(e), Tenure(e)) /\ Steady(entries[e], s)
  BY <1>1, IsHeld, Sweeping DEF SweepBegins
<1> QED BY <1>1, <1>2, RuntimeKeeps DEF SweepBegins

LEMMA CloseSessionKeeps == ASSUME IInv, WInv, IInv', NEW c \in Callers, CloseSession(c) PROVE WInv'
<1> DEFINE e == callers[c].entry
<1>1. e \in Entries /\ Made(e) /\ Leased(e)
  BY DEF CloseSession, At, IInv, CallersInv, Made, Leased
<1>2. \E s : Becomes(e, s) /\ Serves(entries[e], s, Leased(e), Tenure(e)) /\ Steady(entries[e], s)
  <2>1. entries[e].load = "done"
    BY <1>1, IsHeld DEF Held
  <2> QED BY <1>1, <2>1, IsHeld, Evicts, Closes DEF CloseSession
<1> QED BY <1>1, <1>2, RuntimeKeeps DEF CloseSession

-----------------------------------------------------------------------------
(* The steps after which an entry leaves the cache. *)

(* A disposed runtime has its store detached. *)
LEMMA DisposedKeeps ==
  ASSUME IInv, WInv, IInv', NEW e \in Entries, Made(e), NEW s \in EntryType,
         Serves(entries[e], s, Leased(e), Tenure(e)), Steady(entries[e], s), s.disposal = "done", Disposed(e, s),
         UNCHANGED <<tenures, current, shutdown, callers>>, entries[e].load \in Loaded
  PROVE  WInv'
<1>1. CASE s.cache # "evicting"
  BY <1>1, RuntimeKeeps DEF Disposed
<1>2. CASE s.cache = "evicting"
  <2>1. Becomes(e, Forgotten(s)) /\ Drops(e)
    BY <1>2 DEF Disposed
  <2>2. Held(entries[e], Leased(e), Tenure(e)) /\ Leased(e) \in BOOLEAN /\ Tenure(e) \in TenureType
    BY IsHeld
  <2>3. Held(s, Leased(e), Tenure(e))
    BY <2>2, ServesHeld
  <2>4. /\ s.load = "done" /\ s.runtime /\ s.store # "open" /\ s.load \in Loaded /\ s.failure # "lost"
    BY <1>2, <2>3 DEF Held, Fit, LoadFits, StoreFits, DisposalFits, Loaded, EntryType
  <2>5. Serves(s, Forgotten(s), Leased(e), Tenure(e))
    BY <2>2, <2>3, <2>4, ForgottenServes
  <2>6. Serves(entries[e], Forgotten(s), Leased(e), Tenure(e))
    BY <2>2, <2>4, <2>5, ServesTransitive
  <2>7. /\ Forgotten(s).load \in Loaded /\ Forgotten(s).store # "open" /\ Forgotten(s).failure # "lost"
    BY <2>4, <2>5 DEF Serves, Advances, Loaded
  <2> QED BY <2>1, <2>6, <2>7, EntryKeeps, CallersStay
<1> QED BY <1>1, <1>2

LEMMA DisposalStartsKeeps == ASSUME IInv, WInv, IInv', NEW e \in Entries, DisposalStarts(e) PROVE WInv'
<1>1. Made(e)
  BY IsMade DEF DisposalStarts, NoEntry
<1> DEFINE r == entries[e]  s == [r EXCEPT !.disposal = "done"]
<1>2. Held(r, Leased(e), Tenure(e)) /\ Leased(e) \in BOOLEAN /\ Tenure(e) \in TenureType /\ r.disposal = "begun"
  BY <1>1, IsHeld DEF DisposalStarts
<1>3. CASE r.activity = "unloading"
  <2>1. Becomes(e, [r EXCEPT !.disposal = "draining"]) /\ UNCHANGED resident
    BY <1>3 DEF DisposalStarts
  <2>2. \E v : Becomes(e, v) /\ Serves(r, v, Leased(e), Tenure(e)) /\ Steady(r, v)
    BY <1>2, <1>3, <2>1, Drains
  <2> QED BY <1>1, <2>1, <2>2, RuntimeKeeps DEF DisposalStarts
<1>4. CASE r.activity # "unloading"
  <2>1. Disposed(e, s)
    BY <1>4 DEF DisposalStarts
  <2>2. Serves(r, s, Leased(e), Tenure(e)) /\ Steady(r, s)
    BY <1>2, <1>4, DisposalThrows
  <2>3. s \in EntryType /\ s.disposal = "done"
    BY <1>2 DEF Held, EntryType, Disposals
  <2>4. r.load \in Loaded
    BY <1>2 DEF Held, Fit, DisposalFits, PastHooks, Loaded
  <2> HIDE DEF s
  <2> QED BY <1>1, <2>1, <2>2, <2>3, <2>4, DisposedKeeps DEF DisposalStarts
<1> QED BY <1>3, <1>4

LEMMA DisposalEndsKeeps == ASSUME IInv, WInv, IInv', NEW e \in Entries, DisposalEnds(e) PROVE WInv'
<1>1. Made(e)
  BY IsMade DEF DisposalEnds, NoEntry
<1> DEFINE r == entries[e]
           a == IF r.activity = "revoked" THEN r.activity ELSE "disposed"
           s == [r EXCEPT !.disposal = "done", !.store = "detached", !.activity = a]
<1>2. Held(r, Leased(e), Tenure(e)) /\ Leased(e) \in BOOLEAN /\ Tenure(e) \in TenureType /\ r.disposal = "draining"
  BY <1>1, IsHeld DEF DisposalEnds
<1>3. Disposed(e, s)
  BY DEF DisposalEnds
<1>4. Serves(r, s, Leased(e), Tenure(e)) /\ Steady(r, s)
  BY <1>2, DisposalDone
<1>5. s \in EntryType /\ s.disposal = "done"
  <2>1. a \in Activities /\ "detached" \in Stores /\ "done" \in Disposals /\ r \in EntryType
    BY <1>2 DEF Held, EntryType, Activities, Stopped, Stores, Disposals
  <2> HIDE DEF a
  <2> QED BY <2>1 DEF EntryType
<1>6. r.load \in Loaded
  BY <1>2 DEF Held, Fit, DisposalFits, PastHooks, Loaded
<1> HIDE DEF s
<1> QED BY <1>1, <1>3, <1>4, <1>5, <1>6, DisposedKeeps DEF DisposalEnds

LEMMA ParkLoadedKeeps == ASSUME IInv, WInv, IInv', NEW e \in Entries, ParkLoaded(e) PROVE WInv'
<1>1. Made(e)
  BY IsMade DEF ParkLoaded, NoEntry
<1> DEFINE r == entries[e]  p == [r EXCEPT !.activity = IF @ = "ready" THEN "parking" ELSE @]
           park == r.load = "done" \/ (r.failure = "unavailable" /\ r.runtime)
<1>2. /\ Held(r, Leased(e), Tenure(e)) /\ Leased(e) \in BOOLEAN /\ Tenure(e) \in TenureType
      /\ r.job = "load" /\ Settled(r)
  BY <1>1, IsHeld DEF ParkLoaded
<1>3. CASE park
  <2>1. /\ UNCHANGED resident
        /\ \/ r.activity \in {"ready", "parking"} /\ Becomes(e, [p EXCEPT !.job = "hooks", !.busy = @ \union {"park"}])
           \/ r.activity \notin {"ready", "parking"} /\ Becomes(e, [p EXCEPT !.job = "gone"])
    <3>1. p.activity = "parking" <=> r.activity \in {"ready", "parking"}
      BY <1>2 DEF Held, EntryType
    <3> HIDE DEF p
    <3> QED BY <1>3, <3>1 DEF ParkLoaded, p
  <2>2. \E s : Becomes(e, s) /\ Serves(r, s, Leased(e), Tenure(e)) /\ Steady(r, s)
    BY <1>2, <1>3, <2>1, ParkHooks, ParkGone
  <2> QED BY <1>1, <2>1, <2>2, RuntimeKeeps DEF ParkLoaded
<1>4. CASE ~park /\ r.failure = "unavailable"
  <2>1. Becomes(e, [r EXCEPT !.job = "done"]) /\ Drops(e)
    BY <1>4 DEF ParkLoaded
  <2> DEFINE s == [r EXCEPT !.job = "done"]
  <2>2. Serves(r, s, Leased(e), Tenure(e))
    BY <1>2, <1>4, ParkEndsUnloaded
  <2>3. s.load = r.load /\ s.store = r.store /\ s.tenure = r.tenure /\ s.failure = r.failure
    BY <1>2 DEF Held, EntryType
  <2>4. r.load = "failed" /\ r.load \in Loaded
    BY <1>2, <1>4 DEF Settled, Loaded
  <2>5. r.store = "open" => ~Admitted(r.tenure)
    BY <1>2, <2>4 DEF Held, Under, Admitted, Tenure
  <2> HIDE DEF s
  <2> QED BY <1>1, <1>4, <2>1, <2>2, <2>3, <2>4, <2>5, EntryKeeps, CallersStay DEF ParkLoaded, s
<1>5. CASE ~park /\ r.failure # "unavailable"
  <2>1. Becomes(e, [r EXCEPT !.job = "failed"]) /\ UNCHANGED resident
    BY <1>5 DEF ParkLoaded
  <2>2. \E s : Becomes(e, s) /\ Serves(r, s, Leased(e), Tenure(e)) /\ Steady(r, s)
    BY <1>2, <1>5, <2>1, ParkEndsUnloaded
  <2> QED BY <1>1, <2>1, <2>2, RuntimeKeeps DEF ParkLoaded
<1> QED BY <1>3, <1>4, <1>5

LEMMA ParkSettlesKeeps == ASSUME IInv, WInv, IInv', NEW e \in Entries, ParkSettles(e) PROVE WInv'
<1>1. Made(e)
  BY IsMade DEF ParkSettles, NoEntry
<1> DEFINE r == entries[e]  s == [r EXCEPT !.job = "done", !.store = "detached", !.activity = "disposed"]
<1>2. /\ Held(r, Leased(e), Tenure(e)) /\ Leased(e) \in BOOLEAN /\ Tenure(e) \in TenureType
      /\ r.job = "settle" /\ ~r.writing
  BY <1>1, IsHeld DEF ParkSettles
<1>3. CASE Becomes(e, s) /\ Drops(e)
  <2>1. Serves(r, s, Leased(e), Tenure(e))
    BY <1>2, ParkDone
  <2>2. s.load = r.load /\ s.store = "detached" /\ s.failure = r.failure
    BY <1>2 DEF Held, EntryType
  <2>3. r.load \in Loaded /\ r.failure # "lost"
    BY <1>2 DEF Held, Fit, JobFits, BareFits, LoadFits, Settled, Loaded
  <2> HIDE DEF s
  <2> QED BY <1>1, <1>3, <2>1, <2>2, <2>3, EntryKeeps, CallersStay DEF ParkSettles
<1>4. CASE ParkFails(e, r) /\ UNCHANGED resident
  <2>1. \E v : Becomes(e, v) /\ Serves(r, v, Leased(e), Tenure(e)) /\ Steady(r, v)
    BY <1>2, <1>4, ParkGivesUp DEF ParkFails
  <2> QED BY <1>1, <1>4, <2>1, RuntimeKeeps DEF ParkSettles
<1> QED BY <1>3, <1>4 DEF ParkSettles

-----------------------------------------------------------------------------
(* The steps of a caller. *)
LEMMA AnsweredCalls == ASSUME IInv, NEW c \in Callers, Answered(c) PROVE Leasing /\ Calling
<1>1. callers'[c].pc = "answered" /\ \A d \in Callers : d # c => callers'[d] = callers[d]
  BY DEF Answered, Idle, IInv, TypeOK
<1>2. Leasing
  BY <1>1 DEF Leasing, Leased
<1>3. Calling
  BY <1>1 DEF Calling, UnderWay
<1> QED BY <1>2, <1>3

(* A call that goes on with its entry. *)
LEMMA GoesCalls ==
  ASSUME IInv, WInv, NEW c \in Callers, UnderWay(c), c \notin Creators,
         NEW pc \in {"unload", "got", "holding", "bare"}, Goes(c, pc),
         \A e \in Entries : Made(e) => Advances(entries[e], entries'[e]), UNCHANGED <<tenures, current, shutdown>>,
         pc # "unload" => entries[callers[c].entry].load = "done",
         pc = "bare" => entries[callers[c].entry].activity \in Stopped \/ shutdown # "no",
         pc = "holding" => UNCHANGED entries /\ entries[callers[c].entry].activity = "ready"
  PROVE  Leasing /\ Calling
<1> DEFINE e == callers[c].entry
<1>1. /\ callers'[c].pc = pc /\ callers'[c].entry = e /\ callers'[c].tenure = callers[c].tenure
      /\ \A d \in Callers : d # c => callers'[d] = callers[d]
  BY DEF Goes, IInv, TypeOK, CallerType
<1>2. e \in Entries /\ Made(e) /\ CallFits(c)
  BY DEF UnderWay, IInv, CallersInv, Made, WInv, Calls
<1>3. Advances(entries[e], entries'[e])
  BY <1>2
<1>4. CallFits(c)'
  BY <1>1, <1>2, <1>3 DEF CallFits, Advances
<1>5. Calling
  BY <1>1, <1>4 DEF Calling
<1>6. Leasing
  <2> SUFFICES ASSUME NEW f \in Entries, NEW d \in Callers, callers'[d].pc = "holding", callers'[d].entry = f
               PROVE  Leased(f) \/ (entries'[f].activity = "ready" /\ entries'[f].load = "done")
    BY DEF Leasing, Leased
  <2>1. CASE d = c
    BY <1>1, <2>1
  <2>2. CASE d # c
    BY <1>1, <2>2 DEF Leased
  <2> QED BY <2>1, <2>2
<1> QED BY <1>5, <1>6

(* A call that finds a session in the cache. *)
LEMMA JoinsCalls ==
  ASSUME IInv, WInv, NEW c \in Callers, NEW t \in Tenures, resident # 0, LooksUp(c, t),
         current' = t, tenures'[t].state = "active", current \in {0, t}, current = t => tenures[t].state = "active"
  PROVE  UNCHANGED <<entries, resident>> /\ Leasing /\ Calling
<1> DEFINE r == entries[resident]
<1>1. UNCHANGED <<entries, resident>>
  BY DEF LooksUp
<1>2. CASE Answered(c)
  BY <1>1, <1>2, AnsweredCalls
<1>3. ASSUME c \notin Creators, NEW pc \in {"await", "evict", "unload"}, Joins(c, t, pc, resident),
             pc = "evict" => r.cache = "ready" /\ r.activity # "ready"
      PROVE  Leasing /\ Calling
  <2>1. resident \in Entries /\ Made(resident)
    BY DEF IInv, TypeOK, ResidentInv, Made
  <2>2. Held(r, Leased(resident), Tenure(resident))
    BY <2>1, IsHeld
  <2>3. /\ callers'[c].pc = pc /\ callers'[c].entry = resident /\ callers'[c].tenure = t
        /\ \A d \in Callers : d # c => callers'[d] = callers[d]
    BY <1>3 DEF Joins, IInv, TypeOK
  <2>4. pc = "evict" => r.load = "done" /\ r.activity \notin {"ready", "parking"}
    <3> SUFFICES ASSUME pc = "evict"
                 PROVE  r.load = "done" /\ r.activity # "parking"
      BY <1>3
    <3>1. r.load = "done" /\ r.runtime
      BY <1>3, <2>2 DEF Held, Fit, LoadFits, DisposalFits
    <3>2. ASSUME r.activity = "parking"
          PROVE  FALSE
      <4>1. ~OffLog(r)
        BY <2>2, <3>1, <3>2 DEF Held, Fit, StoreFits, OffLog, Stopped
      <4>2. r.tenure = current /\ r.tenure # 0
        BY <2>1, <2>2, <4>1 DEF WInv, Tenancy, Held
      <4> QED BY <2>2, <3>2, <4>2 DEF Held, Under, Tenure
    <3> QED BY <3>1, <3>2
  <2>5. ASSUME r.failure = "lost"
        PROVE  r.tenure = current' /\ Latest(resident)'
    <3>1. r.tenure = current /\ Latest(resident)
      BY <2>1, <2>5 DEF WInv, Residency, Order
    <3>2. Latest(resident)'
      BY <1>1, <3>1 DEF Latest, Made
    <3>3. r.tenure # 0
      BY <2>2 DEF Held
    <3> QED BY <3>1, <3>2, <3>3
  <2>6. CallFits(c)'
    BY <1>1, <1>3, <2>3, <2>4, <2>5 DEF CallFits
  <2>7. Calling
    BY <2>3, <2>6 DEF Calling
  <2>8. Leasing
    BY <1>3, <2>3 DEF Leasing, Leased
  <2> QED BY <2>7, <2>8
<1> QED BY <1>1, <1>2, <1>3 DEF LooksUp

(* A call that builds one: every runtime before it is off the log. *)
LEMMA BuildsKeeps ==
  ASSUME IInv, WInv, IInv', NEW c \in Callers, NEW t \in Tenures, NEW load \in {"creating", "queued"},
         c \in Creators => load = "creating", Builds(c, t, load), resident = 0,
         current' = t, tenures'[t].state = "active", UNCHANGED shutdown, shutdown = "no", Pendings',
         \A u \in Tenures : tenures[u].state # "none" => tenures'[u] = tenures[u],
         current = t \/ tenures[t].state = "none", \A f \in Entries : Made(f) => OffLog(entries[f])
  PROVE  WInv'
<1>1. PICK e \in Entries :
        /\ NewEntry(e) /\ resident' = e /\ Joins(c, t, "await", e)
        /\ Becomes(e, [NoEntry EXCEPT !.tenure = t, !.load = load, !.retained = TRUE])
  BY DEF Builds
<1> DEFINE n == [NoEntry EXCEPT !.tenure = t, !.load = load, !.retained = TRUE]
<1>2. /\ ~Made(e) /\ e # 0 /\ t # 0
      /\ entries'[e] = n /\ \A f \in Entries : f # e => entries'[f] = entries[f]
  BY <1>1, Distinct DEF NewEntry, Made, Becomes, IInv, TypeOK
<1>3. /\ n.tenure = t /\ n.load = load /\ n.retained /\ n.failure = "none" /\ n.store = "none"
      /\ n.activity = "ready" /\ ~n.forget
  BY DEF NoEntry
<1>4. /\ callers'[c].pc = "await" /\ callers'[c].entry = e /\ callers'[c].tenure = t
      /\ \A d \in Callers : d # c => callers'[d] = callers[d]
  BY <1>1 DEF Joins, IInv, TypeOK
<1>5. Fit(n) /\ LeaseFits(n, FALSE) /\ ~OffLog(n)
  BY DEF NoEntry, Fit, LoadFits, StoreFits, BareFits, DisposalFits, JobFits, RetainedFits, LeaseFits, OffLog,
         Loaded, PastHooks, Stopped
<1>6. Under(n, tenures'[t])
  <2>1. tenures'[t].park # "pending"
    BY DEF Pendings
  <2>2. n.job = "none"
    BY DEF NoEntry
  <2> HIDE DEF n
  <2> QED BY <1>3, <2>1, <2>2 DEF Under
<1> HIDE DEF n
<1>7. /\ Made(e)' /\ \A f \in Entries : f # e => (Made(f)' <=> Made(f))
      /\ \A f \in Entries : Made(f)' /\ f # e =>
           /\ Made(f) /\ entries'[f] = entries[f] /\ tenures'[entries[f].tenure] = tenures[entries[f].tenure]
           /\ tenures[entries[f].tenure].state # "none" /\ OffLog(entries[f])
  <2>1. \A f \in Entries : f # e => (Made(f)' <=> Made(f))
    BY <1>2 DEF Made
  <2>2. Made(e)'
    BY <1>2, <1>3 DEF Made
  <2>3. ASSUME NEW f \in Entries, Made(f)', f # e
        PROVE  /\ Made(f) /\ entries'[f] = entries[f] /\ tenures'[entries[f].tenure] = tenures[entries[f].tenure]
               /\ tenures[entries[f].tenure].state # "none" /\ OffLog(entries[f])
    <3>1. Made(f) /\ entries'[f] = entries[f]
      BY <1>2, <2>1, <2>3
    <3>2. entries[f].tenure \in Tenures /\ tenures[entries[f].tenure].state # "none"
      BY <3>1, IsHeld DEF WInv, Tenancy, Under
    <3> QED BY <3>1, <3>2
  <2> QED BY <2>1, <2>2, <2>3
<1>8. ~Leased(e)' /\ \A f \in Entries : f # e => (Leased(f)' => Leased(f))
  <2>1. \A d \in Callers : callers[d].pc = "holding" => callers[d].entry # e
    BY <1>2 DEF IInv, CallersInv, Made
  <2> QED BY <1>4, <2>1 DEF Leased
<1>9. Fits'
  BY <1>2, <1>5, <1>7 DEF Fits, WInv
<1>10. Leases'
  <2> SUFFICES ASSUME NEW f \in Entries, Made(f)'
               PROVE  LeaseFits(entries'[f], Leased(f)')
    BY DEF Leases
  <2>1. CASE f = e
    <3>1. Leased(e)' \in BOOLEAN
      BY DEF Leased
    <3> QED BY <1>2, <1>5, <1>8, <2>1, <3>1, LeaseEnds
  <2>2. CASE f # e
    <3>1. Leased(f)' \in BOOLEAN /\ Leased(f) \in BOOLEAN /\ LeaseFits(entries[f], Leased(f))
      BY <1>7, <2>2 DEF Leased, WInv, Leases
    <3> QED BY <1>7, <1>8, <2>2, <3>1, LeaseEnds
  <2> QED BY <2>1, <2>2
<1>11. Tenancy'
  <2> SUFFICES ASSUME NEW f \in Entries, Made(f)'
               PROVE  /\ Under(entries'[f], tenures'[entries'[f].tenure])
                      /\ ~OffLog(entries'[f]) => entries'[f].tenure = current'
    BY DEF Tenancy
  <2>1. CASE f = e
    BY <1>2, <1>3, <1>6, <2>1
  <2>2. CASE f # e
    BY <1>7, <2>2 DEF WInv, Tenancy
  <2> QED BY <2>1, <2>2
<1>12. Order'
  <2>1. \A f \in Entries : f < e => Made(f)
    BY <1>1 DEF NewEntry, Made
  <2>2. \A f \in Entries : Made(f) => f < e
    <3> SUFFICES ASSUME NEW f \in Entries, Made(f), e < f
                 PROVE  FALSE
      BY <1>2 DEF Entries
    <3> QED BY <1>2 DEF WInv, Order
  <2>3. \A f, g \in Entries : g < f /\ Made(f)' => Made(g)'
    <3> SUFFICES ASSUME NEW f \in Entries, NEW g \in Entries, g < f, Made(f)'
                 PROVE  Made(g)'
      OBVIOUS
    <3>1. CASE f = e
      BY <1>7, <2>1, <3>1 DEF Entries
    <3>2. CASE f # e
      BY <1>7, <3>2 DEF WInv, Order
    <3> QED BY <3>1, <3>2
  <2>4. Latest(e)'
    BY <1>7, <2>2 DEF Latest, Entries
  <2>5. \A f \in Entries : Made(f)' /\ (~OffLog(entries'[f]) \/ resident' = f) => f = e
    BY <1>1, <1>7
  <2> QED BY <2>3, <2>4, <2>5 DEF Order
<1>13. Residency'
  <2>1. ASSUME NEW f \in Entries, Made(f)', f # e
        PROVE  /\ entries[f].load \in Loaded /\ entries'[f] = entries[f]
               /\ entries'[f].store # "open"
    BY <1>7, <2>1 DEF OffLog
  <2>2. entries'[e].failure # "lost" /\ tenures'[entries'[e].tenure].state # "revoked"
    BY <1>2, <1>3
  <2> QED BY <1>1, <2>1, <2>2 DEF Residency
<1>14. Calls'
  <2> SUFFICES ASSUME NEW d \in Callers, UnderWay(d)'
               PROVE  CallFits(d)'
    BY DEF Calls
  <2>1. CASE d = c
    BY <1>2, <1>3, <1>4, <2>1 DEF CallFits
  <2>2. CASE d # c
    <3> DEFINE f == callers[d].entry  u == callers[d].tenure
    <3>1. callers'[d] = callers[d] /\ UnderWay(d) /\ CallFits(d)
      BY <1>4, <2>2 DEF UnderWay, WInv, Calls
    <3>2. f \in Entries /\ Made(f) /\ f # e /\ u \in Tenures
      BY <1>2, <3>1 DEF UnderWay, IInv, CallersInv, Made
    <3>3. entries'[f] = entries[f] /\ tenures[entries[f].tenure].state # "none"
      BY <1>7, <3>2
    <3>4. tenures[u].state # "none" /\ tenures'[u] = tenures[u]
      BY <3>1, <3>2 DEF CallFits
    <3>5. entries[f].tenure = current' => u = current'
      BY <3>1, <3>3 DEF CallFits
    <3>6. ~(callers[d].pc = "await" /\ entries[f].failure = "lost" /\ u = current' /\ Live(current)')
      <4> SUFFICES ASSUME callers[d].pc = "await", entries[f].failure = "lost", u = t, Live(current)'
                   PROVE  FALSE
        OBVIOUS
      <4>1. current = t /\ Live(current)
        BY <3>4 DEF Live
      <4>2. resident = f
        BY <3>1, <4>1 DEF CallFits
      <4> QED BY <3>2, <4>2, Distinct
    <3> QED BY <3>1, <3>3, <3>4, <3>5, <3>6 DEF CallFits
  <2> QED BY <2>1, <2>2
<1> QED BY <1>9, <1>10, <1>11, <1>12, <1>13, <1>14 DEF WInv

(* Admission: with nothing in the cache, what the tenure still retains is off the log. *)
LEMMA AdmittedAlone ==
  ASSUME IInv, WInv, NEW t \in Tenures, Admitted(t), ~Blocked(t), resident = 0, NEW f \in Entries, Made(f)
  PROVE  OffLog(entries[f])
<1> SUFFICES ASSUME ~OffLog(entries[f])
             PROVE  FALSE
  OBVIOUS
<1> DEFINE r == entries[f]
<1>1. Held(r, Leased(f), Tenure(f)) /\ f # 0
  BY IsHeld, Distinct
<1>2. r.tenure = t /\ Latest(f) /\ r.retained
  BY <1>1 DEF WInv, Tenancy, Order, Admitted, Held, Fit, RetainedFits
<1>3. r.load \in Loaded /\ r.store # "open"
  BY <1>1, <1>2 DEF WInv, Residency, Admitted
<1>4. Unsafe(r)
  BY <1>3 DEF OffLog, Unsafe, RuntimeUnsafe
<1>5. f \in Retained(t) /\ \A g \in Entries : entries[g].tenure = t => g <= f
  BY <1>2, Distinct DEF Retained, Latest, Made
<1> QED BY <1>4, <1>5 DEF Blocked

LEMMA LooksUpAgainKeeps ==
  ASSUME IInv, WInv, IInv', NEW c \in Callers, NEW t \in Tenures, LooksUpAgain(c, t),
         UNCHANGED <<tenures, current, shutdown>>
  PROVE  WInv'
<1>1. Closing
  BY DEF Closing
<1>2. CASE Answered(c) /\ UNCHANGED <<entries, resident>>
  BY <1>1, <1>2, AnsweredCalls, NothingKeeps
<1>3. CASE Admitted(t) /\ ~Blocked(t) /\ LooksUp(c, t)
  <2>1. current' = t /\ current = t /\ tenures[t].state = "active" /\ tenures'[t].state = "active" /\ shutdown = "no"
    BY <1>3 DEF Admitted
  <2>2. CASE resident # 0
    <3>1. UNCHANGED <<entries, resident>> /\ Leasing /\ Calling
      BY <1>3, <2>1, <2>2, JoinsCalls
    <3> QED BY <1>1, <3>1, NothingKeeps
  <2>3. CASE resident = 0
    <3>1. PICK load \in {"creating", "queued"} : Builds(c, t, load) /\ (c \in Creators => load = "creating")
      BY <1>3, <2>3 DEF LooksUp
    <3>2. \A f \in Entries : Made(f) => OffLog(entries[f])
      BY <1>3, <2>3, AdmittedAlone
    <3>3. Pendings' /\ \A u \in Tenures : tenures[u].state # "none" => tenures'[u] = tenures[u]
      BY TenuresStay
    <3> QED BY <2>1, <2>3, <3>1, <3>2, <3>3, BuildsKeeps
  <2> QED BY <2>2, <2>3
<1> QED BY <1>2, <1>3 DEF LooksUpAgain

(* A new tenure: no entry is under it. *)
LEMMA OpenedStays ==
  ASSUME IInv, WInv, NEW t \in Tenures, NEW implicit \in BOOLEAN, Opened(t, implicit)
  PROVE  /\ Lapsing /\ Pendings' /\ current' = t /\ tenures[t].state = "none" /\ tenures'[t].state = "active"
         /\ \A u \in Tenures : tenures[u].state # "none" => u # t /\ tenures'[u] = tenures[u]
         /\ \A e \in Entries : Made(e) => entries[e].tenure # t /\ Later(e) = Tenure(e)
<1>1. /\ current' = t /\ tenures[t].state = "none"
      /\ tenures'[t] = [state |-> "active", implicit |-> implicit, park |-> "none"]
      /\ \A u \in Tenures : u # t => tenures'[u] = tenures[u]
  BY DEF Opened, NewTenure, IInv, TypeOK
<1>2. \A u \in Tenures : tenures[u].state # "none" => u # t /\ tenures'[u] = tenures[u]
  BY <1>1
<1>3. \A e \in Entries : Made(e) => entries[e].tenure # t /\ Later(e) = Tenure(e)
  BY <1>1, <1>2, IsHeld DEF Held, Under, Later, Tenure
<1>4. Lapsing
  BY <1>2 DEF Lapsing
<1>5. Pendings'
  BY <1>1 DEF Pendings, WInv
<1> QED BY <1>1, <1>2, <1>3, <1>4, <1>5

LEMMA AskKeeps == ASSUME IInv, WInv, IInv', NEW c \in Callers, Ask(c) PROVE WInv'
<1>1. UNCHANGED shutdown /\ Closing
  BY DEF Ask, Closing
<1>2. ASSUME current = 0, shutdown = "no", NEW t \in Tenures, Opened(t, TRUE), LooksUp(c, t)
      PROVE  WInv'
  <2>1. \A f \in Entries : Made(f) => OffLog(entries[f])
    BY <1>2 DEF WInv, Tenancy, Made
  <2>2. /\ Lapsing /\ Pendings' /\ current' = t /\ tenures[t].state = "none" /\ tenures'[t].state = "active"
        /\ \A u \in Tenures : tenures[u].state # "none" => tenures'[u] = tenures[u]
        /\ \A e \in Entries : Made(e) => Later(e) = Tenure(e)
    BY <1>2, OpenedStays
  <2>3. CASE resident = 0
    <3>1. PICK load \in {"creating", "queued"} : Builds(c, t, load) /\ (c \in Creators => load = "creating")
      BY <1>2, <2>3 DEF LooksUp
    <3> QED BY <1>1, <1>2, <2>1, <2>2, <2>3, <3>1, BuildsKeeps
  <2>4. CASE resident # 0
    <3>1. UNCHANGED <<entries, resident>> /\ Leasing /\ Calling
      BY <1>2, <2>2, <2>4, Distinct, JoinsCalls
    <3>2. Serving
      BY <2>2, <3>1, UnchangedServes DEF Serving
    <3>3. Turning
      BY <2>1, <2>2, <3>1 DEF Turning
    <3>4. Leaving
      BY <3>1 DEF Leaving
    <3>5. Remaining
      <4>1. resident \in Entries /\ Made(resident)
        BY <2>4 DEF IInv, TypeOK, ResidentInv, Made
      <4>2. entries[resident].failure # "lost"
        BY <1>2, <2>4, <4>1 DEF WInv, Residency, Made
      <4>3. tenures[entries[resident].tenure].state = "revoked" => ~entries[resident].retained
        BY <2>4 DEF WInv, Residency
      <4> QED BY <2>2, <3>1, <4>1, <4>2, <4>3 DEF Remaining, Later, Tenure
    <3> QED BY <1>1, <2>2, <3>1, <3>2, <3>3, <3>4, <3>5, Keeps DEF Made
  <2> QED BY <2>3, <2>4
<1>3. ASSUME UNCHANGED <<tenures, current>>, current # 0, LooksUpAgain(c, current)
      PROVE  WInv'
  <2>1. current \in Tenures
    BY <1>3 DEF IInv, TypeOK
  <2> QED BY <1>1, <1>3, <2>1, LooksUpAgainKeeps
<1>4. ASSUME UNCHANGED <<tenures, current, entries, resident>>, Answered(c)
      PROVE  WInv'
  BY <1>1, <1>4, AnsweredCalls, NothingKeeps
<1> QED BY <1>2, <1>3, <1>4 DEF Ask

(* The entry a call awaits or was given. *)
LEMMA CallerHeld ==
  ASSUME IInv, WInv, NEW c \in Callers, UnderWay(c)
  PROVE  LET e == callers[c].entry
         IN  /\ e \in Entries /\ Made(e) /\ CallFits(c) /\ callers[c].tenure \in Tenures
             /\ Held(entries[e], Leased(e), Tenure(e)) /\ Leased(e) \in BOOLEAN /\ Tenure(e) \in TenureType
<1>1. /\ callers[c].entry \in Entries /\ Made(callers[c].entry) /\ CallFits(c) /\ callers[c].tenure \in Tenures
  BY DEF UnderWay, IInv, CallersInv, Made, WInv, Calls
<1> QED BY <1>1, IsHeld

LEMMA LookupEvictsKeeps == ASSUME IInv, WInv, IInv', NEW c \in Callers, LookupEvicts(c) PROVE WInv'
<1> DEFINE e == callers[c].entry  r == entries[e]  s == Evicting(r, "disposed")
<1>1. /\ UnderWay(c) /\ callers[c].pc = "evict" /\ Goes(c, "unload") /\ Becomes(e, s)
      /\ UNCHANGED <<tenures, current, resident, shutdown>>
  BY DEF LookupEvicts, At, UnderWay
<1>2. /\ e \in Entries /\ Made(e) /\ Held(r, Leased(e), Tenure(e)) /\ Leased(e) \in BOOLEAN /\ Tenure(e) \in TenureType
      /\ r.load = "done" /\ r.activity \notin {"ready", "parking"} /\ c \notin Creators
  BY <1>1, CallerHeld DEF CallFits
<1>3. Serves(r, s, Leased(e), Tenure(e)) /\ Steady(r, s)
  BY <1>2, Evicts
<1> HIDE DEF s
<1>4. \A f \in Entries : Made(f) => Advances(entries[f], entries'[f])
  <2>1. entries'[e] = s /\ \A f \in Entries : f # e => entries'[f] = entries[f]
    BY <1>1, <1>2 DEF Becomes, IInv, TypeOK
  <2> QED BY <1>3, <2>1, UnchangedServes DEF Serves
<1>5. Leasing /\ Calling
  BY <1>1, <1>2, <1>4, GoesCalls
<1> QED BY <1>1, <1>2, <1>3, <1>5, EntryKeeps

LEMMA UnloadedKeeps == ASSUME IInv, WInv, IInv', NEW c \in Callers, Unloaded(c) PROVE WInv'
<1>1. UnderWay(c)
  BY DEF Unloaded, At, UnderWay
<1> QED BY <1>1, CallerHeld, LooksUpAgainKeeps DEF Unloaded

LEMMA LoadAwaitedKeeps == ASSUME IInv, WInv, IInv', NEW c \in Callers, LoadAwaited(c) PROVE WInv'
<1> DEFINE e == callers[c].entry  r == entries[e]  t == callers[c].tenure
<1>1. UnderWay(c) /\ r.load = "done" /\ UNCHANGED <<tenures, current, shutdown>>
  BY DEF LoadAwaited, At, UnderWay
<1>2. /\ e \in Entries /\ Made(e) /\ Held(r, Leased(e), Tenure(e)) /\ Leased(e) \in BOOLEAN /\ Tenure(e) \in TenureType
      /\ t \in Tenures /\ CallFits(c)
  BY <1>1, CallerHeld
<1>3. CASE ~Admitted(t) /\ Answered(c) /\ Drops(e) /\ Becomes(e, Forgotten(r))
  <2> DEFINE s == Forgotten(r)
  <2>1. Serves(r, s, Leased(e), Tenure(e))
    BY <1>1, <1>2, ForgottenServes DEF Loaded
  <2>2. s.load = "done" /\ s.tenure = r.tenure /\ s.load \in Loaded /\ s.failure # "lost"
    BY <1>1, <2>1 DEF Serves, Advances, Fit, LoadFits, Loaded
  <2>3. ~Admitted(r.tenure)
    BY <1>2, <1>3 DEF CallFits, Admitted
  <2> HIDE DEF s
  <2>4. Leasing /\ Calling
    BY <1>3, AnsweredCalls
  <2> QED BY <1>1, <1>2, <1>3, <2>1, <2>2, <2>3, <2>4, EntryKeeps DEF s
<1>4. CASE LooksUpAgain(c, t)
  BY <1>1, <1>2, <1>4, LooksUpAgainKeeps
<1>5. ASSUME Answered(c) \/ (c \notin Creators /\ Goes(c, "got")), UNCHANGED resident,
             NEW s \in {r, [r EXCEPT !.cache = "ready"]}, s # r => r.cache = "loading", Becomes(e, s)
      PROVE  WInv'
  <2>1. Serves(r, s, Leased(e), Tenure(e)) /\ Steady(r, s)
    <3>1. CASE s = r
      BY <1>2, <3>1, UnchangedServes
    <3>2. CASE s # r
      BY <1>1, <1>2, <1>5, <3>2, Readies
    <3> QED BY <3>1, <3>2
  <2>2. \A f \in Entries : Made(f) => Advances(entries[f], entries'[f])
    <3>1. entries'[e] = s /\ \A f \in Entries : f # e => entries'[f] = entries[f]
      BY <1>2, <1>5 DEF Becomes, IInv, TypeOK
    <3> QED BY <2>1, <3>1, UnchangedServes DEF Serves
  <2>3. Leasing /\ Calling
    <3>1. CASE Answered(c)
      BY <3>1, AnsweredCalls
    <3>2. CASE c \notin Creators /\ Goes(c, "got")
      BY <1>1, <2>2, <3>2, GoesCalls
    <3> QED BY <1>5, <3>1, <3>2
  <2> QED BY <1>1, <1>2, <1>5, <2>1, <2>3, EntryKeeps
<1> QED BY <1>3, <1>4, <1>5 DEF LoadAwaited

LEMMA AcquireKeeps == ASSUME IInv, WInv, IInv', NEW c \in Callers, Acquire(c) PROVE WInv'
<1> DEFINE e == callers[c].entry  r == entries[e]  t == callers[c].tenure
<1>1. UnderWay(c) /\ callers[c].pc = "got" /\ UNCHANGED <<tenures, current, shutdown>> /\ Closing
  BY DEF Acquire, At, UnderWay, Closing
<1>2. /\ e \in Entries /\ Made(e) /\ Held(r, Leased(e), Tenure(e)) /\ Tenure(e) \in TenureType
      /\ t \in Tenures /\ CallFits(c) /\ c \notin Creators /\ r.load = "done"
  BY <1>1, CallerHeld DEF CallFits
<1>3. CASE Answered(c) /\ UNCHANGED <<entries, resident>>
  BY <1>1, <1>3, AnsweredCalls, NothingKeeps
<1>4. CASE LooksUpAgain(c, t)
  BY <1>1, <1>2, <1>4, LooksUpAgainKeeps
<1>5. ASSUME NEW pc \in {"unload", "holding", "bare"}, Goes(c, pc), UNCHANGED <<entries, resident>>,
             pc = "holding" => r.activity = "ready",
             pc = "bare" => resident = 0 /\ tenures[t].state = "active" /\ current = t
      PROVE  WInv'
  <2>1. pc = "bare" => r.activity \in Stopped \/ shutdown # "no"
    <3> SUFFICES ASSUME pc = "bare", shutdown = "no"
                 PROVE  r.activity \in Stopped
      OBVIOUS
    <3>1. r.store # "open"
      <4>1. CASE r.tenure = current
        <5>1. Admitted(r.tenure) /\ resident # e
          BY <1>2, <1>5, <4>1, Distinct DEF CallFits, Admitted
        <5> QED BY <1>2, <5>1 DEF WInv, Residency
      <4>2. CASE r.tenure # current
        BY <1>2, <4>2 DEF WInv, Tenancy, OffLog
      <4> QED BY <4>1, <4>2
    <3> QED BY <1>2, <3>1 DEF Held, Fit, LoadFits, StoreFits
  <2>2. \A f \in Entries : Made(f) => Advances(entries[f], entries'[f])
    BY <1>5, UnchangedServes DEF Serves
  <2>3. Leasing /\ Calling
    BY <1>1, <1>2, <1>5, <2>1, <2>2, GoesCalls
  <2> QED BY <1>1, <1>5, <2>3, NothingKeeps
<1> QED BY <1>3, <1>4, <1>5 DEF Acquire

LEMMA DeliverKeeps == ASSUME IInv, WInv, IInv', NEW c \in Callers, DeliverWake(c) \/ Release(c) PROVE WInv'
<1>1. UNCHANGED <<tenures, current, entries, resident, shutdown>> /\ Closing
  BY DEF DeliverWake, Release, Closing
<1>2. CASE Answered(c)
  BY <1>1, <1>2, AnsweredCalls, NothingKeeps
<1>3. CASE /\ callers[c].pc = "got" /\ entries[callers[c].entry].activity = "ready" /\ Goes(c, "holding")
  <2>1. UnderWay(c)
    BY <1>3 DEF UnderWay
  <2>2. entries[callers[c].entry].load = "done" /\ c \notin Creators
    BY <1>3, <2>1, CallerHeld DEF CallFits
  <2>3. \A f \in Entries : Made(f) => Advances(entries[f], entries'[f])
    BY <1>1, UnchangedServes DEF Serves
  <2>4. Leasing /\ Calling
    BY <1>1, <1>3, <2>1, <2>2, <2>3, GoesCalls
  <2> QED BY <1>1, <2>4, NothingKeeps
<1> QED BY <1>2, <1>3 DEF DeliverWake, Release, At

(* A tenure that was found lost: nothing of it is on the log. *)
LEMMA LostStays ==
  ASSUME IInv, WInv, NEW t \in Tenures, t = current, Live(t), tenures' = [tenures EXCEPT ![t].state = "lost"],
         NEW e \in Entries, Made(e), Latest(e), UNCHANGED current, NEW s,
         entries[e].load \in Loaded, Serves(entries[e], s, Leased(e), Tenure(e)), s \in EntryType, OffLog(s),
         entries[e].tenure = t, Becomes(e, s), resident' = IF resident = e THEN 0 ELSE resident
  PROVE  Serving /\ Lapsing /\ Pendings' /\ Turning /\ Leaving /\ Remaining /\ \A f \in Entries : Made(f)' => Made(f)
<1>1. /\ tenures'[t].state = "lost" /\ tenures'[t].park = tenures[t].park /\ tenures'[t] \in TenureType
      /\ \A u \in Tenures : u # t => tenures'[u] = tenures[u]
  BY DEF IInv, TypeOK, TenureType
<1>2. entries'[e] = s /\ \A f \in Entries : f # e => entries'[f] = entries[f]
  BY DEF Becomes, IInv, TypeOK
<1>3. /\ Held(entries[e], Leased(e), Tenure(e)) /\ Leased(e) \in BOOLEAN /\ Tenure(e) \in TenureType
      /\ Held(s, Leased(e), Tenure(e)) /\ s.tenure = t /\ s.load \in Loaded
  BY IsHeld, ServesHeld DEF Serves, Advances
<1>4. Tenure(e).state \in {"active", "parking"} /\ Later(e) = tenures'[t] /\ Tenure(e) = tenures[t]
  BY DEF Live, Tenure, Later
<1>5. Serves(entries[e], s, Leased(e), Later(e))
  <2>1. Serves(s, s, Leased(e), Later(e))
    BY <1>1, <1>3, <1>4, ParkClosed
  <2> QED BY <1>1, <1>3, <1>4, <2>1, ServesTransitive
<1>6. ASSUME NEW f \in Entries, Made(f), f # e
      PROVE  Serves(entries[f], entries[f], Leased(f), Later(f)) /\ OffLog(entries[f]) /\ resident # f
  <2>1. OffLog(entries[f]) /\ resident # f
    <3> SUFFICES ASSUME Latest(f)
                 PROVE  FALSE
      BY <1>6, Distinct DEF WInv, Order
    <3> QED BY <1>6 DEF Latest, Entries
  <2>2. /\ Held(entries[f], Leased(f), Tenure(f)) /\ Leased(f) \in BOOLEAN /\ Tenure(f) \in TenureType
        /\ entries[f].tenure \in Tenures
    BY <1>6, IsHeld
  <2>3. CASE entries[f].tenure = t
    <3>1. Later(f) = tenures'[t] /\ Tenure(f) = tenures[t]
      BY <2>3 DEF Later, Tenure
    <3>2. tenures[t].state \in {"active", "parking"}
      BY DEF Live
    <3> QED BY <1>1, <2>1, <2>2, <3>1, <3>2, ParkClosed
  <2>4. CASE entries[f].tenure # t
    <3>1. Later(f) = Tenure(f)
      BY <1>1, <2>2, <2>4 DEF Later, Tenure
    <3> QED BY <1>6, <2>1, <3>1, UnchangedServes
  <2> QED BY <2>1, <2>3, <2>4
<1>7. Serving
  BY <1>2, <1>5, <1>6 DEF Serving
<1>8. Lapsing
  BY <1>1 DEF Lapsing, Live
<1>9. Pendings'
  BY <1>1 DEF Pendings, WInv, Live
<1>10. resident' = 0
  <2>1. resident # 0 => resident \in Entries /\ Made(resident)
    BY DEF IInv, TypeOK, ResidentInv, Made
  <2> QED BY <1>6, <2>1
<1>11. Leaving
  <2>1. resident # 0 => resident = e
    BY <1>6 DEF IInv, TypeOK, ResidentInv, Made
  <2>2. s.store # "open" /\ ~Live(current)'
    BY <1>1 DEF OffLog, Live
  <2> QED BY <1>2, <1>3, <2>1, <2>2 DEF Leaving
<1>12. \A f \in Entries : Made(f)' => Made(f)
  BY <1>2 DEF Made
<1> QED BY <1>7, <1>8, <1>9, <1>10, <1>11, <1>12 DEF Remaining, Turning

LEMMA LoadAwaitFailsKeeps == ASSUME IInv, WInv, IInv', NEW c \in Callers, LoadAwaitFails(c) PROVE WInv'
<1> DEFINE e == callers[c].entry  r == entries[e]  t == callers[c].tenure  s == Forgotten(r)
           lost == r.failure = "lost" /\ c \notin Creators /\ current = t
                   /\ tenures[t].state \in {"active", "parking"}
           gone == r.failure = "missing" /\ c \notin Creators
                   /\ tenures[t].implicit /\ tenures[t].state = "active" /\ current = t
                   /\ Retained(t) \subseteq {e}
                   /\ ~Forgotten(r).retained
<1>1. /\ UnderWay(c) /\ callers[c].pc = "await" /\ r.load = "failed" /\ Answered(c) /\ Drops(e) /\ Becomes(e, s)
      /\ tenures' = IF lost THEN [tenures EXCEPT ![t].state = "lost"] ELSE tenures
      /\ current' = IF gone THEN 0 ELSE current
      /\ UNCHANGED shutdown
  BY DEF LoadAwaitFails, At, UnderWay
<1>2. /\ e \in Entries /\ Made(e) /\ Held(r, Leased(e), Tenure(e)) /\ Leased(e) \in BOOLEAN /\ Tenure(e) \in TenureType
      /\ t \in Tenures /\ CallFits(c)
  BY <1>1, CallerHeld
<1>3. Serves(r, s, Leased(e), Tenure(e)) /\ s \in EntryType /\ r.load \in Loaded
  <2>1. r.load \in Loaded
    BY <1>1 DEF Loaded
  <2>2. entries'[e] = s /\ entries'[e] \in EntryType
    BY <1>1, <1>2 DEF Becomes, IInv, TypeOK
  <2> QED BY <1>2, <2>1, <2>2, ForgottenServes
<1>4. /\ s.tenure = r.tenure /\ s.load \in Loaded /\ (s.store = "open" => r.store = "open")
      /\ s.failure = "lost" => r.failure = "lost"
  BY <1>1, <1>3 DEF Serves, Advances
<1>5. Leasing /\ Calling /\ Closing /\ resident' \in {resident, 0}
  BY <1>1, AnsweredCalls DEF Drops, Closing
<1>6. CASE lost
  <2>1. r.tenure = t /\ Latest(e) /\ Live(t) /\ t = current /\ UNCHANGED current
    BY <1>1, <1>2, <1>6 DEF CallFits, Live
  <2>2. OffLog(s)
    BY <1>2, <1>3, <1>4, <1>6 DEF Held, Fit, LoadFits, OffLog, Serves, Advances
  <2>3. tenures' = [tenures EXCEPT ![t].state = "lost"] /\ resident' = IF resident = e THEN 0 ELSE resident
    BY <1>1, <1>6 DEF Drops
  <2> HIDE DEF s, lost, gone, e, r
  <2>4. r = entries[e]
    BY DEF r
  <2>5. Serving /\ Lapsing /\ Pendings' /\ Turning /\ Leaving /\ Remaining /\ \A f \in Entries : Made(f)' => Made(f)
    BY <1>1, <1>2, <1>3, <2>1, <2>2, <2>3, <2>4, LostStays
  <2> QED BY <1>5, <2>5, Keeps
<1>7. CASE gone
  <2>1. UNCHANGED tenures /\ current' = 0 /\ current = t /\ t # 0 /\ ~s.retained /\ Retained(t) \subseteq {e}
    BY <1>1, <1>2, <1>7, Distinct
  <2>2. entries'[e] = s /\ \A f \in Entries : f # e => entries'[f] = entries[f]
    BY <1>1, <1>2 DEF Becomes, IInv, TypeOK
  <2> HIDE DEF s, lost, gone
  <2>3. \A f \in Entries : Later(f) = Tenure(f)
    BY <2>1 DEF Later, Tenure
  <2>4. Serving
    BY <1>3, <2>2, <2>3, UnchangedServes DEF Serving
  <2>5. Lapsing /\ Pendings'
    BY <2>1 DEF Lapsing, Pendings, WInv
  <2>6. \A f \in Entries : Made(f) => OffLog(entries'[f])
    <3> SUFFICES ASSUME NEW f \in Entries, Made(f), f # e, ~OffLog(entries[f])
                 PROVE  FALSE
      BY <1>3, <2>1, <2>2 DEF Serves, Fit, RetainedFits
    <3>1. entries[f].tenure = t /\ entries[f].retained
      BY <2>1, IsHeld DEF WInv, Tenancy, Held, Fit, RetainedFits
    <3> QED BY <2>1, <3>1 DEF Retained
  <2>7. Turning
    BY <2>1, <2>6 DEF Turning
  <2>8. Leaving
    <3>1. resident # 0 /\ resident' = 0 => resident = e
      BY <1>1 DEF Drops
    <3>2. entries'[e].tenure # 0
      BY <1>2, <1>4, <2>2 DEF Held
    <3> QED BY <1>4, <2>1, <2>2, <3>1, <3>2 DEF Leaving, AdmittedNext
  <2>9. Remaining
    <3> SUFFICES ASSUME resident' # 0
                 PROVE  Remaining
      BY DEF Remaining
    <3>1. resident # e /\ resident' = resident /\ resident \in Entries
      BY <1>1 DEF Drops, IInv, TypeOK
    <3>2. entries[resident].failure # "lost"
      BY <2>1, <3>1 DEF WInv, Residency, Retained
    <3> QED BY <2>1, <2>2, <3>1, <3>2 DEF Remaining, WInv, Residency
  <2>10. \A f \in Entries : Made(f)' => Made(f)
    BY <1>2, <2>2 DEF Made
  <2> QED BY <1>5, <2>4, <2>5, <2>7, <2>8, <2>9, <2>10, Keeps
<1>8. CASE ~lost /\ ~gone
  <2>1. UNCHANGED <<tenures, current, shutdown>>
    BY <1>1, <1>8
  <2>2. r.store = "open" => ~Admitted(r.tenure)
    BY <1>1, <1>2 DEF Held, Under, Admitted, Tenure
  <2>3. r.failure = "lost" /\ r.tenure = current => ~Live(current)
    BY <1>2, <1>8 DEF CallFits, Live
  <2> HIDE DEF s
  <2> QED BY <1>1, <1>2, <1>3, <1>4, <1>5, <2>1, <2>2, <2>3, EntryKeeps DEF s
<1> QED BY <1>6, <1>7, <1>8

(* A write that fences stops its own runtime, the last one of the tenure on the log. *)
LEMMA WriteFencesKeeps == ASSUME IInv, WInv, IInv', NEW e \in Entries, WriteFences(e) PROVE WInv'
<1> DEFINE r == entries[e]  t == entries[e].tenure
<1>1. r.runtime /\ r.store = "open" /\ r.writing /\ UNCHANGED <<current, shutdown, callers>>
  BY DEF WriteFences
<1>2. Made(e)
  BY <1>1, IsMade DEF NoEntry
<1>3. /\ Held(r, Leased(e), Tenure(e)) /\ Leased(e) \in BOOLEAN /\ Tenure(e) \in TenureType /\ t \in Tenures
      /\ ~OffLog(r) /\ r.retained /\ t = current /\ Latest(e)
  <2>1. Held(r, Leased(e), Tenure(e)) /\ Leased(e) \in BOOLEAN /\ Tenure(e) \in TenureType /\ t \in Tenures
    BY <1>2, IsHeld
  <2>2. ~OffLog(r)
    BY <1>1 DEF OffLog
  <2> QED BY <1>2, <2>1, <2>2 DEF WInv, Tenancy, Order, Held, Fit, RetainedFits
<1>4. r.load \in Loaded /\ r.failure # "lost" /\ Good(r)
  BY <1>1, <1>2, <1>3, MadeIsGood DEF Held, Fit, LoadFits, NoEntry
<1>5. PICK settled \in BOOLEAN, owner \in {"kept", "lost"} :
        /\ owner = "lost" => settled
        /\ Becomes(e, Forgotten([RuntimeRevoked(r) EXCEPT !.writing = ~settled])) /\ Drops(e)
        /\ tenures' = IF owner = "lost" /\ current = t /\ tenures[t].state \in {"active", "parking"}
                      THEN [tenures EXCEPT ![t].state = "lost"] ELSE tenures
  BY <1>3 DEF WriteFences
<1> DEFINE v == [RuntimeRevoked(r) EXCEPT !.writing = ~settled]  s == Forgotten(v)
<1>6. /\ v \in EntryType /\ v.writing = ~settled
      /\ v.store = RuntimeRevoked(r).store /\ v.load = RuntimeRevoked(r).load
  <2>1. RuntimeRevoked(r) \in EntryType
    BY <1>4, RuntimeRevokedMoves DEF Good
  <2> QED BY <2>1 DEF EntryType
<1>7. Serves(r, v, Leased(e), Tenure(e))
  BY <1>1, <1>3, Fences
<1>8. v.load \in Loaded /\ v.store # "open"
  BY <1>4, <1>6, <1>7 DEF Serves, Advances, Fit, LoadFits, StoreFits, RuntimeRevoked
<1> HIDE DEF v
<1>9. Serves(v, s, Leased(e), Tenure(e)) /\ Serves(r, s, Leased(e), Tenure(e))
  <2>1. Held(v, Leased(e), Tenure(e))
    BY <1>3, <1>6, <1>7, ServesHeld
  <2>2. Serves(v, s, Leased(e), Tenure(e))
    BY <1>3, <1>8, <2>1, ForgottenServes
  <2> QED BY <1>3, <1>4, <1>7, <2>2, ServesTransitive
<1>10. Becomes(e, s) /\ s \in EntryType
  <2>1. Becomes(e, s)
    BY <1>5 DEF v
  <2>2. entries'[e] = s /\ entries'[e] \in EntryType
    BY <2>1 DEF Becomes, IInv, TypeOK
  <2> QED BY <2>1, <2>2
<1>11. s.load \in Loaded /\ s.store # "open" /\ s.failure # "lost" /\ (settled => OffLog(s))
  BY <1>4, <1>6, <1>8, <1>9 DEF Serves, Advances, OffLog, Loaded
<1> HIDE DEF s
<1>12. CASE owner = "lost" /\ Live(t)
  <2>1. /\ tenures' = [tenures EXCEPT ![t].state = "lost"] /\ resident' = (IF resident = e THEN 0 ELSE resident)
        /\ OffLog(s)
    BY <1>3, <1>5, <1>11, <1>12 DEF Drops, Live
  <2>2. Serving /\ Lapsing /\ Pendings' /\ Turning /\ Leaving /\ Remaining /\ \A f \in Entries : Made(f)' => Made(f)
    <3> HIDE DEF r
    <3>1. UNCHANGED current
      BY <1>1
    <3>2. entries[e].load \in Loaded /\ Serves(entries[e], s, Leased(e), Tenure(e))
      BY <1>4, <1>9 DEF r
    <3> QED BY <1>2, <1>3, <1>10, <1>12, <2>1, <3>1, <3>2, LostStays
  <2>3. Leasing /\ Calling /\ Closing /\ resident' \in {resident, 0}
    BY <1>1, <1>5, CallersStay DEF Closing, Drops
  <2> QED BY <2>2, <2>3, Keeps
<1>13. CASE ~(owner = "lost" /\ Live(t))
  <2>1. UNCHANGED tenures
    BY <1>5, <1>13 DEF Live
  <2> QED BY <1>1, <1>2, <1>5, <1>9, <1>10, <1>11, <2>1, EntryKeeps, CallersStay
<1> QED BY <1>12, <1>13

-----------------------------------------------------------------------------
(* The steps of the host and of a tenure's park. *)

(* A tenure can only be succeeded once everything of it is off the log. *)
LEMMA MayActivateAlone ==
  ASSUME IInv, WInv, MayActivate, NEW e \in Entries, Made(e)
  PROVE  /\ OffLog(entries[e])
         /\ entries[e].tenure = current => /\ entries[e].busy = {} /\ entries[e].load \in PastHooks
                                           /\ entries[e].writing => Tenure(e).state \in {"revoked", "lost"}
                                           /\ Tenure(e).state \notin {"active", "parking"}
<1> DEFINE r == entries[e]
<1>1. Held(r, Leased(e), Tenure(e)) /\ Tenure(e) \in TenureType /\ r.tenure \in Tenures /\ r.tenure # 0
  BY IsHeld DEF Made
<1>2. r.tenure # current => OffLog(r)
  BY DEF WInv, Tenancy
<1>3. ASSUME r.tenure = current
      PROVE  /\ OffLog(r) /\ r.busy = {} /\ r.load \in PastHooks
             /\ r.writing => Tenure(e).state \in {"revoked", "lost"}
             /\ Tenure(e).state \notin {"active", "parking"}
  <2>1. Tenure(e).state \in {"released", "revoked", "lost"}
    BY <1>1, <1>3 DEF MayActivate, Held, Under, Tenure, TenureType
  <2>2. CASE ~r.retained
    BY <1>1, <2>1, <2>2 DEF Held, Fit, RetainedFits, Under
  <2>3. CASE r.retained
    <3>1. Settled(r) /\ ~RuntimeUnsafe(r)
      BY <1>1, <1>3, <2>3 DEF MayActivate, Retained
    <3>2. r.load \in PastHooks /\ r.load \in Loaded
      BY <3>1 DEF Settled, PastHooks, Loaded
    <3>3. Tenure(e).state \in {"revoked", "lost"}
      BY <1>1, <2>1, <2>3 DEF Held, Under
    <3>4. OffLog(r) /\ r.busy = {}
      BY <1>1, <3>1, <3>2, <3>3 DEF Held, Fit, LoadFits, BareFits, Under, OffLog, RuntimeUnsafe, Settled
    <3> QED BY <2>1, <3>2, <3>3, <3>4
  <2> QED BY <2>2, <2>3
<1> QED BY <1>2, <1>3

LEMMA ActivateKeeps == ASSUME IInv, WInv, IInv', Activate PROVE WInv'
<1>1. PICK t \in Tenures : Opened(t, FALSE)
  BY DEF Activate
<1>2. /\ MayActivate /\ UNCHANGED <<resident, shutdown, callers>>
      /\ entries' = [e \in Entries |->
           IF entries[e].tenure = current THEN [entries[e] EXCEPT !.retained = FALSE] ELSE entries[e]]
  BY DEF Activate, Cleared
<1>3. /\ Lapsing /\ Pendings' /\ current' = t /\ tenures[t].state = "none"
      /\ \A u \in Tenures : tenures[u].state # "none" => tenures'[u] = tenures[u]
      /\ \A e \in Entries : Made(e) => Later(e) = Tenure(e)
  BY <1>1, OpenedStays
<1>4. ASSUME NEW e \in Entries, Made(e)
      PROVE  Serves(entries[e], entries'[e], Leased(e), Later(e))
  <2>1. CASE entries[e].tenure = current
    <3>1. entries'[e] = [entries[e] EXCEPT !.retained = FALSE]
      BY <1>2, <2>1
    <3>2. /\ OffLog(entries[e]) /\ entries[e].busy = {} /\ entries[e].load \in PastHooks
          /\ entries[e].writing => Tenure(e).state \in {"revoked", "lost"}
      BY <1>2, <1>4, <2>1, MayActivateAlone
    <3> QED BY <1>3, <1>4, <3>1, <3>2, IsHeld, Clears
  <2>2. CASE entries[e].tenure # current
    BY <1>2, <1>3, <1>4, <2>2, UnchangedServes
  <2> QED BY <2>1, <2>2
<1>5. \A e \in Entries : Made(e)' => Made(e)
  <2> SUFFICES ASSUME NEW e \in Entries, entries'[e].tenure # 0
               PROVE  entries[e].tenure # 0
    BY DEF Made
  <2>1. [entries[e] EXCEPT !.retained = FALSE].tenure = entries[e].tenure
    BY DEF IInv, TypeOK, EntryType
  <2> QED BY <1>2, <2>1
<1>6. Turning
  <2>1. \A e \in Entries : Made(e) => OffLog(entries'[e])
    BY <1>2, <1>4, MayActivateAlone DEF Serves, Advances
  <2> QED BY <1>3, <2>1 DEF Turning
<1>7. Remaining
  <2> SUFFICES ASSUME resident # 0
               PROVE  Remaining
    BY <1>2 DEF Remaining
  <2> DEFINE r == entries[resident]  s == entries'[resident]
  <2>1. resident \in Entries /\ Made(resident)
    BY DEF IInv, TypeOK, ResidentInv, Made
  <2>2. Advances(r, s) /\ r.load # "recovering" /\ Later(resident) = Tenure(resident)
    BY <1>2, <1>3, <1>4, <2>1, MayActivateAlone DEF Serves, OffLog, Loaded
  <2>3. r.failure # "lost"
    <3>1. r.failure = "lost" => r.tenure = current /\ Live(current)
      BY <2>1 DEF WInv, Residency
    <3> QED BY <1>2, <2>1, <3>1, MayActivateAlone DEF Live, Tenure
  <2>4. tenures[r.tenure].state = "revoked" => ~r.retained
    BY <2>1 DEF WInv, Residency
  <2> HIDE DEF r, s
  <2>5. s.failure # "lost" /\ (tenures'[s.tenure].state = "revoked" => ~s.retained)
    BY <2>2, <2>3, <2>4 DEF Advances, Later, Tenure, r
  <2> QED BY <2>5 DEF Remaining, s
<1>8. Leaving /\ Closing /\ Leasing /\ Calling /\ resident' \in {resident, 0}
  BY <1>2, CallersStay DEF Leaving, Closing
<1> QED BY <1>3, <1>4, <1>5, <1>6, <1>7, <1>8, Keeps DEF Serving

LEMMA ShutdownKeeps == ASSUME IInv, WInv, IInv', ShutdownBegins \/ ShutdownEnds PROVE WInv'
<1>1. CASE ShutdownBegins
  BY <1>1, NothingKeeps, CallersStay DEF ShutdownBegins, Closing
<1>2. CASE ShutdownEnds
  <2>1. /\ UNCHANGED <<tenures, current, entries, callers>> /\ resident' = 0 /\ shutdown' = "done"
        /\ \A e \in Entries : entries[e].retained =>
             \/ entries[e].load \in {"failed", "done"} \/ entries[e].activity = "disposed"
    BY <1>2 DEF ShutdownEnds
  <2>2. Serving
    BY <2>1, UnchangedServes, TenuresStay DEF Serving
  <2>3. \A e \in Entries : Made(e) => entries[e].load \in Loaded
    <3> SUFFICES ASSUME NEW e \in Entries, Made(e)
                 PROVE  entries[e].load \in Loaded
      OBVIOUS
    <3> QED BY <2>1, IsHeld DEF Held, Fit, RetainedFits, DisposalFits, OffLog, Loaded, PastHooks
  <2>4. Leaving
    <3>1. resident # 0 => resident \in Entries /\ Made(resident)
      BY DEF IInv, TypeOK, ResidentInv, Made
    <3> QED BY <2>1, <2>3, <3>1 DEF Leaving, AdmittedNext
  <2>5. Remaining /\ Closing
    BY <2>1 DEF Remaining, Closing
  <2> QED BY <2>1, <2>2, <2>4, <2>5, TenuresStay, CallersStay, Keeps DEF Made
<1> QED BY <1>1, <1>2

(* A resident session whose log is found lost, now or by the recovery under way, is of the current tenure. *)
LEMMA ResidentLost ==
  ASSUME IInv, WInv, resident # 0, entries[resident].failure = "lost" \/ entries[resident].load = "recovering"
  PROVE  /\ entries[resident].retained /\ entries[resident].tenure = current /\ Live(current)
         /\ ~entries[resident].runtime /\ entries[resident].activity \notin Stopped
<1> DEFINE r == entries[resident]
<1>1. resident \in Entries /\ Made(resident)
  BY DEF IInv, TypeOK, ResidentInv, Made
<1>2. Held(r, Leased(resident), Tenure(resident)) /\ Tenure(resident) \in TenureType
  BY <1>1, IsHeld
<1>3. r.retained /\ r.tenure = current
  <2>1. CASE r.failure = "lost"
    BY <1>1, <2>1 DEF WInv, Residency
  <2>2. CASE r.load = "recovering"
    <3>1. ~OffLog(r)
      BY <2>2 DEF OffLog, Loaded
    <3> QED BY <1>1, <1>2, <3>1 DEF WInv, Tenancy, Held, Fit, RetainedFits
  <2> QED BY <2>1, <2>2
<1>4. tenures[r.tenure].state # "revoked"
  BY <1>1, <1>3 DEF WInv, Residency
<1>5. Live(current)
  <2>1. CASE r.failure = "lost"
    BY <1>1, <2>1 DEF WInv, Residency
  <2>2. CASE r.load = "recovering"
    <3>1. ~OffLog(r)
      BY <2>2 DEF OffLog, Loaded
    <3> QED BY <1>2, <1>3, <1>4, <3>1 DEF Held, Under, Tenure, TenureType, Live
  <2> QED BY <2>1, <2>2
<1>6. ~r.runtime
  BY <1>2 DEF Held, Fit, LoadFits, Loaded
<1>7. r.activity \notin Stopped
  BY <1>2, <1>3, <1>4, <1>6 DEF Held, Fit, BareFits, Under, Tenure, Stopped
<1> QED BY <1>3, <1>5, <1>6, <1>7

LEMMA StaysResident ==
  ASSUME IInv, WInv, UNCHANGED <<current, resident>>, Serving,
         \A u \in Tenures : tenures'[u].state = "revoked" => tenures[u].state = "revoked",
         resident # 0 /\ (entries[resident].failure = "lost" \/ entries[resident].load = "recovering") =>
           Steady(entries[resident], entries'[resident]) /\ Live(current)'
  PROVE  Remaining /\ Leaving
<1> SUFFICES ASSUME resident # 0
             PROVE  Remaining
  BY DEF Remaining, Leaving
<1> DEFINE r == entries[resident]  s == entries'[resident]
<1>1. resident \in Entries /\ Made(resident)
  BY DEF IInv, TypeOK, ResidentInv, Made
<1>2. Advances(r, s) /\ r.tenure \in Tenures
  BY <1>1, IsHeld DEF Serving, Serves
<1>3. tenures[r.tenure].state = "revoked" => ~r.retained
  BY <1>1 DEF WInv, Residency
<1> QED BY <1>2, <1>3 DEF Remaining, Advances

LEMMA BeginParkKeeps == ASSUME IInv, WInv, IInv', NEW t \in Tenures, BeginPark(t) PROVE WInv'
<1> DEFINE live == {e \in Retained(t) : entries[e].activity # "disposed"}
<1>1. /\ current = t /\ tenures[t].state \in {"active", "parking"} /\ tenures[t].park = "none"
      /\ UNCHANGED <<current, resident, shutdown, callers>>
  BY DEF BeginPark
<1>2. PICK state \in {"parking", "released"}, park \in {"terminal", "resolved", "pending"} :
        /\ tenures' = [tenures EXCEPT ![t].state = state, ![t].park = park]
        /\ \/ state = "parking" /\ park = "terminal" /\ UNCHANGED entries
           \/ /\ state = "released" /\ park = "resolved" /\ entries' = Cleared(t) /\ live = {}
              /\ \A e \in Retained(t) : e \notin live => ~RuntimeUnsafe(entries[e])
           \/ /\ state = "parking" /\ park = "pending"
              /\ entries' = [e \in Entries |->
                   IF e \in live /\ entries[e].job = "none" THEN ParkStarts(entries[e]) ELSE entries[e]]
  BY DEF BeginPark
<1>3. /\ tenures'[t].state = state /\ tenures'[t].park = park /\ tenures'[t] \in TenureType
      /\ \A u \in Tenures : u # t => tenures'[u] = tenures[u]
  BY <1>2 DEF IInv, TypeOK, TenureType
<1>4. ASSUME NEW e \in Entries, Made(e)
      PROVE  /\ Serves(entries[e], entries'[e], Leased(e), Later(e))
             /\ state = "parking" => Steady(entries[e], entries'[e])
  <2> DEFINE r == entries[e]
  <2>1. /\ Held(r, Leased(e), Tenure(e)) /\ Leased(e) \in BOOLEAN /\ Tenure(e) \in TenureType
        /\ r.tenure \in Tenures
    BY <1>4, IsHeld
  <2>2. CASE r.tenure # t
    <3>1. Later(e) = Tenure(e) /\ entries'[e] = r
      BY <1>2, <1>3, <2>1, <2>2 DEF Later, Tenure, Cleared, Retained
    <3> QED BY <1>4, <3>1, UnchangedServes
  <2>3. CASE r.tenure = t
    <3>1. Tenure(e) = tenures[t] /\ Later(e) = tenures'[t]
      BY <2>3 DEF Later, Tenure
    <3>2. CASE state = "parking" /\ park = "terminal" /\ UNCHANGED entries
      BY <1>1, <1>3, <1>4, <2>1, <3>1, <3>2, ParkPasses, UnchangedServes
    <3>3. CASE state = "released"
      <4>1. entries'[e] = [r EXCEPT !.retained = FALSE]
        BY <1>2, <2>3, <3>3 DEF Cleared
      <4>2. r.retained => r.activity = "disposed" /\ ~RuntimeUnsafe(r)
        BY <1>2, <2>3, <3>3 DEF Retained
      <4>3. OffLog(r) /\ r.busy = {} /\ r.load \in PastHooks /\ ~r.writing
        <5>1. CASE ~r.retained
          BY <1>1, <2>1, <3>1, <5>1 DEF Held, Fit, RetainedFits, Under
        <5>2. CASE r.retained
          <6>1. r.runtime
            BY <2>1, <4>2, <5>2 DEF Held, Fit, BareFits
          <6> QED BY <2>1, <4>2, <5>2, <6>1
                  DEF Held, Fit, LoadFits, StoreFits, DisposalFits, RuntimeUnsafe, OffLog, Stopped
        <5> QED BY <5>1, <5>2
      <4> QED BY <1>1, <1>3, <2>1, <3>1, <3>3, <4>1, <4>3, Clears
    <3>4. CASE /\ state = "parking" /\ park = "pending" /\ e \in live /\ r.job = "none"
               /\ entries'[e] = ParkStarts(r)
      <4>1. r.retained
        BY <3>4 DEF Retained
      <4> QED BY <1>1, <1>3, <2>1, <3>1, <3>4, <4>1, ParkBegins
    <3>5. CASE /\ state = "parking" /\ park = "pending" /\ ~(e \in live /\ r.job = "none")
               /\ entries'[e] = r
      <4>1. r.retained => r.job # "none" \/ r.activity = "disposed"
        BY <2>3, <3>5 DEF Retained
      <4> QED BY <1>1, <1>3, <1>4, <2>1, <3>1, <3>5, <4>1, ParkPasses, UnchangedServes
    <3> HIDE DEF live
    <3> QED BY <1>2, <3>2, <3>3, <3>4, <3>5
  <2> QED BY <2>2, <2>3
<1>5. Serving
  BY <1>4 DEF Serving
<1>6. Lapsing /\ Pendings'
  <2>1. \A u \in Tenures : tenures'[u].state = "revoked" => tenures[u].state = "revoked"
    BY <1>3
  <2> QED BY <1>1, <1>2, <1>3 DEF Lapsing, Pendings, WInv
<1>7. \A e \in Entries : Made(e)' => Made(e)
  <2> SUFFICES ASSUME NEW e \in Entries, ~Made(e)
               PROVE  entries'[e].tenure = 0
    BY DEF Made
  <2>1. entries[e] = NoEntry /\ e \notin Retained(t) /\ entries[e].tenure # t
    BY Distinct DEF Made, IInv, Local, Retained, NoEntry
  <2> QED BY <1>2, <2>1 DEF Cleared, NoEntry
<1>8. Remaining /\ Leaving
  <2>1. \A u \in Tenures : tenures'[u].state = "revoked" => tenures[u].state = "revoked"
    BY <1>3
  <2>2. ASSUME resident # 0, entries[resident].failure = "lost" \/ entries[resident].load = "recovering"
        PROVE  Steady(entries[resident], entries'[resident]) /\ Live(current)'
    <3>1. resident \in Entries /\ Made(resident)
      BY <2>2 DEF IInv, TypeOK, ResidentInv, Made
    <3>2. resident \in live
      BY <1>1, <2>2, <3>1, ResidentLost DEF Retained, Stopped
    <3>3. state = "parking"
      BY <1>2, <3>2
    <3> QED BY <1>1, <1>3, <1>4, <3>1, <3>3 DEF Live
  <2> QED BY <1>1, <1>5, <2>1, <2>2, StaysResident
<1> QED BY <1>1, <1>5, <1>6, <1>7, <1>8, CallersStay, Keeps DEF Turning, Closing

(* A revocation stops every runtime of the tenure and takes its session out of the cache. *)
LEMMA RevokeSessionKeeps == ASSUME IInv, WInv, IInv', NEW t \in Tenures, RevokeSession(t) PROVE WInv'
<1>1. /\ current = t /\ UNCHANGED <<current, shutdown, callers>>
      /\ tenures' = [tenures EXCEPT ![t].state = "revoked"]
      /\ entries' = [e \in Entries |->
           IF e \notin Retained(t) THEN entries[e]
           ELSE IF entries[e].runtime THEN Forgotten(Revoked(entries[e]))
           ELSE Revoked(entries[e])]
      /\ resident' = IF resident \in Retained(t) THEN 0 ELSE resident
  BY DEF RevokeSession
<1>2. /\ tenures'[t].state = "revoked" /\ tenures'[t] \in TenureType
      /\ \A u \in Tenures : u # t => tenures'[u] = tenures[u]
  BY <1>1 DEF IInv, TypeOK, TenureType
<1>3. Serving
  <2> SUFFICES ASSUME NEW e \in Entries, Made(e)
               PROVE  Serves(entries[e], entries'[e], Leased(e), Later(e))
    BY DEF Serving
  <2> DEFINE r == entries[e]
  <2>1. /\ Held(r, Leased(e), Tenure(e)) /\ Leased(e) \in BOOLEAN /\ Tenure(e) \in TenureType
        /\ r.tenure \in Tenures
    BY IsHeld
  <2>2. CASE r.tenure # t
    <3>1. Later(e) = Tenure(e) /\ entries'[e] = r
      BY <1>1, <1>2, <2>1, <2>2 DEF Later, Tenure, Retained
    <3> QED BY <3>1, UnchangedServes
  <2>3. CASE r.tenure = t
    <3>1. Later(e) \in TenureType /\ Later(e).state = "revoked"
      BY <1>2, <2>3 DEF Later
    <3>2. CASE ~r.retained
      <4>1. entries'[e] = r
        BY <1>1, <3>2 DEF Retained
      <4> QED BY <2>1, <3>1, <3>2, <4>1, RevokedAlready
    <3>3. CASE r.retained /\ ~r.runtime
      <4>1. entries'[e] = Revoked(r)
        BY <1>1, <2>3, <3>3 DEF Retained
      <4> QED BY <2>1, <3>1, <3>3, <4>1, Revokes
    <3>4. CASE r.retained /\ r.runtime
      <4>1. entries'[e] = Forgotten(Revoked(r))
        BY <1>1, <2>3, <3>4 DEF Retained
      <4>2. Serves(r, Revoked(r), Leased(e), Later(e))
        BY <2>1, <3>1, <3>4, Revokes
      <4>3. r.load \in Loaded
        BY <2>1, <3>4 DEF Held, Fit, LoadFits
      <4>4. Revoked(r) \in EntryType
        <5>1. Good(r)
          BY <3>4, MadeIsGood DEF NoEntry
        <5> QED BY <5>1, RevokedMoves DEF Good
      <4>5. Held(Revoked(r), Leased(e), Later(e)) /\ Revoked(r).load \in Loaded
        BY <2>1, <3>1, <4>2, <4>3, <4>4, ServesHeld DEF Serves, Advances
      <4>6. Serves(Revoked(r), Forgotten(Revoked(r)), Leased(e), Later(e))
        BY <2>1, <3>1, <4>5, ForgottenServes
      <4> QED BY <2>1, <3>1, <4>1, <4>2, <4>3, <4>6, ServesTransitive
    <3> QED BY <2>1, <3>2, <3>3, <3>4 DEF Held, EntryType
  <2> QED BY <2>2, <2>3
<1>4. \A e \in Entries : Made(e)' => Made(e)
  <2> SUFFICES ASSUME NEW e \in Entries, ~Made(e)
               PROVE  entries'[e].tenure = 0
    BY DEF Made
  <2>1. e \notin Retained(t) /\ entries[e].tenure = 0
    BY Distinct DEF Made, Retained
  <2> QED BY <1>1, <2>1
<1>5. Lapsing /\ Pendings' /\ Turning /\ Closing /\ resident' \in {resident, 0}
  BY <1>1, <1>2 DEF Lapsing, Pendings, WInv, Turning, Closing
<1>6. Leaving
  <2> SUFFICES ASSUME resident # 0, resident' = 0
               PROVE  /\ tenures'[entries'[resident].tenure].state = "revoked" /\ ~Live(current)'
                      /\ ~AdmittedNext(entries'[resident].tenure)
    BY DEF Leaving
  <2>1. resident \in Retained(t) /\ resident \in Entries /\ Made(resident)
    BY <1>1 DEF IInv, TypeOK, ResidentInv, Made
  <2>2. entries'[resident].tenure = t
    BY <1>3, <2>1 DEF Serving, Serves, Advances, Retained
  <2> QED BY <1>1, <1>2, <2>2 DEF AdmittedNext, Live
<1>7. Remaining
  <2> SUFFICES ASSUME resident' # 0
               PROVE  /\ tenures'[entries'[resident].tenure].state = "revoked" => ~entries'[resident].retained
                      /\ entries'[resident].failure # "lost"
    BY <1>1 DEF Remaining
  <2>1. resident \in Entries /\ Made(resident) /\ resident # 0 /\ resident \notin Retained(t)
    BY <1>1 DEF IInv, TypeOK, ResidentInv, Made
  <2>2. entries'[resident] = entries[resident] /\ entries[resident].tenure \in Tenures
    BY <1>1, <2>1, IsHeld
  <2>3. entries[resident].tenure = t => ~entries[resident].retained
    BY <2>1 DEF Retained
  <2>4. entries[resident].failure = "lost" => entries[resident].retained /\ entries[resident].tenure = t
    BY <1>1, <2>1 DEF WInv, Residency
  <2>5. tenures[entries[resident].tenure].state = "revoked" => ~entries[resident].retained
    BY <2>1 DEF WInv, Residency
  <2> QED BY <1>2, <2>2, <2>3, <2>4, <2>5
<1> QED BY <1>1, <1>3, <1>4, <1>5, <1>6, <1>7, CallersStay, Keeps

(* A park that resolves lets go of the tenure: every runtime of it is parked. *)
LEMMA ParkResolvesKeeps == ASSUME IInv, WInv, IInv', NEW t \in Tenures, ParkResolves(t) PROVE WInv'
<1>1. /\ tenures[t].park = "pending" /\ UNCHANGED <<current, resident, shutdown, callers>>
      /\ \A e \in Jobs(t) : entries[e].job = "done"
  BY DEF ParkResolves
<1>2. PICK state \in {tenures[t].state, "released"}, park \in {"none", "terminal", "resolved"} :
        /\ tenures' = [tenures EXCEPT ![t].state = state, ![t].park = park]
        /\ \/ state = tenures[t].state /\ UNCHANGED entries
           \/ /\ state = "released" /\ tenures[t].state = "parking" /\ entries' = Cleared(t)
              /\ \A e \in Retained(t) : ~RuntimeUnsafe(entries[e])
  <2>1. tenures[t] \in TenureType
    BY DEF IInv, TypeOK
  <2>2. \A p \in {"none", "terminal"} :
          [tenures EXCEPT ![t].park = p] = [tenures EXCEPT ![t].state = tenures[t].state, ![t].park = p]
    BY <2>1 DEF TenureType, IInv, TypeOK
  <2>3. CASE tenures[t].state = "parking" /\ \A e \in Retained(t) : ~RuntimeUnsafe(entries[e])
    <3> WITNESS "released" \in {tenures[t].state, "released"}
    <3> WITNESS "resolved" \in {"none", "terminal", "resolved"}
    <3> QED BY <2>3 DEF ParkResolves
  <2>4. CASE ~(tenures[t].state = "parking" /\ \A e \in Retained(t) : ~RuntimeUnsafe(entries[e]))
    <3>1. PICK p \in {"none", "terminal"} : tenures' = [tenures EXCEPT ![t].park = p] /\ UNCHANGED entries
      BY <2>4 DEF ParkResolves
    <3> WITNESS tenures[t].state \in {tenures[t].state, "released"}
    <3> WITNESS p \in {"none", "terminal", "resolved"}
    <3> QED BY <2>2, <3>1
  <2> QED BY <2>3, <2>4
<1>3. /\ tenures'[t].state = state /\ tenures'[t].park = park /\ tenures'[t] \in TenureType
      /\ \A u \in Tenures : u # t => tenures'[u] = tenures[u]
  BY <1>2 DEF IInv, TypeOK, TenureType
<1>4. ASSUME NEW e \in Entries, Made(e)
      PROVE  /\ Serves(entries[e], entries'[e], Leased(e), Later(e))
             /\ (entries[e].failure = "lost" \/ entries[e].load = "recovering") /\ state = "released" =>
                  entries[e].tenure # t \/ ~entries[e].retained
             /\ entries'[e] = entries[e] \/ (state = "released" /\ entries[e].tenure = t)
  <2> DEFINE r == entries[e]
  <2>1. /\ Held(r, Leased(e), Tenure(e)) /\ Leased(e) \in BOOLEAN /\ Tenure(e) \in TenureType
        /\ r.tenure \in Tenures
    BY <1>4, IsHeld
  <2>2. CASE r.tenure # t
    <3>1. Later(e) = Tenure(e) /\ entries'[e] = r
      BY <1>2, <1>3, <2>1, <2>2 DEF Later, Tenure, Cleared
    <3> QED BY <1>4, <2>2, <3>1, UnchangedServes
  <2>3. CASE r.tenure = t
    <3>1. Tenure(e) = tenures[t] /\ Later(e) = tenures'[t]
      BY <2>3 DEF Later, Tenure
    <3>2. CASE state = tenures[t].state /\ UNCHANGED entries
      <4>1. Serves(r, r, Leased(e), Later(e))
        BY <1>3, <2>1, <3>1, <3>2, ParkClosed
      <4>2. tenures[t].state # "released" \/ ~r.retained
        BY <2>1, <3>1 DEF Held, Under
      <4> QED BY <3>2, <4>1, <4>2
    <3>3. CASE /\ state = "released" /\ tenures[t].state = "parking" /\ entries' = Cleared(t)
               /\ \A f \in Retained(t) : ~RuntimeUnsafe(entries[f])
      <4>1. entries'[e] = [r EXCEPT !.retained = FALSE]
        BY <2>3, <3>3 DEF Cleared
      <4>2. r.retained => ~RuntimeUnsafe(r)
        BY <2>3, <3>3 DEF Retained
      <4>3. r.job \in {"none", "done"}
        BY <1>1, <2>3 DEF Jobs
      <4>4. ASSUME r.retained
            PROVE  OffLog(r) /\ r.busy = {} /\ r.load \in PastHooks /\ ~r.writing /\ r.failure # "lost"
        <5>1. r.job = "done" \/ r.activity = "disposed"
          BY <1>1, <2>1, <3>1, <3>3, <4>3, <4>4 DEF Held, Under
        <5>2. CASE r.runtime
          BY <2>1, <4>2, <4>4, <5>1, <5>2
             DEF Held, Fit, LoadFits, StoreFits, DisposalFits, JobFits, RuntimeUnsafe, OffLog, Stopped, Settled,
                 PastHooks, Loaded
        <5>3. CASE ~r.runtime
          BY <2>1, <4>4, <5>1, <5>3
             DEF Held, Fit, LoadFits, BareFits, DisposalFits, JobFits, OffLog, Stopped, Settled, PastHooks, Loaded
        <5> QED BY <2>1, <5>2, <5>3 DEF Held, EntryType
      <4>5. ASSUME ~r.retained
            PROVE  OffLog(r) /\ r.busy = {} /\ r.load \in PastHooks /\ ~r.writing
        BY <2>1, <3>1, <3>3, <4>5 DEF Held, Fit, RetainedFits, Under
      <4>6. OffLog(r) /\ r.busy = {} /\ r.load \in PastHooks /\ ~r.writing
        BY <2>1, <4>4, <4>5 DEF Held, EntryType
      <4>7. Serves(r, [r EXCEPT !.retained = FALSE], Leased(e), Later(e))
        BY <1>3, <2>1, <3>1, <3>3, <4>6, Clears
      <4>8. r.load # "recovering"
        BY <4>6 DEF PastHooks
      <4> QED BY <2>3, <3>3, <4>1, <4>4, <4>7, <4>8
    <3> QED BY <1>2, <3>2, <3>3
  <2> QED BY <2>2, <2>3
<1>5. Serving
  BY <1>4 DEF Serving
<1>6. /\ Lapsing /\ Pendings' /\ Turning /\ Closing
      /\ \A u \in Tenures : tenures'[u].state = "revoked" => tenures[u].state = "revoked"
  <2>1. state \in {tenures[t].state, "released"} /\ park # "pending" /\ (state = "released" => tenures[t].state # "revoked")
    <3>1. CASE tenures[t].state = "parking"
      BY <1>2, <3>1
    <3>2. CASE tenures[t].state # "parking"
      BY <1>2, <3>2
    <3> QED BY <1>2, <3>1, <3>2
  <2> QED BY <1>1, <1>3, <2>1 DEF Lapsing, Pendings, WInv, Turning, Closing
<1>7. \A e \in Entries : Made(e)' => Made(e)
  <2> SUFFICES ASSUME NEW e \in Entries, ~Made(e)
               PROVE  entries'[e].tenure = 0
    BY DEF Made
  <2>1. entries[e].tenure = 0 /\ entries[e].tenure # t
    BY Distinct DEF Made
  <2> QED BY <1>2, <2>1 DEF Cleared
<1>8. Remaining /\ Leaving
  <2> SUFFICES ASSUME resident # 0, entries[resident].failure = "lost" \/ entries[resident].load = "recovering"
               PROVE  Steady(entries[resident], entries'[resident]) /\ Live(current)'
    BY <1>1, <1>5, <1>6, StaysResident
  <2>1. resident \in Entries /\ Made(resident)
    BY DEF IInv, TypeOK, ResidentInv, Made
  <2>2. entries[resident].retained /\ entries[resident].tenure = current /\ Live(current)
    BY ResidentLost
  <2>3. ~(state = "released" /\ entries[resident].tenure = t)
    BY <1>4, <2>1, <2>2
  <2>4. entries'[resident] = entries[resident] /\ Steady(entries[resident], entries[resident])
    BY <1>4, <2>1, <2>3, UnchangedServes
  <2>5. Live(current)'
    <3>1. current \in Tenures
      BY <2>1, <2>2, IsHeld
    <3> QED BY <1>1, <1>2, <1>3, <2>2, <2>3, <3>1 DEF Live
  <2> QED BY <2>4, <2>5
<1> QED BY <1>1, <1>5, <1>6, <1>7, <1>8, CallersStay, Keeps

(* A park that fails changes no runtime. *)
LEMMA ParkRejectsKeeps == ASSUME IInv, WInv, IInv', NEW t \in Tenures, ParkRejects(t) PROVE WInv'
<1>1. UNCHANGED <<current, resident, shutdown, callers>>
  BY DEF ParkRejects
<1>2. PICK again \in BOOLEAN, park \in {"none", "terminal"} :
        /\ tenures' = [tenures EXCEPT ![t].park = park]
        /\ entries' = [f \in Entries |->
             IF again /\ f \in Jobs(t) /\ entries[f].job \in {"done", "failed"}
             THEN [entries[f] EXCEPT !.job = "none"] ELSE entries[f]]
  BY DEF ParkRejects
<1>3. /\ tenures'[t].state = tenures[t].state /\ tenures'[t].park = park /\ tenures'[t] \in TenureType
      /\ \A u \in Tenures : u # t => tenures'[u] = tenures[u]
  BY <1>2 DEF IInv, TypeOK, TenureType
<1>4. ASSUME NEW e \in Entries, Made(e)
      PROVE  Serves(entries[e], entries'[e], Leased(e), Later(e)) /\ Steady(entries[e], entries'[e])
  <2> DEFINE r == entries[e]
  <2>1. /\ Held(r, Leased(e), Tenure(e)) /\ Leased(e) \in BOOLEAN /\ Tenure(e) \in TenureType
        /\ r.tenure \in Tenures
    BY <1>4, IsHeld
  <2>2. CASE r.tenure # t
    <3>1. Later(e) = Tenure(e) /\ entries'[e] = r
      BY <1>2, <1>3, <2>1, <2>2 DEF Later, Tenure, Jobs
    <3> QED BY <1>4, <3>1, UnchangedServes
  <2>3. CASE r.tenure = t
    <3>1. /\ Later(e) \in TenureType /\ Later(e).state = Tenure(e).state /\ Later(e).park # "pending"
      BY <1>3, <2>3 DEF Later, Tenure
    <3>2. CASE again /\ e \in Jobs(t) /\ r.job \in {"done", "failed"}
      <4>1. entries'[e] = [r EXCEPT !.job = "none"]
        BY <1>2, <3>2
      <4> QED BY <2>1, <3>1, <3>2, <4>1, ParkAgain
    <3>3. CASE ~(again /\ e \in Jobs(t) /\ r.job \in {"done", "failed"})
      <4>1. entries'[e] = r
        BY <1>2, <3>3
      <4> QED BY <1>4, <2>1, <3>1, <4>1, ParkClosed, UnchangedServes
    <3> QED BY <3>2, <3>3
  <2> QED BY <2>2, <2>3
<1>5. Serving
  BY <1>4 DEF Serving
<1>6. /\ Lapsing /\ Pendings' /\ Turning /\ Closing
      /\ \A u \in Tenures : tenures'[u].state = tenures[u].state
  BY <1>1, <1>3 DEF Lapsing, Pendings, WInv, Turning, Closing
<1>7. \A e \in Entries : Made(e)' => Made(e)
  <2> SUFFICES ASSUME NEW e \in Entries, ~Made(e)
               PROVE  entries'[e].tenure = 0
    BY DEF Made
  <2>1. entries[e].tenure = 0 /\ e \notin Jobs(t)
    BY Distinct DEF Made, Jobs
  <2> QED BY <1>2, <2>1
<1>8. Remaining /\ Leaving
  <2> SUFFICES ASSUME resident # 0, entries[resident].failure = "lost" \/ entries[resident].load = "recovering"
               PROVE  Steady(entries[resident], entries'[resident]) /\ Live(current)'
    BY <1>1, <1>5, <1>6, StaysResident
  <2>1. resident \in Entries /\ Made(resident)
    BY DEF IInv, TypeOK, ResidentInv, Made
  <2>2. Live(current) /\ current \in Tenures
    BY <2>1, ResidentLost, IsHeld
  <2> QED BY <1>1, <1>4, <1>6, <2>1, <2>2 DEF Live
<1> QED BY <1>1, <1>5, <1>6, <1>7, <1>8, CallersStay, Keeps

-----------------------------------------------------------------------------
(* Nothing is made, asked for or parked yet. *)
LEMMA WriterHolds == Init => WInv
  BY Distinct DEF Init, NoTenure, NoEntry, Idle, WInv, Fits, Leases, Tenancy, Pendings, Order, Residency, Calls,
                  UnderWay, Made

(* Every action keeps it. *)
LEMMA NextKeeps == IInv /\ WInv /\ [Next]_vars => WInv'
<1> SUFFICES ASSUME IInv, WInv, [Next]_vars PROVE WInv'
  OBVIOUS
<1>1. IInv'
  BY NextStep DEF Step
<1>2. CASE Host \/ ShutdownEnds
  BY <1>1, <1>2, ActivateKeeps, ShutdownKeeps, BeginParkKeeps, RevokeSessionKeeps DEF Host
<1>3. ASSUME NEW t \in Tenures, ParkResolves(t) \/ ParkRejects(t)
      PROVE  WInv'
  BY <1>1, <1>3, ParkResolvesKeeps, ParkRejectsKeeps
<1>4. ASSUME NEW c \in Callers, Ask(c) \/ CallerStep(c) \/ CloseSession(c)
      PROVE  WInv'
  BY <1>1, <1>4, AskKeeps, LookupEvictsKeeps, UnloadedKeeps, LoadAwaitedKeeps, LoadAwaitFailsKeeps, AcquireKeeps,
     DeliverKeeps, CloseSessionKeeps DEF CallerStep
<1>5. ASSUME NEW e \in Entries, Load(e)
      PROVE  WInv'
  BY <1>1, <1>5, LoadReadsKeeps, LoadBuildsKeeps, RecoveredKeeps, RecoveryFailsKeeps, CreateAppendsKeeps,
     CreateLandsKeeps, SessionStartsKeeps, HooksEndKeeps, HooksThrowKeeps, UnwoundKeeps DEF Load
<1>6. ASSUME NEW e \in Entries, Park(e)
      PROVE  WInv'
  BY <1>1, <1>6, ParkLoadedKeeps, ParkUnloadedKeeps, ParkHooksEndKeeps, ParkDrainsKeeps, ParkCleanupEndsKeeps,
     ParkSettlesKeeps DEF Park
<1>7. ASSUME NEW e \in Entries, Disposal(e) \/ SweepBegins(e) \/ ShutdownDisposes(e) \/ Forget(e)
      PROVE  WInv'
  BY <1>1, <1>7, SweepDisposesKeeps, DisposalStartsKeeps, DisposalEndsKeeps, SweepBeginsKeeps,
     ShutdownDisposesKeeps, ForgetKeeps DEF Disposal
<1>8. ASSUME NEW e \in Entries, WriteStarts(e) \/ WriteSettles(e) \/ WriteFences(e) \/ CleanupEnds(e)
      PROVE  WInv'
  BY <1>1, <1>8, WriteStartsKeeps, WriteSettlesKeeps, WriteFencesKeeps, CleanupEndsKeeps
<1>9. CASE UNCHANGED vars
  BY <1>1, <1>9, NothingKeeps, CallersStay DEF vars, Closing
<1> QED BY <1>2, <1>3, <1>4, <1>5, <1>6, <1>7, <1>8, <1>9 DEF Next

(* WInv holds initially and every action keeps it. *)
THEOREM WriterInvariant == Spec => [](IInv /\ WInv)
<1>1. IInv /\ WInv /\ [Next]_vars => (IInv /\ WInv)'
  BY NextStep, NextKeeps DEF Step
<1>2. Init => IInv /\ WInv
  BY InvariantHolds, WriterHolds
<1> QED BY <1>1, <1>2, PTL DEF Spec

-----------------------------------------------------------------------------
(* What of a runtime is on the log is the write of a load, fenced when its deadline passed. *)
Late(r) == r.writing /\ r.load = "failed" /\ r.failure = "error" /\ ~r.runtime

(* Apart from such writes one runtime at most stands on the log, and they need LateRecovery. *)
SoleWriter ==
  /\ \A e, f \in Entries :
       OnLog(entries[e]) /\ OnLog(entries[f]) /\ ~Late(entries[e]) /\ ~Late(entries[f]) => e = f
  /\ \A e \in Entries : Late(entries[e]) => LateRecovery

LEMMA OnLogOrLate ==
  ASSUME IInv, WInv, NEW e \in Entries, OnLog(entries[e])
  PROVE  Made(e) /\ (Late(entries[e]) \/ ~OffLog(entries[e]))
<1>1. Made(e)
  BY IsMade DEF OnLog, NoEntry
<1> QED BY <1>1, IsHeld DEF OnLog, Late, OffLog, Held, Fit, LoadFits, Loaded

(* SessionManager, whatever a load's recovery does when its deadline passes: of all the runtimes
   a session ever had, parked, evicted, revoked or failed, one at most stands on the event log,
   and only the write of such a recovery can still run behind it. *)
THEOREM SoleWriterHolds == Spec => []SoleWriter
<1>1. ASSUME IInv, WInv, NEW e \in Entries, NEW f \in Entries, OnLog(entries[e]), OnLog(entries[f]),
             ~Late(entries[e]), ~Late(entries[f])
      PROVE  e = f
  <2>1. Made(e) /\ Made(f) /\ ~OffLog(entries[e]) /\ ~OffLog(entries[f])
    BY <1>1, OnLogOrLate
  <2>2. f <= e /\ e <= f
    BY <1>1, <2>1 DEF WInv, Order, Latest
  <2> QED BY <2>2 DEF Entries
<1>2. ASSUME IInv, WInv, NEW e \in Entries, Late(entries[e])
      PROVE  LateRecovery
  <2>1. Made(e)
    BY <1>2, IsMade DEF Late, NoEntry
  <2> QED BY <1>2, <2>1, IsHeld DEF Late, Held, Fit, LoadFits
<1>3. IInv /\ WInv => SoleWriter
  BY <1>1, <1>2 DEF SoleWriter
<1> QED BY <1>3, WriterInvariant, PTL

(* SessionManager: when the write a load recovers with is over by its deadline, one runtime of the
   session at most stands on its log, from the read of its load until its last write settles. *)
THEOREM SingleWriterHolds == ASSUME LateRecovery = FALSE PROVE Spec => []SingleWriter
<1>1. SoleWriter => SingleWriter
  BY DEF SoleWriter, SingleWriter
<1> QED BY <1>1, SoleWriterHolds, PTL

(* parkSession and revokeSession: under a tenure that was released nothing writes, no hook runs and
   no lease is out on a parked runtime; under one that was revoked every store is detached. *)
THEOREM ReleasedIsQuietHolds == Spec => []ReleasedIsQuiet
<1>1. ASSUME IInv, WInv, NEW e \in Entries, entries[e].tenure # 0
      PROVE  LET r == entries[e]
                 ended(state) == r.tenure # 0 /\ tenures[r.tenure].state = state
             IN  /\ ended("released") =>
                      /\ ~OnLog(r) /\ r.busy = {}
                      /\ r.job = "done" /\ r.disposal = "none" => ~Leased(e)
                 /\ ended("revoked") /\ r.runtime => r.store = "detached"
  <2> DEFINE r == entries[e]
  <2>1. Held(r, Leased(e), Tenure(e)) /\ r \in EntryType
    BY <1>1, IsHeld DEF Made, Held
  <2>2. ASSUME Tenure(e).state = "released"
        PROVE  ~OnLog(r) /\ r.busy = {} /\ (r.job = "done" /\ r.disposal = "none" => ~Leased(e))
    <3>1. OffLog(r) /\ r.busy = {} /\ ~r.writing
      BY <2>1, <2>2 DEF Held, Fit, RetainedFits, Under
    <3>2. r.job = "done" /\ r.disposal = "none" => ~Leased(e)
      BY <2>1 DEF Held, LeaseFits
    <3> QED BY <3>1, <3>2 DEF OnLog, OffLog, Loaded
  <2>3. Tenure(e).state = "revoked" /\ r.runtime => r.store = "detached"
    BY <2>1 DEF Held, Under
  <2> QED BY <2>2, <2>3 DEF Tenure
<1>2. IInv /\ WInv => ReleasedIsQuiet
  BY <1>1 DEF ReleasedIsQuiet
<1> QED BY <1>2, WriterInvariant, PTL

(* acquireSessionLease: under a lease only a close, a shutdown, a failed write or a revocation takes
   the runtime away, and a call served without one never holds a runtime that still serves. *)
THEOREM LeaseKeepsResidentHolds == Spec => []LeaseKeepsResident
<1>1. ASSUME IInv, WInv, NEW e \in Entries, Leased(e), entries[e].activity \in {"unloading", "disposed"}
      PROVE  entries[e].cause \in {"closed", "shutdown"}
  <2>1. Made(e)
    BY <1>1 DEF Leased, IInv, CallersInv, Made
  <2> QED BY <1>1, <2>1, IsHeld DEF Held, LeaseFits
<1>2. ASSUME IInv, WInv, NEW c \in Callers, At(c, "bare")
      PROVE  entries[callers[c].entry].activity \in Stopped \/ shutdown # "no"
  BY <1>2 DEF At, WInv, Calls, UnderWay, CallFits
<1>3. IInv /\ WInv => LeaseKeepsResident
  BY <1>1, <1>2 DEF LeaseKeepsResident
<1> QED BY <1>3, WriterInvariant, PTL
=============================================================================
