----------------------- MODULE SessionRuntimeProofs -----------------------
(***************************************************************************)
(* That a runtime never comes back into service, for every set of callers  *)
(* and any number of activations, runtimes and upsets.                     *)
(*                                                                         *)
(* Dropping an entry, forcing its unload, revoking it, forgetting it, and  *)
(* parking it each take its activity forward or leave it (Moves); an       *)
(* action composes them on one entry, or on all of a tenure.  The last     *)
(* step of a park, which takes the activity to disposed, is a step forward *)
(* only because a revocation ends the park (Local): the invariant says so, *)
(* and that callers and the cache name entries that were made.             *)
(***************************************************************************)
EXTENDS SessionRuntime, TLAPS

(* An entry not yet made is blank, and what a park does on an entry it does on one not revoked. *)
Local(r) ==
  /\ r.tenure = 0 => r = NoEntry
  /\ r.job \in Parking => r.activity # "revoked"

(* A call that is under way has an entry that was made. *)
CallersInv ==
  \A c \in Callers : callers[c].pc \notin {"idle", "answered"} =>
    callers[c].tenure \in Tenures /\ callers[c].entry \in Entries /\ entries[callers[c].entry].tenure # 0

ResidentInv == resident # 0 => entries[resident].tenure # 0

IInv == TypeOK /\ (\A e \in Entries : Local(entries[e])) /\ CallersInv /\ ResidentInv

(* What may become of an entry in a step. *)
Good(r)     == r \in EntryType /\ r.tenure # 0 /\ Local(r)
Moves(r, s) ==
  /\ s \in EntryType /\ Local(s)
  /\ r.tenure # 0 => s.tenure # 0
  /\ Rank[s.activity] >= Rank[r.activity]

-----------------------------------------------------------------------------
LEMMA Ranks ==
  /\ Rank["ready"] = 0 /\ Rank["parking"] = 1 /\ Rank["unloading"] = 2
  /\ Rank["disposed"] = 3 /\ Rank["revoked"] = 4
  /\ \A x \in Activities : Rank[x] \in 0..4
  BY DEF Rank, Activities, Stopped

LEMMA Distinct == 0 \notin Tenures /\ 0 \notin Entries
  BY DEF Tenures, Entries

LEMMA MovesTransitive ==
  ASSUME NEW r \in EntryType, NEW s, NEW u, Moves(r, s), Moves(s, u)
  PROVE  Moves(r, u)
  BY Ranks DEF Moves, EntryType

LEMMA MovesReflexive ==
  ASSUME NEW r \in EntryType, Local(r)
  PROVE  Moves(r, r)
  BY Ranks DEF Moves, EntryType

LEMMA StoppingMoves ==
  ASSUME NEW r, Good(r), NEW a \in {"unloading", "revoked"}, a = "unloading" => r.activity = "parking"
  PROVE  /\ Moves(r, Stopping(r, a)) /\ Good(Stopping(r, a))
         /\ Stopping(r, a).activity = a /\ Stopping(r, a).runtime = r.runtime
<1>1. /\ Stopping(r, a) \in EntryType /\ Stopping(r, a).activity = a /\ Stopping(r, a).tenure = r.tenure
      /\ Stopping(r, a).job \notin Parking /\ Stopping(r, a).runtime = r.runtime
  <2> DEFINE j == IF r.job \in Parking THEN "gone" ELSE r.job
  <2>1. j \in ParkSteps /\ j \notin Parking
    BY DEF Good, EntryType, ParkSteps, Parking
  <2>2. a \in Activities
    BY DEF Activities, Stopped
  <2>3. Stopping(r, a) = [r EXCEPT !.activity = a, !.job = j]
    BY DEF Stopping
  <2> DEFINE s == [r EXCEPT !.activity = a, !.job = j]
  <2> HIDE DEF j
  <2>4. s \in EntryType
    BY <2>1, <2>2 DEF Good, EntryType
  <2>5. s.activity = a /\ s.tenure = r.tenure /\ s.job = j /\ s.runtime = r.runtime
    BY DEF Good, EntryType
  <2> QED BY <2>1, <2>3, <2>4, <2>5
<1>2. Rank[a] >= Rank[r.activity]
  BY Ranks DEF Good, EntryType, Activities, Stopped
<1> QED BY <1>1, <1>2 DEF Good, Moves, Local

LEMMA ForcedUnloadMoves ==
  ASSUME NEW r, Good(r)
  PROVE  Moves(r, ForcedUnload(r)) /\ Good(ForcedUnload(r))
<1>1. CASE r.activity = "parking"
  BY <1>1, StoppingMoves DEF ForcedUnload
<1>2. CASE r.activity = "ready"
  <2>1. ForcedUnload(r) = [r EXCEPT !.activity = "unloading"]
    BY <1>2 DEF ForcedUnload
  <2> QED BY <2>1, <1>2, Ranks DEF Good, Moves, Local, EntryType, Activities, Stopped, Stopped
<1>3. CASE r.activity \notin {"parking", "ready"}
  BY <1>3, MovesReflexive DEF ForcedUnload, Good
<1> QED BY <1>1, <1>2, <1>3

(* A change of fields other than these moves an entry nowhere. *)
LEMMA SameMoves ==
  ASSUME NEW r, Good(r), NEW s \in EntryType,
         s.tenure = r.tenure, s.activity = r.activity, s.job = r.job \/ s.job \notin Parking \/ r.job \in Parking
  PROVE  Moves(r, s) /\ Good(s)
<1>1. Rank[s.activity] >= Rank[r.activity]
  BY Ranks DEF Good, EntryType
<1> QED BY <1>1 DEF Good, Moves, Local

LEMMA DisposingMoves ==
  ASSUME NEW r, Good(r), NEW cause \in {"idle", "closed", "disposed", "shutdown"}
  PROVE  Moves(r, Disposing(r, cause)) /\ Good(Disposing(r, cause))
<1> DEFINE f == ForcedUnload(r)
<1>1. Moves(r, f) /\ Good(f)
  BY ForcedUnloadMoves
<1>2. PICK d \in Disposals, k \in Causes :
        Disposing(r, cause) = [f EXCEPT !.disposal = d, !.cause = k]
  <2>1. f.disposal \in Disposals /\ f.cause \in Causes /\ cause \in Causes /\ "begun" \in Disposals
    BY <1>1 DEF Good, EntryType, Causes, Disposals
  <2>2. Disposing(r, cause) = [f EXCEPT !.disposal = IF f.disposal = "none" THEN "begun" ELSE f.disposal,
                                        !.cause = IF r.disposal = "none" THEN cause ELSE f.cause]
    BY DEF Disposing
  <2> QED BY <2>1, <2>2
<1> HIDE DEF f
<1>3. /\ Disposing(r, cause) \in EntryType /\ Disposing(r, cause).tenure = f.tenure
      /\ Disposing(r, cause).activity = f.activity /\ Disposing(r, cause).job = f.job
  <2>1. f \in EntryType
    BY <1>1 DEF Good
  <2>2. [f EXCEPT !.disposal = d, !.cause = k] \in EntryType
    BY <2>1 DEF EntryType
  <2> QED BY <2>1, <2>2, <1>2 DEF EntryType
<1> QED BY <1>3, <1>1, <1>2, SameMoves, MovesTransitive DEF Good

LEMMA EvictingMoves ==
  ASSUME NEW r, Good(r), NEW cause \in {"idle", "closed", "disposed", "shutdown"}
  PROVE  Moves(r, Evicting(r, cause)) /\ Good(Evicting(r, cause))
<1>1. CASE r.cache = "evicting"
  BY <1>1, MovesReflexive DEF Evicting, Good
<1>2. CASE r.cache # "evicting"
  <2> DEFINE d == Disposing(r, cause)
  <2>1. Moves(r, d) /\ Good(d)
    BY DisposingMoves
  <2>2. Evicting(r, cause) = [d EXCEPT !.cache = "evicting"]
    BY <1>2 DEF Evicting
  <2> HIDE DEF d
  <2>3. /\ Evicting(r, cause) \in EntryType /\ Evicting(r, cause).tenure = d.tenure
        /\ Evicting(r, cause).activity = d.activity /\ Evicting(r, cause).job = d.job
    BY <2>1, <2>2 DEF Good, EntryType
  <2> QED BY <2>1, <2>3, SameMoves, MovesTransitive DEF Good
<1> QED BY <1>1, <1>2

LEMMA RuntimeRevokedMoves ==
  ASSUME NEW r, Good(r)
  PROVE  /\ Moves(r, RuntimeRevoked(r)) /\ Good(RuntimeRevoked(r))
         /\ RuntimeRevoked(r).activity = "revoked" /\ RuntimeRevoked(r).job \notin Parking
<1> DEFINE s == Stopping(r, "revoked")
<1>1. Moves(r, s) /\ Good(s) /\ s.activity = "revoked"
  BY StoppingMoves
<1>2. RuntimeRevoked(r) = [s EXCEPT !.store = "detached", !.busy = @ \union {"cleanup"}]
  BY DEF RuntimeRevoked
<1> HIDE DEF s
<1>5. s.busy \union {"cleanup"} \in SUBSET {"park", "cleanup"}
  BY <1>1 DEF Good, EntryType
<1>3. /\ RuntimeRevoked(r) \in EntryType /\ RuntimeRevoked(r).tenure = s.tenure
      /\ RuntimeRevoked(r).activity = s.activity /\ RuntimeRevoked(r).job = s.job
  <2>1. s \in EntryType /\ s.busy \union {"cleanup"} \in SUBSET {"park", "cleanup"} /\ "detached" \in Stores
    BY <1>1, <1>5 DEF Good, Stores
  <2>2. [s EXCEPT !.store = "detached", !.busy = s.busy \union {"cleanup"}] \in EntryType
    BY <2>1 DEF EntryType
  <2> QED BY <2>1, <2>2, <1>2 DEF EntryType
<1>4. s.job \notin Parking
  BY <1>1 DEF Good, Local
<1> QED BY <1>1, <1>3, <1>4, SameMoves, MovesTransitive DEF Good

LEMMA RevokedMoves ==
  ASSUME NEW r, Good(r)
  PROVE  Moves(r, Revoked(r)) /\ Good(Revoked(r))
  BY StoppingMoves, RuntimeRevokedMoves DEF Revoked

LEMMA ForgottenMoves ==
  ASSUME NEW r, Good(r)
  PROVE  Moves(r, Forgotten(r)) /\ Good(Forgotten(r))
<1>1. /\ [r EXCEPT !.forget = TRUE] \in EntryType /\ [r EXCEPT !.forget = FALSE] \in EntryType
  BY DEF Good, EntryType
<1>2. \A x \in BOOLEAN : Moves(r, [r EXCEPT !.forget = x]) /\ Good([r EXCEPT !.forget = x])
  BY <1>1, SameMoves DEF Good, EntryType
<1>3. ASSUME NEW a \in {r.activity, "disposed"}, a = r.activity \/ r.activity # "revoked"
      PROVE  LET s == [r EXCEPT !.forget = FALSE, !.retained = FALSE, !.activity = a]
             IN  Moves(r, s) /\ Good(s)
  <2> DEFINE s == [r EXCEPT !.forget = FALSE, !.retained = FALSE, !.activity = a]
  <2>1. a \in Activities
    BY <1>3 DEF Good, EntryType, Activities, Stopped
  <2>2. s \in EntryType /\ s.tenure = r.tenure /\ s.job = r.job /\ s.activity = a
    BY <2>1 DEF Good, EntryType
  <2>3. Rank[a] >= Rank[r.activity]
    BY <1>3, Ranks DEF Good, EntryType, Activities, Stopped
  <2> QED BY <1>3, <2>2, <2>3 DEF Good, Moves, Local
<1>4. CASE Forgotten(r) \in {[r EXCEPT !.forget = TRUE], [r EXCEPT !.forget = FALSE]}
  BY <1>2, <1>4
<1>5. CASE Forgotten(r) = [r EXCEPT !.forget = FALSE, !.retained = FALSE,
                                    !.activity = IF r.runtime \/ @ = "revoked" THEN @ ELSE "disposed"]
  BY <1>3, <1>5
<1> QED BY <1>4, <1>5 DEF Forgotten

-----------------------------------------------------------------------------
(* A step keeps the invariant and takes no entry back. *)
Step == IInv' /\ \A e \in Entries : Rank[entries'[e].activity] >= Rank[entries[e].activity]

LEMMA MadeIsGood ==
  ASSUME IInv, NEW e \in Entries, entries[e] # NoEntry
  PROVE  Good(entries[e])
  BY DEF IInv, TypeOK, Good, Local

LEMMA UpsetType == ASSUME IInv, Upset PROVE upsets' \in Nat
  BY DEF IInv, TypeOK, Upset

LEMMA EntryChanges ==
  ASSUME IInv, NEW e \in Entries, NEW r, Moves(entries[e], r), Becomes(e, r)
  PROVE  /\ entries' \in [Entries -> EntryType]
         /\ \A f \in Entries : Moves(entries[f], entries'[f])
<1>1. r \in EntryType /\ entries' = [entries EXCEPT ![e] = r]
  BY DEF Moves, Becomes
<1>2. /\ entries' \in [Entries -> EntryType] /\ entries'[e] = r
      /\ \A f \in Entries : f # e => entries'[f] = entries[f]
  BY <1>1 DEF IInv, TypeOK
<1>3. \A f \in Entries : f # e => Moves(entries[f], entries'[f])
  BY <1>2, MovesReflexive DEF IInv, TypeOK
<1> QED BY <1>2, <1>3

(* What is left to show of a step once its entries move. *)
LEMMA MovesStep ==
  ASSUME IInv, entries' \in [Entries -> EntryType], \A f \in Entries : Moves(entries[f], entries'[f]),
         tenures' \in [Tenures -> TenureType], current' \in Tenures \union {0},
         shutdown' \in {"no", "running", "done"}, log' \in {"absent", "open", "closed"}, upsets' \in Nat,
         callers' \in [Callers -> CallerType], CallersInv',
         resident' \in Entries \union {0}, ResidentInv'
  PROVE  Step
<1>1. TypeOK'
  BY DEF TypeOK
<1>2. \A f \in Entries : Local(entries'[f]) /\ Rank[entries'[f].activity] >= Rank[entries[f].activity]
  BY DEF Moves
<1>3. \A f \in Entries : Local(entries[f])'
  BY <1>2 DEF Local
<1> QED BY <1>1, <1>2, <1>3 DEF Step, IInv

LEMMA EntryStep ==
  ASSUME IInv, NEW e \in Entries, NEW r, Moves(entries[e], r), Becomes(e, r),
         tenures' \in [Tenures -> TenureType], UNCHANGED <<current, callers>>,
         shutdown' \in {"no", "running", "done"}, log' \in {"absent", "open", "closed"},
         resident' \in {resident, 0}, upsets' \in Nat
  PROVE  Step
<1>1. /\ entries' \in [Entries -> EntryType]
      /\ \A f \in Entries : Moves(entries[f], entries'[f])
  BY EntryChanges
<1>2. CallersInv' /\ ResidentInv' /\ resident' \in Entries \union {0}
  BY <1>1 DEF IInv, TypeOK, CallersInv, ResidentInv, Moves
<1> QED BY <1>1, <1>2, MovesStep DEF IInv, TypeOK

-----------------------------------------------------------------------------
(* The record updates of a load and of a write. *)
LEMMA UpdatesMove ==
  ASSUME NEW r, Good(r)
  PROVE  /\ \A l \in Loads : Moves(r, [r EXCEPT !.load = l])
         /\ \A l \in Loads, f \in Failures : Moves(r, [r EXCEPT !.load = l, !.failure = f])
         /\ \A l \in Loads, w \in BOOLEAN : Moves(r, [r EXCEPT !.load = l, !.writing = w])
         /\ \A w \in BOOLEAN : Moves(r, [r EXCEPT !.writing = w])
         /\ \A l \in Loads, f \in Failures, w \in BOOLEAN :
              Moves(r, [r EXCEPT !.writing = w, !.store = "detached", !.load = l, !.failure = f])
<1>1. r \in EntryType /\ "detached" \in Stores
  BY DEF Good, Stores
<1>2. ASSUME NEW l \in Loads
      PROVE  Moves(r, [r EXCEPT !.load = l])
  BY <1>1, <1>2, SameMoves DEF EntryType
<1>3. ASSUME NEW l \in Loads, NEW f \in Failures
      PROVE  Moves(r, [r EXCEPT !.load = l, !.failure = f])
  <2>1. [r EXCEPT !.load = l, !.failure = f] \in EntryType
    BY <1>1 DEF EntryType
  <2> QED BY <1>1, <2>1, SameMoves DEF EntryType
<1>4. ASSUME NEW l \in Loads, NEW w \in BOOLEAN
      PROVE  Moves(r, [r EXCEPT !.load = l, !.writing = w])
  <2>1. [r EXCEPT !.load = l, !.writing = w] \in EntryType
    BY <1>1 DEF EntryType
  <2> QED BY <1>1, <2>1, SameMoves DEF EntryType
<1>5. ASSUME NEW w \in BOOLEAN
      PROVE  Moves(r, [r EXCEPT !.writing = w])
  <2>1. [r EXCEPT !.writing = w] \in EntryType
    BY <1>1 DEF EntryType
  <2> QED BY <1>1, <2>1, SameMoves DEF EntryType
<1>6. ASSUME NEW l \in Loads, NEW f \in Failures, NEW w \in BOOLEAN
      PROVE  Moves(r, [r EXCEPT !.writing = w, !.store = "detached", !.load = l, !.failure = f])
  <2>1. [r EXCEPT !.writing = w, !.store = "detached", !.load = l, !.failure = f] \in EntryType
    BY <1>1 DEF EntryType
  <2> QED BY <1>1, <2>1, SameMoves DEF EntryType
<1> QED BY <1>2, <1>3, <1>4, <1>5, <1>6

(* The actions of one entry. *)
LEMMA LoadReadsStep == ASSUME IInv, NEW e \in Entries, LoadReads(e) PROVE Step
<1>1. Good(entries[e])
  BY MadeIsGood DEF LoadReads, NoEntry
<1>2. PICK r : Moves(entries[e], r) /\ Becomes(e, r)
  BY <1>1, UpdatesMove DEF LoadReads, Loads, Failures, LoadFails
<1> QED BY <1>1, <1>2, EntryStep, UpsetType DEF LoadReads, IInv, TypeOK

LEMMA RecoveryFailsStep == ASSUME IInv, NEW e \in Entries, RecoveryFails(e) PROVE Step
<1>1. Good(entries[e])
  BY MadeIsGood DEF RecoveryFails, NoEntry
<1>2. PICK r : Moves(entries[e], r) /\ Becomes(e, r)
  BY <1>1, UpdatesMove DEF RecoveryFails, Loads, Failures, LoadFails
<1> QED BY <1>1, <1>2, EntryStep, UpsetType DEF RecoveryFails, IInv, TypeOK

LEMMA CreateAppendsStep == ASSUME IInv, NEW e \in Entries, CreateAppends(e) PROVE Step
<1>1. Good(entries[e])
  BY MadeIsGood DEF CreateAppends, NoEntry
<1>2. PICK r : Moves(entries[e], r) /\ Becomes(e, r)
  BY <1>1, UpdatesMove DEF CreateAppends, Loads, Failures, LoadFails
<1> QED BY <1>1, <1>2, EntryStep, UpsetType DEF CreateAppends, IInv, TypeOK

LEMMA UnwoundStep == ASSUME IInv, NEW e \in Entries, Unwound(e) PROVE Step
<1>1. Good(entries[e])
  BY MadeIsGood DEF Unwound, NoEntry
<1>2. PICK r : Moves(entries[e], r) /\ Becomes(e, r)
  BY <1>1, UpdatesMove DEF Unwound, Loads, Failures, LoadFails
<1> QED BY <1>1, <1>2, EntryStep, UpsetType DEF Unwound, IInv, TypeOK

LEMMA WriteStartsStep == ASSUME IInv, NEW e \in Entries, WriteStarts(e) PROVE Step
<1>1. Good(entries[e])
  BY MadeIsGood DEF WriteStarts, NoEntry
<1>2. PICK r : Moves(entries[e], r) /\ Becomes(e, r)
  BY <1>1, UpdatesMove DEF WriteStarts
<1> QED BY <1>1, <1>2, EntryStep, UpsetType DEF WriteStarts, IInv, TypeOK

LEMMA WriteSettlesStep == ASSUME IInv, NEW e \in Entries, WriteSettles(e) PROVE Step
<1>1. Good(entries[e])
  BY MadeIsGood DEF WriteSettles, NoEntry
<1>2. PICK r : Moves(entries[e], r) /\ Becomes(e, r)
  BY <1>1, UpdatesMove DEF WriteSettles
<1> QED BY <1>1, <1>2, EntryStep, UpsetType DEF WriteSettles, IInv, TypeOK

LEMMA CleanupEndsStep == ASSUME IInv, NEW e \in Entries, CleanupEnds(e) PROVE Step
<1>1. Good(entries[e])
  BY MadeIsGood DEF CleanupEnds, NoEntry
<1>2. PICK r : Moves(entries[e], r) /\ Becomes(e, r)
  <2> DEFINE b == entries[e].busy \ {"cleanup"}
             u(d) == [entries[e] EXCEPT !.busy = b, !.dirty = d]
  <2>1. entries[e] \in EntryType /\ b \in SUBSET {"park", "cleanup"}
    BY <1>1 DEF Good, EntryType
  <2>2. ASSUME NEW d \in BOOLEAN PROVE Moves(entries[e], u(d))
    <3> HIDE DEF b
    <3>1. u(d) \in EntryType
      BY <2>1 DEF EntryType
    <3> QED BY <1>1, <2>1, <3>1, SameMoves DEF EntryType
  <2>3. Becomes(e, u(TRUE)) \/ Becomes(e, u(FALSE))
    BY DEF CleanupEnds
  <2> QED BY <2>2, <2>3
<1> QED BY <1>1, <1>2, EntryStep, UpsetType DEF CleanupEnds, IInv, TypeOK

LEMMA ParkUnloadedStep == ASSUME IInv, NEW e \in Entries, ParkUnloaded(e) PROVE Step
<1>1. Good(entries[e])
  BY MadeIsGood DEF ParkUnloaded, NoEntry
<1>2. PICK r : Moves(entries[e], r) /\ Becomes(e, r)
  BY <1>1, SameMoves DEF ParkUnloaded, Good, EntryType, ParkSteps, Parking
<1> QED BY <1>1, <1>2, EntryStep, UpsetType DEF ParkUnloaded, IInv, TypeOK

LEMMA LoadBuildsStep == ASSUME IInv, NEW e \in Entries, LoadBuilds(e) PROVE Step
<1>1. Good(entries[e])
  <2>1. entries[e].load = "read"
    BY DEF LoadBuilds
  <2> QED BY <2>1, MadeIsGood DEF NoEntry
<1>2. PICK r : Moves(entries[e], r) /\ Becomes(e, r)
  <2>1. CASE Admitted(entries[e].tenure)
    <3>1. PICK recovers \in BOOLEAN : Becomes(e, [entries[e] EXCEPT !.store = "open", !.writing = recovers,
                                                  !.load = IF recovers THEN "recovering" ELSE "built"])
      BY <2>1 DEF LoadBuilds
    <3>2. (IF recovers THEN "recovering" ELSE "built") \in Loads /\ "open" \in Stores
      BY DEF Loads, Stores
    <3> QED BY <1>1, <3>1, <3>2, SameMoves DEF Good, EntryType
  <2>2. CASE ~Admitted(entries[e].tenure)
    BY <1>1, <2>2, SameMoves DEF LoadBuilds, LoadFails, Good, EntryType, Loads, Failures
  <2> QED BY <2>1, <2>2
<1> QED BY <1>1, <1>2, EntryStep DEF LoadBuilds, IInv, TypeOK

LEMMA RecoveredStep == ASSUME IInv, NEW e \in Entries, Recovered(e) PROVE Step
<1>1. Good(entries[e]) /\ "built" \in Loads
  BY MadeIsGood DEF Recovered, NoEntry, Loads
<1> DEFINE r == [entries[e] EXCEPT !.writing = FALSE, !.load = "built"]
<1>2. r \in EntryType
  BY <1>1 DEF Good, EntryType
<1>3. Moves(entries[e], r)
  BY <1>1, <1>2, SameMoves DEF Good, EntryType
<1> QED BY <1>3, EntryStep DEF Recovered, IInv, TypeOK

LEMMA ParkDrainsStep == ASSUME IInv, NEW e \in Entries, ParkDrains(e) PROVE Step
<1>1. Good(entries[e]) /\ entries[e].job = "drain"
  BY MadeIsGood DEF ParkDrains, NoEntry
<1> DEFINE r == [entries[e] EXCEPT !.job = "cleanup", !.busy = @ \union {"cleanup"}]
<1>2. r \in EntryType
  <2>1. "cleanup" \in ParkSteps /\ entries[e].busy \union {"cleanup"} \in SUBSET {"park", "cleanup"}
    BY <1>1 DEF Good, EntryType, ParkSteps, Parking
  <2> QED BY <1>1, <2>1 DEF Good, EntryType
<1>3. Moves(entries[e], r)
  BY <1>1, <1>2, SameMoves DEF Good, EntryType, Parking
<1> QED BY <1>3, EntryStep DEF ParkDrains, IInv, TypeOK

LEMMA ParkHooksEndStep == ASSUME IInv, NEW e \in Entries, ParkHooksEnd(e) PROVE Step
<1> DEFINE b == [entries[e] EXCEPT !.busy = @ \ {"park"}]
<1>1. Good(entries[e])
  BY MadeIsGood DEF ParkHooksEnd, NoEntry
<1>2. /\ b \in EntryType /\ "drain" \in ParkSteps /\ "failed" \in ParkSteps \ Parking /\ "hooks" \in Parking
      /\ b.tenure = entries[e].tenure /\ b.activity = entries[e].activity /\ b.job = entries[e].job
  BY <1>1 DEF Good, EntryType, ParkSteps, Parking
<1>3. PICK r \in EntryType : /\ Becomes(e, r) /\ r.tenure = b.tenure /\ r.activity = b.activity
                             /\ r.job = b.job \/ r.job \notin Parking \/ b.job \in Parking
  <2>1. CASE b.job = "hooks" /\ Becomes(e, [b EXCEPT !.job = "drain"])
    <3>1. [b EXCEPT !.job = "drain"] \in EntryType
      BY <1>2 DEF EntryType
    <3> QED BY <1>2, <2>1, <3>1 DEF EntryType
  <2>2. CASE Becomes(e, [b EXCEPT !.job = "failed"])
    <3>1. [b EXCEPT !.job = "failed"] \in EntryType
      BY <1>2 DEF EntryType
    <3> QED BY <1>2, <2>2, <3>1 DEF EntryType
  <2>3. CASE Becomes(e, b)
    BY <1>2, <2>3
  <2> QED BY <1>2, <2>1, <2>2, <2>3 DEF ParkHooksEnd, ParkFails
<1> HIDE DEF b
<1>4. Moves(entries[e], r)
  BY <1>1, <1>2, <1>3, SameMoves
<1>5. upsets' \in Nat /\ UNCHANGED <<tenures, current, callers, shutdown, log, resident>>
  BY UpsetType DEF ParkHooksEnd, ParkFails, IInv, TypeOK
<1> QED BY <1>3, <1>4, <1>5, EntryStep DEF IInv, TypeOK

LEMMA ParkCleanupEndsStep == ASSUME IInv, NEW e \in Entries, ParkCleanupEnds(e) PROVE Step
<1> DEFINE b == [entries[e] EXCEPT !.busy = @ \ {"cleanup"}]
<1>1. Good(entries[e])
  BY MadeIsGood DEF ParkCleanupEnds, NoEntry
<1>2. /\ b \in EntryType /\ "settle" \in ParkSteps /\ "failed" \in ParkSteps \ Parking /\ "cleanup" \in Parking
      /\ b.tenure = entries[e].tenure /\ b.activity = entries[e].activity /\ b.job = entries[e].job
  BY <1>1 DEF Good, EntryType, ParkSteps, Parking
<1>3. PICK r \in EntryType : /\ Becomes(e, r) /\ r.tenure = b.tenure /\ r.activity = b.activity
                             /\ r.job = b.job \/ r.job \notin Parking \/ b.job \in Parking
  <2>1. CASE b.job = "cleanup" /\ Becomes(e, [b EXCEPT !.job = "settle", !.dirty = FALSE])
    <3>1. [b EXCEPT !.job = "settle", !.dirty = FALSE] \in EntryType
      BY <1>2 DEF EntryType
    <3> QED BY <1>2, <2>1, <3>1 DEF EntryType
  <2>2. CASE Becomes(e, [[b EXCEPT !.dirty = TRUE] EXCEPT !.job = "failed"])
    <3>1. [[b EXCEPT !.dirty = TRUE] EXCEPT !.job = "failed"] \in EntryType
      BY <1>2 DEF EntryType
    <3> QED BY <1>2, <2>2, <3>1 DEF EntryType
  <2> QED BY <1>2, <2>1, <2>2 DEF ParkCleanupEnds, ParkFails
<1> HIDE DEF b
<1>4. Moves(entries[e], r)
  BY <1>1, <1>2, <1>3, SameMoves
<1>5. upsets' \in Nat /\ UNCHANGED <<tenures, current, callers, shutdown, log, resident>>
  BY UpsetType DEF ParkCleanupEnds, ParkFails, IInv, TypeOK
<1> QED BY <1>3, <1>4, <1>5, EntryStep DEF IInv, TypeOK

LEMMA UnwindsMoves ==
  ASSUME NEW e \in Entries, Good(entries[e]), NEW r, Good(r), Moves(entries[e], r),
         NEW why \in {"unavailable", "error"}, Unwinds(e, r, why)
  PROVE  \E s : Moves(entries[e], s) /\ Becomes(e, s)
<1>1. "failed" \in Loads /\ "unwinding" \in Loads /\ why \in Failures
  BY DEF Loads, Failures
<1>2. ASSUME NEW s, Good(s), Moves(r, s), NEW l \in {"failed", "unwinding"}
      PROVE  Moves(entries[e], [s EXCEPT !.load = l, !.failure = why])
  <2> DEFINE u == [s EXCEPT !.load = l, !.failure = why]
  <2>1. u \in EntryType /\ u.tenure = s.tenure /\ u.activity = s.activity /\ u.job = s.job
    BY <1>1, <1>2 DEF Good, EntryType
  <2> HIDE DEF u
  <2>2. Moves(s, u)
    BY <1>2, <2>1, SameMoves
  <2> QED BY <1>2, <2>2, MovesTransitive DEF Good, u
<1>3. Good(r) /\ Moves(r, r) /\ Good(RuntimeRevoked(r)) /\ Moves(r, RuntimeRevoked(r))
      /\ Good(Disposing(r, "idle")) /\ Moves(r, Disposing(r, "idle"))
  BY RuntimeRevokedMoves, DisposingMoves, MovesReflexive DEF Good
<1>4. PICK s \in {r, RuntimeRevoked(r), Disposing(r, "idle")}, l \in {"failed", "unwinding"} :
        Becomes(e, [s EXCEPT !.load = l, !.failure = why])
  BY DEF Unwinds
<1> QED BY <1>2, <1>3, <1>4

LEMMA SessionStartsStep == ASSUME IInv, NEW e \in Entries, SessionStarts(e) PROVE Step
<1>1. Good(entries[e])
  BY MadeIsGood DEF SessionStarts, NoEntry
<1> DEFINE r == [entries[e] EXCEPT !.runtime = TRUE]
           h == [r EXCEPT !.load = "hooks"]
<1>2. r \in EntryType /\ h \in EntryType
  BY <1>1 DEF Good, EntryType, Loads
<1>3. Moves(entries[e], r) /\ Good(r) /\ Moves(entries[e], h)
  BY <1>1, <1>2, SameMoves DEF Good, EntryType
<1>4. PICK s : Moves(entries[e], s) /\ Becomes(e, s)
  BY <1>1, <1>3, UnwindsMoves DEF SessionStarts
<1> QED BY <1>4, EntryStep DEF SessionStarts, IInv, TypeOK

LEMMA HooksEndStep == ASSUME IInv, NEW e \in Entries, HooksEnd(e) \/ HooksThrow(e) PROVE Step
<1>1. Good(entries[e]) /\ Moves(entries[e], entries[e])
  BY MadeIsGood, MovesReflexive DEF HooksEnd, HooksThrow, NoEntry, Good
<1> DEFINE r == [entries[e] EXCEPT !.load = "done"]
<1>2. r \in EntryType
  BY <1>1 DEF Good, EntryType, Loads
<1>3. Moves(entries[e], r)
  BY <1>1, <1>2, SameMoves DEF Good, EntryType
<1>4. PICK s : Moves(entries[e], s) /\ Becomes(e, s)
  BY <1>1, <1>3, UnwindsMoves DEF HooksEnd, HooksThrow
<1>5. upsets' \in Nat /\ UNCHANGED <<tenures, current, callers, shutdown, log, resident>>
  BY UpsetType DEF HooksEnd, HooksThrow, IInv, TypeOK
<1> QED BY <1>4, <1>5, EntryStep DEF IInv, TypeOK

LEMMA CreateLandsStep == ASSUME IInv, NEW e \in Entries, CreateLands(e) PROVE Step
<1> DEFINE r == [entries[e] EXCEPT !.writing = FALSE]
<1>1. Good(entries[e])
  BY MadeIsGood DEF CreateLands, NoEntry
<1>2. Good(r) /\ Moves(entries[e], r)
  <2>1. r \in EntryType
    BY <1>1 DEF Good, EntryType
  <2> QED BY <1>1, <2>1, SameMoves DEF Good, EntryType
<1>3. /\ Becomes(e, [r EXCEPT !.store = "open", !.load = "built"])
         \/ \E why \in Failures : Becomes(e, [r EXCEPT !.load = "failed", !.failure = why])
      /\ log' \in {"absent", "open", "closed"} /\ upsets' \in Nat
      /\ UNCHANGED <<tenures, current, callers, shutdown, resident>>
  BY UpsetType DEF CreateLands, LoadFails, Failures, IInv, TypeOK
<1> HIDE DEF r
<1>4. PICK s \in EntryType : Becomes(e, s) /\ s.tenure = r.tenure /\ s.activity = r.activity /\ s.job = r.job
  <2>1. /\ [r EXCEPT !.store = "open", !.load = "built"] \in EntryType
        /\ \A why \in Failures : [r EXCEPT !.load = "failed", !.failure = why] \in EntryType
    BY <1>2 DEF Good, EntryType, Stores, Loads
  <2>2. r \in EntryType
    BY <1>2 DEF Good
  <2> DEFINE o == [r EXCEPT !.store = "open", !.load = "built"]
             f(why) == [r EXCEPT !.load = "failed", !.failure = why]
  <2>3. /\ o.tenure = r.tenure /\ o.activity = r.activity /\ o.job = r.job
        /\ \A why \in Failures :
             f(why).tenure = r.tenure /\ f(why).activity = r.activity /\ f(why).job = r.job
    BY <2>2 DEF EntryType
  <2>4. CASE Becomes(e, o)
    BY <2>1, <2>3, <2>4
  <2>5. ASSUME NEW why \in Failures, Becomes(e, f(why))
        PROVE  \E s \in EntryType : Becomes(e, s) /\ s.tenure = r.tenure /\ s.activity = r.activity /\ s.job = r.job
    BY <2>1, <2>3, <2>5
  <2> QED BY <1>3, <2>4, <2>5
<1>5. Moves(entries[e], s)
  BY <1>1, <1>2, <1>4, SameMoves, MovesTransitive DEF Good
<1> QED BY <1>3, <1>4, <1>5, EntryStep DEF IInv, TypeOK

LEMMA EvictionStep ==
  ASSUME IInv, NEW e \in Entries, ShutdownDisposes(e) \/ SweepDisposes(e) \/ Forget(e)
  PROVE  Step
<1>1. Good(entries[e])
  BY MadeIsGood DEF ShutdownDisposes, SweepDisposes, Forget, NoEntry
<1>2. \A cause \in {"idle", "shutdown"} :
        /\ Moves(entries[e], Evicting(entries[e], cause)) /\ Good(Evicting(entries[e], cause))
        /\ Moves(entries[e], [Evicting(entries[e], cause) EXCEPT !.swept = FALSE])
  <2> TAKE cause \in {"idle", "shutdown"}
  <2> DEFINE d == Evicting(entries[e], cause)
  <2>1. Moves(entries[e], d) /\ Good(d)
    BY <1>1, EvictingMoves
  <2> HIDE DEF d
  <2>2. [d EXCEPT !.swept = FALSE] \in EntryType
    BY <2>1 DEF Good, EntryType
  <2>3. Moves(d, [d EXCEPT !.swept = FALSE])
    BY <2>1, <2>2, SameMoves DEF Good, EntryType
  <2> QED BY <1>1, <2>1, <2>3, MovesTransitive DEF Good, d
<1>3. Moves(entries[e], Forgotten(entries[e]))
  BY <1>1, ForgottenMoves
<1>4. PICK r : Moves(entries[e], r) /\ Becomes(e, r)
  BY <1>2, <1>3 DEF ShutdownDisposes, SweepDisposes, Forget
<1>5. UNCHANGED <<tenures, current, callers, shutdown, log, resident, upsets>>
  BY DEF ShutdownDisposes, SweepDisposes, Forget
<1> QED BY <1>4, <1>5, EntryStep DEF IInv, TypeOK

LEMMA SweepBeginsStep == ASSUME IInv, NEW e \in Entries, SweepBegins(e) PROVE Step
<1>1. Good(entries[e]) /\ entries[e].activity = "ready"
  BY Distinct DEF SweepBegins, IInv, TypeOK, ResidentInv, Good
<1> DEFINE r == [entries[e] EXCEPT !.activity = "unloading", !.swept = TRUE]
<1>2. r \in EntryType /\ r.tenure = entries[e].tenure /\ r.activity = "unloading"
  BY <1>1 DEF Good, EntryType, Activities
<1>3. Moves(entries[e], r)
  BY <1>1, <1>2, Ranks DEF Good, Moves, Local
<1>4. Becomes(e, r) /\ upsets' \in Nat /\ UNCHANGED <<tenures, current, callers, shutdown, log, resident>>
  BY UpsetType DEF SweepBegins
<1> QED BY <1>3, <1>4, EntryStep DEF IInv, TypeOK

LEMMA DisposedMoves ==
  ASSUME NEW e \in Entries, Good(entries[e]), NEW r, Good(r), Moves(entries[e], r), Disposed(e, r)
  PROVE  /\ resident' \in {resident, 0}
         /\ \E s : Moves(entries[e], s) /\ Becomes(e, s)
<1>1. resident' \in {resident, 0}
  BY DEF Disposed, Drops
<1>2. Moves(entries[e], Forgotten(r))
  BY ForgottenMoves, MovesTransitive DEF Good
<1> QED BY <1>1, <1>2 DEF Disposed

LEMMA DisposalStartsStep == ASSUME IInv, NEW e \in Entries, DisposalStarts(e) PROVE Step
<1>1. Good(entries[e])
  BY MadeIsGood DEF DisposalStarts, NoEntry
<1>2. \A d \in {"draining", "done"} : LET r == [entries[e] EXCEPT !.disposal = d]
                                      IN  Good(r) /\ Moves(entries[e], r)
  BY <1>1, SameMoves DEF Good, EntryType, Disposals
<1>3. resident' \in {resident, 0} /\ \E s : Moves(entries[e], s) /\ Becomes(e, s)
  BY <1>1, <1>2, DisposedMoves DEF DisposalStarts
<1> QED BY <1>3, EntryStep DEF DisposalStarts, IInv, TypeOK

LEMMA DisposalEndsStep == ASSUME IInv, NEW e \in Entries, DisposalEnds(e) PROVE Step
<1>1. Good(entries[e])
  BY MadeIsGood DEF DisposalEnds, NoEntry
<1>2. PICK a \in {entries[e].activity, "disposed"} :
        /\ a = "revoked" => entries[e].activity = "revoked"
        /\ a = "disposed" => entries[e].activity # "revoked"
        /\ Disposed(e, [entries[e] EXCEPT !.disposal = "done", !.store = "detached", !.activity = a])
  BY DEF DisposalEnds
<1> DEFINE r == [entries[e] EXCEPT !.disposal = "done", !.store = "detached", !.activity = a]
<1>3. a \in Activities /\ "done" \in Disposals /\ "detached" \in Stores
  BY <1>1 DEF Good, EntryType, Activities, Stopped, Disposals, Stores
<1>4. r \in EntryType /\ r.tenure = entries[e].tenure /\ r.activity = a /\ r.job = entries[e].job
  <2>1. entries[e] \in EntryType
    BY <1>1 DEF Good
  <2> QED BY <1>3, <2>1 DEF EntryType
<1>5. Rank[a] >= Rank[entries[e].activity]
  BY <1>1, <1>2, Ranks DEF Good, EntryType, Activities, Stopped
<1>6. Good(r) /\ Moves(entries[e], r)
  BY <1>1, <1>2, <1>4, <1>5 DEF Good, Moves, Local
<1> HIDE DEF r
<1>7. resident' \in {resident, 0} /\ \E s : Moves(entries[e], s) /\ Becomes(e, s)
  BY <1>1, <1>2, <1>6, DisposedMoves DEF r
<1> QED BY <1>7, EntryStep DEF DisposalEnds, IInv, TypeOK

LEMMA CloseSessionStep == ASSUME IInv, NEW c \in Callers, CloseSession(c) PROVE Step
<1> DEFINE e == callers[c].entry
<1>1. e \in Entries /\ Good(entries[e])
  BY DEF CloseSession, At, IInv, TypeOK, CallersInv, Good
<1>2. PICK s : Moves(entries[e], s) /\ Becomes(e, s)
  BY <1>1, EvictingMoves, DisposingMoves DEF CloseSession
<1> QED BY <1>1, <1>2, EntryStep DEF CloseSession, IInv, TypeOK

LEMMA WriteFencesStep == ASSUME IInv, NEW e \in Entries, WriteFences(e) PROVE Step
<1>1. Good(entries[e])
  BY MadeIsGood DEF WriteFences, NoEntry
<1>2. \A settled \in BOOLEAN : LET s == [RuntimeRevoked(entries[e]) EXCEPT !.writing = ~settled]
                               IN  Good(s) /\ Moves(entries[e], s)
  <2> TAKE settled \in BOOLEAN
  <2> DEFINE v == RuntimeRevoked(entries[e])
             s == [v EXCEPT !.writing = ~settled]
  <2>1. Good(v) /\ Moves(entries[e], v)
    BY <1>1, RuntimeRevokedMoves
  <2> HIDE DEF v
  <2>2. s \in EntryType
    BY <2>1 DEF Good, EntryType
  <2>3. Moves(v, s) /\ Good(s)
    BY <2>1, <2>2, SameMoves DEF Good, EntryType
  <2> QED BY <1>1, <2>1, <2>3, MovesTransitive DEF Good, v
<1>3. PICK settled \in BOOLEAN, owner \in {"kept", "lost"} :
        LET s == [RuntimeRevoked(entries[e]) EXCEPT !.writing = ~settled]
        IN  /\ Becomes(e, IF entries[e].retained THEN Forgotten(s) ELSE s)
            /\ resident' \in {resident, 0}
            /\ tenures' \in {tenures, [tenures EXCEPT ![entries[e].tenure].state = "lost"]}
  BY DEF WriteFences, Drops
<1>4. PICK s : Moves(entries[e], s) /\ Becomes(e, s)
  <2> DEFINE v == [RuntimeRevoked(entries[e]) EXCEPT !.writing = ~settled]
  <2>1. Good(v) /\ Moves(entries[e], v)
    BY <1>2
  <2>2. Becomes(e, v) \/ Becomes(e, Forgotten(v))
    BY <1>3
  <2> HIDE DEF v
  <2>3. Moves(entries[e], Forgotten(v))
    BY <1>1, <2>1, ForgottenMoves, MovesTransitive DEF Good
  <2> QED BY <2>1, <2>2, <2>3
<1>5. tenures' \in [Tenures -> TenureType]
  BY <1>3 DEF IInv, TypeOK, TenureType
<1>6. upsets' \in Nat /\ UNCHANGED <<current, callers, shutdown, log>>
  BY UpsetType DEF WriteFences
<1> QED BY <1>3, <1>4, <1>5, <1>6, EntryStep DEF IInv, TypeOK

LEMMA ParkLoadedStep == ASSUME IInv, NEW e \in Entries, ParkLoaded(e) PROVE Step
<1>1. Good(entries[e]) /\ entries[e].job = "load"
  BY MadeIsGood DEF ParkLoaded, NoEntry
<1> DEFINE a == IF entries[e].activity = "ready" THEN "parking" ELSE entries[e].activity
           p == [entries[e] EXCEPT !.activity = a]
<1>2. /\ a \in Activities /\ Rank[a] >= Rank[entries[e].activity] /\ (a = "revoked" => entries[e].activity = "revoked")
  <2>1. entries[e].activity \in Activities /\ "parking" \in Activities
    BY <1>1 DEF Good, EntryType, Activities
  <2>2. CASE entries[e].activity = "ready"
    BY <2>1, <2>2, Ranks
  <2>3. CASE entries[e].activity # "ready"
    BY <2>1, <2>3, Ranks
  <2> QED BY <2>2, <2>3
<1>3. p \in EntryType /\ p.tenure = entries[e].tenure /\ p.activity = a /\ p.job = "load"
  <2>1. entries[e] \in EntryType
    BY <1>1 DEF Good
  <2> QED BY <1>1, <1>2, <2>1 DEF EntryType
<1>4. Good(p) /\ Moves(entries[e], p)
  BY <1>1, <1>2, <1>3 DEF Good, Moves, Local
<1>5. \/ \E j \in {"done", "failed"} : Becomes(e, [entries[e] EXCEPT !.job = j])
      \/ Becomes(e, [p EXCEPT !.job = "hooks", !.busy = @ \union {"park"}])
      \/ Becomes(e, [p EXCEPT !.job = "gone"])
  BY DEF ParkLoaded
<1>6. \A j \in {"done", "failed"} : Moves(entries[e], [entries[e] EXCEPT !.job = j])
  <2> TAKE j \in {"done", "failed"}
  <2>1. j \in ParkSteps /\ j \notin Parking
    BY DEF ParkSteps, Parking
  <2> QED BY <1>1, <2>1, SameMoves DEF Good, EntryType
<1> HIDE DEF p
<1>7. "load" \in Parking /\ "hooks" \in ParkSteps /\ "gone" \in ParkSteps
  BY DEF ParkSteps, Parking
<1>8. Moves(p, [p EXCEPT !.job = "gone"])
  <2> DEFINE q == [p EXCEPT !.job = "gone"]
  <2>1. q \in EntryType /\ q.tenure = p.tenure /\ q.activity = p.activity
    BY <1>4, <1>7 DEF Good, EntryType
  <2> HIDE DEF q
  <2>2. Moves(p, q)
    BY <1>3, <1>4, <1>7, <2>1, SameMoves
  <2> QED BY <2>2 DEF q
<1>9. Moves(p, [p EXCEPT !.job = "hooks", !.busy = @ \union {"park"}])
  <2> DEFINE q == [p EXCEPT !.job = "hooks", !.busy = @ \union {"park"}]
  <2>1. p.busy \union {"park"} \in SUBSET {"park", "cleanup"}
    BY <1>3 DEF EntryType
  <2>2. q \in EntryType /\ q.tenure = p.tenure /\ q.activity = p.activity
    BY <1>3, <1>7, <2>1 DEF EntryType
  <2> HIDE DEF q
  <2>3. Moves(p, q)
    BY <1>3, <1>4, <1>7, <2>2, SameMoves
  <2> QED BY <2>3 DEF q
<1>10. PICK s : Moves(entries[e], s) /\ Becomes(e, s)
  BY <1>1, <1>4, <1>5, <1>6, <1>8, <1>9, MovesTransitive DEF Good
<1>11. resident' \in {resident, 0} /\ UNCHANGED <<tenures, current, callers, shutdown, log, upsets>>
  BY DEF ParkLoaded, Drops
<1> QED BY <1>10, <1>11, EntryStep DEF IInv, TypeOK

LEMMA ParkSettlesStep == ASSUME IInv, NEW e \in Entries, ParkSettles(e) PROVE Step
<1>1. Good(entries[e]) /\ entries[e].job = "settle"
  BY MadeIsGood DEF ParkSettles, NoEntry
<1>2. entries[e].activity # "revoked" /\ {"done", "failed"} \subseteq ParkSteps \ Parking
  BY <1>1 DEF Good, Local, ParkSteps, Parking
<1> DEFINE d == [entries[e] EXCEPT !.job = "done", !.store = "detached", !.activity = "disposed"]
           f == [entries[e] EXCEPT !.job = "failed"]
<1>3. d \in EntryType /\ d.tenure = entries[e].tenure /\ d.activity = "disposed" /\ d.job = "done"
  <2>1. entries[e] \in EntryType /\ "done" \in ParkSteps /\ "detached" \in Stores /\ "disposed" \in Activities
    BY <1>1, <1>2 DEF Good, Stores, Activities, Stopped
  <2> QED BY <2>1 DEF EntryType
<1>4. Rank["disposed"] >= Rank[entries[e].activity]
  BY <1>1, <1>2, Ranks DEF Good, EntryType, Activities, Stopped
<1>5. Moves(entries[e], d)
  BY <1>1, <1>2, <1>3, <1>4 DEF Good, Moves, Local
<1>6. Moves(entries[e], f)
  BY <1>1, <1>2, SameMoves DEF Good, EntryType
<1>7. PICK s : Moves(entries[e], s) /\ Becomes(e, s)
  BY <1>5, <1>6 DEF ParkSettles, ParkFails
<1>8. /\ resident' \in {resident, 0} /\ upsets' \in Nat
      /\ UNCHANGED <<tenures, current, callers, shutdown, log>>
  BY UpsetType DEF ParkSettles, ParkFails, Drops, IInv, TypeOK
<1> QED BY <1>7, <1>8, EntryStep DEF IInv, TypeOK

-----------------------------------------------------------------------------
(* The actions of a caller. *)

(* A call goes on to a place where its entry, if it still needs one, is one that was made. *)
CallerMoves(c) ==
  \E k \in CallerType :
    /\ callers' = [callers EXCEPT ![c] = k]
    /\ k.pc \notin {"idle", "answered"} =>
         k.tenure \in Tenures /\ k.entry \in Entries /\ entries'[k.entry].tenure # 0

EntriesMove == entries' \in [Entries -> EntryType] /\ \A f \in Entries : Moves(entries[f], entries'[f])

ResidentMoves == resident' \in Entries \union {0} /\ (resident' # 0 => entries'[resident'].tenure # 0)

LEMMA CallersStep ==
  ASSUME IInv, NEW c \in Callers, CallerMoves(c), EntriesMove, ResidentMoves,
         tenures' \in [Tenures -> TenureType], current' \in Tenures \union {0},
         UNCHANGED <<shutdown, log, upsets>>
  PROVE  Step
<1>1. PICK k \in CallerType :
        /\ callers' = [callers EXCEPT ![c] = k]
        /\ k.pc \notin {"idle", "answered"} =>
             k.tenure \in Tenures /\ k.entry \in Entries /\ entries'[k.entry].tenure # 0
  BY DEF CallerMoves
<1>2. callers \in [Callers -> CallerType]
  BY DEF IInv, TypeOK
<1>3. /\ callers' \in [Callers -> CallerType] /\ callers'[c] = k
      /\ \A d \in Callers : d # c => callers'[d] = callers[d]
  BY <1>1, <1>2
<1>4. \A f \in Entries : entries[f].tenure # 0 => entries'[f].tenure # 0
  BY DEF EntriesMove, Moves
<1>5. CallersInv'
  <2> SUFFICES ASSUME NEW d \in Callers, callers'[d].pc \notin {"idle", "answered"}
               PROVE  /\ callers'[d].tenure \in Tenures /\ callers'[d].entry \in Entries
                      /\ entries'[callers'[d].entry].tenure # 0
    BY DEF CallersInv
  <2>1. CASE d = c
    BY <1>1, <1>3, <2>1
  <2>2. CASE d # c
    BY <1>3, <1>4, <2>2 DEF IInv, CallersInv
  <2> QED BY <2>1, <2>2
<1>6. ResidentInv'
  BY DEF ResidentMoves, ResidentInv
<1> QED BY <1>3, <1>5, <1>6, MovesStep DEF EntriesMove, ResidentMoves, IInv, TypeOK

LEMMA UnchangedMove ==
  ASSUME IInv
  PROVE  /\ UNCHANGED entries => EntriesMove
         /\ EntriesMove /\ resident' \in {resident, 0} => ResidentMoves
<1>1. UNCHANGED entries => EntriesMove
  BY MovesReflexive DEF IInv, TypeOK, EntriesMove
<1>2. EntriesMove /\ resident' \in {resident, 0} => ResidentMoves
  BY DEF IInv, TypeOK, ResidentInv, EntriesMove, ResidentMoves, Moves
<1> QED BY <1>1, <1>2

LEMMA AnsweredMoves == ASSUME NEW c, Answered(c) PROVE CallerMoves(c)
<1> DEFINE k == [Idle EXCEPT !.pc = "answered"]
<1>1. k \in CallerType /\ k.pc = "answered" /\ callers' = [callers EXCEPT ![c] = k]
  BY DEF Answered, CallerType, Idle
<1> QED BY <1>1 DEF CallerMoves

LEMMA JoinsMoves ==
  ASSUME NEW c, NEW t \in Tenures, NEW pc \in {"await", "evict", "unload"}, NEW e \in Entries,
         Joins(c, t, pc, e), entries'[e].tenure # 0
  PROVE  CallerMoves(c)
<1> DEFINE k == [pc |-> pc, tenure |-> t, entry |-> e]
<1>1. k \in CallerType /\ k.tenure \in Tenures /\ k.entry = e /\ callers' = [callers EXCEPT ![c] = k]
  BY DEF Joins, CallerType
<1> HIDE DEF k
<1> QED BY <1>1 DEF CallerMoves

LEMMA GoesMoves ==
  ASSUME IInv, NEW c \in Callers, callers[c].pc \notin {"idle", "answered"}, EntriesMove,
         NEW pc \in {"unload", "got", "holding", "bare", "await"}, Goes(c, pc)
  PROVE  CallerMoves(c)
<1> DEFINE k == [callers[c] EXCEPT !.pc = pc]
<1>1. callers[c] \in CallerType /\ callers \in [Callers -> CallerType]
  BY DEF IInv, TypeOK
<1>2. k \in CallerType /\ k.tenure = callers[c].tenure /\ k.entry = callers[c].entry
  BY <1>1 DEF CallerType
<1>3. callers' = [callers EXCEPT ![c] = k]
  BY <1>1 DEF Goes
<1>4. /\ callers[c].tenure \in Tenures /\ callers[c].entry \in Entries
      /\ entries[callers[c].entry].tenure # 0
  BY DEF IInv, CallersInv
<1>5. entries'[callers[c].entry].tenure # 0
  BY <1>4 DEF EntriesMove, Moves
<1> HIDE DEF k
<1> QED BY <1>2, <1>3, <1>4, <1>5 DEF CallerMoves

(* A lookup builds an entry, joins the resident one, or is answered. *)
LEMMA LooksUpMoves ==
  ASSUME IInv, NEW c \in Callers, NEW t \in Tenures, LooksUp(c, t)
  PROVE  EntriesMove /\ ResidentMoves /\ CallerMoves(c)
<1>1. CASE resident = 0
  <2>1. PICK load \in {"creating", "queued"} : Builds(c, t, load)
    BY <1>1 DEF LooksUp
  <2>2. PICK e \in Entries :
          /\ NewEntry(e) /\ resident' = e /\ Joins(c, t, "await", e)
          /\ Becomes(e, [NoEntry EXCEPT !.tenure = t, !.load = load, !.retained = TRUE])
    BY <2>1 DEF Builds
  <2> DEFINE r == [NoEntry EXCEPT !.tenure = t, !.load = load, !.retained = TRUE]
  <2>3. entries[e] = NoEntry
    BY <2>2 DEF NewEntry, IInv, Local
  <2>4. t # 0 /\ e # 0
    BY Distinct
  <2>5. NoEntry \in EntryType
    BY DEF NoEntry, EntryType, Loads, Failures, Stores, Activities, Disposals, Causes, ParkSteps
  <2>6. load \in Loads
    BY DEF Loads
  <2>7. r \in EntryType /\ r.tenure = t /\ r.activity = NoEntry.activity /\ r.job = "none"
    BY <2>5, <2>6 DEF EntryType, NoEntry
  <2>8. Moves(NoEntry, r)
    BY <2>4, <2>7, Ranks DEF Moves, Local, Parking, NoEntry
  <2>9. EntriesMove /\ entries'[e] = r
    BY <2>2, <2>3, <2>8, EntryChanges DEF EntriesMove, Becomes, IInv, TypeOK
  <2> HIDE DEF r
  <2> QED BY <2>2, <2>4, <2>7, <2>9, JoinsMoves DEF ResidentMoves
<1>2. CASE resident # 0
  <2>1. UNCHANGED <<entries, resident>>
    BY <1>2 DEF LooksUp
  <2>2. EntriesMove /\ ResidentMoves
    BY <2>1, UnchangedMove
  <2>3. resident \in Entries /\ entries'[resident].tenure # 0
    BY <1>2, <2>1 DEF IInv, TypeOK, ResidentInv
  <2>4. CASE Answered(c)
    BY <2>2, <2>4, AnsweredMoves
  <2>5. ASSUME NEW pc \in {"await", "evict", "unload"}, Joins(c, t, pc, resident)
        PROVE  CallerMoves(c)
    BY <2>3, <2>5, JoinsMoves
  <2> QED BY <1>2, <2>2, <2>4, <2>5 DEF LooksUp
<1> QED BY <1>1, <1>2

LEMMA LooksUpAgainMoves ==
  ASSUME IInv, NEW c \in Callers, NEW t \in Tenures, LooksUpAgain(c, t)
  PROVE  EntriesMove /\ ResidentMoves /\ CallerMoves(c)
  BY LooksUpMoves, AnsweredMoves, UnchangedMove DEF LooksUpAgain

LEMMA CallStep ==
  ASSUME IInv, NEW c \in Callers,
         LookupEvicts(c) \/ Unloaded(c) \/ LoadAwaited(c) \/ LoadAwaitFails(c)
           \/ Acquire(c) \/ DeliverWake(c) \/ Release(c)
  PROVE  Step
<1> DEFINE e == callers[c].entry  t == callers[c].tenure
<1>1. /\ callers[c].pc \notin {"idle", "answered"} /\ t \in Tenures /\ e \in Entries /\ entries[e].tenure # 0
  <2>1. callers[c].pc \notin {"idle", "answered"}
    BY DEF LookupEvicts, Unloaded, LoadAwaited, LoadAwaitFails, Acquire, DeliverWake, Release, At
  <2> QED BY <2>1 DEF IInv, CallersInv
<1>2. Good(entries[e]) /\ Moves(entries[e], entries[e])
  BY <1>1, MovesReflexive DEF IInv, TypeOK, Good
<1>3. ASSUME NEW r, Moves(entries[e], r), Becomes(e, r)
      PROVE  EntriesMove
  BY <1>1, <1>3, EntryChanges DEF EntriesMove
<1>4. tenures \in [Tenures -> TenureType] /\ current \in Tenures \union {0}
  BY DEF IInv, TypeOK
<1>5. LookupEvicts(c) => Step
  <2> SUFFICES ASSUME LookupEvicts(c) PROVE Step
    OBVIOUS
  <2>1. Moves(entries[e], Evicting(entries[e], "disposed"))
    BY <1>2, EvictingMoves
  <2>2. EntriesMove
    BY <1>3, <2>1 DEF LookupEvicts
  <2>3. ResidentMoves /\ CallerMoves(c)
    BY <1>1, <2>2, UnchangedMove, GoesMoves DEF LookupEvicts
  <2> QED BY <1>4, <2>2, <2>3, CallersStep DEF LookupEvicts
<1>6. Unloaded(c) => Step
  BY <1>1, <1>4, LooksUpAgainMoves, CallersStep DEF Unloaded
<1>7. LoadAwaited(c) => Step
  <2> SUFFICES ASSUME LoadAwaited(c) PROVE Step
    OBVIOUS
  <2>1. CASE LooksUpAgain(c, t)
    BY <1>1, <1>4, <2>1, LooksUpAgainMoves, CallersStep DEF LoadAwaited
  <2>2. ASSUME NEW r \in {Forgotten(entries[e]), [entries[e] EXCEPT !.cache = "ready"], entries[e]}, Becomes(e, r),
               resident' \in {resident, 0}, Answered(c) \/ Goes(c, "got")
        PROVE  Step
    <3>1. [entries[e] EXCEPT !.cache = "ready"] \in EntryType
      BY <1>2 DEF Good, EntryType
    <3>2. Moves(entries[e], [entries[e] EXCEPT !.cache = "ready"])
      BY <1>2, <3>1, SameMoves DEF Good, EntryType
    <3>3. EntriesMove /\ ResidentMoves
      BY <1>2, <1>3, <2>2, <3>2, ForgottenMoves, UnchangedMove
    <3>4. CallerMoves(c)
      BY <1>1, <2>2, <3>3, AnsweredMoves, GoesMoves
    <3> QED BY <1>4, <3>3, <3>4, CallersStep DEF LoadAwaited
  <2> QED BY <2>1, <2>2 DEF LoadAwaited, Drops
<1>8. LoadAwaitFails(c) => Step
  <2> SUFFICES ASSUME LoadAwaitFails(c) PROVE Step
    OBVIOUS
  <2>1. Becomes(e, Forgotten(entries[e])) /\ resident' \in {resident, 0} /\ Answered(c)
    BY DEF LoadAwaitFails, Drops
  <2>2. EntriesMove /\ ResidentMoves /\ CallerMoves(c)
    BY <1>2, <1>3, <2>1, ForgottenMoves, UnchangedMove, AnsweredMoves
  <2>3. /\ tenures' \in {tenures, [tenures EXCEPT ![t].state = "lost"]}
        /\ current' \in {current, 0} /\ UNCHANGED <<shutdown, log, upsets>>
    BY DEF LoadAwaitFails
  <2>4. tenures' \in [Tenures -> TenureType]
    BY <1>4, <2>3 DEF TenureType
  <2> QED BY <1>4, <2>2, <2>3, <2>4, CallersStep
<1>9. Acquire(c) => Step
  <2> SUFFICES ASSUME Acquire(c) PROVE Step
    OBVIOUS
  <2>1. CASE LooksUpAgain(c, t)
    BY <1>1, <1>4, <2>1, LooksUpAgainMoves, CallersStep DEF Acquire
  <2>2. ASSUME NEW pc \in {"unload", "holding", "bare"}, Answered(c) \/ Goes(c, pc), UNCHANGED <<entries, resident>>
        PROVE  Step
    <3>1. EntriesMove /\ ResidentMoves /\ CallerMoves(c)
      BY <1>1, <2>2, UnchangedMove, AnsweredMoves, GoesMoves
    <3> QED BY <1>4, <3>1, CallersStep DEF Acquire
  <2> QED BY <2>1, <2>2 DEF Acquire
<1>10. DeliverWake(c) \/ Release(c) => Step
  <2> SUFFICES ASSUME DeliverWake(c) \/ Release(c) PROVE Step
    OBVIOUS
  <2>1. /\ Answered(c) \/ Goes(c, "holding")
        /\ UNCHANGED <<tenures, current, entries, resident, shutdown, log, upsets>>
    BY DEF DeliverWake, Release
  <2>2. EntriesMove /\ ResidentMoves /\ CallerMoves(c)
    BY <1>1, <2>1, UnchangedMove, AnsweredMoves, GoesMoves
  <2> QED BY <1>4, <2>1, <2>2, CallersStep
<1> QED BY <1>5, <1>6, <1>7, <1>8, <1>9, <1>10

LEMMA AskStep == ASSUME IInv, NEW c \in Callers, Ask(c) PROVE Step
<1>1. tenures \in [Tenures -> TenureType] /\ current \in Tenures \union {0}
  BY DEF IInv, TypeOK
<1>2. UNCHANGED <<shutdown, log, upsets>>
  BY DEF Ask
<1>3. ASSUME NEW t \in Tenures, Opened(t, TRUE), LooksUp(c, t)
      PROVE  Step
  <2>1. tenures' \in [Tenures -> TenureType] /\ current' \in Tenures \union {0}
    BY <1>1, <1>3 DEF Opened, TenureType
  <2> QED BY <1>2, <1>3, <2>1, LooksUpMoves, CallersStep
<1>4. ASSUME current # 0, LooksUpAgain(c, current), UNCHANGED <<tenures, current>>
      PROVE  Step
  BY <1>1, <1>2, <1>4, LooksUpAgainMoves, CallersStep
<1>5. ASSUME Answered(c), UNCHANGED <<tenures, current, entries, resident>>
      PROVE  Step
  <2>1. EntriesMove /\ ResidentMoves /\ CallerMoves(c)
    BY <1>5, UnchangedMove, AnsweredMoves
  <2> QED BY <1>1, <1>2, <1>5, <2>1, CallersStep
<1> QED BY <1>3, <1>4, <1>5 DEF Ask

-----------------------------------------------------------------------------
(* The actions of the host and of a park. *)
LEMMA HostStep ==
  ASSUME IInv, EntriesMove, tenures' \in [Tenures -> TenureType], current' \in Tenures \union {0},
         shutdown' \in {"no", "running", "done"}, upsets' \in Nat, UNCHANGED <<log, callers>>,
         resident' \in {resident, 0}
  PROVE  Step
<1>1. CallersInv'
  BY DEF IInv, CallersInv, EntriesMove, Moves
<1> QED BY <1>1, UnchangedMove, MovesStep DEF EntriesMove, ResidentMoves, ResidentInv, IInv, TypeOK

LEMMA Blank ==
  ASSUME IInv, NEW e \in Entries
  PROVE  /\ entries[e] \in EntryType /\ Moves(entries[e], entries[e])
         /\ entries[e] = NoEntry \/ Good(entries[e])
  BY MadeIsGood, MovesReflexive DEF IInv, TypeOK

LEMMA ClearedMoves == ASSUME IInv, NEW t, entries' = Cleared(t) PROVE EntriesMove
<1> SUFFICES ASSUME NEW e \in Entries
             PROVE  entries'[e] \in EntryType /\ Moves(entries[e], entries'[e])
  BY DEF Cleared, EntriesMove
<1> DEFINE r == [entries[e] EXCEPT !.retained = FALSE]
<1>1. entries'[e] \in {entries[e], r}
  BY DEF Cleared
<1>2. r \in EntryType /\ r.tenure = entries[e].tenure /\ r.activity = entries[e].activity /\ r.job = entries[e].job
  <2>1. entries[e] \in EntryType
    BY Blank
  <2>2. r \in EntryType
    BY <2>1 DEF EntryType
  <2> QED BY <2>1, <2>2 DEF EntryType
<1>3. CASE Good(entries[e])
  BY <1>1, <1>2, <1>3, Blank, SameMoves
<1>4. CASE entries[e] = NoEntry
  <2>1. NoEntry \in EntryType /\ NoEntry.retained = FALSE
    BY <1>4, Blank DEF NoEntry
  <2>2. [NoEntry EXCEPT !.retained = FALSE] = NoEntry
    BY <2>1 DEF EntryType
  <2>3. r = [NoEntry EXCEPT !.retained = FALSE]
    BY <1>4
  <2> QED BY <1>1, <1>4, <2>2, <2>3, Blank
<1> QED BY <1>3, <1>4, Blank

LEMMA ActivateStep == ASSUME IInv, Activate PROVE Step
<1>1. PICK t \in Tenures : Opened(t, FALSE)
  BY DEF Activate
<1>2. tenures' \in [Tenures -> TenureType] /\ current' \in Tenures \union {0}
  BY <1>1 DEF Opened, TenureType, IInv, TypeOK
<1> QED BY <1>2, ClearedMoves, HostStep DEF Activate, IInv, TypeOK

LEMMA ParkStartsMoves ==
  ASSUME NEW r, Good(r), r.job = "none"
  PROVE  Moves(r, ParkStarts(r))
<1> DEFINE a == IF r.activity = "ready" THEN "parking" ELSE r.activity
           p == [r EXCEPT !.activity = a]
           j == IF p.activity = "revoked" THEN "gone"
                ELSE IF p.cache # "evicting" THEN "load"
                ELSE IF p.cause # "idle" THEN "gone"
                ELSE "unload"
<1>1. r \in EntryType /\ r.activity \in Activities
  BY DEF Good, EntryType
<1>2. a \in Activities /\ Rank[a] >= Rank[r.activity]
  <2>1. "parking" \in Activities
    BY DEF Activities
  <2>2. CASE r.activity = "ready"
    BY <2>1, <2>2, Ranks
  <2>3. CASE r.activity # "ready"
    BY <1>1, <2>3, Ranks
  <2> QED BY <2>2, <2>3
<1>3. p \in EntryType /\ p.activity = a /\ p.tenure = r.tenure
  BY <1>1, <1>2 DEF EntryType
<1>4. j \in ParkSteps /\ (j \in Parking => a # "revoked")
  BY <1>3 DEF ParkSteps, Parking
<1>5. ParkStarts(r) = [p EXCEPT !.job = j]
  BY DEF ParkStarts
<1> HIDE DEF p, j, a
<1>6. ParkStarts(r) \in EntryType /\ ParkStarts(r).activity = a /\ ParkStarts(r).tenure = r.tenure /\ ParkStarts(r).job = j
  BY <1>3, <1>4, <1>5 DEF EntryType
<1> QED BY <1>2, <1>4, <1>6 DEF Good, Moves, Local

LEMMA BeginParkStep == ASSUME IInv, NEW t \in Tenures, BeginPark(t) PROVE Step
<1> DEFINE live == {e \in Retained(t) : entries[e].activity # "disposed"}
<1>1. /\ tenures' \in {[tenures EXCEPT ![t].state = s, ![t].park = p] :
                        s \in {"parking", "released"}, p \in {"terminal", "resolved", "pending"}}
      /\ upsets' \in Nat /\ UNCHANGED <<current, resident, shutdown, log, callers>>
  BY UpsetType DEF BeginPark
<1>2. tenures' \in [Tenures -> TenureType]
  BY <1>1 DEF TenureType, IInv, TypeOK
<1>3. \/ UNCHANGED entries \/ entries' = Cleared(t)
      \/ entries' = [e \in Entries |->
           IF e \in live /\ entries[e].job = "none" THEN ParkStarts(entries[e]) ELSE entries[e]]
  BY DEF BeginPark
<1>4. ASSUME entries' = [e \in Entries |->
               IF e \in live /\ entries[e].job = "none" THEN ParkStarts(entries[e]) ELSE entries[e]]
      PROVE  EntriesMove
  <2> SUFFICES ASSUME NEW e \in Entries
               PROVE  entries'[e] \in EntryType /\ Moves(entries[e], entries'[e])
    BY <1>4 DEF EntriesMove
  <2>1. CASE e \in live /\ entries[e].job = "none"
    <3>1. Good(entries[e])
      BY <2>1, Blank DEF Retained, NoEntry
    <3> QED BY <1>4, <2>1, <3>1, ParkStartsMoves DEF Moves
  <2>2. CASE ~(e \in live /\ entries[e].job = "none")
    BY <1>4, <2>2, Blank
  <2> QED BY <2>1, <2>2
<1>5. EntriesMove
  BY <1>3, <1>4, ClearedMoves, UnchangedMove
<1> QED BY <1>1, <1>2, <1>5, HostStep DEF IInv, TypeOK

LEMMA RevokeSessionStep == ASSUME IInv, NEW t \in Tenures, RevokeSession(t) PROVE Step
<1>1. tenures' \in [Tenures -> TenureType]
  BY DEF RevokeSession, TenureType, IInv, TypeOK
<1>2. resident' \in {resident, 0} /\ upsets' \in Nat /\ UNCHANGED <<current, shutdown, log, callers>>
  BY UpsetType DEF RevokeSession
<1>3. EntriesMove
  <2> SUFFICES ASSUME NEW e \in Entries
               PROVE  entries'[e] \in EntryType /\ Moves(entries[e], entries'[e])
    BY DEF RevokeSession, EntriesMove
  <2>1. CASE e \in Retained(t)
    <3>1. Good(entries[e])
      BY <2>1, Blank DEF Retained, NoEntry
    <3>2. Good(Revoked(entries[e])) /\ Moves(entries[e], Revoked(entries[e]))
      BY <3>1, RevokedMoves
    <3>3. Moves(entries[e], Forgotten(Revoked(entries[e])))
      BY <3>1, <3>2, ForgottenMoves, MovesTransitive DEF Good
    <3>4. entries'[e] \in {Revoked(entries[e]), Forgotten(Revoked(entries[e]))}
      BY <2>1 DEF RevokeSession
    <3> QED BY <3>2, <3>3, <3>4 DEF Moves
  <2>2. CASE e \notin Retained(t)
    BY <2>2, Blank DEF RevokeSession
  <2> QED BY <2>1, <2>2
<1> QED BY <1>1, <1>2, <1>3, HostStep DEF IInv, TypeOK

LEMMA ShutdownStep == ASSUME IInv, ShutdownBegins \/ ShutdownEnds PROVE Step
<1>1. /\ resident' \in {resident, 0} /\ upsets' \in Nat /\ shutdown' \in {"running", "done"}
      /\ UNCHANGED <<tenures, current, entries, log, callers>>
  BY UpsetType DEF ShutdownBegins, ShutdownEnds, IInv, TypeOK
<1> QED BY <1>1, UnchangedMove, HostStep DEF IInv, TypeOK

LEMMA ParkResolvesStep == ASSUME IInv, NEW t \in Tenures, ParkResolves(t) PROVE Step
<1>1. tenures' \in [Tenures -> TenureType]
  BY DEF ParkResolves, TenureType, IInv, TypeOK
<1>2. EntriesMove
  BY ClearedMoves, UnchangedMove DEF ParkResolves
<1> QED BY <1>1, <1>2, HostStep DEF ParkResolves, IInv, TypeOK

LEMMA ParkRejectsStep == ASSUME IInv, NEW t \in Tenures, ParkRejects(t) PROVE Step
<1>1. tenures' \in [Tenures -> TenureType] /\ UNCHANGED <<current, resident, shutdown, log, callers, upsets>>
  BY DEF ParkRejects, TenureType, IInv, TypeOK
<1>2. PICK again \in BOOLEAN :
        entries' = [f \in Entries |->
          IF again /\ f \in Jobs(t) /\ entries[f].job \in {"done", "failed"}
          THEN [entries[f] EXCEPT !.job = "none"] ELSE entries[f]]
  BY DEF ParkRejects
<1>3. EntriesMove
  <2> SUFFICES ASSUME NEW e \in Entries
               PROVE  entries'[e] \in EntryType /\ Moves(entries[e], entries'[e])
    BY <1>2 DEF EntriesMove
  <2> DEFINE r == [entries[e] EXCEPT !.job = "none"]
  <2>1. r \in EntryType /\ r.tenure = entries[e].tenure /\ r.activity = entries[e].activity /\ r.job = "none"
    BY Blank DEF EntryType, ParkSteps
  <2>2. CASE again /\ e \in Jobs(t) /\ entries[e].job \in {"done", "failed"}
    <3>1. Good(entries[e])
      BY <2>2, Blank DEF NoEntry
    <3>2. Moves(entries[e], r)
      BY <2>1, <3>1, SameMoves DEF Parking
    <3> QED BY <1>2, <2>1, <2>2, <3>2
  <2>3. CASE ~(again /\ e \in Jobs(t) /\ entries[e].job \in {"done", "failed"})
    BY <1>2, <2>3, Blank
  <2> QED BY <2>2, <2>3
<1> QED BY <1>1, <1>3, HostStep DEF IInv, TypeOK

-----------------------------------------------------------------------------
(* Nothing is activated, cached or asked for yet. *)
LEMMA InvariantHolds == Init => IInv
<1> SUFFICES ASSUME Init PROVE IInv
  OBVIOUS
<1>1. NoTenure \in TenureType
  BY DEF NoTenure, TenureType
<1>2. NoEntry \in EntryType
  BY DEF NoEntry, EntryType, Loads, Failures, Stores, Activities, Disposals, Causes, ParkSteps
<1>3. Idle \in CallerType
  BY DEF Idle, CallerType
<1>4. TypeOK
  BY <1>1, <1>2, <1>3, RuntimeAssumption DEF Init, TypeOK
<1>5. \A e \in Entries : Local(entries[e])
  BY DEF Init, Local, NoEntry, Parking
<1>6. CallersInv /\ ResidentInv
  BY DEF Init, CallersInv, ResidentInv, Idle
<1> QED BY <1>4, <1>5, <1>6 DEF IInv

(* Every action keeps the invariant and takes no entry back into service. *)
LEMMA NextStep == IInv /\ [Next]_vars => Step
<1> SUFFICES ASSUME IInv, [Next]_vars PROVE Step
  OBVIOUS
<1>1. CASE Host \/ ShutdownEnds
  BY <1>1, ActivateStep, ShutdownStep, BeginParkStep, RevokeSessionStep DEF Host
<1>2. ASSUME NEW t \in Tenures, ParkResolves(t) \/ ParkRejects(t)
      PROVE  Step
  BY <1>2, ParkResolvesStep, ParkRejectsStep
<1>3. ASSUME NEW c \in Callers, Ask(c) \/ CallerStep(c) \/ CloseSession(c)
      PROVE  Step
  BY <1>3, AskStep, CallStep, CloseSessionStep DEF CallerStep
<1>4. ASSUME NEW e \in Entries, Load(e)
      PROVE  Step
  BY <1>4, LoadReadsStep, LoadBuildsStep, RecoveredStep, RecoveryFailsStep, CreateAppendsStep, CreateLandsStep,
     SessionStartsStep, HooksEndStep, UnwoundStep DEF Load
<1>5. ASSUME NEW e \in Entries, Park(e)
      PROVE  Step
  BY <1>5, ParkLoadedStep, ParkUnloadedStep, ParkHooksEndStep, ParkDrainsStep, ParkCleanupEndsStep,
     ParkSettlesStep DEF Park
<1>6. ASSUME NEW e \in Entries, Disposal(e) \/ ShutdownDisposes(e) \/ Forget(e) \/ SweepBegins(e)
      PROVE  Step
  BY <1>6, EvictionStep, DisposalStartsStep, DisposalEndsStep, SweepBeginsStep DEF Disposal
<1>7. ASSUME NEW e \in Entries, WriteStarts(e) \/ WriteSettles(e) \/ WriteFences(e) \/ CleanupEnds(e)
      PROVE  Step
  BY <1>7, WriteStartsStep, WriteSettlesStep, WriteFencesStep, CleanupEndsStep
<1>8. CASE UNCHANGED vars
  <2>1. UNCHANGED <<tenures, current, entries, resident, shutdown, log, callers, upsets>>
    BY <1>8 DEF vars
  <2> QED BY <2>1, UnchangedMove, HostStep DEF IInv, TypeOK
<1> QED BY <1>1, <1>2, <1>3, <1>4, <1>5, <1>6, <1>7, <1>8 DEF Next

(* IInv holds initially and every action keeps it. *)
THEOREM InductiveInvariant == Spec => []IInv
<1>1. IInv /\ [Next]_vars => IInv'
  BY NextStep DEF Step
<1> QED BY <1>1, InvariantHolds, PTL DEF Spec

(* Every variable keeps its type: the tenures, the entries with their runtimes, the calls. *)
THEOREM TypesHold == Spec => []TypeOK
<1>1. IInv => TypeOK
  BY DEF IInv
<1> QED BY <1>1, InductiveInvariant, PTL

(* RuntimeActivity: from ready over parking and unloading to disposed, and from any of them to
   revoked, never back, whatever parks, disposals and revocations meet on a runtime. *)
THEOREM NeverBackInServiceHolds == Spec => NeverBackInService
<1>1. IInv /\ [Next]_vars => \A e \in Entries : Rank[entries'[e].activity] >= Rank[entries[e].activity]
  BY NextStep DEF Step
<1> QED BY <1>1, InductiveInvariant, PTL DEF Spec, NeverBackInService
=============================================================================
