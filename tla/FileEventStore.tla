--------------------------- MODULE FileEventStore ---------------------------
(***************************************************************************)
(* FileEventStore (core/events/file.ts over base-event-store.ts): the log  *)
(* of one session in events.jsonl, a line per event, and the counters      *)
(* derived from it in meta.json.  A store object lives in a process; hosts *)
(* hand the session over and each loads it before it appends, as the       *)
(* single-writer contract of the class asks.  The file system is external: *)
(* an append reaches the disk line by line and may fail or be cut short by *)
(* a crash anywhere, a rename is atomic, a write of meta.json is not.      *)
(*                                                                         *)
(* Operations of one store on one session are serialized, so at most one   *)
(* is under way.  Of the counters only totalEvents is kept: loadRange      *)
(* computes a poller's cursor from it.  Left out: listing, tags and names, *)
(* lines that do not parse.                                                *)
(***************************************************************************)
EXTENDS Naturals, Integers, Sequences, FiniteSets

CONSTANTS
  Writes,     \* calls of append and appendBatch
  Created,    \* the one that creates the session
  Size,       \* how many events each has
  Hosts,      \* processes with a store of their own
  MaxFaults   \* bound: crashes and failing calls of the file system

ASSUME FileAssumption ==
  /\ Created \in Writes
  /\ Writes \intersect {"none", "garbage"} = {}   \* names of what is no line of a write
  /\ Size \in [Writes -> Nat \ {0}]
  /\ MaxFaults \in Nat

VARIABLES
  lines,    \* the complete lines of events.jsonl
  torn,     \* what follows the last newline
  meta,     \* meta.json: its totalEvents, Missing, or Corrupt
  sizes,    \* committedSizes of each store, in lines; Unknown if not cached
  stale,    \* staleMetadata
  cache,    \* metadataCache: a total, or Missing
  owner, ready,  \* the host whose turn it is, and whether it may append
  op,       \* the operation under way
  answer,   \* what each write resolved to
  decided,  \* how many lines a load or an append has established as committed
  faults

disk   == <<lines, torn, meta>>
memory == <<sizes, stale, cache>>
vars   == <<disk, memory, owner, ready, op, answer, decided, faults>>

None    == <<"none", 0>>
Garbage == <<"garbage", 0>>   \* two lines glued together
Missing == -1
Corrupt == -2
Unknown == -1

Line(w, i) == <<w, i>>
NoOp       == [step |-> "none", write |-> Created, base |-> 0]

Init ==
  /\ lines = <<>> /\ torn = None /\ meta = Missing
  /\ sizes = [h \in Hosts |-> Unknown]
  /\ stale = [h \in Hosts |-> FALSE]
  /\ cache = [h \in Hosts |-> Missing]
  /\ owner \in Hosts /\ ready = FALSE
  /\ op = NoOp
  /\ answer = [w \in Writes |-> "new"]
  /\ decided = 0
  /\ faults = MaxFaults

Fault == faults > 0 /\ faults' = faults - 1

At(step) == op.step = step
Goes(step) == op' = [op EXCEPT !.step = step]

Remembers(size) == sizes' = [sizes EXCEPT ![owner] = size]

Answers(a) == answer' = [answer EXCEPT ![op.write] = a] /\ op' = NoOp

-----------------------------------------------------------------------------
(* doAppendBatch *)

(* createSession appends to a log that does not exist, everyone else after a load. *)
AppendBegins(w) ==
  /\ At("none") /\ answer[w] = "new"
  /\ IF w = Created THEN lines = <<>> /\ torn = None /\ ~ready ELSE ready
  /\ op' = [step |-> "size", write |-> w, base |-> 0]
  /\ answer' = [answer EXCEPT ![w] = "asked"]
  /\ UNCHANGED <<disk, memory, owner, ready, decided, faults>>

(* committedSize, from memory or from the file, which loses a torn tail. *)
TakesSize ==
  /\ At("size")
  /\ \/ /\ sizes[owner] # Unknown
        /\ op' = [op EXCEPT !.step = "write", !.base = sizes[owner]]
        /\ UNCHANGED <<torn, sizes, answer, decided, faults>>
     \/ /\ sizes[owner] = Unknown
        /\ torn' = None
        /\ op' = [op EXCEPT !.step = "write", !.base = Len(lines)]
        /\ Remembers(Len(lines)) /\ decided' = Len(lines)
        /\ UNCHANGED <<answer, faults>>
     \/ /\ sizes[owner] = Unknown /\ Fault
        /\ Answers("refused")
        /\ UNCHANGED <<torn, sizes, decided>>
  /\ UNCHANGED <<lines, meta, stale, cache, owner, ready>>

Written(w) == Cardinality({i \in 1..Len(lines) : lines[i][1] = w})

(* appendFile is at work: the next line reaches the disk in part, then with its newline.  Bytes *)
(* written behind a torn tail complete that line instead.                                       *)
AppendProgresses ==
  LET next == Line(op.write, Written(op.write) + 1)
  IN  /\ At("write") /\ Written(op.write) < Size[op.write]
      /\ IF torn = None THEN torn' = next /\ UNCHANGED lines
         ELSE /\ lines' = Append(lines, IF torn = next THEN next ELSE Garbage)
              /\ torn' = None
      /\ UNCHANGED <<meta, memory, owner, ready, op, answer, decided, faults>>

AppendEnds ==
  /\ At("write") /\ Written(op.write) = Size[op.write]
  /\ Goes("meta")
  /\ Remembers(op.base + Size[op.write]) /\ decided' = Len(lines)
  /\ UNCHANGED <<disk, stale, cache, owner, ready, answer, faults>>

AppendFails ==
  /\ At("write") /\ Fault
  /\ Goes("rollback") /\ Remembers(Unknown)
  /\ UNCHANGED <<disk, stale, cache, owner, ready, answer, decided>>

(* Seeded fault: a rollback that failed is taken for one that worked. *)
RollBack_Trusting ==
  /\ At("rollback")
  /\ \/ /\ lines' = SubSeq(lines, 1, op.base) /\ torn' = None
        /\ UNCHANGED faults
     \/ Fault /\ UNCHANGED <<lines, torn>>
  /\ Remembers(op.base) /\ Answers("refused")
  /\ UNCHANGED <<meta, stale, cache, owner, ready, decided>>

(* rollBack: what follows the committed lines must be this append's own bytes. *)
RollBack ==
  /\ At("rollback")
  /\ \/ /\ Len(lines) >= op.base
        /\ \A i \in 1..Len(lines) : i > op.base => lines[i] = Line(op.write, i - op.base)
        /\ torn \in {None, Line(op.write, Len(lines) - op.base + 1)}
        /\ lines' = SubSeq(lines, 1, op.base) /\ torn' = None
        /\ Remembers(op.base) /\ Answers("refused")
        /\ UNCHANGED <<stale, faults>>
     \/ /\ Fault
        /\ stale' = [stale EXCEPT ![owner] = TRUE]
        /\ Answers("unknown")
        /\ UNCHANGED <<lines, torn, sizes>>
  /\ UNCHANGED <<meta, cache, owner, ready, decided>>

-----------------------------------------------------------------------------
(* meta.json *)

(* readMetadata, by this host: a total, or Missing where the code reads null. *)
MetadataOf(h) ==
  IF cache[h] >= 0 THEN cache[h] ELSE IF meta >= 0 THEN meta ELSE Missing

(* A read caches what it found. *)
Reads == cache' = [cache EXCEPT ![owner] = MetadataOf(owner)]

Saves(total) == meta' = total /\ cache' = [cache EXCEPT ![owner] = total]

(* A write of meta.json that fails or is cut short may leave it truncated. *)
MayTruncate == meta' \in {meta, Corrupt}

(* Seeded fault: a lagging record is advanced like any other. *)
UpdatesMetadata_Incremental ==
  /\ At("meta")
  /\ \/ /\ IF op.write = Created THEN Saves(Size[Created])
           ELSE IF MetadataOf(owner) = Missing
           THEN Reads /\ UNCHANGED meta
           ELSE Saves(MetadataOf(owner) + Size[op.write])
        /\ UNCHANGED faults
     \/ /\ Fault /\ MayTruncate
        /\ Reads
  /\ Answers("ok")
  /\ ready' = TRUE
  /\ UNCHANGED <<lines, torn, sizes, stale, owner, decided>>

(* The append is committed whatever becomes of the counters: advanced, or rebuilt from the log *)
(* if an earlier append missed them.  A record that cannot be read is not advanced.            *)
UpdatesMetadata ==
  /\ At("meta")
  /\ \/ /\ ~stale[owner]
        /\ IF op.write = Created THEN Saves(Size[Created])
           ELSE IF MetadataOf(owner) = Missing
           THEN Reads /\ UNCHANGED meta
           ELSE Saves(MetadataOf(owner) + Size[op.write])
        /\ UNCHANGED <<stale, faults>>
     \/ /\ stale[owner]
        /\ IF MetadataOf(owner) = Len(lines)
           THEN Reads /\ UNCHANGED meta
           ELSE Saves(Len(lines))
        /\ stale' = [stale EXCEPT ![owner] = FALSE]
        /\ UNCHANGED faults
     \/ /\ Fault /\ MayTruncate
        /\ Reads
        /\ stale' = [stale EXCEPT ![owner] = TRUE]
  /\ Answers("ok")
  /\ ready' = TRUE
  /\ UNCHANGED <<lines, torn, sizes, owner, decided>>

-----------------------------------------------------------------------------
(* SessionManager.loadSession: load, then SessionStore.fromEvents reconciles the counters. *)

(* Seeded fault: a torn tail does not keep the length from being cached. *)
LoadReads_Torn ==
  /\ At("none") /\ ~ready /\ lines # <<>>
  /\ op' = [step |-> "reconcile", write |-> Created, base |-> Len(lines)]
  /\ Remembers(Len(lines))
  /\ decided' = Len(lines)
  /\ UNCHANGED <<disk, stale, cache, owner, ready, answer, faults>>

(* readEvents ignores a torn tail and leaves it to the next append. *)
LoadReads ==
  /\ At("none") /\ ~ready /\ lines # <<>>
  /\ op' = [step |-> "reconcile", write |-> Created, base |-> Len(lines)]
  /\ Remembers(IF torn = None THEN Len(lines) ELSE Unknown)
  /\ decided' = Len(lines)
  /\ UNCHANGED <<disk, stale, cache, owner, ready, answer, faults>>

(* reconcileMetadata; where it fails, so does the load. *)
Reconciles ==
  /\ At("reconcile")
  /\ \/ /\ IF MetadataOf(owner) = op.base
           THEN Reads /\ UNCHANGED meta
           ELSE Saves(op.base)
        /\ stale' = [stale EXCEPT ![owner] = FALSE]
        /\ ready' = TRUE
        /\ UNCHANGED faults
     \/ /\ Fault /\ MayTruncate
        /\ Reads
        /\ UNCHANGED <<stale, ready>>
  /\ op' = NoOp
  /\ UNCHANGED <<lines, torn, sizes, owner, answer, decided>>

(* The runtime whose append has an unknown outcome stops; the next one loads. *)
Reloads ==
  /\ At("none") /\ ready
  /\ ready' = FALSE
  /\ UNCHANGED <<disk, memory, owner, op, answer, decided, faults>>

(* Another host takes the session over once this one is done with it. *)
HandsOver(h) ==
  /\ At("none") /\ h # owner
  /\ owner' = h /\ ready' = FALSE
  /\ UNCHANGED <<disk, memory, op, answer, decided, faults>>

(* A process dies: memory is gone, the disk stays as the operation left it. *)
Crash(h) ==
  /\ Fault
  /\ sizes' = [sizes EXCEPT ![h] = Unknown]
  /\ stale' = [stale EXCEPT ![h] = FALSE]
  /\ cache' = [cache EXCEPT ![h] = Missing]
  /\ IF h = owner
     THEN /\ ready' = FALSE /\ op' = NoOp
          /\ answer' = IF op.step \in {"size", "write", "rollback", "meta"}
                       THEN [answer EXCEPT ![op.write] = "unknown"] ELSE answer
          /\ IF op.step \in {"meta", "reconcile"} THEN MayTruncate \/ meta' = Len(lines) ELSE UNCHANGED meta
     ELSE UNCHANGED <<ready, op, answer, meta>>
  /\ UNCHANGED <<lines, torn, owner, decided>>

Next ==
  \/ \E w \in Writes : AppendBegins(w)
  \/ TakesSize \/ AppendProgresses \/ AppendEnds \/ AppendFails \/ RollBack \/ UpdatesMetadata
  \/ LoadReads \/ Reconciles \/ Reloads
  \/ \E h \in Hosts : HandsOver(h) \/ Crash(h)

Spec == Init /\ [][Next]_vars

-----------------------------------------------------------------------------
(* readRange: a count from the counters, then events counted from the end of the log. *)
Ranges == [since : -1..Len(lines), limit : 1..(Len(lines) + 1)]

Min2(a, b) == IF a < b THEN a ELSE b

RangeOf(total, r) ==
  LET from   == r.since + 1
      needed == Min2(r.limit, total - from)
      whole  == SubSeq(lines, from + 1, Min2(from + r.limit, Len(lines)))
      tail   == SubSeq(lines, Len(lines) - Min2(needed, Len(lines)) + 1, Len(lines))
  IN  IF r.since >= total - 1 THEN [events |-> <<>>, from |-> -1, to |-> total - 1]
      ELSE IF 2 * needed > total \/ from + needed < total
      THEN [events |-> whole, from |-> IF whole = <<>> THEN -1 ELSE from,
            to |-> IF whole = <<>> THEN total - 1 ELSE from + Len(whole) - 1]
      ELSE [events |-> tail, from |-> total - Len(tail), to |-> total - 1]

(* Stale counters are rebuilt first. *)
TotalOf(h) == IF stale[h] THEN Len(lines) ELSE IF MetadataOf(h) >= 0 THEN MetadataOf(h) ELSE 0

(* What a poller relies on: the events it is given are those after its cursor, under their own *)
(* indices, and nothing is withheld.                                                            *)
Exact(answered, r) ==
  IF r.since >= Len(lines) - 1
  THEN answered.events = <<>> /\ answered.to = Len(lines) - 1
  ELSE /\ answered.from = r.since + 1
       /\ answered.events # <<>>
       /\ answered.to = answered.from + Len(answered.events) - 1
       /\ answered.events = SubSeq(lines, answered.from + 1, answered.to + 1)

-----------------------------------------------------------------------------
(***************************************************************************)
(* The log holds each write at most once, its lines in order and together: *)
(* all of a write that was acknowledged, none of one that was refused, and *)
(* part of one only if a crash or a failed rollback cut it short.  No line *)
(* is ever glued to what an interrupted append left behind.                *)
(***************************************************************************)
LogIsWhole ==
  /\ \A i \in 1..Len(lines) :
       /\ lines[i] # Garbage
       /\ lines[i][2] > 1 => i > 1 /\ lines[i - 1] = Line(lines[i][1], lines[i][2] - 1)
       /\ \A j \in 1..Len(lines) : lines[i] = lines[j] => i = j
  /\ \A w \in Writes :
       /\ answer[w] = "ok" => Written(w) = Size[w]
       /\ answer[w] \in {"new", "refused"} => Written(w) = 0 /\ torn[1] # w

(***************************************************************************)
(* A session that is loaded answers every poll from its log: no event is   *)
(* skipped, repeated or numbered wrongly, although the counters are        *)
(* written after the log, by whoever owned it last, and cached.            *)
(***************************************************************************)
RangesAreExact ==
  ready /\ At("none") => \A r \in Ranges : Exact(RangeOf(TotalOf(owner), r), r)

(***************************************************************************)
(* The store keeps the contract SessionStore builds on, with a write in    *)
(* the abstract log once an append or a load has found all of it there.    *)
(***************************************************************************)
Ends(l) == l # Garbage /\ l[2] = Size[l[1]]

(* Where a write ends that an append or a load has found. *)
Found == {i \in 1..decided : Ends(lines[i])}

Rank(S, i) == Cardinality({j \in S : j <= i})
Nth(S, k)  == CHOOSE i \in S : Rank(S, i) = k

History == [k \in 1..Cardinality(Found) |-> lines[Nth(Found, k)][1]]

Contract == INSTANCE EventLog WITH log <- History, Empty <- {}, Foreign <- None

KeepsTheContract == Contract!LogSpec
=============================================================================
