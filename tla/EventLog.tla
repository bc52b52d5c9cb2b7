------------------------------ MODULE EventLog ------------------------------
(***************************************************************************)
(* What SessionStore promises the callers of emit: one durable log, to     *)
(* which a write is added at most once and as a whole; an acknowledged     *)
(* write is in it, and a refused one is not and never will be.  Only a     *)
(* write that was answered "unknown" may be added after its answer.        *)
(***************************************************************************)
EXTENDS Naturals, Sequences, Functions

CONSTANTS
  Writes,    \* calls of emit or emitBatch
  Empty,     \* those of an empty batch: nothing to add
  Foreign    \* what other hosts write

VARIABLES log, answer

LogInit == log = <<>> /\ answer = [w \in Writes |-> "new"]

Submit(w) ==
  /\ answer[w] = "new"
  /\ answer' = [answer EXCEPT ![w] = "asked"]
  /\ UNCHANGED log

Commit(w) ==
  /\ answer[w] \in {"asked", "unknown"}
  /\ w \notin Range(log)
  /\ log' = Append(log, w)
  /\ UNCHANGED answer

OtherCommits == log' = Append(log, Foreign) /\ UNCHANGED answer

Acknowledge(w) ==
  /\ \/ answer[w] = "asked" /\ w \in Range(log)
     \/ answer[w] = "new" /\ w \in Empty
  /\ answer' = [answer EXCEPT ![w] = "ok"]
  /\ UNCHANGED log

Refuse(w) ==
  /\ answer[w] \in {"new", "asked"}
  /\ w \notin Range(log)
  /\ answer' = [answer EXCEPT ![w] = "refused"]
  /\ UNCHANGED log

(* The callers of S learn nothing of what became of their writes. *)
GiveUp(S) ==
  /\ \A w \in S : answer[w] \in {"new", "asked"}
  /\ answer' = [w \in Writes |-> IF w \in S THEN "unknown" ELSE answer[w]]
  /\ UNCHANGED log

LogNext ==
  \/ \E w \in Writes : Submit(w) \/ Commit(w) \/ Acknowledge(w) \/ Refuse(w)
  \/ OtherCommits
  \/ \E S \in SUBSET Writes : GiveUp(S)

LogSpec == LogInit /\ [][LogNext]_<<log, answer>>
=============================================================================
