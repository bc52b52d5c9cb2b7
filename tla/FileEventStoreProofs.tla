------------------------ MODULE FileEventStoreProofs ------------------------
(***************************************************************************)
(* Proofs of FileEventStore's properties for every set of writes, batch    *)
(* sizes and hosts and any number of faults.                               *)
(*                                                                         *)
(* FileInv says what each step of an operation may count on: the lines     *)
(* beyond op.base are the append's own and in order, a committed length    *)
(* the owner remembers is the log's, and its counters are the log's length *)
(* or known to be stale.  Decided and Ranked add where the history of      *)
(* whole writes stands.                                                    *)
(***************************************************************************)
EXTENDS FileEventStore, FiniteSetTheorems, TLAPS

Steps == {"none", "size", "write", "rollback", "meta", "reconcile"}
Appending == op.step \in {"size", "write", "rollback", "meta"}
Lines == Writes \X (Nat \ {0})

Types ==
  /\ lines \in Seq(Lines) /\ torn \in Lines \union {None}
  /\ meta \in Int /\ sizes \in [Hosts -> Int] /\ cache \in [Hosts -> Int]
  /\ stale \in [Hosts -> BOOLEAN]
  /\ owner \in Hosts /\ ready \in BOOLEAN
  /\ op \in [step : Steps, write : Writes, base : Nat]
  /\ answer \in [Writes -> {"new", "asked", "ok", "refused", "unknown"}]
  /\ decided \in Nat /\ faults \in Nat

Ordered ==
  \A i \in 1..Len(lines) :
    /\ lines[i][2] > 1 => i > 1 /\ lines[i - 1] = Line(lines[i][1], lines[i][2] - 1)
    /\ \A j \in 1..Len(lines) : lines[i] = lines[j] => i = j

(* Nothing of a write has reached the disk. *)
Untouched(w) == (\A i \in 1..Len(lines) : lines[i][1] # w) /\ torn[1] # w

Answered ==
  /\ \A w \in Writes : answer[w] \in {"new", "refused"} => Untouched(w)
  /\ \A w \in Writes : answer[w] = "ok" => Written(w) = Size[w]
  /\ \A w \in Writes : answer[w] = "asked" <=> Appending /\ op.write = w

Reached == Len(lines) - op.base

(* An append under way has written its own lines, in order, behind the log it found. *)
OwnLines ==
  /\ op.base <= Len(lines) /\ Reached <= Size[op.write]
  /\ \A i \in 1..Len(lines) : IF i <= op.base THEN lines[i][1] # op.write ELSE lines[i] = Line(op.write, i - op.base)
  /\ torn # None => torn = Line(op.write, Reached + 1) /\ Reached < Size[op.write]

(* A committed length the owner remembers is the length of a log that is not torn. *)
Settled == sizes[owner] # Unknown => sizes[owner] = Len(lines) /\ torn = None

InFlight ==
  /\ At("size") => Untouched(op.write) /\ Settled
  /\ At("write") => OwnLines
  /\ At("rollback") => OwnLines /\ sizes[owner] = Unknown
  /\ At("meta") => OwnLines /\ Reached = Size[op.write] /\ Settled
  /\ At("reconcile") => op.base = Len(lines) /\ Settled
  /\ At("none") /\ ready => Settled

(* The write that creates the session is the only one made without a load. *)
Creation ==
  /\ answer[Created] = "new" => /\ lines = <<>> /\ torn = None
                              /\ ~ready /\ At("none") /\ \A h \in Hosts : sizes[h] = Unknown
  /\ Appending => op.base = 0 \/ op.write # Created
  /\ Appending => (ready <=> op.write # Created)
  /\ At("size") /\ op.write = Created => lines = <<>>
  /\ At("reconcile") => ~ready

(* The counters read n, or are known to be behind and rebuilt before they are used. *)
Counts(n) == stale[owner] \/ MetadataOf(owner) = n

Counted ==
  /\ ready /\ op.step \in {"none", "size"} => Counts(Len(lines))
  /\ ready /\ op.step \in {"write", "rollback", "meta"} => Counts(op.base)

FileInv == Types /\ Ordered /\ Answered /\ InFlight /\ Creation /\ Counted

-----------------------------------------------------------------------------
LEMMA Appended ==
  ASSUME NEW S, NEW s \in Seq(S), NEW e \in S
  PROVE  /\ Append(s, e) \in Seq(S) /\ Len(Append(s, e)) = Len(s) + 1
         /\ \A i \in 1..Len(s) : Append(s, e)[i] = s[i]
         /\ Append(s, e)[Len(s) + 1] = e
  OBVIOUS

LEMMA Prefix ==
  ASSUME NEW S, NEW s \in Seq(S), NEW n \in Nat, n <= Len(s)
  PROVE  /\ SubSeq(s, 1, n) \in Seq(S) /\ Len(SubSeq(s, 1, n)) = n
         /\ \A i \in 1..n : SubSeq(s, 1, n)[i] = s[i]
  OBVIOUS

LEMMA Sizes == \A w \in Writes : Size[w] \in Nat \ {0}
  BY FileAssumption DEF FileAssumption

LEMMA Names == \A w \in Writes : w # "none" /\ w # "garbage"
  BY FileAssumption DEF FileAssumption

LEMMA LinesOf == \A w \in Writes, i \in Nat \ {0} : /\ Line(w, i) \in Lines /\ Line(w, i)[1] = w /\ Line(w, i)[2] = i
                                                    /\ Line(w, i) # None /\ Line(w, i) # Garbage
  BY Names DEF Line, Lines, None, Garbage

LEMMA NoLine == None[1] = "none" /\ Unknown = -1 /\ \A w \in Writes : None[1] # w
  BY Names DEF None, Unknown

LEMMA IntervalSize ==
  ASSUME NEW a \in Nat, NEW b \in Nat, a <= b
  PROVE  Cardinality((a + 1)..b) = b - a
<1>1. a + 1 \in Int /\ b \in Int
  OBVIOUS
<1>2. Cardinality((a + 1)..b) = IF a + 1 > b THEN 0 ELSE b - (a + 1) + 1
  BY <1>1, FS_Interval
<1> QED BY <1>2

(* The lines of an append under way are those behind its base. *)
LEMMA WrittenSoFar == ASSUME Types, OwnLines PROVE Written(op.write) = Reached
<1>1. {i \in 1..Len(lines) : lines[i][1] = op.write} = (op.base + 1)..Len(lines)
  <2>1. op.base \in Nat /\ op.base <= Len(lines) /\ Len(lines) \in Nat /\ op.write \in Writes
    BY DEF Types, OwnLines
  <2>2. \A i \in 1..Len(lines) : i > op.base => lines[i][1] = op.write
    BY <2>1 DEF OwnLines, Line
  <2>3. \A i \in 1..Len(lines) : i <= op.base => lines[i][1] # op.write
    BY <2>1 DEF OwnLines
  <2> QED BY <2>1, <2>2, <2>3
<1>2. op.base \in Nat /\ Len(lines) \in Nat /\ op.base <= Len(lines)
  BY DEF Types, OwnLines
<1>3. Cardinality((op.base + 1)..Len(lines)) = Len(lines) - op.base
  BY <1>2, IntervalSize
<1> QED BY <1>1, <1>3 DEF Written, Reached

LEMMA InitHolds == ASSUME Init PROVE FileInv
<1>1. Types
  <2>1. lines \in Seq(Lines) /\ torn \in Lines \union {None} /\ meta \in Int
    BY DEF Init, Missing
  <2>2. sizes \in [Hosts -> Int] /\ cache \in [Hosts -> Int] /\ stale \in [Hosts -> BOOLEAN]
    BY DEF Init, Missing, Unknown
  <2>3. op \in [step : Steps, write : Writes, base : Nat]
    BY FileAssumption DEF Init, NoOp, Steps, FileAssumption
  <2> QED BY <2>1, <2>2, <2>3, FileAssumption DEF Init, Types, FileAssumption
<1>2. Ordered /\ Answered
  <2>1. \A w \in Writes : torn[1] # w
    BY NoLine DEF Init
  <2> QED BY <2>1 DEF Init, Ordered, Answered, Untouched, Appending, NoOp
<1>3. InFlight /\ Creation /\ Counted
  BY FileAssumption DEF Init, InFlight, Creation, Counted, At, Appending, NoOp, FileAssumption
<1> QED BY <1>1, <1>2, <1>3 DEF FileInv

LEMMA AppendBeginsKeeps == ASSUME FileInv, NEW w \in Writes, AppendBegins(w) PROVE FileInv'
<1> USE DEF FileInv
<1>1. /\ op.step = "none" /\ answer[w] = "new"
      /\ IF w = Created THEN lines = <<>> /\ torn = None /\ ~ready ELSE ready
      /\ op' = [step |-> "size", write |-> w, base |-> 0]
      /\ answer' = [answer EXCEPT ![w] = "asked"]
      /\ UNCHANGED <<lines, torn, meta, sizes, stale, cache, owner, ready, decided, faults>>
  BY DEF AppendBegins, At, disk, memory
<1>2. op'.step = "size" /\ op'.write = w /\ op'.base = 0
  BY <1>1
<1>3. answer'[w] = "asked" /\ \A v \in Writes : v # w => answer'[v] = answer[v]
  BY <1>1 DEF Types
<1>4. Types'
  BY <1>1 DEF Types, Steps
<1>5. Ordered'
  BY <1>1 DEF Ordered
<1>6. \A v \in Writes : (Untouched(v) => Untouched(v)') /\ Written(v)' = Written(v)
  BY <1>1 DEF Untouched, Written
<1>7. Answered'
  BY <1>1, <1>2, <1>3, <1>6 DEF Answered, Appending
<1>8. Untouched(w)
  BY <1>1 DEF Answered
<1>9. Settled'
  BY <1>1 DEF InFlight, Creation, Settled, At, Types
<1>10. InFlight'
  BY <1>1, <1>2, <1>6, <1>8, <1>9 DEF InFlight, At
<1>11. Creation'
  BY <1>1, <1>2, <1>3, FileAssumption DEF Creation, At, Appending, FileAssumption
<1>12. Counted'
  BY <1>1, <1>2 DEF Counted, Counts, MetadataOf
<1> QED BY <1>4, <1>5, <1>7, <1>10, <1>11, <1>12

(* Where the lines stay, so does what the answers say of them. *)
LEMMA SameLines ==
  ASSUME UNCHANGED lines
  PROVE  /\ Ordered => Ordered'
         /\ \A w \in Writes : Written(w)' = Written(w)
         /\ UNCHANGED torn \/ torn' = None => \A w \in Writes : Untouched(w) => Untouched(w)'
<1>1. None'[1] = None[1] /\ \A w \in Writes : None[1] # w
  BY NoLine
<1> QED BY <1>1 DEF Ordered, Written, Untouched

(* Names for what an operation leaves as it was. *)
LEMMA SameCounts ==
  ASSUME UNCHANGED <<meta, stale, cache, owner>>
  PROVE  \A n \in Int : Counts(n)' <=> Counts(n)
  BY DEF Counts, MetadataOf

(* An operation that ends with an answer. *)
LEMMA AnswersEffect ==
  ASSUME Types, NEW a \in {"ok", "refused", "unknown"}, Answers(a)
  PROVE  /\ op' \in [step : Steps, write : Writes, base : Nat] /\ op'.step = "none"
         /\ answer' \in [Writes -> {"new", "asked", "ok", "refused", "unknown"}]
         /\ answer'[op.write] = a /\ \A w \in Writes : w # op.write => answer'[w] = answer[w]
  BY FileAssumption DEF Answers, Types, NoOp, Steps, FileAssumption

LEMMA RemembersEffect ==
  ASSUME Types, NEW n \in Int, Remembers(n)
  PROVE  sizes' \in [Hosts -> Int] /\ sizes'[owner] = n
  BY DEF Remembers, Types

LEMMA TakesSizeKeeps == ASSUME FileInv, TakesSize PROVE FileInv'
<1> USE DEF FileInv
<1>1. op.step = "size" /\ op.write \in Writes /\ UNCHANGED <<lines, meta, stale, cache, owner, ready>>
  BY DEF TakesSize, At, Types
<1>2. Untouched(op.write) /\ Settled /\ torn' \in {torn, None}
  BY <1>1 DEF InFlight, At, TakesSize
<1>3. /\ Ordered' /\ \A w \in Writes : Written(w)' = Written(w) /\ (Untouched(w) => Untouched(w)')
      /\ \A n \in Int : Counts(n)' <=> Counts(n)
  BY <1>1, <1>2, SameLines, SameCounts
<1>4. Len(lines) \in Nat /\ sizes[owner] \in Int
  BY DEF Types
<1>5. CASE Answers("refused") /\ UNCHANGED <<torn, sizes, decided>> /\ Fault
  <2>1. /\ op' \in [step : Steps, write : Writes, base : Nat] /\ op'.step = "none"
        /\ answer' \in [Writes -> {"new", "asked", "ok", "refused", "unknown"}]
        /\ answer'[op.write] = "refused" /\ \A w \in Writes : w # op.write => answer'[w] = answer[w]
    BY <1>5, AnswersEffect
  <2>2. Types'
    BY <1>1, <1>5, <2>1 DEF Types, Fault
  <2>3. Answered'
    BY <1>1, <1>2, <1>3, <2>1 DEF Answered, Appending
  <2>4. InFlight'
    BY <1>1, <1>2, <1>5, <2>1 DEF InFlight, At, Settled
  <2>5. Creation'
    BY <1>1, <2>1, <1>5, FileAssumption DEF Creation, At, Appending, FileAssumption
  <2>6. Counted'
    BY <1>1, <1>3, <1>4, <2>1 DEF Counted
  <2> QED BY <1>3, <2>2, <2>3, <2>4, <2>5, <2>6
<1>6. ASSUME torn' = None, op' = [op EXCEPT !.step = "write", !.base = Len(lines)],
             sizes' \in [Hosts -> Int], decided' \in Nat, UNCHANGED <<answer, faults>>
      PROVE  FileInv'
  <2>1. /\ op'.step = "write" /\ op'.write = op.write /\ op'.base = Len(lines)
        /\ op' \in [step : Steps, write : Writes, base : Nat]
    BY <1>4, <1>6 DEF Types, Steps
  <2>2. Types'
    BY <1>1, <1>6, <2>1 DEF Types
  <2>3. Answered'
    BY <1>1, <1>3, <1>6, <2>1 DEF Answered, Appending
  <2>4. OwnLines'
    <3>1. Size[op.write] \in Nat \ {0} /\ torn' = None'
      BY <1>1, <1>6, Sizes DEF None
    <3> QED BY <1>1, <1>2, <1>4, <2>1, <3>1 DEF OwnLines, Reached, Untouched
  <2>5. InFlight'
    BY <2>1, <2>4 DEF InFlight, At
  <2>6. Creation'
    BY <1>1, <1>6, <2>1 DEF Creation, At, Appending, Answered
  <2>7. Counted'
    BY <1>1, <1>3, <1>4, <2>1 DEF Counted
  <2> QED BY <1>3, <2>2, <2>3, <2>4, <2>5, <2>6, <2>7
<1>7. CASE sizes[owner] # Unknown /\ op' = [op EXCEPT !.step = "write", !.base = sizes[owner]]
           /\ UNCHANGED <<torn, sizes, answer, decided, faults>>
  BY <1>2, <1>6, <1>7 DEF Settled, Types
<1>8. CASE torn' = None /\ op' = [op EXCEPT !.step = "write", !.base = Len(lines)]
           /\ Remembers(Len(lines)) /\ decided' = Len(lines) /\ UNCHANGED <<answer, faults>>
  BY <1>4, <1>6, <1>8, RemembersEffect
<1> QED BY <1>5, <1>7, <1>8 DEF TakesSize

LEMMA AppendProgressesKeeps == ASSUME FileInv, AppendProgresses PROVE FileInv'
<1> USE DEF FileInv
<1>1. /\ op.step = "write" /\ op.write \in Writes /\ OwnLines /\ Written(op.write) < Size[op.write]
      /\ UNCHANGED <<meta, sizes, stale, cache, owner, ready, op, answer, decided, faults>>
  BY DEF AppendProgresses, At, Types, InFlight, memory
<1>2. Written(op.write) = Reached
  BY <1>1, WrittenSoFar
<1>3. PICK w \in Writes, n \in Nat \ {0} : w = op.write /\ n = Reached + 1
  BY <1>1 DEF OwnLines, Reached, Types
<1> DEFINE next == Line(w, n)
<1>4. /\ next \in Lines /\ next[1] = w /\ next[2] = n /\ next # None
      /\ n <= Size[w] /\ Size[w] \in Nat /\ n = Len(lines) - op.base + 1 /\ op.base \in Nat /\ Len(lines) \in Nat
  BY <1>1, <1>2, <1>3, LinesOf, Sizes DEF Reached, Types
<1>5. torn \in {None, next}
  BY <1>1, <1>3 DEF OwnLines
<1>6. IF torn = None THEN torn' = next /\ UNCHANGED lines ELSE lines' = Append(lines, next) /\ torn' = None
  BY <1>2, <1>3, <1>5 DEF AppendProgresses
<1> HIDE DEF next
<1>7. CASE torn' = next /\ UNCHANGED lines
  <2>1. Ordered' /\ \A v \in Writes : Written(v)' = Written(v)
    BY <1>7, SameLines
  <2>2. \A v \in Writes : v # w /\ Untouched(v) => Untouched(v)'
    BY <1>4, <1>7 DEF Untouched
  <2>3. Types'
    BY <1>1, <1>4, <1>7 DEF Types
  <2>4. Answered'
    BY <1>1, <1>3, <2>1, <2>2 DEF Answered, Appending
  <2>5. OwnLines'
    BY <1>1, <1>3, <1>4, <1>7 DEF OwnLines, Reached, next
  <2>6. InFlight'
    BY <1>1, <2>5 DEF InFlight, At
  <2>7. Creation' /\ Counted'
    BY <1>1, <1>7 DEF Creation, Counted, Counts, MetadataOf, At, Appending, Answered
  <2> QED BY <2>1, <2>3, <2>4, <2>6, <2>7
<1>8. CASE torn = next /\ lines' = Append(lines, next) /\ torn' = None
  <2>1. /\ lines' \in Seq(Lines) /\ Len(lines') = Len(lines) + 1
        /\ \A i \in 1..Len(lines) : lines'[i] = lines[i]
        /\ lines'[Len(lines) + 1] = next /\ lines \in Seq(Lines)
    BY <1>4, <1>8, Appended DEF Types
  <2>2. \A v \in Writes : v # w /\ Untouched(v) => Untouched(v)'
    BY <1>4, <1>8, <2>1, NoLine DEF Untouched
  <2>3. \A v \in Writes : v # w => Written(v)' = Written(v)
    <3> SUFFICES ASSUME NEW v \in Writes, v # w
                 PROVE  {i \in 1..Len(lines') : lines'[i][1] = v} = {i \in 1..Len(lines) : lines[i][1] = v}
      BY DEF Written
    <3> QED BY <1>4, <2>1
  <2>4. \A i \in 1..Len(lines) : IF i <= op.base THEN lines[i][1] # w ELSE lines[i] = Line(w, i - op.base)
    BY <1>1, <1>3 DEF OwnLines
  <2>5. Ordered'
    <3>1. \A i \in 1..Len(lines) : lines[i] # next
      <4> SUFFICES ASSUME NEW i \in 1..Len(lines), i > op.base PROVE Line(w, i - op.base) # next
        BY <1>4, <2>4
      <4>1. i - op.base \in Nat \ {0} /\ i - op.base # n
        BY <1>4
      <4> QED BY <1>4, <4>1, LinesOf
    <3>2. n > 1 => Len(lines) >= 1 /\ lines[Len(lines)] = Line(w, n - 1)
      BY <1>4, <2>4
    <3>3. \A i \in 1..Len(lines') : i \in 1..Len(lines) \/ i = Len(lines) + 1
      BY <1>4, <2>1
    <3>4. ASSUME NEW i \in 1..Len(lines'), lines'[i][2] > 1
          PROVE  i > 1 /\ lines'[i - 1] = Line(lines'[i][1], lines'[i][2] - 1)
      <4>1. CASE i \in 1..Len(lines)
        <5>1. i > 1 /\ lines[i - 1] = Line(lines[i][1], lines[i][2] - 1)
          BY <2>1, <3>4, <4>1 DEF Ordered
        <5>2. i - 1 \in 1..Len(lines)
          BY <1>4, <4>1, <5>1
        <5> QED BY <2>1, <4>1, <5>1, <5>2
      <4>2. CASE i = Len(lines) + 1
        BY <1>4, <2>1, <3>2, <3>4, <4>2
      <4> QED BY <3>3, <4>1, <4>2
    <3>5. \A i, j \in 1..Len(lines') : lines'[i] = lines'[j] => i = j
      BY <2>1, <3>1, <3>3 DEF Ordered
    <3> QED BY <3>4, <3>5 DEF Ordered
  <2>6. Types'
    BY <1>1, <1>8, <2>1 DEF Types
  <2>7. Answered'
    BY <1>1, <1>3, <2>2, <2>3 DEF Answered, Appending
  <2>8. OwnLines'
    <3>1. op.base <= Len(lines') /\ Len(lines') - op.base = n /\ op.base < Len(lines) + 1
      BY <1>1, <1>4, <2>1 DEF OwnLines
    <3>2. \A i \in 1..Len(lines) : IF i <= op.base THEN lines'[i][1] # w ELSE lines'[i] = Line(w, i - op.base)
      BY <2>1, <2>4
    <3>3. lines'[Len(lines) + 1] = Line(w, Len(lines) + 1 - op.base)
      BY <1>4, <2>1 DEF next
    <3>4. \A i \in 1..Len(lines') : IF i <= op.base THEN lines'[i][1] # w ELSE lines'[i] = Line(w, i - op.base)
      <4>1. \A i \in 1..Len(lines') : i \in 1..Len(lines) \/ i = Len(lines) + 1
        BY <1>4, <2>1
      <4> SUFFICES ASSUME NEW i \in 1..Len(lines')
                   PROVE  IF i <= op.base THEN lines'[i][1] # w ELSE lines'[i] = Line(w, i - op.base)
        OBVIOUS
      <4>2. CASE i \in 1..Len(lines)
        BY <3>2, <4>2
      <4>3. CASE i = Len(lines) + 1
        <5>1. op.base \in Nat /\ Len(lines) \in Nat /\ op.base < Len(lines) + 1
          BY <1>4, <3>1
        <5>2. ~(Len(lines) + 1 <= op.base)
          BY <5>1
        <5>3. ~(i <= op.base)
          BY <4>3, <5>2
        <5>4. lines'[i] = Line(w, i - op.base)
          BY <3>3, <4>3, <5>1
        <5> QED BY <5>3, <5>4
      <4> QED BY <4>1, <4>2, <4>3
    <3>5. torn' = None'
      BY <1>8 DEF None
    <3> QED BY <1>1, <1>3, <1>4, <3>1, <3>4, <3>5 DEF OwnLines, Reached
  <2>9. InFlight'
    BY <1>1, <2>8 DEF InFlight, At
  <2>10. Creation' /\ Counted'
    BY <1>1 DEF Creation, Counted, Counts, MetadataOf, At, Appending, Answered
  <2> QED BY <2>5, <2>6, <2>7, <2>9, <2>10
<1> QED BY <1>5, <1>6, <1>7, <1>8

LEMMA AppendEndsKeeps == ASSUME FileInv, AppendEnds PROVE FileInv'
<1> USE DEF FileInv
<1>1. /\ op.step = "write" /\ op.write \in Writes /\ OwnLines /\ Written(op.write) = Size[op.write]
      /\ op' = [op EXCEPT !.step = "meta"] /\ Remembers(op.base + Size[op.write]) /\ decided' = Len(lines)
      /\ UNCHANGED <<lines, torn, meta, stale, cache, owner, ready, answer, faults>>
  BY DEF AppendEnds, At, Goes, Types, InFlight, disk
<1>2. Reached = Size[op.write] /\ Len(lines) = op.base + Size[op.write] /\ Len(lines) \in Nat
  <2>1. Written(op.write) = Reached /\ op.base \in Nat /\ Len(lines) \in Nat /\ Size[op.write] \in Nat
    BY <1>1, WrittenSoFar, Sizes DEF Types
  <2> QED BY <1>1, <2>1 DEF Reached
<1>3. torn = None
  BY <1>1, <1>2, Sizes DEF OwnLines
<1>4. /\ op'.step = "meta" /\ op'.write = op.write /\ op'.base = op.base
      /\ op' \in [step : Steps, write : Writes, base : Nat]
  BY <1>1 DEF Types, Steps
<1>5. sizes' \in [Hosts -> Int] /\ sizes'[owner] = Len(lines)
  BY <1>1, <1>2, RemembersEffect
<1>6. /\ Ordered' /\ \A w \in Writes : Written(w)' = Written(w) /\ (Untouched(w) => Untouched(w)')
  BY <1>1, SameLines
<1>7. Types'
  BY <1>1, <1>2, <1>4, <1>5 DEF Types
<1>8. Answered'
  BY <1>1, <1>4, <1>6 DEF Answered, Appending
<1>9. OwnLines' /\ Reached' = Size[op'.write]
  BY <1>1, <1>2, <1>4 DEF OwnLines, Reached
<1>10. InFlight'
  BY <1>1, <1>3, <1>4, <1>5, <1>9 DEF InFlight, Settled, At, None
<1>11. Creation' /\ Counted'
  BY <1>1, <1>4 DEF Creation, Counted, Counts, MetadataOf, At, Appending, Answered
<1> QED BY <1>6, <1>7, <1>8, <1>10, <1>11

LEMMA AppendFailsKeeps == ASSUME FileInv, AppendFails PROVE FileInv'
<1> USE DEF FileInv
<1>1. /\ op.step = "write" /\ op.write \in Writes /\ OwnLines
      /\ op' = [op EXCEPT !.step = "rollback"] /\ Remembers(Unknown) /\ faults' \in Nat
      /\ UNCHANGED <<lines, torn, meta, stale, cache, owner, ready, answer, decided>>
  BY DEF AppendFails, At, Goes, Types, InFlight, disk, Fault
<1>2. /\ op'.step = "rollback" /\ op'.write = op.write /\ op'.base = op.base
      /\ op' \in [step : Steps, write : Writes, base : Nat]
  BY <1>1 DEF Types, Steps
<1>3. sizes' \in [Hosts -> Int] /\ sizes'[owner] = Unknown
  BY <1>1, RemembersEffect DEF Unknown
<1>4. /\ Ordered' /\ \A w \in Writes : Written(w)' = Written(w) /\ (Untouched(w) => Untouched(w)')
  BY <1>1, SameLines
<1>5. Types'
  BY <1>1, <1>2, <1>3 DEF Types
<1>6. Answered'
  BY <1>1, <1>2, <1>4 DEF Answered, Appending
<1>7. OwnLines'
  BY <1>1, <1>2 DEF OwnLines, Reached
<1>8. InFlight'
  BY <1>1, <1>2, <1>3, <1>7 DEF InFlight, At, Unknown
<1>9. Creation' /\ Counted'
  BY <1>1, <1>2 DEF Creation, Counted, Counts, MetadataOf, At, Appending, Answered
<1> QED BY <1>4, <1>5, <1>6, <1>8, <1>9

LEMMA RollBackKeeps == ASSUME FileInv, RollBack PROVE FileInv'
<1> USE DEF FileInv
<1>1. /\ op.step = "rollback" /\ op.write \in Writes /\ OwnLines /\ sizes[owner] = Unknown
      /\ op.base \in Nat /\ op.base <= Len(lines) /\ lines \in Seq(Lines)
      /\ UNCHANGED <<meta, cache, owner, ready, decided>>
  BY DEF RollBack, At, Types, InFlight, OwnLines
<1>2. CASE /\ lines' = SubSeq(lines, 1, op.base) /\ torn' = None
           /\ Remembers(op.base) /\ Answers("refused")
           /\ UNCHANGED <<stale, faults>>
  <2>1. /\ op' \in [step : Steps, write : Writes, base : Nat] /\ op'.step = "none"
        /\ answer' \in [Writes -> {"new", "asked", "ok", "refused", "unknown"}]
        /\ answer'[op.write] = "refused" /\ \A w \in Writes : w # op.write => answer'[w] = answer[w]
    BY <1>2, AnswersEffect
  <2>2. lines' \in Seq(Lines) /\ Len(lines') = op.base /\ \A i \in 1..op.base : lines'[i] = lines[i]
    BY <1>1, <1>2, Prefix
  <2>3. sizes' \in [Hosts -> Int] /\ sizes'[owner] = op.base
    BY <1>1, <1>2, RemembersEffect
  <2>4. Types'
    <3>1. /\ torn' \in Lines \union {None} /\ meta' \in Int /\ cache' \in [Hosts -> Int]
          /\ stale' \in [Hosts -> BOOLEAN]
          /\ owner' \in Hosts /\ ready' \in BOOLEAN /\ decided' \in Nat /\ faults' \in Nat
      <4>1. torn' \in Lines \union {None}
        BY <1>2
      <4>2. stale' \in [Hosts -> BOOLEAN] /\ faults' \in Nat
        BY <1>2 DEF Types
      <4>3. /\ meta' \in Int /\ cache' \in [Hosts -> Int]
            /\ owner' \in Hosts /\ ready' \in BOOLEAN /\ decided' \in Nat
        BY <1>1 DEF Types
      <4> QED BY <4>1, <4>2, <4>3
    <3> QED BY <2>1, <2>2, <2>3, <3>1 DEF Types
  <2>5. Ordered'
    <3>1. /\ Len(lines') \in Nat /\ Len(lines) \in Nat
          /\ \A i \in 1..Len(lines') : i \in 1..Len(lines) /\ lines'[i] = lines[i]
      BY <1>1, <2>2
    <3>2. ASSUME NEW i \in 1..Len(lines'), lines'[i][2] > 1
          PROVE  i > 1 /\ lines'[i - 1] = Line(lines'[i][1], lines'[i][2] - 1)
      <4>1. i > 1 /\ lines[i - 1] = Line(lines[i][1], lines[i][2] - 1)
        BY <3>1, <3>2 DEF Ordered
      <4>2. i - 1 \in 1..Len(lines')
        BY <3>1, <4>1
      <4> QED BY <3>1, <4>1, <4>2
    <3>3. \A i, j \in 1..Len(lines') : lines'[i] = lines'[j] => i = j
      BY <3>1 DEF Ordered
    <3> QED BY <3>2, <3>3 DEF Ordered, Line
  <2>6. \A w \in Writes : Untouched(w) \/ w = op.write => Untouched(w)'
    BY <1>1, <1>2, <2>2, NoLine DEF Untouched, OwnLines
  <2>7. \A w \in Writes : w # op.write => Written(w)' = Written(w)
    <3> SUFFICES ASSUME NEW w \in Writes, w # op.write
                 PROVE  {i \in 1..Len(lines') : lines'[i][1] = w} = {i \in 1..Len(lines) : lines[i][1] = w}
      BY DEF Written
    <3>1. \A i \in 1..Len(lines) : i > op.base => lines[i][1] = op.write
      BY <1>1 DEF OwnLines, Line
    <3> QED BY <1>1, <2>2, <3>1
  <2>8. Answered'
    BY <1>1, <2>1, <2>6, <2>7 DEF Answered, Appending
  <2>9. Settled'
    BY <1>1, <1>2, <2>2, <2>3 DEF Settled, None
  <2>10. InFlight'
    BY <2>1, <2>9 DEF InFlight, At
  <2>11. Creation'
    BY <1>1, <2>1, FileAssumption DEF Creation, At, Appending, FileAssumption
  <2>12. Counted'
    BY <1>1, <1>2, <2>1, <2>2 DEF Counted, Counts, MetadataOf
  <2> QED BY <2>4, <2>5, <2>8, <2>10, <2>11, <2>12
<1>3. CASE /\ Fault /\ stale' = [stale EXCEPT ![owner] = TRUE]
           /\ Answers("unknown") /\ UNCHANGED <<lines, torn, sizes>>
  <2>1. /\ op' \in [step : Steps, write : Writes, base : Nat] /\ op'.step = "none"
        /\ answer' \in [Writes -> {"new", "asked", "ok", "refused", "unknown"}]
        /\ answer'[op.write] = "unknown" /\ \A w \in Writes : w # op.write => answer'[w] = answer[w]
    BY <1>3, AnswersEffect
  <2>2. /\ Ordered' /\ \A w \in Writes : Written(w)' = Written(w) /\ (Untouched(w) => Untouched(w)')
    BY <1>3, SameLines
  <2>3. stale' \in [Hosts -> BOOLEAN] /\ stale'[owner]
    BY <1>3 DEF Types
  <2>4. Types'
    BY <1>1, <1>3, <2>1, <2>3 DEF Types, Fault
  <2>5. Answered'
    BY <1>1, <2>1, <2>2 DEF Answered, Appending
  <2>6. InFlight'
    BY <1>1, <1>3, <2>1 DEF InFlight, At, Settled, Unknown
  <2>7. Creation'
    BY <1>1, <2>1, FileAssumption DEF Creation, At, Appending, FileAssumption
  <2>8. Counted'
    BY <1>1, <2>1, <2>3 DEF Counted, Counts
  <2> QED BY <2>2, <2>4, <2>5, <2>6, <2>7, <2>8
<1> QED BY <1>2, <1>3 DEF RollBack

LEMMA SavesEffect ==
  ASSUME Types, NEW n \in Nat, Saves(n)
  PROVE  meta' \in Int /\ cache' \in [Hosts -> Int] /\ cache'[owner] = n /\ meta' = n
  BY DEF Saves, Types

LEMMA ReadsEffect ==
  ASSUME Types, Reads
  PROVE  cache' \in [Hosts -> Int] /\ cache'[owner] = MetadataOf(owner)
<1>1. MetadataOf(owner) \in Int
  BY DEF MetadataOf, Types, Missing
<1> QED BY <1>1 DEF Reads, Types

(* After a save, or a read of a record that can be read, the total is what the host knows. *)
LEMMA KnownAfter ==
  ASSUME Types, UNCHANGED owner, NEW n \in Nat,
         \/ Saves(n)
         \/ Reads /\ UNCHANGED meta /\ MetadataOf(owner) = n
  PROVE  meta' \in Int /\ cache' \in [Hosts -> Int] /\ MetadataOf(owner)' = n
<1>1. meta' \in Int /\ cache' \in [Hosts -> Int] /\ cache'[owner] = n
  BY SavesEffect, ReadsEffect DEF Types
<1>2. MetadataOf(owner)' = cache'[owner]
  BY <1>1 DEF MetadataOf
<1> QED BY <1>1, <1>2

LEMMA UpdatesMetadataKeeps == ASSUME FileInv, UpdatesMetadata PROVE FileInv'
<1> USE DEF FileInv
<1>1. /\ op.step = "meta" /\ op.write \in Writes /\ OwnLines /\ Reached = Size[op.write] /\ Settled
      /\ Answers("ok") /\ ready'
      /\ UNCHANGED <<lines, torn, sizes, owner, decided>>
  BY DEF UpdatesMetadata, At, Types, InFlight
<1>2. /\ Len(lines) \in Nat /\ op.base \in Nat /\ Size[op.write] \in Nat /\ Len(lines) = op.base + Size[op.write]
      /\ Written(op.write) = Size[op.write] /\ owner \in Hosts
  BY <1>1, WrittenSoFar, Sizes DEF Types, Reached
<1>3. /\ op' \in [step : Steps, write : Writes, base : Nat] /\ op'.step = "none"
      /\ answer' \in [Writes -> {"new", "asked", "ok", "refused", "unknown"}]
      /\ answer'[op.write] = "ok" /\ \A w \in Writes : w # op.write => answer'[w] = answer[w]
  BY <1>1, AnswersEffect
<1>4. /\ Ordered' /\ \A w \in Writes : Written(w)' = Written(w) /\ (Untouched(w) => Untouched(w)')
  BY <1>1, SameLines
<1>5. /\ meta' \in Int /\ cache' \in [Hosts -> Int] /\ stale' \in [Hosts -> BOOLEAN] /\ faults' \in Nat
      /\ stale'[owner] \/ MetadataOf(owner)' = Len(lines)
  <2>1. CASE ~stale[owner] /\ UNCHANGED <<stale, faults>>
             /\ IF op.write = Created THEN Saves(Size[Created])
                ELSE IF MetadataOf(owner) = Missing THEN Reads /\ UNCHANGED meta
                ELSE Saves(MetadataOf(owner) + Size[op.write])
    <3>1. CASE op.write = Created
      <4>1. op.base = 0 /\ Len(lines) = Size[Created]
        BY <1>1, <1>2, <3>1 DEF Creation, Appending
      <4>2. Saves(Len(lines))
        BY <2>1, <3>1, <4>1
      <4> QED BY <1>1, <1>2, <2>1, <4>2, KnownAfter DEF Types
    <3>2. CASE op.write # Created
      <4>1. MetadataOf(owner) = op.base
        BY <1>1, <2>1, <3>2 DEF Creation, Counted, Counts, Appending
      <4>2. Saves(Len(lines))
        BY <1>2, <2>1, <3>2, <4>1 DEF Missing
      <4> QED BY <1>1, <1>2, <2>1, <4>2, KnownAfter DEF Types
    <3> QED BY <3>1, <3>2
  <2>2. CASE stale' = [stale EXCEPT ![owner] = FALSE] /\ UNCHANGED faults
             /\ IF MetadataOf(owner) = Len(lines) THEN Reads /\ UNCHANGED meta ELSE Saves(Len(lines))
    BY <1>1, <1>2, <2>2, KnownAfter DEF Types
  <2>3. CASE Fault /\ MayTruncate /\ Reads /\ stale' = [stale EXCEPT ![owner] = TRUE]
    BY <1>2, <2>3, ReadsEffect DEF Types, Fault, MayTruncate, Corrupt
  <2> QED BY <2>1, <2>2, <2>3 DEF UpdatesMetadata
<1>6. Types'
  <2>1. /\ lines' \in Seq(Lines) /\ torn' \in Lines \union {None} /\ sizes' \in [Hosts -> Int]
        /\ owner' \in Hosts /\ ready' \in BOOLEAN /\ decided' \in Nat
    BY <1>1 DEF Types, UpdatesMetadata
  <2> QED BY <1>3, <1>5, <2>1 DEF Types
<1>7. Answered'
  <2>1. \A w \in Writes : answer'[w] \in {"new", "refused"} => w # op.write /\ answer[w] \in {"new", "refused"}
    BY <1>3
  <2>2. \A w \in Writes : /\ (answer[w] \in {"new", "refused"} => Untouched(w))
                           /\ (answer[w] = "ok" => Written(w) = Size[w])
    BY DEF Answered
  <2>3. \A w \in Writes : answer'[w] = "ok" => Written(w)' = Size[w]
    BY <1>2, <1>3, <1>4, <2>2
  <2>4. \A w \in Writes : answer'[w] # "asked"
    BY <1>1, <1>3 DEF Answered
  <2>5. op'.step = "none"
    BY <1>3
  <2> QED BY <1>4, <2>1, <2>2, <2>3, <2>4, <2>5 DEF Answered, Appending
<1>8. InFlight'
  BY <1>1, <1>3 DEF InFlight, At, Settled
<1>9. Creation'
  BY <1>1, <1>3, FileAssumption DEF Creation, At, Appending, FileAssumption
<1>10. Counted'
  BY <1>1, <1>3, <1>5 DEF Counted, Counts
<1> QED BY <1>4, <1>6, <1>7, <1>8, <1>9, <1>10

LEMMA LoadReadsKeeps == ASSUME FileInv, LoadReads PROVE FileInv'
<1> USE DEF FileInv
<1>1. /\ op.step = "none" /\ ~ready /\ lines # <<>> /\ Len(lines) \in Nat
      /\ op' = [step |-> "reconcile", write |-> Created, base |-> Len(lines)]
      /\ decided' = Len(lines)
      /\ UNCHANGED <<lines, torn, meta, stale, cache, owner, ready, answer, faults>>
  BY DEF LoadReads, At, Types, disk
<1>2. op'.step = "reconcile" /\ op'.base = Len(lines) /\ op' \in [step : Steps, write : Writes, base : Nat]
  BY <1>1, FileAssumption DEF Steps, FileAssumption
<1>3. sizes' \in [Hosts -> Int] /\ (sizes'[owner] # Unknown => sizes'[owner] = Len(lines) /\ torn = None)
  <2>1. CASE torn = None
    BY <1>1, <2>1, RemembersEffect DEF LoadReads
  <2>2. CASE torn # None
    BY <1>1, <2>2, RemembersEffect DEF LoadReads, Unknown
  <2> QED BY <2>1, <2>2
<1>4. /\ Ordered' /\ \A w \in Writes : Written(w)' = Written(w) /\ (Untouched(w) => Untouched(w)')
  BY <1>1, SameLines
<1>5. Types'
  BY <1>1, <1>2, <1>3 DEF Types
<1>6. Answered'
  BY <1>1, <1>2, <1>4 DEF Answered, Appending
<1>7. InFlight'
  BY <1>1, <1>2, <1>3 DEF InFlight, At, Settled, None
<1>8. Creation' /\ Counted'
  BY <1>1, <1>2 DEF Creation, Counted, At, Appending
<1> QED BY <1>4, <1>5, <1>6, <1>7, <1>8

LEMMA ReconcilesKeeps == ASSUME FileInv, Reconciles PROVE FileInv'
<1> USE DEF FileInv
<1>1. /\ op.step = "reconcile" /\ op.base = Len(lines) /\ Settled /\ ~ready /\ Len(lines) \in Nat /\ owner \in Hosts
      /\ op' = NoOp
      /\ UNCHANGED <<lines, torn, sizes, owner, answer, decided>>
  BY DEF Reconciles, At, Types, InFlight, Creation
<1>2. op'.step = "none" /\ op' \in [step : Steps, write : Writes, base : Nat]
  BY <1>1, FileAssumption DEF NoOp, Steps, FileAssumption
<1>3. /\ meta' \in Int /\ cache' \in [Hosts -> Int] /\ stale' \in [Hosts -> BOOLEAN] /\ faults' \in Nat
      /\ ready' \in BOOLEAN
      /\ ready' => MetadataOf(owner)' = Len(lines)
  <2>1. CASE stale' = [stale EXCEPT ![owner] = FALSE] /\ ready' = TRUE /\ UNCHANGED faults
             /\ IF MetadataOf(owner) = op.base THEN Reads /\ UNCHANGED meta ELSE Saves(op.base)
    BY <1>1, <2>1, KnownAfter DEF Types
  <2>2. CASE Fault /\ MayTruncate /\ Reads /\ UNCHANGED <<stale, ready>>
    BY <1>1, <2>2, ReadsEffect DEF Types, Fault, MayTruncate, Corrupt
  <2> QED BY <2>1, <2>2 DEF Reconciles
<1>4. /\ Ordered' /\ \A w \in Writes : Written(w)' = Written(w) /\ (Untouched(w) => Untouched(w)')
  BY <1>1, SameLines
<1>5. Types'
  BY <1>1, <1>2, <1>3 DEF Types
<1>6. Answered'
  BY <1>1, <1>2, <1>4 DEF Answered, Appending
<1>7. InFlight'
  BY <1>1, <1>2 DEF InFlight, At, Settled
<1>8. answer[Created] # "new"
  BY <1>1 DEF Creation, At
<1>9. Creation' /\ Counted'
  BY <1>1, <1>2, <1>3, <1>8 DEF Creation, Counted, Counts, At, Appending
<1> QED BY <1>4, <1>5, <1>6, <1>7, <1>9

LEMMA ReloadsKeeps == ASSUME FileInv, Reloads PROVE FileInv'
<1> USE DEF FileInv
<1>1. /\ op.step = "none" /\ ready /\ ~ready' /\ ready' \in BOOLEAN
      /\ UNCHANGED <<lines, torn, meta, sizes, stale, cache, owner, op, answer, decided, faults>>
  BY DEF Reloads, At, disk, memory
<1>2. /\ Ordered' /\ \A w \in Writes : Written(w)' = Written(w) /\ (Untouched(w) => Untouched(w)')
  BY <1>1, SameLines
<1>3. Types' /\ Answered'
  BY <1>1, <1>2 DEF Types, Answered, Appending
<1>4. InFlight' /\ Creation' /\ Counted'
  BY <1>1 DEF InFlight, Creation, Counted, At, Appending
<1> QED BY <1>2, <1>3, <1>4

LEMMA HandsOverKeeps == ASSUME FileInv, NEW h \in Hosts, HandsOver(h) PROVE FileInv'
<1> USE DEF FileInv
<1>1. /\ op.step = "none" /\ owner' = h /\ ~ready' /\ ready' \in BOOLEAN
      /\ UNCHANGED <<lines, torn, meta, sizes, stale, cache, op, answer, decided, faults>>
  BY DEF HandsOver, At, disk, memory
<1>2. /\ Ordered' /\ \A w \in Writes : Written(w)' = Written(w) /\ (Untouched(w) => Untouched(w)')
  BY <1>1, SameLines
<1>3. Types' /\ Answered'
  BY <1>1, <1>2 DEF Types, Answered, Appending
<1>4. InFlight' /\ Creation' /\ Counted'
  BY <1>1 DEF InFlight, Creation, Counted, At, Appending, None
<1> QED BY <1>2, <1>3, <1>4

LEMMA CrashKeeps == ASSUME FileInv, NEW h \in Hosts, Crash(h) PROVE FileInv'
<1> USE DEF FileInv
<1>1. /\ sizes' = [sizes EXCEPT ![h] = Unknown] /\ stale' = [stale EXCEPT ![h] = FALSE]
      /\ cache' = [cache EXCEPT ![h] = Missing] /\ faults' \in Nat
      /\ UNCHANGED <<lines, torn, owner, decided>>
  BY DEF Crash, Fault, Types
<1>2. /\ sizes' \in [Hosts -> Int] /\ stale' \in [Hosts -> BOOLEAN] /\ cache' \in [Hosts -> Int]
      /\ sizes'[h] = Unknown
      /\ \A g \in Hosts : g # h => sizes'[g] = sizes[g] /\ stale'[g] = stale[g] /\ cache'[g] = cache[g]
  BY <1>1 DEF Types, Unknown, Missing
<1>3. /\ Ordered' /\ \A w \in Writes : Written(w)' = Written(w) /\ (Untouched(w) => Untouched(w)')
  BY <1>1, SameLines
<1>4. CASE h = owner
  <2>1. ready' = FALSE /\ op' = NoOp
    BY <1>4 DEF Crash
  <2>2. op'.step = "none" /\ op' \in [step : Steps, write : Writes, base : Nat]
    BY <2>1, FileAssumption DEF NoOp, Steps, FileAssumption
  <2>3. /\ answer' \in [Writes -> {"new", "asked", "ok", "refused", "unknown"}]
        /\ \A w \in Writes : answer'[w] = IF Appending /\ w = op.write THEN "unknown" ELSE answer[w]
    BY <1>4 DEF Crash, Types, Appending
  <2>4. meta' \in Int
    BY <1>4 DEF Crash, MayTruncate, Corrupt, Types
  <2>5. Types'
    BY <1>1, <1>2, <2>1, <2>2, <2>3, <2>4 DEF Types
  <2>6. Answered'
    BY <1>3, <2>2, <2>3 DEF Answered, Appending
  <2>7. InFlight' /\ Counted'
    BY <2>1, <2>2 DEF InFlight, Counted, At
  <2>8. Creation'
    BY <1>1, <1>2, <2>1, <2>2, <2>3, FileAssumption DEF Creation, At, Appending, FileAssumption, Unknown, None
  <2> QED BY <1>3, <2>5, <2>6, <2>7, <2>8
<1>5. CASE h # owner
  <2>1. UNCHANGED <<ready, op, answer, meta>>
    BY <1>5 DEF Crash
  <2>2. sizes'[owner] = sizes[owner] /\ stale'[owner] = stale[owner] /\ cache'[owner] = cache[owner]
    BY <1>2, <1>5 DEF Types
  <2>3. Types'
    BY <1>1, <1>2, <2>1 DEF Types
  <2>4. Answered'
    BY <1>3, <2>1 DEF Answered, Appending
  <2>5. OwnLines => OwnLines'
    BY <1>1, <2>1 DEF OwnLines, Reached, Line, None
  <2>6. InFlight'
    BY <1>1, <1>3, <2>1, <2>2, <2>5 DEF InFlight, At, Settled, Reached, Unknown, None, Types
  <2>7. Creation'
    BY <1>1, <1>2, <2>1 DEF Creation, At, Appending, Unknown, None
  <2>8. Counted'
    BY <1>1, <2>1, <2>2 DEF Counted, Counts, MetadataOf, Missing
  <2> QED BY <1>3, <2>3, <2>4, <2>6, <2>7, <2>8
<1> QED BY <1>4, <1>5

(* FileInv is inductive. *)
LEMMA StepKeeps == ASSUME FileInv, [Next]_vars PROVE FileInv'
<1>1. ASSUME NEW w \in Writes, AppendBegins(w) PROVE FileInv'   BY <1>1, AppendBeginsKeeps
<1>2. CASE TakesSize                                            BY <1>2, TakesSizeKeeps
<1>3. CASE AppendProgresses                                     BY <1>3, AppendProgressesKeeps
<1>4. CASE AppendEnds                                           BY <1>4, AppendEndsKeeps
<1>5. CASE AppendFails                                          BY <1>5, AppendFailsKeeps
<1>6. CASE RollBack                                             BY <1>6, RollBackKeeps
<1>7. CASE UpdatesMetadata                                      BY <1>7, UpdatesMetadataKeeps
<1>8. CASE LoadReads                                            BY <1>8, LoadReadsKeeps
<1>9. CASE Reconciles                                           BY <1>9, ReconcilesKeeps
<1>10. CASE Reloads                                             BY <1>10, ReloadsKeeps
<1>11. ASSUME NEW h \in Hosts, HandsOver(h) PROVE FileInv'      BY <1>11, HandsOverKeeps
<1>12. ASSUME NEW h \in Hosts, Crash(h) PROVE FileInv'          BY <1>12, CrashKeeps
<1>13. CASE UNCHANGED vars
  <2> USE DEF FileInv
  <2>1. UNCHANGED <<lines, torn, meta, sizes, stale, cache, owner, ready, op, answer, decided, faults>>
    BY <1>13 DEF vars, disk, memory
  <2>2. Ordered' /\ \A w \in Writes : Written(w)' = Written(w) /\ (Untouched(w) => Untouched(w)')
    BY <2>1, SameLines
  <2>3. Types' /\ Answered'
    BY <2>1, <2>2 DEF Types, Answered, Appending
  <2>4. OwnLines' <=> OwnLines
    BY <2>1 DEF OwnLines, Reached
  <2>5. InFlight'
    <3>1. Untouched(op.write)' <=> Untouched(op.write)
      BY <2>1 DEF Untouched
    <3>2. Settled' <=> Settled
      BY <2>1 DEF Settled
    <3>3. \A s \in Steps : At(s)' <=> At(s)
      BY <2>1 DEF At
    <3>4. Reached' = Reached /\ op' = op /\ sizes' = sizes /\ owner' = owner /\ lines' = lines /\ ready' = ready
      BY <2>1 DEF Reached
    <3> QED BY <2>4, <3>1, <3>2, <3>3, <3>4 DEF InFlight, At
  <2>6. Creation' /\ Counted'
    BY <2>1 DEF Creation, Counted, Counts, MetadataOf, At, Appending
  <2> QED BY <2>2, <2>3, <2>5, <2>6
<1> QED BY <1>1, <1>2, <1>3, <1>4, <1>5, <1>6, <1>7, <1>8, <1>9, <1>10, <1>11, <1>12, <1>13 DEF Next

(***************************************************************************)
(* What doAppendBatch, rollBack, load and updateMetadata rely on of one    *)
(* another, across crashes at any point and handovers between processes.   *)
(***************************************************************************)
THEOREM FileInvariant == Spec => []FileInv
  BY InitHolds, StepKeeps, PTL DEF Spec

(***************************************************************************)
(* events.jsonl holds each write at most once, in order and together, and  *)
(* no glued line: whatever rollBack failed at or a crash cut short, the    *)
(* next append measures the file before it writes.                         *)
(***************************************************************************)
THEOREM LogIsWholeHolds == Spec => []LogIsWhole
<1>1. ASSUME FileInv PROVE LogIsWhole
  <2>1. \A i \in 1..Len(lines) : lines[i] # Garbage
    BY <1>1, Names DEF FileInv, Types, Lines, Garbage
  <2>2. \A w \in Writes : /\ answer[w] = "ok" => Written(w) = Size[w]
                          /\ answer[w] \in {"new", "refused"} => Untouched(w)
    BY <1>1 DEF FileInv, Answered
  <2>3. ASSUME NEW w \in Writes, Untouched(w) PROVE Written(w) = 0 /\ torn[1] # w
    <3>1. {i \in 1..Len(lines) : lines[i][1] = w} = {}
      BY <2>3 DEF Untouched
    <3> QED BY <2>3, <3>1, FS_EmptySet DEF Untouched, Written
  <2> QED BY <1>1, <2>1, <2>2, <2>3 DEF FileInv, LogIsWhole, Ordered
<1> QED BY <1>1, FileInvariant, PTL

LEMMA Slice ==
  ASSUME NEW S, NEW s \in Seq(S), NEW m \in Nat, NEW n \in Nat, m < n, n <= Len(s)
  PROVE  Len(SubSeq(s, m + 1, n)) = n - m /\ SubSeq(s, m + 1, n) # <<>>
<1>1. m + 1 \in 1..Len(s) + 1 /\ n \in m..Len(s)
  OBVIOUS
<1>2. Len(SubSeq(s, m + 1, n)) = IF m + 1 <= n THEN n - (m + 1) + 1 ELSE 0
  BY <1>1
<1>3. Len(SubSeq(s, m + 1, n)) = n - m
  BY <1>2
<1> QED BY <1>3

(* readRange, where the total is the length of the log: the two ways to read agree. *)
LEMMA RangesOfTheLog ==
  ASSUME lines \in Seq(Lines), NEW r \in Ranges
  PROVE  Exact(RangeOf(Len(lines), r), r)
<1> DEFINE n      == Len(lines)
           from   == r.since + 1
           needed == Min2(r.limit, n - from)
           whole  == SubSeq(lines, from + 1, Min2(from + r.limit, Len(lines)))
           tail   == SubSeq(lines, Len(lines) - Min2(needed, Len(lines)) + 1, Len(lines))
           events == SubSeq(lines, from + 1, from + needed)
<1>1. /\ n \in Nat /\ n = Len(lines) /\ r.since \in Int /\ r.since >= -1 /\ from \in Nat /\ from = r.since + 1
      /\ r.limit \in Nat /\ r.limit >= 1
  BY DEF Ranges
<1>2. RangeOf(n, r) =
        IF r.since >= n - 1 THEN [events |-> <<>>, from |-> -1, to |-> n - 1]
        ELSE IF 2 * needed > n \/ from + needed < n
        THEN [events |-> whole, from |-> IF whole = <<>> THEN -1 ELSE from,
              to |-> IF whole = <<>> THEN n - 1 ELSE from + Len(whole) - 1]
        ELSE [events |-> tail, from |-> n - Len(tail), to |-> n - 1]
  BY DEF RangeOf
<1>3. from < n => /\ needed \in Nat /\ needed >= 1 /\ from + needed <= n
                  /\ Min2(from + r.limit, n) = from + needed /\ Min2(needed, n) = needed
  <2> DEFINE limit == r.limit
  <2>1. n \in Nat /\ from \in Nat /\ limit \in Nat /\ limit >= 1 /\ limit = r.limit
    BY <1>1
  <2> HIDE DEF n, from, limit
  <2> SUFFICES ASSUME from < n
               PROVE  /\ Min2(limit, n - from) \in Nat /\ Min2(limit, n - from) >= 1
                      /\ from + Min2(limit, n - from) <= n
                      /\ Min2(from + limit, n) = from + Min2(limit, n - from)
                      /\ Min2(Min2(limit, n - from), n) = Min2(limit, n - from)
    BY <2>1
  <2> QED BY <2>1 DEF Min2
<1>4. from < n => whole = events /\ tail = SubSeq(lines, n - needed + 1, n)
  BY <1>3
<1>5. from < n => Len(events) = needed /\ events # <<>>
  <2> SUFFICES ASSUME from < n PROVE Len(events) = needed /\ events # <<>>
    OBVIOUS
  <2>1. /\ from + needed \in Nat /\ from < from + needed /\ from + needed <= Len(lines)
        /\ (from + needed) - from = needed
    BY <1>1, <1>3
  <2> HIDE DEF n, from, needed
  <2> QED BY <1>1, <2>1, Slice
<1>6. events = SubSeq(lines, from + 1, from + needed)
  OBVIOUS
<1> HIDE DEF n, from, needed, whole, tail, events
<1>7. CASE r.since >= n - 1
  BY <1>1, <1>2, <1>7 DEF Exact
<1>8. CASE r.since < n - 1
  <2>1. from < n /\ ~(r.since >= n - 1)
    BY <1>1, <1>8
  <2>2. RangeOf(n, r) = [events |-> events, from |-> from, to |-> from + needed - 1]
    <3>1. CASE 2 * needed > n \/ from + needed < n
      BY <1>2, <1>4, <1>5, <2>1, <3>1
    <3>2. CASE ~(2 * needed > n \/ from + needed < n)
      <4>1. from + needed = n /\ n - needed = from /\ n - 1 = from + needed - 1
        <5>1. needed \in Nat /\ from + needed <= n /\ ~(from + needed < n)
          BY <1>3, <2>1, <3>2
        <5> QED BY <1>1, <5>1
      <4>2. tail = events
        BY <1>4, <1>6, <2>1, <4>1
      <4> QED BY <1>2, <1>5, <2>1, <3>2, <4>1, <4>2
    <3> QED BY <3>1, <3>2
  <2>3. from + needed - 1 + 1 = from + needed
    BY <1>1, <1>3, <2>1
  <2> DEFINE answered == [events |-> events, from |-> from, to |-> from + needed - 1]
  <2>4. /\ answered.events = events /\ answered.from = from /\ answered.to = from + needed - 1
        /\ answered.to + 1 = from + needed
    BY <2>3
  <2>5. answered.events = SubSeq(lines, answered.from + 1, answered.to + 1)
    BY <1>6, <2>4
  <2>6. RangeOf(Len(lines), r) = answered
    BY <1>1, <2>2
  <2> HIDE DEF answered
  <2>7. ~(r.since >= Len(lines) - 1)
    BY <1>1, <2>1
  <2>8. /\ answered.from = r.since + 1 /\ answered.events # <<>>
        /\ answered.to = answered.from + Len(answered.events) - 1
    BY <1>1, <1>5, <2>1, <2>4
  <2>9. Exact(answered, r)
    BY <2>5, <2>7, <2>8 DEF Exact
  <2> QED BY <2>6, <2>9
<1> QED BY <1>1, <1>7, <1>8

(***************************************************************************)
(* A loaded session answers loadRange from its log exactly, whichever of   *)
(* the two ways readRange takes and however far meta.json lags behind.     *)
(***************************************************************************)
THEOREM RangesAreExactHold == Spec => []RangesAreExact
<1>1. ASSUME FileInv PROVE RangesAreExact
  <2> SUFFICES ASSUME ready, At("none"), NEW r \in Ranges PROVE Exact(RangeOf(TotalOf(owner), r), r)
    BY DEF RangesAreExact
  <2>1. TotalOf(owner) = Len(lines) /\ lines \in Seq(Lines)
    BY <1>1 DEF FileInv, Types, Counted, Counts, TotalOf, At
  <2> QED BY <2>1, RangesOfTheLog
<1> QED BY <1>1, FileInvariant, PTL

-----------------------------------------------------------------------------
(* Up to `decided` the log is settled: what lies beyond is at most one write, whose append is under *)
(* way or ended in an unknown outcome.                                                              *)
Beyond(w) ==
  /\ Len(lines) - decided <= Size[w]
  /\ \A i \in 1..Len(lines) : i > decided => lines[i] = Line(w, i - decided)
  /\ decided < Len(lines) => answer[w] \in {"asked", "unknown"}

Decided ==
  /\ decided <= Len(lines)
  /\ \E w \in Writes : Beyond(w)
  /\ op.step \in {"write", "rollback"} => decided = op.base
  /\ op.step \in {"meta", "reconcile"} => decided = Len(lines)
  /\ op.step = "size" \/ (op.step = "none" /\ ready) => (sizes[owner] # Unknown => decided = Len(lines))

(* Every place in the history is taken. *)
Ranked == \A k \in 1..Cardinality(Found) : \E i \in Found : Rank(Found, i) = k

LEMMA Places ==
  ASSUME NEW d \in Nat, NEW S \in SUBSET (1..d)
  PROVE  /\ IsFiniteSet(S) /\ Cardinality(S) \in Nat
         /\ \A i \in S : i \in Nat /\ 1 <= i /\ i <= d
<1>1. 1 \in Int /\ d \in Int
  OBVIOUS
<1>2. IsFiniteSet(1..d)
  BY <1>1, FS_Interval
<1>3. IsFiniteSet(S)
  BY <1>2, FS_Subset
<1>4. \A i \in S : i \in 1..d
  OBVIOUS
<1> QED BY <1>3, <1>4, FS_CardinalityType

LEMMA RankInjective ==
  ASSUME NEW d \in Nat, NEW S \in SUBSET (1..d), NEW i \in S, NEW j \in S, i < j
  PROVE  /\ Rank(S, i) \in Nat /\ Rank(S, j) \in Nat /\ Rank(S, i) < Rank(S, j)
         /\ Rank(S, i) >= 1 /\ Rank(S, j) <= Cardinality(S)
<1> DEFINE A == {x \in S : x <= i}
           B == {x \in S : x <= j}
<1>1. IsFiniteSet(S) /\ \A x \in S : x \in Nat
  BY Places
<1>0. (\A x \in S : x <= i => x <= j) /\ j <= j /\ i <= i /\ ~(j <= i)
  BY <1>1
<1>2. A \subseteq B /\ B \subseteq S /\ j \in B /\ j \notin A /\ i \in A
  BY <1>0
<1>3. IsFiniteSet(A) /\ IsFiniteSet(B)
  BY <1>1, <1>2, FS_Subset
<1>4. Cardinality(A) \in Nat /\ Cardinality(B) \in Nat /\ Cardinality(S) \in Nat
  BY <1>1, <1>3, FS_CardinalityType
<1>5. Cardinality(A) <= Cardinality(B) /\ Cardinality(B) <= Cardinality(S) /\ Cardinality(A) # Cardinality(B)
  BY <1>1, <1>2, <1>3, FS_Subset
<1>6. Cardinality(A) # 0
  BY <1>2, <1>3, FS_EmptySet
<1>7. Rank(S, i) = Cardinality(A) /\ Rank(S, j) = Cardinality(B)
  BY DEF Rank
<1> HIDE DEF A, B
<1> QED BY <1>4, <1>5, <1>6, <1>7

LEMMA RankType ==
  ASSUME NEW d \in Nat, NEW S \in SUBSET (1..d), NEW i \in S
  PROVE  Rank(S, i) \in 1..Cardinality(S) /\ Cardinality(S) \in Nat /\ IsFiniteSet(S)
<1> DEFINE A == {x \in S : x <= i}
<1>1. IsFiniteSet(S) /\ i \in Nat
  BY Places
<1>2. A \subseteq S /\ i \in A
  BY <1>1
<1>3. IsFiniteSet(A) /\ Cardinality(A) <= Cardinality(S)
  BY <1>1, <1>2, FS_Subset
<1>4. Cardinality(A) \in Nat /\ Cardinality(S) \in Nat /\ Cardinality(A) # 0
  BY <1>1, <1>2, <1>3, FS_CardinalityType, FS_EmptySet
<1>5. Rank(S, i) = Cardinality(A)
  BY DEF Rank
<1> HIDE DEF A
<1> QED BY <1>1, <1>3, <1>4, <1>5

(* The k-th place is the only one of its rank. *)
LEMMA NthIs ==
  ASSUME NEW d \in Nat, NEW S \in SUBSET (1..d)
  PROVE  \A i \in S : Nth(S, Rank(S, i)) = i
<1> SUFFICES ASSUME NEW i \in S PROVE Nth(S, Rank(S, i)) = i
  OBVIOUS
<1> DEFINE k == Rank(S, i)
           c == CHOOSE x \in S : Rank(S, x) = k
<1>1. c \in S /\ Rank(S, c) = k
  OBVIOUS
<1>2. c = Nth(S, Rank(S, i))
  BY DEF Nth
<1>3. c \in Nat /\ i \in Nat /\ k \in Nat
  BY <1>1, Places, RankType
<1>4. k = Rank(S, i)
  OBVIOUS
<1> HIDE DEF c, k
<1>5. ~(c < i)
  <2> SUFFICES ASSUME c < i PROVE FALSE
    OBVIOUS
  <2>1. Rank(S, c) < Rank(S, i)
    BY <1>1, RankInjective
  <2> QED BY <1>1, <1>3, <1>4, <2>1
<1>6. ~(i < c)
  <2> SUFFICES ASSUME i < c PROVE FALSE
    OBVIOUS
  <2>1. Rank(S, i) < Rank(S, c)
    BY <1>1, RankInjective
  <2> QED BY <1>1, <1>3, <1>4, <2>1
<1> QED BY <1>2, <1>3, <1>5, <1>6

LEMMA RankAdds ==
  ASSUME NEW d \in Nat, NEW S \in SUBSET (1..d), NEW m \in Nat, d < m
  PROVE  /\ Cardinality(S \union {m}) = Cardinality(S) + 1
         /\ Rank(S \union {m}, m) = Cardinality(S) + 1
         /\ \A i \in S : Rank(S \union {m}, i) = Rank(S, i)
<1>0. IsFiniteSet(S) /\ \A x \in S : x \in Nat /\ x <= d
  BY Places
<1>1. m \notin S /\ m <= m /\ \A x \in S : x <= m /\ ~(m <= x)
  BY <1>0
<1>2. Cardinality(S \union {m}) = Cardinality(S) + 1
  BY <1>0, <1>1, FS_AddElement
<1>3. {x \in S \union {m} : x <= m} = S \union {m}
  BY <1>1
<1>4. \A i \in S : {x \in S \union {m} : x <= i} = {x \in S : x <= i}
  BY <1>1
<1> QED BY <1>2, <1>3, <1>4 DEF Rank

-----------------------------------------------------------------------------
LEMMA FoundTypes ==
  ASSUME Types, decided <= Len(lines)
  PROVE  /\ Found \in SUBSET (1..decided) /\ decided \in Nat /\ Len(lines) \in Nat
         /\ \A i \in Found : /\ i \in 1..Len(lines) /\ lines[i] \in Lines /\ lines[i][1] \in Writes
                             /\ lines[i] = Line(lines[i][1], Size[lines[i][1]])
<1>1. decided \in Nat /\ Len(lines) \in Nat /\ lines \in Seq(Lines)
  BY DEF Types
<1>2. \A i \in 1..decided : i \in 1..Len(lines) /\ lines[i] \in Lines
  BY <1>1
<1>3. \A l \in Lines : l[1] \in Writes /\ l = Line(l[1], l[2])
  BY DEF Lines, Line
<1>4. \A i \in Found : i \in 1..decided /\ lines[i][2] = Size[lines[i][1]]
  BY DEF Found, Ends
<1> QED BY <1>1, <1>2, <1>3, <1>4 DEF Found

LEMMA Taken ==
  ASSUME Types, decided <= Len(lines), Ranked
  PROVE  /\ Cardinality(Found) \in Nat
         /\ \A k \in 1..Cardinality(Found) : Nth(Found, k) \in Found /\ Rank(Found, Nth(Found, k)) = k
         /\ \A i \in Found : Rank(Found, i) \in 1..Cardinality(Found) /\ Nth(Found, Rank(Found, i)) = i
<1>1. Found \in SUBSET (1..decided) /\ decided \in Nat
  BY FoundTypes
<1>2. Cardinality(Found) \in Nat
  BY <1>1, Places
<1>3. \A k \in 1..Cardinality(Found) : Nth(Found, k) \in Found /\ Rank(Found, Nth(Found, k)) = k
  <2> SUFFICES ASSUME NEW k \in 1..Cardinality(Found)
               PROVE  Nth(Found, k) \in Found /\ Rank(Found, Nth(Found, k)) = k
    OBVIOUS
  <2>1. PICK i \in Found : Rank(Found, i) = k
    BY DEF Ranked
  <2>2. Nth(Found, k) = i
    BY <1>1, <2>1, NthIs
  <2> QED BY <2>1, <2>2
<1>4. \A i \in Found : Rank(Found, i) \in 1..Cardinality(Found) /\ Nth(Found, Rank(Found, i)) = i
  BY <1>1, RankType, NthIs
<1> QED BY <1>2, <1>3, <1>4

(* The writes of the history are those whose end was found. *)
LEMMA HistoryIs ==
  ASSUME Types, decided <= Len(lines), Ranked
  PROVE  /\ History \in Seq(Writes) /\ Len(History) = Cardinality(Found)
         /\ \A k \in 1..Cardinality(Found) : History[k] = lines[Nth(Found, k)][1]
         /\ Contract!Range(History) = {lines[i][1] : i \in Found}
<1>1. \A i \in Found : lines[i][1] \in Writes
  BY FoundTypes
<1>2. /\ Cardinality(Found) \in Nat
      /\ \A k \in 1..Cardinality(Found) : Nth(Found, k) \in Found
      /\ \A i \in Found : Rank(Found, i) \in 1..Cardinality(Found) /\ Nth(Found, Rank(Found, i)) = i
  BY Taken
<1>3. /\ History \in [1..Cardinality(Found) -> Writes]
      /\ \A k \in 1..Cardinality(Found) : History[k] = lines[Nth(Found, k)][1]
  BY <1>1, <1>2 DEF History
<1>4. History \in Seq(Writes) /\ Len(History) = Cardinality(Found) /\ DOMAIN History = 1..Cardinality(Found)
  BY <1>2, <1>3
<1>5. Contract!Range(History) = {History[k] : k \in 1..Cardinality(Found)}
  BY <1>4 DEF Contract!Range
<1>6. ASSUME NEW i \in Found PROVE \E k \in 1..Cardinality(Found) : History[k] = lines[i][1]
  BY <1>2, <1>3
<1>8. ASSUME NEW k \in 1..Cardinality(Found) PROVE \E i \in Found : History[k] = lines[i][1]
  BY <1>2, <1>3
<1>7. {History[k] : k \in 1..Cardinality(Found)} = {lines[i][1] : i \in Found}
  BY <1>6, <1>8
<1> QED BY <1>3, <1>4, <1>5, <1>7

LEMMA HistoryStays ==
  ASSUME Types, decided <= Len(lines), Ranked, Found' = Found, \A i \in Found : lines'[i] = lines[i]
  PROVE  Ranked' /\ History' = History
<1>1. Ranked'
  BY DEF Ranked
<1>2. \A k \in 1..Cardinality(Found) : Nth(Found, k) \in Found
  BY Taken
<1>3. History' = [k \in 1..Cardinality(Found) |-> lines'[Nth(Found, k)][1]]
  BY DEF History
<1> QED BY <1>1, <1>2, <1>3 DEF History

LEMMA Longer ==
  ASSUME NEW S, NEW s \in Seq(S), NEW e \in S, NEW t,
         t = [k \in 1..(Len(s) + 1) |-> IF k <= Len(s) THEN s[k] ELSE e]
  PROVE  t = Append(s, e)
<1> DEFINE n == Len(s)
           a == Append(s, e)
<1>1. a \in Seq(S) /\ Len(a) = n + 1 /\ (\A i \in 1..n : a[i] = s[i]) /\ a[n + 1] = e /\ n \in Nat
  BY Appended
<1> HIDE DEF n, a
<1>2. a = [k \in 1..(n + 1) |-> a[k]]
  <2>1. a \in [1..(n + 1) -> S]
    BY <1>1
  <2> QED BY <2>1
<1>3. \A k \in 1..(n + 1) : a[k] = IF k <= n THEN s[k] ELSE e
  <2> SUFFICES ASSUME NEW k \in 1..(n + 1) PROVE a[k] = IF k <= n THEN s[k] ELSE e
    OBVIOUS
  <2>1. CASE k <= n
    BY <1>1, <2>1
  <2>2. CASE ~(k <= n)
    <3>1. k = n + 1
      BY <1>1, <2>2
    <3> QED BY <1>1, <2>2, <3>1
  <2> QED BY <2>1, <2>2
<1>4. t = [k \in 1..(n + 1) |-> IF k <= n THEN s[k] ELSE e]
  BY DEF n
<1>5. t = a
  BY <1>2, <1>3, <1>4
<1> QED BY <1>5 DEF a

(* Where an append or a load finds all of the log, at most one write is added to the history. *)
LEMMA HistoryGrows ==
  ASSUME FileInv, Decided, Ranked, UNCHANGED <<lines, answer>>, decided' = Len(lines)
  PROVE  Ranked' /\ (History' = History \/ \E w \in Writes : Contract!Commit(w))
<1> DEFINE m == Len(lines)
           F == Found \union {m}
           K == Cardinality(Found)
<1>1. /\ Types /\ Ordered /\ decided <= Len(lines) /\ decided \in Nat /\ m \in Nat /\ m = Len(lines)
      /\ lines \in Seq(Lines)
  BY DEF FileInv, Types, Decided
<1>2. PICK w \in Writes : Beyond(w)
  BY DEF Decided
<1>3. Size[w] \in Nat \ {0} /\ m - decided <= Size[w] /\ (decided < m => answer[w] \in {"asked", "unknown"})
  BY <1>2, Sizes DEF Beyond
<1>4. \A i \in 1..m : i > decided => (Ends(lines[i]) <=> i - decided = Size[w]) /\ lines[i] = Line(w, i - decided)
  <2> SUFFICES ASSUME NEW i \in 1..m, i > decided
               PROVE  (Ends(lines[i]) <=> i - decided = Size[w]) /\ lines[i] = Line(w, i - decided)
    OBVIOUS
  <2>1. lines[i] = Line(w, i - decided) /\ i - decided \in Nat \ {0}
    BY <1>1, <1>2 DEF Beyond
  <2>2. lines[i][1] = w /\ lines[i][2] = i - decided /\ lines[i] # Garbage
    BY <2>1, LinesOf
  <2> QED BY <2>1, <2>2 DEF Ends
<1>5. Found' = {i \in 1..m : Ends(lines[i])}
  BY DEF Found
<1> HIDE DEF m
<1>6. CASE m - decided < Size[w]
  <2>1. \A i \in 1..m : i > decided => ~Ends(lines[i])
    BY <1>1, <1>3, <1>4, <1>6
  <2>2. \A i : i \in 1..decided <=> i \in 1..m /\ ~(i > decided)
    BY <1>1
  <2>3. Found' = Found
    BY <1>5, <2>1, <2>2 DEF Found
  <2> QED BY <1>1, <2>3, HistoryStays
<1>7. CASE ~(m - decided < Size[w])
  <2>1. m - decided = Size[w] /\ decided < m /\ m \in 1..m
    BY <1>1, <1>3, <1>7
  <2>2. lines[m] = Line(w, Size[w]) /\ lines[m][1] = w /\ Ends(lines[m])
    BY <1>1, <1>3, <1>4, <2>1, LinesOf
  <2>3. \A i \in 1..m : i > decided => (Ends(lines[i]) <=> i = m)
    BY <1>1, <1>3, <1>4, <2>1
  <2>4. \A i : i \in 1..decided <=> i \in 1..m /\ ~(i > decided)
    BY <1>1
  <2>5. Found' = F
    BY <1>5, <2>1, <2>2, <2>3, <2>4 DEF Found
  <2>6. Found \in SUBSET (1..decided) /\ F \in SUBSET (1..m) /\ m \notin Found
    BY <1>1, <2>1, FoundTypes
  <2>7. Cardinality(F) = K + 1 /\ Rank(F, m) = K + 1 /\ (\A i \in Found : Rank(F, i) = Rank(Found, i)) /\ K \in Nat
    <3>1. Cardinality(F) = K + 1 /\ Rank(F, m) = K + 1 /\ \A i \in Found : Rank(F, i) = Rank(Found, i)
      BY <1>1, <2>1, <2>6, RankAdds
    <3>2. K \in Nat
      BY <1>1, <2>6, Places
    <3> QED BY <3>1, <3>2
  <2>8. \A k \in 1..K : Nth(Found, k) \in Found /\ Rank(Found, Nth(Found, k)) = k
    BY <1>1, Taken
  <2> HIDE DEF F, K
  <2>9. Found \subseteq F /\ m \in F /\ \A i \in F : Nth(F, Rank(F, i)) = i
    BY <1>1, <2>6, NthIs DEF F
  <2>10. \A k \in 1..K : Nth(F, k) = Nth(Found, k)
    <3> SUFFICES ASSUME NEW k \in 1..K PROVE Nth(F, k) = Nth(Found, k)
      OBVIOUS
    <3>1. Nth(Found, k) \in F /\ Rank(F, Nth(Found, k)) = k
      BY <2>7, <2>8, <2>9
    <3> QED BY <2>9, <3>1
  <2>11. Nth(F, K + 1) = m
    BY <2>7, <2>9
  <2>12. Ranked'
    <3>1. \A k \in 1..(K + 1) : k \in 1..K \/ k = K + 1
      BY <2>7
    <3>2. \A k \in 1..(K + 1) : \E i \in F : Rank(F, i) = k
      BY <2>7, <2>8, <2>9, <3>1
    <3>3. \A k \in 1..Cardinality(Found') : \E i \in Found' : Rank(Found', i) = k
      BY <2>5, <2>7, <3>2
    <3> QED BY <3>3 DEF Ranked
  <2>13. /\ History \in Seq(Writes) /\ Len(History) = K
         /\ \A k \in 1..K : History[k] = lines[Nth(Found, k)][1]
         /\ Contract!Range(History) = {lines[i][1] : i \in Found}
    BY <1>1, HistoryIs DEF K
  <2>14. History' = Append(History, w)
    <3>1. History' = [k \in 1..(K + 1) |-> lines[Nth(F, k)][1]]
      BY <2>5, <2>7 DEF History
    <3>2. \A k \in 1..(K + 1) : lines[Nth(F, k)][1] = IF k <= K THEN History[k] ELSE w
      <4> SUFFICES ASSUME NEW k \in 1..(K + 1) PROVE lines[Nth(F, k)][1] = IF k <= K THEN History[k] ELSE w
        OBVIOUS
      <4>1. CASE k <= K
        <5>1. k \in 1..K
          BY <2>7, <4>1
        <5> QED BY <2>10, <2>13, <4>1, <5>1
      <4>2. CASE ~(k <= K)
        <5>1. k = K + 1
          BY <2>7, <4>2
        <5> QED BY <2>2, <2>11, <4>2, <5>1
      <4> QED BY <4>1, <4>2
    <3>3. History' = [k \in 1..(K + 1) |-> IF k <= K THEN History[k] ELSE w]
      BY <3>1, <3>2
    <3> QED BY <2>13, <3>3, Longer
  <2>15. w \notin Contract!Range(History)
    <3> SUFFICES ASSUME NEW i \in Found, lines[i][1] = w PROVE FALSE
      BY <2>13
    <3>1. i \in 1..m /\ lines[i] = lines[m]
      BY <1>1, <2>2, FoundTypes
    <3>2. i = m
      BY <1>1, <2>1, <3>1 DEF Ordered
    <3> QED BY <2>6, <3>2
  <2>16. Contract!Commit(w)
    BY <1>3, <2>1, <2>14, <2>15 DEF Contract!Commit
  <2> QED BY <2>12, <2>16
<1> QED BY <1>6, <1>7

-----------------------------------------------------------------------------
LEMMA HistorySame ==
  ASSUME Types, Decided, Ranked, decided' = decided, \A i \in 1..decided : lines'[i] = lines[i]
  PROVE  Ranked' /\ History' = History
<1>1. Found' = Found
  BY DEF Found
<1>2. \A i \in Found : lines'[i] = lines[i]
  BY DEF Found
<1> QED BY <1>1, <1>2, HistoryStays DEF Decided

LEMMA NothingBeyond ==
  ASSUME Len(lines') \in Nat, decided' = Len(lines')
  PROVE  decided' <= Len(lines') /\ \E w \in Writes : Beyond(w)'
<1>1. Created \in Writes /\ Size[Created] \in Nat
  BY Sizes, FileAssumption DEF FileAssumption
<1>2. Beyond(Created)'
  BY <1>1 DEF Beyond
<1> QED BY <1>1, <1>2

(* A write beyond `decided` is a line of the log, so it has been asked for. *)
LEMMA BeyondStays ==
  ASSUME Types, Decided, UNCHANGED <<lines, decided>>,
         \A w \in Writes : answer[w] \in {"asked", "unknown"} /\ ~Untouched(w) => answer'[w] \in {"asked", "unknown"}
  PROVE  decided' <= Len(lines') /\ \E w \in Writes : Beyond(w)'
<1>1. PICK w \in Writes : Beyond(w)
  BY DEF Decided
<1>2. decided < Len(lines) => ~Untouched(w)
  <2> SUFFICES ASSUME decided < Len(lines) PROVE ~Untouched(w)
    OBVIOUS
  <2>1. Len(lines) \in 1..Len(lines) /\ Len(lines) > decided /\ Len(lines) - decided \in Nat \ {0}
    BY DEF Types
  <2>2. lines[Len(lines)][1] = w
    BY <1>1, <2>1, LinesOf DEF Beyond
  <2> QED BY <2>1, <2>2 DEF Untouched
<1>3. Beyond(w)'
  BY <1>1, <1>2 DEF Beyond
<1> QED BY <1>3 DEF Decided

LEMMA NotInHistory ==
  ASSUME Types, Decided, Ranked, NEW w \in Writes, \A i \in 1..decided : lines[i][1] # w
  PROVE  w \notin Contract!Range(History)
<1>1. Contract!Range(History) = {lines[i][1] : i \in Found}
  BY HistoryIs DEF Decided
<1> QED BY <1>1 DEF Found

LEMMA TellsRefused ==
  ASSUME Types, Decided, Ranked, NEW w \in Writes, answer[w] = "asked", \A i \in 1..decided : lines[i][1] # w,
         answer' = [answer EXCEPT ![w] = "refused"], History' = History
  PROVE  Contract!LogNext
<1>1. Contract!Refuse(w)
  BY NotInHistory DEF Contract!Refuse
<1> QED BY <1>1 DEF Contract!LogNext

LEMMA TellsUnknown ==
  ASSUME Types, NEW w \in Writes, answer[w] = "asked", answer' = [answer EXCEPT ![w] = "unknown"], History' = History
  PROVE  Contract!LogNext
<1>1. answer' = [v \in Writes |-> IF v \in {w} THEN "unknown" ELSE answer[v]]
  BY DEF Types
<1>2. Contract!GiveUp({w})
  BY <1>1 DEF Contract!GiveUp
<1> QED BY <1>2 DEF Contract!LogNext

LEMMA TellsOk ==
  ASSUME Types, Decided, Ranked, NEW w \in Writes, answer[w] = "asked", NEW i \in Found, lines[i][1] = w,
         answer' = [answer EXCEPT ![w] = "ok"], History' = History
  PROVE  Contract!LogNext
<1>1. w \in Contract!Range(History)
  BY HistoryIs DEF Decided
<1>2. Contract!Acknowledge(w)
  BY <1>1 DEF Contract!Acknowledge
<1> QED BY <1>2 DEF Contract!LogNext

LEMMA Grown ==
  ASSUME FileInv, Decided, Ranked, UNCHANGED <<lines, answer>>, decided' = Len(lines)
  PROVE  Ranked' /\ [Contract!LogNext]_<<History, answer>>
BY HistoryGrows DEF Contract!LogNext

-----------------------------------------------------------------------------
Told == Decided' /\ Ranked' /\ [Contract!LogNext]_<<History, answer>>

LEMMA AppendBeginsTells == ASSUME FileInv, Decided, Ranked, NEW w \in Writes, AppendBegins(w) PROVE Told
<1>1. /\ Types /\ Answered /\ Creation /\ op.step = "none" /\ answer[w] = "new"
      /\ IF w = Created THEN lines = <<>> /\ ~ready ELSE ready
      /\ op'.step = "size" /\ answer' = [answer EXCEPT ![w] = "asked"]
      /\ answer' \in [Writes -> {"new", "asked", "ok", "refused", "unknown"}]
      /\ UNCHANGED <<lines, sizes, owner, ready, decided>>
  BY DEF AppendBegins, At, disk, memory, FileInv, Types
<1>2. Ranked' /\ History' = History
  BY <1>1, HistorySame
<1>3. \A v \in Writes : answer[v] \in {"asked", "unknown"} => answer'[v] \in {"asked", "unknown"}
  BY <1>1 DEF Types
<1>4. decided' <= Len(lines') /\ \E v \in Writes : Beyond(v)'
  BY <1>1, <1>3, BeyondStays
<1>5. sizes[owner] # Unknown => decided = Len(lines)
  BY <1>1 DEF Creation, Decided, At, Types
<1>6. Decided'
  BY <1>1, <1>4, <1>5 DEF Decided
<1>7. Contract!Submit(w)
  BY <1>1, <1>2 DEF Contract!Submit
<1> QED BY <1>2, <1>6, <1>7 DEF Told, Contract!LogNext

LEMMA TakesSizeTells == ASSUME FileInv, Decided, Ranked, TakesSize PROVE Told
<1>1. /\ Types /\ Answered /\ op.step = "size" /\ op.write \in Writes /\ Untouched(op.write) /\ Settled
      /\ answer[op.write] = "asked" /\ decided \in Nat /\ Len(lines) \in Nat /\ decided <= Len(lines)
      /\ UNCHANGED <<lines, owner, ready>>
  BY DEF TakesSize, At, FileInv, Types, Answered, Appending, InFlight, Decided
<1>2. CASE /\ sizes[owner] # Unknown
           /\ op' = [op EXCEPT !.step = "write", !.base = sizes[owner]]
           /\ UNCHANGED <<sizes, answer, decided>>
  <2>1. decided = Len(lines) /\ sizes[owner] = Len(lines)
    BY <1>1, <1>2 DEF Decided, Settled
  <2>2. op'.step = "write" /\ op'.base = decided
    BY <1>1, <1>2, <2>1 DEF Types
  <2>3. Ranked' /\ History' = History
    BY <1>1, <1>2, HistorySame
  <2>4. decided' <= Len(lines') /\ \E v \in Writes : Beyond(v)'
    BY <1>1, <1>2, BeyondStays
  <2>5. Decided'
    BY <1>2, <2>2, <2>4 DEF Decided
  <2> QED BY <1>2, <2>3, <2>5 DEF Told
<1>3. CASE /\ op' = [op EXCEPT !.step = "write", !.base = Len(lines)]
           /\ decided' = Len(lines) /\ UNCHANGED answer
  <2>1. op'.step = "write" /\ op'.base = Len(lines)
    BY <1>1, <1>3 DEF Types
  <2>2. decided' <= Len(lines') /\ \E v \in Writes : Beyond(v)'
    BY <1>1, <1>3, NothingBeyond
  <2>3. Decided'
    BY <1>3, <2>1, <2>2 DEF Decided
  <2> QED BY <1>1, <1>3, <2>3, Grown DEF Told
<1>4. CASE sizes[owner] = Unknown /\ Answers("refused") /\ UNCHANGED <<sizes, decided>>
  <2>1. op'.step = "none" /\ answer' = [answer EXCEPT ![op.write] = "refused"]
    BY <1>1, <1>4, AnswersEffect DEF Answers
  <2>2. \A i \in 1..decided : lines[i][1] # op.write
    BY <1>1 DEF Untouched
  <2>3. Ranked' /\ History' = History
    BY <1>1, <1>4, HistorySame
  <2>4. \A v \in Writes : answer[v] \in {"asked", "unknown"} /\ ~Untouched(v) => answer'[v] \in {"asked", "unknown"}
    BY <1>1, <2>1 DEF Types
  <2>5. decided' <= Len(lines') /\ \E v \in Writes : Beyond(v)'
    BY <1>1, <1>4, <2>4, BeyondStays
  <2>6. Decided'
    BY <1>1, <1>4, <2>1, <2>5 DEF Decided, Unknown
  <2>7. Contract!LogNext
    BY <1>1, <2>1, <2>2, <2>3, TellsRefused
  <2> QED BY <2>3, <2>6, <2>7 DEF Told
<1> QED BY <1>2, <1>3, <1>4 DEF TakesSize

LEMMA AppendProgressesTells == ASSUME FileInv, FileInv', Decided, Ranked, AppendProgresses PROVE Told
<1>1. /\ Types /\ op.step = "write" /\ op.write \in Writes /\ OwnLines /\ answer[op.write] = "asked"
      /\ decided = op.base /\ decided \in Nat /\ lines \in Seq(Lines) /\ decided <= Len(lines)
      /\ UNCHANGED <<owner, op, answer, decided>>
  BY DEF AppendProgresses, At, FileInv, Types, Answered, Appending, InFlight, Decided
<1>2. OwnLines' /\ lines' \in Seq(Lines)
  BY <1>1 DEF FileInv, InFlight, At, Types
<1>3. \A i \in 1..decided : lines'[i] = lines[i]
  <2>1. CASE UNCHANGED lines
    BY <2>1
  <2>2. CASE ~UNCHANGED lines
    <3>1. PICK e : lines' = Append(lines, e)
      BY <2>2 DEF AppendProgresses
    <3> QED BY <1>1, <3>1
  <2> QED BY <2>1, <2>2
<1>4. Ranked' /\ History' = History
  BY <1>1, <1>3, HistorySame
<1>5. /\ op.base <= Len(lines') /\ Len(lines') - op.base <= Size[op.write]
      /\ \A i \in 1..Len(lines') : ~(i <= op.base) => lines'[i] = Line(op.write, i - op.base)
  BY <1>1, <1>2 DEF OwnLines, Reached, Line
<1>6. Beyond(op.write)'
  BY <1>1, <1>5 DEF Beyond
<1>7. Decided'
  BY <1>1, <1>5, <1>6 DEF Decided
<1> QED BY <1>1, <1>4, <1>7 DEF Told

LEMMA AppendEndsTells == ASSUME FileInv, Decided, Ranked, AppendEnds PROVE Told
<1>1. op'.step = "meta" /\ decided' = Len(lines) /\ UNCHANGED <<lines, answer>> /\ Len(lines) \in Nat
  BY DEF AppendEnds, Goes, disk, FileInv, Types
<1>2. decided' <= Len(lines') /\ \E v \in Writes : Beyond(v)'
  BY <1>1, NothingBeyond
<1>3. Decided'
  BY <1>1, <1>2 DEF Decided
<1> QED BY <1>1, <1>3, Grown DEF Told

LEMMA AppendFailsTells == ASSUME FileInv, Decided, Ranked, AppendFails PROVE Told
<1>1. /\ Types /\ op.step = "write" /\ op'.step = "rollback" /\ op'.base = op.base
      /\ UNCHANGED <<lines, answer, decided>>
  BY DEF AppendFails, At, Goes, disk, FileInv, Types
<1>2. Ranked' /\ History' = History
  BY <1>1, HistorySame
<1>3. decided' <= Len(lines') /\ \E v \in Writes : Beyond(v)'
  BY <1>1, BeyondStays
<1>4. Decided'
  BY <1>1, <1>3 DEF Decided
<1> QED BY <1>1, <1>2, <1>4 DEF Told

LEMMA RollBackTells == ASSUME FileInv, FileInv', Decided, Ranked, RollBack PROVE Told
<1>1. /\ Types /\ Types' /\ op.step = "rollback" /\ op.write \in Writes /\ OwnLines /\ sizes[owner] = Unknown
      /\ answer[op.write] = "asked" /\ decided = op.base /\ decided \in Nat /\ lines \in Seq(Lines)
      /\ decided <= Len(lines)
      /\ UNCHANGED <<owner, ready, decided>>
  BY DEF RollBack, At, FileInv, Types, Answered, Appending, InFlight, Decided
<1>2. \A i \in 1..decided : lines[i][1] # op.write
  BY <1>1 DEF OwnLines
<1>3. CASE lines' = SubSeq(lines, 1, op.base) /\ Answers("refused")
  <2>1. op'.step = "none" /\ answer' = [answer EXCEPT ![op.write] = "refused"]
    BY <1>1, <1>3, AnswersEffect DEF Answers
  <2>2. Len(lines') = decided /\ \A i \in 1..decided : lines'[i] = lines[i]
    BY <1>1, <1>3, Prefix
  <2>3. Ranked' /\ History' = History
    BY <1>1, <2>2, HistorySame
  <2>4. decided' = Len(lines') /\ Len(lines') \in Nat
    BY <1>1, <2>2
  <2>5. decided' <= Len(lines') /\ \E v \in Writes : Beyond(v)'
    BY <2>4, NothingBeyond
  <2>6. Decided'
    BY <2>1, <2>4, <2>5 DEF Decided
  <2>7. Contract!LogNext
    BY <1>1, <1>2, <2>1, <2>3, TellsRefused
  <2> QED BY <2>3, <2>6, <2>7 DEF Told
<1>4. CASE Answers("unknown") /\ UNCHANGED <<lines, sizes>>
  <2>1. op'.step = "none" /\ answer' = [answer EXCEPT ![op.write] = "unknown"]
    BY <1>1, <1>4, AnswersEffect DEF Answers
  <2>2. Ranked' /\ History' = History
    BY <1>1, <1>4, HistorySame
  <2>3. \A v \in Writes : answer[v] \in {"asked", "unknown"} => answer'[v] \in {"asked", "unknown"}
    BY <1>1, <2>1 DEF Types
  <2>4. decided' <= Len(lines') /\ \E v \in Writes : Beyond(v)'
    BY <1>1, <1>4, <2>3, BeyondStays
  <2>5. sizes'[owner'] = Unknown'
    BY <1>1, <1>4 DEF Unknown
  <2>6. Decided'
    BY <2>1, <2>4, <2>5 DEF Decided
  <2>7. Contract!LogNext
    BY <1>1, <2>1, <2>2, TellsUnknown
  <2> QED BY <2>2, <2>6, <2>7 DEF Told
<1> QED BY <1>3, <1>4 DEF RollBack

LEMMA UpdatesMetadataTells == ASSUME FileInv, Decided, Ranked, UpdatesMetadata PROVE Told
<1>1. /\ Types /\ op.step = "meta" /\ op.write \in Writes /\ OwnLines /\ Reached = Size[op.write]
      /\ answer[op.write] = "asked" /\ decided = Len(lines) /\ decided \in Nat /\ op.base \in Nat
      /\ Answers("ok") /\ UNCHANGED <<lines, decided>>
  BY DEF UpdatesMetadata, At, FileInv, Types, Answered, Appending, InFlight, Decided
<1>2. op'.step = "none" /\ answer' = [answer EXCEPT ![op.write] = "ok"]
  BY <1>1, AnswersEffect DEF Answers
<1>3. Ranked' /\ History' = History
  BY <1>1, HistorySame
<1>4. decided' <= Len(lines') /\ \E v \in Writes : Beyond(v)'
  BY <1>1, NothingBeyond
<1>5. Decided'
  BY <1>1, <1>2, <1>4 DEF Decided
<1>6. decided \in Found /\ lines[decided][1] = op.write
  <2>1. /\ Size[op.write] \in Nat \ {0} /\ decided \in 1..Len(lines) /\ decided - op.base = Size[op.write]
        /\ ~(decided <= op.base)
    BY <1>1, Sizes DEF Reached
  <2>2. lines[decided] = Line(op.write, Size[op.write])
    BY <1>1, <2>1 DEF OwnLines
  <2>3. lines[decided][1] = op.write /\ Ends(lines[decided])
    BY <1>1, <2>1, <2>2, LinesOf DEF Ends
  <2> QED BY <1>1, <2>1, <2>3 DEF Found
<1>7. Contract!LogNext
  BY <1>1, <1>2, <1>3, <1>6, TellsOk
<1> QED BY <1>3, <1>5, <1>7 DEF Told

LEMMA LoadReadsTells == ASSUME FileInv, Decided, Ranked, LoadReads PROVE Told
<1>1. op'.step = "reconcile" /\ decided' = Len(lines) /\ UNCHANGED <<lines, answer>> /\ Len(lines) \in Nat
  BY DEF LoadReads, disk, FileInv, Types
<1>2. decided' <= Len(lines') /\ \E v \in Writes : Beyond(v)'
  BY <1>1, NothingBeyond
<1>3. Decided'
  BY <1>1, <1>2 DEF Decided
<1> QED BY <1>1, <1>3, Grown DEF Told

(* Steps that leave the log and the answers alone, and end where the next append loads or *)
(* everything is decided.                                                                 *)
LEMMA QuietTells ==
  ASSUME FileInv, Decided, Ranked, UNCHANGED <<lines, decided, answer>>,
         op'.step = "none", ~ready' \/ decided = Len(lines)
  PROVE  Told
<1>1. Types
  BY DEF FileInv
<1>2. Ranked' /\ History' = History
  BY <1>1, HistorySame
<1>3. decided' <= Len(lines') /\ \E v \in Writes : Beyond(v)'
  BY <1>1, BeyondStays
<1>4. Decided'
  BY <1>3 DEF Decided
<1> QED BY <1>2, <1>4 DEF Told

LEMMA CrashTells == ASSUME FileInv, Decided, Ranked, NEW h \in Hosts, Crash(h) PROVE Told
<1>1. /\ Types /\ Answered /\ sizes' = [sizes EXCEPT ![h] = Unknown] /\ UNCHANGED <<lines, owner, decided>>
  BY DEF Crash, FileInv
<1>2. Ranked' /\ History' = History
  BY <1>1, HistorySame
<1>3. CASE h = owner
  <2>1. op'.step = "none" /\ ~ready'
    BY <1>3 DEF Crash, NoOp
  <2>2. CASE Appending
    <3>1. op.write \in Writes /\ answer[op.write] = "asked" /\ answer' = [answer EXCEPT ![op.write] = "unknown"]
      BY <1>1, <1>3, <2>2 DEF Crash, Types, Answered, Appending
    <3>2. \A v \in Writes : answer[v] \in {"asked", "unknown"} => answer'[v] \in {"asked", "unknown"}
      BY <1>1, <3>1 DEF Types
    <3>3. decided' <= Len(lines') /\ \E v \in Writes : Beyond(v)'
      BY <1>1, <3>2, BeyondStays
    <3>4. Decided'
      BY <2>1, <3>3 DEF Decided
    <3>5. Contract!LogNext
      BY <1>1, <1>2, <3>1, TellsUnknown
    <3> QED BY <1>2, <3>4, <3>5 DEF Told
  <2>3. CASE ~Appending
    <3>1. UNCHANGED answer
      BY <1>3, <2>3 DEF Crash, Appending
    <3> QED BY <1>1, <2>1, <3>1, QuietTells
  <2> QED BY <2>2, <2>3
<1>4. CASE h # owner
  <2>1. UNCHANGED <<ready, op, answer>> /\ sizes'[owner] = sizes[owner]
    BY <1>1, <1>4 DEF Crash, Types
  <2>2. decided' <= Len(lines') /\ \E v \in Writes : Beyond(v)'
    BY <1>1, <2>1, BeyondStays
  <2>3. Unknown' = Unknown
    BY DEF Unknown
  <2>4. Decided'
    BY <1>1, <2>1, <2>2, <2>3 DEF Decided
  <2> QED BY <1>2, <2>1, <2>4 DEF Told
<1> QED BY <1>3, <1>4

(* Every step keeps the history where it is and is a step of EventLog or hidden from it. *)
LEMMA StepTells == ASSUME FileInv, FileInv', Decided, Ranked, [Next]_vars PROVE Told
<1>1. ASSUME NEW w \in Writes, AppendBegins(w) PROVE Told  BY <1>1, AppendBeginsTells
<1>2. CASE TakesSize                                      BY <1>2, TakesSizeTells
<1>3. CASE AppendProgresses                               BY <1>3, AppendProgressesTells
<1>4. CASE AppendEnds                                     BY <1>4, AppendEndsTells
<1>5. CASE AppendFails                                    BY <1>5, AppendFailsTells
<1>6. CASE RollBack                                       BY <1>6, RollBackTells
<1>7. CASE UpdatesMetadata                                BY <1>7, UpdatesMetadataTells
<1>8. CASE LoadReads                                      BY <1>8, LoadReadsTells
<1>9. CASE Reconciles
  <2>1. op.step = "reconcile" /\ op'.step = "none" /\ UNCHANGED <<lines, decided, answer>>
    BY <1>9 DEF Reconciles, At, NoOp
  <2>2. decided = Len(lines)
    BY <2>1 DEF Decided
  <2> QED BY <2>1, <2>2, QuietTells
<1>10. CASE Reloads
  <2>1. op'.step = "none" /\ ~ready' /\ UNCHANGED <<lines, decided, answer>>
    BY <1>10 DEF Reloads, At, disk
  <2> QED BY <2>1, QuietTells
<1>11. ASSUME NEW h \in Hosts, HandsOver(h) PROVE Told
  <2>1. op'.step = "none" /\ ~ready' /\ UNCHANGED <<lines, decided, answer>>
    BY <1>11 DEF HandsOver, At, disk
  <2> QED BY <2>1, QuietTells
<1>12. ASSUME NEW h \in Hosts, Crash(h) PROVE Told         BY <1>12, CrashTells
<1>13. CASE UNCHANGED vars
  <2>1. Types /\ UNCHANGED <<lines, sizes, owner, ready, op, answer, decided>>
    BY <1>13 DEF vars, disk, memory, FileInv
  <2>2. Ranked' /\ History' = History
    BY <2>1, HistorySame
  <2>3. decided' <= Len(lines') /\ \E v \in Writes : Beyond(v)'
    BY <2>1, BeyondStays
  <2>4. Unknown' = Unknown
    BY DEF Unknown
  <2>5. Decided'
    BY <2>1, <2>3, <2>4 DEF Decided
  <2> QED BY <2>1, <2>2, <2>5 DEF Told
<1> QED BY <1>1, <1>2, <1>3, <1>4, <1>5, <1>6, <1>7, <1>8, <1>9, <1>10, <1>11, <1>12, <1>13 DEF Next

LEMMA InitTells == ASSUME Init PROVE Decided /\ Ranked /\ Contract!LogInit
<1>1. Found = {}
  BY DEF Init, Found
<1>2. Cardinality(Found) = 0
  BY <1>1, FS_EmptySet
<1>3. Ranked
  BY <1>2 DEF Ranked
<1>4. History = <<>>
  BY <1>2 DEF History
<1>5. Beyond(Created) /\ Created \in Writes
  BY Sizes, FileAssumption DEF Init, Beyond, FileAssumption
<1>6. Decided
  BY <1>5 DEF Init, Decided, NoOp
<1> QED BY <1>3, <1>4, <1>6 DEF Init, Contract!LogInit

(***************************************************************************)
(* The store implements EventLog for every set of writes, batch sizes and  *)
(* hosts and any number of crashes and failing calls: a write enters the   *)
(* history once, when an append or a load has found all of its lines; one  *)
(* acknowledged is in it, and one refused, rolled back, never enters.      *)
(***************************************************************************)
THEOREM KeepsTheContractHolds == Spec => KeepsTheContract
<1>1. Init => FileInv /\ Decided /\ Ranked /\ Contract!LogInit
  BY InitHolds, InitTells
<1>2. FileInv /\ Decided /\ Ranked /\ [Next]_vars
        => (FileInv /\ Decided /\ Ranked)' /\ [Contract!LogNext]_<<History, answer>>
  BY StepKeeps, StepTells DEF Told
<1> QED BY <1>1, <1>2, PTL DEF Spec, KeepsTheContract, Contract!LogSpec
=============================================================================
