------------------------- MODULE HarnessSessionProofs -------------------------
(***************************************************************************)
(* Proofs about HarnessSession, for any number of writers, lines, ticks of *)
(* the clock and crashes.                                                  *)
(***************************************************************************)
EXTENDS HarnessSession, FiniteSetTheorems, WellFoundedInduction, TLAPS

(* A leaf that names no prover is Zenon's. *)
USE Zenon

(* An element added to a sequence. *)
LEMMA AppendParts ==
  ASSUME NEW S, NEW s \in Seq(S), NEW e \in S
  PROVE  /\ Append(s, e) \in Seq(S) /\ Len(Append(s, e)) = Len(s) + 1
         /\ \A i \in 1..Len(s) : Append(s, e)[i] = s[i]
         /\ Append(s, e)[Len(s) + 1] = e
BY SMTT(30)

(* An element of a sequence replaced. *)
LEMMA ExceptParts ==
  ASSUME NEW S, NEW s \in Seq(S), NEW n \in 1..Len(s), NEW e \in S
  PROVE  /\ [s EXCEPT ![n] = e] \in Seq(S) /\ Len([s EXCEPT ![n] = e]) = Len(s)
         /\ n \in DOMAIN [s EXCEPT ![n] = e] /\ [s EXCEPT ![n] = e][n] = e
BY SMTT(30)

(* Every set of natural numbers has a least element. *)
LEMMA LeastNatural ==
  ASSUME NEW T, T \subseteq Nat, T # {}
  PROVE  \E m \in T : \A k \in T : m <= k
<1> DEFINE less == {ss \in Nat \X Nat : ss[1] < ss[2]}
<1>1. IsWellFoundedOn(less, Nat)
  BY NatLessThanWellFounded DEF OpToRel
<1>2. \A x, y \in Nat : x < y => <<x, y>> \in less
  OBVIOUS
<1> HIDE DEF less
<1>3. PICK m \in T : \A k \in T : ~(<<k, m>> \in less)
  BY <1>1, WFMin
<1>4. ASSUME NEW k \in T PROVE m <= k
  <2>1. k \in Nat /\ m \in Nat
    OBVIOUS
  <2>2. ~(k < m)
    BY <1>2, <1>3, <2>1
  <2> QED
    BY <2>1, <2>2, SMTT(30)
<1> QED
  BY <1>4

(* Induction over the natural numbers, for a set instead of a predicate. *)
LEMMA Induction ==
  ASSUME NEW S, 0 \in S, \A n \in Nat : n \in S => n + 1 \in S
  PROVE  \A n \in Nat : n \in S
<1> SUFFICES ASSUME Nat \ S # {} PROVE FALSE
  OBVIOUS
<1>1. PICK m \in Nat \ S : \A k \in Nat \ S : m <= k
  BY LeastNatural
<1>2. m # 0 /\ m - 1 \in Nat /\ m - 1 \in S
  BY <1>1, SMTT(30)
<1> QED
  BY <1>1, <1>2, SMTT(30)

-----------------------------------------------------------------------------
(* Lists of entries. *)

(* getPathToRoot satisfies its recursive definition. *)
LEMMA PathUnfolds ==
  ASSUME NEW es \in Seq(EntryType), NEW id
  PROVE  /\ DOMAIN PathToRoot(es, id) = 0..Len(es)
         /\ PathToRoot(es, id)[0] = id
         /\ \A n \in 1..Len(es) :
              PathToRoot(es, id)[n] =
                IF PathToRoot(es, id)[n - 1] \in Ids(es)
                THEN ById(es, PathToRoot(es, id)[n - 1]).parent ELSE None
<1> DEFINE step(f, n) == IF n = 0 THEN id
                         ELSE IF f[n - 1] \in Ids(es) THEN ById(es, f[n - 1]).parent
                         ELSE None
           P(f, k) == f = [n \in 0..k |-> step(f, n)]
           S == {k \in Nat : \E f : P(f, k)}
<1>1. 0 \in S
  <2>1. P([n \in 0..0 |-> id], 0)
    BY SMTT(30)
  <2> QED
    BY <2>1
<1>2. ASSUME NEW k \in Nat, k \in S PROVE k + 1 \in S
  <2>1. PICK f : P(f, k)
    BY <1>2
  <2> DEFINE g == [n \in 0..(k + 1) |-> step(f, n)]
  <2>2. \A n \in 0..k : g[n] = f[n]
    BY <2>1, SMTT(30)
  <2>3. ASSUME NEW n \in 0..(k + 1) PROVE step(g, n) = step(f, n)
    <3>1. CASE n = 0
      BY <3>1
    <3>2. CASE n # 0
      <4>1. n - 1 \in 0..k
        BY <3>2, SMTT(30)
      <4>2. g[n - 1] = f[n - 1]
        BY <2>2, <4>1
      <4> HIDE DEF g
      <4> QED
        BY <3>2, <4>2
    <3> QED
      BY <3>1, <3>2
  <2>4. P(g, k + 1)
    <3>1. [n \in 0..(k + 1) |-> step(f, n)] = [n \in 0..(k + 1) |-> step(g, n)]
      <4> HIDE DEF g, step
      <4> QED
        BY <2>3
    <3> QED
      BY <3>1
  <2> HIDE DEF g, P
  <2> QED
    BY <2>4, SMTT(30)
<1>3. \E f : P(f, Len(es))
  <2>1. Len(es) \in S
    <3> HIDE DEF S
    <3> QED
      BY <1>1, <1>2, Induction, SMTT(30)
  <2> QED
    BY <2>1
<1> DEFINE path == PathToRoot(es, id)
<1>4. P(path, Len(es))
  BY <1>3 DEF PathToRoot
<1> HIDE DEF path
<1>5. /\ DOMAIN path = 0..Len(es)
      /\ \A n \in 0..Len(es) : path[n] = step(path, n)
  <2> DEFINE h == [n \in 0..Len(es) |-> step(path, n)]
  <2>1. DOMAIN h = 0..Len(es) /\ \A n \in 0..Len(es) : h[n] = step(path, n)
    OBVIOUS
  <2>2. path = h
    BY <1>4
  <2> HIDE DEF h
  <2> QED
    BY <2>1, <2>2
<1>6. Len(es) \in Nat
  BY SMTT(30)
<1>7. path[0] = id /\ \A n \in 1..Len(es) :
        path[n] = IF path[n - 1] \in Ids(es)
                  THEN ById(es, path[n - 1]).parent ELSE None
  BY <1>5, <1>6, SMTT(30)
<1> QED
  BY <1>5, <1>7 DEF path

(* A set of indices has a greatest element. *)
LEMMA MaxOfIndices ==
  ASSUME NEW n \in Nat, NEW T, T \subseteq 1..n, T # {}
  PROVE  Max(T) \in T /\ \A y \in T : Max(T) >= y
<1> DEFINE D == {n - i : i \in T}
<1>1. D \subseteq Nat /\ D # {}
  <2>1. \A i \in T : n - i \in Nat
    BY SMTT(30)
  <2> QED
    BY <2>1
<1>2. PICK d \in D : \A k \in D : d <= k
  <2> HIDE DEF D
  <2> QED
    BY <1>1, LeastNatural
<1>3. PICK m \in T : d = n - m
  OBVIOUS
<1>4. \A y \in T : m >= y
  <2> SUFFICES ASSUME NEW y \in T PROVE m >= y
    OBVIOUS
  <2>1. n - y \in D
    OBVIOUS
  <2> QED
    BY <1>2, <1>3, <2>1, SMTT(30)
<1> QED
  BY <1>4 DEF Max

(* this.byId.get returns an entry with the id it was asked for. *)
LEMMA ByIdFound ==
  ASSUME NEW es \in Seq(EntryType), NEW x \in Ids(es)
  PROVE  \E i \in DOMAIN es : ById(es, x) = es[i] /\ es[i].id = x
<1> DEFINE T == {i \in DOMAIN es : es[i].id = x}
<1>1. T \subseteq 1..Len(es) /\ T # {} /\ Len(es) \in Nat
  BY SMTT(30) DEF Ids
<1>2. Max(T) \in T
  <2> HIDE DEF T
  <2> QED
    BY <1>1, MaxOfIndices
<1> QED
  BY <1>2 DEF ById

(* The values of a list's fields are finitely many. *)
LEMMA FiniteIds ==
  ASSUME NEW D, IsFiniteSet(D), NEW f
  PROVE  IsFiniteSet({f[x] : x \in D})
<1> DEFINE S == {f[x] : x \in D}
           g == [x \in D |-> f[x]]
<1>1. g \in Surjection(D, S)
  BY DEF Surjection
<1> HIDE DEF S, g
<1> QED
  BY <1>1, FS_Surjection DEF S

(* A new full id is a positive number that nobody has: uuidv7() is unique. *)
LEMMA FullIdFresh ==
  ASSUME TypeOK
  PROVE  FullId \in Nat \ {0} /\ FullId \notin UsedIds
<1> DEFINE A == [i \in DOMAIN entries |-> entries[i].id]
           B == [i \in DOMAIN lines |-> lines[i].entry.id]
           C == [w \in Writers |-> op[w].entry.id]
<1>1. IsFiniteSet({A[x] : x \in DOMAIN entries})
  <2>1. DOMAIN entries = 1..Len(entries) /\ Len(entries) \in Int
    BY SMTT(30) DEF TypeOK
  <2>2. IsFiniteSet(DOMAIN entries)
    BY <2>1, FS_Interval, SMTT(30)
  <2> HIDE DEF A
  <2> QED
    BY <2>2, FiniteIds
<1>2. IsFiniteSet({B[x] : x \in DOMAIN lines})
  <2>1. DOMAIN lines = 1..Len(lines) /\ Len(lines) \in Int
    BY SMTT(30) DEF TypeOK
  <2>2. IsFiniteSet(DOMAIN lines)
    BY <2>1, FS_Interval, SMTT(30)
  <2> HIDE DEF B
  <2> QED
    BY <2>2, FiniteIds
<1>3. IsFiniteSet({C[x] : x \in Writers})
  <2> HIDE DEF C
  <2> QED
    BY SessionAssumption, FiniteIds
<1>4. UsedIds = {A[x] : x \in DOMAIN entries} \cup {B[x] : x \in DOMAIN lines}
                  \cup {C[x] : x \in Writers}
  BY DEF UsedIds, Ids
<1>5. IsFiniteSet(UsedIds)
  <2> HIDE DEF A, B, C
  <2> QED
    BY <1>1, <1>2, <1>3, <1>4, FS_Union
<1> DEFINE n == Cardinality(UsedIds) + 1
           E == {2 * k : k \in 1..n}
           T == E \ UsedIds
<1>6. n \in Nat
  BY <1>5, FS_CardinalityType, SMTT(30)
<1>7. T # {}
  <2> SUFFICES ASSUME E \subseteq UsedIds PROVE FALSE
    OBVIOUS
  <2> DEFINE h == [k \in 1..n |-> 2 * k]
  <2>1. h \in Injection(1..n, UsedIds)
    <3> HIDE DEF n
    <3> QED
      BY <1>6, SMTT(30) DEF Injection, IsInjective
  <2>2. Cardinality(1..n) <= Cardinality(UsedIds)
    <3> HIDE DEF h, n
    <3> QED
      BY <1>5, <2>1, FS_Injection
  <2>3. Cardinality(1..n) = n
    <3> HIDE DEF n
    <3> QED
      BY <1>6, FS_Interval, SMTT(30)
  <2> QED
    BY <1>5, <2>2, <2>3, FS_CardinalityType, SMTT(30)
<1>8. T \subseteq Nat \ {0}
  <2> HIDE DEF n
  <2> QED
    BY <1>6, SMTT(30)
<1>9. FullId = Min(T)
  BY DEF FullId
<1>10. \E m \in T : \A k \in T : m <= k
  <2> HIDE DEF T
  <2> QED
    BY <1>7, <1>8, LeastNatural
<1>11. Min(T) \in T
  BY <1>10 DEF Min
<1> QED
  BY <1>8, <1>9, <1>11

(* generateEntryId returns a positive number that no entry in memory has. *)
LEMMA GeneratedFresh ==
  ASSUME TypeOK
  PROVE  /\ generateEntryId \in Nat /\ generateEntryId # None
         /\ generateEntryId \notin Ids(entries)
<1>1. ShortId \in Nat \ {0}
  BY SMTT(30) DEF TypeOK, ShortId
<1> QED
  BY <1>1, FullIdFresh DEF generateEntryId, UsedIds, None

(* A path stays in any set that holds its start, None and all parents. *)
LEMMA PathStays ==
  ASSUME NEW es \in Seq(EntryType), NEW X, NEW id \in X, None \in X,
         \A i \in DOMAIN es : es[i].parent \in X
  PROVE  /\ \A n \in 0..Len(es) : PathToRoot(es, id)[n] \in X
         /\ OnPath(es, id) \subseteq X
<1> DEFINE path == PathToRoot(es, id)
           S == {n \in Nat : n <= Len(es) => path[n] \in X}
<1>1. 0 \in S
  BY PathUnfolds, ZenonT(40)
<1>2. ASSUME NEW n \in Nat, n \in S PROVE n + 1 \in S
  <2> SUFFICES ASSUME n + 1 <= Len(es) PROVE path[n + 1] \in X
    BY SMTT(30)
  <2>1. n + 1 \in 1..Len(es) /\ (n + 1) - 1 = n
    BY SMTT(30)
  <2>2. path[n + 1] = IF path[n] \in Ids(es) THEN ById(es, path[n]).parent ELSE None
    BY <2>1, PathUnfolds, SMTT(30)
  <2> HIDE DEF path
  <2> QED
    BY <2>2, ByIdFound, SMTT(30)
<1>3. \A n \in Nat : n \in S
  <2> HIDE DEF S
  <2> QED
    BY <1>1, <1>2, Induction
<1>4. Len(es) \in Nat /\ DOMAIN path = 0..Len(es)
  BY PathUnfolds, SMTT(30)
<1>5. \A n \in 0..Len(es) : path[n] \in X
  BY <1>3, <1>4, SMTT(30)
<1> QED
  BY <1>4, <1>5 DEF OnPath, Range

(* The types of an entry's fields. *)
LEMMA EntryFields ==
  ASSUME NEW e \in EntryType
  PROVE  e.id \in Nat /\ e.parent \in Nat /\ e.ref \in Nat /\ e.type \in Types
BY DEF EntryType

(* An entry made from its fields. *)
LEMMA EntryIsEntry ==
  ASSUME NEW id \in Nat, NEW parent \in Nat, NEW type \in Types, NEW ref \in Nat
  PROVE  /\ Entry(id, parent, type, ref) \in EntryType
         /\ Entry(id, parent, type, ref).id = id
         /\ Entry(id, parent, type, ref).parent = parent
         /\ Entry(id, parent, type, ref).type = type
         /\ Entry(id, parent, type, ref).ref = ref
BY DEF Entry, EntryType

(* A writer without a call. *)
LEMMA NoOpType == NoOp \in OpType /\ NoOp.pc = "idle" /\ ~NoOp.summary
BY DEF NoOp, OpType, Entry, EntryType, Types, None

(* Reading the file gives entries. *)
LEMMA LoadedType ==
  ASSUME lines \in Seq(LineType)
  PROVE  /\ LoadedEntries \in Seq(EntryType)
         /\ Len(LoadedEntries) = Len(lines)
         /\ DOMAIN LoadedEntries = 1..Len(lines)
         /\ \A i \in 1..Len(lines) : LoadedEntries[i] = lines[i].entry
<1>1. /\ Len(lines) \in Nat /\ DOMAIN lines = 1..Len(lines)
      /\ \A i \in DOMAIN lines : lines[i] \in LineType
  BY SMTT(30)
<1>2. \A i \in DOMAIN lines : lines[i].entry \in EntryType
  BY <1>1 DEF LineType
<1> QED
  BY <1>1, <1>2, SMTT(30) DEF LoadedEntries

(* What writing a line does to the file, whole or torn. *)
LEMMA LineWritten ==
  ASSUME lines \in Seq(LineType), eol \in BOOLEAN, ~eol => lines # <<>>,
         NEW e \in EntryType, NEW ok \in BOOLEAN
  PROVE  /\ WithLine(e, ok) \in Seq(LineType)
         /\ WithLine(e, ok) # <<>>
         /\ eol => WithLine(e, ok) = Append(lines, [entry |-> e, ok |-> ok])
         /\ ~eol => \E i \in DOMAIN WithLine(e, ok) : ~WithLine(e, ok)[i].ok
<1>1. CASE eol
  <2>1. [entry |-> e, ok |-> ok] \in LineType
    BY DEF LineType
  <2>2. WithLine(e, ok) = Append(lines, [entry |-> e, ok |-> ok])
    BY <1>1 DEF WithLine
  <2> QED
    BY <1>1, <2>1, <2>2, AppendParts, SMTT(30)
<1>2. CASE ~eol
  <2> DEFINE n == Len(lines)
             line == [lines[n] EXCEPT !.ok = FALSE]
  <2>1. n \in 1..Len(lines) /\ lines[n] \in LineType
    BY <1>2, SMTT(30)
  <2>2. line \in LineType /\ ~line.ok
    BY <2>1 DEF LineType
  <2>3. WithLine(e, ok) = [lines EXCEPT ![n] = line]
    BY <1>2 DEF WithLine
  <2> HIDE DEF line, n
  <2> QED
    BY <1>2, <2>1, <2>2, <2>3, ExceptParts, SMTT(30)
<1> QED
  BY <1>1, <1>2

(* A closed session has no call in flight, and an unterminated line is one. *)
ShapeInv ==
  /\ \A w \in Writers : op[w].pc # "idle" => open
  /\ ~eol => lines # <<>>

(* How one call moves. *)
LEMMA OpMoves ==
  ASSUME op \in [Writers -> OpType], NEW w \in Writers, NEW r \in OpType,
         op' = [op EXCEPT ![w] = r]
  PROVE  /\ op' \in [Writers -> OpType]
         /\ op'[w] = r
         /\ \A v \in Writers : v # w => op'[v] = op[v]
OBVIOUS

(* What each call and step makes of its writer's record.  append*: a fresh id,
   and for a compaction an entry of the branch. *)
LEMMA AppendStarted ==
  ASSUME TypeOK, NEW w \in Writers, NEW type \in {"message", "compaction"},
         AppendStart(w, type)
  PROVE  \E r \in OpType :
           /\ op' = [op EXCEPT ![w] = r]
           /\ r.pc = "leaf" /\ ~r.summary
           /\ r.entry.id # None /\ r.entry.id \notin Ids(entries)
           /\ r.entry.parent = None /\ r.entry.type = type
           /\ r.entry.ref \in IF type = "compaction" THEN OnPath(entries, leaf) ELSE {None}
<1>1. PICK ref \in IF type = "compaction" THEN OnPath(entries, leaf) ELSE {None} :
        op' = [op EXCEPT ![w] = [pc |-> "leaf", summary |-> FALSE,
                 entry |-> Entry(generateEntryId, None, type, ref)]]
  BY DEF AppendStart
<1>2. None \in Nat /\ leaf \in Nat /\ entries \in Seq(EntryType)
  BY DEF TypeOK, None
<1>3. \A i \in DOMAIN entries : entries[i].parent \in Nat
  BY <1>2, EntryFields, SMTT(30)
<1>4. ref \in Nat
  BY <1>2, <1>3, PathStays
<1> DEFINE e == Entry(generateEntryId, None, type, ref)
           r == [pc |-> "leaf", summary |-> FALSE, entry |-> e]
<1>5. type \in Types
  BY DEF Types
<1>6. /\ e \in EntryType /\ e.id = generateEntryId /\ e.parent = None
      /\ e.type = type /\ e.ref = ref
  <2>1. generateEntryId \in Nat
    BY GeneratedFresh
  <2> QED
    BY <1>2, <1>4, <1>5, <2>1, EntryIsEntry, SMTT(30)
<1> HIDE DEF e
<1>7. r \in OpType /\ r.pc = "leaf" /\ ~r.summary /\ r.entry = e
  BY <1>6 DEF OpType
<1>8. op' = [op EXCEPT ![w] = r]
  BY <1>1 DEF e
<1> HIDE DEF r
<1> QED
  BY <1>1, <1>6, <1>7, <1>8, GeneratedFresh

(* append* reads the leaf and takes it as parent. *)
LEMMA LeafRead ==
  ASSUME TypeOK, NEW w \in Writers, ReadLeaf(w)
  PROVE  \E r \in OpType :
           /\ op' = [op EXCEPT ![w] = r]
           /\ r.pc = "write" /\ r.summary = op[w].summary
           /\ r.entry = [op[w].entry EXCEPT !.parent = leaf]
           /\ r.entry.id = op[w].entry.id /\ r.entry.parent = leaf
           /\ r.entry.type = op[w].entry.type /\ r.entry.ref = op[w].entry.ref
<1> DEFINE e == [op[w].entry EXCEPT !.parent = leaf]
           q == [op[w] EXCEPT !.pc = "write"]
           r == [q EXCEPT !.entry = e]
<1>1. op[w] \in OpType /\ leaf \in Nat
  BY DEF TypeOK
<1>2. op' = [op EXCEPT ![w] = [q EXCEPT !.entry.parent = leaf]]
  BY DEF ReadLeaf
<1>3. [q EXCEPT !.entry.parent = leaf] = r
  BY <1>1 DEF OpType
<1>4. op[w].entry \in EntryType
  BY <1>1 DEF OpType
<1>5. e \in EntryType
  BY <1>1, <1>4 DEF EntryType
<1>6. /\ e.id = op[w].entry.id /\ e.parent = leaf
      /\ e.type = op[w].entry.type /\ e.ref = op[w].entry.ref
  BY <1>4 DEF EntryType
<1>7. r \in OpType /\ r.pc = "write" /\ r.summary = op[w].summary /\ r.entry = e
  <2> HIDE DEF e
  <2> QED
    BY <1>1, <1>5 DEF OpType
<1>8. op' = [op EXCEPT ![w] = r]
  BY <1>2, <1>3
<1> HIDE DEF r, q
<1> QED
  BY <1>5, <1>6, <1>7, <1>8

(* moveTo: a leaf entry that refers to a known entry. *)
LEMMA MoveStarted ==
  ASSUME TypeOK, NEW w \in Writers, NEW s \in BOOLEAN, MoveTo(w, s)
  PROVE  \E r \in OpType :
           /\ op' = [op EXCEPT ![w] = r]
           /\ r.pc = "write" /\ r.summary = s
           /\ r.entry.id # None /\ r.entry.id \notin Ids(entries)
           /\ r.entry.parent = leaf /\ r.entry.type = "leaf"
           /\ Known(entries, r.entry.ref)
<1>1. PICK target \in Ids(entries) \cup {None} :
        op' = [op EXCEPT ![w] = [pc |-> "write", summary |-> s,
                 entry |-> Entry(generateEntryId, leaf, "leaf", target)]]
  BY DEF MoveTo
<1>2. leaf \in Nat /\ entries \in Seq(EntryType) /\ None \in Nat
  BY DEF TypeOK, None
<1>3. target \in Nat
  BY <1>2, EntryFields, SMTT(30) DEF Ids
<1> DEFINE e == Entry(generateEntryId, leaf, "leaf", target)
           r == [pc |-> "write", summary |-> s, entry |-> e]
<1>4. "leaf" \in Types
  BY DEF Types
<1>5. /\ e \in EntryType /\ e.id = generateEntryId /\ e.parent = leaf
      /\ e.type = "leaf" /\ e.ref = target
  <2>1. generateEntryId \in Nat
    BY GeneratedFresh
  <2> QED
    BY <1>2, <1>3, <1>4, <2>1, EntryIsEntry, SMTT(30)
<1> HIDE DEF e
<1>6. r \in OpType /\ r.pc = "write" /\ r.summary = s /\ r.entry = e
  BY <1>5 DEF OpType
<1>7. op' = [op EXCEPT ![w] = r]
  BY <1>1 DEF e
<1>8. Known(entries, target)
  BY DEF Known
<1> HIDE DEF r
<1> QED
  BY <1>5, <1>6, <1>7, <1>8, GeneratedFresh

(* moveTo appends its summary below the entry it moved to. *)
LEMMA SummaryStarted ==
  ASSUME TypeOK, NEW w \in Writers, AppendSummary(w)
  PROVE  \E r \in OpType :
           /\ op' = [op EXCEPT ![w] = r]
           /\ r.pc = "write" /\ ~r.summary
           /\ r.entry.id # None /\ r.entry.id \notin Ids(entries)
           /\ r.entry.parent = op[w].entry.ref /\ r.entry.type = "branch_summary"
           /\ r.entry.ref = None
<1> DEFINE e == Entry(generateEntryId, op[w].entry.ref, "branch_summary", None)
           r == [pc |-> "write", summary |-> FALSE, entry |-> e]
<1>1. op[w] \in OpType /\ None \in Nat /\ "branch_summary" \in Types
  BY DEF TypeOK, None, Types
<1>2. op[w].entry \in EntryType
  BY <1>1 DEF OpType
<1>3. op[w].entry.ref \in Nat
  BY <1>2, EntryFields, ZenonT(40)
<1>4. /\ e \in EntryType /\ e.id = generateEntryId /\ e.parent = op[w].entry.ref
      /\ e.type = "branch_summary" /\ e.ref = None
  <2>1. generateEntryId \in Nat
    BY GeneratedFresh
  <2> QED
    BY <1>1, <1>3, <2>1, EntryIsEntry, SMTT(30)
<1>5. op' = [op EXCEPT ![w] = r]
  BY DEF AppendSummary
<1> HIDE DEF e
<1>6. r \in OpType /\ r.pc = "write" /\ ~r.summary /\ r.entry = e
  BY <1>4 DEF OpType
<1> HIDE DEF r
<1> QED
  BY <1>4, <1>5, <1>6, GeneratedFresh

(* A step that only moves a call to another point. *)
LEMMA PcMoved ==
  ASSUME op \in [Writers -> OpType], NEW w \in Writers,
         NEW p \in {"commit", "summary"}, op' = [op EXCEPT ![w].pc = p]
  PROVE  \E r \in OpType :
           /\ op' = [op EXCEPT ![w] = r]
           /\ r.pc = p /\ r.entry = op[w].entry /\ r.summary = op[w].summary
<1> DEFINE r == [op[w] EXCEPT !.pc = p]
<1>1. op[w] \in OpType
  OBVIOUS
<1>2. r \in OpType /\ r.pc = p /\ r.entry = op[w].entry /\ r.summary = op[w].summary
  BY <1>1 DEF OpType
<1>3. op' = [op EXCEPT ![w] = r]
  OBVIOUS
<1> HIDE DEF r
<1> QED
  BY <1>2, <1>3

(* The parts of TypeOK and ShapeInv that a step of a call may disturb. *)
LEMMA CallTyped ==
  ASSUME TypeOK, ShapeInv, NEW w \in Writers, NEW r \in OpType,
         op' = [op EXCEPT ![w] = r], open,
         UNCHANGED <<open, window, crashes>>, overlapped' \in BOOLEAN
  PROVE  /\ op' \in [Writers -> OpType]
         /\ open' \in BOOLEAN /\ window' \in Nat /\ crashes' \in Nat
         /\ overlapped' \in BOOLEAN /\ open'
         /\ \A v \in Writers : op'[v].pc # "idle" => open'
BY DEF TypeOK

(* TypeOK and ShapeInv are preserved by every step. *)
LEMMA TypeStep ==
  ASSUME TypeOK, ShapeInv, [Next]_vars
  PROVE  TypeOK' /\ ShapeInv'
<1>1. ASSUME NEW w \in Writers, NEW r \in OpType, op' = [op EXCEPT ![w] = r], open,
             UNCHANGED <<open, window, crashes, fileVars, memoryVars>>,
             overlapped' \in BOOLEAN
      PROVE  TypeOK' /\ ShapeInv'
  BY <1>1, CallTyped DEF TypeOK, ShapeInv, fileVars, memoryVars
<1>2. ASSUME NEW w \in Writers, Starts(w) PROVE open /\ overlapped' \in BOOLEAN
  BY <1>2 DEF Starts, TypeOK
<1>3. ASSUME NEW w \in Writers, NEW type \in {"message", "compaction"},
             AppendStart(w, type)
      PROVE  TypeOK' /\ ShapeInv'
  <2>1. Starts(w) /\ UNCHANGED <<open, window, crashes, fileVars, memoryVars>>
    BY <1>3 DEF AppendStart
  <2>2. \E r \in OpType : op' = [op EXCEPT ![w] = r]
    BY <1>3, AppendStarted
  <2> QED
    BY <1>1, <1>2, <2>1, <2>2
<1>4. ASSUME NEW w \in Writers, NEW s \in BOOLEAN, MoveTo(w, s)
      PROVE  TypeOK' /\ ShapeInv'
  <2>1. Starts(w) /\ UNCHANGED <<open, window, crashes, fileVars, memoryVars>>
    BY <1>4 DEF MoveTo
  <2>2. \E r \in OpType : op' = [op EXCEPT ![w] = r]
    BY <1>4, MoveStarted
  <2> QED
    BY <1>1, <1>2, <2>1, <2>2
<1>5. ASSUME NEW w \in Writers, ReadLeaf(w) PROVE TypeOK' /\ ShapeInv'
  <2>1. open /\ overlapped' \in BOOLEAN
    BY <1>5 DEF ReadLeaf, ShapeInv, TypeOK
  <2> QED
    BY <1>1, <1>5, <2>1, LeafRead DEF ReadLeaf
<1>6. ASSUME NEW w \in Writers, AppendSummary(w) PROVE TypeOK' /\ ShapeInv'
  <2>1. open /\ overlapped' \in BOOLEAN
    BY <1>6 DEF AppendSummary, ShapeInv, TypeOK
  <2> QED
    BY <1>1, <1>6, <2>1, SummaryStarted DEF AppendSummary
<1>7. ASSUME NEW w \in Writers, WriteFails(w) PROVE TypeOK' /\ ShapeInv'
  <2>1. open /\ overlapped' \in BOOLEAN
    BY <1>7 DEF WriteFails, ShapeInv, TypeOK
  <2> QED
    BY <1>1, <1>7, <2>1, NoOpType DEF WriteFails
<1>8. ASSUME NEW w \in Writers, NEW ok \in BOOLEAN, lines' = WithLine(op[w].entry, ok)
      PROVE  lines' \in Seq(LineType) /\ lines' # <<>>
  <2>1. op[w].entry \in EntryType
    BY DEF TypeOK, OpType
  <2> QED
    BY <1>8, <2>1, LineWritten DEF TypeOK, ShapeInv
<1>9. ASSUME NEW w \in Writers, WriteLine(w) PROVE TypeOK' /\ ShapeInv'
  <2>1. lines' \in Seq(LineType) /\ lines' # <<>> /\ eol' \in BOOLEAN
    BY <1>8, <1>9 DEF WriteLine
  <2>2. open /\ overlapped' \in BOOLEAN /\ UNCHANGED <<open, memoryVars, window, crashes>>
    BY <1>9 DEF WriteLine, ShapeInv, TypeOK
  <2>3. \E r \in OpType : op' = [op EXCEPT ![w] = r]
    BY <1>9, PcMoved DEF WriteLine, TypeOK
  <2> QED
    BY <2>1, <2>2, <2>3, CallTyped DEF TypeOK, ShapeInv, memoryVars
<1>10. ASSUME NEW w \in Writers, TearLine(w)
       PROVE  lines' \in Seq(LineType) /\ lines' # <<>> /\ eol' \in BOOLEAN
  BY <1>8, <1>10 DEF TearLine
<1>11. ASSUME NEW w \in Writers, WriteTears(w) PROVE TypeOK' /\ ShapeInv'
  <2>1. open /\ overlapped' \in BOOLEAN /\ UNCHANGED <<open, memoryVars, window, crashes>>
    BY <1>11 DEF WriteTears, TearLine, ShapeInv, TypeOK
  <2>2. \E r \in OpType : op' = [op EXCEPT ![w] = r]
    BY <1>11, NoOpType DEF WriteTears
  <2>3. lines' \in Seq(LineType) /\ lines' # <<>> /\ eol' \in BOOLEAN
    BY <1>10, <1>11 DEF WriteTears
  <2> QED
    BY <2>1, <2>2, <2>3, CallTyped DEF TypeOK, ShapeInv, memoryVars
<1>12. ASSUME NEW w \in Writers, Commit(w) PROVE TypeOK' /\ ShapeInv'
  <2>1. open /\ overlapped' \in BOOLEAN /\ UNCHANGED <<open, fileVars, window, crashes>>
    BY <1>12 DEF Commit, ShapeInv, TypeOK
  <2>2. \E r \in OpType : op' = [op EXCEPT ![w] = r]
    BY <1>12, NoOpType, PcMoved, ZenonT(40) DEF Commit, TypeOK
  <2>3. op[w].entry \in EntryType
    BY DEF TypeOK, OpType
  <2>4. leafIdAfterEntry(op[w].entry) \in Nat
    BY <2>3, EntryFields DEF leafIdAfterEntry
  <2>5. entries' \in Seq(EntryType) /\ leaf' \in Nat
    BY <1>12, <2>3, <2>4, AppendParts DEF Commit, TypeOK
  <2> QED
    BY <2>1, <2>2, <2>5, CallTyped DEF TypeOK, ShapeInv, fileVars
<1>13. ASSUME Stopped, lines' \in Seq(LineType), eol' \in BOOLEAN,
              ~eol' => lines' # <<>>
       PROVE  TypeOK' /\ ShapeInv'
  <2>1. op' \in [Writers -> OpType] /\ \A v \in Writers : op'[v].pc = "idle"
    BY <1>13, NoOpType DEF Stopped
  <2>2. /\ entries' = <<>> /\ leaf' = None /\ open' = FALSE /\ crashes' = crashes + 1
        /\ window' = window /\ overlapped' = overlapped
    BY <1>13 DEF Stopped
  <2>3. <<>> \in Seq(EntryType) /\ None \in Nat /\ crashes \in Nat
    BY SMTT(30) DEF TypeOK, None
  <2>4. crashes' \in Nat
    BY <2>2, <2>3, SMTT(30)
  <2> QED
    BY <1>13, <2>1, <2>2, <2>3, <2>4 DEF TypeOK, ShapeInv
<1>14. ASSUME NEW w \in Writers, CrashWhileWriting(w) PROVE TypeOK' /\ ShapeInv'
  BY <1>10, <1>13, <1>14 DEF CrashWhileWriting
<1>15. ASSUME Crash PROVE TypeOK' /\ ShapeInv'
  BY <1>13, <1>15 DEF Crash, fileVars, TypeOK, ShapeInv
<1>16. ASSUME Open PROVE TypeOK' /\ ShapeInv'
  <2>1. LoadedEntries \in Seq(EntryType)
    BY LoadedType DEF TypeOK
  <2>2. LeafOf(LoadedEntries) \in Nat
    <3>1. CASE LoadedEntries = <<>>
      BY <3>1 DEF LeafOf, None
    <3>2. CASE LoadedEntries # <<>>
      <4>1. LoadedEntries[Len(LoadedEntries)] \in EntryType
        BY <2>1, <3>2, SMTT(30)
      <4> QED
        BY <3>2, <4>1, EntryFields DEF LeafOf, leafIdAfterEntry
    <3> QED
      BY <3>1, <3>2
  <2> QED
    BY <1>16, <2>1, <2>2 DEF Open, fileVars, TypeOK, ShapeInv
<1>17. CASE Tick
  BY <1>17, SMTT(30) DEF Tick, fileVars, memoryVars, TypeOK, ShapeInv
<1>18. CASE UNCHANGED vars
  BY <1>18 DEF vars, TypeOK, ShapeInv
<1> QED
  BY <1>3, <1>4, <1>5, <1>6, <1>7, <1>9, <1>11, <1>12, <1>14, <1>15, <1>16, <1>17, <1>18, ZenonT(40)
  DEF Next, Call, Step

(* The initial state. *)
LEMMA TypeInit == ASSUME Init PROVE TypeOK /\ ShapeInv
<1>1. op \in [Writers -> OpType] /\ \A v \in Writers : op[v].pc = "idle"
  BY NoOpType DEF Init
<1>2. <<>> \in Seq(LineType) /\ <<>> \in Seq(EntryType)
  BY SMTT(30)
<1> QED
  BY <1>1, <1>2 DEF Init, TypeOK, ShapeInv, None

(* Every variable keeps its type, for any number of calls: the storage of
   jsonl-storage.ts never holds anything but entries. *)
THEOREM TypeCorrect == Spec => []TypeOK
<1>1. Init => TypeOK /\ ShapeInv
  BY TypeInit
<1>2. (TypeOK /\ ShapeInv) /\ [Next]_vars => (TypeOK /\ ShapeInv)'
  BY TypeStep
<1> QED
  BY <1>1, <1>2, PTL DEF Spec

-----------------------------------------------------------------------------
(* Trees as lists of entries. *)

(* References of an entry point to entries of es, or to none. *)
RefersTo(es, e) == Known(es, e.parent) /\ Known(es, e.ref)

(* What holds of a list of entries whatever calls overlapped: ids are
   positive, and references go back in the list. *)
RefsBack(es) ==
  \A j \in DOMAIN es :
    /\ es[j].id # None
    /\ \A r \in {es[j].parent, es[j].ref} \ {None} : \E i \in 1..(j - 1) : es[i].id = r

UniqueIds(es) == \A i, j \in DOMAIN es : es[i].id = es[j].id => i = j

Kept(es) ==
  \A i \in DOMAIN es :
    es[i].type = "compaction" => es[i].ref \in OnPath(es, es[i].id)

(* An entry that may be appended to es without breaking the tree. *)
Fits(es, e) ==
  /\ e.id \notin Ids(es)
  /\ e.type = "compaction" => e.ref \in OnPath(es, e.parent)

(* A list with one more entry. *)
LEMMA Appended ==
  ASSUME NEW es \in Seq(EntryType), NEW e \in EntryType
  PROVE  /\ Append(es, e) \in Seq(EntryType)
         /\ Len(es) \in Nat /\ Len(Append(es, e)) = Len(es) + 1
         /\ DOMAIN es = 1..Len(es) /\ DOMAIN Append(es, e) = 1..(Len(es) + 1)
         /\ \A i \in 1..Len(es) : Append(es, e)[i] = es[i]
         /\ Append(es, e)[Len(es) + 1] = e
         /\ Ids(Append(es, e)) = Ids(es) \cup {e.id}
         /\ \A x : Known(es, x) => Known(Append(es, e), x)
<1>1. /\ Append(es, e) \in Seq(EntryType)
      /\ Len(es) \in Nat /\ Len(Append(es, e)) = Len(es) + 1
      /\ DOMAIN es = 1..Len(es) /\ DOMAIN Append(es, e) = 1..(Len(es) + 1)
      /\ \A i \in 1..Len(es) : Append(es, e)[i] = es[i]
      /\ Append(es, e)[Len(es) + 1] = e
  BY SMTT(30)
<1> DEFINE f == Append(es, e)
<1> HIDE DEF f
<1>2. Ids(f) = Ids(es) \cup {e.id}
  <2>1. \A i \in 1..(Len(es) + 1) : i \in 1..Len(es) \/ i = Len(es) + 1
    BY <1>1, SMTT(30)
  <2>2. ASSUME NEW x \in Ids(f) PROVE x \in Ids(es) \cup {e.id}
    BY <1>1, <2>1 DEF Ids, f
  <2>3. ASSUME NEW x \in Ids(es) PROVE x \in Ids(f)
    <3>1. PICK i \in 1..Len(es) : es[i].id = x
      BY <1>1 DEF Ids
    <3>2. i \in DOMAIN f /\ f[i].id = x
      BY <1>1, <3>1, SMTT(30) DEF f
    <3> QED
      BY <3>2 DEF Ids
  <2>4. e.id \in Ids(f)
    <3>1. Len(es) + 1 \in DOMAIN f /\ f[Len(es) + 1] = e
      BY <1>1, SMTT(30) DEF f
    <3> QED
      BY <3>1 DEF Ids
  <2> QED
    BY <2>2, <2>3, <2>4
<1> QED
  BY <1>1, <1>2 DEF Known, f

(* Appending an entry whose references are known keeps references going back. *)
LEMMA AppendRefsBack ==
  ASSUME NEW es \in Seq(EntryType), NEW e \in EntryType,
         RefsBack(es), RefersTo(es, e), e.id # None
  PROVE  RefsBack(Append(es, e))
<1> DEFINE f == Append(es, e)
           n == Len(es)
<1>1. /\ n \in Nat /\ DOMAIN es = 1..n /\ DOMAIN f = 1..(n + 1)
      /\ \A i \in 1..n : f[i] = es[i]
      /\ f[n + 1] = e
  BY Appended
<1> HIDE DEF f, n
<1>2. ASSUME NEW j \in 1..n
      PROVE  /\ f[j].id # None
             /\ \A r \in {f[j].parent, f[j].ref} \ {None} : \E i \in 1..(j - 1) : f[i].id = r
  <2>1. f[j] = es[j] /\ \A i \in 1..(j - 1) : f[i] = es[i]
    BY <1>1, SMTT(30)
  <2>2. j \in DOMAIN es
    BY <1>1
  <2>3. /\ es[j].id # None
        /\ \A r \in {es[j].parent, es[j].ref} \ {None} : \E i \in 1..(j - 1) : es[i].id = r
    BY <2>2 DEF RefsBack
  <2>4. f[j].id # None /\ {f[j].parent, f[j].ref} = {es[j].parent, es[j].ref}
    BY <2>1, <2>3
  <2>5. \A r : (\E i \in 1..(j - 1) : es[i].id = r) => \E i \in 1..(j - 1) : f[i].id = r
    BY <2>1
  <2> QED
    BY <2>3, <2>4, <2>5
<1>3. \A r \in Ids(es) : \E i \in 1..n : f[i].id = r
  BY <1>1 DEF Ids
<1>4. \A r \in {e.parent, e.ref} \ {None} : \E i \in 1..n : f[i].id = r
  BY <1>3 DEF RefersTo, Known
<1>5. (n + 1) - 1 = n /\ \A j \in 1..(n + 1) : j \in 1..n \/ j = n + 1
  BY <1>1, SMTT(30)
<1> QED
  BY <1>1, <1>2, <1>4, <1>5 DEF RefsBack, f

(* In a list whose references go back, a parent is known. *)
LEMMA ParentsKnown ==
  ASSUME NEW es \in Seq(EntryType), RefsBack(es)
  PROVE  /\ \A i \in DOMAIN es : es[i].parent \in Ids(es) \cup {None}
         /\ None \notin Ids(es)
<1>1. Len(es) \in Nat /\ DOMAIN es = 1..Len(es)
  BY SMTT(30)
<1>2. ASSUME NEW i \in DOMAIN es, es[i].parent # None PROVE es[i].parent \in Ids(es)
  <2>1. PICK k \in 1..(i - 1) : es[k].id = es[i].parent
    BY <1>2 DEF RefsBack
  <2>2. k \in DOMAIN es
    BY <1>1, SMTT(30)
  <2> QED
    BY <2>1, <2>2 DEF Ids
<1> QED
  BY <1>2 DEF RefsBack, Ids

(* With unique ids this.byId.get finds the entry itself. *)
LEMMA ByIdUnique ==
  ASSUME NEW es \in Seq(EntryType), UniqueIds(es), NEW i \in DOMAIN es
  PROVE  ById(es, es[i].id) = es[i]
<1>1. es[i].id \in Ids(es)
  BY DEF Ids
<1>2. PICK k \in DOMAIN es : ById(es, es[i].id) = es[k] /\ es[k].id = es[i].id
  BY <1>1, ByIdFound
<1> QED
  BY <1>2 DEF UniqueIds

(* A new id keeps ids unique. *)
LEMMA AppendUnique ==
  ASSUME NEW es \in Seq(EntryType), NEW e \in EntryType,
         UniqueIds(es), e.id \notin Ids(es)
  PROVE  UniqueIds(Append(es, e))
<1> DEFINE f == Append(es, e)
           n == Len(es)
<1>1. /\ n \in Nat /\ DOMAIN es = 1..n /\ DOMAIN f = 1..(n + 1)
      /\ \A i \in 1..n : f[i] = es[i]
      /\ f[n + 1] = e
  BY Appended
<1> HIDE DEF f, n
<1>2. \A i \in 1..n : f[i].id # e.id
  BY <1>1 DEF Ids
<1>3. \A j \in 1..(n + 1) : j \in 1..n \/ j = n + 1
  BY <1>1, SMTT(30)
<1> QED
  BY <1>1, <1>2, <1>3, ZenonT(40) DEF UniqueIds, f

(* The path of a known entry is the same in a list with one more entry. *)
LEMMA PathExtends ==
  ASSUME NEW es \in Seq(EntryType), NEW e \in EntryType, RefsBack(es),
         UniqueIds(es), e.id \notin Ids(es), e.id # None, NEW x, Known(es, x)
  PROVE  \A n \in 0..Len(es) :
           /\ PathToRoot(Append(es, e), x)[n] = PathToRoot(es, x)[n]
           /\ Known(es, PathToRoot(es, x)[n])
<1> DEFINE f == Append(es, e)
           p == PathToRoot(es, x)
           q == PathToRoot(f, x)
           S == {n \in Nat : n <= Len(es) => q[n] = p[n] /\ Known(es, p[n])}
<1>1. /\ f \in Seq(EntryType) /\ Len(es) \in Nat /\ Len(f) = Len(es) + 1
      /\ DOMAIN es = 1..Len(es) /\ DOMAIN f = 1..(Len(es) + 1)
      /\ \A i \in 1..Len(es) : f[i] = es[i]
      /\ Ids(f) = Ids(es) \cup {e.id}
      /\ UniqueIds(f)
  BY Appended, AppendUnique, ZenonT(40)
<1> HIDE DEF f
<1>2. /\ p[0] = x /\ q[0] = x
      /\ \A n \in 1..Len(es) :
           p[n] = IF p[n - 1] \in Ids(es) THEN ById(es, p[n - 1]).parent ELSE None
      /\ \A n \in 1..Len(f) :
           q[n] = IF q[n - 1] \in Ids(f) THEN ById(f, q[n - 1]).parent ELSE None
  BY <1>1, PathUnfolds, SMTT(30)
<1> HIDE DEF p, q
<1>3. 0 \in S
  BY <1>2
<1>4. ASSUME NEW n \in Nat, n \in S PROVE n + 1 \in S
  <2> SUFFICES ASSUME n + 1 <= Len(es) PROVE q[n + 1] = p[n + 1] /\ Known(es, p[n + 1])
    BY SMTT(30)
  <2>1. n + 1 \in 1..Len(es) /\ n + 1 \in 1..Len(f) /\ (n + 1) - 1 = n
    BY <1>1, SMTT(30)
  <2>2. q[n] = p[n] /\ Known(es, p[n])
    BY <1>1, <1>4, <2>1, SMTT(30)
  <2>3. /\ p[n + 1] = IF p[n] \in Ids(es) THEN ById(es, p[n]).parent ELSE None
        /\ q[n + 1] = IF p[n] \in Ids(f) THEN ById(f, p[n]).parent ELSE None
    BY <1>2, <2>1, <2>2
  <2>4. CASE p[n] \in Ids(es)
    <3>1. PICK i \in 1..Len(es) : es[i].id = p[n]
      BY <1>1, <2>4 DEF Ids
    <3>2. i \in DOMAIN es /\ i \in DOMAIN f /\ f[i] = es[i]
      BY <1>1, SMTT(30)
    <3>3. ById(es, p[n]) = es[i] /\ ById(f, p[n]) = es[i]
      BY <1>1, <3>1, <3>2, ByIdUnique, SMTT(30)
    <3>4. p[n + 1] = es[i].parent /\ q[n + 1] = es[i].parent
      BY <1>1, <2>3, <2>4, <3>3
    <3> QED
      BY <3>2, <3>4, ParentsKnown DEF Known
  <2>5. CASE p[n] \notin Ids(es)
    <3>1. p[n] = None /\ None \notin Ids(f)
      BY <1>1, <2>2, <2>5, ParentsKnown DEF Known
    <3> QED
      BY <2>3, <2>5, <3>1 DEF Known
  <2> QED
    BY <2>4, <2>5
<1>5. \A n \in Nat : n \in S
  <2> HIDE DEF S
  <2> QED
    BY <1>3, <1>4, Induction
<1> QED
  BY <1>1, <1>5, SMTT(30) DEF f, p, q

(* The path of the new entry goes on as the path of its parent. *)
LEMMA PathOfNew ==
  ASSUME NEW es \in Seq(EntryType), NEW e \in EntryType, RefsBack(es),
         UniqueIds(es), e.id \notin Ids(es), e.id # None, Known(es, e.parent)
  PROVE  \A n \in 0..Len(es) :
           PathToRoot(Append(es, e), e.id)[n + 1] = PathToRoot(es, e.parent)[n]
<1> DEFINE f == Append(es, e)
           p == PathToRoot(f, e.parent)
           q == PathToRoot(f, e.id)
           S == {n \in Nat : n <= Len(es) => q[n + 1] = p[n]}
<1>1. /\ f \in Seq(EntryType) /\ Len(es) \in Nat /\ Len(f) = Len(es) + 1
      /\ DOMAIN f = 1..(Len(es) + 1) /\ f[Len(es) + 1] = e
      /\ UniqueIds(f)
  BY Appended, AppendUnique
<1> HIDE DEF f
<1>2. /\ p[0] = e.parent /\ q[0] = e.id
      /\ \A n \in 1..Len(f) :
           p[n] = IF p[n - 1] \in Ids(f) THEN ById(f, p[n - 1]).parent ELSE None
      /\ \A n \in 1..Len(f) :
           q[n] = IF q[n - 1] \in Ids(f) THEN ById(f, q[n - 1]).parent ELSE None
  BY <1>1, PathUnfolds, SMTT(30)
<1> HIDE DEF p, q
<1>3. 0 \in S
  <2>1. Len(es) + 1 \in DOMAIN f
    BY <1>1, SMTT(30)
  <2>2. ById(f, e.id) = e /\ e.id \in Ids(f)
    BY <1>1, <2>1, ByIdUnique DEF Ids
  <2>3. 1 \in 1..Len(f) /\ 1 - 1 = 0
    BY <1>1, SMTT(30)
  <2>4. q[1] = e.parent
    BY <1>2, <2>2, <2>3, SMTT(30)
  <2> QED
    BY <1>2, <2>4, SMTT(30)
<1>4. ASSUME NEW n \in Nat, n \in S PROVE n + 1 \in S
  <2> SUFFICES ASSUME n + 1 <= Len(es) PROVE q[(n + 1) + 1] = p[n + 1]
    BY SMTT(30)
  <2>1. /\ n + 1 \in 1..Len(f) /\ (n + 1) - 1 = n
        /\ (n + 1) + 1 \in 1..Len(f) /\ ((n + 1) + 1) - 1 = n + 1
    BY <1>1, SMTT(30)
  <2>2. q[n + 1] = p[n]
    BY <1>1, <1>4, <2>1, SMTT(30)
  <2> QED
    BY <1>2, <2>1, <2>2, ZenonT(40)
<1>5. \A n \in Nat : n \in S
  <2> HIDE DEF S
  <2> QED
    BY <1>3, <1>4, Induction
<1>6. \A n \in 0..Len(es) : q[n + 1] = p[n]
  BY <1>1, <1>5, SMTT(30)
<1> QED
  BY <1>6, PathExtends, ZenonT(40) DEF f, p, q

(* Where OnPath looks. *)
LEMMA OnPathIs ==
  ASSUME NEW es \in Seq(EntryType), NEW x, NEW y
  PROVE  y \in OnPath(es, x) <=> y # None /\ \E n \in 0..Len(es) : PathToRoot(es, x)[n] = y
BY PathUnfolds, SMTT(30) DEF OnPath, Range

(* An entry that fits keeps what compactions keep on their paths. *)
LEMMA AppendKept ==
  ASSUME NEW es \in Seq(EntryType), NEW e \in EntryType, RefsBack(es),
         UniqueIds(es), Kept(es), Fits(es, e), RefersTo(es, e), e.id # None
  PROVE  Kept(Append(es, e))
<1> DEFINE f == Append(es, e)
           n == Len(es)
<1>1. /\ f \in Seq(EntryType) /\ n \in Nat /\ Len(f) = n + 1
      /\ DOMAIN es = 1..n /\ DOMAIN f = 1..(n + 1)
      /\ \A i \in 1..n : f[i] = es[i]
      /\ f[n + 1] = e
  BY Appended, ZenonT(40)
<1>2. e.id \notin Ids(es) /\ Known(es, e.parent)
  BY DEF Fits, RefersTo
<1>3. ASSUME NEW x, Known(es, x), NEW y \in OnPath(es, x) PROVE y \in OnPath(f, x)
  <2>1. PICK k \in 0..n : PathToRoot(es, x)[k] = y
    BY OnPathIs, SMTT(30)
  <2>2. PathToRoot(f, x)[k] = y /\ k \in 0..Len(f) /\ y # None
    BY <1>1, <1>2, <1>3, <2>1, PathExtends, OnPathIs, SMTT(30)
  <2> HIDE DEF f
  <2> QED
    BY <1>1, <2>2, OnPathIs
<1>4. ASSUME NEW y \in OnPath(es, e.parent) PROVE y \in OnPath(f, e.id)
  <2>1. PICK k \in 0..n : PathToRoot(es, e.parent)[k] = y
    BY OnPathIs, SMTT(30)
  <2>2. PathToRoot(f, e.id)[k + 1] = y /\ k + 1 \in 0..Len(f) /\ y # None
    BY <1>1, <1>2, <2>1, PathOfNew, OnPathIs, SMTT(30)
  <2> HIDE DEF f
  <2> QED
    BY <1>1, <2>2, OnPathIs, ZenonT(40)
<1> HIDE DEF f, n
<1>5. ASSUME NEW i \in 1..n, f[i].type = "compaction" PROVE f[i].ref \in OnPath(f, f[i].id)
  <2>1. f[i] = es[i] /\ i \in DOMAIN es
    BY <1>1
  <2>2. Known(es, es[i].id)
    BY <2>1 DEF Known, Ids
  <2> QED
    BY <1>3, <1>5, <2>1, <2>2 DEF Kept
<1>6. \A j \in 1..(n + 1) : j \in 1..n \/ j = n + 1
  BY <1>1, SMTT(30)
<1>7. e.type = "compaction" => e.ref \in OnPath(f, e.id)
  BY <1>4 DEF Fits
<1> QED
  BY <1>1, <1>5, <1>6, <1>7 DEF Kept, f

(* With unique ids and references that go back, every path ends: each step up
   is a step back in the list. *)
LEMMA PathsEndHere ==
  ASSUME NEW es \in Seq(EntryType), RefsBack(es), UniqueIds(es), NEW x \in Ids(es)
  PROVE  PathToRoot(es, x)[Len(es)] = None
<1> DEFINE p == PathToRoot(es, x)
           L == Len(es)
           Back(n) == p[n] = None \/ \E i \in 1..L : es[i].id = p[n] /\ i + n <= L
           S == {n \in Nat : n <= L => Back(n)}
<1>1. L \in Nat /\ DOMAIN es = 1..L
  BY SMTT(30)
<1>2. /\ p[0] = x
      /\ \A n \in 1..L :
           p[n] = IF p[n - 1] \in Ids(es) THEN ById(es, p[n - 1]).parent ELSE None
  BY PathUnfolds
<1> HIDE DEF p, L
<1>3. 0 \in S
  <2>1. PICK i \in 1..L : es[i].id = x
    BY <1>1 DEF Ids
  <2>2. i + 0 <= L
    BY <1>1, SMTT(30)
  <2> QED
    BY <1>2, <2>1, <2>2
<1>4. ASSUME NEW n \in Nat, n \in S PROVE n + 1 \in S
  <2> SUFFICES ASSUME n + 1 <= L PROVE Back(n + 1)
    BY SMTT(30)
  <2>1. n + 1 \in 1..L /\ (n + 1) - 1 = n /\ n <= L
    BY <1>1, SMTT(30)
  <2>2. p[n + 1] = IF p[n] \in Ids(es) THEN ById(es, p[n]).parent ELSE None
    BY <1>2, <2>1
  <2>3. Back(n)
    BY <1>4, <2>1
  <2>4. CASE p[n] = None
    BY <2>2, <2>4, ParentsKnown
  <2>5. CASE p[n] # None
    <3>1. PICK i \in 1..L : es[i].id = p[n] /\ i + n <= L
      BY <2>3, <2>5
    <3>2. i \in DOMAIN es /\ ById(es, p[n]) = es[i] /\ p[n] \in Ids(es)
      BY <1>1, <3>1, ByIdUnique DEF Ids
    <3>3. p[n + 1] = es[i].parent
      BY <2>2, <3>2
    <3>4. CASE es[i].parent # None
      <4>1. PICK k \in 1..(i - 1) : es[k].id = es[i].parent
        BY <3>2, <3>4 DEF RefsBack
      <4>2. k \in 1..L /\ k + (n + 1) <= L
        BY <1>1, <3>1, SMTT(30)
      <4> QED
        BY <3>3, <4>1, <4>2
    <3> QED
      BY <3>3, <3>4
  <2> QED
    BY <2>4, <2>5
<1>5. \A n \in Nat : n \in S
  <2> HIDE DEF S
  <2> QED
    BY <1>3, <1>4, Induction
<1>6. Back(L)
  BY <1>1, <1>5, SMTT(30)
<1> QED
  BY <1>1, <1>6, SMTT(30) DEF p, L

-----------------------------------------------------------------------------
(* The inductive invariant *)

(* A call has a positive id and references to known entries; once its line is
   written, the line is in the file. *)
CallInv(r) ==
  /\ r.pc # "idle" => r.entry.id # None
  /\ r.pc \in {"leaf", "write", "commit"} => RefersTo(entries, r.entry)
  /\ r.pc = "summary" => Known(entries, r.entry.ref)
  /\ r.pc = "commit" /\ AllValid => r.entry \in Range(LoadedEntries)

OpInv == \A w \in Writers : CallInv(op[w])

BackInv ==
  /\ RefsBack(entries)
  /\ AllValid => RefsBack(LoadedEntries)
  /\ Known(entries, leaf)
  /\ open => leaf = LeafOf(entries)

Committing == \E w \in Writers : op[w].pc = "commit"

OneCall == \A v, w \in Writers : op[v].pc # "idle" /\ op[w].pc # "idle" => v = w

(* The entry of a call has a place in the tree. *)
CallFits(r) ==
  /\ r.pc \in {"write", "commit"} => Fits(entries, r.entry)
  /\ r.pc = "leaf" => Fits(entries, [r.entry EXCEPT !.parent = leaf])

(* The file is the memory, or one entry ahead of it. *)
FileInv ==
  /\ open /\ AllValid /\ eol =>
       /\ ~Committing => LoadedEntries = entries
       /\ \A w \in Writers : op[w].pc = "commit" =>
            LoadedEntries = Append(entries, op[w].entry)
  /\ AllValid /\ Committing => eol

(* What holds as long as no calls overlap. *)
SoloInv ==
  /\ OneCall
  /\ \A w \in Writers : CallFits(op[w])
  /\ UniqueIds(entries) /\ Kept(entries)
  /\ AllValid => UniqueIds(LoadedEntries) /\ Kept(LoadedEntries)
  /\ FileInv

SessionInv == MemoryDurable /\ OpInv /\ BackInv /\ (~overlapped => SoloInv)

(* A write leaves a valid file only if it appended a whole line to one. *)
LEMMA FileGrows ==
  ASSUME lines \in Seq(LineType), eol \in BOOLEAN, ~eol => lines # <<>>,
         NEW e \in EntryType, NEW ok \in BOOLEAN, lines' = WithLine(e, ok), AllValid'
  PROVE  AllValid /\ eol /\ ok /\ LoadedEntries' = Append(LoadedEntries, e)
<1>1. eol
  BY LineWritten DEF AllValid
<1>2. lines' = Append(lines, [entry |-> e, ok |-> ok])
  BY <1>1, LineWritten
<1> DEFINE n == Len(lines)
<1>3. [entry |-> e, ok |-> ok] \in LineType
  BY DEF LineType
<1>4. /\ n \in Nat /\ DOMAIN lines = 1..n /\ DOMAIN lines' = 1..(n + 1)
      /\ lines' \in Seq(LineType) /\ Len(lines') = n + 1
      /\ \A i \in 1..n : lines'[i] = lines[i]
      /\ lines'[n + 1] = [entry |-> e, ok |-> ok]
  BY <1>2, <1>3, SMTT(30)
<1>5. AllValid /\ ok
  <2>1. \A i \in 1..n : i \in 1..(n + 1)
    BY <1>4, SMTT(30)
  <2>2. n + 1 \in 1..(n + 1)
    BY <1>4, SMTT(30)
  <2>3. lines'[n + 1].ok
    BY <1>4, <2>2 DEF AllValid
  <2>4. \A i \in 1..n : lines[i].ok
    BY <1>4, <2>1 DEF AllValid
  <2> QED
    BY <1>4, <2>3, <2>4, SMTT(30) DEF AllValid
<1>6. /\ LoadedEntries \in Seq(EntryType) /\ Len(LoadedEntries) = n
      /\ \A i \in 1..n : LoadedEntries[i] = lines[i].entry
  BY LoadedType
<1>7. LoadedEntries' = [i \in 1..(n + 1) |-> lines'[i].entry]
  BY <1>4 DEF LoadedEntries
<1> DEFINE f == Append(LoadedEntries, e)
<1>8. /\ f \in Seq(EntryType) /\ Len(f) = n + 1
      /\ \A i \in 1..n : f[i] = LoadedEntries[i]
      /\ f[n + 1] = e
  BY <1>6, Appended, SMTT(30)
<1> HIDE DEF f, n
<1>9. f = [i \in 1..(n + 1) |-> f[i]]
  BY <1>8, SMTT(30)
<1>10. ASSUME NEW i \in 1..(n + 1) PROVE f[i] = lines'[i].entry
  <2>1. CASE i \in 1..n
    BY <1>4, <1>6, <1>8, <2>1
  <2>2. CASE i = n + 1
    BY <1>4, <1>8, <2>2, SMTT(30)
  <2> QED
    BY <1>4, <2>1, <2>2, SMTT(30)
<1>11. [i \in 1..(n + 1) |-> f[i]] = [i \in 1..(n + 1) |-> lines'[i].entry]
  BY <1>10
<1>12. LoadedEntries' = f
  BY <1>7, <1>9, <1>11
<1> QED
  BY <1>1, <1>5, <1>12 DEF f

(* A longer list of entries holds what the shorter one held. *)
LEMMA AppendHolds ==
  ASSUME NEW es \in Seq(EntryType), NEW e \in EntryType
  PROVE  /\ Range(es) \subseteq Range(Append(es, e))
         /\ e \in Range(Append(es, e))
<1> DEFINE f == Append(es, e)
           n == Len(es)
<1>1. /\ n \in Nat /\ DOMAIN es = 1..n /\ DOMAIN f = 1..(n + 1)
      /\ \A i \in 1..n : f[i] = es[i]
      /\ f[n + 1] = e
  BY Appended
<1> HIDE DEF f, n
<1>2. \A i \in 1..n : i \in 1..(n + 1)
  BY <1>1, SMTT(30)
<1>3. n + 1 \in 1..(n + 1)
  BY <1>1, SMTT(30)
<1>4. ASSUME NEW y \in Range(es) PROVE y \in Range(f)
  <2>1. PICK i \in 1..n : y = es[i]
    BY <1>1 DEF Range
  <2>2. i \in DOMAIN f /\ y = f[i]
    BY <1>1, <1>2, <2>1
  <2> QED
    BY <2>2 DEF Range
<1>5. e \in Range(f)
  BY <1>1, <1>3 DEF Range
<1> QED
  BY <1>4, <1>5 DEF f

(* Entries of a durable memory are known in the file. *)
LEMMA DurableKnown ==
  ASSUME TypeOK, MemoryDurable, AllValid, NEW x, Known(entries, x)
  PROVE  Known(LoadedEntries, x)
<1>1. CASE x \in Ids(entries)
  <2>1. PICK i \in DOMAIN entries : entries[i].id = x
    BY <1>1 DEF Ids
  <2>2. entries[i] \in Range(LoadedEntries)
    BY DEF MemoryDurable
  <2>3. PICK k \in DOMAIN LoadedEntries : LoadedEntries[k] = entries[i]
    BY <2>2 DEF Range
  <2> QED
    BY <2>1, <2>3 DEF Known, Ids
<1> QED
  BY <1>1 DEF Known

(* Steps that leave the file and the memory alone keep the first three parts. *)
LEMMA SameStep ==
  ASSUME TypeOK, MemoryDurable, OpInv, BackInv, UNCHANGED <<lines, entries, leaf, open>>,
         NEW w \in Writers, NEW r \in OpType, op' = [op EXCEPT ![w] = r], CallInv(r)
  PROVE  MemoryDurable' /\ OpInv' /\ BackInv'
<1>1. AllValid' = AllValid /\ LoadedEntries' = LoadedEntries
  BY DEF AllValid, LoadedEntries
<1>2. \A v \in Writers : CallInv(op'[v])
  BY OpMoves DEF TypeOK, OpInv
<1> QED
  BY <1>1, <1>2 DEF MemoryDurable, OpInv, BackInv, CallInv

(* So do writes. *)
LEMMA GrowStep ==
  ASSUME TypeOK, ShapeInv, MemoryDurable, OpInv, BackInv, UNCHANGED <<entries, leaf, open>>,
         NEW w \in Writers, op[w].pc = "write", NEW r \in OpType, op' = [op EXCEPT ![w] = r],
         NEW ok \in BOOLEAN, lines' = WithLine(op[w].entry, ok),
         r.pc = "idle" \/ (r.pc = "commit" /\ r.entry = op[w].entry)
  PROVE  MemoryDurable' /\ OpInv' /\ BackInv'
<1> DEFINE e == op[w].entry
<1>1. e \in EntryType /\ e.id # None /\ RefersTo(entries, e)
  BY DEF TypeOK, OpType, OpInv, CallInv
<1>2. AllValid' => AllValid /\ LoadedEntries' = Append(LoadedEntries, e)
  BY <1>1, FileGrows DEF TypeOK, ShapeInv
<1>3. LoadedEntries \in Seq(EntryType)
  BY LoadedType DEF TypeOK
<1>4. AllValid' => /\ Range(LoadedEntries) \subseteq Range(LoadedEntries')
                   /\ e \in Range(LoadedEntries')
  BY <1>1, <1>2, <1>3, AppendHolds
<1>5. AllValid' => RefsBack(LoadedEntries')
  <2> SUFFICES ASSUME AllValid' PROVE RefsBack(LoadedEntries')
    OBVIOUS
  <2>1. RefersTo(LoadedEntries, e)
    BY <1>1, <1>2, DurableKnown DEF RefersTo
  <2> QED
    BY <1>1, <1>2, <1>3, <2>1, AppendRefsBack DEF BackInv
<1>6. MemoryDurable'
  BY <1>2, <1>4 DEF MemoryDurable
<1>7. BackInv'
  BY <1>5 DEF BackInv
<1>8. /\ op'[w] = r /\ \A v \in Writers : v # w => op'[v] = op[v]
  BY OpMoves DEF TypeOK
<1>9. r.pc = "commit" => RefersTo(entries, r.entry) /\ r.entry.id # None
                         /\ (AllValid' => r.entry \in Range(LoadedEntries'))
  BY <1>1, <1>4
<1>10. OpInv'
  <2> SUFFICES ASSUME NEW v \in Writers PROVE CallInv(op[v])'
    BY DEF OpInv
  <2>1. CASE v = w
    BY <1>8, <1>9, <2>1 DEF CallInv
  <2>2. CASE v # w
    <3>1. CallInv(op[v]) /\ op'[v] = op[v]
      BY <1>8, <2>2 DEF OpInv
    <3> QED
      BY <1>2, <1>4, <3>1 DEF CallInv
  <2> QED
    BY <2>1, <2>2
<1> QED
  BY <1>6, <1>7, <1>10

(* Committing an entry to the memory. *)
LEMMA CommitStep ==
  ASSUME TypeOK, ShapeInv, MemoryDurable, OpInv, BackInv, NEW w \in Writers, Commit(w)
  PROVE  MemoryDurable' /\ OpInv' /\ BackInv'
<1> DEFINE e == op[w].entry
<1>1. /\ e \in EntryType /\ e.id # None /\ RefersTo(entries, e)
      /\ AllValid => e \in Range(LoadedEntries)
  BY DEF Commit, TypeOK, OpType, OpInv, CallInv
<1>2. entries' = Append(entries, e) /\ leaf' = leafIdAfterEntry(e)
  BY DEF Commit
<1>3. AllValid' = AllValid /\ LoadedEntries' = LoadedEntries
  BY DEF Commit, AllValid, LoadedEntries, fileVars
<1>4. entries \in Seq(EntryType)
  BY DEF TypeOK
<1> DEFINE f == Append(entries, e)
           n == Len(entries)
<1>5. /\ f \in Seq(EntryType) /\ n \in Nat /\ Len(f) = n + 1
      /\ DOMAIN entries = 1..n /\ DOMAIN f = 1..(n + 1)
      /\ \A i \in 1..n : f[i] = entries[i]
      /\ f[n + 1] = e
      /\ Ids(f) = Ids(entries) \cup {e.id}
      /\ \A x : Known(entries, x) => Known(f, x)
  BY <1>1, <1>4, Appended, ZenonT(40)
<1> HIDE DEF n
<1>6. MemoryDurable'
  <2>1. \A i \in 1..(n + 1) : i \in 1..n \/ i = n + 1
    BY <1>5, SMTT(30)
  <2> HIDE DEF f
  <2>2. AllValid => \A i \in DOMAIN f : f[i] \in Range(LoadedEntries)
    BY <1>1, <1>5, <2>1 DEF MemoryDurable
  <2> QED
    BY <1>2, <1>3, <2>2 DEF MemoryDurable, f
<1>7. RefsBack(f)
  BY <1>1, <1>4, AppendRefsBack DEF BackInv
<1>8. Known(f, leafIdAfterEntry(e))
  BY <1>1, <1>5 DEF leafIdAfterEntry, Known, RefersTo
<1>9. LeafOf(f) = leafIdAfterEntry(e)
  <2> HIDE DEF f
  <2>1. f # <<>> /\ f[Len(f)] = e
    BY <1>5, SMTT(30)
  <2> QED
    BY <2>1 DEF LeafOf
<1>10. BackInv'
  BY <1>2, <1>3, <1>7, <1>8, <1>9 DEF BackInv
<1>11. PICK r \in OpType :
         /\ op' = [op EXCEPT ![w] = r]
         /\ r.pc = "idle" \/ (r.pc = "summary" /\ r.entry = e)
  BY NoOpType, PcMoved DEF Commit, TypeOK
<1>12. op'[w] = r /\ \A v \in Writers : v # w => op'[v] = op[v]
  BY <1>11, OpMoves DEF TypeOK
<1>13. OpInv'
  <2> SUFFICES ASSUME NEW v \in Writers PROVE CallInv(op[v])'
    BY DEF OpInv
  <2>1. CASE v = w
    <3>1. Known(f, e.ref)
      BY <1>1, <1>5 DEF RefersTo
    <3> QED
      BY <1>1, <1>2, <1>11, <1>12, <2>1, <3>1, ZenonT(40) DEF CallInv
  <2>2. CASE v # w
    <3>1. CallInv(op[v]) /\ op'[v] = op[v]
      BY <1>12, <2>2 DEF OpInv
    <3> HIDE DEF f, e
    <3> QED
      BY <1>2, <1>3, <1>5, <3>1 DEF CallInv, RefersTo, f, e
  <2> QED
    BY <2>1, <2>2
<1> QED
  BY <1>6, <1>10, <1>13

(* A process that stops forgets everything. *)
LEMMA StopStep ==
  ASSUME Stopped, AllValid' => RefsBack(LoadedEntries')
  PROVE  MemoryDurable' /\ OpInv' /\ BackInv'
<1>1. entries' = <<>> /\ leaf' = None /\ ~open' /\ \A w \in Writers : op'[w].pc = "idle"
  BY NoOpType DEF Stopped
<1>2. MemoryDurable'
  BY <1>1, SMTT(30) DEF MemoryDurable
<1>3. OpInv'
  BY <1>1 DEF OpInv, CallInv
<1>4. RefsBack(<<>>) /\ Known(<<>>, None)
  BY SMTT(30) DEF RefsBack, Known
<1> QED
  BY <1>1, <1>2, <1>3, <1>4 DEF BackInv

(* Opening the session reads the memory from the file. *)
LEMMA OpenStep ==
  ASSUME TypeOK, ShapeInv, BackInv, Open
  PROVE  MemoryDurable' /\ OpInv' /\ BackInv'
<1>1. /\ entries' = LoadedEntries /\ leaf' = LeafOf(LoadedEntries)
      /\ LoadedEntries' = LoadedEntries /\ AllValid
      /\ \A w \in Writers : op'[w].pc = "idle"
  BY DEF Open, fileVars, LoadedEntries, ShapeInv
<1>2. MemoryDurable'
  BY <1>1 DEF MemoryDurable, Range
<1>3. OpInv'
  BY <1>1 DEF OpInv, CallInv
<1>4. RefsBack(LoadedEntries) /\ LoadedEntries \in Seq(EntryType)
  BY <1>1, LoadedType DEF BackInv, TypeOK
<1>5. Known(LoadedEntries, LeafOf(LoadedEntries))
  <2> DEFINE f == LoadedEntries
  <2> HIDE DEF f
  <2>1. CASE f # <<>>
    <3>1. Len(f) \in DOMAIN f /\ Len(f) \in Nat
      BY <1>4, <2>1, SMTT(30) DEF f
    <3>2. ASSUME f[Len(f)].ref # None PROVE \E i \in DOMAIN f : f[i].id = f[Len(f)].ref
      <4>1. RefsBack(f) /\ DOMAIN f = 1..Len(f)
        BY <1>4, SMTT(30) DEF f
      <4>2. PICK i \in 1..(Len(f) - 1) : f[i].id = f[Len(f)].ref
        BY <3>1, <3>2, <4>1 DEF RefsBack
      <4>3. i \in DOMAIN f
        BY <3>1, <4>1, SMTT(30)
      <4> QED
        BY <4>2, <4>3
    <3>3. Known(f, f[Len(f)].ref) /\ Known(f, f[Len(f)].id)
      BY <3>1, <3>2 DEF Known, Ids
    <3> QED
      BY <2>1, <3>1, <3>3 DEF LeafOf, leafIdAfterEntry, f
  <2>2. CASE f = <<>>
    BY <2>2 DEF LeafOf, Known, f
  <2> QED
    BY <2>1, <2>2
<1> QED
  BY <1>1, <1>2, <1>3, <1>4, <1>5 DEF BackInv

(* The first three parts of the invariant are preserved by every step. *)
LEMMA BackStep ==
  ASSUME TypeOK, ShapeInv, MemoryDurable, OpInv, BackInv, [Next]_vars
  PROVE  MemoryDurable' /\ OpInv' /\ BackInv'
<1> DEFINE Good == MemoryDurable' /\ OpInv' /\ BackInv'
<1>2. ASSUME NEW y \in OnPath(entries, leaf) PROVE Known(entries, y)
  <2> DEFINE X == Ids(entries) \cup {None}
  <2>1. /\ entries \in Seq(EntryType) /\ leaf \in X /\ None \in X
        /\ \A i \in DOMAIN entries : entries[i].parent \in X
    BY ParentsKnown DEF TypeOK, BackInv, Known
  <2>2. y \in X
    <3> HIDE DEF X
    <3> QED
      BY <1>2, <2>1, PathStays
  <2> QED
    BY <2>2 DEF Known
<1>3. ASSUME NEW w \in Writers, NEW type \in {"message", "compaction"},
             AppendStart(w, type)
      PROVE  Good
  <2>1. PICK r \in OpType :
           /\ op' = [op EXCEPT ![w] = r] /\ r.pc = "leaf" /\ r.entry.id # None
           /\ r.entry.parent = None
           /\ r.entry.ref \in IF type = "compaction" THEN OnPath(entries, leaf) ELSE {None}
    BY <1>3, AppendStarted
  <2>2. Known(entries, r.entry.ref) /\ Known(entries, r.entry.parent)
    BY <1>2, <2>1 DEF Known
  <2>3. CallInv(r)
    BY <2>1, <2>2 DEF CallInv, RefersTo
  <2> QED
    BY <1>3, <2>1, <2>3, SameStep DEF AppendStart, fileVars, memoryVars
<1>4. ASSUME NEW w \in Writers, NEW s \in BOOLEAN, MoveTo(w, s) PROVE Good
  <2>1. PICK r \in OpType :
           /\ op' = [op EXCEPT ![w] = r] /\ r.pc = "write" /\ r.entry.id # None
           /\ r.entry.parent = leaf /\ Known(entries, r.entry.ref)
    BY <1>4, MoveStarted
  <2>2. CallInv(r)
    BY <2>1 DEF CallInv, RefersTo, BackInv
  <2> QED
    BY <1>4, <2>1, <2>2, SameStep DEF MoveTo, fileVars, memoryVars
<1>5. ASSUME NEW w \in Writers, ReadLeaf(w) PROVE Good
  <2>1. PICK r \in OpType :
           /\ op' = [op EXCEPT ![w] = r] /\ r.pc = "write"
           /\ r.entry.id = op[w].entry.id /\ r.entry.parent = leaf
           /\ r.entry.ref = op[w].entry.ref
    BY <1>5, LeafRead
  <2>2. op[w].pc = "leaf" /\ CallInv(op[w])
    BY <1>5 DEF ReadLeaf, OpInv
  <2>3. CallInv(r)
    BY <2>1, <2>2 DEF CallInv, RefersTo, BackInv
  <2> QED
    BY <1>5, <2>1, <2>3, SameStep DEF ReadLeaf, fileVars, memoryVars
<1>6. ASSUME NEW w \in Writers, AppendSummary(w) PROVE Good
  <2>1. PICK r \in OpType :
           /\ op' = [op EXCEPT ![w] = r] /\ r.pc = "write" /\ r.entry.id # None
           /\ r.entry.parent = op[w].entry.ref /\ r.entry.ref = None
    BY <1>6, SummaryStarted
  <2>2. op[w].pc = "summary" /\ CallInv(op[w]) /\ Known(entries, None)
    BY <1>6 DEF AppendSummary, OpInv, Known
  <2>3. CallInv(r)
    BY <2>1, <2>2 DEF CallInv, RefersTo
  <2> QED
    BY <1>6, <2>1, <2>3, SameStep DEF AppendSummary, fileVars, memoryVars
<1>7. CallInv(NoOp)
  BY NoOpType DEF CallInv
<1>8. ASSUME NEW w \in Writers, WriteFails(w) PROVE Good
  BY <1>7, <1>8, NoOpType, SameStep DEF WriteFails, fileVars, memoryVars
<1>9. ASSUME NEW w \in Writers, WriteLine(w) PROVE Good
  <2>1. PICK r \in OpType :
          op' = [op EXCEPT ![w] = r] /\ r.pc = "commit" /\ r.entry = op[w].entry
    BY <1>9, PcMoved, ZenonT(40) DEF WriteLine, TypeOK
  <2> QED
    BY <1>9, <2>1, GrowStep DEF WriteLine, memoryVars
<1>10. ASSUME NEW w \in Writers, WriteTears(w) PROVE Good
  BY <1>10, NoOpType, GrowStep DEF WriteTears, TearLine, memoryVars
<1>11. ASSUME NEW w \in Writers, Commit(w) PROVE Good
  BY <1>11, CommitStep
<1>12. ASSUME NEW w \in Writers, CrashWhileWriting(w) PROVE Good
  <2>1. PICK ok \in BOOLEAN : lines' = WithLine(op[w].entry, ok)
    BY <1>12 DEF CrashWhileWriting, TearLine
  <2>2. op[w].entry \in EntryType /\ op[w].entry.id # None /\ RefersTo(entries, op[w].entry)
    BY <1>12 DEF CrashWhileWriting, TearLine, TypeOK, OpType, OpInv, CallInv
  <2>3. ASSUME AllValid' PROVE RefsBack(LoadedEntries')
    <3>1. AllValid /\ LoadedEntries' = Append(LoadedEntries, op[w].entry)
      BY <2>1, <2>2, <2>3, FileGrows, ZenonT(40) DEF TypeOK, ShapeInv
    <3>2. RefersTo(LoadedEntries, op[w].entry) /\ LoadedEntries \in Seq(EntryType)
      BY <2>2, <3>1, DurableKnown, LoadedType, ZenonT(40) DEF RefersTo, TypeOK
    <3> QED
      BY <2>2, <3>1, <3>2, AppendRefsBack DEF BackInv
  <2> QED
    BY <1>12, <2>3, StopStep DEF CrashWhileWriting
<1>13. ASSUME Crash PROVE Good
  <2>1. AllValid' => RefsBack(LoadedEntries')
    BY <1>13 DEF Crash, fileVars, AllValid, LoadedEntries, BackInv
  <2> QED
    BY <1>13, <2>1, StopStep DEF Crash
<1>14. ASSUME Open PROVE Good
  BY <1>14, OpenStep
<1>15. ASSUME Tick \/ UNCHANGED vars PROVE Good
  <2>1. UNCHANGED <<lines, entries, leaf, open, op>>
    BY <1>15 DEF Tick, vars, fileVars, memoryVars
  <2>2. AllValid' = AllValid /\ LoadedEntries' = LoadedEntries
    BY <2>1 DEF AllValid, LoadedEntries
  <2> QED
    BY <2>1, <2>2 DEF MemoryDurable, OpInv, BackInv, CallInv
<1> HIDE DEF Good
<1>16. Good
  BY <1>3, <1>4, <1>5, <1>6, <1>8, <1>9, <1>10, <1>11, <1>12, <1>13, <1>14, <1>15, ZenonT(40)
  DEF Next, Call, Step
<1> QED
  BY <1>16 DEF Good

(* Without overlap, steps that leave file and memory alone. *)
LEMMA SoloSame ==
  ASSUME TypeOK, SoloInv, UNCHANGED <<lines, eol, entries, leaf, open>>,
         NEW w \in Writers, NEW r \in OpType, op' = [op EXCEPT ![w] = r],
         op[w].pc # "commit", r.pc # "commit", CallFits(r),
         \A v \in Writers : v # w => op[v].pc = "idle"
  PROVE  SoloInv'
<1>1. AllValid' = AllValid /\ LoadedEntries' = LoadedEntries
  BY DEF AllValid, LoadedEntries
<1>2. op'[w] = r /\ \A v \in Writers : v # w => op'[v] = op[v]
  BY OpMoves DEF TypeOK
<1>3. ~Committing /\ ~Committing'
  BY <1>2 DEF Committing
<1>4. OneCall'
  BY <1>2 DEF OneCall
<1>5. \A v \in Writers : CallFits(op'[v])
  BY <1>2 DEF SoloInv
<1>6. \A v \in Writers : CallFits(op[v])'
  BY <1>5 DEF CallFits
<1>7. \A v \in Writers : op'[v].pc # "commit"
  BY <1>2
<1>8. FileInv'
  BY <1>1, <1>3, <1>7 DEF SoloInv, FileInv
<1> QED
  BY <1>1, <1>4, <1>6, <1>8 DEF SoloInv

(* Without overlap, a write that leaves a valid file adds to the tree. *)
LEMMA SoloGrows ==
  ASSUME TypeOK, ShapeInv, OpInv, BackInv, SoloInv, NEW w \in Writers, op[w].pc = "write",
         NEW ok \in BOOLEAN, lines' = WithLine(op[w].entry, ok), AllValid'
  PROVE  /\ LoadedEntries' = Append(entries, op[w].entry)
         /\ UniqueIds(LoadedEntries') /\ Kept(LoadedEntries')
<1> DEFINE e == op[w].entry
<1>1. e \in EntryType /\ e.id # None /\ RefersTo(entries, e) /\ open
  BY DEF TypeOK, OpType, OpInv, CallInv, ShapeInv
<1>2. AllValid /\ eol /\ LoadedEntries' = Append(LoadedEntries, e)
  BY <1>1, FileGrows DEF TypeOK, ShapeInv
<1>3. ~Committing
  BY DEF SoloInv, OneCall, Committing
<1>4. LoadedEntries = entries
  BY <1>1, <1>2, <1>3 DEF SoloInv, FileInv
<1>5. Fits(entries, e) /\ entries \in Seq(EntryType)
  BY DEF SoloInv, CallFits, TypeOK
<1>6. UniqueIds(Append(entries, e)) /\ Kept(Append(entries, e))
  BY <1>1, <1>5, AppendUnique, AppendKept DEF SoloInv, BackInv, Fits
<1> QED
  BY <1>2, <1>4, <1>6

(* A call that is in flight is the only one. *)
LEMMA OthersIdle ==
  ASSUME SoloInv, NEW w \in Writers, op[w].pc # "idle"
  PROVE  \A v \in Writers : v # w => op[v].pc = "idle"
BY DEF SoloInv, OneCall

(* Without overlap, the two ways to write a line in a process that goes on. *)
LEMMA SoloWrite ==
  ASSUME TypeOK, ShapeInv, OpInv, BackInv, SoloInv, NEW w \in Writers,
         WriteLine(w) \/ WriteTears(w)
  PROVE  SoloInv'
<1>1. PICK ok \in BOOLEAN, r \in OpType :
        /\ lines' = WithLine(op[w].entry, ok)
        /\ op' = [op EXCEPT ![w] = r]
        /\ \/ r.pc = "commit" /\ r.entry = op[w].entry /\ eol'
           \/ r.pc = "idle" /\ ~eol'
  <2>1. CASE WriteLine(w)
    <3>1. PICK r \in OpType :
            op' = [op EXCEPT ![w] = r] /\ r.pc = "commit" /\ r.entry = op[w].entry
      BY <2>1, PcMoved, ZenonT(40) DEF WriteLine, TypeOK
    <3> QED
      BY <2>1, <3>1 DEF WriteLine
  <2>2. CASE WriteTears(w)
    BY <2>2, NoOpType DEF WriteTears, TearLine
  <2> QED
    BY <2>1, <2>2
<1>2. op[w].pc = "write" /\ entries' = entries /\ leaf' = leaf
  BY DEF WriteLine, WriteTears, TearLine, memoryVars
<1>3. AllValid' => /\ LoadedEntries' = Append(entries, op[w].entry)
                   /\ UniqueIds(LoadedEntries') /\ Kept(LoadedEntries')
  BY <1>1, <1>2, SoloGrows
<1>4. op'[w] = r /\ \A v \in Writers : v # w => op'[v] = op[v] /\ op'[v].pc = "idle"
  BY <1>1, <1>2, OpMoves, OthersIdle DEF TypeOK
<1>5. OneCall'
  BY <1>4 DEF OneCall
<1>6. ASSUME NEW v \in Writers PROVE CallFits(op[v])'
  <2>1. Fits(entries, op[w].entry)
    BY <1>2 DEF SoloInv, CallFits
  <2> QED
    BY <1>1, <1>2, <1>4, <2>1 DEF CallFits
<1>7. FileInv'
  <2>1. CASE eol'
    <3>1. r.pc = "commit" /\ r.entry = op[w].entry
      BY <1>1, <2>1
    <3>2. Committing'
      BY <1>4, <3>1 DEF Committing
    <3>3. \A v \in Writers : op'[v].pc = "commit" => v = w
      BY <1>4
    <3> QED
      BY <1>2, <1>3, <1>4, <2>1, <3>1, <3>2, <3>3, ZenonT(40) DEF FileInv
  <2>2. CASE ~eol'
    <3>1. ~Committing'
      BY <1>1, <1>4, <2>2 DEF Committing
    <3> QED
      BY <2>2, <3>1 DEF FileInv
  <2> QED
    BY <2>1, <2>2
<1> QED
  BY <1>2, <1>3, <1>5, <1>6, <1>7, ZenonT(40) DEF SoloInv

(* Without overlap, committing brings the memory up to the file. *)
LEMMA SoloCommit ==
  ASSUME TypeOK, ShapeInv, OpInv, BackInv, SoloInv, NEW w \in Writers, Commit(w)
  PROVE  SoloInv'
<1> DEFINE e == op[w].entry
<1>1. PICK r \in OpType : op' = [op EXCEPT ![w] = r] /\ r.pc \in {"idle", "summary"}
  BY NoOpType, PcMoved DEF Commit, TypeOK
<1>2. /\ op[w].pc = "commit" /\ entries' = Append(entries, e)
      /\ eol' = eol /\ open' = open
  BY DEF Commit, fileVars
<1>3. AllValid' = AllValid /\ LoadedEntries' = LoadedEntries
  BY DEF Commit, AllValid, LoadedEntries, fileVars
<1>4. op'[w] = r /\ \A v \in Writers : v # w => op'[v] = op[v] /\ op'[v].pc = "idle"
  BY <1>1, <1>2, OpMoves, OthersIdle, ZenonT(40) DEF TypeOK
<1>5. e \in EntryType /\ e.id # None /\ RefersTo(entries, e) /\ Fits(entries, e)
  BY <1>2 DEF TypeOK, OpType, OpInv, CallInv, SoloInv, CallFits
<1>6. UniqueIds(Append(entries, e)) /\ Kept(Append(entries, e))
  BY <1>5, AppendUnique, AppendKept DEF SoloInv, BackInv, Fits, TypeOK
<1>7. OneCall'
  BY <1>4 DEF OneCall
<1>8. \A v \in Writers : CallFits(op[v])'
  BY <1>1, <1>4 DEF CallFits
<1>9. ~Committing' /\ \A v \in Writers : op'[v].pc # "commit"
  BY <1>1, <1>4 DEF Committing
<1>10. open /\ AllValid /\ eol => LoadedEntries = Append(entries, e)
  BY <1>2 DEF SoloInv, FileInv
<1>11. FileInv'
  BY <1>2, <1>3, <1>9, <1>10 DEF FileInv
<1> QED
  BY <1>2, <1>3, <1>6, <1>7, <1>8, <1>11, ZenonT(40) DEF SoloInv

(* Without overlap, the end of a process. *)
LEMMA SoloStop ==
  ASSUME Stopped, AllValid' => UniqueIds(LoadedEntries') /\ Kept(LoadedEntries')
  PROVE  SoloInv'
<1>1. entries' = <<>> /\ ~open' /\ \A w \in Writers : op'[w].pc = "idle"
  BY NoOpType DEF Stopped
<1>2. UniqueIds(<<>>) /\ Kept(<<>>)
  BY SMTT(30) DEF UniqueIds, Kept
<1>3. OneCall' /\ ~Committing' /\ \A w \in Writers : CallFits(op[w])'
  BY <1>1 DEF OneCall, Committing, CallFits
<1>4. FileInv'
  BY <1>1, <1>3 DEF FileInv
<1> QED
  BY <1>1, <1>2, <1>3, <1>4 DEF SoloInv

(* Without overlap, a reopen. *)
LEMMA SoloOpen ==
  ASSUME ShapeInv, SoloInv, Open
  PROVE  SoloInv'
<1>1. /\ entries' = LoadedEntries /\ AllValid
      /\ AllValid' = AllValid /\ LoadedEntries' = LoadedEntries
      /\ \A w \in Writers : op'[w].pc = "idle"
  BY DEF Open, fileVars, AllValid, LoadedEntries, ShapeInv
<1>2. OneCall' /\ ~Committing' /\ \A w \in Writers : CallFits(op[w])'
  BY <1>1 DEF OneCall, Committing, CallFits
<1>3. FileInv'
  BY <1>1, <1>2 DEF FileInv
<1> QED
  BY <1>1, <1>2, <1>3 DEF SoloInv

(* Without overlap, every step preserves SoloInv. *)
LEMMA SoloStep ==
  ASSUME TypeOK, ShapeInv, OpInv, BackInv, ~overlapped => SoloInv, [Next]_vars, ~overlapped'
  PROVE  SoloInv'
<1>1. ASSUME NEW w \in Writers, Starts(w)
      PROVE  SoloInv /\ \A v \in Writers : op[v].pc = "idle"
  BY <1>1 DEF Starts, TypeOK
<1>2. ASSUME NEW w \in Writers, NEW type \in {"message", "compaction"},
             AppendStart(w, type)
      PROVE  SoloInv'
  <2>1. PICK r \in OpType :
           /\ op' = [op EXCEPT ![w] = r] /\ r.pc = "leaf"
           /\ r.entry.id \notin Ids(entries) /\ r.entry.type = type
           /\ r.entry.ref \in IF type = "compaction" THEN OnPath(entries, leaf) ELSE {None}
    BY <1>2, AppendStarted
  <2> DEFINE e == [r.entry EXCEPT !.parent = leaf]
  <2>2. r.entry \in EntryType /\ leaf \in Nat
    BY DEF OpType, TypeOK
  <2>3. e.id = r.entry.id /\ e.parent = leaf /\ e.type = r.entry.type /\ e.ref = r.entry.ref
    BY <2>2 DEF EntryType
  <2> HIDE DEF e
  <2>4. Fits(entries, e)
    BY <2>1, <2>3 DEF Fits
  <2>5. CallFits(r)
    BY <2>1, <2>4 DEF CallFits, e
  <2>6. SoloInv /\ \A v \in Writers : op[v].pc = "idle"
    BY <1>1, <1>2 DEF AppendStart
  <2> QED
    BY <1>2, <2>1, <2>5, <2>6, SoloSame, ZenonT(40) DEF AppendStart, fileVars, memoryVars
<1>3. ASSUME NEW w \in Writers, NEW s \in BOOLEAN, MoveTo(w, s) PROVE SoloInv'
  <2>1. PICK r \in OpType :
           /\ op' = [op EXCEPT ![w] = r] /\ r.pc = "write"
           /\ r.entry.id \notin Ids(entries) /\ r.entry.type = "leaf"
    BY <1>3, MoveStarted
  <2>2. CallFits(r)
    BY <2>1 DEF CallFits, Fits
  <2>3. SoloInv /\ \A v \in Writers : op[v].pc = "idle"
    BY <1>1, <1>3 DEF MoveTo
  <2> QED
    BY <1>3, <2>1, <2>2, <2>3, SoloSame, ZenonT(40) DEF MoveTo, fileVars, memoryVars
<1>4. ASSUME NEW w \in Writers, ReadLeaf(w) PROVE SoloInv'
  <2>1. PICK r \in OpType :
           /\ op' = [op EXCEPT ![w] = r] /\ r.pc = "write"
           /\ r.entry = [op[w].entry EXCEPT !.parent = leaf]
    BY <1>4, LeafRead
  <2>2. SoloInv /\ op[w].pc = "leaf"
    BY <1>4 DEF ReadLeaf
  <2>3. Fits(entries, r.entry)
    BY <2>1, <2>2 DEF SoloInv, CallFits
  <2>4. CallFits(r)
    BY <2>1, <2>3 DEF CallFits
  <2> QED
    BY <1>4, <2>1, <2>2, <2>4, SoloSame, OthersIdle, ZenonT(40) DEF ReadLeaf, fileVars, memoryVars
<1>5. ASSUME NEW w \in Writers, AppendSummary(w) PROVE SoloInv'
  <2>1. PICK r \in OpType :
           /\ op' = [op EXCEPT ![w] = r] /\ r.pc = "write"
           /\ r.entry.id \notin Ids(entries) /\ r.entry.type = "branch_summary"
    BY <1>5, SummaryStarted
  <2>2. SoloInv /\ op[w].pc = "summary"
    BY <1>5 DEF AppendSummary
  <2>3. CallFits(r)
    BY <2>1 DEF CallFits, Fits
  <2> QED
    BY <1>5, <2>1, <2>2, <2>3, SoloSame, OthersIdle, ZenonT(40)
    DEF AppendSummary, fileVars, memoryVars
<1>6. ASSUME NEW w \in Writers, WriteFails(w) PROVE SoloInv'
  <2>1. SoloInv /\ op[w].pc = "write"
    BY <1>6 DEF WriteFails
  <2>2. CallFits(NoOp) /\ NoOp \in OpType /\ NoOp.pc = "idle"
    BY NoOpType DEF CallFits
  <2> QED
    BY <1>6, <2>1, <2>2, SoloSame, OthersIdle, ZenonT(40) DEF WriteFails, fileVars, memoryVars
<1>7. ASSUME NEW w \in Writers, WriteLine(w) \/ WriteTears(w) PROVE SoloInv'
  <2>1. SoloInv
    BY <1>7 DEF WriteLine, WriteTears
  <2> QED
    BY <1>7, <2>1, SoloWrite
<1>8. ASSUME NEW w \in Writers, Commit(w) PROVE SoloInv'
  <2>1. SoloInv
    BY <1>8 DEF Commit
  <2> QED
    BY <1>8, <2>1, SoloCommit
<1>9. ASSUME NEW w \in Writers, CrashWhileWriting(w) PROVE SoloInv'
  <2>1. SoloInv /\ op[w].pc = "write" /\ \E ok \in BOOLEAN : lines' = WithLine(op[w].entry, ok)
    BY <1>9 DEF CrashWhileWriting, TearLine, Stopped
  <2>2. AllValid' => UniqueIds(LoadedEntries') /\ Kept(LoadedEntries')
    BY <2>1, SoloGrows
  <2> QED
    BY <1>9, <2>2, SoloStop DEF CrashWhileWriting
<1>10. ASSUME Crash PROVE SoloInv'
  <2>1. SoloInv /\ AllValid' = AllValid /\ LoadedEntries' = LoadedEntries
    BY <1>10 DEF Crash, Stopped, fileVars, AllValid, LoadedEntries
  <2> QED
    BY <1>10, <2>1, SoloStop DEF Crash, SoloInv
<1>11. ASSUME Open PROVE SoloInv'
  <2>1. SoloInv
    BY <1>11 DEF Open
  <2> QED
    BY <1>11, <2>1, SoloOpen
<1>12. ASSUME Tick \/ UNCHANGED vars PROVE SoloInv'
  <2>1. UNCHANGED <<lines, eol, entries, leaf, open, op>> /\ SoloInv
    BY <1>12 DEF Tick, vars, fileVars, memoryVars
  <2>2. AllValid' = AllValid /\ LoadedEntries' = LoadedEntries
    BY <2>1 DEF AllValid, LoadedEntries
  <2> QED
    BY <2>1, <2>2 DEF SoloInv, OneCall, CallFits, FileInv, Committing
<1> QED
  BY <1>2, <1>3, <1>4, <1>5, <1>6, <1>7, <1>8, <1>9, <1>10, <1>11, <1>12, ZenonT(40)
  DEF Next, Call, Step

(* The invariant holds initially. *)
LEMMA SessionInit == ASSUME Init PROVE SessionInv
<1>1. /\ lines = <<>> /\ entries = <<>> /\ leaf = None
      /\ \A w \in Writers : op[w].pc = "idle"
  BY NoOpType DEF Init
<1>2. LoadedEntries = <<>>
  BY <1>1, SMTT(30) DEF LoadedEntries
<1>3. RefsBack(<<>>) /\ UniqueIds(<<>>) /\ Kept(<<>>) /\ Known(<<>>, None)
  BY SMTT(30) DEF RefsBack, UniqueIds, Kept, Known
<1>4. LeafOf(<<>>) = None
  BY DEF LeafOf
<1>5. MemoryDurable /\ OpInv /\ BackInv
  BY <1>1, <1>2, <1>3, <1>4, SMTT(30) DEF MemoryDurable, OpInv, CallInv, BackInv
<1>6. OneCall /\ (\A w \in Writers : CallFits(op[w])) /\ ~Committing
  BY <1>1 DEF OneCall, CallFits, Committing
<1>7. SoloInv
  BY <1>1, <1>2, <1>3, <1>6 DEF SoloInv, FileInv
<1> QED
  BY <1>5, <1>7 DEF SessionInv

(* The inductive invariant, for any number of calls that overlap in any way:
   the memory is durable, references go back in the file, and as long as no
   calls overlap the file is the memory or one entry ahead. *)
THEOREM SessionInvariant == Spec => [](TypeOK /\ ShapeInv /\ SessionInv)
<1>1. Init => TypeOK /\ ShapeInv /\ SessionInv
  BY TypeInit, SessionInit
<1>2. (TypeOK /\ ShapeInv /\ SessionInv) /\ [Next]_vars => (TypeOK /\ ShapeInv /\ SessionInv)'
  <2> SUFFICES ASSUME TypeOK, ShapeInv, SessionInv, [Next]_vars
               PROVE  (TypeOK /\ ShapeInv /\ SessionInv)'
    OBVIOUS
  <2>1. TypeOK' /\ ShapeInv'
    BY TypeStep
  <2>2. MemoryDurable' /\ OpInv' /\ BackInv'
    BY BackStep DEF SessionInv
  <2>3. ~overlapped' => SoloInv'
    BY SoloStep DEF SessionInv
  <2> QED
    BY <2>1, <2>2, <2>3 DEF SessionInv
<1> QED
  BY <1>1, <1>2, PTL DEF Spec

-----------------------------------------------------------------------------
(* The theorems *)

(* An entry that a caller was told of is in the file, unless a torn line has
   made the file unreadable: for any number of writers and lines, and whatever
   calls overlap, appendEntry writes the file before the memory. *)
THEOREM MemoryIsDurable == Spec => []MemoryDurable
<1>1. SessionInv => MemoryDurable
  BY DEF SessionInv
<1> QED
  BY <1>1, SessionInvariant, PTL

(* The session is a tree, of any size: no reference dangles whatever calls
   overlap, so that getLeafId never throws; and without overlap getPathToRoot
   ends at the root from every entry, and a compaction keeps an entry of its
   own branch. *)
THEOREM SessionIsTree == Spec => []TreeSound
<1>1. ASSUME TypeOK, SessionInv PROVE TreeSound
  <2>1. RefersBack
    <3>1. /\ DOMAIN LoadedEntries = 1..Len(lines) /\ DOMAIN lines = 1..Len(lines)
          /\ Len(lines) \in Nat
          /\ \A i \in 1..Len(lines) : LoadedEntries[i] = lines[i].entry
      BY <1>1, LoadedType, SMTT(30) DEF TypeOK
    <3>2. ASSUME AllValid, NEW j \in DOMAIN lines,
                 NEW r \in {lines[j].entry.parent, lines[j].entry.ref} \ {None}
          PROVE  \E i \in 1..(j - 1) : lines[i].entry.id = r
      <4>1. RefsBack(LoadedEntries)
        BY <1>1, <3>2 DEF SessionInv, BackInv
      <4>2. j \in DOMAIN LoadedEntries /\ LoadedEntries[j] = lines[j].entry
        BY <3>1
      <4>3. PICK i \in 1..(j - 1) : LoadedEntries[i].id = r
        BY <4>1, <4>2 DEF RefsBack
      <4>4. i \in 1..Len(lines)
        BY <3>1, SMTT(30)
      <4> QED
        BY <3>1, <4>3, <4>4
    <3> QED
      BY <1>1, <3>2 DEF RefersBack, SessionInv, BackInv
  <2>2. ASSUME ~overlapped PROVE PathsEnd /\ KeptOnPath
    <3>1. /\ entries \in Seq(EntryType) /\ RefsBack(entries)
          /\ UniqueIds(entries) /\ Kept(entries)
      BY <1>1, <2>2 DEF TypeOK, SessionInv, BackInv, SoloInv
    <3>2. PathsEnd
      BY <3>1, PathsEndHere DEF PathsEnd
    <3> QED
      BY <3>1, <3>2 DEF Kept, KeptOnPath
  <2> QED
    BY <2>1, <2>2 DEF TreeSound
<1> QED
  BY <1>1, SessionInvariant, PTL

(* Without overlap the memory is what a reopen gives, entries and leaf, after
   any number of calls, failed writes and restarts. *)
THEOREM MemoryMatchesFile == Spec => []MemoryIsFile
<1>1. ASSUME SessionInv PROVE MemoryIsFile
  <2> SUFFICES ASSUME ~overlapped, open, eol, AllValid, Quiet
               PROVE  entries = LoadedEntries /\ leaf = LeafOf(LoadedEntries)
    BY DEF MemoryIsFile
  <2>1. SoloInv /\ ~Committing
    BY <1>1 DEF SessionInv, Quiet, Committing
  <2>2. entries = LoadedEntries
    BY <2>1 DEF SoloInv, FileInv
  <2>3. leaf = LeafOf(entries)
    BY <1>1 DEF SessionInv, BackInv
  <2> QED
    BY <2>2, <2>3
<1> QED
  BY <1>1, SessionInvariant, PTL
==============================================================================
