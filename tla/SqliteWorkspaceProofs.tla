----------------------- MODULE SqliteWorkspaceProofs -----------------------
(***************************************************************************)
(* What SqliteWorkspace keeps for any files, tables, keys, page size and   *)
(* bounds.                                                                 *)
(*                                                                         *)
(* StateInv adds to the types what opens a view: an open file.  EditInv    *)
(* counts the staged rows: while one waits in the edits or in a batch, it  *)
(* has been carried out by batches only whose reply was lost.  GridInv     *)
(* ties the grid to the loads under way and to the file: the rows of the   *)
(* table that the grid has not passed start at loadOffset or before it, so *)
(* the next page repeats none.                                             *)
(***************************************************************************)
EXTENDS SqliteWorkspace, Integers, FiniteSetTheorems, SequenceTheorems,
        WellFoundedInduction, TLAPS

(***************************************************************************)
(* Numbers: induction and recursion over an interval, finite sets in order *)
(***************************************************************************)
LEMMA LeastNat ==
  ASSUME NEW S \in SUBSET Nat, S # {}
  PROVE  \E n \in S : \A m \in S : n <= m
<1> DEFINE R == OpToRel(<, Nat)
<1>1. IsWellFoundedOn(R, Nat)
  BY NatLessThanWellFounded
<1>2. \A x, y \in Nat : <<x, y>> \in R <=> x < y
  BY DEF OpToRel
<1> HIDE DEF R
<1>3. PICK n \in S : \A m \in S : ~ (<<m, n>> \in R)
  BY <1>1, WFMin
<1>4. n \in Nat /\ \A m \in S : m \in Nat /\ ~(m < n)
  BY <1>2, <1>3
<1> QED BY <1>4

\* Induction over an interval, for a set instead of a predicate.
LEMMA IntervalInduction ==
  ASSUME NEW n \in Nat, NEW P, 0 \in P, \A i \in 0 .. n - 1 : i \in P => i + 1 \in P
  PROVE  0 .. n \subseteq P
<1> SUFFICES ASSUME ~(0 .. n \subseteq P) PROVE FALSE
  OBVIOUS
<1>1. PICK i \in 0 .. n : i \notin P /\ \A j \in 0 .. n : j \notin P => i <= j
  <2> DEFINE S == {j \in 0 .. n : j \notin P}
  <2>1. S \in SUBSET Nat /\ S # {}
    OBVIOUS
  <2> HIDE DEF S
  <2>2. PICK i \in S : \A j \in S : i <= j
    BY <2>1, LeastNat
  <2> QED BY <2>2 DEF S
<1>2. i # 0 /\ i - 1 \in 0 .. n - 1 /\ i - 1 \in P
  BY <1>1
<1> QED BY <1>1, <1>2

\* A function that is defined by recursion over an interval exists.
HasRecursion(n, S, a, step) ==
  \E f \in [0 .. n -> S] : f[0] = a /\ \A i \in 1 .. n : f[i] = step[i][f[i - 1]]

LEMMA RecursionOnInterval ==
  ASSUME NEW n \in Nat, NEW S, NEW a \in S, NEW step,
         \A i \in 1 .. n : \A s \in S : step[i][s] \in S
  PROVE  HasRecursion(n, S, a, step)
<1> DEFINE Good(i, f) == \A j \in 0 .. i : f[j] = IF j = 0 THEN a ELSE step[j][f[j - 1]]
           P == {i \in 0 .. n : \E f \in [0 .. i -> S] : Good(i, f)}
<1>1. 0 \in P
  <2> DEFINE f == [j \in 0 .. 0 |-> a]
  <2>1. f \in [0 .. 0 -> S]
    OBVIOUS
  <2>2. Good(0, f)
    OBVIOUS
  <2> HIDE DEF Good, f
  <2> QED BY <2>1, <2>2
<1>2. ASSUME NEW i \in 0 .. n - 1, i \in P PROVE i + 1 \in P
  <2>1. PICK f \in [0 .. i -> S] : Good(i, f)
    BY <1>2
  <2> DEFINE g == [j \in 0 .. i + 1 |-> IF j = i + 1 THEN step[i + 1][f[i]] ELSE f[j]]
  <2>2. g \in [0 .. i + 1 -> S]
    <3>1. f[i] \in S /\ i + 1 \in 1 .. n
      BY <1>2
    <3>2. step[i + 1][f[i]] \in S
      BY <3>1
    <3> QED BY <3>2
  <2>3. ASSUME NEW j \in 0 .. i + 1 PROVE g[j] = IF j = 0 THEN a ELSE step[j][g[j - 1]]
    <3>1. CASE j = i + 1
      BY <3>1
    <3>2. CASE j # i + 1
      <4>1. j \in 0 .. i /\ (j # 0 => j - 1 \in 0 .. i)
        BY <3>2
      <4>2. f[j] = IF j = 0 THEN a ELSE step[j][f[j - 1]]
        BY <2>1, <4>1
      <4> QED BY <4>1, <4>2
    <3> QED BY <3>1, <3>2
  <2>4. Good(i + 1, g)
    BY <2>2, <2>3
  <2> HIDE DEF Good, g
  <2> QED BY <1>2, <2>2, <2>4
<1> HIDE DEF P, Good
<1>3. n \in P
  <2>1. \A i \in 0 .. n - 1 : i \in P => i + 1 \in P
    BY <1>2
  <2>2. 0 .. n \subseteq P
    BY <1>1, <2>1, IntervalInduction
  <2> QED BY <2>2
<1>4. PICK f \in [0 .. n -> S] : Good(n, f)
  BY <1>3 DEF P
<1> USE DEF Good
<1>5. f[0] = a
  BY <1>4
<1>6. \A i \in 1 .. n : f[i] = step[i][f[i - 1]]
  BY <1>4
<1> QED BY <1>5, <1>6 DEF HasRecursion

\* The rank of a number in a finite set: below the set's size, and larger for larger ones.
LEMMA RankIsBelow ==
  ASSUME NEW S \in SUBSET Nat, IsFiniteSet(S), NEW k \in S
  PROVE  Rank(S, k) \in 0 .. Cardinality(S) - 1
<1> DEFINE B == {x \in S : x < k}
<1>1. B \in SUBSET S /\ B # S
  <2>1. k \notin B
    OBVIOUS
  <2> QED BY <2>1
<1>2. Cardinality(S) \in Nat /\ IsFiniteSet(B)
  BY <1>1, FS_CardinalityType, FS_Subset
<1> HIDE DEF B
<1>3. Cardinality(B) <= Cardinality(S) /\ Cardinality(S) # Cardinality(B)
  BY <1>1, FS_Subset
<1>4. Cardinality(B) \in Nat
  BY <1>2, FS_CardinalityType
<1>5. Rank(S, k) = Cardinality(B)
  BY DEF Rank, B
<1> QED BY <1>2, <1>3, <1>4, <1>5

LEMMA RankGrows ==
  ASSUME NEW S \in SUBSET Nat, IsFiniteSet(S), NEW j \in S, NEW k \in S, j < k
  PROVE  Rank(S, j) < Rank(S, k)
<1> DEFINE A == {x \in S : x < j}
           B == {x \in S : x < k}
<1>1. A \in SUBSET B /\ A # B /\ B \in SUBSET S
  <2>1. A \in SUBSET B
    <3> SUFFICES ASSUME NEW x \in S, x < j PROVE x < k
      OBVIOUS
    <3> QED OBVIOUS
  <2>2. j \in B /\ j \notin A
    OBVIOUS
  <2> QED BY <2>1, <2>2
<1> HIDE DEF A, B
<1>2. IsFiniteSet(B)
  BY <1>1, FS_Subset
<1>3. IsFiniteSet(A) /\ Cardinality(A) <= Cardinality(B) /\ Cardinality(B) # Cardinality(A)
  BY <1>1, <1>2, FS_Subset
<1>4. Cardinality(A) \in Nat /\ Cardinality(B) \in Nat
  BY <1>2, <1>3, FS_CardinalityType
<1>5. Rank(S, j) = Cardinality(A) /\ Rank(S, k) = Cardinality(B)
  BY DEF Rank, A, B
<1> QED BY <1>3, <1>4, <1>5

\* Every number below the size is the rank of one element.
LEMMA RanksAreTaken ==
  ASSUME NEW S \in SUBSET Nat, IsFiniteSet(S), NEW r \in 0 .. Cardinality(S) - 1
  PROVE  \E k \in S : Rank(S, k) = r
<1> DEFINE n == Cardinality(S)
           rank == [k \in S |-> Rank(S, k)]
<1>1. n \in Nat
  BY FS_CardinalityType
<1> HIDE DEF n
<1>2. rank \in [S -> 0 .. n - 1]
  BY RankIsBelow DEF n
<1>3. ASSUME NEW j \in S, NEW k \in S, rank[j] = rank[k] PROVE j = k
  <2>1. rank[j] \in Nat /\ rank[k] \in Nat /\ ~(rank[j] < rank[k]) /\ ~(rank[k] < rank[j])
    BY <1>1, <1>2, <1>3
  <2>2. ~(j < k) /\ ~(k < j)
    BY <2>1, RankGrows
  <2> QED BY <2>2
<1> HIDE DEF rank
<1>4. rank \in Injection(S, 0 .. n - 1)
  BY <1>2, <1>3 DEF Injection, IsInjective
<1>5. IsFiniteSet(0 .. n - 1) /\ Cardinality(0 .. n - 1) = n
  BY <1>1, FS_Interval
<1>6. rank \in Surjection(S, 0 .. n - 1)
  BY <1>4, <1>5, FS_Injection DEF n
<1>7. \A x \in 0 .. n - 1 : \E k \in S : rank[k] = x
  BY <1>6 DEF Surjection
<1> QED BY <1>7 DEF rank, n

\* Ascending lists a finite set of numbers, each once, the smaller ones first.
LEMMA AscendingIs ==
  ASSUME NEW S \in SUBSET Nat, IsFiniteSet(S)
  PROVE  /\ Cardinality(S) \in Nat
         /\ Ascending(S) \in [1 .. Cardinality(S) -> S]
         /\ \A i \in 1 .. Cardinality(S) : Rank(S, Ascending(S)[i]) = i - 1
         /\ \A i, j \in 1 .. Cardinality(S) : i < j => Ascending(S)[i] < Ascending(S)[j]
<1> DEFINE n == Cardinality(S)
           a == Ascending(S)
<1>1. n \in Nat
  BY FS_CardinalityType
<1>2. a = [i \in 1 .. n |-> CHOOSE k \in S : Rank(S, k) = i - 1]
  BY DEF Ascending
<1> HIDE DEF n, a
<1>3. ASSUME NEW i \in 1 .. n PROVE a[i] \in S /\ Rank(S, a[i]) = i - 1
  <2>1. i - 1 \in 0 .. Cardinality(S) - 1
    BY <1>1 DEF n
  <2>2. \E k \in S : Rank(S, k) = i - 1
    BY <2>1, RanksAreTaken
  <2>3. a[i] = CHOOSE k \in S : Rank(S, k) = i - 1
    BY <1>2
  <2> QED BY <2>2, <2>3
<1>4. a \in [1 .. n -> S]
  BY <1>2, <1>3
<1>5. ASSUME NEW i \in 1 .. n, NEW j \in 1 .. n, i < j PROVE a[i] < a[j]
  <2>1. a[i] \in S /\ a[j] \in S /\ Rank(S, a[i]) = i - 1 /\ Rank(S, a[j]) = j - 1
    BY <1>3
  <2>2. a[j] # a[i]
    BY <2>1, <1>5
  <2>3. ~(a[j] < a[i])
    <3> SUFFICES ASSUME a[j] < a[i] PROVE FALSE
      OBVIOUS
    <3>1. Rank(S, a[j]) < Rank(S, a[i])
      BY <2>1, RankGrows
    <3> QED BY <2>1, <3>1, <1>5
  <2>4. a[i] \in Nat /\ a[j] \in Nat
    BY <2>1
  <2> QED BY <2>2, <2>3, <2>4
<1>6. \A i \in 1 .. n : Rank(S, a[i]) = i - 1
  BY <1>3
<1>7. \A i, j \in 1 .. n : i < j => a[i] < a[j]
  BY <1>5
<1> QED BY <1>1, <1>4, <1>6, <1>7 DEF n, a

(***************************************************************************)
(* Queries                                                                 *)
(***************************************************************************)
Precedes(order, a, b) == IF order = "DESC" THEN a > b ELSE a < b

\* A query's keys in their order; those that do not come behind the i-th are i.
LEMMA SortedKeysAre ==
  ASSUME NEW S \in SUBSET Nat, IsFiniteSet(S), NEW order
  PROVE  /\ Cardinality(S) \in Nat
         /\ SortedKeys(S, order) \in [1 .. Cardinality(S) -> S]
         /\ \A i, j \in 1 .. Cardinality(S) :
              i < j => Precedes(order, SortedKeys(S, order)[i], SortedKeys(S, order)[j])
         /\ \A i \in 1 .. Cardinality(S) :
              Cardinality({k \in S : ~Precedes(order, SortedKeys(S, order)[i], k)}) = i
<1> DEFINE n == Cardinality(S)
           a == Ascending(S)
           ks == SortedKeys(S, order)
<1>1. /\ n \in Nat /\ a \in [1 .. n -> S]
      /\ \A i \in 1 .. n : Rank(S, a[i]) = i - 1
      /\ \A i, j \in 1 .. n : i < j => a[i] < a[j]
  BY AscendingIs
<1>2. Len(a) = n
  BY <1>1
<1>3. ks = IF order = "DESC" THEN [i \in 1 .. n |-> a[n - i + 1]] ELSE a
  BY <1>1, <1>2 DEF SortedKeys, Reverse
<1>4. \A i \in 1 .. n : /\ Cardinality({x \in S : x < a[i]}) = i - 1
                        /\ IsFiniteSet({x \in S : x < a[i]})
  BY <1>1, FS_Subset DEF Rank
<1>5. n = Cardinality(S)
  OBVIOUS
<1> HIDE DEF n, a, ks
<1>6. CASE order = "DESC"
  <2>1. ks = [i \in 1 .. n |-> a[n - i + 1]] /\ \A i \in 1 .. n : n - i + 1 \in 1 .. n
    BY <1>1, <1>3, <1>6
  <2>2. ks \in [1 .. n -> S]
    BY <1>1, <2>1
  <2>3. ASSUME NEW i \in 1 .. n, NEW j \in 1 .. n, i < j PROVE Precedes(order, ks[i], ks[j])
    <3>1. n - j + 1 < n - i + 1 /\ n - i + 1 \in 1 .. n /\ n - j + 1 \in 1 .. n
      BY <1>1, <2>3
    <3>2. a[n - j + 1] < a[n - i + 1] /\ a[n - j + 1] \in Nat /\ a[n - i + 1] \in Nat
      BY <1>1, <3>1
    <3>3. ks[j] < ks[i] /\ ks[j] \in Nat /\ ks[i] \in Nat
      BY <2>1, <3>2
    <3> QED BY <3>3, <1>6 DEF Precedes
  <2>4. ASSUME NEW i \in 1 .. n
        PROVE  Cardinality({k \in S : ~Precedes(order, ks[i], k)}) = i
    <3> DEFINE B == {x \in S : x < ks[i]}
               C == {k \in S : ~Precedes(order, ks[i], k)}
    <3> PICK m \in 1 .. n : m = n - i + 1
      BY <1>1
    <3>9. m - 1 = n - i
      BY <1>1
    <3>1. ks[i] \in Nat /\ ks[i] = a[m] /\ m - 1 = n - i
      BY <1>1, <2>1, <3>9
    <3>0. B = {x \in S : x < a[m]}
      BY <3>1
    <3>2. IsFiniteSet(B) /\ Cardinality(B) = n - i
      BY <1>4, <3>0, <3>1
    <3>3. C = S \ B
      BY <3>1, <1>6 DEF Precedes
    <3>4. B \cap S = B
      OBVIOUS
    <3> HIDE DEF B, C
    <3>5. Cardinality(S \ B) = Cardinality(S) - Cardinality(S \cap B)
      BY FS_Difference
    <3>6. S \cap B = B
      BY <3>4
    <3>7. Cardinality(C) = n - (n - i)
      BY <3>2, <3>3, <3>5, <3>6, <1>5
    <3>8. Cardinality(C) = i
      BY <1>1, <3>7
    <3> QED BY <3>8 DEF C
  <2>5. /\ \A i, j \in 1 .. n : i < j => Precedes(order, ks[i], ks[j])
        /\ \A i \in 1 .. n : Cardinality({k \in S : ~Precedes(order, ks[i], k)}) = i
    BY <2>3, <2>4
  <2> QED BY <1>1, <2>2, <2>5 DEF n, ks
<1>7. CASE order # "DESC"
  <2>1. ks = a
    BY <1>3, <1>7
  <2>2. ks \in [1 .. n -> S]
    BY <1>1, <2>1
  <2>3. ASSUME NEW i \in 1 .. n, NEW j \in 1 .. n, i < j PROVE Precedes(order, ks[i], ks[j])
    BY <1>1, <1>7, <2>1, <2>3 DEF Precedes
  <2>4. ASSUME NEW i \in 1 .. n
        PROVE  Cardinality({k \in S : ~Precedes(order, ks[i], k)}) = i
    <3> DEFINE B == {x \in S : x < ks[i]}
               C == {k \in S : ~Precedes(order, ks[i], k)}
    <3>1. ks[i] \in Nat /\ ks[i] \in S /\ ks[i] = a[i]
      BY <1>1, <2>1
    <3>0. B = {x \in S : x < a[i]}
      BY <3>1
    <3>2. IsFiniteSet(B) /\ Cardinality(B) = i - 1
      BY <1>4, <3>0
    <3>3. C = B \cup {ks[i]} /\ ks[i] \notin B
      <4>1. \A k \in S : ~Precedes(order, ks[i], k) <=> k < ks[i] \/ k = ks[i]
        BY <3>1, <1>7 DEF Precedes
      <4>2. ~(ks[i] < ks[i])
        BY <3>1
      <4> QED BY <3>1, <4>1, <4>2, Zenon
    <3> HIDE DEF B, C
    <3>4. Cardinality(C) = (i - 1) + 1
      BY <3>2, <3>3, FS_AddElement
    <3>5. Cardinality(C) = i
      BY <3>4
    <3> QED BY <3>5 DEF C
  <2>5. /\ \A i, j \in 1 .. n : i < j => Precedes(order, ks[i], ks[j])
        /\ \A i \in 1 .. n : Cardinality({k \in S : ~Precedes(order, ks[i], k)}) = i
    BY <2>3, <2>4
  <2> QED BY <1>1, <2>2, <2>5 DEF n, ks
<1> QED BY <1>6, <1>7

(***************************************************************************)
(* Types                                                                   *)
(***************************************************************************)
Tables   == [Keys -> Writer]
Ddl      == [kind : {"create", "rename", "drop", "alter", "other"}, table : TableNames,
             name : TableNames, file : Files, under : Files, stage : {"running", "reloading"}]
Applying == [ops : Seq(EditOp), file : Files, table : TableNames]
Crumb    == [table : TableNames, filter : Keys \cup {NoFilter}]

DbType ==
  /\ DOMAIN db = Files
  /\ \A f \in Files : \A t \in DOMAIN db[f] : t \in TableNames /\ db[f][t] \in Tables
FileType ==
  /\ workspace \in Files \cup {NoFile}
  /\ schema.file \in Files \cup {NoFile} /\ schema.tables \subseteq TableNames
  /\ opening \subseteq Files
  /\ workspace # NoFile => schema.file \in Files
ViewType ==
  /\ selectedTable \in TableNames \cup {NoTable}
  /\ browseSort \in Order /\ browseFilter \in Keys \cup {NoFilter}
  /\ browseNavStack \in Seq(Crumb)
GridType ==
  /\ tableRows \in Seq(Row) /\ tableRowTotal \in Nat /\ loadOffset \in Nat
  /\ isLoadingTable \in BOOLEAN /\ loads \subseteq Load
HistoryType == era \in Nat /\ astray \in BOOLEAN
DdlType ==
  /\ modal \in TableNames \cup {NoTable}
  /\ ddl = NoDdl \/ ddl \in Ddl
  /\ ddl # NoDdl => ddl.kind = "create" \/ modal # NoTable
EditType ==
  /\ editingCell \in Nat \cup {NoCell}
  /\ pendingEdits \in Seq(EditOp)
  /\ applying = NoApply \/ applying \in Applying
  /\ inserted \in Seq(Nat) /\ lost \in Nat

\* Whatever is done to a table has an open file.
OpenInv ==
  selectedTable # NoTable \/ modal # NoTable \/ ddl # NoDdl \/ applying # NoApply
    => schema.file \in Files

StateInv ==
  /\ DbType /\ FileType /\ ViewType /\ GridType /\ HistoryType /\ DdlType /\ EditType
  /\ OpenInv

\* The rows of a query, in its order; those that do not come behind the i-th are i.
Wanted(v) == {k \in Present(db[v.file][v.table]) : v.filter \in {k, NoFilter}}

LEMMA WantedKeys ==
  ASSUME NEW v
  PROVE  Wanted(v) \in SUBSET Keys /\ Wanted(v) \in SUBSET Nat /\ IsFiniteSet(Wanted(v))
<1>1. Wanted(v) \in SUBSET Keys /\ Wanted(v) \in SUBSET Nat
  BY SqliteAssumption DEF Wanted, Present
<1> QED BY <1>1, FS_Subset, SqliteAssumption

LEMMA RowsOfAre ==
  ASSUME DbType, NEW v \in View, HasTable(v.file, v.table)
  PROVE  /\ RowsOf(v) \in Seq(Row)
         /\ \A i \in DOMAIN RowsOf(v) :
              /\ RowsOf(v)[i].file = v.file /\ RowsOf(v)[i].table = v.table
              /\ v.filter \in {RowsOf(v)[i].key, NoFilter}
              /\ Cardinality({k \in Wanted(v) : ~Precedes(v.sort, RowsOf(v)[i].key, k)}) = i
         /\ \A i, j \in DOMAIN RowsOf(v) :
              i < j => Precedes(v.sort, RowsOf(v)[i].key, RowsOf(v)[j].key)
<1> DEFINE W == Wanted(v)
           n == Cardinality(W)
           ks == SortedKeys(W, v.sort)
           rows == db[v.file][v.table]
<1>1. W \in SUBSET Nat /\ IsFiniteSet(W) /\ W \in SUBSET Keys
  BY WantedKeys
<1>2. /\ n \in Nat /\ ks \in [1 .. n -> W]
      /\ \A i, j \in 1 .. n : i < j => Precedes(v.sort, ks[i], ks[j])
      /\ \A i \in 1 .. n : Cardinality({k \in W : ~Precedes(v.sort, ks[i], k)}) = i
  BY <1>1, SortedKeysAre
<1>3. RowsOf(v) = [i \in 1 .. Len(ks) |->
                     [file |-> v.file, table |-> v.table, key |-> ks[i], by |-> rows[ks[i]]]]
  BY DEF RowsOf, Wanted
<1>4. \A k \in W : v.filter \in {k, NoFilter}
  BY DEF Wanted
<1>5. v.file \in Files /\ v.table \in TableNames /\ rows \in [Keys -> Writer]
  BY DEF View, DbType, HasTable, Tables
<1> HIDE DEF W, n, ks, rows
<1>6. Len(ks) = n
  BY <1>2
<1>7. RowsOf(v) = [i \in 1 .. n |->
                     [file |-> v.file, table |-> v.table, key |-> ks[i], by |-> rows[ks[i]]]]
  BY <1>3, <1>6
<1>8. \A i \in 1 .. n : ks[i] \in W /\ ks[i] \in Keys /\ rows[ks[i]] \in Writer
  BY <1>1, <1>2, <1>5
<1>9. RowsOf(v) \in [1 .. n -> Row]
  <2>1. \A i \in 1 .. n :
          [file |-> v.file, table |-> v.table, key |-> ks[i], by |-> rows[ks[i]]] \in Row
    BY <1>5, <1>8 DEF Row
  <2> QED BY <1>7, <2>1
<1>10. RowsOf(v) \in Seq(Row) /\ DOMAIN RowsOf(v) = 1 .. n
  BY <1>2, <1>9, IsASeq
<1>11. \A i \in 1 .. n : RowsOf(v)[i].file = v.file /\ RowsOf(v)[i].table = v.table
                         /\ RowsOf(v)[i].key = ks[i]
  BY <1>7
<1>12. ASSUME NEW i \in 1 .. n
       PROVE  /\ v.filter \in {RowsOf(v)[i].key, NoFilter}
              /\ Cardinality({k \in W : ~Precedes(v.sort, RowsOf(v)[i].key, k)}) = i
  BY <1>2, <1>4, <1>8, <1>11
<1>13. ASSUME NEW i \in 1 .. n, NEW j \in 1 .. n, i < j
       PROVE  Precedes(v.sort, RowsOf(v)[i].key, RowsOf(v)[j].key)
  <2>1. Precedes(v.sort, ks[i], ks[j])
    BY <1>2, <1>13
  <2> QED BY <1>11, <2>1
<1> QED BY <1>10, <1>11, <1>12, <1>13 DEF W

\* A page is what the query has behind the offset.
LEMMA PageIs ==
  ASSUME DbType, NEW v \in View, HasTable(v.file, v.table), NEW offset \in Nat
  PROVE  /\ Page(v, offset) \in Seq(Row)
         /\ \A i \in DOMAIN Page(v, offset) :
              offset + i \in DOMAIN RowsOf(v) /\ Page(v, offset)[i] = RowsOf(v)[offset + i]
<1> DEFINE all == RowsOf(v)
           to == IF offset + PageSize < Len(all) THEN offset + PageSize ELSE Len(all)
<1>1. all \in Seq(Row) /\ PageSize \in Nat
  BY RowsOfAre, SqliteAssumption
<1>2. Page(v, offset) = SubSeq(all, offset + 1, to)
  BY DEF Page
<1> HIDE DEF all
<1>3. Len(all) \in Nat /\ DOMAIN all = 1 .. Len(all) /\ to \in Nat /\ to <= Len(all)
  BY <1>1
<1> HIDE DEF to
<1>4. \A i \in offset + 1 .. to : all[i] \in Row
  BY <1>1, <1>3
<1>5. /\ SubSeq(all, offset + 1, to) \in Seq(Row)
      /\ \A i \in DOMAIN SubSeq(all, offset + 1, to) :
           i \in Nat /\ i >= 1 /\ offset + i <= to /\ SubSeq(all, offset + 1, to)[i] = all[offset + i]
  <2>1. CASE offset + 1 <= to
    <3>1. /\ SubSeq(all, offset + 1, to) \in Seq(Row)
          /\ Len(SubSeq(all, offset + 1, to)) = to - offset
          /\ \A i \in 1 .. to - offset : SubSeq(all, offset + 1, to)[i] = all[offset + i]
      <4>1. offset + 1 \in Int /\ to \in Int
        BY <1>3
      <4>2. /\ SubSeq(all, offset + 1, to) \in Seq(Row)
            /\ Len(SubSeq(all, offset + 1, to)) =
                 IF offset + 1 <= to THEN to - (offset + 1) + 1 ELSE 0
            /\ \A i \in 1 .. to - (offset + 1) + 1 :
                 SubSeq(all, offset + 1, to)[i] = all[offset + 1 + i - 1]
        BY <1>4, <4>1, SubSeqProperties
      <4>3. to - (offset + 1) + 1 = to - offset
        BY <1>3
      <4>4. \A i \in 1 .. to - offset : offset + 1 + i - 1 = offset + i
        BY <1>3
      <4> QED BY <2>1, <4>2, <4>3, <4>4
    <3> QED BY <1>3, <3>1
  <2>2. CASE ~(offset + 1 <= to)
    <3>1. SubSeq(all, offset + 1, to) = <<>>
      <4>1. offset + 1 \in Int /\ to \in Int /\ to < offset + 1
        BY <1>3, <2>2
      <4> QED BY <4>1, SubSeqEmpty
    <3>2. PICK page : page = SubSeq(all, offset + 1, to)
      OBVIOUS
    <3>5. page = <<>>
      BY <3>1, <3>2, Zenon
    <3>3. DOMAIN page = {} /\ page \in Seq(Row)
      BY <3>5
    <3>4. /\ page \in Seq(Row)
          /\ \A i \in DOMAIN page :
               i \in Nat /\ i >= 1 /\ offset + i <= to /\ page[i] = all[offset + i]
      BY <3>3
    <3> QED BY <3>2, <3>4, Zenon
  <2> QED BY <2>1, <2>2
<1>6. \A i \in DOMAIN Page(v, offset) :
        offset + i \in DOMAIN all /\ Page(v, offset)[i] = all[offset + i]
  BY <1>2, <1>3, <1>5
<1> QED BY <1>2, <1>5, <1>6 DEF all

(***************************************************************************)
(* Edits                                                                   *)
(***************************************************************************)
LEMMA AnEdit ==
  ASSUME NEW op \in EditOp
  PROVE  /\ op.kind \in {"update", "delete", "insert"}
         /\ op.kind # "insert" => op.key \in Keys
         /\ op.kind = "insert" => op.nth \in Nat
  BY DEF EditOp

\* Edits of `old`, each of its places taken once.
Picked(new, old) ==
  \E f \in [DOMAIN new -> DOMAIN old] :
    /\ \A i, j \in DOMAIN new : i # j => f[i] # f[j]
    /\ \A i \in DOMAIN new : new[i] = old[f[i]]

LEMMA KeptIsPicked ==
  ASSUME NEW ops \in Seq(EditOp), NEW places \in SUBSET DOMAIN ops
  PROVE  /\ Kept(ops, places) \in Seq(EditOp)
         /\ Picked(Kept(ops, places), ops)
         /\ \A i \in DOMAIN Kept(ops, places) : \E j \in places : Kept(ops, places)[i] = ops[j]
<1> DEFINE n == Cardinality(places)
           a == Ascending(places)
           new == Kept(ops, places)
<1>1. places \in SUBSET Nat /\ IsFiniteSet(places)
  <2>1. places \in SUBSET (1 .. Len(ops)) /\ Len(ops) \in Nat
    OBVIOUS
  <2>2. IsFiniteSet(1 .. Len(ops))
    BY <2>1, FS_Interval
  <2>3. IsFiniteSet(places)
    BY <2>1, <2>2, FS_Subset
  <2> QED BY <2>1, <2>3
<1>2. /\ n \in Nat /\ a \in [1 .. n -> places]
      /\ \A i, j \in 1 .. n : i < j => a[i] < a[j]
  BY <1>1, AscendingIs
<1>3. new = [i \in 1 .. n |-> ops[a[i]]]
  BY DEF Kept
<1> HIDE DEF n, a, new
<1>4. \A i \in 1 .. n : a[i] \in places /\ a[i] \in DOMAIN ops /\ a[i] \in Nat /\ ops[a[i]] \in EditOp
  BY <1>1, <1>2
<1>5. new \in Seq(EditOp) /\ DOMAIN new = 1 .. n
  <2>1. new \in [1 .. n -> EditOp]
    BY <1>3, <1>4
  <2> QED BY <1>2, <2>1, IsASeq
<1>6. a \in [DOMAIN new -> DOMAIN ops]
  BY <1>2, <1>5
<1>7. ASSUME NEW i \in DOMAIN new, NEW j \in DOMAIN new, i # j PROVE a[i] # a[j]
  <2>1. i \in Nat /\ j \in Nat /\ i \in 1 .. n /\ j \in 1 .. n /\ a[i] \in Nat /\ a[j] \in Nat
    BY <1>2, <1>4, <1>5
  <2>2. i < j \/ j < i
    BY <2>1, <1>7
  <2>3. a[i] < a[j] \/ a[j] < a[i]
    BY <1>2, <2>1, <2>2
  <2> QED BY <2>1, <2>3
<1>8. \A i \in DOMAIN new : new[i] = ops[a[i]] /\ a[i] \in places
  BY <1>3, <1>4, <1>5
<1>9. Picked(new, ops)
  BY <1>6, <1>7, <1>8 DEF Picked
<1> QED BY <1>5, <1>8, <1>9 DEF new

LEMMA RemovedIsPicked ==
  ASSUME NEW ops \in Seq(EditOp), NEW i \in DOMAIN ops
  PROVE  RemoveAt(ops, i) \in Seq(EditOp) /\ Picked(RemoveAt(ops, i), ops)
<1>1. i \in 1 .. Len(ops) /\ Len(ops) \in Nat
  OBVIOUS
<1> DEFINE a == SubSeq(ops, 1, i - 1)
           b == SubSeq(ops, i + 1, Len(ops))
           new == RemoveAt(ops, i)
<1>2. /\ a \in Seq(EditOp) /\ Len(a) = i - 1
      /\ \A j \in 1 .. i - 1 : a[j] = ops[j]
  <2>1. 1 \in Int /\ i - 1 \in Int /\ \A j \in 1 .. i - 1 : ops[j] \in EditOp
    BY <1>1
  <2>2. /\ a \in Seq(EditOp) /\ Len(a) = IF 1 <= i - 1 THEN i - 1 - 1 + 1 ELSE 0
        /\ \A j \in 1 .. i - 1 - 1 + 1 : a[j] = ops[1 + j - 1]
    BY <2>1, SubSeqProperties
  <2> HIDE DEF a
  <2>3. i - 1 - 1 + 1 = i - 1 /\ (~(1 <= i - 1) => i - 1 = 0)
    BY <1>1
  <2>4. \A j \in 1 .. i - 1 : 1 + j - 1 = j
    BY <1>1
  <2> QED BY <2>2, <2>3, <2>4
<1>3. /\ b \in Seq(EditOp) /\ Len(b) = Len(ops) - i
      /\ \A j \in 1 .. Len(ops) - i : b[j] = ops[i + j]
  <2>1. i + 1 \in Int /\ Len(ops) \in Int /\ \A j \in i + 1 .. Len(ops) : ops[j] \in EditOp
    BY <1>1
  <2>2. /\ b \in Seq(EditOp)
        /\ Len(b) = IF i + 1 <= Len(ops) THEN Len(ops) - (i + 1) + 1 ELSE 0
        /\ \A j \in 1 .. Len(ops) - (i + 1) + 1 : b[j] = ops[i + 1 + j - 1]
    BY <2>1, SubSeqProperties
  <2> HIDE DEF b
  <2>3. /\ Len(ops) - (i + 1) + 1 = Len(ops) - i
        /\ ~(i + 1 <= Len(ops)) => Len(ops) - i = 0
    BY <1>1
  <2>4. \A j \in 1 .. Len(ops) - i : i + 1 + j - 1 = i + j
    BY <1>1
  <2> QED BY <2>2, <2>3, <2>4
<1>4. new = a \o b
  BY DEF RemoveAt
<1> HIDE DEF a, b, new
<1>5. /\ new \in Seq(EditOp) /\ Len(new) = Len(ops) - 1
      /\ \A j \in 1 .. Len(ops) - 1 : new[j] = IF j <= i - 1 THEN a[j] ELSE b[j - (i - 1)]
  <2>1. /\ new \in Seq(EditOp) /\ Len(new) = Len(a) + Len(b)
        /\ \A j \in 1 .. Len(a) + Len(b) : new[j] = IF j <= Len(a) THEN a[j] ELSE b[j - Len(a)]
    BY <1>2, <1>3, <1>4, ConcatProperties
  <2>2. Len(a) + Len(b) = Len(ops) - 1
    BY <1>1, <1>2, <1>3
  <2> QED BY <1>2, <2>1, <2>2
<1> DEFINE f == [j \in DOMAIN new |-> IF j < i THEN j ELSE j + 1]
<1>6. DOMAIN new = 1 .. Len(ops) - 1 /\ DOMAIN ops = 1 .. Len(ops)
  BY <1>5
<1>7. f \in [DOMAIN new -> DOMAIN ops]
  BY <1>1, <1>6
<1>8. \A j, k \in DOMAIN new : j # k => f[j] # f[k]
  BY <1>1, <1>6
<1>9. ASSUME NEW j \in DOMAIN new PROVE new[j] = ops[f[j]]
  <2>1. j \in 1 .. Len(ops) - 1
    BY <1>6
  <2>2. CASE j < i
    <3>1. j \in 1 .. i - 1 /\ j <= i - 1 /\ f[j] = j
      BY <1>1, <2>1, <2>2
    <3> HIDE DEF f
    <3> QED BY <1>2, <1>5, <2>1, <3>1
  <2>3. CASE ~(j < i)
    <3>1. /\ j - (i - 1) \in 1 .. Len(ops) - i /\ ~(j <= i - 1) /\ f[j] = j + 1
          /\ i + (j - (i - 1)) = j + 1
      BY <1>1, <2>1, <2>3
    <3> HIDE DEF f
    <3> QED BY <1>3, <1>5, <2>1, <3>1
  <2> QED BY <2>2, <2>3
<1> HIDE DEF f
<1>10. Picked(new, ops)
  BY <1>7, <1>8, <1>9 DEF Picked
<1> QED BY <1>5, <1>10 DEF new

\* What one statement leaves of a table.
LEMMA CarriedIs ==
  ASSUME NEW rows \in Tables, NEW op \in EditOp, Hits(rows, op)
  PROVE  /\ Carried(rows, op) \in Tables
         /\ op.kind # "insert" => Present(Carried(rows, op)) \subseteq Present(rows)
<1>1. op.kind \in {"update", "delete", "insert"} /\ (op.kind # "insert" => op.key \in Keys)
  BY AnEdit
<1>2. {"nobody", "mine"} \subseteq Writer /\ "mine" # "nobody"
  BY DEF Writer
<1>3. CASE op.kind = "update"
  <2>1. Carried(rows, op) = [rows EXCEPT ![op.key] = "mine"]
    BY <1>3 DEF Carried
  <2>2. op.key \in Present(rows)
    BY <1>3 DEF Hits
  <2> QED BY <1>1, <1>2, <1>3, <2>1, <2>2 DEF Tables, Present
<1>4. CASE op.kind = "delete"
  <2>1. Carried(rows, op) = [rows EXCEPT ![op.key] = "nobody"]
    BY <1>4 DEF Carried
  <2> QED BY <1>1, <1>2, <1>4, <2>1 DEF Tables, Present
<1>5. CASE op.kind = "insert"
  <2>1. NextKey(rows) # {} /\ NextKey(rows) \in SUBSET Nat /\ NextKey(rows) \in SUBSET Keys
    BY <1>5, SqliteAssumption DEF Hits, NextKey
  <2>2. PICK k : k = CHOOSE j \in NextKey(rows) : \A x \in NextKey(rows) : j <= x
    OBVIOUS
  <2>3. \E j \in NextKey(rows) : \A x \in NextKey(rows) : j <= x
    BY <2>1, LeastNat
  <2>4. k \in Keys
    BY <2>1, <2>2, <2>3
  <2>5. Carried(rows, op) = [rows EXCEPT ![k] = "mine"]
    BY <1>5, <2>2 DEF Carried
  <2> QED BY <1>2, <1>5, <2>4, <2>5 DEF Tables
<1> QED BY <1>1, <1>3, <1>4, <1>5

\* What a batch that is carried out leaves of a table; only inserts add rows.
LEMMA BatchIs ==
  ASSUME NEW rows \in Tables, NEW ops \in Seq(EditOp), Batch(rows, ops) # <<>>
  PROVE  /\ Batch(rows, ops) \in Tables
         /\ (\A i \in DOMAIN ops : ops[i].kind # "insert")
              => Present(Batch(rows, ops)) \subseteq Present(rows)
<1> DEFINE len == Len(ops)
           States == Tables \cup {<<>>}
           one == [i \in 1 .. len |-> [r \in States |-> IF r # <<>> /\ Hits(r, ops[i])
                                                   THEN Carried(r, ops[i]) ELSE <<>>]]
           Def(f) == f = [i \in 0 .. len |->
             IF i = 0 THEN rows
             ELSE IF f[i - 1] # <<>> /\ Hits(f[i - 1], ops[i])
                  THEN Carried(f[i - 1], ops[i]) ELSE <<>>]
           after == CHOOSE f : Def(f)
           OnlyShrinks(r) == (\A i \in DOMAIN ops : ops[i].kind # "insert")
                               => Present(r) \subseteq Present(rows)
           P == {i \in 0 .. len : after[i] \in States /\ (after[i] # <<>> => OnlyShrinks(after[i]))}
<1>1. len \in Nat /\ \A i \in 1 .. len : ops[i] \in EditOp /\ i \in DOMAIN ops
  OBVIOUS
<1>2. Batch(rows, ops) = after[len]
  BY DEF Batch
<1>3. ASSUME NEW r \in States, NEW i \in 1 .. len, r # <<>>, Hits(r, ops[i])
      PROVE  /\ Carried(r, ops[i]) \in Tables
             /\ ops[i].kind # "insert" => Present(Carried(r, ops[i])) \subseteq Present(r)
  BY <1>1, <1>3, CarriedIs
<1>4. \A i \in 1 .. len : \A r \in States : one[i][r] \in States
  <2>1. \A i \in 1 .. len : \A r \in States :
          (IF r # <<>> /\ Hits(r, ops[i]) THEN Carried(r, ops[i]) ELSE <<>>) \in States
    BY <1>3
  <2> QED BY <2>1
<1> HIDE DEF len
<1>5. PICK f \in [0 .. len -> States] : f[0] = rows /\ \A i \in 1 .. len : f[i] = one[i][f[i - 1]]
  <2>1. rows \in States
    OBVIOUS
  <2>2. len \in Nat
    BY <1>1
  <2> HIDE DEF States, one, Def, after, OnlyShrinks, P
  <2>3. HasRecursion(len, States, rows, one)
    BY <1>4, <2>1, <2>2, RecursionOnInterval
  <2> QED BY <2>3 DEF HasRecursion
<1>6. Def(f)
  <2>0. \A i \in 1 .. len : i - 1 \in 0 .. len
    BY <1>1
  <2>1. \A i \in 1 .. len : i - 1 \in 0 .. len /\ f[i - 1] \in States
    <3> HIDE DEF States, one
    <3> QED BY <1>5, <2>0
  <2>2. \A i \in 1 .. len : one[i][f[i - 1]] = IF f[i - 1] # <<>> /\ Hits(f[i - 1], ops[i])
                                              THEN Carried(f[i - 1], ops[i]) ELSE <<>>
    BY <2>1
  <2>3. \A i \in 0 .. len : i # 0 => i \in 1 .. len
    BY <1>1
  <2> HIDE DEF one, States
  <2>4. \A i \in 0 .. len : f[i] = IF i = 0 THEN rows
                                 ELSE IF f[i - 1] # <<>> /\ Hits(f[i - 1], ops[i])
                                      THEN Carried(f[i - 1], ops[i]) ELSE <<>>
    BY <1>5, <2>2, <2>3
  <2> QED BY <1>5, <2>4
<1> HIDE DEF one
<1>7. Def(after)
  BY <1>6
<1> HIDE DEF after
<1>8. 0 \in P
  BY <1>1, <1>7
<1>9. ASSUME NEW i \in 0 .. len - 1, i \in P PROVE i + 1 \in P
  <2>1. i + 1 \in 1 .. len /\ i + 1 \in 0 .. len /\ i + 1 # 0 /\ i + 1 - 1 = i
    BY <1>1
  <2>6. \A j \in 0 .. len : j # 0 => after[j] = IF after[j - 1] # <<>> /\ Hits(after[j - 1], ops[j])
                                              THEN Carried(after[j - 1], ops[j]) ELSE <<>>
    BY <1>7
  <2> HIDE DEF Def, States, OnlyShrinks, P
  <2>2. after[i + 1] = IF after[i] # <<>> /\ Hits(after[i], ops[i + 1])
                       THEN Carried(after[i], ops[i + 1]) ELSE <<>>
    BY <2>1, <2>6
  <2> USE DEF States, OnlyShrinks, P
  <2>3. after[i] \in States /\ (after[i] # <<>> => OnlyShrinks(after[i]))
    BY <1>9
  <2>4. CASE after[i] # <<>> /\ Hits(after[i], ops[i + 1])
    <3>1. after[i + 1] = Carried(after[i], ops[i + 1])
      BY <2>2, <2>4
    <3>2. /\ after[i + 1] \in Tables
          /\ ops[i + 1].kind # "insert" => Present(after[i + 1]) \subseteq Present(after[i])
      BY <1>3, <2>1, <2>3, <2>4, <3>1
    <3>3. i + 1 \in DOMAIN ops
      BY <1>1, <2>1
    <3>4. OnlyShrinks(after[i + 1])
      BY <2>3, <2>4, <3>2, <3>3
    <3> QED BY <2>1, <3>2, <3>4
  <2>5. CASE ~(after[i] # <<>> /\ Hits(after[i], ops[i + 1]))
    BY <2>1, <2>2, <2>5
  <2> QED BY <2>4, <2>5
<1> HIDE DEF P
<1>10. len \in P
  <2>1. \A i \in 0 .. len - 1 : i \in P => i + 1 \in P
    BY <1>9
  <2>2. 0 .. len \subseteq P
    BY <1>1, <1>8, <2>1, IntervalInduction
  <2> QED BY <1>1, <2>2
<1> QED BY <1>2, <1>10 DEF P

(***************************************************************************)
(* StateInv is kept                                                        *)
(***************************************************************************)
LEMMA InitState == ASSUME Init PROVE StateInv
<1>1. DbType
  BY SqliteAssumption DEF Init, DbType, Tables, Writer
<1>2. FileType
  BY SqliteAssumption DEF Init, FileType
<1>3. ViewType
  <2>1. <<>> \in Seq(Crumb)
    OBVIOUS
  <2> QED BY <2>1 DEF Init, ViewType, Order
<1>4. HistoryType /\ DdlType /\ OpenInv
  BY DEF Init, HistoryType, DdlType, OpenInv
<1>5. GridType
  <2>1. <<>> \in Seq(Row)
    OBVIOUS
  <2> QED BY <2>1 DEF Init, GridType
<1>6. EditType
  <2>1. <<>> \in Seq(EditOp) /\ <<>> \in Seq(Nat)
    OBVIOUS
  <2> QED BY <2>1 DEF Init, EditType
<1> QED BY <1>1, <1>2, <1>3, <1>4, <1>5, <1>6 DEF StateInv

LEMMA StateFrame ==
  ASSUME StateInv, UNCHANGED <<db, fileVars, viewVars, gridVars, editVars, modal, ddl, era, astray>>
  PROVE  StateInv'
  BY DEF StateInv, DbType, FileType, ViewType, GridType, HistoryType, DdlType, EditType, OpenInv,
         HasTable, fileVars, viewVars, gridVars, editVars

\* A load is added in a free slot.
AddsLoad(kind, v, offset, n) ==
  \E l \in Load : /\ loads' = loads \cup {l}
                  /\ l.kind = kind /\ l.view = v /\ l.offset = offset /\ l.era = n

LEMMA RequestAdds ==
  ASSUME GridType, NEW kind \in {"first", "more"}, NEW v \in View, NEW offset \in Nat,
         NEW n \in Nat, Request(kind, v, offset, n)
  PROVE  isLoadingTable' = TRUE /\ AddsLoad(kind, v, offset, n)
<1>1. FreeSlots \in SUBSET Nat /\ FreeSlots # {} /\ FreeSlots \in SUBSET (1 .. MaxLoads)
  BY SqliteAssumption DEF FreeSlots, Request
<1>2. \E s \in FreeSlots : \A x \in FreeSlots : s <= x
  BY <1>1, LeastNat
<1>3. PICK s : s = FreeSlot
  OBVIOUS
<1>4. s \in 1 .. MaxLoads
  BY <1>1, <1>2, <1>3 DEF FreeSlot
<1> DEFINE l == [slot |-> s, kind |-> kind, view |-> v, offset |-> offset, era |-> n]
<1>5. l \in Load
  BY <1>4 DEF Load
<1>6. loads' = loads \cup {l} /\ isLoadingTable' = TRUE
  BY <1>3 DEF Request
<1> QED BY <1>5, <1>6 DEF AddsLoad

\* An empty grid on a view of an open file.
LEMMA RestartShows ==
  ASSUME GridType, HistoryType, NEW t \in TableNames, NEW sort \in Order,
         NEW filter \in Keys \cup {NoFilter}, schema'.file \in Files, Restart(t, sort, filter)
  PROVE  /\ browseSort' = sort /\ tableRows' = <<>> /\ loadOffset' = 0
         /\ era' = era + 1 /\ ~astray' /\ isLoadingTable'
         /\ AddsLoad("first", [file |-> schema'.file, table |-> t, sort |-> sort,
                               filter |-> filter], 0, era + 1)
         /\ loads' \subseteq Load /\ HistoryType'
<1> DEFINE v == [file |-> schema'.file, table |-> t, sort |-> sort, filter |-> filter]
<1>1. v \in View
  BY DEF View
<1>2. era + 1 \in Nat /\ era \in Nat
  BY DEF HistoryType
<1>3. Request("first", v, 0, era + 1)
  BY DEF Restart
<1> HIDE DEF v
<1>4. isLoadingTable' = TRUE /\ AddsLoad("first", v, 0, era + 1)
  <2>1. "first" \in {"first", "more"} /\ 0 \in Nat
    OBVIOUS
  <2> QED BY <1>1, <1>2, <1>3, <2>1, RequestAdds
<1>5. browseSort' = sort /\ tableRows' = <<>> /\ loadOffset' = 0 /\ era' = era + 1 /\ ~astray'
      /\ astray' = FALSE
  BY DEF Restart
<1>6. loads' \subseteq Load
  BY <1>4 DEF GridType, AddsLoad
<1>7. HistoryType'
  BY <1>2, <1>5 DEF HistoryType
<1> QED BY <1>4, <1>5, <1>6, <1>7 DEF v

LEMMA ShowViewKeepsTypes ==
  ASSUME GridType, HistoryType, NEW t \in TableNames, NEW filter \in Keys \cup {NoFilter},
         NEW stack \in Seq(Crumb), schema'.file \in Files, ShowView(t, filter, stack)
  PROVE  ViewType' /\ GridType' /\ HistoryType'
<1>1. "unsorted" \in Order /\ Restart(t, "unsorted", filter)
  BY DEF Order, ShowView
<1>2. /\ browseSort' = "unsorted" /\ tableRows' = <<>> /\ loadOffset' = 0
      /\ isLoadingTable' \in BOOLEAN /\ loads' \subseteq Load /\ HistoryType'
  BY <1>1, RestartShows DEF Restart, Request
<1>3. selectedTable' = t /\ browseFilter' = filter /\ browseNavStack' = stack
      /\ tableRowTotal' = 0
  BY DEF ShowView
<1>4. ViewType'
  BY <1>1, <1>2, <1>3 DEF ViewType
<1>5. GridType'
  BY <1>2, <1>3 DEF GridType
<1> QED BY <1>2, <1>4, <1>5

LEMMA SelectTableKeepsState ==
  ASSUME StateInv, NEW t \in TableNames, SelectTable(t) PROVE StateInv'
<1>1. schema'.file \in Files /\ UNCHANGED fileVars /\ schema.file \in Files
  BY DEF SelectTable, PageTakesInput, fileVars, StateInv, FileType
<1>2. NoFilter \in Keys \cup {NoFilter} /\ <<>> \in Seq(Crumb) /\ ShowView(t, NoFilter, <<>>)
  BY DEF SelectTable
<1>3. ViewType' /\ GridType' /\ HistoryType'
  BY <1>1, <1>2, ShowViewKeepsTypes DEF StateInv
<1>4. UNCHANGED <<db, editVars, modal, ddl>>
  BY DEF SelectTable
<1>5. DbType' /\ FileType' /\ DdlType' /\ EditType' /\ OpenInv'
  BY <1>1, <1>4 DEF StateInv, DbType, FileType, DdlType, EditType, OpenInv, fileVars, editVars
<1> QED BY <1>3, <1>5 DEF StateInv

LEMMA NavigateToReferenceKeepsState ==
  ASSUME StateInv, NEW t \in TableNames, NEW k \in Keys, NavigateToReference(t, k) PROVE StateInv'
<1> DEFINE stack == Append(browseNavStack, [table |-> selectedTable, filter |-> browseFilter])
<1>1. schema'.file \in Files /\ UNCHANGED fileVars /\ schema.file \in Files
  BY DEF NavigateToReference, InBrowseTab, PageTakesInput, fileVars, StateInv, FileType
<1>2. k \in Keys \cup {NoFilter} /\ stack \in Seq(Crumb)
  BY DEF NavigateToReference, InBrowseTab, StateInv, ViewType, Crumb
<1>3. ShowView(t, k, stack)
  BY DEF NavigateToReference
<1> HIDE DEF stack
<1>4. ViewType' /\ GridType' /\ HistoryType'
  BY <1>1, <1>2, <1>3, ShowViewKeepsTypes DEF StateInv
<1>5. editingCell' = NoCell /\ UNCHANGED <<db, pendingEdits, applying, inserted, lost, modal, ddl>>
  BY DEF NavigateToReference, InBrowseTab
<1>6. DbType' /\ FileType' /\ DdlType' /\ EditType' /\ OpenInv'
  BY <1>1, <1>5 DEF StateInv, DbType, FileType, DdlType, EditType, OpenInv, fileVars
<1> QED BY <1>4, <1>6 DEF StateInv

LEMMA NavigateBackKeepsState ==
  ASSUME StateInv, NEW i \in DOMAIN browseNavStack, NavigateBack(i) PROVE StateInv'
<1> DEFINE stack == SubSeq(browseNavStack, 1, i - 1)
           crumb == browseNavStack[i]
<1>1. schema'.file \in Files /\ UNCHANGED fileVars /\ schema.file \in Files
  BY DEF NavigateBack, InBrowseTab, PageTakesInput, fileVars, StateInv, FileType
<1>2. browseNavStack \in Seq(Crumb) /\ i \in 1 .. Len(browseNavStack)
      /\ Len(browseNavStack) \in Nat
  BY DEF StateInv, ViewType
<1>3. crumb \in Crumb
  BY <1>2
<1>4. crumb.table \in TableNames /\ crumb.filter \in Keys \cup {NoFilter}
  BY <1>3 DEF Crumb
<1>5. stack \in Seq(Crumb)
  <2>1. 1 \in Int /\ i - 1 \in Int /\ \A j \in 1 .. i - 1 : browseNavStack[j] \in Crumb
    BY <1>2
  <2> QED BY <2>1, SubSeqProperties
<1>6. ShowView(crumb.table, crumb.filter, stack)
  BY DEF NavigateBack
<1> HIDE DEF stack, crumb
<1>7. ViewType' /\ GridType' /\ HistoryType'
  BY <1>1, <1>4, <1>5, <1>6, ShowViewKeepsTypes DEF StateInv
<1>8. editingCell' = NoCell /\ UNCHANGED <<db, pendingEdits, applying, inserted, lost, modal, ddl>>
  BY DEF NavigateBack, InBrowseTab
<1>9. DbType' /\ FileType' /\ DdlType' /\ EditType' /\ OpenInv'
  BY <1>1, <1>8 DEF StateInv, DbType, FileType, DdlType, EditType, OpenInv, fileVars
<1> QED BY <1>7, <1>9 DEF StateInv

\* A view whose table is selected is one of an open file.
LEMMA CurrentViewIs ==
  ASSUME StateInv, selectedTable # NoTable PROVE CurrentView \in View
  BY DEF StateInv, OpenInv, ViewType, CurrentView, View

LEMMA LoadMoreRowsKeepsState == ASSUME StateInv, LoadMoreRows PROVE StateInv'
<1>1. CurrentView \in View
  BY CurrentViewIs DEF LoadMoreRows, InBrowseTab
<1>2. loadOffset \in Nat /\ era \in Nat /\ GridType /\ Request("more", CurrentView, loadOffset, era)
  BY DEF StateInv, GridType, HistoryType, LoadMoreRows
<1>3. PICK l \in Load : loads' = loads \cup {l} /\ isLoadingTable' = TRUE
  BY <1>1, <1>2, RequestAdds DEF AddsLoad
<1>4. UNCHANGED <<tableRows, tableRowTotal, loadOffset>>
  BY DEF LoadMoreRows
<1>5. GridType'
  BY <1>2, <1>3, <1>4 DEF GridType
<1>6. editingCell' = NoCell
      /\ UNCHANGED <<db, fileVars, viewVars, pendingEdits, applying, inserted, lost, modal, ddl, era,
                     astray>>
  BY DEF LoadMoreRows, InBrowseTab
<1>7. DbType' /\ FileType' /\ ViewType' /\ HistoryType' /\ DdlType' /\ EditType' /\ OpenInv'
  BY <1>6 DEF StateInv, DbType, FileType, ViewType, HistoryType, DdlType, EditType, OpenInv,
              fileVars, viewVars
<1> QED BY <1>5, <1>7 DEF StateInv

LEMMA ToggleBrowseSortKeepsState == ASSUME StateInv, ToggleBrowseSort PROVE StateInv'
<1>1. schema'.file \in Files /\ UNCHANGED fileVars /\ selectedTable \in TableNames
      /\ NextOrder(browseSort) \in Order /\ browseFilter \in Keys \cup {NoFilter}
  BY DEF ToggleBrowseSort, InBrowseTab, StateInv, ViewType, OpenInv, fileVars, NextOrder, Order
<1>2. Restart(selectedTable, NextOrder(browseSort), browseFilter)
  BY DEF ToggleBrowseSort
<1>3. /\ browseSort' = NextOrder(browseSort) /\ tableRows' = <<>> /\ loadOffset' = 0
      /\ loads' \subseteq Load /\ HistoryType'
  BY <1>1, <1>2, RestartShows DEF StateInv
<1>4. isLoadingTable' = TRUE
  BY <1>2 DEF Restart, Request
<1>5. editingCell' = NoCell
      /\ UNCHANGED <<db, selectedTable, browseFilter, browseNavStack, tableRowTotal,
                     pendingEdits, applying, inserted, lost, modal, ddl>>
  BY DEF ToggleBrowseSort, InBrowseTab
<1>6. ViewType' /\ GridType'
  BY <1>1, <1>3, <1>4, <1>5 DEF StateInv, ViewType, GridType
<1>7. DbType' /\ FileType' /\ DdlType' /\ EditType' /\ OpenInv'
  BY <1>1, <1>5 DEF StateInv, DbType, FileType, DdlType, EditType, OpenInv, fileVars
<1> QED BY <1>3, <1>6, <1>7 DEF StateInv

LEMMA LoadArrivesKeepsState ==
  ASSUME StateInv, NEW l \in loads, NEW ok \in BOOLEAN, LoadArrives(l, ok) PROVE StateInv'
<1>1. l \in Load /\ l.view \in View /\ l.offset \in Nat
  BY DEF StateInv, GridType, Load
<1>2. loads' = loads \ {l} /\ isLoadingTable' = FALSE /\ astray' = (astray \/ l.era # era)
      /\ UNCHANGED <<db, fileVars, viewVars, editVars, modal, ddl, era>>
  BY DEF LoadArrives, EndsTheSpinner
<1>3. tableRows' \in Seq(Row) /\ tableRowTotal' \in Nat /\ loadOffset' \in Nat
  <2>1. CASE ~ok
    BY <2>1 DEF LoadArrives, StateInv, GridType
  <2>2. CASE ok
    <3>1. HasTable(l.view.file, l.view.table)
      BY <2>2 DEF LoadArrives
    <3>2. PICK page : page = Page(l.view, l.offset)
      OBVIOUS
    <3>3. PICK all : all = RowsOf(l.view)
      OBVIOUS
    <3>4. page \in Seq(Row) /\ all \in Seq(Row)
      BY <1>1, <3>1, <3>2, <3>3, PageIs, RowsOfAre DEF StateInv
    <3>5. IF l.kind = "first"
          THEN tableRows' = page /\ tableRowTotal' = Len(all) /\ loadOffset' = Len(page)
          ELSE /\ tableRows' = tableRows \o page /\ loadOffset' = loadOffset + Len(page)
               /\ UNCHANGED tableRowTotal
      BY <2>2, <3>2, <3>3 DEF LoadArrives
    <3>6. tableRows \in Seq(Row) /\ tableRowTotal \in Nat /\ loadOffset \in Nat
      BY DEF StateInv, GridType
    <3>7. Len(page) \in Nat /\ Len(all) \in Nat /\ tableRows \o page \in Seq(Row)
      BY <3>4, <3>6
    <3>8. loadOffset + Len(page) \in Nat
      BY <3>6, <3>7
    <3>9. CASE l.kind = "first"
      BY <3>4, <3>5, <3>7, <3>9
    <3>10. CASE l.kind # "first"
      BY <3>5, <3>6, <3>7, <3>8, <3>10
    <3> QED BY <3>9, <3>10
  <2> QED BY <2>1, <2>2
<1>4. GridType'
  BY <1>2, <1>3 DEF StateInv, GridType
<1>5. astray' \in BOOLEAN
  BY <1>2
<1>6. DbType' /\ FileType' /\ ViewType' /\ HistoryType' /\ DdlType' /\ EditType' /\ OpenInv'
  BY <1>2, <1>5 DEF StateInv, DbType, FileType, ViewType, HistoryType, DdlType, EditType, OpenInv,
                    fileVars, viewVars, editVars
<1> QED BY <1>4, <1>6 DEF StateInv

LEMMA OpenFileKeepsState == ASSUME StateInv, NEW f \in Files, OpenFile(f) PROVE StateInv'
<1>1. opening' = opening \cup {f}
      /\ UNCHANGED <<db, workspace, schema, viewVars, gridVars, editVars, modal, ddl, era, astray>>
  BY DEF OpenFile
<1>2. FileType'
  BY <1>1 DEF StateInv, FileType
<1> QED BY <1>1, <1>2
  DEF StateInv, DbType, ViewType, GridType, HistoryType, DdlType, EditType, OpenInv, viewVars, gridVars,
      editVars

LEMMA SchemaOfIs ==
  ASSUME DbType, NEW f \in Files
  PROVE  SchemaOf(f).file = f /\ SchemaOf(f).tables \subseteq TableNames
  BY DEF SchemaOf, DbType

LEMMA FileOpenedKeepsState ==
  ASSUME StateInv, NEW f \in opening, NEW ok \in BOOLEAN, FileOpened(f, ok) PROVE StateInv'
<1>1. f \in Files /\ SchemaOf(f).file = f /\ SchemaOf(f).tables \subseteq TableNames
  BY SchemaOfIs DEF StateInv, FileType
<1>2. UNCHANGED <<db, viewVars, gridVars, editVars, modal, ddl, era>> /\ opening' \subseteq opening
  BY DEF FileOpened
<1>3. \/ UNCHANGED <<workspace, schema, astray>>
      \/ workspace' = f /\ schema' = SchemaOf(f) /\ astray' \in BOOLEAN
  BY DEF FileOpened
<1>4. schema.file \in Files => schema'.file \in Files
  BY <1>1, <1>3
<1>5. FileType' /\ HistoryType'
  BY <1>1, <1>2, <1>3 DEF StateInv, FileType, HistoryType
<1> QED BY <1>2, <1>4, <1>5
  DEF StateInv, DbType, ViewType, GridType, DdlType, EditType, OpenInv, viewVars, gridVars, editVars

LEMMA ModalKeepsState ==
  ASSUME StateInv, NEW t \in TableNames, OpenTableSettings(t) \/ CloseTableSettings PROVE StateInv'
<1>1. UNCHANGED <<db, fileVars, viewVars, gridVars, editVars, ddl, era, astray>> /\ ddl = NoDdl
      /\ modal' \in TableNames \cup {NoTable}
      /\ (modal' # NoTable => schema.file \in Files)
  BY DEF OpenTableSettings, CloseTableSettings, MayClose, PageTakesInput, StateInv, FileType
<1>2. DdlType' /\ OpenInv'
  BY <1>1 DEF StateInv, DdlType, OpenInv, fileVars, viewVars, editVars
<1> QED BY <1>1, <1>2
  DEF StateInv, DbType, FileType, ViewType, GridType, HistoryType, EditType, fileVars, viewVars,
      gridVars, editVars

LEMMA BeginDdlKeepsState ==
  ASSUME StateInv, NEW kind \in {"create", "rename", "drop", "alter", "other"},
         NEW t \in TableNames, NEW name \in TableNames, BeginDdl(kind, t, name)
  PROVE  StateInv' /\ ddl'.stage = "running"
<1>1. UNCHANGED <<db, fileVars, viewVars, gridVars, editVars, modal, era, astray>>
  BY DEF BeginDdl
<1>2. schema.file \in Files /\ (kind = "create" \/ modal # NoTable)
  BY SqliteAssumption DEF BeginDdl, PageTakesInput, StateInv, FileType, OpenInv
<1>3. ddl' = [kind |-> kind, table |-> t, name |-> name, file |-> schema.file,
              under |-> schema.file, stage |-> "running"]
  BY DEF BeginDdl
<1>4. ddl' \in Ddl /\ ddl'.kind = kind /\ ddl'.stage = "running" /\ ddl'.file = schema.file
  BY <1>2, <1>3 DEF Ddl
<1>5. DdlType' /\ OpenInv'
  BY <1>1, <1>2, <1>4 DEF StateInv, DdlType, OpenInv, fileVars, viewVars, editVars
<1> QED BY <1>1, <1>4, <1>5
  DEF StateInv, DbType, FileType, ViewType, GridType, HistoryType, EditType, fileVars, viewVars,
      gridVars, editVars

\* What a schema change does to the tables of its file.
LEMMA AlteredIs ==
  ASSUME DbType, NEW d \in Ddl, DdlApplies(d)
  PROVE  /\ \A t \in DOMAIN Altered(db[d.file], d) :
              t \in TableNames /\ Altered(db[d.file], d)[t] \in Tables
         /\ d.kind = "rename" =>
              /\ d.table \notin DOMAIN Altered(db[d.file], d)
              /\ Altered(db[d.file], d)[d.name] = db[d.file][d.table]
         /\ \A t \in DOMAIN Altered(db[d.file], d) :
              \/ HasTable(d.file, t) /\ Altered(db[d.file], d)[t] = db[d.file][t]
              \/ d.kind = "rename" /\ t = d.name
              \/ d.kind = "create" /\ t = d.name /\ Present(Altered(db[d.file], d)[t]) = {}
<1> DEFINE old == db[d.file]
           new == Altered(old, d)
<1>1. d.file \in Files /\ d.table \in TableNames /\ d.name \in TableNames
  BY DEF Ddl
<1>2. \A t \in DOMAIN old : t \in TableNames /\ old[t] \in Tables
  BY <1>1 DEF DbType
<1>3. d.kind # "create" => d.table \in DOMAIN old
  BY DEF DdlApplies, HasTable
<1>4. d.kind \in {"create", "rename"} => d.name \notin DOMAIN old
  BY DEF DdlApplies, HasTable
<1> HIDE DEF old
<1>5. CASE d.kind = "rename"
  <2>1. new = [x \in (DOMAIN old \ {d.table}) \cup {d.name} |->
                 old[IF x = d.name THEN d.table ELSE x]]
    BY <1>5 DEF Altered
  <2>2. d.table # d.name /\ d.table \in DOMAIN old /\ d.name \notin DOMAIN old
    BY <1>3, <1>4, <1>5
  <2> HIDE DEF new
  <2>3. /\ d.table \notin DOMAIN new /\ new[d.name] = old[d.table]
        /\ \A t \in DOMAIN new : t # d.name => t \in DOMAIN old /\ new[t] = old[t]
    BY <2>1, <2>2
  <2> QED BY <1>1, <1>2, <1>5, <2>2, <2>3 DEF old, new, HasTable
<1>6. CASE d.kind = "drop"
  <2>1. new = [x \in DOMAIN old \ {d.table} |-> old[x]]
    BY <1>6 DEF Altered
  <2> HIDE DEF new
  <2>2. \A t \in DOMAIN new : t \in DOMAIN old /\ new[t] = old[t]
    BY <2>1
  <2> QED BY <1>2, <1>6, <2>2 DEF old, new, HasTable
<1>7. CASE d.kind = "create"
  <2>1. new = [x \in DOMAIN old \cup {d.name} |->
                 IF x = d.name THEN [k \in Keys |-> "nobody"] ELSE old[x]]
    BY <1>7 DEF Altered
  <2>2. [k \in Keys |-> "nobody"] \in Tables /\ Present([k \in Keys |-> "nobody"]) = {}
    BY DEF Tables, Writer, Present
  <2> HIDE DEF new
  <2>3. /\ \A t \in DOMAIN new : t # d.name => t \in DOMAIN old /\ new[t] = old[t]
        /\ new[d.name] = [k \in Keys |-> "nobody"]
    BY <2>1
  <2> QED BY <1>1, <1>2, <1>7, <2>2, <2>3 DEF old, new, HasTable
<1>8. CASE d.kind \notin {"rename", "drop", "create"}
  <2>1. new = old
    BY <1>8 DEF Altered
  <2> HIDE DEF new
  <2> QED BY <1>2, <1>8, <2>1 DEF old, new, HasTable
<1> QED BY <1>5, <1>6, <1>7, <1>8

LEMMA DdlRunsKeepsState ==
  ASSUME StateInv, NEW ok \in BOOLEAN, DdlRuns(ok) PROVE StateInv'
<1>1. UNCHANGED <<fileVars, viewVars, gridVars, editVars, modal, era>>
  BY DEF DdlRuns
<1>2. ddl \in Ddl /\ schema.file \in Files /\ (ddl.kind = "create" \/ modal # NoTable)
  BY DEF DdlRuns, StateInv, DdlType, OpenInv
<1>3. DbType' /\ (ddl' = NoDdl \/ (ddl' \in Ddl /\ ddl'.kind = ddl.kind)) /\ astray' \in BOOLEAN
  <2>1. CASE ~ok
    BY <2>1 DEF DdlRuns, StateInv, DbType, HistoryType
  <2>2. CASE ok
    <3>1. DdlApplies(ddl) /\ db' = [db EXCEPT ![ddl.file] = Altered(db[ddl.file], ddl)]
          /\ ddl' = [ddl EXCEPT !.stage = "reloading", !.under = schema.file]
          /\ astray' \in BOOLEAN
      BY <2>2 DEF DdlRuns
    <3>2. \A t \in DOMAIN Altered(db[ddl.file], ddl) :
            t \in TableNames /\ Altered(db[ddl.file], ddl)[t] \in Tables
      BY <1>2, <3>1, AlteredIs DEF StateInv
    <3>3. DbType'
      BY <1>2, <3>1, <3>2 DEF StateInv, DbType
    <3>4. ddl' \in Ddl /\ ddl'.kind = ddl.kind
      BY <1>2, <3>1 DEF Ddl
    <3> QED BY <3>1, <3>3, <3>4
  <2> QED BY <2>1, <2>2
<1>4. DdlType' /\ OpenInv' /\ HistoryType'
  BY <1>1, <1>2, <1>3 DEF StateInv, DdlType, OpenInv, HistoryType, fileVars, viewVars, editVars
<1> QED BY <1>1, <1>3, <1>4
  DEF StateInv, FileType, ViewType, GridType, EditType, fileVars, viewVars, gridVars, editVars

\* A reload gives the schema a file that exists.
LEMMA ReloadedKeepsState ==
  ASSUME StateInv, NEW kinds, Reloaded(kinds)
  PROVE  /\ ddl' = NoDdl /\ ddl \in Ddl /\ ddl.kind \in kinds
         /\ schema'.file = ddl.under /\ schema'.file \in Files
         /\ DbType' /\ FileType' /\ EditType'
<1>1. ddl \in Ddl /\ ddl' = NoDdl /\ ddl.kind \in kinds /\ schema' = SchemaOf(ddl.under)
      /\ UNCHANGED <<db, workspace, opening, editVars>>
  BY DEF Reloaded, StateInv, DdlType
<1>2. ddl.under \in Files
  BY <1>1 DEF Ddl
<1>3. SchemaOf(ddl.under).file = ddl.under /\ SchemaOf(ddl.under).tables \subseteq TableNames
  BY <1>2, SchemaOfIs DEF StateInv
<1>4. DbType' /\ EditType'
  BY <1>1 DEF StateInv, DbType, EditType, editVars
<1>5. FileType'
  BY <1>1, <1>2, <1>3 DEF StateInv, FileType
<1> QED BY <1>1, <1>2, <1>3, <1>4, <1>5

LEMMA ReloadFailsKeepsState == ASSUME StateInv, ReloadFails PROVE StateInv'
<1>1. ddl' = NoDdl /\ UNCHANGED <<db, fileVars, viewVars, gridVars, editVars, modal, era, astray>>
  BY DEF ReloadFails
<1>2. DdlType' /\ OpenInv'
  BY <1>1 DEF StateInv, DdlType, OpenInv, fileVars, viewVars, editVars
<1> QED BY <1>1, <1>2
  DEF StateInv, DbType, FileType, ViewType, GridType, HistoryType, EditType, fileVars, viewVars,
      gridVars, editVars

LEMMA TableRenamedKeepsState == ASSUME StateInv, TableRenamed PROVE StateInv'
<1>1. /\ ddl' = NoDdl /\ ddl \in Ddl /\ schema'.file \in Files
      /\ DbType' /\ FileType' /\ EditType'
  BY ReloadedKeepsState DEF TableRenamed
<1>2. ddl.name \in TableNames
  BY <1>1 DEF Ddl
<1>3. modal' = ddl.name
      /\ UNCHANGED <<browseSort, browseFilter, browseNavStack, tableRowTotal, loadOffset,
                     isLoadingTable, loads>>
      /\ astray' \in BOOLEAN
  BY DEF TableRenamed
<1>4. selectedTable' \in TableNames \cup {NoTable} /\ tableRows' \in Seq(Row) /\ era' \in Nat
  <2>1. CASE Concerns(ddl)
    <3>1. selectedTable' = ddl.name /\ era' = era + 1
          /\ tableRows' = [i \in DOMAIN tableRows |-> [tableRows[i] EXCEPT !.table = ddl.name]]
      BY <2>1 DEF TableRenamed
    <3>2. Len(tableRows) \in Nat /\ DOMAIN tableRows = 1 .. Len(tableRows)
          /\ \A i \in DOMAIN tableRows : tableRows[i] \in Row
      BY DEF StateInv, GridType
    <3>3. \A i \in DOMAIN tableRows : [tableRows[i] EXCEPT !.table = ddl.name] \in Row
      BY <1>2, <3>2 DEF Row
    <3>4. tableRows' \in [1 .. Len(tableRows) -> Row]
      BY <3>1, <3>2, <3>3
    <3>5. tableRows' \in Seq(Row)
      BY <3>2, <3>4, IsASeq
    <3> QED BY <1>2, <3>1, <3>5 DEF StateInv, HistoryType
  <2>2. CASE ~Concerns(ddl)
    BY <2>2 DEF TableRenamed, StateInv, ViewType, GridType, HistoryType
  <2> QED BY <2>1, <2>2
<1>5. ViewType' /\ GridType' /\ HistoryType'
  BY <1>3, <1>4 DEF StateInv, ViewType, GridType, HistoryType
<1>6. DdlType' /\ OpenInv'
  BY <1>1, <1>2, <1>3 DEF DdlType, OpenInv
<1> QED BY <1>1, <1>5, <1>6 DEF StateInv

LEMMA TableDroppedKeepsState == ASSUME StateInv, TableDropped PROVE StateInv'
<1>1. ddl' = NoDdl /\ schema'.file \in Files /\ DbType' /\ FileType' /\ EditType'
  BY ReloadedKeepsState DEF TableDropped
<1>2. modal' = NoTable
      /\ UNCHANGED <<browseSort, browseFilter, browseNavStack, loadOffset, isLoadingTable, loads,
                     era>>
      /\ astray' \in BOOLEAN
  BY DEF TableDropped
<1>3. selectedTable' \in TableNames \cup {NoTable} /\ tableRows' \in Seq(Row)
      /\ tableRowTotal' \in Nat
  <2>1. <<>> \in Seq(Row)
    OBVIOUS
  <2>2. CASE Concerns(ddl)
    <3>1. selectedTable' = NoTable /\ tableRows' = <<>> /\ tableRowTotal' = 0
      BY <2>2 DEF TableDropped
    <3> QED BY <2>1, <3>1
  <2>3. CASE ~Concerns(ddl)
    <3>1. UNCHANGED <<selectedTable, tableRows, tableRowTotal>>
      BY <2>3 DEF TableDropped
    <3> QED BY <3>1 DEF StateInv, ViewType, GridType
  <2> QED BY <2>2, <2>3
<1>4. ViewType' /\ GridType' /\ HistoryType'
  BY <1>2, <1>3 DEF StateInv, ViewType, GridType, HistoryType
<1>5. DdlType' /\ OpenInv'
  BY <1>1, <1>2 DEF DdlType, OpenInv
<1> QED BY <1>1, <1>4, <1>5 DEF StateInv

LEMMA ColumnsAlteredKeepsState == ASSUME StateInv, ColumnsAltered PROVE StateInv'
<1>1. ddl' = NoDdl /\ ddl \in Ddl /\ schema'.file \in Files /\ DbType' /\ FileType' /\ EditType'
  BY ReloadedKeepsState DEF ColumnsAltered
<1>2. UNCHANGED modal
  BY DEF ColumnsAltered
<1>3. DdlType' /\ OpenInv'
  BY <1>1, <1>2 DEF StateInv, DdlType, OpenInv
<1>4. ViewType' /\ GridType' /\ HistoryType'
  <2>1. CASE Concerns(ddl)
    <3>1. ddl.table \in TableNames /\ NoFilter \in Keys \cup {NoFilter} /\ <<>> \in Seq(Crumb)
      BY <1>1 DEF Ddl
    <3>2. ShowView(ddl.table, NoFilter, <<>>)
      BY <2>1 DEF ColumnsAltered
    <3> QED BY <1>1, <3>1, <3>2, ShowViewKeepsTypes DEF StateInv
  <2>2. CASE ~Concerns(ddl)
    <3>1. UNCHANGED <<viewVars, gridVars, era>> /\ astray' \in BOOLEAN
      BY <2>2 DEF ColumnsAltered
    <3> QED BY <3>1 DEF StateInv, ViewType, GridType, HistoryType, viewVars, gridVars
  <2> QED BY <2>1, <2>2
<1> QED BY <1>1, <1>3, <1>4 DEF StateInv

LEMMA SchemaReloadedKeepsState == ASSUME StateInv, SchemaReloaded PROVE StateInv'
<1>1. ddl' = NoDdl /\ schema'.file \in Files /\ DbType' /\ FileType' /\ EditType'
  BY ReloadedKeepsState DEF SchemaReloaded
<1>2. UNCHANGED <<modal, viewVars, gridVars, era>> /\ astray' \in BOOLEAN
  BY DEF SchemaReloaded
<1> QED BY <1>1, <1>2
  DEF StateInv, ViewType, GridType, HistoryType, DdlType, OpenInv, viewVars, gridVars

\* The edit tab: editingCell, pendingEdits, applying and inserted, and nothing else.
EditTab ==
  \/ \E i \in DOMAIN tableRows : StartEdit(i) \/ StageDelete(i) \/ UnstageDelete(i)
  \/ CommitEdit \/ CancelEdit \/ StageInsert \/ DiscardAll \/ ApplyAll
  \/ \E i \in DOMAIN pendingEdits : Unstage(i)

LEMMA EditTabIs ==
  ASSUME EditTab
  PROVE  UNCHANGED <<db, fileVars, viewVars, gridVars, modal, ddl, era, astray>> /\ UNCHANGED lost
  BY DEF EditTab, StartEdit, StageDelete, UnstageDelete, CommitEdit, CancelEdit, StageInsert,
         DiscardAll, ApplyAll, Unstage, OnlyEdits

LEMMA AnOp ==
  ASSUME GridType, NEW i \in DOMAIN tableRows, NEW kind \in {"update", "delete"}
  PROVE  /\ Op(kind, tableRows[i]) \in EditOp
         /\ Op(kind, tableRows[i]).kind = kind
         /\ Op(kind, tableRows[i]).key = tableRows[i].key
<1>1. tableRows[i] \in Row
  BY DEF GridType
<1>2. tableRows[i].key \in Keys
  BY <1>1 DEF Row
<1> QED BY <1>1, <1>2 DEF Op, EditOp

LEMMA EditTabKeepsState == ASSUME StateInv, EditTab PROVE StateInv'
<1>1. UNCHANGED <<db, fileVars, viewVars, gridVars, modal, ddl, era, astray>> /\ UNCHANGED lost
  BY EditTabIs
<1>2. /\ pendingEdits \in Seq(EditOp) /\ editingCell \in Nat \cup {NoCell}
      /\ inserted \in Seq(Nat) /\ GridType /\ (applying = NoApply \/ applying \in Applying)
  BY DEF StateInv, EditType
<1>3. EditType' /\ OpenInv'
  <2>1. ASSUME NEW i \in DOMAIN tableRows, StartEdit(i) PROVE EditType' /\ OpenInv'
    <3>1. editingCell' = i /\ i \in Nat /\ UNCHANGED <<pendingEdits, applying, inserted>>
      BY <1>2, <2>1 DEF StartEdit, GridType
    <3> QED BY <1>1, <3>1 DEF StateInv, EditType, OpenInv, fileVars, viewVars
  <2>2. ASSUME NEW i \in DOMAIN tableRows, StageDelete(i) PROVE EditType' /\ OpenInv'
    <3> DEFINE k == tableRows[i].key
               places == {j \in DOMAIN pendingEdits : ~IsUpdateOf(pendingEdits[j], k)}
    <3>1. DropTheUpdate(pendingEdits, k) = Kept(pendingEdits, places)
      BY DEF DropTheUpdate
    <3>2. Kept(pendingEdits, places) \in Seq(EditOp)
      BY <1>2, KeptIsPicked
    <3>3. Op("delete", tableRows[i]) \in EditOp
      BY <1>2, AnOp
    <3>4. pendingEdits' = Append(DropTheUpdate(pendingEdits, k), Op("delete", tableRows[i]))
          /\ UNCHANGED <<editingCell, applying, inserted>>
      BY <2>2 DEF StageDelete
    <3> HIDE DEF places, k
    <3>5. pendingEdits' \in Seq(EditOp)
      BY <3>1, <3>2, <3>3, <3>4
    <3> QED BY <1>1, <3>4, <3>5 DEF StateInv, EditType, OpenInv, fileVars, viewVars
  <2>3. ASSUME NEW i \in DOMAIN tableRows, UnstageDelete(i) PROVE EditType' /\ OpenInv'
    <3> DEFINE k == tableRows[i].key
               places == {j \in DOMAIN pendingEdits : ~IsDeleteOf(pendingEdits[j], k)}
    <3>1. pendingEdits' = Kept(pendingEdits, places) /\ UNCHANGED <<editingCell, applying, inserted>>
      BY <2>3 DEF UnstageDelete
    <3>2. Kept(pendingEdits, places) \in Seq(EditOp)
      BY <1>2, KeptIsPicked
    <3> HIDE DEF places
    <3> QED BY <1>1, <3>1, <3>2 DEF StateInv, EditType, OpenInv, fileVars, viewVars
  <2>4. ASSUME CommitEdit PROVE EditType' /\ OpenInv'
    <3>1. editingCell \in DOMAIN tableRows /\ editingCell' = NoCell
          /\ pendingEdits' = StageUpdate(pendingEdits, tableRows[editingCell])
          /\ UNCHANGED <<applying, inserted>>
      BY <2>4 DEF CommitEdit
    <3>2. Op("update", tableRows[editingCell]) \in EditOp
      BY <1>2, <3>1, AnOp
    <3>3. pendingEdits' \in Seq(EditOp)
      BY <1>2, <3>1, <3>2 DEF StageUpdate
    <3> QED BY <1>1, <3>1, <3>3 DEF StateInv, EditType, OpenInv, fileVars, viewVars
  <2>5. ASSUME CancelEdit PROVE EditType' /\ OpenInv'
    <3>1. editingCell' = NoCell /\ UNCHANGED <<pendingEdits, applying, inserted>>
      BY <2>5 DEF CancelEdit
    <3> QED BY <1>1, <3>1 DEF StateInv, EditType, OpenInv, fileVars, viewVars
  <2>6. ASSUME StageInsert PROVE EditType' /\ OpenInv'
    <3>1. pendingEdits' = Append(pendingEdits, [kind |-> "insert", nth |-> Len(inserted) + 1])
          /\ inserted' = Append(inserted, 0) /\ UNCHANGED <<editingCell, applying>>
      BY <2>6 DEF StageInsert
    <3>2. Len(inserted) + 1 \in Nat
      BY <1>2
    <3>3. [kind |-> "insert", nth |-> Len(inserted) + 1] \in EditOp
      BY <3>2 DEF EditOp
    <3>4. pendingEdits' \in Seq(EditOp)
      BY <1>2, <3>1, <3>3
    <3>5. inserted' \in Seq(Nat)
      BY <1>2, <3>1
    <3> QED BY <1>1, <3>1, <3>4, <3>5 DEF StateInv, EditType, OpenInv, fileVars, viewVars
  <2>7. ASSUME DiscardAll PROVE EditType' /\ OpenInv'
    <3>1. pendingEdits' = <<>> /\ UNCHANGED <<editingCell, applying, inserted>>
      BY <2>7 DEF DiscardAll, ClearAll
    <3>2. <<>> \in Seq(EditOp)
      OBVIOUS
    <3> QED BY <1>1, <3>1, <3>2 DEF StateInv, EditType, OpenInv, fileVars, viewVars
  <2>8. ASSUME ApplyAll PROVE EditType' /\ OpenInv'
    <3>1. applying' = [ops |-> pendingEdits, file |-> schema.file, table |-> selectedTable]
          /\ UNCHANGED <<editingCell, pendingEdits, inserted>>
      BY <2>8 DEF ApplyAll
    <3>2. schema.file \in Files /\ selectedTable \in TableNames
      BY <2>8 DEF ApplyAll, InEditTab, PageTakesInput, StateInv, FileType
    <3>3. applying' \in Applying
      BY <1>2, <3>1, <3>2 DEF Applying
    <3> QED BY <1>1, <3>1, <3>2, <3>3 DEF StateInv, EditType, OpenInv, fileVars, viewVars
  <2>9. ASSUME NEW i \in DOMAIN pendingEdits, Unstage(i) PROVE EditType' /\ OpenInv'
    <3>1. pendingEdits' = RemoveAt(pendingEdits, i) /\ UNCHANGED <<editingCell, applying, inserted>>
      BY <2>9 DEF Unstage
    <3>2. RemoveAt(pendingEdits, i) \in Seq(EditOp)
      BY <1>2, RemovedIsPicked
    <3> QED BY <1>1, <3>1, <3>2 DEF StateInv, EditType, OpenInv, fileVars, viewVars
  <2> QED BY <2>1, <2>2, <2>3, <2>4, <2>5, <2>6, <2>7, <2>8, <2>9 DEF EditTab
<1> QED BY <1>1, <1>3
  DEF StateInv, DbType, FileType, ViewType, GridType, HistoryType, DdlType, fileVars, viewVars,
      gridVars

\* Counting the inserts of a batch once more.
LEMMA CountOnceIs ==
  ASSUME NEW ops \in Seq(EditOp), NEW counts \in Seq(Nat)
  PROVE  /\ CountOnce(ops, counts) \in Seq(Nat) /\ DOMAIN CountOnce(ops, counts) = DOMAIN counts
         /\ \A n \in DOMAIN counts :
              LET places == {i \in DOMAIN ops : ops[i].kind = "insert" /\ ops[i].nth = n}
              IN  CountOnce(ops, counts)[n] = counts[n] + Cardinality(places)
<1> DEFINE places(n) == {i \in DOMAIN ops : ops[i].kind = "insert" /\ ops[i].nth = n}
<1>1. CountOnce(ops, counts) = [n \in DOMAIN counts |-> counts[n] + Cardinality(places(n))]
  BY DEF CountOnce
<1>2. ASSUME NEW n \in DOMAIN counts PROVE counts[n] + Cardinality(places(n)) \in Nat
  <2>1. Len(ops) \in Nat /\ places(n) \in SUBSET (1 .. Len(ops))
    OBVIOUS
  <2>2. IsFiniteSet(1 .. Len(ops))
    BY <2>1, FS_Interval
  <2> HIDE DEF places
  <2>3. IsFiniteSet(places(n))
    BY <2>1, <2>2, FS_Subset
  <2>4. Cardinality(places(n)) \in Nat
    BY <2>3, FS_CardinalityType
  <2> QED BY <2>4
<1> HIDE DEF places
<1>3. Len(counts) \in Nat /\ DOMAIN counts = 1 .. Len(counts)
  OBVIOUS
<1>4. CountOnce(ops, counts) \in [1 .. Len(counts) -> Nat]
  BY <1>1, <1>2, <1>3
<1>5. CountOnce(ops, counts) \in Seq(Nat) /\ DOMAIN CountOnce(ops, counts) = DOMAIN counts
  <2>1. PICK new : new = CountOnce(ops, counts)
    OBVIOUS
  <2>2. new \in [1 .. Len(counts) -> Nat]
    BY <1>4, <2>1
  <2>3. new \in Seq(Nat) /\ DOMAIN new = DOMAIN counts
    BY <1>3, <2>2, IsASeq
  <2> QED BY <2>1, <2>3
<1>6. \A n \in DOMAIN counts : CountOnce(ops, counts)[n] = counts[n] + Cardinality(places(n))
  BY <1>1
<1> QED BY <1>3, <1>4, <1>5, <1>6 DEF places

\* A batch changes one table of one file, and adds rows to it by inserts only.
LEMMA BatchCommitsIs ==
  ASSUME StateInv, applying # NoApply, BatchCommits
  PROVE  /\ applying \in Applying
         /\ \E rows \in Tables :
              /\ db' = [db EXCEPT ![applying.file][applying.table] = rows]
              /\ (\A op \in ToSet(applying.ops) : op.kind # "insert")
                   => Present(rows) \subseteq Present(db[applying.file][applying.table])
         /\ HasTable(applying.file, applying.table)
         /\ DbType'
         /\ inserted' = CountOnce(applying.ops, inserted) /\ inserted' \in Seq(Nat)
<1> DEFINE old == db[applying.file][applying.table]
           rows == Batch(old, applying.ops)
<1>1. applying \in Applying /\ inserted \in Seq(Nat)
  BY DEF StateInv, EditType
<1>2. applying.ops \in Seq(EditOp) /\ applying.file \in Files /\ applying.table \in TableNames
  BY <1>1 DEF Applying
<1>3. HasTable(applying.file, applying.table) /\ rows # <<>>
      /\ db' = [db EXCEPT ![applying.file][applying.table] = rows]
      /\ inserted' = CountOnce(applying.ops, inserted)
  BY DEF BatchCommits
<1>4. old \in Tables
  BY <1>2, <1>3 DEF StateInv, DbType, HasTable
<1>5. rows \in Tables
      /\ ((\A i \in DOMAIN applying.ops : applying.ops[i].kind # "insert")
           => Present(rows) \subseteq Present(old))
  BY <1>2, <1>3, <1>4, BatchIs
<1>6. inserted' \in Seq(Nat)
  BY <1>1, <1>2, <1>3, CountOnceIs
<1> HIDE DEF rows
<1>7. (\A op \in ToSet(applying.ops) : op.kind # "insert") => Present(rows) \subseteq Present(old)
  BY <1>5 DEF ToSet
<1>8. DbType'
  <2>1. DOMAIN db' = Files
    BY <1>3 DEF StateInv, DbType
  <2>2. ASSUME NEW f \in Files, NEW t \in DOMAIN db'[f] PROVE t \in TableNames /\ db'[f][t] \in Tables
    <3>1. t \in DOMAIN db[f]
      BY <1>2, <1>3, <2>2 DEF StateInv, DbType
    <3>2. db'[f][t] = db[f][t] \/ db'[f][t] = rows
      BY <1>2, <1>3, <3>1 DEF StateInv, DbType
    <3> QED BY <1>5, <3>1, <3>2 DEF StateInv, DbType
  <2> QED BY <2>1, <2>2 DEF DbType
<1> QED BY <1>1, <1>3, <1>5, <1>6, <1>7, <1>8

LEMMA ApplySucceedsKeepsState == ASSUME StateInv, ApplySucceeds PROVE StateInv'
<1>1. applying # NoApply /\ BatchCommits /\ applying' = NoApply /\ pendingEdits' = <<>>
      /\ UNCHANGED fileVars /\ ShowView(applying.table, NoFilter, <<>>)
      /\ UNCHANGED <<editingCell, lost, modal, ddl>>
  BY DEF ApplySucceeds, ClearAll
<1>2. applying \in Applying /\ DbType' /\ inserted' \in Seq(Nat)
  BY <1>1, BatchCommitsIs
<1>3. schema'.file \in Files
  BY <1>1 DEF StateInv, OpenInv, fileVars
<1>4. applying.table \in TableNames /\ NoFilter \in Keys \cup {NoFilter} /\ <<>> \in Seq(Crumb)
      /\ <<>> \in Seq(EditOp)
  BY <1>2 DEF Applying
<1>5. ViewType' /\ GridType' /\ HistoryType'
  BY <1>1, <1>3, <1>4, ShowViewKeepsTypes DEF StateInv
<1>6. FileType' /\ DdlType' /\ OpenInv'
  BY <1>1, <1>3 DEF StateInv, FileType, DdlType, OpenInv, fileVars
<1>7. EditType'
  BY <1>1, <1>2, <1>4 DEF StateInv, EditType
<1> QED BY <1>2, <1>5, <1>6, <1>7 DEF StateInv

LEMMA ApplyFailsKeepsState ==
  ASSUME StateInv, NEW lostReply \in BOOLEAN, ApplyFails(lostReply) PROVE StateInv'
<1>1. applying # NoApply /\ applying' = NoApply
      /\ UNCHANGED <<fileVars, viewVars, gridVars, editingCell, pendingEdits, modal, ddl, era>>
  BY DEF ApplyFails
<1>2. DbType' /\ inserted' \in Seq(Nat) /\ lost' \in Nat /\ astray' \in BOOLEAN
  <2>1. CASE lostReply
    <3>1. BatchCommits /\ lost' = lost + 1 /\ astray' \in BOOLEAN
      BY <2>1 DEF ApplyFails
    <3>2. DbType' /\ inserted' \in Seq(Nat)
      BY <1>1, <3>1, BatchCommitsIs
    <3>3. lost' \in Nat
      BY <3>1 DEF StateInv, EditType
    <3> QED BY <3>1, <3>2, <3>3
  <2>2. CASE ~lostReply
    <3>1. UNCHANGED <<db, inserted, lost, astray>>
      BY <2>2 DEF ApplyFails
    <3> QED BY <3>1 DEF StateInv, DbType, EditType, HistoryType
  <2> QED BY <2>1, <2>2
<1>3. EditType' /\ HistoryType'
  BY <1>1, <1>2 DEF StateInv, EditType, HistoryType
<1> QED BY <1>1, <1>2, <1>3
  DEF StateInv, FileType, ViewType, GridType, DdlType, OpenInv, fileVars, viewVars, gridVars

LEMMA TheyWriteKeepsState ==
  ASSUME StateInv, NEW f \in Files, NEW t \in DOMAIN db[f], NEW k \in Keys,
         NEW w \in {"theirs", "nobody"}, TheyWrite(f, t, k, w)
  PROVE  StateInv'
<1>1. db' = [db EXCEPT ![f][t][k] = w]
      /\ UNCHANGED <<fileVars, viewVars, gridVars, editVars, modal, ddl, era, astray>>
  BY DEF TheyWrite
<1>2. DbType'
  <2>1. DOMAIN db' = Files /\ w \in Writer
    BY <1>1 DEF StateInv, DbType, Writer
  <2>2. ASSUME NEW g \in Files, NEW s \in DOMAIN db'[g] PROVE s \in TableNames /\ db'[g][s] \in Tables
    <3>1. s \in DOMAIN db[g]
      BY <1>1, <2>2 DEF StateInv, DbType
    <3>2. s \in TableNames /\ db[g][s] \in Tables
      BY <3>1 DEF StateInv, DbType
    <3>3. db'[g][s] = db[g][s] \/ db'[g][s] = [db[g][s] EXCEPT ![k] = w]
      BY <1>1, <3>1 DEF StateInv, DbType
    <3> QED BY <2>1, <3>2, <3>3 DEF Tables
  <2> QED BY <2>1, <2>2 DEF DbType
<1> QED BY <1>1, <1>2
  DEF StateInv, FileType, ViewType, GridType, HistoryType, DdlType, EditType, OpenInv, fileVars,
      viewVars, gridVars, editVars

LEMMA StateStep == ASSUME StateInv, [Next]_vars PROVE StateInv'
<1>1. CASE UNCHANGED vars
  BY <1>1, StateFrame DEF vars, fileVars, viewVars, gridVars, editVars
<1>2. CASE UserActs
  <2>1. ASSUME NEW f \in Files, OpenFile(f) PROVE StateInv'
    BY <2>1, OpenFileKeepsState
  <2>2. ASSUME NEW t \in TableNames, SelectTable(t) \/ OpenTableSettings(t) PROVE StateInv'
    BY <2>2, SelectTableKeepsState, ModalKeepsState
  <2>3. ASSUME NEW t \in TableNames, NEW k \in Keys, NavigateToReference(t, k) PROVE StateInv'
    BY <2>3, NavigateToReferenceKeepsState
  <2>4. ASSUME NEW i \in DOMAIN browseNavStack, NavigateBack(i) PROVE StateInv'
    BY <2>4, NavigateBackKeepsState
  <2>5. CASE LoadMoreRows \/ ToggleBrowseSort
    BY <2>5, LoadMoreRowsKeepsState, ToggleBrowseSortKeepsState
  <2>6. CASE CloseTableSettings
    <3>1. modal \in TableNames
      BY <2>6 DEF CloseTableSettings, StateInv, DdlType
    <3> QED BY <2>6, <3>1, ModalKeepsState
  <2>7. ASSUME NEW kind \in {"create", "rename", "drop", "alter", "other"}, NEW t \in TableNames,
               NEW name \in TableNames, BeginDdl(kind, t, name)
        PROVE  StateInv'
    BY <2>7, BeginDdlKeepsState
  <2>8. CASE EditTab
    BY <2>8, EditTabKeepsState
  <2> QED BY <1>2, <2>1, <2>2, <2>3, <2>4, <2>5, <2>6, <2>7, <2>8 DEF UserActs, EditTab
<1>3. CASE Replies
  <2>1. ASSUME NEW f \in opening, NEW ok \in BOOLEAN, FileOpened(f, ok) PROVE StateInv'
    BY <2>1, FileOpenedKeepsState
  <2>2. ASSUME NEW l \in loads, NEW ok \in BOOLEAN, LoadArrives(l, ok) PROVE StateInv'
    BY <2>2, LoadArrivesKeepsState
  <2>3. ASSUME NEW ok \in BOOLEAN, DdlRuns(ok) PROVE StateInv'
    BY <2>3, DdlRunsKeepsState
  <2>4. CASE TableRenamed \/ TableDropped \/ ColumnsAltered \/ SchemaReloaded \/ ReloadFails
    BY <2>4, TableRenamedKeepsState, TableDroppedKeepsState, ColumnsAlteredKeepsState,
       SchemaReloadedKeepsState, ReloadFailsKeepsState
  <2>5. CASE ApplySucceeds
    BY <2>5, ApplySucceedsKeepsState
  <2>6. ASSUME NEW lostReply \in BOOLEAN, ApplyFails(lostReply) PROVE StateInv'
    BY <2>6, ApplyFailsKeepsState
  <2> QED BY <1>3, <2>1, <2>2, <2>3, <2>4, <2>5, <2>6 DEF Replies
<1>4. CASE TheyAct
  BY <1>4, TheyWriteKeepsState DEF TheyAct
<1> QED BY <1>1, <1>2, <1>3, <1>4 DEF Next

(***************************************************************************)
(* Staged edits: one per row, and every insert carried out once            *)
(***************************************************************************)
Distinct(ops) ==
  \A i, j \in DOMAIN ops : i # j =>
    /\ ops[i].kind # "insert" /\ ops[j].kind # "insert" => ops[i].key # ops[j].key
    /\ ops[i].kind = "insert" /\ ops[j].kind = "insert" => ops[i].nth # ops[j].nth

StagedIn(ops, n) == \E i \in DOMAIN ops : ops[i].kind = "insert" /\ ops[i].nth = n

\* A batch carries each staged row out once; a row that waits, in the edits or in a batch,
\* has been carried out only by batches whose reply was lost.
EditInv ==
  /\ Distinct(pendingEdits)
  /\ \A n : StagedIn(pendingEdits, n) => n \in DOMAIN inserted
  /\ applying # NoApply => Distinct(applying.ops)
  /\ \A n \in DOMAIN inserted :
       /\ inserted[n] <= 1 + lost
       /\ StagedIn(pendingEdits, n) => inserted[n] <= lost
       /\ applying # NoApply /\ StagedIn(applying.ops, n) => inserted[n] <= lost

LEMMA PickedIsDistinct ==
  ASSUME NEW new, NEW old, Picked(new, old), Distinct(old)
  PROVE  Distinct(new) /\ \A n : StagedIn(new, n) => StagedIn(old, n)
<1>1. PICK f \in [DOMAIN new -> DOMAIN old] :
        /\ \A i, j \in DOMAIN new : i # j => f[i] # f[j]
        /\ \A i \in DOMAIN new : new[i] = old[f[i]]
  BY DEF Picked
<1>2. ASSUME NEW i \in DOMAIN new, NEW j \in DOMAIN new, i # j
      PROVE  /\ new[i].kind # "insert" /\ new[j].kind # "insert" => new[i].key # new[j].key
             /\ new[i].kind = "insert" /\ new[j].kind = "insert" => new[i].nth # new[j].nth
  <2>1. f[i] \in DOMAIN old /\ f[j] \in DOMAIN old /\ f[i] # f[j]
        /\ new[i] = old[f[i]] /\ new[j] = old[f[j]]
    BY <1>1, <1>2
  <2> QED BY <2>1 DEF Distinct
<1>3. \A n : StagedIn(new, n) => StagedIn(old, n)
  BY <1>1 DEF StagedIn
<1> QED BY <1>2, <1>3 DEF Distinct

LEMMA AppendIsDistinct ==
  ASSUME NEW ops \in Seq(EditOp), NEW op \in EditOp, Distinct(ops),
         op.kind # "insert" => \A i \in DOMAIN ops : ~OfRow(ops[i], op.key),
         op.kind = "insert" => ~StagedIn(ops, op.nth)
  PROVE  /\ Distinct(Append(ops, op))
         /\ \A n : StagedIn(Append(ops, op), n) =>
              StagedIn(ops, n) \/ (op.kind = "insert" /\ n = op.nth)
<1>1. PICK new : new = Append(ops, op)
  OBVIOUS
<1>2. Len(ops) \in Nat /\ DOMAIN ops = 1 .. Len(ops) /\ DOMAIN new = 1 .. Len(ops) + 1
      /\ new[Len(ops) + 1] = op /\ \A i \in DOMAIN ops : new[i] = ops[i]
  BY <1>1
<1>3. \A i \in DOMAIN new : i \in DOMAIN ops \/ i = Len(ops) + 1
  BY <1>2
<1>4. ASSUME NEW i \in DOMAIN ops
      PROVE  /\ ops[i].kind # "insert" /\ op.kind # "insert" => ops[i].key # op.key
             /\ ops[i].kind = "insert" /\ op.kind = "insert" => ops[i].nth # op.nth
  BY DEF OfRow, StagedIn
<1>5. ASSUME NEW i \in DOMAIN new, NEW j \in DOMAIN new, i # j
      PROVE  /\ new[i].kind # "insert" /\ new[j].kind # "insert" => new[i].key # new[j].key
             /\ new[i].kind = "insert" /\ new[j].kind = "insert" => new[i].nth # new[j].nth
  <2>1. CASE i \in DOMAIN ops /\ j \in DOMAIN ops
    BY <1>2, <1>5, <2>1 DEF Distinct
  <2>2. CASE i \in DOMAIN ops /\ j = Len(ops) + 1
    BY <1>2, <1>4, <2>2
  <2>3. CASE i = Len(ops) + 1 /\ j \in DOMAIN ops
    BY <1>2, <1>4, <2>3
  <2> QED BY <1>3, <1>5, <2>1, <2>2, <2>3
<1>6. \A n : StagedIn(new, n) => StagedIn(ops, n) \/ (op.kind = "insert" /\ n = op.nth)
  BY <1>2, <1>3 DEF StagedIn
<1>7. Distinct(new)
  BY <1>5 DEF Distinct
<1> QED BY <1>1, <1>6, <1>7

LEMMA EditFrame ==
  ASSUME EditInv, UNCHANGED <<pendingEdits, applying, inserted, lost>> PROVE EditInv'
  BY DEF EditInv, Distinct, StagedIn

\* No row is staged that was not.
LEMMA PendingIs ==
  ASSUME EditInv, NEW new, pendingEdits' = new, Distinct(new),
         \A n : StagedIn(new, n) => StagedIn(pendingEdits, n),
         UNCHANGED <<applying, inserted, lost>>
  PROVE  EditInv'
  BY DEF EditInv, Distinct, StagedIn

\* Fewer edits.
LEMMA PendingShrinks ==
  ASSUME EditInv, Picked(pendingEdits', pendingEdits), UNCHANGED <<applying, inserted, lost>>
  PROVE  EditInv'
<1>1. PICK new : new = pendingEdits'
  OBVIOUS
<1>2. Distinct(new) /\ \A n : StagedIn(new, n) => StagedIn(pendingEdits, n)
  BY <1>1, PickedIsDistinct DEF EditInv
<1> QED BY <1>1, <1>2, PendingIs

\* One edit more, of a row that has none.
LEMMA PendingGrows ==
  ASSUME EditInv, NEW ops \in Seq(EditOp), NEW op \in EditOp, Distinct(ops),
         \A n : StagedIn(ops, n) => StagedIn(pendingEdits, n),
         op.kind # "insert", \A i \in DOMAIN ops : ~OfRow(ops[i], op.key),
         pendingEdits' = Append(ops, op), UNCHANGED <<applying, inserted, lost>>
  PROVE  EditInv'
<1>1. PICK new : new = pendingEdits'
  OBVIOUS
<1>2. Distinct(new) /\ \A n : StagedIn(new, n) => StagedIn(pendingEdits, n)
  BY <1>1, AppendIsDistinct
<1> QED BY <1>1, <1>2, PendingIs

LEMMA EditTabKeepsEdits == ASSUME StateInv, EditInv, EditTab PROVE EditInv'
<1>1. /\ pendingEdits \in Seq(EditOp) /\ inserted \in Seq(Nat) /\ GridType /\ lost \in Nat
      /\ UNCHANGED lost
  BY EditTabIs DEF StateInv, EditType
<1>2. ASSUME NEW i \in DOMAIN tableRows, StartEdit(i) PROVE EditInv'
  BY <1>2, EditFrame DEF StartEdit
<1>3. ASSUME CancelEdit PROVE EditInv'
  BY <1>3, EditFrame DEF CancelEdit
<1>4. ASSUME NEW i \in DOMAIN tableRows, StageDelete(i) PROVE EditInv'
  <2> DEFINE k == tableRows[i].key
             places == {j \in DOMAIN pendingEdits : ~IsUpdateOf(pendingEdits[j], k)}
             ops == Kept(pendingEdits, places)
             op == Op("delete", tableRows[i])
  <2>0. places \in SUBSET DOMAIN pendingEdits
    OBVIOUS
  <2>1. /\ ops \in Seq(EditOp) /\ Picked(ops, pendingEdits)
        /\ \A n \in DOMAIN ops : \E j \in places : ops[n] = pendingEdits[j]
    <3> HIDE DEF places
    <3> QED BY <1>1, <2>0, KeptIsPicked
  <2>2. op \in EditOp /\ op.kind = "delete" /\ op.key = k
    BY <1>1, AnOp
  <2>3. pendingEdits' = Append(ops, op) /\ UNCHANGED <<applying, inserted, lost>>
        /\ ~IsRowDeleted(k)
    BY <1>4 DEF StageDelete, DropTheUpdate
  <2>4. \A j \in places : pendingEdits[j] \in EditOp /\ ~IsUpdateOf(pendingEdits[j], k)
                          /\ ~IsDeleteOf(pendingEdits[j], k)
    BY <1>1, <2>3 DEF IsRowDeleted
  <2>5. \A j \in places : ~OfRow(pendingEdits[j], k)
    BY <2>4, AnEdit DEF OfRow, IsUpdateOf, IsDeleteOf
  <2> HIDE DEF k, places, ops, op
  <2>6. \A n \in DOMAIN ops : ~OfRow(ops[n], op.key)
    BY <2>1, <2>2, <2>5
  <2>7. Distinct(ops) /\ \A n : StagedIn(ops, n) => StagedIn(pendingEdits, n)
    BY <2>1, PickedIsDistinct DEF EditInv
  <2>8. op.kind # "insert"
    BY <2>2
  <2> QED BY <2>1, <2>2, <2>3, <2>6, <2>7, <2>8, PendingGrows
<1>5. ASSUME NEW i \in DOMAIN tableRows, UnstageDelete(i) PROVE EditInv'
  <2> DEFINE places == {j \in DOMAIN pendingEdits : ~IsDeleteOf(pendingEdits[j], tableRows[i].key)}
  <2>1. pendingEdits' = Kept(pendingEdits, places) /\ UNCHANGED <<applying, inserted, lost>>
    BY <1>5 DEF UnstageDelete
  <2>2. Picked(Kept(pendingEdits, places), pendingEdits)
    BY <1>1, KeptIsPicked
  <2> HIDE DEF places
  <2> QED BY <2>1, <2>2, PendingShrinks
<1>6. ASSUME CommitEdit PROVE EditInv'
  <2>1. editingCell \in DOMAIN tableRows /\ UNCHANGED <<applying, inserted, lost>>
        /\ pendingEdits' = StageUpdate(pendingEdits, tableRows[editingCell])
    BY <1>6 DEF CommitEdit
  <2> DEFINE op == Op("update", tableRows[editingCell])
  <2>2. op \in EditOp /\ op.kind = "update" /\ op.key = tableRows[editingCell].key
    BY <1>1, <2>1, AnOp
  <2>3. CASE \E i \in DOMAIN pendingEdits : OfRow(pendingEdits[i], tableRows[editingCell].key)
    <3>1. pendingEdits' = pendingEdits
      BY <2>1, <2>3 DEF StageUpdate
    <3> QED BY <2>1, <3>1, EditFrame
  <2>4. CASE \A i \in DOMAIN pendingEdits : ~OfRow(pendingEdits[i], tableRows[editingCell].key)
    <3>1. pendingEdits' = Append(pendingEdits, op)
      BY <2>1, <2>4 DEF StageUpdate
    <3>2. Distinct(pendingEdits) /\ op.kind # "insert"
      BY <2>2 DEF EditInv
    <3>3. \A i \in DOMAIN pendingEdits : ~OfRow(pendingEdits[i], op.key)
      BY <2>2, <2>4
    <3> HIDE DEF op
    <3> QED BY <1>1, <2>1, <2>2, <3>1, <3>2, <3>3, PendingGrows
  <2> QED BY <2>3, <2>4
<1>7. ASSUME StageInsert PROVE EditInv'
  <2>1. PICK op : op = [kind |-> "insert", nth |-> Len(inserted) + 1]
    OBVIOUS
  <2>2. pendingEdits' = Append(pendingEdits, op) /\ inserted' = Append(inserted, 0)
        /\ UNCHANGED applying
    BY <1>7, <2>1 DEF StageInsert
  <2>3. Len(inserted) \in Nat /\ DOMAIN inserted = 1 .. Len(inserted)
        /\ \A n \in DOMAIN inserted : inserted[n] \in Nat
    BY <1>1
  <2>4. op \in EditOp /\ op.kind = "insert" /\ op.nth = Len(inserted) + 1
    BY <2>1, <2>3 DEF EditOp
  <2>5. ~StagedIn(pendingEdits, op.nth)
    BY <2>3, <2>4 DEF EditInv
  <2>6. PICK new : new = pendingEdits'
    OBVIOUS
  <2>7. Distinct(new) /\ \A n : StagedIn(new, n) => StagedIn(pendingEdits, n) \/ n = op.nth
    BY <1>1, <2>2, <2>4, <2>5, <2>6, AppendIsDistinct DEF EditInv
  <2>8. PICK counts : counts = inserted'
    OBVIOUS
  <2>9. /\ DOMAIN counts = 1 .. Len(inserted) + 1 /\ counts[Len(inserted) + 1] = 0
        /\ \A n \in DOMAIN inserted : counts[n] = inserted[n]
    BY <1>1, <2>2, <2>8
  <2>10. \A n : StagedIn(new, n) => n \in DOMAIN counts
    BY <2>3, <2>4, <2>7, <2>9 DEF EditInv
  <2>11. ASSUME NEW n \in DOMAIN counts
         PROVE  /\ counts[n] <= 1 + lost
                /\ StagedIn(new, n) => counts[n] <= lost
                /\ applying # NoApply /\ StagedIn(applying.ops, n) => counts[n] <= lost
    <3>1. CASE n = Len(inserted) + 1
      BY <1>1, <2>9, <3>1
    <3>2. CASE n # Len(inserted) + 1
      <4>1. n \in DOMAIN inserted /\ counts[n] = inserted[n] /\ n # op.nth
        BY <2>3, <2>4, <2>9, <3>2
      <4> QED BY <2>7, <4>1 DEF EditInv
    <3> QED BY <3>1, <3>2
  <2>12. applying # NoApply => Distinct(applying.ops)
    BY DEF EditInv
  <2> QED BY <1>1, <2>2, <2>6, <2>7, <2>8, <2>10, <2>11, <2>12 DEF EditInv, Distinct, StagedIn
<1>8. ASSUME DiscardAll PROVE EditInv'
  <2>1. pendingEdits' = <<>> /\ UNCHANGED <<applying, inserted, lost>>
    BY <1>8 DEF DiscardAll, ClearAll
  <2>2. DOMAIN pendingEdits' = {}
    BY <2>1
  <2>3. Picked(pendingEdits', pendingEdits)
    <3>1. [x \in {} |-> x] \in [DOMAIN pendingEdits' -> DOMAIN pendingEdits]
      BY <2>2
    <3> QED BY <2>2, <3>1 DEF Picked
  <2> QED BY <2>1, <2>3, PendingShrinks
<1>9. ASSUME ApplyAll PROVE EditInv'
  <2>1. applying'.ops = pendingEdits /\ UNCHANGED <<pendingEdits, inserted, lost>>
    BY <1>9 DEF ApplyAll
  <2> QED BY <2>1 DEF EditInv, Distinct, StagedIn
<1>10. ASSUME NEW i \in DOMAIN pendingEdits, Unstage(i) PROVE EditInv'
  <2>1. pendingEdits' = RemoveAt(pendingEdits, i) /\ UNCHANGED <<applying, inserted, lost>>
    BY <1>10 DEF Unstage
  <2>2. Picked(RemoveAt(pendingEdits, i), pendingEdits)
    BY <1>1, RemovedIsPicked
  <2> QED BY <2>1, <2>2, PendingShrinks
<1> QED BY <1>2, <1>3, <1>4, <1>5, <1>6, <1>7, <1>8, <1>9, <1>10 DEF EditTab

\* A batch whose edits are distinct counts each of its inserts once.
LEMMA CountedOnce ==
  ASSUME NEW ops \in Seq(EditOp), NEW counts \in Seq(Nat), Distinct(ops), NEW n \in DOMAIN counts
  PROVE  /\ CountOnce(ops, counts)[n] <= counts[n] + 1
         /\ ~StagedIn(ops, n) => CountOnce(ops, counts)[n] = counts[n]
<1> DEFINE places == {i \in DOMAIN ops : ops[i].kind = "insert" /\ ops[i].nth = n}
<1>1. CountOnce(ops, counts)[n] = counts[n] + Cardinality(places)
  BY CountOnceIs
<1>2. counts[n] \in Nat
  OBVIOUS
<1>3. CASE places = {}
  <2>1. Cardinality(places) = 0
    BY <1>3, FS_EmptySet
  <2> HIDE DEF places
  <2> QED BY <1>1, <1>2, <2>1
<1>4. CASE places # {}
  <2>1. PICK i \in places : TRUE
    BY <1>4
  <2>2. places = {i}
    BY <2>1 DEF Distinct
  <2>3. Cardinality(places) = 1
    BY <2>2, FS_Singleton
  <2>4. StagedIn(ops, n)
    BY <2>1 DEF StagedIn
  <2> HIDE DEF places
  <2> QED BY <1>1, <1>2, <2>3, <2>4
<1> QED BY <1>3, <1>4

LEMMA ApplySucceedsKeepsEdits == ASSUME StateInv, EditInv, ApplySucceeds PROVE EditInv'
<1>1. applying # NoApply /\ BatchCommits /\ applying' = NoApply /\ pendingEdits' = <<>>
      /\ UNCHANGED lost
  BY DEF ApplySucceeds, ClearAll
<1>2. /\ applying \in Applying /\ inserted' = CountOnce(applying.ops, inserted)
      /\ inserted \in Seq(Nat) /\ lost \in Nat
  BY <1>1, BatchCommitsIs DEF StateInv, EditType
<1>3. applying.ops \in Seq(EditOp) /\ Distinct(applying.ops)
  BY <1>1, <1>2 DEF Applying, EditInv
<1>4. DOMAIN inserted' = DOMAIN inserted /\ inserted' \in Seq(Nat)
  BY <1>2, <1>3, CountOnceIs
<1>5. ASSUME NEW n \in DOMAIN inserted' PROVE inserted'[n] <= 1 + lost
  <2>1. n \in DOMAIN inserted /\ inserted[n] \in Nat /\ inserted'[n] \in Nat
    BY <1>2, <1>4
  <2>2. /\ inserted'[n] <= inserted[n] + 1
        /\ ~StagedIn(applying.ops, n) => inserted'[n] = inserted[n]
    BY <1>2, <1>3, <2>1, CountedOnce
  <2>3. inserted[n] <= 1 + lost /\ (StagedIn(applying.ops, n) => inserted[n] <= lost)
    BY <1>1, <2>1 DEF EditInv
  <2> QED BY <1>2, <2>1, <2>2, <2>3
<1>6. DOMAIN pendingEdits' = {}
  BY <1>1
<1> QED BY <1>1, <1>5, <1>6 DEF EditInv, Distinct, StagedIn

LEMMA ApplyFailsKeepsEdits ==
  ASSUME StateInv, EditInv, NEW lostReply \in BOOLEAN, ApplyFails(lostReply) PROVE EditInv'
<1>1. applying # NoApply /\ applying' = NoApply /\ UNCHANGED pendingEdits
  BY DEF ApplyFails
<1>2. CASE ~lostReply
  <2>1. UNCHANGED <<inserted, lost>>
    BY <1>2 DEF ApplyFails
  <2> QED BY <1>1, <2>1 DEF EditInv, Distinct, StagedIn
<1>3. CASE lostReply
  <2>1. BatchCommits /\ lost' = lost + 1
    BY <1>3 DEF ApplyFails
  <2>2. /\ applying \in Applying /\ inserted' = CountOnce(applying.ops, inserted)
        /\ inserted \in Seq(Nat) /\ lost \in Nat
    BY <1>1, <2>1, BatchCommitsIs DEF StateInv, EditType
  <2>3. applying.ops \in Seq(EditOp) /\ Distinct(applying.ops)
    BY <1>1, <2>2 DEF Applying, EditInv
  <2>4. DOMAIN inserted' = DOMAIN inserted /\ inserted' \in Seq(Nat)
    BY <2>2, <2>3, CountOnceIs
  <2>5. ASSUME NEW n \in DOMAIN inserted'
        PROVE  inserted'[n] <= 1 + lost' /\ (StagedIn(pendingEdits, n) => inserted'[n] <= lost')
    <3>1. n \in DOMAIN inserted /\ inserted[n] \in Nat /\ inserted'[n] \in Nat
      BY <2>2, <2>4
    <3>2. /\ inserted'[n] <= inserted[n] + 1
          /\ ~StagedIn(applying.ops, n) => inserted'[n] = inserted[n]
      BY <2>2, <2>3, <3>1, CountedOnce
    <3>3. /\ inserted[n] <= 1 + lost
          /\ StagedIn(applying.ops, n) => inserted[n] <= lost
          /\ StagedIn(pendingEdits, n) => inserted[n] <= lost
      BY <1>1, <3>1 DEF EditInv
    <3> QED BY <2>1, <2>2, <3>1, <3>2, <3>3
  <2>6. \A n : StagedIn(pendingEdits, n) => n \in DOMAIN inserted'
    BY <2>4 DEF EditInv
  <2>7. Distinct(pendingEdits)
    BY DEF EditInv
  <2>8. PICK new : new = inserted'
    OBVIOUS
  <2>9. PICK m : m = lost'
    OBVIOUS
  <2>10. /\ \A n \in DOMAIN new : new[n] <= 1 + m /\ (StagedIn(pendingEdits, n) => new[n] <= m)
         /\ \A n : StagedIn(pendingEdits, n) => n \in DOMAIN new
    BY <2>5, <2>6, <2>8, <2>9
  <2> QED BY <1>1, <2>7, <2>8, <2>9, <2>10 DEF EditInv, Distinct, StagedIn
<1> QED BY <1>2, <1>3

LEMMA EditStep == ASSUME StateInv, EditInv, [Next]_vars PROVE EditInv'
<1>1. CASE UNCHANGED vars
  BY <1>1, EditFrame DEF vars, editVars
<1>2. CASE UserActs
  <2>1. CASE EditTab
    BY <2>1, EditTabKeepsEdits
  <2>2. CASE \/ \E f \in Files : OpenFile(f)
             \/ \E t \in TableNames : OpenTableSettings(t)
             \/ CloseTableSettings
             \/ \E kind \in {"create", "rename", "drop", "alter", "other"}, t, name \in TableNames :
                  BeginDdl(kind, t, name)
    <3>1. UNCHANGED <<pendingEdits, applying, inserted, lost>>
      BY <2>2 DEF OpenFile, OpenTableSettings, CloseTableSettings, BeginDdl, editVars
    <3> QED BY <3>1, EditFrame
  <2>3. CASE \/ \E t \in TableNames : SelectTable(t)
             \/ \E t \in TableNames, k \in Keys : NavigateToReference(t, k)
             \/ \E i \in DOMAIN browseNavStack : NavigateBack(i)
             \/ LoadMoreRows \/ ToggleBrowseSort
    <3>1. UNCHANGED <<pendingEdits, applying, inserted, lost>>
      BY <2>3 DEF SelectTable, NavigateToReference, NavigateBack, LoadMoreRows, ToggleBrowseSort,
                  editVars
    <3> QED BY <3>1, EditFrame
  <2> QED BY <1>2, <2>1, <2>2, <2>3 DEF UserActs, EditTab
<1>3. CASE Replies
  <2>1. CASE \/ \E f \in opening, ok \in BOOLEAN : FileOpened(f, ok)
             \/ \E l \in loads, ok \in BOOLEAN : LoadArrives(l, ok)
             \/ \E ok \in BOOLEAN : DdlRuns(ok)
             \/ TableRenamed \/ TableDropped \/ ColumnsAltered \/ SchemaReloaded \/ ReloadFails
    <3>1. UNCHANGED <<pendingEdits, applying, inserted, lost>>
      BY <2>1 DEF FileOpened, LoadArrives, DdlRuns, TableRenamed, TableDropped, ColumnsAltered,
                  SchemaReloaded, ReloadFails, Reloaded, editVars
    <3> QED BY <3>1, EditFrame
  <2>2. CASE ApplySucceeds
    BY <2>2, ApplySucceedsKeepsEdits
  <2>3. ASSUME NEW lostReply \in BOOLEAN, ApplyFails(lostReply) PROVE EditInv'
    BY <2>3, ApplyFailsKeepsEdits
  <2> QED BY <1>3, <2>1, <2>2, <2>3 DEF Replies
<1>4. CASE TheyAct
  BY <1>4, EditFrame DEF TheyAct, TheyWrite, editVars
<1> QED BY <1>1, <1>2, <1>3, <1>4 DEF Next

(***************************************************************************)
(* The grid                                                                *)
(***************************************************************************)
RenameReloads == ddl # NoDdl /\ ddl.stage = "reloading" /\ ddl.kind = "rename"
RenameInv == RenameReloads => ddl.table \notin DOMAIN db[ddl.file]

\* The name that the selected table has in the file.
NowNamed == IF RenameReloads /\ Concerns(ddl) /\ ddl.file = schema.file
            THEN ddl.name ELSE selectedTable
IsThere  == NowNamed \in DOMAIN db[schema.file]
Content  == db[schema.file][NowNamed]

\* The keys of a view that do not come behind `last`.
Passed(rows, filter, sort, last) ==
  {k \in Present(rows) : filter \in {k, NoFilter} /\ ~Precedes(sort, last, k)}

GridRows ==
  /\ loadOffset = Len(tableRows)
  /\ \A i \in DOMAIN tableRows :
       /\ tableRows[i].file = schema.file /\ tableRows[i].table = selectedTable
       /\ browseFilter \in {tableRows[i].key, NoFilter}
       /\ \A j \in 1 .. i - 1 : Precedes(browseSort, tableRows[j].key, tableRows[i].key)

\* The next page starts behind the last row of the grid, and not before.
NextPage ==
  tableRows # <<>> /\ IsThere =>
    Cardinality(Passed(Content, browseFilter, browseSort, tableRows[Len(tableRows)].key))
      <= loadOffset

\* The load of this view that is under way, one at most.
LiveLoads ==
  \A l \in loads : l.era = era =>
    /\ l.view = CurrentView /\ isLoadingTable
    /\ \A m \in loads : m.era = era => m = l
    /\ l.offset = IF l.kind = "first" THEN 0 ELSE loadOffset

GridInv ==
  /\ RenameInv
  /\ \A l \in loads : l.era <= era
  /\ ~astray /\ selectedTable # NoTable => GridRows /\ NextPage /\ LiveLoads

LEMMA GridRowsShowTheView == GridInv => GridShowsTheView
  BY DEF GridInv, GridRows, GridShowsTheView, Precedes

LEMMA PassedIs ==
  ASSUME NEW rows, NEW filter, NEW sort, NEW last
  PROVE  /\ IsFiniteSet(Passed(rows, filter, sort, last))
         /\ Cardinality(Passed(rows, filter, sort, last)) \in Nat
<1>1. Passed(rows, filter, sort, last) \in SUBSET Keys
  BY DEF Passed, Present
<1>2. IsFiniteSet(Passed(rows, filter, sort, last))
  BY <1>1, FS_Subset, SqliteAssumption
<1> QED BY <1>2, FS_CardinalityType

\* With fewer rows in the table no more are passed.
LEMMA PassedShrinks ==
  ASSUME NEW old, NEW new, Present(new) \subseteq Present(old),
         NEW filter, NEW sort, NEW last
  PROVE  Cardinality(Passed(new, filter, sort, last)) <= Cardinality(Passed(old, filter, sort, last))
<1> DEFINE A == Passed(new, filter, sort, last)
           B == Passed(old, filter, sort, last)
<1>1. A \in SUBSET B
  BY DEF Passed
<1>2. IsFiniteSet(B)
  BY PassedIs
<1> HIDE DEF A, B
<1> QED BY <1>1, <1>2, FS_Subset DEF A, B

\* Same view and grid; the rows of its table are as they were, or fewer.
LEMMA GridKept ==
  ASSUME StateInv, GridInv, UNCHANGED <<viewVars, gridVars, era>>, RenameInv',
         ~astray' => ~astray,
         ~astray' /\ selectedTable # NoTable =>
           /\ schema'.file = schema.file
           /\ IsThere' => \/ IsThere /\ Present(Content') \subseteq Present(Content)
                          \/ Present(Content') = {}
  PROVE  GridInv'
<1>1. \A l \in loads' : l.era <= era'
  BY DEF GridInv, gridVars
<1>2. ASSUME ~astray', selectedTable # NoTable PROVE GridRows' /\ NextPage' /\ LiveLoads'
  <2>1. GridRows /\ NextPage /\ LiveLoads /\ schema'.file = schema.file
    BY <1>2 DEF GridInv
  <2>2. GridRows' /\ LiveLoads'
    BY <2>1 DEF GridRows, LiveLoads, CurrentView, viewVars, gridVars
  <2>3. ASSUME tableRows # <<>>, IsThere'
        PROVE  Cardinality(Passed(Content', browseFilter, browseSort, tableRows[Len(tableRows)].key))
                 <= loadOffset
    <3> DEFINE last == tableRows[Len(tableRows)].key
               new == Content'
    <3>1. loadOffset \in Nat
      BY DEF StateInv, GridType
    <3>2. CASE IsThere /\ Present(new) \subseteq Present(Content)
      <4>1. Cardinality(Passed(Content, browseFilter, browseSort, last)) <= loadOffset
        BY <2>1, <2>3, <3>2 DEF NextPage
      <4> HIDE DEF new, last
      <4>2. /\ Cardinality(Passed(new, browseFilter, browseSort, last))
                 <= Cardinality(Passed(Content, browseFilter, browseSort, last))
            /\ Cardinality(Passed(new, browseFilter, browseSort, last)) \in Nat
            /\ Cardinality(Passed(Content, browseFilter, browseSort, last)) \in Nat
        BY <3>2, PassedShrinks, PassedIs
      <4>3. Cardinality(Passed(new, browseFilter, browseSort, last)) <= loadOffset
        BY <3>1, <4>1, <4>2
      <4> QED BY <4>3 DEF new, last
    <3>3. CASE Present(new) = {}
      <4>1. Passed(new, browseFilter, browseSort, last) = {}
        BY <3>3 DEF Passed
      <4>2. Cardinality(Passed(new, browseFilter, browseSort, last)) = 0
        BY <4>1, FS_EmptySet
      <4> HIDE DEF new, last
      <4>3. Cardinality(Passed(new, browseFilter, browseSort, last)) <= loadOffset
        BY <3>1, <4>2
      <4> QED BY <4>3 DEF new, last
    <3> QED BY <1>2, <2>3, <3>2, <3>3
  <2>4. NextPage'
    <3>1. UNCHANGED <<tableRows, browseFilter, browseSort, loadOffset>>
      BY DEF viewVars, gridVars
    <3> QED BY <2>3, <3>1 DEF NextPage, Passed, Present, Precedes
  <2> QED BY <2>2, <2>4
<1>3. UNCHANGED selectedTable
  BY DEF viewVars
<1> QED BY <1>1, <1>2, <1>3 DEF GridInv

\* Nothing of it changes.
LEMMA GridFrame ==
  ASSUME StateInv, GridInv, UNCHANGED <<db, schema, viewVars, gridVars, ddl, era, astray>>
  PROVE  GridInv'
<1>1. RenameInv'
  BY DEF GridInv, RenameInv, RenameReloads
<1>2. NowNamed' = NowNamed
  BY DEF NowNamed, RenameReloads, Concerns, viewVars
<1>3. IsThere' = IsThere /\ Content' = Content
  BY <1>2 DEF IsThere, Content
<1> QED BY <1>1, <1>3, GridKept

\* A new view: an empty grid and the load of its first page.
LEMMA NewViewKeepsGrid ==
  ASSUME StateInv, GridInv, RenameInv', tableRows' = <<>>, loadOffset' = 0, era' = era + 1,
         isLoadingTable', AddsLoad("first", CurrentView', 0, era + 1)
  PROVE  GridInv'
<1>1. PICK l \in Load : /\ loads' = loads \cup {l}
                        /\ l.kind = "first" /\ l.view = CurrentView' /\ l.offset = 0
                        /\ l.era = era + 1
  BY DEF AddsLoad
<1>2. era \in Nat /\ \A m \in loads : m.era \in Nat /\ m.era <= era
  BY DEF StateInv, HistoryType, GridType, Load, GridInv
<1>3. \A m \in loads' : m.era <= era + 1 /\ (m.era = era + 1 => m = l)
  BY <1>1, <1>2
<1>4. GridRows'
  BY DEF GridRows
<1>5. NextPage'
  BY DEF NextPage
<1>6. LiveLoads'
  BY <1>1, <1>3 DEF LiveLoads
<1> QED BY <1>3, <1>4, <1>5, <1>6 DEF GridInv

LEMMA ShowViewKeepsGrid ==
  ASSUME StateInv, GridInv, RenameInv', NEW t \in TableNames, NEW filter \in Keys \cup {NoFilter},
         NEW stack, schema'.file \in Files, ShowView(t, filter, stack)
  PROVE  GridInv'
<1>1. "unsorted" \in Order /\ Restart(t, "unsorted", filter)
  BY DEF Order, ShowView
<1>2. /\ browseSort' = "unsorted" /\ tableRows' = <<>> /\ loadOffset' = 0 /\ era' = era + 1
      /\ isLoadingTable'
      /\ AddsLoad("first", [file |-> schema'.file, table |-> t, sort |-> "unsorted",
                            filter |-> filter], 0, era + 1)
  BY <1>1, RestartShows DEF StateInv
<1>3. CurrentView' = [file |-> schema'.file, table |-> t, sort |-> "unsorted", filter |-> filter]
  BY <1>2 DEF ShowView, CurrentView
<1> QED BY <1>2, <1>3, NewViewKeepsGrid

LEMMA ChangingTheViewKeepsGrid ==
  ASSUME StateInv, GridInv,
         \/ \E t \in TableNames : SelectTable(t)
         \/ \E t \in TableNames, k \in Keys : NavigateToReference(t, k)
         \/ \E i \in DOMAIN browseNavStack : NavigateBack(i)
  PROVE  GridInv'
<1>1. ddl = NoDdl /\ UNCHANGED <<ddl, schema>> /\ schema.file \in Files
  BY DEF SelectTable, NavigateToReference, NavigateBack, InBrowseTab, PageTakesInput, fileVars,
         StateInv, FileType
<1>2. RenameInv'
  BY <1>1 DEF RenameInv, RenameReloads
<1>3. NoFilter \in Keys \cup {NoFilter}
  OBVIOUS
<1>4. ASSUME NEW t \in TableNames, SelectTable(t) PROVE GridInv'
  BY <1>1, <1>2, <1>3, <1>4, ShowViewKeepsGrid DEF SelectTable
<1>5. ASSUME NEW t \in TableNames, NEW k \in Keys, NavigateToReference(t, k) PROVE GridInv'
  <2>1. k \in Keys \cup {NoFilter}
    OBVIOUS
  <2> QED BY <1>1, <1>2, <1>5, <2>1, ShowViewKeepsGrid DEF NavigateToReference
<1>6. ASSUME NEW i \in DOMAIN browseNavStack, NavigateBack(i) PROVE GridInv'
  <2>1. browseNavStack[i] \in Crumb
    BY DEF StateInv, ViewType
  <2>2. browseNavStack[i].table \in TableNames /\ browseNavStack[i].filter \in Keys \cup {NoFilter}
    BY <2>1 DEF Crumb
  <2> QED BY <1>1, <1>2, <1>6, <2>2, ShowViewKeepsGrid DEF NavigateBack
<1> QED BY <1>4, <1>5, <1>6

LEMMA ToggleBrowseSortKeepsGrid == ASSUME StateInv, GridInv, ToggleBrowseSort PROVE GridInv'
<1>1. schema'.file \in Files /\ UNCHANGED fileVars /\ selectedTable \in TableNames /\ ddl = NoDdl
      /\ NextOrder(browseSort) \in Order /\ browseFilter \in Keys \cup {NoFilter}
  BY DEF ToggleBrowseSort, InBrowseTab, PageTakesInput, StateInv, ViewType, OpenInv, fileVars,
         NextOrder, Order
<1>2. UNCHANGED <<selectedTable, browseFilter, ddl>>
      /\ Restart(selectedTable, NextOrder(browseSort), browseFilter)
  BY DEF ToggleBrowseSort
<1>3. /\ browseSort' = NextOrder(browseSort) /\ tableRows' = <<>> /\ loadOffset' = 0
      /\ era' = era + 1 /\ isLoadingTable'
      /\ AddsLoad("first", [file |-> schema'.file, table |-> selectedTable,
                            sort |-> NextOrder(browseSort), filter |-> browseFilter], 0, era + 1)
  BY <1>1, <1>2, RestartShows DEF StateInv
<1>4. CurrentView' = [file |-> schema'.file, table |-> selectedTable,
                      sort |-> NextOrder(browseSort), filter |-> browseFilter]
  BY <1>2, <1>3 DEF CurrentView
<1>5. RenameInv'
  BY <1>1, <1>2 DEF RenameInv, RenameReloads
<1> QED BY <1>3, <1>4, <1>5, NewViewKeepsGrid

LEMMA LoadMoreRowsKeepsGrid == ASSUME StateInv, GridInv, LoadMoreRows PROVE GridInv'
<1>1. /\ ~isLoadingTable /\ selectedTable # NoTable /\ ddl = NoDdl
      /\ Request("more", CurrentView, loadOffset, era)
      /\ UNCHANGED <<db, fileVars, viewVars, tableRows, loadOffset, ddl, era, astray>>
  BY DEF LoadMoreRows, InBrowseTab, PageTakesInput, MayLoad
<1>2. loadOffset \in Nat /\ era \in Nat /\ GridType /\ CurrentView \in View
      /\ "more" \in {"first", "more"}
  BY <1>1, CurrentViewIs DEF StateInv, GridType, HistoryType
<1>3. isLoadingTable' = TRUE /\ AddsLoad("more", CurrentView, loadOffset, era)
  BY <1>1, <1>2, RequestAdds
<1>4. PICK l \in Load : /\ loads' = loads \cup {l}
                        /\ l.kind = "more" /\ l.view = CurrentView /\ l.offset = loadOffset
                        /\ l.era = era
  BY <1>3 DEF AddsLoad
<1>5. \A m \in loads' : m.era <= era'
  BY <1>1, <1>2, <1>4 DEF GridInv
<1>6. RenameInv'
  BY <1>1 DEF RenameInv, RenameReloads
<1>7. ASSUME ~astray PROVE GridRows' /\ NextPage' /\ LiveLoads'
  <2>1. GridRows /\ NextPage /\ LiveLoads
    BY <1>1, <1>7 DEF GridInv
  <2>2. GridRows'
    BY <1>1, <2>1 DEF GridRows, fileVars, viewVars
  <2>3. NextPage'
    <3>1. NowNamed' = selectedTable /\ NowNamed = selectedTable
      BY <1>1 DEF NowNamed, RenameReloads, viewVars
    <3>2. IsThere' = IsThere /\ Content' = Content
      BY <1>1, <3>1 DEF IsThere, Content, fileVars
    <3>3. UNCHANGED <<browseFilter, browseSort, tableRows, loadOffset>>
      BY <1>1 DEF viewVars
    <3> QED BY <2>1, <3>2, <3>3 DEF NextPage, Passed, Present, Precedes
  <2>4. \A m \in loads : m.era # era
    BY <1>1, <2>1 DEF LiveLoads
  <2>5. \A m \in loads' : m.era = era => m = l
    BY <1>4, <2>4
  <2>6. CurrentView' = CurrentView
    BY <1>1 DEF CurrentView, fileVars, viewVars
  <2>7. LiveLoads'
    BY <1>1, <1>3, <1>4, <2>5, <2>6 DEF LiveLoads
  <2> QED BY <2>2, <2>3, <2>7
<1> QED BY <1>1, <1>5, <1>6, <1>7 DEF GridInv

\* The page of the load under way goes behind the rows of the grid.
LEMMA PageFits ==
  ASSUME StateInv, GridInv, ~astray, selectedTable # NoTable,
         NEW l \in loads, l.era = era, LoadArrives(l, TRUE)
  PROVE  GridRows' /\ NextPage'
<1> DEFINE v == CurrentView
<1>1. GridRows /\ NextPage /\ LiveLoads /\ RenameInv
  BY DEF GridInv
<1>2. l.view = v /\ l.offset = IF l.kind = "first" THEN 0 ELSE loadOffset
  BY <1>1 DEF LiveLoads
<1>3. v \in View /\ v.file = schema.file /\ v.table = selectedTable /\ v.sort = browseSort
      /\ v.filter = browseFilter
  BY CurrentViewIs DEF CurrentView
<1>4. HasTable(v.file, v.table) /\ UNCHANGED <<db, fileVars, viewVars, ddl>>
  BY <1>2 DEF LoadArrives
<1>5. NowNamed = selectedTable /\ NowNamed' = selectedTable
  <2>1. ~(RenameReloads /\ Concerns(ddl) /\ ddl.file = schema.file)
    BY <1>1, <1>3, <1>4 DEF RenameInv, Concerns, HasTable
  <2>2. NowNamed = selectedTable
    BY <2>1 DEF NowNamed
  <2> QED BY <1>4, <2>2 DEF NowNamed, RenameReloads, Concerns, fileVars, viewVars
<1>6. tableRows \in Seq(Row) /\ loadOffset \in Nat /\ Len(tableRows) = loadOffset
  BY <1>1 DEF StateInv, GridType, GridRows
<1> PICK all, page : all = RowsOf(v) /\ page = Page(v, l.offset)
  OBVIOUS
<1>7. l.offset \in Nat
  BY <1>2, <1>6
<1>8. /\ all \in Seq(Row)
      /\ \A i \in DOMAIN all :
           /\ all[i].file = schema.file /\ all[i].table = selectedTable
           /\ browseFilter \in {all[i].key, NoFilter}
           /\ Cardinality({k \in Wanted(v) : ~Precedes(browseSort, all[i].key, k)}) = i
      /\ \A i, j \in DOMAIN all : i < j => Precedes(browseSort, all[i].key, all[j].key)
  BY <1>3, <1>4, RowsOfAre DEF StateInv
<1>9. /\ page \in Seq(Row)
      /\ \A i \in DOMAIN page : l.offset + i \in DOMAIN all /\ page[i] = all[l.offset + i]
  BY <1>3, <1>4, <1>7, PageIs DEF StateInv
<1>10. IF l.kind = "first" THEN tableRows' = page /\ loadOffset' = Len(page)
       ELSE tableRows' = tableRows \o page /\ loadOffset' = loadOffset + Len(page)
  BY <1>2 DEF LoadArrives
<1>11. \A last : Passed(Content, browseFilter, browseSort, last)
                   = {k \in Wanted(v) : ~Precedes(browseSort, last, k)}
  BY <1>3, <1>5 DEF Passed, Wanted, Content
<1>12. UNCHANGED <<schema, selectedTable, browseSort, browseFilter>>
       /\ Content' = Content /\ IsThere
  BY <1>3, <1>4, <1>5 DEF fileVars, viewVars, Content, IsThere, HasTable
<1>13. DOMAIN page = 1 .. Len(page) /\ Len(page) \in Nat /\ DOMAIN all = 1 .. Len(all)
       /\ Len(all) \in Nat /\ \A i \in DOMAIN page : i \in Nat /\ i >= 1
  BY <1>8, <1>9
<1> HIDE DEF v
\* The new rows are the view's, in its order.
<1>14. ASSUME NEW i \in DOMAIN page
       PROVE  /\ page[i].file = schema.file /\ page[i].table = selectedTable
              /\ browseFilter \in {page[i].key, NoFilter}
              /\ \A j \in 1 .. i - 1 : Precedes(browseSort, page[j].key, page[i].key)
              /\ Cardinality(Passed(Content, browseFilter, browseSort, page[i].key)) = l.offset + i
  <2>1. l.offset + i \in DOMAIN all /\ page[i] = all[l.offset + i]
    BY <1>9
  <2>2. ASSUME NEW j \in 1 .. i - 1 PROVE Precedes(browseSort, page[j].key, page[i].key)
    <3>1. j \in DOMAIN page /\ l.offset + j < l.offset + i
      BY <1>7, <1>13, <2>2
    <3>2. l.offset + j \in DOMAIN all /\ page[j] = all[l.offset + j]
      BY <1>9, <3>1
    <3> QED BY <1>8, <2>1, <3>1, <3>2
  <2>3. Cardinality({k \in Wanted(v) : ~Precedes(browseSort, page[i].key, k)}) = l.offset + i
    BY <1>8, <2>1
  <2>4. page[i].file = schema.file /\ page[i].table = selectedTable
        /\ browseFilter \in {page[i].key, NoFilter}
    BY <1>8, <2>1
  <2> QED BY <1>11, <2>2, <2>3, <2>4
<1>15. CASE l.kind = "first"
  <2>1. tableRows' = page /\ loadOffset' = Len(page) /\ l.offset = 0
    BY <1>2, <1>10, <1>15
  <2>2. GridRows'
    BY <1>12, <1>14, <2>1 DEF GridRows
  <2>3. ASSUME page # <<>>
        PROVE  Cardinality(Passed(Content, browseFilter, browseSort, page[Len(page)].key)) <= Len(page)
    <3>1. Len(page) \in DOMAIN page
      BY <1>9, <1>13, <2>3
    <3>2. Cardinality(Passed(Content, browseFilter, browseSort, page[Len(page)].key))
            = l.offset + Len(page)
      BY <1>14, <3>1
    <3> QED BY <1>13, <2>1, <3>2
  <2>4. NextPage'
    BY <1>12, <2>1, <2>3 DEF NextPage, Passed, Present, Precedes
  <2> QED BY <2>2, <2>4
<1>16. CASE l.kind # "first"
  <2> DEFINE n == Len(tableRows)
  <2>1. tableRows' = tableRows \o page /\ loadOffset' = loadOffset + Len(page)
        /\ l.offset = n /\ n = loadOffset /\ n \in Nat
    BY <1>2, <1>6, <1>10, <1>16
  <2> PICK new : new = tableRows'
    OBVIOUS
  <2>2. /\ DOMAIN new = 1 .. n + Len(page) /\ Len(new) = n + Len(page)
        /\ \A i \in 1 .. n : new[i] = tableRows[i]
        /\ \A i \in DOMAIN page : new[n + i] = page[i]
    <3>1. new \in Seq(Row) /\ Len(new) = n + Len(page)
      <4>1. new = tableRows \o page
        BY <2>1
      <4> QED BY <1>6, <1>9, <4>1, ConcatProperties
    <3>2. DOMAIN new = 1 .. n + Len(page)
      BY <3>1
    <3>3. ASSUME NEW i \in 1 .. n PROVE new[i] = tableRows[i]
      BY <1>6, <1>9, <2>1
    <3>4. ASSUME NEW i \in DOMAIN page PROVE new[n + i] = page[i]
      <4>1. i \in 1 .. Len(page)
        BY <1>13
      <4>2. n + i \in 1 .. n + Len(page) /\ n + i > n /\ (n + i) - n = i
        BY <1>13, <2>1, <4>1
      <4> QED BY <1>6, <1>9, <2>1, <4>1, <4>2
    <3> QED BY <3>1, <3>2, <3>3, <3>4
  <2>3. DOMAIN tableRows = 1 .. n /\ \A i \in DOMAIN tableRows : tableRows[i].key \in Nat
    <3>1. \A i \in DOMAIN tableRows : tableRows[i] \in Row
      BY <1>6
    <3>2. DOMAIN tableRows = 1 .. n
      BY <1>6
    <3>3. \A i \in DOMAIN tableRows : tableRows[i].key \in Keys
      BY <3>1 DEF Row
    <3> QED BY <3>2, <3>3, SqliteAssumption
  <2>4. \A i \in DOMAIN page : page[i].key \in Nat /\ page[i].key \in Keys
    <3>1. \A i \in DOMAIN page : page[i] \in Row
      BY <1>9
    <3> QED BY <3>1, SqliteAssumption DEF Row
  <2> HIDE DEF n
  \* Nothing on the page has been passed: its first row would be counted twice.
  <2>5. ASSUME n # 0, NEW j \in DOMAIN page
        PROVE  Precedes(browseSort, tableRows[n].key, page[j].key)
    <3> SUFFICES ASSUME ~Precedes(browseSort, tableRows[n].key, page[j].key) PROVE FALSE
      OBVIOUS
    <3> DEFINE A == Passed(Content, browseFilter, browseSort, page[j].key)
               B == Passed(Content, browseFilter, browseSort, tableRows[n].key)
    <3>1. n \in DOMAIN tableRows
      BY <2>1, <2>3, <2>5
    <3>2. tableRows[n].key \in Nat /\ page[j].key \in Nat
      BY <2>3, <2>4, <3>1
    <3>3. A \in SUBSET B
      <4> SUFFICES ASSUME NEW k \in Present(Content), ~Precedes(browseSort, page[j].key, k)
                   PROVE  ~Precedes(browseSort, tableRows[n].key, k)
        BY DEF Passed
      <4>1. k \in Nat
        BY SqliteAssumption DEF Present
      <4> QED BY <3>2, <4>1 DEF Precedes
    <3>4. Cardinality(A) = n + j
      BY <1>14, <2>1
    <3>5. Cardinality(B) <= n
      <4>1. tableRows # <<>>
        BY <3>1
      <4>2. Cardinality(Passed(Content, browseFilter, browseSort, tableRows[Len(tableRows)].key))
              <= loadOffset
        BY <1>1, <1>12, <4>1 DEF NextPage
      <4> QED BY <2>1, <4>2 DEF n
    <3>6. IsFiniteSet(B) /\ Cardinality(B) \in Nat
      BY PassedIs
    <3> HIDE DEF A, B
    <3>7. Cardinality(A) <= Cardinality(B)
      BY <3>3, <3>6, FS_Subset
    <3>8. j \in Nat /\ j >= 1
      BY <1>13
    <3> QED BY <2>1, <3>4, <3>5, <3>6, <3>7, <3>8
  <2>6. ASSUME NEW i \in DOMAIN new
        PROVE  /\ new[i].file = schema.file /\ new[i].table = selectedTable
               /\ browseFilter \in {new[i].key, NoFilter}
               /\ \A j \in 1 .. i - 1 : Precedes(browseSort, new[j].key, new[i].key)
    <3>1. CASE i \in 1 .. n
      <4>1. new[i] = tableRows[i] /\ i \in DOMAIN tableRows
            /\ \A j \in 1 .. i - 1 : new[j] = tableRows[j]
        BY <2>1, <2>2, <2>3, <3>1
      <4> QED BY <1>1, <4>1 DEF GridRows
    <3>2. CASE i \notin 1 .. n
      <4>1. PICK m \in DOMAIN page : i = n + m /\ m \in Nat /\ m >= 1
        <5>1. i - n \in DOMAIN page /\ i = n + (i - n) /\ i - n \in Nat /\ i - n >= 1
          BY <1>13, <2>1, <2>2, <3>2
        <5> QED BY <5>1
      <4>2. new[i] = page[m]
        BY <2>2, <4>1
      <4>3. ASSUME NEW j \in 1 .. i - 1 PROVE Precedes(browseSort, new[j].key, new[i].key)
        <5>1. CASE j \in 1 .. n
          <6>1. new[j] = tableRows[j] /\ j \in DOMAIN tableRows /\ n # 0 /\ n \in DOMAIN tableRows
            BY <2>1, <2>2, <2>3, <5>1
          <6>2. Precedes(browseSort, tableRows[n].key, page[m].key)
            BY <2>5, <6>1
          <6>3. j = n \/ Precedes(browseSort, tableRows[j].key, tableRows[n].key)
            <7>1. j = n \/ j \in 1 .. n - 1
              BY <2>1, <5>1
            <7> QED BY <1>1, <6>1, <7>1 DEF GridRows
          <6>4. tableRows[j].key \in Nat /\ tableRows[n].key \in Nat /\ page[m].key \in Nat
            BY <2>3, <2>4, <6>1
          <6>5. Precedes(browseSort, tableRows[j].key, page[m].key)
            BY <6>2, <6>3, <6>4 DEF Precedes
          <6> QED BY <4>2, <6>1, <6>5
        <5>2. CASE j \notin 1 .. n
          <6>1. PICK q \in 1 .. m - 1 : j = n + q
            <7>1. j - n \in 1 .. m - 1 /\ j = n + (j - n)
              BY <2>1, <4>1, <4>3, <5>2
            <7> QED BY <7>1
          <6>2. q \in DOMAIN page
            BY <1>13, <4>1, <6>1
          <6>3. new[j] = page[q]
            BY <2>2, <6>1, <6>2
          <6> QED BY <1>14, <4>2, <6>1, <6>3
        <5> QED BY <5>1, <5>2
      <4> QED BY <1>14, <4>2, <4>3
    <3> QED BY <3>1, <3>2
  <2>7. loadOffset' = Len(new)
    BY <2>1, <2>2
  <2>8. GridRows'
    BY <1>12, <2>6, <2>7 DEF GridRows
  <2>9. ASSUME new # <<>>
        PROVE  Cardinality(Passed(Content, browseFilter, browseSort, new[Len(new)].key)) <= Len(new)
    <3>1. CASE Len(page) = 0
      <4>1. Len(new) = n /\ n # 0 /\ new[n] = tableRows[n] /\ tableRows # <<>>
        <5>1. Len(new) = n
          BY <2>1, <2>2, <3>1
        <5>2. n # 0
          <6>1. new \in Seq(Row)
            BY <1>6, <1>9, <2>1
          <6> QED BY <2>9, <5>1, <6>1
        <5>3. n \in 1 .. n
          BY <2>1, <5>2
        <5> QED BY <2>2, <5>1, <5>2, <5>3 DEF n
      <4>2. Cardinality(Passed(Content, browseFilter, browseSort, tableRows[Len(tableRows)].key))
              <= loadOffset
        BY <1>1, <1>12, <4>1 DEF NextPage
      <4> QED BY <2>1, <4>1, <4>2 DEF n
    <3>2. CASE Len(page) # 0
      <4>1. Len(page) \in DOMAIN page
        BY <1>13, <3>2
      <4>2. new[Len(new)] = page[Len(page)]
        BY <2>2, <4>1
      <4>3. Cardinality(Passed(Content, browseFilter, browseSort, page[Len(page)].key))
              = l.offset + Len(page)
        BY <1>14, <4>1
      <4>4. l.offset + Len(page) = Len(new) /\ Len(new) \in Nat
        BY <1>13, <2>1, <2>2
      <4> QED BY <4>2, <4>3, <4>4
    <3> QED BY <3>1, <3>2
  <2>10. NextPage'
    BY <1>12, <2>7, <2>9 DEF NextPage, Passed, Present, Precedes
  <2> QED BY <2>8, <2>10
<1> QED BY <1>15, <1>16

LEMMA LoadArrivesKeepsGrid ==
  ASSUME StateInv, GridInv, NEW l \in loads, NEW ok \in BOOLEAN, LoadArrives(l, ok) PROVE GridInv'
<1>1. /\ loads' = loads \ {l} /\ astray' = (astray \/ l.era # era)
      /\ UNCHANGED <<db, fileVars, viewVars, ddl, era>>
  BY DEF LoadArrives
<1>2. RenameInv' /\ \A m \in loads' : m.era <= era'
  BY <1>1 DEF GridInv, RenameInv, RenameReloads
<1>3. ASSUME ~astray', selectedTable # NoTable PROVE GridRows' /\ NextPage' /\ LiveLoads'
  <2>1. ~astray /\ l.era = era /\ GridRows /\ NextPage /\ LiveLoads
    BY <1>1, <1>3 DEF GridInv
  <2>2. \A m \in loads' : m.era # era
    BY <1>1, <2>1 DEF LiveLoads
  <2>3. LiveLoads'
    BY <1>1, <2>2 DEF LiveLoads
  <2>4. CASE ok
    <3>1. LoadArrives(l, TRUE)
      BY <2>4
    <3> QED BY <1>3, <2>1, <2>3, <3>1, PageFits
  <2>5. CASE ~ok
    <3>1. UNCHANGED <<tableRows, loadOffset>>
      BY <2>5 DEF LoadArrives
    <3>2. UNCHANGED <<browseFilter, browseSort, selectedTable, schema>>
      BY <1>1 DEF viewVars, fileVars
    <3>3. GridRows'
      BY <2>1, <3>1, <3>2 DEF GridRows
    <3>4. NowNamed' = NowNamed
      BY <1>1, <3>2 DEF NowNamed, RenameReloads, Concerns
    <3>5. IsThere' = IsThere /\ Content' = Content
      BY <1>1, <3>2, <3>4 DEF IsThere, Content
    <3>6. NextPage'
      BY <2>1, <3>1, <3>2, <3>5 DEF NextPage, Passed, Present, Precedes
    <3> QED BY <2>3, <3>3, <3>6
  <2> QED BY <2>4, <2>5
<1>4. UNCHANGED selectedTable
  BY <1>1 DEF viewVars
<1> QED BY <1>2, <1>3, <1>4 DEF GridInv

\* Another file under the view leads the grid astray.
LEMMA FileOpenedKeepsGrid ==
  ASSUME StateInv, GridInv, NEW f \in opening, NEW ok \in BOOLEAN, FileOpened(f, ok) PROVE GridInv'
<1>1. f \in Files /\ SchemaOf(f).file = f
  BY SchemaOfIs DEF StateInv, FileType
<1>2. UNCHANGED <<db, viewVars, gridVars, ddl, era>>
  BY DEF FileOpened
<1>3. ASSUME ~astray' PROVE ~astray /\ (selectedTable # NoTable => schema'.file = schema.file)
  BY <1>1, <1>3 DEF FileOpened
<1>4. RenameInv'
  BY <1>2 DEF GridInv, RenameInv, RenameReloads
<1>5. ASSUME ~astray', selectedTable # NoTable
      PROVE  schema'.file = schema.file /\ IsThere' = IsThere /\ Content' = Content
  <2>1. schema'.file = schema.file
    BY <1>3, <1>5
  <2>2. NowNamed' = NowNamed
    BY <1>2, <2>1 DEF NowNamed, RenameReloads, Concerns, viewVars
  <2> QED BY <1>2, <2>1, <2>2 DEF IsThere, Content
<1> QED BY <1>2, <1>3, <1>4, <1>5, GridKept

LEMMA BeginDdlKeepsGrid ==
  ASSUME StateInv, GridInv, NEW kind \in {"create", "rename", "drop", "alter", "other"},
         NEW t \in TableNames, NEW name \in TableNames, BeginDdl(kind, t, name)
  PROVE  GridInv'
<1>1. ddl = NoDdl /\ ddl'.stage = "running"
      /\ UNCHANGED <<db, fileVars, viewVars, gridVars, era, astray>>
  BY BeginDdlKeepsState DEF BeginDdl
<1>2. ~RenameReloads /\ ~RenameReloads'
  BY <1>1 DEF RenameReloads
<1>3. UNCHANGED <<schema, selectedTable>>
  BY <1>1 DEF fileVars, viewVars
<1>4. NowNamed' = NowNamed
  BY <1>2, <1>3 DEF NowNamed
<1>5. IsThere' = IsThere /\ Content' = Content
  BY <1>1, <1>3, <1>4 DEF IsThere, Content
<1>6. RenameInv'
  BY <1>2 DEF RenameInv
<1> QED BY <1>1, <1>3, <1>5, <1>6, GridKept

\* The selected table keeps its rows under the name it has now; a new table has none.
LEMMA DdlRunsKeepsGrid ==
  ASSUME StateInv, GridInv, NEW ok \in BOOLEAN, DdlRuns(ok) PROVE GridInv'
<1>1. UNCHANGED <<fileVars, viewVars, gridVars, era>> /\ UNCHANGED <<schema, selectedTable>>
  BY DEF DdlRuns, fileVars, viewVars
<1>2. ddl \in Ddl /\ ddl.stage = "running" /\ schema.file \in Files /\ NowNamed = selectedTable
  BY DEF DdlRuns, StateInv, DdlType, OpenInv, NowNamed, RenameReloads
<1>3. CASE ~ok
  <2>1. ddl' = NoDdl /\ UNCHANGED <<db, astray>>
    BY <1>3 DEF DdlRuns
  <2>2. RenameInv' /\ NowNamed' = NowNamed
    BY <1>1, <1>2, <2>1 DEF RenameInv, RenameReloads, NowNamed
  <2>3. IsThere' = IsThere /\ Content' = Content
    BY <1>1, <2>1, <2>2 DEF IsThere, Content
  <2> QED BY <1>1, <2>1, <2>2, <2>3, GridKept
<1>4. CASE ok
  <2> DEFINE old == db[ddl.file]
             new == Altered(old, ddl)
  <2>1. /\ DdlApplies(ddl) /\ db' = [db EXCEPT ![ddl.file] = new]
        /\ ddl' = [ddl EXCEPT !.stage = "reloading", !.under = schema.file]
        /\ astray' = (astray \/ TakesItsName(ddl))
    BY <1>4 DEF DdlRuns
  <2>2. /\ ddl'.kind = ddl.kind /\ ddl'.table = ddl.table /\ ddl'.name = ddl.name
        /\ ddl'.file = ddl.file /\ ddl'.stage = "reloading" /\ ddl.file \in Files
    BY <1>2, <2>1 DEF Ddl
  <2>3. /\ ddl.kind = "rename" => ddl.table \notin DOMAIN new /\ new[ddl.name] = old[ddl.table]
        /\ \A t \in DOMAIN new :
             \/ HasTable(ddl.file, t) /\ new[t] = old[t]
             \/ ddl.kind = "rename" /\ t = ddl.name
             \/ ddl.kind = "create" /\ t = ddl.name /\ Present(new[t]) = {}
    BY <1>2, <2>1, AlteredIs DEF StateInv
  <2> HIDE DEF new
  <2>4. db'[ddl.file] = new /\ \A f \in Files : f # ddl.file => db'[f] = db[f]
    BY <2>1, <2>2 DEF StateInv, DbType
  <2>5. RenameInv'
    BY <2>2, <2>3, <2>4 DEF RenameInv, RenameReloads
  <2>6. ASSUME ~astray', selectedTable # NoTable, IsThere'
        PROVE  \/ IsThere /\ Content' = Content
               \/ Present(Content') = {}
    <3>1. CASE ddl.file # schema.file
      <4>1. NowNamed' = selectedTable /\ db'[schema.file] = db[schema.file]
        BY <1>1, <1>2, <2>2, <2>4, <3>1 DEF NowNamed
      <4> QED BY <1>1, <1>2, <2>6, <4>1 DEF IsThere, Content
    <3>2. CASE ddl.file = schema.file /\ ddl.kind = "rename" /\ Concerns(ddl)
      <4>1. ddl' # NoDdl
        <5>1. ASSUME ddl' = NoDdl PROVE FALSE
          BY <2>6, <3>2, <5>1, <1>1, <2>3, <2>4 DEF NowNamed, RenameReloads, Concerns, IsThere
        <5> QED BY <5>1
      <4>2. NowNamed' = ddl.name
        BY <1>1, <2>2, <3>2, <4>1 DEF NowNamed, RenameReloads, Concerns
      <4>3. HasTable(ddl.file, ddl.table)
        BY <2>1, <3>2 DEF DdlApplies
      <4>4. new[ddl.name] = old[ddl.table] /\ ddl.table = selectedTable
        BY <2>3, <3>2 DEF Concerns
      <4> QED BY <1>1, <1>2, <2>4, <3>2, <4>2, <4>3, <4>4 DEF IsThere, Content, HasTable
    <3>3. CASE ddl.file = schema.file /\ ~(ddl.kind = "rename" /\ Concerns(ddl))
      <4>1. NowNamed' = selectedTable
        BY <1>1, <2>2, <3>3 DEF NowNamed, RenameReloads, Concerns
      <4>2. selectedTable \in DOMAIN new /\ Content' = new[selectedTable]
        BY <1>1, <2>4, <2>6, <3>3, <4>1 DEF IsThere, Content
      <4>3. ~(ddl.kind = "rename" /\ selectedTable = ddl.name)
        BY <2>1, <2>6 DEF TakesItsName
      <4> QED BY <1>2, <2>3, <3>3, <4>2, <4>3 DEF IsThere, Content, HasTable
    <3> QED BY <3>1, <3>2, <3>3
  <2>7. ~astray' => ~astray
    BY <2>1
  <2> QED BY <1>1, <2>5, <2>6, <2>7, GridKept
<1> QED BY <1>3, <1>4

LEMMA ReloadFailsKeepsGrid == ASSUME StateInv, GridInv, ReloadFails PROVE GridInv'
<1>1. ddl # NoDdl /\ ddl.stage = "reloading" /\ ddl' = NoDdl
      /\ UNCHANGED <<db, schema, selectedTable, viewVars, gridVars, era, astray>>
  BY DEF ReloadFails, fileVars, viewVars
<1>2. RenameInv' /\ NowNamed' = selectedTable
  BY <1>1 DEF RenameInv, RenameReloads, NowNamed
\* A renamed table is not found under its old name any more.
<1>3. ASSUME IsThere' PROVE IsThere /\ Content' = Content
  <2>1. NowNamed = selectedTable
    BY <1>1, <1>2, <1>3 DEF GridInv, RenameInv, NowNamed, Concerns, IsThere
  <2> QED BY <1>1, <1>2, <1>3, <2>1 DEF IsThere, Content
<1> QED BY <1>1, <1>2, <1>3, GridKept

\* The view stays when the schema is read again.
LEMMA ReloadedKeepsGrid ==
  ASSUME StateInv, GridInv, NEW kinds, Reloaded(kinds), "rename" \notin kinds \/ ~Concerns(ddl),
         UNCHANGED <<viewVars, gridVars, era>>, astray' = (astray \/ ElsewhereNow)
  PROVE  GridInv'
<1>1. ddl' = NoDdl /\ ddl.kind \in kinds /\ schema'.file = ddl.under
  BY ReloadedKeepsState
<1>2. UNCHANGED <<db, selectedTable>>
  BY DEF Reloaded, viewVars
<1>3. RenameInv'
  BY <1>1 DEF RenameInv, RenameReloads
<1>4. NowNamed = selectedTable /\ NowNamed' = selectedTable
  BY <1>1, <1>2 DEF NowNamed, RenameReloads
<1>5. ~astray' => ~astray
  OBVIOUS
<1>6. ASSUME ~astray', selectedTable # NoTable
      PROVE  schema'.file = schema.file /\ IsThere' = IsThere /\ Content' = Content
  <2>1. schema'.file = schema.file
    BY <1>1, <1>6 DEF ElsewhereNow
  <2> QED BY <1>2, <1>4, <2>1 DEF IsThere, Content
<1> QED BY <1>3, <1>5, <1>6, GridKept

LEMMA SchemaReloadedKeepsGrid == ASSUME StateInv, GridInv, SchemaReloaded PROVE GridInv'
  BY ReloadedKeepsGrid DEF SchemaReloaded

LEMMA ColumnsAlteredKeepsGrid == ASSUME StateInv, GridInv, ColumnsAltered PROVE GridInv'
<1>1. CASE Concerns(ddl)
  <2>1. ddl' = NoDdl /\ ddl \in Ddl /\ schema'.file \in Files
    BY ReloadedKeepsState DEF ColumnsAltered
  <2>2. RenameInv'
    BY <2>1 DEF RenameInv, RenameReloads
  <2>3. ddl.table \in TableNames /\ NoFilter \in Keys \cup {NoFilter}
    BY <2>1 DEF Ddl
  <2>4. ShowView(ddl.table, NoFilter, <<>>)
    BY <1>1 DEF ColumnsAltered
  <2> QED BY <2>1, <2>2, <2>3, <2>4, ShowViewKeepsGrid
<1>2. CASE ~Concerns(ddl)
  BY <1>2, ReloadedKeepsGrid DEF ColumnsAltered
<1> QED BY <1>1, <1>2

LEMMA TableDroppedKeepsGrid == ASSUME StateInv, GridInv, TableDropped PROVE GridInv'
<1>1. CASE Concerns(ddl)
  <2>1. ddl' = NoDdl
    BY ReloadedKeepsState DEF TableDropped
  <2>2. selectedTable' = NoTable /\ UNCHANGED <<loads, era>>
    BY <1>1 DEF TableDropped
  <2> QED BY <2>1, <2>2 DEF GridInv, RenameInv, RenameReloads
<1>2. CASE ~Concerns(ddl)
  <2>1. Reloaded({"drop"}) /\ UNCHANGED <<viewVars, gridVars, era>>
        /\ astray' = (astray \/ ElsewhereNow)
    BY <1>2 DEF TableDropped, viewVars, gridVars
  <2> QED BY <1>2, <2>1, ReloadedKeepsGrid
<1> QED BY <1>1, <1>2

\* The rows of the grid go with the table; the loads under way are left behind.
LEMMA TableRenamedKeepsGrid == ASSUME StateInv, GridInv, TableRenamed PROVE GridInv'
<1>1. ddl # NoDdl /\ ddl.stage = "reloading" /\ ddl' = NoDdl /\ ddl \in Ddl
      /\ ddl.kind = "rename" /\ schema'.file = ddl.under /\ UNCHANGED db
  BY ReloadedKeepsState DEF TableRenamed, Reloaded
<1>2. CASE Concerns(ddl)
  <2>1. /\ selectedTable' = ddl.name /\ era' = era + 1
        /\ tableRows' = [i \in DOMAIN tableRows |-> [tableRows[i] EXCEPT !.table = ddl.name]]
        /\ astray' = (astray \/ ElsewhereNow \/ ddl.under # ddl.file)
        /\ UNCHANGED <<browseSort, browseFilter, loadOffset, isLoadingTable, loads>>
    BY <1>2 DEF TableRenamed
  <2>2. RenameInv'
    BY <1>1 DEF RenameInv, RenameReloads
  <2>3. era \in Nat /\ \A l \in loads : l.era \in Nat /\ l.era <= era
    BY DEF StateInv, HistoryType, GridType, Load, GridInv
  <2>4. \A l \in loads' : l.era <= era' /\ l.era # era'
    BY <2>1, <2>3
  <2>5. ASSUME ~astray' PROVE GridRows' /\ NextPage' /\ LiveLoads'
    <3>1. selectedTable # NoTable /\ selectedTable = ddl.table
      BY <1>1, <1>2, SqliteAssumption DEF Concerns, Ddl
    <3>2. ~astray /\ ddl.under = schema.file /\ ddl.file = schema.file
      BY <2>1, <2>5, <3>1 DEF ElsewhereNow
    <3>3. GridRows /\ NextPage
      BY <3>1, <3>2 DEF GridInv
    <3>4. /\ tableRows \in Seq(Row) /\ Len(tableRows) \in Nat
          /\ DOMAIN tableRows = 1 .. Len(tableRows)
      BY DEF StateInv, GridType
    <3> PICK new : new = tableRows'
      OBVIOUS
    <3>5. /\ DOMAIN new = DOMAIN tableRows
          /\ \A i \in DOMAIN new :
               /\ new[i].key = tableRows[i].key /\ new[i].file = tableRows[i].file
               /\ new[i].table = ddl.name
      <4>1. \A i \in DOMAIN tableRows : tableRows[i] \in Row
        BY <3>4
      <4>2. new = [i \in DOMAIN tableRows |-> [tableRows[i] EXCEPT !.table = ddl.name]]
        BY <2>1
      <4> QED BY <4>1, <4>2 DEF Row
    <3>6. Len(new) = Len(tableRows)
      <4>1. tableRows' \in Seq(Row)
        BY TableRenamedKeepsState DEF StateInv, GridType
      <4>2. new \in Seq(Row)
        BY <4>1
      <4>3. DOMAIN new = 1 .. Len(new) /\ Len(new) \in Nat
        BY <4>2
      <4> QED BY <3>4, <3>5, <4>3
    <3>7. schema'.file = schema.file
      BY <1>1, <3>2
    <3>8. ASSUME NEW i \in DOMAIN new
          PROVE  /\ new[i].file = schema.file /\ new[i].table = ddl.name
                 /\ browseFilter \in {new[i].key, NoFilter}
                 /\ \A j \in 1 .. i - 1 : Precedes(browseSort, new[j].key, new[i].key)
      <4>1. i \in DOMAIN tableRows /\ \A j \in 1 .. i - 1 : j \in DOMAIN tableRows
        BY <3>4, <3>5
      <4> QED BY <3>3, <3>5, <4>1 DEF GridRows
    <3>9. loadOffset' = Len(new)
      BY <2>1, <3>3, <3>6 DEF GridRows
    <3>10. GridRows'
      BY <2>1, <3>7, <3>8, <3>9 DEF GridRows
    <3>11. NowNamed = ddl.name /\ NowNamed' = ddl.name
      BY <1>1, <1>2, <2>1, <3>2 DEF NowNamed, RenameReloads
    <3>12. IsThere' = IsThere /\ Content' = Content
      BY <1>1, <3>7, <3>11 DEF IsThere, Content
    <3>13. ASSUME new # <<>>, IsThere
           PROVE  Cardinality(Passed(Content, browseFilter, browseSort, new[Len(new)].key))
                    <= loadOffset
      <4>1. tableRows # <<>>
        <5>1. ASSUME tableRows = <<>> PROVE FALSE
          <6>1. Len(new) = 0
            BY <3>6, <5>1
          <6>2. new \in Seq(Row)
            BY TableRenamedKeepsState DEF StateInv, GridType
          <6> QED BY <3>13, <6>1, <6>2
        <5> QED BY <5>1
      <4>2. Len(tableRows) \in DOMAIN tableRows
        BY <3>4, <4>1
      <4>3. new[Len(new)].key = tableRows[Len(tableRows)].key
        BY <3>5, <3>6, <4>2
      <4> QED BY <3>3, <3>13, <4>1, <4>3 DEF NextPage
    <3>14. NextPage'
      BY <2>1, <3>12, <3>13 DEF NextPage, Passed, Present, Precedes
    <3> QED BY <2>4, <3>10, <3>14 DEF LiveLoads
  <2> QED BY <2>2, <2>4, <2>5 DEF GridInv
<1>3. CASE ~Concerns(ddl)
  <2>1. Reloaded({"rename"}) /\ UNCHANGED <<viewVars, gridVars, era>>
        /\ astray' = (astray \/ ElsewhereNow)
    BY <1>3 DEF TableRenamed, viewVars, gridVars
  <2> QED BY <1>3, <2>1, ReloadedKeepsGrid
<1> QED BY <1>2, <1>3

\* Other contents of one table, with no row more.
LEMMA RowsWrittenKeepsGrid ==
  ASSUME StateInv, GridInv, UNCHANGED <<schema, viewVars, gridVars, ddl, era>>,
         NEW f \in Files, NEW t \in DOMAIN db[f], NEW rows,
         db' = [db EXCEPT ![f][t] = rows],
         ~astray' => ~astray /\ Present(rows) \subseteq Present(db[f][t])
  PROVE  GridInv'
<1>1. /\ \A g \in Files : DOMAIN db'[g] = DOMAIN db[g]
      /\ \A g \in Files : \A s \in DOMAIN db[g] :
           db'[g][s] = db[g][s] \/ (db'[g][s] = rows /\ g = f /\ s = t)
  BY DEF StateInv, DbType
<1>2. ddl # NoDdl => ddl.file \in Files
  BY DEF StateInv, DdlType, Ddl
<1>3. RenameInv'
  BY <1>1, <1>2 DEF GridInv, RenameInv, RenameReloads
<1>4. NowNamed' = NowNamed
  BY DEF NowNamed, RenameReloads, Concerns, viewVars
<1>5. ASSUME ~astray', selectedTable # NoTable
      PROVE  IsThere' => IsThere /\ Present(Content') \subseteq Present(Content)
  <2>1. schema.file \in Files
    BY <1>5 DEF StateInv, OpenInv
  <2>2. IsThere' = IsThere
    BY <1>1, <1>4, <2>1 DEF IsThere
  <2>3. IsThere => Content' = Content \/ (Content' = rows /\ Content = db[f][t])
    BY <1>1, <1>4, <2>1 DEF IsThere, Content
  <2> QED BY <1>5, <2>2, <2>3
<1>6. ~astray' => ~astray
  OBVIOUS
<1> QED BY <1>3, <1>5, <1>6, GridKept

LEMMA ApplySucceedsKeepsGrid == ASSUME StateInv, GridInv, ApplySucceeds PROVE GridInv'
<1>1. applying # NoApply /\ BatchCommits /\ UNCHANGED <<fileVars, ddl>>
      /\ ShowView(applying.table, NoFilter, <<>>)
  BY DEF ApplySucceeds
<1>2. applying.file \in Files /\ applying.table \in TableNames /\ schema'.file \in Files
  BY <1>1, BatchCommitsIs DEF Applying, StateInv, OpenInv, fileVars
<1>3. PICK rows : db' = [db EXCEPT ![applying.file][applying.table] = rows]
  BY <1>1, BatchCommitsIs
<1>4. \A g \in Files : DOMAIN db'[g] = DOMAIN db[g]
  BY <1>2, <1>3 DEF StateInv, DbType
<1>5. RenameInv'
  <2>1. ddl # NoDdl => ddl.file \in Files
    BY DEF StateInv, DdlType, Ddl
  <2> QED BY <1>1, <1>4, <2>1 DEF GridInv, RenameInv, RenameReloads
<1>6. NoFilter \in Keys \cup {NoFilter}
  OBVIOUS
<1> QED BY <1>1, <1>2, <1>5, <1>6, ShowViewKeepsGrid

LEMMA ApplyFailsKeepsGrid ==
  ASSUME StateInv, GridInv, NEW lostReply \in BOOLEAN, ApplyFails(lostReply) PROVE GridInv'
<1>1. UNCHANGED <<schema, viewVars, gridVars, ddl, era>> /\ applying # NoApply
  BY DEF ApplyFails, fileVars
<1>2. CASE lostReply
  <2>1. BatchCommits /\ astray' = (astray \/ \E op \in ToSet(applying.ops) : op.kind = "insert")
    BY <1>2 DEF ApplyFails
  <2>2. PICK rows \in Tables :
          /\ db' = [db EXCEPT ![applying.file][applying.table] = rows]
          /\ (\A op \in ToSet(applying.ops) : op.kind # "insert")
               => Present(rows) \subseteq Present(db[applying.file][applying.table])
    BY <1>1, <2>1, BatchCommitsIs
  <2>3. applying.file \in Files /\ applying.table \in DOMAIN db[applying.file]
    BY <1>1, <2>1, BatchCommitsIs DEF Applying, HasTable
  <2>4. ~astray' => ~astray /\ Present(rows) \subseteq Present(db[applying.file][applying.table])
    BY <2>1, <2>2
  <2> QED BY <1>1, <2>2, <2>3, <2>4, RowsWrittenKeepsGrid
<1>3. CASE ~lostReply
  <2>1. UNCHANGED <<db, astray>>
    BY <1>3 DEF ApplyFails
  <2> QED BY <1>1, <2>1, GridFrame
<1> QED BY <1>2, <1>3

LEMMA TheyWriteKeepsGrid ==
  ASSUME StateInv, GridInv, NEW f \in Files, NEW t \in DOMAIN db[f], NEW k \in Keys,
         NEW w \in {"theirs", "nobody"}, TheyWrite(f, t, k, w)
  PROVE  GridInv'
<1>1. UNCHANGED <<schema, viewVars, gridVars, ddl, era, astray>> /\ db[f][t][k] # "nobody"
      /\ db' = [db EXCEPT ![f][t][k] = w]
  BY DEF TheyWrite, fileVars
<1>2. PICK rows : rows = [db[f][t] EXCEPT ![k] = w]
  OBVIOUS
<1>3. db[f][t] \in Tables
  BY DEF StateInv, DbType
<1>4. Present(rows) \subseteq Present(db[f][t])
  BY <1>1, <1>2, <1>3 DEF Present, Tables
<1>5. db' = [db EXCEPT ![f][t] = rows]
  BY <1>1, <1>2
<1>6. UNCHANGED <<schema, viewVars, gridVars, ddl, era>>
      /\ (~astray' => ~astray /\ Present(rows) \subseteq Present(db[f][t]))
  BY <1>1, <1>4
<1> QED BY <1>5, <1>6, RowsWrittenKeepsGrid

LEMMA GridStep == ASSUME StateInv, GridInv, [Next]_vars PROVE GridInv'
<1>1. CASE UNCHANGED vars
  BY <1>1, GridFrame DEF vars, fileVars
<1>2. CASE UserActs
  <2>1. CASE \/ \E f \in Files : OpenFile(f)
             \/ \E t \in TableNames : OpenTableSettings(t)
             \/ CloseTableSettings \/ EditTab
    <3>1. UNCHANGED <<db, schema, viewVars, gridVars, ddl, era, astray>>
      BY <2>1, EditTabIs DEF OpenFile, OpenTableSettings, CloseTableSettings, fileVars
    <3> QED BY <3>1, GridFrame
  <2>2. CASE \/ \E t \in TableNames : SelectTable(t)
             \/ \E t \in TableNames, k \in Keys : NavigateToReference(t, k)
             \/ \E i \in DOMAIN browseNavStack : NavigateBack(i)
    BY <2>2, ChangingTheViewKeepsGrid
  <2>3. CASE LoadMoreRows \/ ToggleBrowseSort
    BY <2>3, LoadMoreRowsKeepsGrid, ToggleBrowseSortKeepsGrid
  <2>4. ASSUME NEW kind \in {"create", "rename", "drop", "alter", "other"}, NEW t \in TableNames,
               NEW name \in TableNames, BeginDdl(kind, t, name)
        PROVE  GridInv'
    BY <2>4, BeginDdlKeepsGrid
  <2> QED BY <1>2, <2>1, <2>2, <2>3, <2>4 DEF UserActs, EditTab
<1>3. CASE Replies
  <2>1. ASSUME NEW f \in opening, NEW ok \in BOOLEAN, FileOpened(f, ok) PROVE GridInv'
    BY <2>1, FileOpenedKeepsGrid
  <2>2. ASSUME NEW l \in loads, NEW ok \in BOOLEAN, LoadArrives(l, ok) PROVE GridInv'
    BY <2>2, LoadArrivesKeepsGrid
  <2>3. ASSUME NEW ok \in BOOLEAN, DdlRuns(ok) PROVE GridInv'
    BY <2>3, DdlRunsKeepsGrid
  <2>4. CASE TableRenamed \/ TableDropped \/ ColumnsAltered \/ SchemaReloaded \/ ReloadFails
    BY <2>4, TableRenamedKeepsGrid, TableDroppedKeepsGrid, ColumnsAlteredKeepsGrid,
       SchemaReloadedKeepsGrid, ReloadFailsKeepsGrid
  <2>5. CASE ApplySucceeds
    BY <2>5, ApplySucceedsKeepsGrid
  <2>6. ASSUME NEW lostReply \in BOOLEAN, ApplyFails(lostReply) PROVE GridInv'
    BY <2>6, ApplyFailsKeepsGrid
  <2> QED BY <1>3, <2>1, <2>2, <2>3, <2>4, <2>5, <2>6 DEF Replies
<1>4. CASE TheyAct
  BY <1>4, TheyWriteKeepsGrid DEF TheyAct
<1> QED BY <1>1, <1>2, <1>3, <1>4 DEF Next

(***************************************************************************)
(* Theorems                                                                *)
(***************************************************************************)
LEMMA StateIsTyped == StateInv => TypeOK
<1> SUFFICES ASSUME StateInv PROVE TypeOK
  OBVIOUS
<1>1. /\ \A f \in Files : \A t \in DOMAIN db[f] : t \in TableNames /\ db[f][t] \in [Keys -> Writer]
      /\ browseNavStack \in Seq([table : TableNames, filter : Keys \cup {NoFilter}])
  BY DEF StateInv, DbType, Tables, ViewType, Crumb
<1>2. ddl # NoDdl => /\ ddl.table \in TableNames /\ ddl.file \in Files
                     /\ ddl.kind = "create" \/ modal # NoTable
  BY DEF StateInv, DdlType, Ddl
<1>3. applying # NoApply => applying.ops \in Seq(EditOp) /\ applying.file \in Files
  BY DEF StateInv, EditType, Applying
<1> QED BY <1>1, <1>2, <1>3
  DEF TypeOK, StateInv, FileType, ViewType, GridType, DdlType, EditType, HistoryType

\* Every variable keeps its type, and whatever is done to a table, its rows or its columns
\* has an open file: handlers of the page take input only while one is open, and files are
\* replaced, never closed.
THEOREM StateIsSound == Spec => []StateInv
<1>1. Init => StateInv
  BY InitState
<1>2. StateInv /\ [Next]_vars => StateInv'
  BY StateStep
<1> QED BY <1>1, <1>2, PTL DEF Spec

\* The type invariant, for any files, tables, keys and bounds.
THEOREM TypeCorrect == Spec => []TypeOK
  BY StateIsSound, StateIsTyped, PTL

\* The spinner is never left behind: every request that shows it adds a load, and each
\* reply takes it away, whatever the order of the replies.
THEOREM SpinnersHaveALoad == Spec => []SpinnerHasALoad
<1>1. Init => SpinnerHasALoad
  BY DEF Init, SpinnerHasALoad
<1>2. ASSUME SpinnerHasALoad, [Next]_vars PROVE SpinnerHasALoad'
  <2>1. ASSUME UNCHANGED <<isLoadingTable, loads>> PROVE SpinnerHasALoad'
    BY <1>2, <2>1 DEF SpinnerHasALoad
  <2>2. ASSUME NEW kind, NEW v, NEW offset, NEW n, Request(kind, v, offset, n)
        PROVE  SpinnerHasALoad'
    <3>1. PICK l : loads' = loads \cup {l}
      BY <2>2 DEF Request
    <3> QED BY <3>1 DEF SpinnerHasALoad
  <2>3. ASSUME NEW t, NEW sort, NEW filter, Restart(t, sort, filter) PROVE SpinnerHasALoad'
    BY <2>2, <2>3 DEF Restart
  <2>4. ASSUME NEW t, NEW filter, NEW stack, ShowView(t, filter, stack) PROVE SpinnerHasALoad'
    BY <2>3, <2>4 DEF ShowView
  <2>5. CASE UNCHANGED vars
    BY <2>1, <2>5 DEF vars, gridVars
  <2>6. CASE UserActs
    <3>1. CASE \/ \E f \in Files : OpenFile(f)
               \/ \E t \in TableNames : OpenTableSettings(t)
               \/ CloseTableSettings \/ EditTab
               \/ \E kind \in {"create", "rename", "drop", "alter", "other"},
                     t, name \in TableNames : BeginDdl(kind, t, name)
      <4>1. UNCHANGED gridVars
        BY <3>1, EditTabIs DEF OpenFile, OpenTableSettings, CloseTableSettings, BeginDdl
      <4> QED BY <2>1, <4>1 DEF gridVars
    <3>2. CASE \/ \E t \in TableNames : SelectTable(t)
               \/ \E t \in TableNames, k \in Keys : NavigateToReference(t, k)
               \/ \E i \in DOMAIN browseNavStack : NavigateBack(i)
      BY <2>4, <3>2 DEF SelectTable, NavigateToReference, NavigateBack
    <3>3. CASE LoadMoreRows
      BY <2>2, <3>3 DEF LoadMoreRows
    <3>4. CASE ToggleBrowseSort
      BY <2>3, <3>4 DEF ToggleBrowseSort
    <3> QED BY <2>6, <3>1, <3>2, <3>3, <3>4 DEF UserActs, EditTab
  <2>7. CASE Replies
    <3>1. ASSUME NEW l \in loads, NEW ok \in BOOLEAN, LoadArrives(l, ok) PROVE SpinnerHasALoad'
      BY <3>1 DEF LoadArrives, EndsTheSpinner, SpinnerHasALoad
    <3>2. CASE \/ \E f \in opening, ok \in BOOLEAN : FileOpened(f, ok)
               \/ \E ok \in BOOLEAN : DdlRuns(ok)
               \/ TableRenamed \/ TableDropped \/ SchemaReloaded \/ ReloadFails
               \/ \E lostReply \in BOOLEAN : ApplyFails(lostReply)
      <4>1. UNCHANGED <<isLoadingTable, loads>>
        BY <3>2 DEF FileOpened, DdlRuns, TableRenamed, TableDropped, SchemaReloaded, ReloadFails,
                    ApplyFails, gridVars
      <4> QED BY <2>1, <4>1
    <3>3. CASE ColumnsAltered
      <4>1. ShowView(ddl.table, NoFilter, <<>>) \/ UNCHANGED <<isLoadingTable, loads>>
        BY <3>3 DEF ColumnsAltered, gridVars
      <4> QED BY <2>1, <2>4, <4>1
    <3>4. CASE ApplySucceeds
      BY <2>4, <3>4 DEF ApplySucceeds
    <3> QED BY <2>7, <3>1, <3>2, <3>3, <3>4 DEF Replies
  <2>8. CASE TheyAct
    BY <2>1, <2>8 DEF TheyAct, TheyWrite, gridVars
  <2> QED BY <1>2, <2>5, <2>6, <2>7, <2>8 DEF Next
<1> QED BY <1>1, <1>2, PTL DEF Spec

\* Staging, unstaging, discarding and applying keep one edit per row, and a row that waits
\* has been carried out only by batches whose reply was lost.
THEOREM EditsAreCounted == Spec => []EditInv
<1>1. Init => EditInv
  BY DEF Init, EditInv, Distinct, StagedIn
<1>2. StateInv /\ EditInv /\ [Next]_vars => EditInv'
  BY EditStep
<1> QED BY <1>1, <1>2, StateIsSound, PTL DEF Spec

\* No row is staged twice, nor for an update and for its deletion.
THEOREM RowsHaveOneEdit == Spec => []OneEditPerRow
<1>1. EditInv => OneEditPerRow
  BY DEF EditInv, Distinct, OneEditPerRow
<1> QED BY <1>1, EditsAreCounted, PTL

\* A staged row is inserted once, and once more for each batch whose reply was lost, for
\* any number of batches and edits.
THEOREM InsertsHappenOnce == Spec => []InsertedOnce
<1>1. EditInv => InsertedOnce
  BY DEF EditInv, InsertedOnce
<1> QED BY <1>1, EditsAreCounted, PTL

\* The grid, the loads under way and the file belong together while nothing has led the
\* grid astray.
THEOREM GridIsSound == Spec => []GridInv
<1>1. Init => GridInv
  BY DEF Init, GridInv, RenameInv, RenameReloads
<1>2. StateInv /\ GridInv /\ [Next]_vars => GridInv'
  BY GridStep
<1> QED BY <1>1, <1>2, StateIsSound, PTL DEF Spec

\* The grid shows rows of the selected table in the order and under the filter chosen, each
\* once, on tables of any size, with any page size, number of loads under way and order of
\* replies.
THEOREM GridsShowTheView == Spec => []GridShowsTheView
  BY GridIsSound, GridRowsShowTheView, PTL

=============================================================================
