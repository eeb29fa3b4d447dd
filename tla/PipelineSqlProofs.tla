------------------------- MODULE PipelineSqlProofs -------------------------
(***************************************************************************)
(* What the compiler tells of a pipeline, for every pipeline, schema and   *)
(* set of variables, and so of the pipeline the store has on show.         *)
(*                                                                         *)
(* Columns: StepTracks says what one step promises, that it tells of the   *)
(* columns it returns if it is told of those it reads; it is proved of     *)
(* every kind of step.  A JOIN promises it only if it is told of its right *)
(* side (Supplied), which ChainTracks, applied to the steps of the         *)
(* subpipeline, gives.  Induction over the steps does the rest.            *)
(*                                                                         *)
(* Ordering: that the ordering is that of an ORDER BY in effect is not     *)
(* inductive.  A step that resets the ordering must not leave an earlier   *)
(* ORDER BY in effect, so OrderedBy adds that there is at most one.        *)
(*                                                                         *)
(* The store: what the compiler promises of the columns needs it to be     *)
(* told those the tables have (IsEnv).  ColumnsInv says when it is.        *)
(*                                                                         *)
(* No induction theorem of the library can be applied to a predicate here, *)
(* so IntervalInduction is stated for sets, and the four recursive         *)
(* functions are each shown to exist before their equation is used.        *)
(***************************************************************************)
EXTENDS CompiledPipeline, PipelineStoreProofs, Integers, FiniteSetTheorems,
        SequenceTheorems, WellFoundedInduction, TLAPS

(***************************************************************************)
(* Numbers and lists                                                       *)
(***************************************************************************)
LEMMA LeastNat ==
  ASSUME NEW S \in SUBSET Nat, S # {}
  PROVE  \E n \in S : \A m \in S : n <= m
<1> DEFINE R == OpToRel(<, Nat)
<1>1. IsWellFoundedOn(R, Nat)
  BY NatLessThanWellFounded
<1>2. \A x, y \in Nat : <<x, y>> \in R <=> x < y
  BY DEF OpToRel
<1> HIDE DEF R
<1>3. PICK n \in S : \A m \in S : ~ (<<m, n>> \in R)
  BY <1>1, WFMin
<1>4. n \in Nat /\ \A m \in S : m \in Nat /\ ~(m < n)
  BY <1>2, <1>3
<1> QED BY <1>4

\* Induction over an interval, for a set instead of a predicate.
LEMMA IntervalInduction ==
  ASSUME NEW n \in Nat, NEW P, 0 \in P, \A i \in 0 .. n - 1 : i \in P => i + 1 \in P
  PROVE  0 .. n \subseteq P
<1> SUFFICES ASSUME ~(0 .. n \subseteq P) PROVE FALSE
  OBVIOUS
<1>1. PICK i \in 0 .. n : i \notin P /\ \A j \in 0 .. n : j \notin P => i <= j
  <2> DEFINE S == {j \in 0 .. n : j \notin P}
  <2>1. S \in SUBSET Nat /\ S # {}
    OBVIOUS
  <2> HIDE DEF S
  <2>2. PICK i \in S : \A j \in S : i <= j
    BY <2>1, LeastNat
  <2> QED BY <2>2 DEF S
<1>2. i # 0 /\ i - 1 \in 0 .. n - 1 /\ i - 1 \in P
  BY <1>1
<1> QED BY <1>1, <1>2

\* A sequence of whatever elements.
IsList(s) == \E n \in Nat : s = [k \in 1 .. n |-> s[k]]

LEMMA ListIs ==
  ASSUME NEW s, NEW n \in Nat, s = [k \in 1 .. n |-> s[k]]
  PROVE  /\ IsList(s)
         /\ Len(s) = n
         /\ DOMAIN s = 1 .. n
         /\ \A S : (\A k \in 1 .. n : s[k] \in S) => s \in Seq(S)
<1>1. IsList(s)
  BY DEF IsList
<1>2. DOMAIN s = 1 .. n
  OBVIOUS
<1>3. ASSUME NEW S, \A k \in 1 .. n : s[k] \in S PROVE s \in Seq(S)
  <2>1. s \in [1 .. n -> S]
    BY <1>3
  <2> QED BY <2>1
<1>4. Len(s) = n
  <2> DEFINE S == {s[k] : k \in 1 .. n}
  <2>1. s \in Seq(S)
    BY <1>3
  <2> QED BY <1>2, <2>1, LenProperties
<1> QED BY <1>1, <1>2, <1>3, <1>4

LEMMA SeqIsList ==
  ASSUME NEW S, NEW s \in Seq(S)
  PROVE  IsList(s) /\ Len(s) \in Nat /\ DOMAIN s = 1 .. Len(s) /\ \A k \in 1 .. Len(s) : s[k] \in S
<1>1. Len(s) \in Nat /\ s \in [1 .. Len(s) -> S] /\ DOMAIN s = 1 .. Len(s)
  BY LenProperties
<1>2. s = [k \in 1 .. Len(s) |-> s[k]]
  BY <1>1
<1> QED BY <1>1, <1>2 DEF IsList

LEMMA ConcatIs ==
  ASSUME NEW s, NEW t, IsList(s), IsList(t)
  PROVE  /\ Len(s) \in Nat /\ Len(t) \in Nat
         /\ DOMAIN s = 1 .. Len(s) /\ DOMAIN t = 1 .. Len(t)
         /\ s \o t = [k \in 1 .. Len(s) + Len(t) |-> IF k <= Len(s) THEN s[k] ELSE t[k - Len(s)]]
         /\ IsList(s \o t)
<1>1. PICK m \in Nat : s = [k \in 1 .. m |-> s[k]]
  BY DEF IsList
<1>2. PICK n \in Nat : t = [k \in 1 .. n |-> t[k]]
  BY DEF IsList
<1>3. Len(s) = m /\ DOMAIN s = 1 .. m /\ Len(t) = n /\ DOMAIN t = 1 .. n
  BY <1>1, <1>2, ListIs
<1> DEFINE S == {s[k] : k \in 1 .. m} \cup {t[k] : k \in 1 .. n}
<1>4. s \in Seq(S) /\ t \in Seq(S)
  <2>1. (\A k \in 1 .. m : s[k] \in S) /\ (\A k \in 1 .. n : t[k] \in S)
    OBVIOUS
  <2> HIDE DEF S
  <2>2. (\A Q : (\A k \in 1 .. m : s[k] \in Q) => s \in Seq(Q))
    BY <1>1, ListIs
  <2>3. (\A Q : (\A k \in 1 .. n : t[k] \in Q) => t \in Seq(Q))
    BY <1>2, ListIs
  <2> QED BY <2>1, <2>2, <2>3
<1> HIDE DEF S
<1> DEFINE u == s \o t
<1>5. u \in Seq(S) /\ Len(u) = m + n
      /\ \A k \in 1 .. m + n : u[k] = IF k <= m THEN s[k] ELSE t[k - m]
  BY <1>3, <1>4, ConcatProperties
<1> HIDE DEF u
<1>6. IsList(u) /\ DOMAIN u = 1 .. m + n /\ u = [k \in 1 .. m + n |-> u[k]]
  <2>1. u \in [1 .. m + n -> S]
    BY <1>5, LenProperties
  <2> QED BY <1>5, <2>1, SeqIsList
<1>7. u = [k \in 1 .. m + n |-> IF k <= m THEN s[k] ELSE t[k - m]]
  BY <1>5, <1>6
<1> QED BY <1>3, <1>6, <1>7 DEF u

LEMMA LenOfConcat ==
  ASSUME NEW s, NEW t, IsList(s), IsList(t)
  PROVE  IsList(s \o t) /\ Len(s \o t) = Len(s) + Len(t) /\ Len(s) \in Nat /\ Len(t) \in Nat
<1> DEFINE u == s \o t
           n == Len(s) + Len(t)
<1>1. Len(s) \in Nat /\ Len(t) \in Nat /\ IsList(u) /\ DOMAIN u = 1 .. n
  BY ConcatIs
<1>2. n \in Nat
  BY <1>1
<1> HIDE DEF u, n
<1>3. PICK m \in Nat : u = [k \in 1 .. m |-> u[k]]
  BY <1>1 DEF IsList
<1>4. Len(u) = m /\ DOMAIN u = 1 .. m
  BY <1>3, ListIs
<1>5. m = n
  BY <1>1, <1>2, <1>4
<1> QED BY <1>1, <1>4, <1>5 DEF u, n

LEMMA AppendIs ==
  ASSUME NEW s, IsList(s), NEW x
  PROVE  /\ Len(s) \in Nat /\ DOMAIN s = 1 .. Len(s)
         /\ Append(s, x) = [k \in 1 .. Len(s) + 1 |-> IF k = Len(s) + 1 THEN x ELSE s[k]]
         /\ IsList(Append(s, x)) /\ Len(Append(s, x)) = Len(s) + 1
<1>1. PICK n \in Nat : s = [k \in 1 .. n |-> s[k]]
  BY DEF IsList
<1>2. Len(s) = n /\ DOMAIN s = 1 .. n
  BY <1>1, ListIs
<1> DEFINE S == {s[k] : k \in 1 .. n} \cup {x}
           u == Append(s, x)
<1>3. s \in Seq(S) /\ x \in S
  <2>1. \A k \in 1 .. n : s[k] \in S
    OBVIOUS
  <2> HIDE DEF S
  <2>2. \A Q : (\A k \in 1 .. n : s[k] \in Q) => s \in Seq(Q)
    BY <1>1, ListIs
  <2>3. s \in Seq(S)
    BY <2>1, <2>2
  <2> QED BY <2>3 DEF S
<1> HIDE DEF S
<1>4. u \in Seq(S) /\ Len(u) = n + 1 /\ u[n + 1] = x /\ \A k \in 1 .. n : u[k] = s[k]
  BY <1>2, <1>3, AppendProperties
<1> HIDE DEF u
<1>5. IsList(u) /\ u \in [1 .. n + 1 -> S]
  BY <1>4, SeqIsList, LenProperties
<1>6. \A k \in 1 .. n + 1 : u[k] = IF k = n + 1 THEN x ELSE s[k]
  BY <1>4
<1>7. u = [k \in 1 .. n + 1 |-> IF k = n + 1 THEN x ELSE s[k]]
  BY <1>5, <1>6
<1> QED BY <1>2, <1>4, <1>5, <1>7 DEF u

LEMMA ElementsAreFinite ==
  ASSUME NEW s, IsList(s)
  PROVE  IsFiniteSet(ToSet(s))
<1>1. PICK n \in Nat : s = [k \in 1 .. n |-> s[k]]
  BY DEF IsList
<1> DEFINE D == 1 .. n
<1>2. IsFiniteSet(D)
  BY FS_Interval
<1>3. s \in Surjection(D, ToSet(s))
  BY <1>1 DEF Surjection, ToSet
<1> HIDE DEF D
<1> QED BY <1>2, <1>3, FS_Surjection

(***************************************************************************)
(* Names                                                                   *)
(***************************************************************************)
\* A name is a list of parts.
IsNames(s) == IsList(s) /\ \A k \in DOMAIN s : IsList(s[k])

LEMMA SingleIs == ASSUME NEW x PROVE IsList(<<x>>) /\ Len(<<x>>) = 1
<1>1. <<x>> = [k \in 1 .. 1 |-> <<x>>[k]]
  OBVIOUS
<1> QED BY <1>1 DEF IsList

LEMMA NamesAre ==
  ASSUME NEW s \in Seq(Name)
  PROVE  IsNames(s)
<1>1. IsList(s) /\ \A k \in DOMAIN s : s[k] \in Seq(STRING)
  BY SeqIsList DEF Name
<1> QED BY <1>1, SeqIsList DEF IsNames

LEMMA NumberedIs ==
  ASSUME NEW name, IsList(name), NEW n \in Nat
  PROVE  IsList(Numbered(name, n)) /\ Len(Numbered(name, n)) = Len(name) + 1 + n
<1> DEFINE strokes == [k \in 1 .. n |-> "|"]
           mark == <<"_">>
           first == name \o mark
<1>1. IsList(strokes) /\ Len(strokes) = n
  <2>1. strokes = [k \in 1 .. n |-> strokes[k]]
    OBVIOUS
  <2> HIDE DEF strokes
  <2> QED BY <2>1, ListIs
<1>2. IsList(mark) /\ Len(mark) = 1
  BY SingleIs
<1> HIDE DEF strokes, mark
<1>3. IsList(first) /\ Len(first) = Len(name) + 1
  BY <1>2, LenOfConcat
<1> HIDE DEF first
<1>4. IsList(first \o strokes) /\ Len(first \o strokes) = Len(name) + 1 + n
  BY <1>1, <1>3, LenOfConcat
<1> QED BY <1>4 DEF Numbered, first, mark, strokes

\* The first free number is found among one more than there are names taken.
LEMMA UniqueNameIsNew ==
  ASSUME NEW name, IsList(name), NEW taken, IsFiniteSet(taken)
  PROVE  IsList(UniqueName(name, taken)) /\ UniqueName(name, taken) \notin taken
<1>1. CASE name \notin taken
  BY <1>1 DEF UniqueName
<1>2. CASE name \in taken
  <2> DEFINE c == Cardinality(taken)
             D == 2 .. c + 2
             g == [n \in D |-> Numbered(name, n)]
             S == {n \in D : Numbered(name, n) \notin taken}
             ok(n) == /\ Numbered(name, n) \notin taken
                      /\ \A m \in 2 .. n - 1 : Numbered(name, m) \in taken
  <2>1. c \in Nat
    BY FS_CardinalityType
  <2> HIDE DEF c
  <2>2. IsFiniteSet(D) /\ Cardinality(D) = c + 1
    BY <2>1, FS_Interval
  <2>3. S # {}
    <3> SUFFICES ASSUME S = {} PROVE FALSE
      OBVIOUS
    <3>1. g \in [D -> taken]
      OBVIOUS
    <3> HIDE DEF D, g, S
    <3>2. Cardinality(taken) < Cardinality(D)
      BY <2>1, <2>2 DEF c
    <3>3. PICK x \in D, y \in D : x # y /\ g[x] = g[y]
      BY <2>2, <3>1, <3>2, FS_PigeonHole
    <3>4. x \in Nat /\ y \in Nat /\ Numbered(name, x) = Numbered(name, y)
      BY <2>1, <3>3 DEF D, g
    <3>5. Len(name) \in Nat
      BY LenOfConcat
    <3>6. Len(name) + 1 + x = Len(name) + 1 + y
      BY <3>4, NumberedIs
    <3> QED BY <3>3, <3>4, <3>5, <3>6
  <2>4. S \in SUBSET Nat
    BY <2>1
  <2> HIDE DEF S
  <2>5. PICK least \in S : \A m \in S : least <= m
    BY <2>3, <2>4, LeastNat
  <2>6. least \in D /\ ok(least)
    <3>1. least \in D /\ Numbered(name, least) \notin taken
      BY <2>5 DEF S
    <3>2. ASSUME NEW m \in 2 .. least - 1, Numbered(name, m) \notin taken PROVE FALSE
      <4>1. m \in D /\ m < least
        BY <2>1, <3>1
      <4>2. m \in S
        BY <3>2, <4>1 DEF S
      <4> QED BY <2>1, <2>5, <3>1, <4>1, <4>2
    <3> QED BY <3>1, <3>2
  <2> DEFINE n == CHOOSE m \in D : ok(m)
  <2>7. n \in D /\ ok(n)
    BY <2>6
  <2>8. UniqueName(name, taken) = Numbered(name, n)
    BY <1>2 DEF UniqueName, c
  <2> HIDE DEF n
  <2>9. n \in Nat
    BY <2>1, <2>7
  <2> QED BY <2>7, <2>8, <2>9, NumberedIs
<1> QED BY <1>1, <1>2

\* The written ones among a step's items are items of the step.
LEMMA WrittenIs ==
  ASSUME NEW S, NEW items \in Seq(S)
  PROVE  /\ Written(items) \in Seq(S)
         /\ \A k \in DOMAIN Written(items) : \E i \in DOMAIN items : Written(items)[k] = items[i]
<1> DEFINE len == Len(items)
           Q == {items[i] : i \in 1 .. len}
           F(g, k) == IF k = 0 THEN <<>>
                      ELSE IF IsBlank(items[k].expr) THEN g[k - 1] ELSE Append(g[k - 1], items[k])
           Def(g, m) == g = [k \in 0 .. m |-> F(g, k)]
           kept == CHOOSE g : Def(g, len)
           Reached == {m \in 0 .. len : \E g : Def(g, m)}
           P == {m \in 0 .. len : kept[m] \in Seq(Q)}
<1>1. len \in Nat /\ DOMAIN items = 1 .. len
  BY LenProperties
<1>2. Written(items) = kept[len]
  BY DEF Written
<1> HIDE DEF len
<1>3. 0 \in Reached
  <2>1. Def([k \in 0 .. 0 |-> <<>>], 0)
    OBVIOUS
  <2> HIDE DEF Def
  <2> QED BY <1>1, <2>1
<1>4. ASSUME NEW m \in 0 .. len - 1, m \in Reached PROVE m + 1 \in Reached
  <2>1. PICK g : Def(g, m)
    BY <1>4
  <2> DEFINE h == [k \in 0 .. m + 1 |-> IF k = m + 1 THEN F(g, m + 1) ELSE g[k]]
  <2>2. \A k \in 0 .. m + 1 : h[k] = F(h, k)
    <3> SUFFICES ASSUME NEW k \in 0 .. m + 1 PROVE h[k] = F(h, k)
      OBVIOUS
    <3>1. k # 0 => k - 1 \in 0 .. m /\ k - 1 \in 0 .. m + 1 /\ k - 1 # m + 1
      BY <1>1
    <3>2. k # 0 => h[k - 1] = g[k - 1]
      BY <3>1
    <3>3. F(h, k) = F(g, k)
      BY <3>2
    <3>4. k # m + 1 => g[k] = F(g, k)
      <4>1. k # m + 1 => k \in 0 .. m
        BY <1>1
      <4> HIDE DEF F
      <4> QED BY <2>1, <4>1
    <3> HIDE DEF F
    <3> QED BY <3>3, <3>4
  <2>3. Def(h, m + 1)
    <3> HIDE DEF F
    <3> QED BY <2>2
  <2> HIDE DEF Def, h
  <2> QED BY <1>1, <2>3
<1>5. len \in Reached
  <2> HIDE DEF Reached
  <2>1. \A m \in 0 .. len - 1 : m \in Reached => m + 1 \in Reached
    BY <1>4
  <2>2. 0 .. len \subseteq Reached
    BY <1>1, <1>3, <2>1, IntervalInduction
  <2> QED BY <1>1, <2>2
<1>6. Def(kept, len)
  <2> HIDE DEF Def
  <2> QED BY <1>5
<1> HIDE DEF kept
<1>7. \A k \in 0 .. len : kept[k] = F(kept, k)
  <2> HIDE DEF F
  <2> QED BY <1>6
<1> HIDE DEF Def, Reached
<1>8. 0 \in P
  <2>1. kept[0] = <<>>
    BY <1>1, <1>7
  <2>2. <<>> \in Seq(Q) /\ 0 \in 0 .. len
    BY <1>1, EmptySeq
  <2> HIDE DEF Q, F
  <2> QED BY <2>1, <2>2
<1>9. ASSUME NEW m \in 0 .. len - 1, m \in P PROVE m + 1 \in P
  <2>1. m + 1 \in 1 .. len /\ m + 1 \in 0 .. len /\ m + 1 # 0 /\ (m + 1) - 1 = m
    BY <1>1
  <2>2. kept[m + 1] = IF IsBlank(items[m + 1].expr) THEN kept[m] ELSE Append(kept[m], items[m + 1])
    BY <1>7, <2>1
  <2>3. items[m + 1] \in Q /\ kept[m] \in Seq(Q)
    BY <1>9, <2>1
  <2> HIDE DEF Q
  <2>4. Append(kept[m], items[m + 1]) \in Seq(Q)
    BY <2>3
  <2> QED BY <2>1, <2>2, <2>3, <2>4
<1>10. kept[len] \in Seq(Q)
  <2> HIDE DEF P
  <2>1. \A m \in 0 .. len - 1 : m \in P => m + 1 \in P
    BY <1>9
  <2>2. 0 .. len \subseteq P
    BY <1>1, <1>8, <2>1, IntervalInduction
  <2> QED BY <1>1, <2>2 DEF P
<1>11. Q \subseteq S
  BY <1>1, ElementOfSeq DEF len
<1>12. Written(items) \in Seq(Q)
  BY <1>2, <1>10
<1>13. Written(items) \in Seq(S)
  BY <1>11, <1>12, SeqMonotonic
<1>14. ASSUME NEW k \in DOMAIN Written(items)
       PROVE  \E i \in DOMAIN items : Written(items)[k] = items[i]
  <2>1. Written(items)[k] \in Q
    BY <1>12, SeqIsList
  <2> QED BY <1>1, <2>1
<1> QED BY <1>13, <1>14

\* The joined columns have names that differ from each other and from those on the left,
\* however many there are and whatever numbers other names already carry.
THEOREM JoinedNamesDiffer ==
  ASSUME NEW left, IsNames(left.names), NEW right, IsNames(right), NEW alias
  PROVE  /\ IsNames(Projected(left, right, alias))
         /\ Len(Projected(left, right, alias)) = Len(right)
         /\ IsInjective(Projected(left, right, alias))
         /\ \A k \in DOMAIN Projected(left, right, alias) :
              Projected(left, right, alias)[k] \notin ToSet(left.names)
<1> DEFINE len == Len(right)
           taken(s) == ToSet(left.names) \cup ToSet(s)
           preferred(s, k) == IF left.known /\ right[k] \notin taken(s) THEN right[k]
                              ELSE <<alias>> \o right[k]
           F(g, k) == IF k = 0 THEN <<>>
                      ELSE Append(g[k - 1], UniqueName(preferred(g[k - 1], k), taken(g[k - 1])))
           Def(g, m) == g = [k \in 0 .. m |-> F(g, k)]
           names == CHOOSE g : Def(g, len)
           Reached == {m \in 0 .. len : \E g : Def(g, m)}
           New(s) == \A k \in DOMAIN s : s[k] \notin ToSet(left.names)
           P == {m \in 0 .. len : /\ IsNames(names[m]) /\ Len(names[m]) = m
                                   /\ IsInjective(names[m]) /\ New(names[m])}
<1>1. len \in Nat /\ DOMAIN right = 1 .. len
  BY AppendIs DEF IsNames
<1>2. Projected(left, right, alias) = names[len]
  BY DEF Projected
<1> HIDE DEF len, taken, preferred
<1>3. 0 \in Reached
  <2>1. Def([k \in 0 .. 0 |-> <<>>], 0)
    OBVIOUS
  <2> HIDE DEF Def
  <2> QED BY <1>1, <2>1
<1>4. ASSUME NEW m \in 0 .. len - 1, m \in Reached PROVE m + 1 \in Reached
  <2>1. PICK g : Def(g, m)
    BY <1>4
  <2> DEFINE h == [k \in 0 .. m + 1 |-> IF k = m + 1 THEN F(g, m + 1) ELSE g[k]]
  <2>2. \A k \in 0 .. m + 1 : h[k] = F(h, k)
    <3> SUFFICES ASSUME NEW k \in 0 .. m + 1 PROVE h[k] = F(h, k)
      OBVIOUS
    <3>1. k # 0 => k - 1 \in 0 .. m /\ k - 1 \in 0 .. m + 1 /\ k - 1 # m + 1
      BY <1>1
    <3>2. k # 0 => h[k - 1] = g[k - 1]
      BY <3>1
    <3>3. F(h, k) = F(g, k)
      BY <3>2
    <3>4. k # m + 1 => g[k] = F(g, k)
      <4>1. k # m + 1 => k \in 0 .. m
        BY <1>1
      <4> HIDE DEF F
      <4> QED BY <2>1, <4>1
    <3> HIDE DEF F
    <3> QED BY <3>3, <3>4
  <2>3. Def(h, m + 1)
    <3> HIDE DEF F
    <3> QED BY <2>2
  <2> HIDE DEF Def, h
  <2> QED BY <1>1, <2>3
<1>5. len \in Reached
  <2> HIDE DEF Reached
  <2>1. \A m \in 0 .. len - 1 : m \in Reached => m + 1 \in Reached
    BY <1>4
  <2>2. 0 .. len \subseteq Reached
    BY <1>1, <1>3, <2>1, IntervalInduction
  <2> QED BY <1>1, <2>2
<1>6. Def(names, len)
  <2> HIDE DEF Def
  <2> QED BY <1>5
<1> HIDE DEF names
<1>7. \A k \in 0 .. len : names[k] = F(names, k)
  <2> HIDE DEF F
  <2> QED BY <1>6
<1> HIDE DEF Def, Reached
<1>8. 0 \in P
  <2>1. names[0] = <<>> /\ 0 \in 0 .. len
    BY <1>1, <1>7
  <2>2. <<>> = [k \in 1 .. 0 |-> <<>>[k]]
    OBVIOUS
  <2>3. IsList(<<>>) /\ Len(<<>>) = 0 /\ DOMAIN <<>> = {}
    BY <2>2 DEF IsList
  <2>4. IsNames(<<>>) /\ IsInjective(<<>>) /\ New(<<>>)
    BY <2>3 DEF IsNames, IsInjective
  <2> HIDE DEF New
  <2> QED BY <2>1, <2>3, <2>4
<1>9. ASSUME NEW m \in 0 .. len - 1, m \in P PROVE m + 1 \in P
  <2>1. m + 1 \in 1 .. len /\ m + 1 \in 0 .. len /\ m + 1 # 0 /\ (m + 1) - 1 = m /\ m \in Nat
    BY <1>1
  <2> DEFINE s == names[m]
             name == preferred(s, m + 1)
             x == UniqueName(name, taken(s))
  <2>2. IsNames(s) /\ Len(s) = m /\ IsInjective(s) /\ New(s)
    BY <1>9
  <2>3. names[m + 1] = Append(s, x)
    BY <1>7, <2>1
  <2>4. IsList(name)
    <3>1. IsList(right[m + 1])
      BY <1>1, <2>1 DEF IsNames
    <3>2. IsList(<<alias>> \o right[m + 1])
      BY <3>1, SingleIs, LenOfConcat
    <3> QED BY <3>1, <3>2 DEF preferred
  <2>5. IsFiniteSet(taken(s))
    <3>1. IsFiniteSet(ToSet(left.names)) /\ IsFiniteSet(ToSet(s))
      BY <2>2, ElementsAreFinite DEF IsNames
    <3> QED BY <3>1, FS_Union DEF taken
  <2> HIDE DEF name, s
  <2>6. IsList(x) /\ x \notin taken(s)
    BY <2>4, <2>5, UniqueNameIsNew
  <2> HIDE DEF x, New
  <2> DEFINE t == Append(s, x)
  <2>7. /\ t = [k \in 1 .. m + 1 |-> IF k = m + 1 THEN x ELSE s[k]]
        /\ DOMAIN s = 1 .. m /\ IsList(t) /\ Len(t) = m + 1
    BY <2>2, AppendIs DEF IsNames
  <2> HIDE DEF t
  <2>8. DOMAIN t = 1 .. m + 1 /\ \A k \in 1 .. m + 1 : t[k] = IF k = m + 1 THEN x ELSE s[k]
    BY <2>7
  <2>9. \A k \in 1 .. m + 1 : k # m + 1 => k \in DOMAIN s
    BY <2>1, <2>7
  <2>10. IsNames(t)
    BY <2>2, <2>6, <2>7, <2>8, <2>9 DEF IsNames
  <2>11. \A k \in DOMAIN s : x # s[k]
    BY <2>6 DEF taken, ToSet
  <2>12. IsInjective(t)
    BY <2>2, <2>8, <2>9, <2>11 DEF IsInjective
  <2>13. New(t)
    <3>1. x \notin ToSet(left.names)
      BY <2>6 DEF taken
    <3> QED BY <2>2, <2>8, <2>9, <3>1 DEF New
  <2> QED BY <2>1, <2>3, <2>7, <2>10, <2>12, <2>13 DEF t
<1>10. len \in P
  <2> HIDE DEF P
  <2>1. \A m \in 0 .. len - 1 : m \in P => m + 1 \in P
    BY <1>9
  <2>2. 0 .. len \subseteq P
    BY <1>1, <1>8, <2>1, IntervalInduction
  <2> QED BY <1>1, <2>2
<1> HIDE DEF F
<1> QED BY <1>2, <1>10 DEF len

LEMMA NamesOfConcat ==
  ASSUME NEW s, NEW t, IsList(s), IsList(t)
  PROVE  NamesOf(s \o t) = NamesOf(s) \o NamesOf(t)
<1>1. /\ Len(s) \in Nat /\ Len(t) \in Nat
      /\ DOMAIN s = 1 .. Len(s) /\ DOMAIN t = 1 .. Len(t)
      /\ s \o t = [k \in 1 .. Len(s) + Len(t) |-> IF k <= Len(s) THEN s[k] ELSE t[k - Len(s)]]
  BY ConcatIs
<1> DEFINE m == Len(s)
           n == Len(t)
           a == NamesOf(s)
           b == NamesOf(t)
           u == s \o t
<1>2. a = [k \in 1 .. m |-> s[k].name] /\ b = [k \in 1 .. n |-> t[k].name]
  BY <1>1 DEF NamesOf
<1>3. NamesOf(u) = [k \in 1 .. m + n |-> IF k <= m THEN s[k].name ELSE t[k - m].name]
  <2>1. DOMAIN u = 1 .. m + n
    BY <1>1
  <2>2. \A k \in 1 .. m + n : u[k].name = IF k <= m THEN s[k].name ELSE t[k - m].name
    BY <1>1
  <2> HIDE DEF m, n, u
  <2> QED BY <2>1, <2>2 DEF NamesOf
<1>4. m \in Nat /\ n \in Nat
  BY <1>1
<1> HIDE DEF m, n, a, b, u
<1>5. IsList(a) /\ IsList(b) /\ Len(a) = m /\ Len(b) = n
  <2>1. a = [k \in 1 .. m |-> a[k]] /\ b = [k \in 1 .. n |-> b[k]]
    BY <1>2
  <2> QED BY <1>4, <2>1, ListIs
<1>6. a \o b = [k \in 1 .. m + n |-> IF k <= m THEN a[k] ELSE b[k - m]]
  BY <1>5, ConcatIs
<1>7. \A k \in 1 .. m + n : (IF k <= m THEN a[k] ELSE b[k - m])
                             = (IF k <= m THEN s[k].name ELSE t[k - m].name)
  <2> SUFFICES ASSUME NEW k \in 1 .. m + n
               PROVE  (IF k <= m THEN a[k] ELSE b[k - m]) = (IF k <= m THEN s[k].name ELSE t[k - m].name)
    OBVIOUS
  <2>1. CASE k <= m
    <3>1. k \in 1 .. m
      BY <1>4, <2>1
    <3> QED BY <1>2, <2>1, <3>1
  <2>2. CASE ~(k <= m)
    <3>1. k - m \in 1 .. n
      BY <1>4, <2>2
    <3> QED BY <1>2, <2>2, <3>1
  <2> QED BY <2>1, <2>2
<1> QED BY <1>3, <1>6, <1>7 DEF a, b, u

LEMMA ConcatOfNames ==
  ASSUME NEW s, NEW t, IsNames(s), IsNames(t)
  PROVE  /\ IsNames(s \o t)
         /\ IsInjective(s) /\ IsInjective(t) /\ (\A k \in DOMAIN t : t[k] \notin ToSet(s))
              => IsInjective(s \o t)
<1> DEFINE m == Len(s)
           n == Len(t)
           u == s \o t
<1>1. /\ m \in Nat /\ n \in Nat /\ DOMAIN s = 1 .. m /\ DOMAIN t = 1 .. n /\ IsList(u)
      /\ u = [k \in 1 .. m + n |-> IF k <= m THEN s[k] ELSE t[k - m]]
  BY ConcatIs DEF IsNames
<1> HIDE DEF m, n, u
<1>2. /\ DOMAIN u = 1 .. m + n
      /\ \A k \in DOMAIN u : \/ k \in DOMAIN s /\ u[k] = s[k]
                             \/ ~(k <= m) /\ k - m \in DOMAIN t /\ u[k] = t[k - m]
  <2>1. DOMAIN u = 1 .. m + n /\ \A k \in 1 .. m + n : u[k] = IF k <= m THEN s[k] ELSE t[k - m]
    BY <1>1
  <2>2. \A k \in 1 .. m + n : IF k <= m THEN k \in 1 .. m ELSE k - m \in 1 .. n
    BY <1>1
  <2> QED BY <1>1, <2>1, <2>2
<1>3. IsNames(u)
  BY <1>1, <1>2 DEF IsNames
<1>4. ASSUME IsInjective(s), IsInjective(t), \A k \in DOMAIN t : t[k] \notin ToSet(s),
             NEW i \in DOMAIN u, NEW j \in DOMAIN u, u[i] = u[j]
      PROVE  i = j
  <2>1. \A x \in DOMAIN s, y \in DOMAIN t : s[x] # t[y]
    BY <1>4 DEF ToSet
  <2>2. CASE i \in DOMAIN s /\ u[i] = s[i] /\ j \in DOMAIN s /\ u[j] = s[j]
    BY <1>4, <2>2 DEF IsInjective
  <2>3. CASE /\ i - m \in DOMAIN t /\ u[i] = t[i - m]
             /\ j - m \in DOMAIN t /\ u[j] = t[j - m]
    <3>1. i - m = j - m
      BY <1>4, <2>3 DEF IsInjective
    <3> QED BY <1>1, <1>2, <3>1
  <2> QED BY <1>2, <1>4, <2>1, <2>2, <2>3
<1> QED BY <1>3, <1>4 DEF IsInjective, u

(***************************************************************************)
(* A step tells of the columns it returns, given the columns it reads      *)
(***************************************************************************)
IsColumns(columns) == columns.known \in BOOLEAN /\ IsNames(columns.names)

Tracked(rows, columns) == columns.known => IsList(rows) /\ NamesOf(rows) = columns.names

Once(columns) == columns.known => IsInjective(columns.names)

StepTracks(step, input, out) ==
  /\ IsColumns(out.columns)
  /\ \A rows, right :
       Tracked(rows, input.columns) => Tracked(Returned(rows, out.body, right), out.columns)
  /\ IsInjective(Given(step)) /\ Once(input.columns) => Once(out.columns)

LEMMA OutFields ==
  /\ \A columns, ordering, body :
       LET out == Out(columns, ordering, body)
       IN  /\ out.columns = columns /\ out.ordering = ordering /\ out.body = body
           /\ out.isNoop = FALSE /\ out.error = "none"
  /\ \A input : LET out == Passthrough(input)
                IN  /\ out.columns = input.columns /\ out.ordering = input.ordering
                    /\ out.body = AllRows /\ out.isNoop = TRUE /\ out.error = "none"
  /\ \A input, error : LET out == Fails(input, error)
                       IN  /\ out.columns = input.columns /\ out.ordering = input.ordering
                           /\ out.body = AllRows /\ out.isNoop = FALSE /\ out.error = error
BY DEF Out, Passthrough, Fails

LEMMA UnknownIs == Unknown.known = FALSE /\ IsColumns(Unknown)
<1>1. <<>> = [k \in 1 .. 0 |-> <<>>[k]]
  OBVIOUS
<1>2. IsList(<<>>) /\ DOMAIN <<>> = {}
  BY <1>1 DEF IsList
<1>3. IsNames(<<>>)
  BY <1>2 DEF IsNames
<1> QED BY <1>3 DEF Unknown, IsColumns

LEMMA KnownIs == \A names : /\ Known(names).known = TRUE /\ Known(names).names = names
                            /\ IsNames(names) => IsColumns(Known(names))
BY DEF Known, IsColumns

\* A step that lets its input pass, and so one that fails.
LEMMA AllRowsTrack ==
  ASSUME NEW step, NEW input, IsColumns(input.columns), NEW out,
         out.columns = input.columns, out.body = AllRows
  PROVE  StepTracks(step, input, out)
BY DEF StepTracks, Returned, AllRows

LEMMA WhereTracks ==
  ASSUME NEW env, NEW step, NEW input, IsColumns(input.columns)
  PROVE  StepTracks(step, input, Where(env, step, input))
<1>1. /\ Where(env, step, input).columns = input.columns
      /\ Where(env, step, input).body = AllRows
  BY OutFields DEF Where
<1> QED BY <1>1, AllRowsTrack

LEMMA OrderByTracks ==
  ASSUME NEW step, NEW input, IsColumns(input.columns)
  PROVE  StepTracks(step, input, OrderBy(step, input))
<1>1. /\ OrderBy(step, input).columns = input.columns
      /\ OrderBy(step, input).body = AllRows
  BY OutFields DEF OrderBy
<1> QED BY <1>1, AllRowsTrack

LEMMA HiddenTracks ==
  ASSUME NEW step, NEW input, NEW out, out.columns = Unknown
  PROVE  StepTracks(step, input, out)
BY UnknownIs DEF StepTracks, Tracked, Once

LEMMA RawSqlTracks ==
  ASSUME NEW env, NEW step, NEW input, IsColumns(input.columns)
  PROVE  StepTracks(step, input, RawSql(env, step, input))
<1> DEFINE out == RawSql(env, step, input)
<1>1. \/ out.columns = Unknown
      \/ out.columns = input.columns /\ out.body = AllRows
  BY OutFields DEF RawSql
<1> HIDE DEF out
<1>2. StepTracks(step, input, out)
  BY <1>1, AllRowsTrack, HiddenTracks
<1> QED BY <1>2 DEF out

LEMMA SelectTracks ==
  ASSUME NEW env, NEW step, step.type = "SELECT", step.columns \in Seq(SelectItem),
         NEW input, IsColumns(input.columns)
  PROVE  StepTracks(step, input, Select(env, step, input))
<1> DEFINE out == Select(env, step, input)
           items == Written(step.columns)
           names == [k \in DOMAIN items |-> ProjectedName(items[k])]
           starred == \E t \in Exprs(items) : t.is = "star"
<1>1. items \in Seq(SelectItem)
  BY WrittenIs
<1> HIDE DEF items
<1>2. IsNames(names)
  <2>1. Len(items) \in Nat /\ DOMAIN items = 1 .. Len(items)
        /\ \A k \in 1 .. Len(items) : items[k] \in SelectItem
    BY <1>1, SeqIsList
  <2>2. \A k \in 1 .. Len(items) : ProjectedName(items[k]) \in Seq(STRING)
    BY <2>1 DEF SelectItem, Text, Name, ProjectedName
  <2>3. names = [k \in 1 .. Len(items) |-> names[k]] /\ DOMAIN names = 1 .. Len(items)
    BY <2>1
  <2>4. \A k \in 1 .. Len(items) : IsList(names[k])
    BY <2>1, <2>2, SeqIsList
  <2> HIDE DEF names
  <2> QED BY <2>1, <2>3, <2>4 DEF IsNames, IsList
<1>3. \/ out.columns = input.columns /\ out.body = AllRows
      \/ starred /\ out.columns = Unknown
      \/ ~starred /\ out.columns = Known(names) /\ out.body = [is |-> "columns", items |-> items]
  BY OutFields DEF Select, items
<1>4. ASSUME ~starred, out.columns = Known(names), out.body = [is |-> "columns", items |-> items]
      PROVE  StepTracks(step, input, out)
  <2>1. Given(step) = names
    BY DEF Given, items
  <2>2. out.columns.known = TRUE /\ out.columns.names = names /\ IsColumns(out.columns)
    BY <1>2, <1>4, KnownIs
  <2>3. ASSUME NEW rows, NEW right PROVE Tracked(Returned(rows, out.body, right), out.columns)
    <3> DEFINE list == [k \in DOMAIN items |-> Column(ProjectedName(items[k]), Holds(rows, items[k].expr))]
    <3>1. Returned(rows, out.body, right) = list
      <4>1. Returned(rows, out.body, right) = Listed(rows, items)
        BY <1>4 DEF Returned
      <4>2. Listed(rows, items) = list
        BY <1>4 DEF Listed
      <4> QED BY <4>1, <4>2
    <3>2. DOMAIN items = 1 .. Len(items) /\ Len(items) \in Nat
      BY <1>1, SeqIsList
    <3>3. list = [k \in 1 .. Len(items) |-> list[k]]
      BY <3>2
    <3>4. NamesOf(list) = names
      BY DEF NamesOf, Column
    <3> HIDE DEF list
    <3> QED BY <2>2, <3>1, <3>2, <3>3, <3>4 DEF Tracked, IsList
  <2> HIDE DEF names, out
  <2> QED BY <2>1, <2>2, <2>3 DEF StepTracks, Once
<1> HIDE DEF out, names, starred
<1>5. StepTracks(step, input, out)
  BY <1>3, <1>4, AllRowsTrack, HiddenTracks
<1> QED BY <1>5 DEF out

LEMMA GroupByTracks ==
  ASSUME NEW env, NEW step, step.type = "GROUP_BY", step.groupBy \in Seq(Name),
         step.aggregations \in Seq(Aggregation), NEW input, IsColumns(input.columns)
  PROVE  StepTracks(step, input, GroupBy(env, step, input))
<1> DEFINE out == GroupBy(env, step, input)
           keys == step.groupBy
           items == Written(step.aggregations)
           given == [k \in DOMAIN items |-> AggregationName(items[k])]
           names == keys \o given
<1>1. items \in Seq(Aggregation) /\ IsNames(keys)
  BY WrittenIs, NamesAre
<1> HIDE DEF items
<1>2. Len(items) \in Nat /\ DOMAIN items = 1 .. Len(items)
      /\ \A k \in 1 .. Len(items) : items[k] \in Aggregation
  BY <1>1, SeqIsList
<1>3. IsNames(given)
  <2>1. \A k \in 1 .. Len(items) : IsList(AggregationName(items[k]))
    <3> SUFFICES ASSUME NEW k \in 1 .. Len(items) PROVE IsList(AggregationName(items[k]))
      OBVIOUS
    <3>1. items[k].alias \in Seq(STRING)
      BY <1>2 DEF Aggregation, Name
    <3> QED BY <3>1, SeqIsList, SingleIs DEF AggregationName
  <2>2. given = [k \in 1 .. Len(items) |-> given[k]] /\ DOMAIN given = 1 .. Len(items)
    BY <1>2
  <2>3. \A k \in 1 .. Len(items) : IsList(given[k])
    BY <1>2, <2>1
  <2> HIDE DEF given
  <2> QED BY <1>2, <2>2, <2>3 DEF IsNames, IsList
<1>4. \/ out.columns = input.columns /\ out.body = AllRows
      \/ /\ out.columns = Known(names)
         /\ out.body = [is |-> "groups", keys |-> keys, items |-> items]
  BY OutFields DEF GroupBy, items
<1>5. ASSUME out.columns = Known(names),
             out.body = [is |-> "groups", keys |-> keys, items |-> items]
      PROVE  StepTracks(step, input, out)
  <2>1. Given(step) = names
    BY DEF Given, items
  <2>2. IsNames(names)
    <3> HIDE DEF given
    <3> QED BY <1>1, <1>3, ConcatOfNames
  <2>3. out.columns.known = TRUE /\ out.columns.names = names /\ IsColumns(out.columns)
    <3> HIDE DEF names, out
    <3> QED BY <1>5, <2>2, KnownIs
  <2>4. ASSUME NEW rows, NEW right PROVE Tracked(Returned(rows, out.body, right), out.columns)
    <3> DEFINE first == [k \in DOMAIN keys |-> Column(keys[k], Held(rows, keys[k]))]
               rest == [k \in DOMAIN items |-> Column(AggregationName(items[k]),
                                                 <<"computed">> \o AggregationName(items[k]))]
    <3>1. Returned(rows, out.body, right) = first \o rest
      BY <1>5 DEF Returned
    <3>2. NamesOf(first) = keys /\ NamesOf(rest) = given
      <4>1. DOMAIN first = DOMAIN keys /\ \A k \in DOMAIN keys : first[k].name = keys[k]
        BY DEF Column
      <4>2. DOMAIN rest = DOMAIN items /\ \A k \in DOMAIN items : rest[k].name = given[k]
        BY DEF Column
      <4>3. \E n \in Nat : keys = [k \in 1 .. n |-> keys[k]]
        BY <1>1 DEF IsNames, IsList
      <4>4. keys = [k \in DOMAIN keys |-> keys[k]]
        BY <4>3
      <4>5. given = [k \in DOMAIN items |-> given[k]]
        OBVIOUS
      <4> HIDE DEF first, rest, given, keys
      <4> QED BY <4>1, <4>2, <4>4, <4>5 DEF NamesOf
    <3>3. IsList(first) /\ IsList(rest)
      <4>1. PICK n \in Nat : keys = [k \in 1 .. n |-> keys[k]]
        BY <1>1 DEF IsNames, IsList
      <4>2. first = [k \in 1 .. n |-> first[k]]
        BY <4>1
      <4>3. rest = [k \in 1 .. Len(items) |-> rest[k]]
        BY <1>2
      <4> HIDE DEF first, rest
      <4> QED BY <1>2, <4>2, <4>3 DEF IsList
    <3> HIDE DEF first, rest, given
    <3>4. IsList(first \o rest) /\ NamesOf(first \o rest) = names
      BY <3>2, <3>3, LenOfConcat, NamesOfConcat
    <3> HIDE DEF names, out
    <3> QED BY <2>3, <3>1, <3>4 DEF Tracked
  <2> HIDE DEF names, out
  <2> QED BY <2>1, <2>3, <2>4 DEF StepTracks, Once
<1> HIDE DEF out, names
<1>6. StepTracks(step, input, out)
  BY <1>4, <1>5, AllRowsTrack
<1> QED BY <1>6 DEF out

\* What a JOIN reads on its right: a subpipeline, or a table of the schema.
RightColumns(env, step, sub) ==
  IF sub # <<>> THEN Last(sub).columns ELSE ColumnsOf(env, RightTable(step))

LEMMA JoinTracks ==
  ASSUME NEW env, NEW step, step.type = "JOIN", NEW sub, NEW input, IsColumns(input.columns),
         NEW leftAlias, IsColumns(RightColumns(env, step, sub))
  PROVE  /\ StepTracks(step, input, Join(env, step, sub, input, leftAlias))
         /\ LET body == Join(env, step, sub, input, leftAlias).body
            IN  body.is = "join" => /\ body.table = RightTable(step)
                                    /\ body.sub = sub
                                    /\ body.columns = RightColumns(env, step, sub).names
                                    /\ RightColumns(env, step, sub).known
<1> DEFINE out == Join(env, step, sub, input, leftAlias)
           left == input.columns
           right == RightColumns(env, step, sub)
           names == Projected(left, right.names, RightAlias(step))
           body == [is |-> "join", table |-> RightTable(step), sub |-> sub,
                    columns |-> right.names, as |-> names]
<1>1. \/ out.columns = left /\ out.body = AllRows
      \/ /\ right.known
         /\ out.columns = IF left.known THEN Known(left.names \o names) ELSE Unknown
         /\ out.body = body
  <2> DEFINE columns == IF left.known THEN Known(left.names \o names) ELSE Unknown
  <2>1. \/ out = Passthrough(input)
        \/ \E error : out = Fails(input, error)
        \/ right.known /\ out = Out(columns, <<>>, body)
    BY DEF Join, RightColumns
  <2> HIDE DEF out, right, names, body, columns
  <2>2. \/ out.columns = left /\ out.body = AllRows
        \/ right.known /\ out.columns = columns /\ out.body = body
    BY <2>1, OutFields
  <2> QED BY <2>2 DEF columns
<1>2. /\ IsNames(names) /\ Len(names) = Len(right.names) /\ IsInjective(names)
      /\ \A k \in DOMAIN names : names[k] \notin ToSet(left.names)
  <2>1. IsNames(left.names) /\ IsNames(right.names)
    BY DEF IsColumns
  <2> HIDE DEF left, right
  <2> QED BY <2>1, JoinedNamesDiffer
<1>3. out.body.is = "join" => right.known /\ out.body = body
  <2> HIDE DEF out, right, left, names, body
  <2>1. AllRows.is # "join"
    BY DEF AllRows
  <2> QED BY <1>1, <2>1
<1>4. ASSUME left.known, out.columns = Known(left.names \o names), out.body = body
      PROVE  StepTracks(step, input, out)
  <2> DEFINE all == left.names \o names
  <2>1. IsNames(left.names)
    BY DEF IsColumns
  <2> HIDE DEF left, names, out
  <2>2. IsNames(all) /\ (IsInjective(left.names) => IsInjective(all))
    BY <1>2, <2>1, ConcatOfNames
  <2>3. out.columns.known = TRUE /\ out.columns.names = all /\ IsColumns(out.columns)
    <3>1. out.columns = Known(all)
      BY <1>4
    <3> HIDE DEF all
    <3> QED BY <2>2, <3>1, KnownIs
  <2>4. ASSUME NEW rows, NEW other, Tracked(rows, left)
        PROVE  Tracked(Returned(rows, out.body, other), out.columns)
    <3> DEFINE new == [k \in DOMAIN names |-> Column(names[k], Held(other, right.names[k]))]
    <3>1. Returned(rows, out.body, other) = rows \o new
      BY <1>4 DEF Returned
    <3>2. PICK n \in Nat : names = [k \in 1 .. n |-> names[k]]
      BY <1>2 DEF IsNames, IsList
    <3>3. NamesOf(new) = names
      <4>1. DOMAIN new = 1 .. n /\ \A k \in 1 .. n : new[k].name = names[k]
        BY <3>2 DEF Column
      <4> HIDE DEF new
      <4> QED BY <3>2, <4>1 DEF NamesOf
    <3>4. IsList(new)
      <4>1. new = [k \in 1 .. n |-> new[k]]
        BY <3>2
      <4> HIDE DEF new
      <4> QED BY <4>1 DEF IsList
    <3> HIDE DEF new
    <3>5. IsList(rows) /\ NamesOf(rows) = left.names
      BY <1>4, <2>4 DEF Tracked
    <3>6. IsList(rows \o new) /\ NamesOf(rows \o new) = all
      BY <3>3, <3>4, <3>5, LenOfConcat, NamesOfConcat
    <3> HIDE DEF all
    <3> QED BY <2>3, <3>1, <3>6 DEF Tracked
  <2> HIDE DEF all
  <2> QED BY <1>4, <2>2, <2>3, <2>4 DEF StepTracks, Once, left
<1> HIDE DEF body, names, right, out
<1>5. StepTracks(step, input, out)
  <2>1. CASE out.columns = left /\ out.body = AllRows
    BY <2>1, AllRowsTrack
  <2>2. CASE /\ out.columns = IF left.known THEN Known(left.names \o names) ELSE Unknown
             /\ out.body = body
    BY <1>4, <2>2, HiddenTracks
  <2> QED BY <1>1, <2>1, <2>2
<1>6. out.body.is = "join" => /\ out.body.table = RightTable(step) /\ out.body.sub = sub
                              /\ out.body.columns = right.names /\ right.known
  BY <1>3 DEF body
<1> QED BY <1>5, <1>6 DEF out, right

(***************************************************************************)
(* The steps in turn                                                       *)
(***************************************************************************)
LEMMA ChainIs ==
  ASSUME NEW env, NEW columns, NEW ss, Len(ss) \in Nat, NEW alias, NEW subs
  PROVE  LET out == Chain(env, columns, ss, alias, subs)
         IN  /\ IsList(out) /\ Len(out) = Len(ss) /\ DOMAIN out = 1 .. Len(ss)
             /\ \A k \in 1 .. Len(ss) :
                  out[k] = StepOf(env, ss[k], subs[k],
                                  IF k = 1 THEN Out(columns, <<>>, AllRows) ELSE out[k - 1], alias)
<1> DEFINE len == Len(ss)
           F(g, k) == IF k = 0 THEN Out(columns, <<>>, AllRows)
                      ELSE StepOf(env, ss[k], subs[k], g[k - 1], alias)
           Def(g, m) == g = [k \in 0 .. m |-> F(g, k)]
           current == CHOOSE g : Def(g, len)
           Reached == {m \in 0 .. len : \E g : Def(g, m)}
           out == Chain(env, columns, ss, alias, subs)
<1>1. len \in Nat
  OBVIOUS
<1>2. out = [k \in 1 .. len |-> current[k]]
  BY DEF Chain
<1> HIDE DEF len, out
<1>3. 0 \in Reached
  <2>1. Def([k \in 0 .. 0 |-> Out(columns, <<>>, AllRows)], 0)
    OBVIOUS
  <2> HIDE DEF Def
  <2> QED BY <1>1, <2>1
<1>4. ASSUME NEW m \in 0 .. len - 1, m \in Reached PROVE m + 1 \in Reached
  <2>1. PICK g : Def(g, m)
    BY <1>4
  <2> DEFINE h == [k \in 0 .. m + 1 |-> IF k = m + 1 THEN F(g, m + 1) ELSE g[k]]
  <2>2. \A k \in 0 .. m + 1 : h[k] = F(h, k)
    <3> SUFFICES ASSUME NEW k \in 0 .. m + 1 PROVE h[k] = F(h, k)
      OBVIOUS
    <3>1. k # 0 => k - 1 \in 0 .. m /\ k - 1 \in 0 .. m + 1 /\ k - 1 # m + 1
      BY <1>1
    <3>2. k # 0 => h[k - 1] = g[k - 1]
      BY <3>1
    <3>3. F(h, k) = F(g, k)
      BY <3>2
    <3>4. k # m + 1 => g[k] = F(g, k)
      <4>1. k # m + 1 => k \in 0 .. m
        BY <1>1
      <4> HIDE DEF F
      <4> QED BY <2>1, <4>1
    <3> HIDE DEF F
    <3> QED BY <3>3, <3>4
  <2>3. Def(h, m + 1)
    <3> HIDE DEF F
    <3> QED BY <2>2
  <2> HIDE DEF Def, h
  <2> QED BY <1>1, <2>3
<1>5. len \in Reached
  <2> HIDE DEF Reached
  <2>1. \A m \in 0 .. len - 1 : m \in Reached => m + 1 \in Reached
    BY <1>4
  <2>2. 0 .. len \subseteq Reached
    BY <1>1, <1>3, <2>1, IntervalInduction
  <2> QED BY <1>1, <2>2
<1>6. Def(current, len)
  <2> HIDE DEF Def
  <2> QED BY <1>5
<1> HIDE DEF current
<1>7. \A k \in 0 .. len : current[k] = F(current, k)
  <2> HIDE DEF F
  <2> QED BY <1>6
<1> HIDE DEF Def, Reached
<1>8. IsList(out) /\ Len(out) = len /\ DOMAIN out = 1 .. len
  <2>1. out = [k \in 1 .. len |-> out[k]]
    BY <1>2
  <2> QED BY <1>1, <2>1, ListIs
<1>9. ASSUME NEW k \in 1 .. len
      PROVE  out[k] = StepOf(env, ss[k], subs[k],
                             IF k = 1 THEN Out(columns, <<>>, AllRows) ELSE out[k - 1], alias)
  <2>1. k \in 0 .. len /\ k # 0 /\ 0 \in 0 .. len /\ k - 1 \in 0 .. len
        /\ IF k = 1 THEN k - 1 = 0 ELSE k - 1 \in 1 .. len
    BY <1>1
  <2>2. current[k] = StepOf(env, ss[k], subs[k], current[k - 1], alias)
    BY <1>7, <2>1
  <2>3. current[0] = Out(columns, <<>>, AllRows)
    BY <1>7, <2>1
  <2> HIDE DEF F
  <2>4. current[k - 1] = IF k = 1 THEN Out(columns, <<>>, AllRows) ELSE out[k - 1]
    BY <1>2, <2>1, <2>3
  <2> QED BY <1>2, <2>2, <2>4
<1> HIDE DEF F
<1> QED BY <1>8, <1>9 DEF len, out

LEMMA ResultsAre ==
  ASSUME NEW env, NEW table, NEW outputs, Len(outputs) \in Nat, NEW rights
  PROVE  LET rows == Results(env, table, outputs, rights)
         IN  /\ rows[0] = TableRows(env, table)
             /\ \A k \in 1 .. Len(outputs) :
                  rows[k] = Returned(rows[k - 1], outputs[k].body, rights[k])
<1> DEFINE len == Len(outputs)
           F(g, k) == IF k = 0 THEN TableRows(env, table)
                      ELSE Returned(g[k - 1], outputs[k].body, rights[k])
           Def(g, m) == g = [k \in 0 .. m |-> F(g, k)]
           after == CHOOSE g : Def(g, len)
           Reached == {m \in 0 .. len : \E g : Def(g, m)}
           rows == Results(env, table, outputs, rights)
<1>1. len \in Nat
  OBVIOUS
<1>2. rows = after
  BY DEF Results
<1> HIDE DEF len, rows
<1>3. 0 \in Reached
  <2>1. Def([k \in 0 .. 0 |-> TableRows(env, table)], 0)
    OBVIOUS
  <2> HIDE DEF Def
  <2> QED BY <1>1, <2>1
<1>4. ASSUME NEW m \in 0 .. len - 1, m \in Reached PROVE m + 1 \in Reached
  <2>1. PICK g : Def(g, m)
    BY <1>4
  <2> DEFINE h == [k \in 0 .. m + 1 |-> IF k = m + 1 THEN F(g, m + 1) ELSE g[k]]
  <2>2. \A k \in 0 .. m + 1 : h[k] = F(h, k)
    <3> SUFFICES ASSUME NEW k \in 0 .. m + 1 PROVE h[k] = F(h, k)
      OBVIOUS
    <3>1. k # 0 => k - 1 \in 0 .. m /\ k - 1 \in 0 .. m + 1 /\ k - 1 # m + 1
      BY <1>1
    <3>2. k # 0 => h[k - 1] = g[k - 1]
      BY <3>1
    <3>3. F(h, k) = F(g, k)
      BY <3>2
    <3>4. k # m + 1 => g[k] = F(g, k)
      <4>1. k # m + 1 => k \in 0 .. m
        BY <1>1
      <4> HIDE DEF F
      <4> QED BY <2>1, <4>1
    <3> HIDE DEF F
    <3> QED BY <3>3, <3>4
  <2>3. Def(h, m + 1)
    <3> HIDE DEF F
    <3> QED BY <2>2
  <2> HIDE DEF Def, h
  <2> QED BY <1>1, <2>3
<1>5. len \in Reached
  <2> HIDE DEF Reached
  <2>1. \A m \in 0 .. len - 1 : m \in Reached => m + 1 \in Reached
    BY <1>4
  <2>2. 0 .. len \subseteq Reached
    BY <1>1, <1>3, <2>1, IntervalInduction
  <2> QED BY <1>1, <2>2
<1>6. Def(after, len)
  <2> HIDE DEF Def
  <2> QED BY <1>5
<1> HIDE DEF after
<1>7. \A k \in 0 .. len : after[k] = F(after, k)
  <2> HIDE DEF F
  <2> QED BY <1>6
<1> HIDE DEF Def, Reached
<1>8. after[0] = TableRows(env, table)
  BY <1>1, <1>7
<1>9. ASSUME NEW k \in 1 .. len PROVE after[k] = Returned(after[k - 1], outputs[k].body, rights[k])
  <2>1. k \in 0 .. len /\ k # 0
    BY <1>1
  <2> QED BY <1>7, <2>1
<1> HIDE DEF F
<1> QED BY <1>2, <1>8, <1>9 DEF len, rows

\* The contents a step can have, by its type.
LEMMA ContentIs ==
  ASSUME NEW step \in StepContent
  PROVE  \/ step.type = "WHERE"
         \/ step.type = "SELECT" /\ step.columns \in Seq(SelectItem)
         \/ step.type = "ORDER_BY" /\ step.columns \in Seq(Name)
         \/ /\ step.type = "GROUP_BY" /\ step.groupBy \in Seq(Name)
            /\ step.aggregations \in Seq(Aggregation)
         \/ step.type = "RAW_SQL"
         \/ step.type = "JOIN" /\ step.subSteps \in Seq(SubStep)
<1>1. CASE step \in SimpleStep
  BY <1>1 DEF SimpleStep
<1>2. CASE step \in JoinStep({"inline", "branch", "subpipeline"}, Seq(SubStep))
  BY <1>2 DEF JoinStep
<1> QED BY <1>1, <1>2 DEF StepContent

Supplied(env, step, sub) == step.type = "JOIN" => IsColumns(RightColumns(env, step, sub))

LEMMA EveryStepTracks ==
  ASSUME NEW env, NEW step \in StepContent, NEW sub, Supplied(env, step, sub),
         NEW input, IsColumns(input.columns), NEW alias
  PROVE  StepTracks(step, input, StepOf(env, step, sub, input, alias))
<1> DEFINE out == StepOf(env, step, sub, input, alias)
<1>1. CASE step.type = "WHERE"
  <2>1. out = Where(env, step, input)
    BY <1>1 DEF StepOf
  <2> QED BY <2>1, WhereTracks
<1>2. CASE step.type = "SELECT" /\ step.columns \in Seq(SelectItem)
  <2>1. out = Select(env, step, input)
    BY <1>2 DEF StepOf
  <2> QED BY <1>2, <2>1, SelectTracks
<1>3. CASE step.type = "ORDER_BY"
  <2>1. out = OrderBy(step, input)
    BY <1>3 DEF StepOf
  <2> QED BY <2>1, OrderByTracks
<1>4. CASE /\ step.type = "GROUP_BY" /\ step.groupBy \in Seq(Name)
           /\ step.aggregations \in Seq(Aggregation)
  <2>1. out = GroupBy(env, step, input)
    BY <1>4 DEF StepOf
  <2> QED BY <1>4, <2>1, GroupByTracks
<1>5. CASE step.type = "RAW_SQL"
  <2>1. out = RawSql(env, step, input)
    BY <1>5 DEF StepOf
  <2> QED BY <2>1, RawSqlTracks
<1>6. CASE step.type = "JOIN"
  <2>1. out = Join(env, step, sub, input, alias)
    BY <1>6 DEF StepOf
  <2> QED BY <1>6, <2>1, JoinTracks DEF Supplied
<1> HIDE DEF out
<1>7. StepTracks(step, input, out)
  BY <1>1, <1>2, <1>3, <1>4, <1>5, <1>6, ContentIs DEF out
<1> QED BY <1>7 DEF out

\* The columns told of a table are the table's.
IsTold(env, table, columns) ==
  IsColumns(columns) /\ Tracked(TableRows(env, table), columns) /\ Once(columns)

LEMMA ColumnsAreTold ==
  ASSUME NEW env, NEW table, env.tables[table] \in Seq(Name), IsInjective(env.tables[table])
  PROVE  IsTold(env, table, Known(env.tables[table]))
<1> DEFINE names == env.tables[table]
           rows == TableRows(env, table)
<1>1. names \in Seq(Name) /\ IsInjective(names)
  OBVIOUS
<1>2. rows = [k \in DOMAIN names |-> Column(names[k], <<table>> \o names[k])]
  BY DEF TableRows
<1> HIDE DEF names, rows
<1>3. PICK n \in Nat : names = [k \in 1 .. n |-> names[k]]
  <2>1. IsList(names)
    BY <1>1, SeqIsList
  <2> QED BY <2>1 DEF IsList
<1>4. rows = [k \in 1 .. n |-> rows[k]] /\ \A k \in 1 .. n : rows[k].name = names[k]
  BY <1>2, <1>3 DEF Column
<1>5. NamesOf(rows) = names /\ IsList(rows)
  BY <1>3, <1>4 DEF NamesOf, IsList
<1>6. IsNames(names)
  BY <1>1, NamesAre
<1>7. IsTold(env, table, Known(names))
  BY <1>1, <1>5, <1>6, KnownIs DEF rows, IsTold, Tracked, Once
<1> QED BY <1>7 DEF names

LEMMA TableIsTracked ==
  ASSUME NEW env, IsSchema(env), NEW table
  PROVE  IsTold(env, table, ColumnsOf(env, table))
<1>1. CASE table \in DOMAIN env.schema
  <2>1. /\ ColumnsOf(env, table) = Known(env.tables[table])
        /\ env.tables[table] \in Seq(Name) /\ IsInjective(env.tables[table])
    BY <1>1 DEF IsSchema, ColumnsOf
  <2> QED BY <2>1, ColumnsAreTold
<1>2. CASE table \notin DOMAIN env.schema
  <2>1. ColumnsOf(env, table) = Unknown
    BY <1>2 DEF ColumnsOf
  <2> QED BY <2>1, UnknownIs DEF IsTold, Tracked, Once
<1> QED BY <1>1, <1>2

LEMMA SourceIsTracked ==
  ASSUME NEW env, NEW table, IsEnv(env, table)
  PROVE  IsSchema(env) /\ IsTold(env, table, SourceColumns(env, table))
<1>1. IsSchema(env)
  BY DEF IsEnv
<1>2. CASE env.columns.known
  <2>1. /\ SourceColumns(env, table) = Known(env.tables[table])
        /\ env.tables[table] \in Seq(Name) /\ IsInjective(env.tables[table])
    BY <1>2 DEF IsEnv, IsSchema, SourceColumns
  <2> QED BY <1>1, <2>1, ColumnsAreTold
<1>3. CASE ~env.columns.known
  <2>1. SourceColumns(env, table) = ColumnsOf(env, table)
    BY <1>3 DEF SourceColumns
  <2> QED BY <1>1, <2>1, TableIsTracked
<1> QED BY <1>2, <1>3

(***************************************************************************)
(* A pipeline tells of the columns it returns                              *)
(***************************************************************************)
\* What the steps up to the m-th make: [0] is the table.
Reached(columns, out, m) == IF m = 0 THEN Out(columns, <<>>, AllRows) ELSE out[m]

LEMMA StepsFollow ==
  ASSUME NEW env, NEW columns, NEW ss, Len(ss) \in Nat, NEW alias, NEW subs
  PROVE  LET out == Chain(env, columns, ss, alias, subs)
         IN  /\ IsList(out) /\ Len(out) = Len(ss) /\ DOMAIN out = 1 .. Len(ss)
             /\ \A m \in 0 .. Len(ss) - 1 :
                  Reached(columns, out, m + 1)
                    = StepOf(env, ss[m + 1], subs[m + 1], Reached(columns, out, m), alias)
<1> DEFINE out == Chain(env, columns, ss, alias, subs)
           len == Len(ss)
<1>1. /\ IsList(out) /\ Len(out) = len /\ DOMAIN out = 1 .. len
      /\ \A k \in 1 .. len :
           out[k] = StepOf(env, ss[k], subs[k],
                           IF k = 1 THEN Out(columns, <<>>, AllRows) ELSE out[k - 1], alias)
  BY ChainIs
<1>2. len \in Nat
  OBVIOUS
<1> HIDE DEF out, len
<1>3. ASSUME NEW m \in 0 .. len - 1
      PROVE  Reached(columns, out, m + 1)
               = StepOf(env, ss[m + 1], subs[m + 1], Reached(columns, out, m), alias)
  <2>1. m + 1 \in 1 .. len /\ m + 1 # 0 /\ (m + 1) - 1 = m /\ (m + 1 = 1 <=> m = 0)
    BY <1>2
  <2>2. Reached(columns, out, m + 1) = out[m + 1]
    BY <2>1 DEF Reached
  <2>3. Reached(columns, out, m) = IF m + 1 = 1 THEN Out(columns, <<>>, AllRows)
                                   ELSE out[(m + 1) - 1]
    BY <2>1 DEF Reached
  <2> QED BY <1>1, <2>1, <2>2, <2>3
<1> QED BY <1>1, <1>3 DEF out, len

LEMMA ChainTracks ==
  ASSUME NEW env, NEW table, NEW columns, IsTold(env, table, columns),
         NEW ss \in Seq(StepContent), NEW alias, NEW subs,
         \A k \in DOMAIN ss : Supplied(env, ss[k], subs[k]), NEW rights
  PROVE  LET out  == Chain(env, columns, ss, alias, subs)
             rows == Results(env, table, out, rights)
         IN  \A m \in 0 .. Len(ss) :
               /\ IsColumns(Reached(columns, out, m).columns)
               /\ Tracked(rows[m], Reached(columns, out, m).columns)
               /\ NamesOnce(ss) => Once(Reached(columns, out, m).columns)
<1> DEFINE out == Chain(env, columns, ss, alias, subs)
           rows == Results(env, table, out, rights)
           len == Len(ss)
           Fits(m) == /\ IsColumns(Reached(columns, out, m).columns)
                      /\ Tracked(rows[m], Reached(columns, out, m).columns)
                      /\ NamesOnce(ss) => Once(Reached(columns, out, m).columns)
           P == {m \in 0 .. len : Fits(m)}
<1>1. len \in Nat /\ DOMAIN ss = 1 .. len /\ \A k \in 1 .. len : ss[k] \in StepContent
  BY SeqIsList
<1> HIDE DEF rows, Fits, P
<1>2. /\ Len(out) = len
      /\ \A m \in 0 .. len - 1 :
           Reached(columns, out, m + 1)
             = StepOf(env, ss[m + 1], subs[m + 1], Reached(columns, out, m), alias)
  <2>1. Len(ss) \in Nat
    BY <1>1
  <2> QED BY <2>1, StepsFollow
<1>3. IsColumns(columns) /\ Tracked(TableRows(env, table), columns) /\ Once(columns)
  BY DEF IsTold
<1> HIDE DEF out
<1>4. /\ rows[0] = TableRows(env, table)
      /\ \A k \in 1 .. len : rows[k] = Returned(rows[k - 1], out[k].body, rights[k])
  BY <1>1, <1>2, ResultsAre DEF rows
<1> HIDE DEF len
<1> USE DEF Fits, P
<1>5. 0 \in P
  <2>1. Reached(columns, out, 0).columns = columns
    BY OutFields DEF Reached
  <2> QED BY <1>1, <1>3, <1>4, <2>1
<1>6. ASSUME NEW m \in 0 .. len - 1, m \in P PROVE m + 1 \in P
  <2> DEFINE input == Reached(columns, out, m)
             next  == Reached(columns, out, m + 1)
  <2>1. m + 1 \in 1 .. len /\ m + 1 \in 0 .. len /\ m + 1 # 0 /\ (m + 1) - 1 = m
    BY <1>1
  <2>2. ss[m + 1] \in StepContent /\ Supplied(env, ss[m + 1], subs[m + 1])
    BY <1>1, <2>1
  <2>3. IsColumns(input.columns) /\ Tracked(rows[m], input.columns)
        /\ (NamesOnce(ss) => Once(input.columns))
    BY <1>6
  <2>4. next = StepOf(env, ss[m + 1], subs[m + 1], input, alias)
    BY <1>2
  <2>5. rows[m + 1] = Returned(rows[m], next.body, rights[m + 1])
    BY <1>4, <2>1 DEF Reached
  <2> HIDE DEF input, next
  <2>6. StepTracks(ss[m + 1], input, next)
    BY <2>2, <2>3, <2>4, EveryStepTracks
  <2>7. NamesOnce(ss) => IsInjective(Given(ss[m + 1]))
    BY <1>1, <2>1 DEF NamesOnce
  <2>8. /\ IsColumns(next.columns) /\ Tracked(rows[m + 1], next.columns)
        /\ NamesOnce(ss) => Once(next.columns)
    BY <2>3, <2>5, <2>6, <2>7 DEF StepTracks
  <2> QED BY <2>1, <2>8 DEF next
<1>7. 0 .. len \subseteq P
  <2> HIDE DEF P
  <2>1. \A m \in 0 .. len - 1 : m \in P => m + 1 \in P
    BY <1>6
  <2> QED BY <1>1, <1>5, <2>1, IntervalInduction
<1> QED BY <1>7 DEF rows, out, len

LEMMA StepsOfSubpipelines ==
  ASSUME NEW step \in StepContent, step.type = "JOIN"
  PROVE  step.subSteps \in Seq(StepContent)
<1>1. <<>> \in Seq(SubStep)
  BY EmptySeq
<1>2. SubStep \subseteq StepContent
  BY <1>1 DEF SubStep, StepContent, JoinStep
<1>3. step.subSteps \in Seq(SubStep)
  BY ContentIs
<1> QED BY <1>2, <1>3, SeqMonotonic

\* What a JOIN reads is what its right side returns.
JoinsWhatIsThere(env, body) ==
  body.is = "join" => NamesOf(RightOf(env, body)) = body.columns

LEMMA ChainIsAsLong ==
  ASSUME NEW env, NEW columns, NEW ss, Len(ss) \in Nat, NEW alias, NEW subs
  PROVE  /\ IsList(Chain(env, columns, ss, alias, subs))
         /\ Len(Chain(env, columns, ss, alias, subs)) = Len(ss)
         /\ DOMAIN Chain(env, columns, ss, alias, subs) = 1 .. Len(ss)
BY StepsFollow

\* Steps with no subpipeline among them.
LEMMA PlainChainIs ==
  ASSUME NEW env, IsSchema(env), NEW table, NEW columns, IsTold(env, table, columns),
         NEW ss \in Seq(StepContent), NEW alias, NEW subs, \A k \in DOMAIN ss : subs[k] = <<>>,
         NEW out, out # <<>>, out = Chain(env, columns, ss, alias, subs), NEW rights
  PROVE  /\ Len(out) \in Nat
         /\ IsColumns(Last(out).columns)
         /\ Tracked(Results(env, table, out, rights)[Len(out)], Last(out).columns)
<1> DEFINE len == Len(ss)
           rows == Results(env, table, out, rights)
<1>1. len \in Nat
  BY SeqIsList
<1>2. IsList(out) /\ Len(out) = len /\ DOMAIN out = 1 .. len
  <2>1. out = Chain(env, columns, ss, alias, subs)
    OBVIOUS
  <2>2. Len(ss) \in Nat
    BY <1>1
  <2> HIDE DEF rows
  <2> QED BY <2>1, <2>2, ChainIsAsLong
<1>3. len # 0
  <2>1. SUFFICES ASSUME len = 0 PROVE out = <<>>
    OBVIOUS
  <2>2. PICK n \in Nat : out = [k \in 1 .. n |-> out[k]]
    BY <1>2 DEF IsList
  <2>3. n = 0
    BY <1>2, <2>1, <2>2, ListIs
  <2> QED BY <2>2, <2>3
<1>4. \A k \in DOMAIN ss : Supplied(env, ss[k], subs[k])
  <2> SUFFICES ASSUME NEW k \in DOMAIN ss PROVE Supplied(env, ss[k], subs[k])
    OBVIOUS
  <2>1. RightColumns(env, ss[k], subs[k]) = ColumnsOf(env, RightTable(ss[k]))
    BY DEF RightColumns
  <2> QED BY <2>1, TableIsTracked DEF Supplied, IsTold
<1> HIDE DEF len
<1>5. /\ IsColumns(Reached(columns, out, len).columns)
      /\ Tracked(rows[len], Reached(columns, out, len).columns)
  <2>1. len \in 0 .. len
    BY <1>1
  <2>2. len = Len(ss)
    BY DEF len
  <2> QED BY <1>4, <2>1, <2>2, ChainTracks
<1>6. Reached(columns, out, len) = Last(out)
  BY <1>2, <1>3 DEF Reached, Last
<1> QED BY <1>1, <1>2, <1>5, <1>6

\* A subpipeline, compiled like a pipeline of its own.
LEMMA SubpipelineIs ==
  ASSUME NEW env, IsSchema(env), NEW step \in StepContent, step.type = "JOIN",
         NEW sub, sub = Subpipeline(env, step), NEW rights
  PROVE  \/ sub = <<>>
         \/ /\ step.mode = "subpipeline" /\ Len(sub) \in Nat
            /\ IsColumns(Last(sub).columns)
            /\ Tracked(Results(env, step.subTable, sub, rights)[Len(sub)], Last(sub).columns)
<1>1. SUFFICES ASSUME step.mode = "subpipeline", sub # <<>>
               PROVE  /\ Len(sub) \in Nat
                      /\ IsColumns(Last(sub).columns)
                      /\ Tracked(Results(env, step.subTable, sub, rights)[Len(sub)],
                                 Last(sub).columns)
  BY DEF Subpipeline
<1>2. PICK ss, table, columns, alias, subs :
        /\ ss = step.subSteps /\ table = step.subTable /\ alias = RightAlias(step)
        /\ columns = ColumnsOf(env, table) /\ subs = [k \in DOMAIN ss |-> <<>>]
  OBVIOUS
<1>3. ss \in Seq(StepContent)
  BY <1>2, StepsOfSubpipelines
<1>4. /\ IsTold(env, table, columns) /\ sub = Chain(env, columns, ss, alias, subs)
      /\ \A k \in DOMAIN ss : subs[k] = <<>>
  BY <1>1, <1>2, TableIsTracked DEF Subpipeline
<1> QED BY <1>1, <1>2, <1>3, <1>4, PlainChainIs

LEMMA SubpipelinesSupply ==
  ASSUME NEW env, IsSchema(env), NEW step \in StepContent
  PROVE  Supplied(env, step, Subpipeline(env, step))
<1> SUFFICES ASSUME step.type = "JOIN"
             PROVE  IsColumns(RightColumns(env, step, Subpipeline(env, step)))
  BY DEF Supplied
<1>1. CASE Subpipeline(env, step) = <<>>
  BY <1>1, TableIsTracked DEF RightColumns, IsTold
<1>2. CASE Subpipeline(env, step) # <<>>
  <2>1. IsColumns(Last(Subpipeline(env, step)).columns)
    BY <1>2, SubpipelineIs
  <2> QED BY <1>2, <2>1 DEF RightColumns
<1> QED BY <1>1, <1>2

LEMMA JoinsAreOfWhatIsThere ==
  ASSUME NEW env, IsSchema(env), NEW step \in StepContent, NEW input, IsColumns(input.columns),
         NEW alias
  PROVE  JoinsWhatIsThere(env, StepOf(env, step, Subpipeline(env, step), input, alias).body)
<1> DEFINE sub == Subpipeline(env, step)
           body == StepOf(env, step, sub, input, alias).body
           right == RightColumns(env, step, sub)
<1>1. SUFFICES ASSUME body.is = "join" PROVE NamesOf(RightOf(env, body)) = body.columns
  BY DEF JoinsWhatIsThere
<1>2. step.type = "JOIN"
  <2>1. SUFFICES ASSUME step.type # "JOIN" PROVE body.is # "join"
    BY <1>1
  <2>2. \A columns, ordering : Out(columns, ordering, AllRows).body.is = "rows"
    BY DEF Out, AllRows
  <2>3. \A in, error : Passthrough(in).body.is = "rows" /\ Fails(in, error).body.is = "rows"
    BY DEF Out, AllRows, Passthrough, Fails
  <2>4. CASE step.type = "WHERE"
    BY <2>2, <2>3, <2>4 DEF StepOf, Where
  <2>5. CASE step.type = "SELECT"
    <3>1. body = Select(env, step, input).body
      BY <2>5 DEF StepOf
    <3> HIDE DEF body
    <3>2. body.is \in {"rows", "columns"}
      BY <2>3, <3>1 DEF Select, Out
    <3> QED BY <3>2
  <2>6. CASE step.type = "ORDER_BY"
    BY <2>2, <2>3, <2>6 DEF StepOf, OrderBy
  <2>7. CASE step.type = "GROUP_BY"
    <3>1. body = GroupBy(env, step, input).body
      BY <2>7 DEF StepOf
    <3> HIDE DEF body
    <3>2. body.is \in {"rows", "groups"}
      BY <2>3, <3>1 DEF GroupBy, Out
    <3> QED BY <3>2
  <2>8. CASE step.type = "RAW_SQL"
    <3>1. body = RawSql(env, step, input).body
      BY <2>8 DEF StepOf
    <3> HIDE DEF body
    <3>2. body.is \in {"rows", "raw"}
      BY <2>3, <3>1 DEF RawSql, Out
    <3> QED BY <3>2
  <2> HIDE DEF body
  <2> QED BY <2>1, <2>4, <2>5, <2>6, <2>7, <2>8, ContentIs
<1>3. /\ body.table = RightTable(step) /\ body.sub = sub
      /\ body.columns = right.names /\ right.known
  <2>1. body = Join(env, step, sub, input, alias).body
    BY <1>2 DEF StepOf
  <2>2. IsColumns(right)
    BY <1>2, SubpipelinesSupply DEF Supplied
  <2> HIDE DEF body, right, sub
  <2> QED BY <1>1, <1>2, <2>1, <2>2, JoinTracks DEF right
<1> HIDE DEF body
<1>4. CASE sub = <<>>
  <2>1. RightOf(env, body) = TableRows(env, RightTable(step))
    BY <1>1, <1>3, <1>4 DEF RightOf, Joined
  <2>2. right = ColumnsOf(env, RightTable(step))
    BY <1>4 DEF RightColumns
  <2> HIDE DEF right, sub
  <2> QED BY <1>3, <2>1, <2>2, TableIsTracked DEF IsTold, Tracked
<1>5. CASE sub # <<>>
  <2> DEFINE rights == [k \in DOMAIN body.sub |-> Joined(env, body.sub[k].body)]
             rows == Results(env, body.table, body.sub, rights)[Len(body.sub)]
  <2>1. RightOf(env, body) = rows
    BY <1>1, <1>3, <1>5 DEF RightOf
  <2> HIDE DEF rights
  <2>2. step.mode = "subpipeline"
        /\ Tracked(Results(env, step.subTable, sub, rights)[Len(sub)], Last(sub).columns)
    BY <1>2, <1>5, SubpipelineIs
  <2>3. right = Last(sub).columns /\ RightTable(step) = step.subTable
    BY <1>5, <2>2 DEF RightColumns, RightTable
  <2>4. Tracked(rows, right)
    <3> HIDE DEF right, sub
    <3> QED BY <1>3, <2>2, <2>3
  <2> HIDE DEF rows, right
  <2> QED BY <1>3, <2>1, <2>4 DEF Tracked
<1> QED BY <1>4, <1>5

\* The columns picked for a step that compiles are among those it reads.
LEMMA PickedAreThere ==
  ASSUME NEW env, NEW step \in StepContent, NEW sub, NEW input, NEW alias,
         StepOf(env, step, sub, input, alias).error = "none", input.columns.known
  PROVE  Picked(step) \subseteq ToSet(input.columns.names)
<1> DEFINE out == StepOf(env, step, sub, input, alias)
<1>1. CASE step.type = "ORDER_BY"
  <2>1. out = OrderBy(step, input) /\ Picked(step) = ToSet(step.columns)
    BY <1>1 DEF StepOf, Picked
  <2> HIDE DEF out
  <2>2. out.error = "none"
    BY DEF out
  <2>3. RequireColumns(input, step.columns)
    BY <2>1, <2>2, OutFields DEF OrderBy
  <2> QED BY <2>1, <2>3 DEF RequireColumns
<1>2. CASE step.type = "GROUP_BY"
  <2>1. out = GroupBy(env, step, input) /\ Picked(step) = ToSet(step.groupBy)
    BY <1>2 DEF StepOf, Picked
  <2> HIDE DEF out
  <2>2. out.error = "none"
    BY DEF out
  <2>3. step.groupBy = <<>> \/ RequireColumns(input, step.groupBy)
    <3>1. CASE step.groupBy # <<>> /\ ~RequireColumns(input, step.groupBy)
      <4>1. out = Fails(input, "column")
        BY <2>1, <3>1 DEF GroupBy
      <4> QED BY <2>2, <4>1, OutFields
    <3> QED BY <3>1
  <2>4. ToSet(<<>>) = {}
    BY DEF ToSet
  <2> QED BY <2>1, <2>3, <2>4 DEF RequireColumns
<1>3. CASE step.type \notin {"ORDER_BY", "GROUP_BY"}
  BY <1>3 DEF Picked
<1> QED BY <1>1, <1>2, <1>3

LEMMA EmptyIs ==
  ASSUME NEW S, NEW ss \in Seq(S)
  PROVE  ss # <<>> => Len(ss) # 0
<1>1. SUFFICES ASSUME Len(ss) = 0 PROVE ss = <<>>
  OBVIOUS
<1> QED BY <1>1, EmptySeq

\* The columns of every pipeline are tracked, of whatever length and over whatever schema, if
\* the compiler is told the columns the source and the other tables have (compilePipeline).
THEOREM EveryPipelineTracksItsColumns ==
  ASSUME NEW env, NEW table, IsEnv(env, table), NEW ss \in Seq(StepContent)
  PROVE  TracksColumns(env, table, ss)
<1> DEFINE columns == SourceColumns(env, table)
           subs == [k \in DOMAIN ss |-> Subpipeline(env, ss[k])]
           out == CompilePipeline(env, table, ss)
           rights == [k \in DOMAIN out |-> RightOf(env, out[k].body)]
           rows == Returns(env, table, out)
           n == Len(ss)
           input == IF n = 1 THEN columns ELSE out[n - 1].columns
           Goal == /\ out[n].columns.known =>
                        /\ NamesOf(rows[n]) = out[n].columns.names
                        /\ NamesOnce(ss) => IsInjective(out[n].columns.names)
                   /\ input.known /\ out[n].error = "none" =>
                        Picked(ss[n]) \subseteq ToSet(NamesOf(rows[n - 1]))
                   /\ out[n].body.is = "join" =>
                        NamesOf(RightOf(env, out[n].body)) = out[n].body.columns
<1>1. SUFFICES ASSUME ss # <<>> PROVE Goal
  BY DEF TracksColumns
<1>2. /\ out = Chain(env, columns, ss, table, subs)
      /\ rows = Results(env, table, out, rights)
  BY DEF CompilePipeline, Returns
<1>3. n \in Nat /\ n # 0 /\ DOMAIN ss = 1 .. n /\ \A k \in 1 .. n : ss[k] \in StepContent
  BY <1>1, SeqIsList, EmptyIs
<1>4. \A k \in DOMAIN ss : subs[k] = Subpipeline(env, ss[k]) /\ Supplied(env, ss[k], subs[k])
  BY <1>3, SourceIsTracked, SubpipelinesSupply
<1> HIDE DEF subs, out, rights, rows, n
<1>5. \A m \in 0 .. n - 1 :
        Reached(columns, out, m + 1)
          = StepOf(env, ss[m + 1], subs[m + 1], Reached(columns, out, m), table)
  <2>1. Len(ss) \in Nat
    BY <1>3 DEF n
  <2> HIDE DEF columns
  <2> QED BY <1>2, <2>1, StepsFollow DEF n
<1>6. \A m \in 0 .. n : /\ IsColumns(Reached(columns, out, m).columns)
                        /\ Tracked(rows[m], Reached(columns, out, m).columns)
                        /\ NamesOnce(ss) => Once(Reached(columns, out, m).columns)
  <2>1. IsTold(env, table, columns)
    BY SourceIsTracked
  <2> HIDE DEF columns
  <2> QED BY <1>2, <1>4, <2>1, ChainTracks DEF n
<1> HIDE DEF columns
<1> DEFINE before == Reached(columns, out, n - 1)
<1>7. /\ n \in 0 .. n /\ n - 1 \in 0 .. n /\ n - 1 \in 0 .. n - 1 /\ (n - 1) + 1 = n
      /\ ss[n] \in StepContent /\ subs[n] = Subpipeline(env, ss[n])
  BY <1>3, <1>4
<1>8. Reached(columns, out, n) = out[n] /\ before.columns = input
  <2>1. n - 1 = 0 <=> n = 1
    BY <1>3
  <2> QED BY <1>3, <2>1, OutFields DEF Reached
<1>9. /\ IsColumns(input) /\ Tracked(rows[n - 1], input)
      /\ Tracked(rows[n], out[n].columns) /\ (NamesOnce(ss) => Once(out[n].columns))
  <2> HIDE DEF input, before
  <2> QED BY <1>6, <1>7, <1>8 DEF before
<1>10. out[n] = StepOf(env, ss[n], subs[n], before, table)
  BY <1>5, <1>7, <1>8
<1> HIDE DEF before, input
<1>11. out[n].columns.known => /\ NamesOf(rows[n]) = out[n].columns.names
                               /\ NamesOnce(ss) => IsInjective(out[n].columns.names)
  BY <1>9 DEF Tracked, Once
<1>12. input.known /\ out[n].error = "none" => Picked(ss[n]) \subseteq ToSet(NamesOf(rows[n - 1]))
  <2> SUFFICES ASSUME input.known, out[n].error = "none"
               PROVE  Picked(ss[n]) \subseteq ToSet(NamesOf(rows[n - 1]))
    OBVIOUS
  <2>1. Picked(ss[n]) \subseteq ToSet(input.names)
    BY <1>7, <1>8, <1>10, PickedAreThere
  <2> QED BY <1>9, <2>1 DEF Tracked
<1>13. out[n].body.is = "join" => NamesOf(RightOf(env, out[n].body)) = out[n].body.columns
  <2>1. JoinsWhatIsThere(env, StepOf(env, ss[n], Subpipeline(env, ss[n]), before, table).body)
    BY <1>7, <1>8, <1>9, SourceIsTracked, JoinsAreOfWhatIsThere
  <2> QED BY <1>7, <1>10, <2>1 DEF JoinsWhatIsThere
<1> QED BY <1>11, <1>12, <1>13 DEF input

(***************************************************************************)
(* The ordering survives                                                   *)
(***************************************************************************)
SameOrder(step, input, out) ==
  /\ ~IsSort(step, out) /\ \A columns : Keeps(step, out, columns)
  /\ out.ordering = input.ordering /\ out.body = AllRows

NewOrder(step, out) ==
  /\ IsSort(step, out) /\ \A columns : ~Keeps(step, out, columns)
  /\ out.ordering = step.columns

NoOrder(step, out) ==
  /\ ~IsSort(step, out) /\ \A columns : ~Keeps(step, out, columns)
  /\ out.ordering = <<>>

Chosen(items) == [k \in DOMAIN items |-> ProjectedName(items[k])]

ChosenOrder(step, input, out) ==
  /\ step.type = "SELECT" /\ ~IsSort(step, out)
  /\ \A columns : Keeps(step, out, columns) <=> /\ out.columns.known
                                                /\ columns \subseteq ToSet(out.columns.names)
  /\ out.ordering = IF KeepsOrder(out.columns, input.ordering) THEN input.ordering ELSE <<>>
  /\ out.columns.known =>
       LET items == Written(step.columns)
       IN  /\ out.columns.names = Chosen(items)
           /\ out.body = [is |-> "columns", items |-> items]
           /\ ~\E t \in Exprs(items) : t.is = "star"

\* What a step makes of the ordering that flows into it.
StepOrders(step, input, out) ==
  \/ SameOrder(step, input, out)
  \/ NewOrder(step, out)
  \/ NoOrder(step, out)
  \/ ChosenOrder(step, input, out)

LEMMA PassingKeepsOrder ==
  ASSUME NEW step, NEW input, NEW out,
         \/ out = Passthrough(input) /\ ~(step.type = "ORDER_BY" /\ step.columns # <<>>)
         \/ \E error : error # "none" /\ out = Fails(input, error)
  PROVE  SameOrder(step, input, out)
<1>1. out.ordering = input.ordering /\ out.body = AllRows /\ (out.isNoop \/ out.error # "none")
  BY OutFields
<1>2. ~IsSort(step, out)
  BY OutFields DEF IsSort
<1> QED BY <1>1, <1>2 DEF SameOrder, Keeps

LEMMA SelectOrders ==
  ASSUME NEW env, NEW step, step.type = "SELECT", NEW input
  PROVE  StepOrders(step, input, Select(env, step, input))
<1> DEFINE items == Written(step.columns)
           starred == \E t \in Exprs(items) : t.is = "star"
           columns == IF starred THEN Unknown ELSE Known(Chosen(items))
           body == [is |-> "columns", items |-> items]
           ordering == IF KeepsOrder(columns, input.ordering) THEN input.ordering ELSE <<>>
           out == Select(env, step, input)
<1>1. \/ out = Passthrough(input)
      \/ out = Fails(input, "variable")
      \/ out = Out(columns, ordering, body)
  BY DEF Select, Chosen
<1> HIDE DEF out, body, ordering
<1>2. CASE out = Passthrough(input) \/ out = Fails(input, "variable")
  BY <1>2, PassingKeepsOrder DEF StepOrders, out
<1>3. CASE out = Out(columns, ordering, body)
  <2>1. /\ out.columns = columns /\ out.ordering = ordering /\ out.body = body
        /\ out.isNoop = FALSE /\ out.error = "none"
    <3> HIDE DEF columns
    <3> QED BY <1>3, OutFields
  <2>2. columns.known => ~starred /\ columns.names = Chosen(items)
    <3> HIDE DEF items, starred
    <3> QED BY UnknownIs, KnownIs
  <2>3. ~IsSort(step, out)
    BY DEF IsSort
  <2>4. \A cs : Keeps(step, out, cs) <=> columns.known /\ cs \subseteq ToSet(columns.names)
    <3> HIDE DEF columns
    <3> QED BY <2>1 DEF Keeps
  <2> HIDE DEF columns
  <2>5. ChosenOrder(step, input, out)
    BY <2>1, <2>2, <2>3, <2>4 DEF ChosenOrder, ordering, body
  <2> QED BY <2>5 DEF StepOrders, out
<1> QED BY <1>1, <1>2, <1>3

LEMMA OrderByOrders ==
  ASSUME NEW step, step.type = "ORDER_BY", NEW input
  PROVE  StepOrders(step, input, OrderBy(step, input))
<1> DEFINE out == OrderBy(step, input)
           ordering == IF step.columns # <<>> THEN step.columns ELSE input.ordering
<1>1. \/ out = Fails(input, "column")
      \/ step.columns = <<>> /\ out = Passthrough(input)
      \/ out = Out(input.columns, ordering, AllRows)
  BY DEF OrderBy
<1> HIDE DEF out
<1>2. CASE out = Fails(input, "column") \/ (step.columns = <<>> /\ out = Passthrough(input))
  BY <1>2, PassingKeepsOrder DEF StepOrders, out
<1>3. CASE out = Out(input.columns, ordering, AllRows)
  <2>1. /\ out.ordering = ordering /\ out.body = AllRows
        /\ out.isNoop = FALSE /\ out.error = "none"
    <3> HIDE DEF ordering
    <3> QED BY <1>3, OutFields
  <2>2. CASE step.columns = <<>>
    <3>1. SameOrder(step, input, out)
      BY <2>1, <2>2 DEF SameOrder, IsSort, Keeps
    <3> QED BY <3>1 DEF StepOrders, out
  <2>3. CASE step.columns # <<>>
    <3>1. NewOrder(step, out)
      BY <2>1, <2>3 DEF NewOrder, IsSort, Keeps
    <3> QED BY <3>1 DEF StepOrders, out
  <2> QED BY <2>2, <2>3
<1> QED BY <1>1, <1>2, <1>3

\* A WHERE leaves the order; a GROUP BY, a JOIN and raw SQL do not.
LEMMA OtherStepsOrder ==
  ASSUME NEW step, NEW input, NEW out, step.type \in {"WHERE", "GROUP_BY", "JOIN", "RAW_SQL"},
         \/ out = Passthrough(input)
         \/ \E error : error # "none" /\ out = Fails(input, error)
         \/ \E columns : step.type = "WHERE" /\ out = Out(columns, input.ordering, AllRows)
         \/ \E columns, body : step.type # "WHERE" /\ out = Out(columns, <<>>, body)
  PROVE  StepOrders(step, input, out)
<1>1. CASE out = Passthrough(input) \/ \E error : error # "none" /\ out = Fails(input, error)
  BY <1>1, PassingKeepsOrder DEF StepOrders
<1>2. CASE step.type = "WHERE" /\ \E columns : out = Out(columns, input.ordering, AllRows)
  <2>1. out.ordering = input.ordering /\ out.body = AllRows
    BY <1>2, OutFields
  <2>2. SameOrder(step, input, out)
    BY <1>2, <2>1 DEF SameOrder, IsSort, Keeps
  <2> QED BY <2>2 DEF StepOrders
<1>3. CASE step.type # "WHERE" /\ \E columns, body : out = Out(columns, <<>>, body)
  <2>1. out.ordering = <<>> /\ out.isNoop = FALSE /\ out.error = "none"
    BY <1>3, OutFields
  <2>2. NoOrder(step, out)
    BY <1>3, <2>1 DEF NoOrder, IsSort, Keeps
  <2> QED BY <2>2 DEF StepOrders
<1> QED BY <1>1, <1>2, <1>3

LEMMA EveryStepOrders ==
  ASSUME NEW env, NEW step \in StepContent, NEW sub, NEW input, NEW alias
  PROVE  StepOrders(step, input, StepOf(env, step, sub, input, alias))
<1> DEFINE out == StepOf(env, step, sub, input, alias)
<1>1. CASE step.type = "WHERE"
  <2>1. out = Where(env, step, input)
    BY <1>1 DEF StepOf
  <2> HIDE DEF out
  <2>2. \/ out = Passthrough(input)
        \/ out = Fails(input, "variable")
        \/ out = Out(input.columns, input.ordering, AllRows)
    BY <2>1 DEF Where
  <2>3. StepOrders(step, input, out)
    BY <1>1, <2>2, OtherStepsOrder
  <2> QED BY <2>3 DEF out
<1>2. CASE step.type = "SELECT"
  <2>1. out = Select(env, step, input)
    BY <1>2 DEF StepOf
  <2> QED BY <1>2, <2>1, SelectOrders
<1>3. CASE step.type = "ORDER_BY"
  <2>1. out = OrderBy(step, input)
    BY <1>3 DEF StepOf
  <2> QED BY <1>3, <2>1, OrderByOrders
<1>4. CASE step.type = "GROUP_BY"
  <2>1. out = GroupBy(env, step, input)
    BY <1>4 DEF StepOf
  <2> HIDE DEF out
  <2>2. \/ out = Passthrough(input)
        \/ out = Fails(input, "column") \/ out = Fails(input, "variable")
        \/ \E columns, body : out = Out(columns, <<>>, body)
    BY <2>1 DEF GroupBy
  <2>3. StepOrders(step, input, out)
    BY <1>4, <2>2, OtherStepsOrder
  <2> QED BY <2>3 DEF out
<1>5. CASE step.type = "RAW_SQL"
  <2>1. out = RawSql(env, step, input)
    BY <1>5 DEF StepOf
  <2> HIDE DEF out
  <2>2. \/ out = Passthrough(input)
        \/ out = Fails(input, "variable")
        \/ \E columns, body : out = Out(columns, <<>>, body)
    BY <2>1 DEF RawSql
  <2>3. StepOrders(step, input, out)
    BY <1>5, <2>2, OtherStepsOrder
  <2> QED BY <2>3 DEF out
<1>6. CASE step.type = "JOIN"
  <2>1. out = Join(env, step, sub, input, alias)
    BY <1>6 DEF StepOf
  <2> HIDE DEF out
  <2>2. \/ out = Passthrough(input)
        \/ \E error \in {"full join", "alias", "subpipeline", "unknown table", "variable"} :
             out = Fails(input, error)
        \/ \E columns, body : out = Out(columns, <<>>, body)
    BY <2>1 DEF Join
  <2>3. \/ out = Passthrough(input)
        \/ \E error : error # "none" /\ out = Fails(input, error)
        \/ \E columns, body : out = Out(columns, <<>>, body)
    BY <2>2
  <2>4. StepOrders(step, input, out)
    BY <1>6, <2>3, OtherStepsOrder
  <2> QED BY <2>4 DEF out
<1> QED BY <1>1, <1>2, <1>3, <1>4, <1>5, <1>6, ContentIs

\* A column that a SELECT keeps under its name holds what it held.
LEMMA SelectHolds ==
  ASSUME NEW step, step.type = "SELECT", step.columns \in Seq(SelectItem),
         NEW items, items = Written(step.columns), ~\E t \in Exprs(items) : t.is = "star",
         NEW rows, NEW name \in ToSet(Chosen(items))
  PROVE  Held(Listed(rows, items), name) = Held(rows, name) \/ Renames(step, name)
<1> DEFINE list == [k \in DOMAIN items |-> Column(ProjectedName(items[k]), Holds(rows, items[k].expr))]
           c == CHOOSE k \in DOMAIN list : list[k].name = name
<1>1. Listed(rows, items) = list
  BY DEF Listed
<1>2. DOMAIN list = DOMAIN items
      /\ \A k \in DOMAIN items : /\ list[k].name = ProjectedName(items[k])
                                 /\ list[k].holds = Holds(rows, items[k].expr)
  BY DEF Column
<1> HIDE DEF list
<1>3. \E k \in DOMAIN list : list[k].name = name
  BY <1>2 DEF ToSet, Chosen
<1>4. c \in DOMAIN items /\ ProjectedName(items[c]) = name
      /\ Held(list, name) = Holds(rows, items[c].expr)
  BY <1>2, <1>3 DEF Held
<1> HIDE DEF c
<1>5. PICK i \in DOMAIN step.columns : items[c] = step.columns[i]
  BY <1>4, WrittenIs
<1>6. CASE items[c].expr.is = "column" /\ items[c].expr.name = name
  BY <1>1, <1>4, <1>6 DEF Holds
<1>7. CASE ~(items[c].expr.is = "column" /\ items[c].expr.name = name)
  BY <1>4, <1>5, <1>7 DEF Renames
<1> QED BY <1>6, <1>7

\* The ORDER BYs among the first m steps that are in effect behind them.
EffectiveAt(ss, out, m) ==
  {j \in 1 .. m : /\ IsSort(ss[j], out[j])
                  /\ \A i \in j + 1 .. m : Keeps(ss[i], out[i], ToSet(ss[j].columns))}

\* A column of the j-th step holds behind the m-th what it held there, or a SELECT in
\* between has given its name to another one.
StillHolds(ss, rows, j, m, name) ==
  \/ Held(rows[m], name) = Held(rows[j], name)
  \/ \E i \in j + 1 .. m : Renames(ss[i], name)

\* There is at most one ORDER BY in effect, and it is the ordering.
OrderedBy(ss, out, rows, ordering, m) ==
  \/ EffectiveAt(ss, out, m) = {} /\ ordering = <<>>
  \/ \E j \in 1 .. m :
       /\ EffectiveAt(ss, out, m) = {j}
       /\ ordering = ss[j].columns
       /\ \A name \in ToSet(ordering) : StillHolds(ss, rows, j, m, name)

LEMMA EffectiveNext ==
  ASSUME NEW ss, NEW out, NEW m \in Nat
  PROVE  EffectiveAt(ss, out, m + 1)
           = {j \in EffectiveAt(ss, out, m) : Keeps(ss[m + 1], out[m + 1], ToSet(ss[j].columns))}
             \cup {j \in {m + 1} : IsSort(ss[m + 1], out[m + 1])}
<1> DEFINE old == EffectiveAt(ss, out, m)
           new == EffectiveAt(ss, out, m + 1)
           kept(j) == Keeps(ss[m + 1], out[m + 1], ToSet(ss[j].columns))
<1>1. ASSUME NEW j \in new, j # m + 1 PROVE j \in old /\ kept(j)
  <2>1. /\ j \in 1 .. m + 1 /\ IsSort(ss[j], out[j])
        /\ \A i \in j + 1 .. m + 1 : Keeps(ss[i], out[i], ToSet(ss[j].columns))
    BY DEF EffectiveAt
  <2>2. j \in 1 .. m /\ m + 1 \in j + 1 .. m + 1
        /\ \A i \in j + 1 .. m : i \in j + 1 .. m + 1
    BY <1>1, <2>1
  <2> QED BY <2>1, <2>2 DEF EffectiveAt
<1>2. m + 1 \in new => IsSort(ss[m + 1], out[m + 1])
  BY DEF EffectiveAt
<1>3. ASSUME NEW j \in old, kept(j) PROVE j \in new
  <2>1. /\ j \in 1 .. m /\ IsSort(ss[j], out[j])
        /\ \A i \in j + 1 .. m : Keeps(ss[i], out[i], ToSet(ss[j].columns))
    BY DEF EffectiveAt
  <2>2. j \in 1 .. m + 1 /\ \A i \in j + 1 .. m + 1 : i \in j + 1 .. m \/ i = m + 1
    BY <2>1
  <2>3. \A i \in j + 1 .. m + 1 : Keeps(ss[i], out[i], ToSet(ss[j].columns))
    BY <1>3, <2>1, <2>2
  <2> QED BY <2>1, <2>2, <2>3 DEF EffectiveAt
<1>4. ASSUME IsSort(ss[m + 1], out[m + 1]) PROVE m + 1 \in new
  <2>1. m + 1 \in 1 .. m + 1 /\ (m + 1) + 1 .. m + 1 = {}
    OBVIOUS
  <2> QED BY <1>4, <2>1 DEF EffectiveAt
<1> HIDE DEF old, new, kept
<1>5. new = {j \in old : kept(j)} \cup {j \in {m + 1} : IsSort(ss[m + 1], out[m + 1])}
  BY <1>1, <1>2, <1>3, <1>4
<1> QED BY <1>5 DEF old, new, kept

LEMMA StepKeepsOrdered ==
  ASSUME NEW ss \in Seq(StepContent), NEW out, NEW rows, NEW m \in 0 .. Len(ss) - 1, NEW input,
         OrderedBy(ss, out, rows, input.ordering, m),
         StepOrders(ss[m + 1], input, out[m + 1]),
         NEW right, rows[m + 1] = Returned(rows[m], out[m + 1].body, right)
  PROVE  OrderedBy(ss, out, rows, out[m + 1].ordering, m + 1)
<1> DEFINE step == ss[m + 1]
           next == out[m + 1]
           old == EffectiveAt(ss, out, m)
           new == EffectiveAt(ss, out, m + 1)
<1>1. m \in Nat /\ m + 1 \in 1 .. m + 1 /\ (m + 1) + 1 .. m + 1 = {}
      /\ \A j \in 1 .. m : /\ j \in 1 .. m + 1 /\ j # m + 1 /\ m + 1 \in j + 1 .. m + 1
                           /\ j + 1 .. m \subseteq j + 1 .. m + 1
  BY SeqIsList
<1>2. new = {j \in old : Keeps(step, next, ToSet(ss[j].columns))}
              \cup {j \in {m + 1} : IsSort(step, next)}
  BY <1>1, EffectiveNext
<1>3. step \in StepContent
  <2>1. Len(ss) \in Nat /\ \A k \in 1 .. Len(ss) : ss[k] \in StepContent
    BY SeqIsList
  <2>2. m + 1 \in 1 .. Len(ss)
    BY <2>1
  <2> QED BY <2>1, <2>2
<1>4. ASSUME NEW j \in 1 .. m, NEW name, StillHolds(ss, rows, j, m, name),
             Held(rows[m + 1], name) = Held(rows[m], name) \/ Renames(step, name)
      PROVE  StillHolds(ss, rows, j, m + 1, name)
  BY <1>1, <1>4 DEF StillHolds
<1> HIDE DEF old, new, step, next
<1>5. CASE SameOrder(step, input, next)
  <2>1. new = old /\ next.ordering = input.ordering
    BY <1>2, <1>5 DEF SameOrder
  <2>2. rows[m + 1] = rows[m]
    BY <1>5 DEF SameOrder, Returned, AllRows, next
  <2>3. CASE old = {} /\ input.ordering = <<>>
    BY <2>1, <2>3 DEF OrderedBy, new, next
  <2>4. CASE \E j \in 1 .. m :
               /\ old = {j} /\ input.ordering = ss[j].columns
               /\ \A name \in ToSet(input.ordering) : StillHolds(ss, rows, j, m, name)
    <3>1. PICK j \in 1 .. m :
               /\ old = {j} /\ input.ordering = ss[j].columns
               /\ \A name \in ToSet(input.ordering) : StillHolds(ss, rows, j, m, name)
      BY <2>4
    <3>2. \A name \in ToSet(input.ordering) : StillHolds(ss, rows, j, m + 1, name)
      BY <1>4, <2>2, <3>1
    <3>3. j \in 1 .. m + 1
      BY <1>1
    <3> QED BY <2>1, <3>1, <3>2, <3>3 DEF OrderedBy, new, next
  <2> QED BY <2>3, <2>4 DEF OrderedBy, old
<1>6. CASE NewOrder(step, next)
  <2>1. new = {m + 1} /\ next.ordering = step.columns
    BY <1>2, <1>6 DEF NewOrder
  <2>2. \A name : StillHolds(ss, rows, m + 1, m + 1, name)
    BY DEF StillHolds
  <2> QED BY <1>1, <2>1, <2>2 DEF OrderedBy, new, next, step
<1>7. CASE NoOrder(step, next)
  <2>1. new = {} /\ next.ordering = <<>>
    BY <1>2, <1>7 DEF NoOrder
  <2> QED BY <2>1 DEF OrderedBy, new, next
<1>8. CASE ChosenOrder(step, input, next)
  <2> DEFINE columns == next.columns
  <2>1. new = {j \in old : columns.known /\ ToSet(ss[j].columns) \subseteq ToSet(columns.names)}
    BY <1>2, <1>8 DEF ChosenOrder
  <2>2. next.ordering = IF KeepsOrder(columns, input.ordering) THEN input.ordering ELSE <<>>
    BY <1>8 DEF ChosenOrder
  <2> HIDE DEF columns
  <2>3. CASE old = {} /\ input.ordering = <<>>
    <3>1. new = {} /\ next.ordering = <<>>
      BY <2>1, <2>2, <2>3
    <3> QED BY <3>1 DEF OrderedBy, new, next
  <2>4. CASE \E j \in 1 .. m :
               /\ old = {j} /\ input.ordering = ss[j].columns
               /\ \A name \in ToSet(input.ordering) : StillHolds(ss, rows, j, m, name)
    <3>1. PICK j \in 1 .. m :
               /\ old = {j} /\ input.ordering = ss[j].columns
               /\ \A name \in ToSet(input.ordering) : StillHolds(ss, rows, j, m, name)
      BY <2>4
    <3>2. CASE ~KeepsOrder(columns, input.ordering)
      <4>1. new = {} /\ next.ordering = <<>>
        BY <2>1, <2>2, <3>1, <3>2 DEF KeepsOrder
      <4> QED BY <4>1 DEF OrderedBy, new, next
    <3>3. CASE KeepsOrder(columns, input.ordering)
      <4>1. new = {j} /\ next.ordering = input.ordering
        BY <2>1, <2>2, <3>1, <3>3 DEF KeepsOrder
      <4>2. columns.known /\ ToSet(input.ordering) \subseteq ToSet(columns.names)
        BY <3>3 DEF KeepsOrder
      <4>3. PICK items : /\ items = Written(step.columns)
                         /\ columns.names = Chosen(items)
                         /\ next.body = [is |-> "columns", items |-> items]
                         /\ ~\E t \in Exprs(items) : t.is = "star"
        BY <1>8, <4>2 DEF ChosenOrder, columns
      <4>4. rows[m + 1] = Listed(rows[m], items)
        BY <4>3 DEF Returned, next
      <4>5. step.type = "SELECT" /\ step.columns \in Seq(SelectItem)
        BY <1>3, <1>8, ContentIs DEF ChosenOrder
      <4>6. \A name \in ToSet(input.ordering) : Held(rows[m + 1], name) = Held(rows[m], name)
                                                \/ Renames(step, name)
        BY <4>2, <4>3, <4>4, <4>5, SelectHolds
      <4>7. \A name \in ToSet(input.ordering) : StillHolds(ss, rows, j, m + 1, name)
        BY <1>4, <3>1, <4>6
      <4>8. j \in 1 .. m + 1
        BY <1>1
      <4> QED BY <3>1, <4>1, <4>7, <4>8 DEF OrderedBy, new, next
    <3> QED BY <3>2, <3>3
  <2> QED BY <2>3, <2>4 DEF OrderedBy, old
<1> QED BY <1>5, <1>6, <1>7, <1>8 DEF StepOrders, step, next

\* Behind every step the one ORDER BY in effect is the ordering.
LEMMA ChainIsOrdered ==
  ASSUME NEW env, NEW table, NEW columns, NEW ss \in Seq(StepContent), NEW alias, NEW subs,
         NEW rights
  PROVE  LET out  == Chain(env, columns, ss, alias, subs)
             rows == Results(env, table, out, rights)
         IN  \A m \in 0 .. Len(ss) :
               OrderedBy(ss, out, rows, Reached(columns, out, m).ordering, m)
<1> DEFINE out == Chain(env, columns, ss, alias, subs)
           rows == Results(env, table, out, rights)
           len == Len(ss)
           P == {m \in 0 .. len : OrderedBy(ss, out, rows, Reached(columns, out, m).ordering, m)}
<1>1. len \in Nat
  BY SeqIsList
<1> HIDE DEF rows, P
<1>2. /\ Len(out) = len
      /\ \A m \in 0 .. len - 1 :
           Reached(columns, out, m + 1)
             = StepOf(env, ss[m + 1], subs[m + 1], Reached(columns, out, m), alias)
  <2>1. Len(ss) \in Nat
    BY <1>1
  <2> QED BY <2>1, StepsFollow
<1> HIDE DEF out
<1>3. \A k \in 1 .. len : rows[k] = Returned(rows[k - 1], out[k].body, rights[k])
  <2>1. Len(out) \in Nat
    BY <1>1, <1>2
  <2>2. /\ rows[0] = TableRows(env, table)
        /\ \A k \in 1 .. Len(out) : rows[k] = Returned(rows[k - 1], out[k].body, rights[k])
    BY <2>1, ResultsAre DEF rows
  <2> QED BY <1>2, <2>2
<1> HIDE DEF len
<1> USE DEF P
<1>4. 0 \in P
  <2>1. Reached(columns, out, 0).ordering = <<>>
    BY OutFields DEF Reached
  <2>2. EffectiveAt(ss, out, 0) = {}
    BY DEF EffectiveAt
  <2> QED BY <1>1, <2>1, <2>2 DEF OrderedBy
<1>5. ASSUME NEW m \in 0 .. len - 1, m \in P PROVE m + 1 \in P
  <2> DEFINE input == Reached(columns, out, m)
  <2>1. m + 1 \in 1 .. len /\ m + 1 \in 0 .. len /\ m + 1 # 0 /\ (m + 1) - 1 = m
    BY <1>1
  <2>2. ss[m + 1] \in StepContent
    BY <2>1, SeqIsList DEF len
  <2>3. Reached(columns, out, m + 1) = out[m + 1]
    BY <2>1 DEF Reached
  <2>4. out[m + 1] = StepOf(env, ss[m + 1], subs[m + 1], input, alias)
    BY <1>2, <2>3
  <2>5. rows[m + 1] = Returned(rows[m], out[m + 1].body, rights[m + 1])
    BY <1>3, <2>1
  <2>6. OrderedBy(ss, out, rows, input.ordering, m)
    BY <1>5
  <2> HIDE DEF input
  <2>7. StepOrders(ss[m + 1], input, out[m + 1])
    BY <2>2, <2>4, EveryStepOrders
  <2>8. OrderedBy(ss, out, rows, out[m + 1].ordering, m + 1)
    BY <2>5, <2>6, <2>7, StepKeepsOrdered DEF len
  <2> QED BY <2>1, <2>3, <2>8
<1>6. 0 .. len \subseteq P
  <2> HIDE DEF P
  <2>1. \A m \in 0 .. len - 1 : m \in P => m + 1 \in P
    BY <1>5
  <2> QED BY <1>1, <1>4, <2>1, IntervalInduction
<1> QED BY <1>6 DEF len, out, rows

\* The final query of every pipeline comes in the order of the last ORDER BY in effect.
THEOREM EveryPipelineKeepsItsOrdering ==
  ASSUME NEW env, NEW table, NEW ss \in Seq(StepContent)
  PROVE  KeepsOrdering(env, table, ss)
<1> DEFINE columns == SourceColumns(env, table)
           subs == [k \in DOMAIN ss |-> Subpipeline(env, ss[k])]
           out == CompilePipeline(env, table, ss)
           rights == [k \in DOMAIN out |-> RightOf(env, out[k].body)]
           rows == Returns(env, table, out)
           n == Len(ss)
           ordering == out[n].ordering
           Goal == \/ Effective(ss, out) = {} /\ ordering = <<>>
                   \/ \E j \in Effective(ss, out) :
                        /\ ordering = ss[j].columns
                        /\ \A name \in ToSet(ordering) :
                             \/ Held(rows[n], name) = Held(rows[j], name)
                             \/ \E i \in j + 1 .. n : Renames(ss[i], name)
<1>1. SUFFICES ASSUME ss # <<>> PROVE Goal
  BY DEF KeepsOrdering
<1>2. /\ out = Chain(env, columns, ss, table, subs)
      /\ rows = Results(env, table, out, rights)
  BY DEF CompilePipeline, Returns
<1>3. n \in Nat /\ n # 0 /\ DOMAIN ss = 1 .. n
  BY <1>1, SeqIsList, EmptyIs
<1> HIDE DEF columns, subs, out, rights, rows
<1>4. OrderedBy(ss, out, rows, Reached(columns, out, n).ordering, n)
  <2>1. n \in 0 .. n
    BY <1>3
  <2> QED BY <1>2, <2>1, ChainIsOrdered
<1> HIDE DEF n
<1>5. Reached(columns, out, n).ordering = ordering
  BY <1>3 DEF Reached
<1>6. EffectiveAt(ss, out, n) = Effective(ss, out)
  BY <1>3 DEF EffectiveAt, Effective, n
<1> HIDE DEF ordering
<1>7. OrderedBy(ss, out, rows, ordering, n)
  BY <1>4, <1>5
<1>8. CASE EffectiveAt(ss, out, n) = {} /\ ordering = <<>>
  BY <1>6, <1>8
<1>9. ASSUME NEW j \in 1 .. n, EffectiveAt(ss, out, n) = {j}, ordering = ss[j].columns,
             \A name \in ToSet(ordering) : StillHolds(ss, rows, j, n, name)
      PROVE  Goal
  <2>1. j \in Effective(ss, out)
    BY <1>6, <1>9
  <2> QED BY <1>9, <2>1 DEF StillHolds
<1> HIDE DEF Goal
<1>10. Goal
  BY <1>7, <1>8, <1>9 DEF OrderedBy
<1> QED BY <1>10 DEF Goal, ordering, n, rows, out

(***************************************************************************)
(* The columns the store goes by                                           *)
(***************************************************************************)
\* Tables have columns, none twice; and the columns the open table was opened with are its
\* own until it is altered.
DatabaseOK ==
  /\ database \in [Paths -> [AllTables -> Seq(Name)]]
  /\ \A p \in Paths, t \in AllTables : IsInjective(database[p][t])
  /\ outdated \in BOOLEAN
SourceIsTold ==
  source # NoSource /\ ~outdated => sourceColumns = database[source.path][source.table]
ColumnsInv == DatabaseOK /\ SourceIsTold

LEMMA ColumnsAtFirst == CompiledInit => ColumnsInv
<1> SUFFICES ASSUME CompiledInit PROVE ColumnsInv
  OBVIOUS
<1>1. /\ database = [p \in Paths |-> InitialColumns] /\ outdated = FALSE
      /\ source = NoSource
  BY DEF CompiledInit, Init
<1>2. DatabaseOK
  BY <1>1, CompiledAssumption DEF DatabaseOK
<1> QED BY <1>1, <1>2 DEF ColumnsInv, SourceIsTold

\* A step of the store leaves the tables alone; opening one takes what has been read of it.
LEMMA FollowingKeeps ==
  ASSUME ColumnsInv, ColumnsFollow, UNCHANGED schemaVars
  PROVE  ColumnsInv'
<1>1. UNCHANGED database
  BY DEF schemaVars
<1>2. CASE source' = source
  BY <1>1, <1>2 DEF ColumnsFollow, ColumnsInv, DatabaseOK, SourceIsTold
<1>3. CASE source' # source /\ source' = NoSource
  BY <1>1, <1>3 DEF ColumnsFollow, ColumnsInv, DatabaseOK, SourceIsTold
<1>4. CASE source' # source /\ source' # NoSource
  <2>1. outdated' = (sourceColumns' # database[source'.path][source'.table])
    BY <1>4 DEF ColumnsFollow
  <2> QED BY <1>1, <2>1 DEF ColumnsInv, DatabaseOK, SourceIsTold
<1> QED BY <1>2, <1>3, <1>4

LEMMA AlteringKeeps ==
  ASSUME ColumnsInv, source \in Target \cup {NoSource}, NEW a \in Alterations, Alter(a)
  PROVE  ColumnsInv'
<1>1. /\ a.target \in [path : Paths, table : AllTables]
      /\ a.columns \in Seq(Name) /\ IsInjective(a.columns)
  BY CompiledAssumption DEF Alteration
<1> DEFINE path == a.target.path
           table == a.target.table
<1>2. path \in Paths /\ table \in AllTables /\ a.target = [path |-> path, table |-> table]
  BY <1>1
<1>3. /\ database' = [database EXCEPT ![path][table] = a.columns]
      /\ outdated' = (outdated \/ source = a.target)
      /\ UNCHANGED <<source, sourceColumns>>
  BY DEF Alter, vars, pipelineVars
<1> HIDE DEF path, table
<1>4. database \in [Paths -> [AllTables -> Seq(Name)]] /\ outdated \in BOOLEAN
  BY DEF ColumnsInv, DatabaseOK
<1>5. \A p \in Paths, t \in AllTables :
        database'[p][t] = IF p = path /\ t = table THEN a.columns ELSE database[p][t]
  BY <1>2, <1>3, <1>4
<1>6. DatabaseOK'
  <2>1. database' \in [Paths -> [AllTables -> Seq(Name)]]
    BY <1>1, <1>2, <1>3, <1>4
  <2>2. \A p \in Paths, t \in AllTables : IsInjective(database'[p][t])
    BY <1>1, <1>5 DEF ColumnsInv, DatabaseOK
  <2>3. outdated' \in BOOLEAN
    BY <1>3
  <2> QED BY <2>1, <2>2, <2>3 DEF DatabaseOK
<1>7. SourceIsTold'
  <2> SUFFICES ASSUME source' # NoSource, ~outdated'
               PROVE  sourceColumns' = database'[source'.path][source'.table]
    BY DEF SourceIsTold
  <2>1. source' = source /\ source # NoSource /\ source # a.target /\ ~outdated
    BY <1>3, <1>4
  <2>2. source \in Target
    BY <2>1
  <2>3. source.path \in Paths /\ source.table \in AllTables
    BY <2>2, CompiledAssumption DEF Target
  <2>4. ~(source.path = path /\ source.table = table)
    BY <1>2, <2>1, <2>2 DEF Target
  <2>5. database'[source.path][source.table] = database[source.path][source.table]
    BY <1>5, <2>3, <2>4
  <2>6. sourceColumns = database[source.path][source.table]
    BY <2>1 DEF ColumnsInv, SourceIsTold
  <2> QED BY <1>3, <2>1, <2>5, <2>6
<1> QED BY <1>6, <1>7 DEF ColumnsInv

\* A reload changes what the backend tells, which the invariant does not speak of.
LEMMA ColumnsStep == TypeOK /\ ColumnsInv /\ [CompiledNext]_compiledVars => ColumnsInv'
<1> SUFFICES ASSUME TypeOK, ColumnsInv, [CompiledNext]_compiledVars PROVE ColumnsInv'
  OBVIOUS
<1>1. source \in Target \cup {NoSource}
  BY DEF TypeOK
<1>2. CASE Next /\ ColumnsFollow /\ UNCHANGED schemaVars
  BY <1>2, FollowingKeeps
<1>3. ASSUME NEW a \in Alterations, Alter(a) PROVE ColumnsInv'
  BY <1>1, <1>3, AlteringKeeps
<1>4. ASSUME NEW p \in Paths, SchemaReloads(p) PROVE ColumnsInv'
  <2>1. UNCHANGED <<source, database, sourceColumns, outdated>>
    BY <1>4 DEF SchemaReloads, vars, pipelineVars
  <2> QED BY <2>1 DEF ColumnsInv, DatabaseOK, SourceIsTold
<1>5. CASE UNCHANGED compiledVars
  <2>1. UNCHANGED <<source, database, sourceColumns, outdated>>
    BY <1>5 DEF compiledVars, schemaVars, vars, pipelineVars
  <2> QED BY <2>1 DEF ColumnsInv, DatabaseOK, SourceIsTold
<1> QED BY <1>2, <1>3, <1>4, <1>5 DEF CompiledNext

\* Above tables that change the store does what it does above others.
LEMMA StoreIsUnderneath == CompiledSpec => Spec
<1>1. CompiledInit => Init
  BY DEF CompiledInit
<1>2. [CompiledNext]_compiledVars => [Next]_vars
  BY DEF CompiledNext, Alter, SchemaReloads, compiledVars
<1> QED BY <1>1, <1>2, PTL DEF CompiledSpec, Spec

LEMMA ColumnsAlwaysTold == CompiledSpec => [](TypeOK /\ ColumnsInv)
<1>1. CompiledSpec => []TypeOK
  BY StoreIsUnderneath, TypeCorrect, PTL
<1> QED BY <1>1, ColumnsAtFirst, ColumnsStep, PTL DEF CompiledSpec

(***************************************************************************)
(* Theorems                                                                *)
(***************************************************************************)
\* Whatever the store has on show is within the reach of the compiler's theorems.
LEMMA ConsideredIs ==
  ASSUME TypeOK, NEW p \in Considered
  PROVE  /\ p.source \in Target
         /\ ContentsOf(p.steps) \in Seq(StepContent)
         /\ \/ source # NoSource /\ p.source = source /\ p.columns = sourceColumns
            \/ p.columns = listing[p.source.path][p.source.table]
<1>1. /\ p.source \in Target /\ p.steps \in Seq(DOMAIN Content)
      /\ \/ source # NoSource /\ p.source = source /\ p.columns = sourceColumns
         \/ p.columns = listing[p.source.path][p.source.table]
  <2>1. CASE source # NoSource
    <3>1. p = [source |-> source, steps |-> steps, vars |-> variableValues,
               columns |-> sourceColumns]
      BY <2>1 DEF Considered
    <3>2. source \in Target /\ steps \in Seq(Step)
      BY <2>1 DEF TypeOK
    <3>3. steps \in Seq(DOMAIN Content)
      BY <3>2, CompiledAssumption, SeqMonotonic
    <3> QED BY <2>1, <3>1, <3>2, <3>3
  <2>2. CASE source = NoSource
    <3>1. PICK q \in Samples :
            p = [source |-> q.source, steps |-> q.steps, vars |-> q.vars,
                 columns |-> listing[q.source.path][q.source.table]]
      BY <2>2 DEF Considered
    <3>2. q \in Sample
      BY CompiledAssumption
    <3> QED BY <3>1, <3>2 DEF Sample
  <2> QED BY <2>1, <2>2
<1>2. ContentsOf(p.steps) \in Seq(StepContent)
  <2> DEFINE names == p.steps
             contents == [k \in DOMAIN names |-> Content[names[k]]]
  <2>1. /\ Len(names) \in Nat /\ DOMAIN names = 1 .. Len(names)
        /\ \A k \in 1 .. Len(names) : names[k] \in DOMAIN Content
    BY <1>1, SeqIsList
  <2>2. contents \in [1 .. Len(names) -> StepContent]
    BY <2>1, CompiledAssumption
  <2>3. contents \in Seq(StepContent)
    BY <2>1, <2>2
  <2> QED BY <2>3 DEF ContentsOf
<1> QED BY <1>1, <1>2

\* A compiler that is told of unaltered tables is told the truth.
LEMMA ToldTheTruth ==
  ASSUME TypeOK, ColumnsInv, NEW p \in Considered, ~outdated, SchemaIsRead(p.source.path)
  PROVE  IsEnv(EnvOf(p), p.source.table)
<1> DEFINE env == EnvOf(p)
           path == p.source.path
           table == p.source.table
<1>1. path \in Paths /\ table \in ListedTables /\ table \in AllTables
      /\ ListedTables \subseteq AllTables
  BY ConsideredIs, CompiledAssumption DEF Target
<1>2. /\ env.schema = listing[path] /\ env.tables = database[path]
      /\ env.columns = Known(p.columns)
  BY DEF EnvOf
<1>3. listing[path] = [t \in ListedTables |-> database[path][t]]
  BY DEF SchemaIsRead, Told
<1>4. p.columns = database[path][table]
  <2>1. CASE source # NoSource /\ p.source = source /\ p.columns = sourceColumns
    BY <2>1 DEF ColumnsInv, SourceIsTold
  <2>2. CASE p.columns = listing[path][table]
    BY <1>1, <1>3, <2>2
  <2> QED BY <2>1, <2>2, ConsideredIs
<1> HIDE DEF env, path, table
<1>5. /\ database[path] \in [AllTables -> Seq(Name)]
      /\ \A t \in AllTables : IsInjective(database[path][t])
  BY <1>1 DEF ColumnsInv, DatabaseOK
<1>6. IsSchema(env)
  BY <1>1, <1>2, <1>3, <1>5 DEF IsSchema
<1>7. IsEnv(env, table)
  BY <1>1, <1>2, <1>4, <1>5, <1>6 DEF IsEnv
<1> QED BY <1>7 DEF env, table

\* What the builder offers to pick from is what the preview of the step before shows, in
\* every reachable state of the store and whatever the steps hold, as long as the open table
\* has the columns openForTable was told and those of the other tables have been read.
THEOREM ColumnsAlwaysTracked == CompiledSpec => []ColumnsAreTracked
<1>1. TypeOK /\ ColumnsInv => ColumnsAreTracked
  BY ConsideredIs, ToldTheTruth, EveryPipelineTracksItsColumns DEF ColumnsAreTracked
<1> QED BY <1>1, ColumnsAlwaysTold, PTL

\* The preview of a step comes in the order of the last ORDER BY that is still in effect,
\* in every reachable state of the store and whatever the steps hold, also when tables have
\* been altered behind it.
THEOREM OrderingAlwaysSurvives == CompiledSpec => []OrderingSurvives
<1>1. TypeOK => OrderingSurvives
  BY ConsideredIs, EveryPipelineKeepsItsOrdering DEF OrderingSurvives
<1> QED BY <1>1, ColumnsAlwaysTold, PTL
=============================================================================
