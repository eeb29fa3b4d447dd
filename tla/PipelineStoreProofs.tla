------------------------- MODULE PipelineStoreProofs -------------------------
(***************************************************************************)
(* Proofs about PipelineStore, for every set of tables, steps and values,  *)
(* every compiler, and every bound: its type invariant, that the previews  *)
(* on show always belong to the pipeline on show, and that its undo states *)
(* implement UndoStack.                                                    *)
(*                                                                         *)
(* The inductive invariant says of the latest run what makes superseding   *)
(* it safe: the pipeline it captured agrees with the one on show (which    *)
(* may have lost steps at its end since), every preview below the step it  *)
(* waits for is current and free of errors, and runningIndex is that step. *)
(***************************************************************************)
EXTENDS PipelineStore, Integers, SequenceTheorems, TLAPS

Shown(b, i, src, ss, vv, deb) ==
  /\ b.source = src
  /\ b.steps = SubSeq(ss, 1, i)
  /\ b.vars = vv \/ deb

\* The first n - 1 previews of res are what the pipeline ss on src should show.
Valid(n, src, ss, res, vv, deb) ==
  \A i \in 1 .. Len(ss) : i < n =>
    /\ ~res[i].loading
    /\ res[i].shows \in {"rows", "error"} => Shown(res[i].basis, i, src, ss, vv, deb)
    /\ res[i].shows = "blocked" <=> \E k \in 1 .. i - 1 : res[k].shows = "error"

ErrorFree(n, res) == \A i \in DOMAIN res : i < n => ~HasError(res[i])

\* Run r is about the pipeline ss on src, or about one that ends with more steps.
Follows(r, src, ss, vv, deb) ==
  /\ r.source = src
  /\ Len(ss) <= Len(r.steps)
  /\ \A k \in 1 .. Len(ss) : r.steps[k] = ss[k]
  /\ r.vars = vv \/ deb \/ ss = <<>>

RunInv ==
  /\ \A r \in runs : r.id <= runId
  /\ \A q, r \in runs : q.id = r.id => q = r
  /\ \A r \in runs : IsLatest(r) =>
       /\ source # NoSource
       /\ Follows(r, source, steps, variableValues, varDebounce)
       /\ r.at \in 1 .. Len(r.steps)
       /\ r.at = runningIndex

ResultInv ==
  /\ Valid(Frontier, source, steps, stepResults, variableValues, varDebounce)
  /\ Live => ErrorFree(runningIndex, stepResults)
  /\ source = NoSource => \A i \in DOMAIN stepResults : stepResults[i] = EmptyResult

RunType ==
  /\ stepResults \in Seq(StepResult)
  /\ Len(stepResults) = Len(steps)
  /\ runId \in Nat
  /\ runningIndex \in Nat
  /\ \A r \in runs : r \in Run

RestType ==
  /\ source \in Target \cup {NoSource}
  /\ steps \in Seq(Step)
  /\ variableValues \in Values
  /\ history \in Seq(Seq(Step))
  /\ historyIndex \in 1 .. Len(history)
  /\ settleTimer \in Entry \cup {NoEntry}
  /\ pendingRestore \in Restore \cup {NoRestore}
  /\ rowCount \in Target \cup {NoCount}
  /\ \A o \in opens : o \in Opening
  /\ varDebounce \in BOOLEAN

\* The pipeline tt with the previews out agrees with the one on show below step m.
AgreesBelow(m, tt, out) == \A k \in 1 .. m - 1 : tt[k] = steps[k] /\ out[k] = stepResults[k]

IInv == RestType /\ RunType /\ RunInv /\ ResultInv

(***************************************************************************)
(* Sequences                                                               *)
(***************************************************************************)

\* Sequences that agree up to i have the same prefix of length i: a preview computed
\* from the first i steps of one pipeline is good for the other.
LEMMA PrefixEqual ==
  ASSUME NEW S, NEW s \in Seq(S), NEW t \in Seq(S), NEW i \in Nat,
         i <= Len(s), i <= Len(t), \A k \in 1 .. i : s[k] = t[k]
  PROVE  SubSeq(s, 1, i) = SubSeq(t, 1, i)
  OBVIOUS

\* The prefix executeFrom compiles is a pipeline.
LEMMA PrefixType ==
  ASSUME NEW S, NEW s \in Seq(S), NEW i \in Nat, i <= Len(s)
  PROVE  SubSeq(s, 1, i) \in Seq(S)
  OBVIOUS

\* Removing a step or a preview leaves those before it alone.
LEMMA RemoveAtFacts ==
  ASSUME NEW S, NEW s \in Seq(S), NEW i \in 1 .. Len(s)
  PROVE  /\ RemoveAt(s, i) \in Seq(S)
         /\ Len(RemoveAt(s, i)) = Len(s) - 1
         /\ \A k \in 1 .. i - 1 : RemoveAt(s, i)[k] = s[k]
<1> DEFINE a == SubSeq(s, 1, i - 1)
           b == SubSeq(s, i + 1, Len(s))
<1>1. a \in Seq(S) /\ Len(a) = i - 1 /\ \A k \in 1 .. i - 1 : a[k] = s[k]
  OBVIOUS
<1>2. b \in Seq(S) /\ Len(b) = Len(s) - i
  <2>1. CASE i = Len(s)
    BY <2>1
  <2>2. CASE i < Len(s)
    BY <2>2
  <2>3. QED BY <2>1, <2>2
<1>3. RemoveAt(s, i) = a \o b
  BY DEF RemoveAt
<1> HIDE DEF a, b
<1>4. a \o b \in Seq(S) /\ Len(a \o b) = Len(s) - 1
  BY <1>1, <1>2
<1>5. ASSUME NEW k \in 1 .. i - 1 PROVE (a \o b)[k] = s[k]
  BY <1>1, <1>2
<1>6. QED BY <1>3, <1>4, <1>5

\* Inserting a step or a preview leaves those before it alone.
LEMMA InsertAtFacts ==
  ASSUME NEW S, NEW s \in Seq(S), NEW i \in 1 .. Len(s) + 1, NEW e \in S
  PROVE  /\ InsertAt(s, i, e) \in Seq(S)
         /\ Len(InsertAt(s, i, e)) = Len(s) + 1
         /\ \A k \in 1 .. i - 1 : InsertAt(s, i, e)[k] = s[k]
<1> DEFINE a == SubSeq(s, 1, i - 1)
           b == SubSeq(s, i, Len(s))
           c == a \o <<e>>
<1>1. a \in Seq(S) /\ Len(a) = i - 1 /\ \A k \in 1 .. i - 1 : a[k] = s[k]
  OBVIOUS
<1>2. b \in Seq(S) /\ Len(b) = Len(s) + 1 - i
  <2>1. CASE i = Len(s) + 1
    BY <2>1
  <2>2. CASE i <= Len(s)
    BY <2>2
  <2>3. QED BY <2>1, <2>2
<1>3. InsertAt(s, i, e) = c \o b
  BY DEF InsertAt
<1> HIDE DEF a, b
<1>4. c \in Seq(S) /\ Len(c) = i /\ \A k \in 1 .. i - 1 : c[k] = s[k]
  BY <1>1
<1> HIDE DEF c
<1>5. QED BY <1>2, <1>3, <1>4

\* Reordering leaves alone everything before the place from which reorderSteps
\* previews again.
LEMMA MoveFacts ==
  ASSUME NEW S, NEW s \in Seq(S), NEW from \in 1 .. Len(s), NEW to \in 1 .. Len(s)
  PROVE  /\ Move(s, from, to) \in Seq(S)
         /\ Len(Move(s, from, to)) = Len(s)
         /\ \A k \in 1 .. ReorderedFrom(from, to) - 1 : Move(s, from, to)[k] = s[k]
<1> DEFINE u == RemoveAt(s, from)
<1>1. /\ u \in Seq(S)
      /\ Len(u) = Len(s) - 1
      /\ \A k \in 1 .. from - 1 : u[k] = s[k]
  BY RemoveAtFacts
<1> HIDE DEF u
<1>2. /\ InsertAt(u, to, s[from]) \in Seq(S)
      /\ Len(InsertAt(u, to, s[from])) = Len(u) + 1
      /\ \A k \in 1 .. to - 1 : InsertAt(u, to, s[from])[k] = u[k]
  <2>1. to \in 1 .. Len(u) + 1 /\ s[from] \in S
    BY <1>1
  <2>2. QED BY <1>1, <2>1, InsertAtFacts
<1>3. Move(s, from, to) = InsertAt(u, to, s[from])
  BY DEF Move, u
<1>4. ReorderedFrom(from, to) <= from /\ ReorderedFrom(from, to) <= to /\ ReorderedFrom(from, to) \in Nat
  BY DEF ReorderedFrom
<1>5. QED BY <1>1, <1>2, <1>3, <1>4

(***************************************************************************)
(* Previews                                                                *)
(***************************************************************************)

\* The previews the code makes are previews, and setResult and the loops keep one for
\* each step.
LEMMA ResultTypes ==
  /\ EmptyResult \in StepResult /\ Blocked \in StepResult
  /\ \A b \in Basis : Rows(b) \in StepResult /\ Failed(b) \in StepResult
  /\ \A r \in StepResult : Loading(r) \in StepResult
  BY DEF EmptyResult, Blocked, Rows, Failed, Loading, StepResult

LEMMA SetResultFacts ==
  ASSUME NEW res \in Seq(StepResult), NEW r \in StepResult, NEW i
  PROVE  /\ SetResult(res, i, r) \in Seq(StepResult)
         /\ Len(SetResult(res, i, r)) = Len(res)
         /\ \A k \in 1 .. Len(res) : SetResult(res, i, r)[k] = IF k = i THEN r ELSE res[k]
  BY DEF SetResult

LEMMA BlockFacts ==
  ASSUME NEW res \in Seq(StepResult), NEW i \in Nat
  PROVE  /\ BlockFromLoop(res, i) \in Seq(StepResult)
         /\ Len(BlockFromLoop(res, i)) = Len(res)
         /\ \A k \in 1 .. Len(res) :
              BlockFromLoop(res, i)[k] = IF k < i THEN res[k] ELSE Blocked
  BY ResultTypes DEF BlockFromLoop

LEMMA PassFacts ==
  ASSUME NEW res \in Seq(StepResult), NEW i \in Nat, NEW j \in Nat
  PROVE  /\ PassNoops(res, i, j) \in Seq(StepResult)
         /\ Len(PassNoops(res, i, j)) = Len(res)
         /\ \A k \in 1 .. Len(res) :
              PassNoops(res, i, j)[k] = IF i <= k /\ k < j THEN EmptyResult ELSE res[k]
  BY ResultTypes DEF PassNoops

\* What a run shows of step i belongs to any pipeline the run follows that has one.
LEMMA BasisFacts ==
  ASSUME NEW r \in Run, NEW i \in 1 .. Len(r.steps)
  PROVE  /\ BasisOf(r, i) \in Basis
         /\ \A src, vv, deb : \A ss \in Seq(Step) :
              Follows(r, src, ss, vv, deb) /\ i <= Len(ss)
                => Shown(BasisOf(r, i), i, src, ss, vv, deb)
<1>1. r.source \in Target /\ r.steps \in Seq(Step) /\ r.vars \in Values
  BY DEF Run
<1>2. SubSeq(r.steps, 1, i) \in Seq(Step)
  BY <1>1, PrefixType
<1>3. BasisOf(r, i) \in Basis
  BY <1>1, <1>2 DEF BasisOf, Basis
<1>4. ASSUME NEW src, NEW vv, NEW deb, NEW ss \in Seq(Step),
             Follows(r, src, ss, vv, deb), i <= Len(ss)
      PROVE  Shown(BasisOf(r, i), i, src, ss, vv, deb)
  <2>1. SubSeq(r.steps, 1, i) = SubSeq(ss, 1, i)
    BY <1>1, <1>4, PrefixEqual DEF Follows
  <2>2. r.source = src /\ (r.vars = vv \/ deb)
    BY <1>4 DEF Follows
  <2>3. QED BY <2>1, <2>2 DEF Shown, BasisOf
<1>5. QED BY <1>3, <1>4

\* The previews below m stay valid when an edit leaves the steps and previews below m
\* alone.
LEMMA ValidAgree ==
  ASSUME NEW src, NEW vv, NEW deb, NEW n \in Nat, NEW m \in Nat,
         NEW ss \in Seq(Step), NEW tt \in Seq(Step),
         NEW res \in Seq(StepResult), NEW out \in Seq(StepResult),
         Len(res) = Len(ss), Len(out) = Len(tt),
         m <= n, m <= Len(ss) + 1,
         \A k \in 1 .. m - 1 : tt[k] = ss[k] /\ out[k] = res[k],
         Valid(n, src, ss, res, vv, deb)
  PROVE  Valid(m, src, tt, out, vv, deb)
<1> SUFFICES ASSUME NEW i \in 1 .. Len(tt), i < m
             PROVE  /\ ~out[i].loading
                    /\ out[i].shows \in {"rows", "error"}
                         => Shown(out[i].basis, i, src, tt, vv, deb)
                    /\ out[i].shows = "blocked"
                         <=> \E k \in 1 .. i - 1 : out[k].shows = "error"
  BY DEF Valid
<1>1. i \in 1 .. Len(ss) /\ i < n /\ out[i] = res[i] /\ \A k \in 1 .. i - 1 : out[k] = res[k]
  OBVIOUS
<1>2. /\ ~res[i].loading
      /\ res[i].shows \in {"rows", "error"} => Shown(res[i].basis, i, src, ss, vv, deb)
      /\ res[i].shows = "blocked" <=> \E k \in 1 .. i - 1 : res[k].shows = "error"
  BY <1>1 DEF Valid
<1>3. SubSeq(tt, 1, i) = SubSeq(ss, 1, i)
  BY <1>1, PrefixEqual
<1>4. QED BY <1>1, <1>2, <1>3 DEF Shown

\* Steps the compiler has nothing to ask for end with an empty preview.
LEMMA ValidPass ==
  ASSUME NEW src, NEW vv, NEW deb, NEW f \in Nat \ {0}, NEW j \in Nat, f <= j,
         NEW ss \in Seq(Step), NEW res \in Seq(StepResult), Len(res) = Len(ss),
         Valid(f, src, ss, res, vv, deb), ErrorFree(f, res)
  PROVE  /\ Valid(j, src, ss, PassNoops(res, f, j), vv, deb)
         /\ ErrorFree(j, PassNoops(res, f, j))
<1> DEFINE out == PassNoops(res, f, j)
<1>1. /\ out \in Seq(StepResult)
      /\ Len(out) = Len(res)
      /\ \A k \in 1 .. Len(res) : out[k] = IF f <= k /\ k < j THEN EmptyResult ELSE res[k]
  BY PassFacts
<1> HIDE DEF out
<1>2. ErrorFree(j, out)
  BY <1>1 DEF ErrorFree, HasError, EmptyResult
<1>3. ASSUME NEW i \in 1 .. Len(ss), i < j
      PROVE  /\ ~out[i].loading
             /\ out[i].shows \in {"rows", "error"} => Shown(out[i].basis, i, src, ss, vv, deb)
             /\ out[i].shows = "blocked" <=> \E k \in 1 .. i - 1 : out[k].shows = "error"
  <2>1. out[i].shows # "blocked" /\ \A k \in 1 .. i - 1 : out[k].shows # "error"
    BY <1>1, <1>2, <1>3 DEF ErrorFree, HasError
  <2>2. CASE i < f
    BY <1>1, <2>1, <2>2 DEF Valid
  <2>3. CASE f <= i
    BY <1>1, <1>3, <2>1, <2>3 DEF EmptyResult
  <2>4. QED BY <2>2, <2>3
<1>4. QED BY <1>2, <1>3 DEF Valid, out

\* A failing step blocks every step after it, and none before it.
LEMMA ValidFail ==
  ASSUME NEW src, NEW vv, NEW deb, NEW j \in Nat \ {0}, NEW b \in Basis,
         NEW ss \in Seq(Step), NEW res \in Seq(StepResult), Len(res) = Len(ss),
         j <= Len(ss) => Shown(b, j, src, ss, vv, deb),
         Valid(j, src, ss, res, vv, deb), ErrorFree(j, res)
  PROVE  /\ FailFrom(res, j, b) \in Seq(StepResult)
         /\ Len(FailFrom(res, j, b)) = Len(res)
         /\ Valid(Len(ss) + 1, src, ss, FailFrom(res, j, b), vv, deb)
<1> DEFINE mid == BlockFromLoop(res, j)
           out == FailFrom(res, j, b)
<1>1. /\ mid \in Seq(StepResult)
      /\ Len(mid) = Len(res)
      /\ \A k \in 1 .. Len(res) : mid[k] = IF k < j THEN res[k] ELSE Blocked
  BY BlockFacts
<1>2. out = SetResult(mid, j, Failed(b)) /\ Failed(b) \in StepResult
  BY ResultTypes DEF FailFrom
<1> HIDE DEF mid, out
<1>3. /\ out \in Seq(StepResult)
      /\ Len(out) = Len(res)
      /\ \A k \in 1 .. Len(res) :
           out[k] = IF k = j THEN Failed(b) ELSE IF k < j THEN res[k] ELSE Blocked
  BY <1>1, <1>2, SetResultFacts
<1>4. ASSUME NEW i \in 1 .. Len(ss)
      PROVE  /\ ~out[i].loading
             /\ out[i].shows \in {"rows", "error"} => Shown(out[i].basis, i, src, ss, vv, deb)
             /\ out[i].shows = "blocked" <=> \E k \in 1 .. i - 1 : out[k].shows = "error"
  <2>1. CASE i < j
    BY <1>3, <2>1 DEF Valid
  <2>2. CASE i = j
    BY <1>3, <2>2 DEF Failed, ErrorFree, HasError
  <2>3. CASE j < i
    <3>1. out[j] = Failed(b) /\ out[i] = Blocked /\ j \in 1 .. i - 1
      BY <1>3, <2>3
    <3>2. QED BY <3>1 DEF Failed, Blocked
  <2>4. QED BY <2>1, <2>2, <2>3
<1>5. QED BY <1>3, <1>4 DEF Valid, out

\* Blocking from f is right when a step before f failed.
LEMMA ValidBlock ==
  ASSUME NEW src, NEW vv, NEW deb, NEW f \in Nat \ {0},
         NEW ss \in Seq(Step), NEW res \in Seq(StepResult), Len(res) = Len(ss),
         Valid(f, src, ss, res, vv, deb),
         \E k \in DOMAIN res : k < f /\ HasError(res[k])
  PROVE  Valid(Len(ss) + 1, src, ss, BlockFromLoop(res, f), vv, deb)
<1> DEFINE out == BlockFromLoop(res, f)
<1>1. /\ out \in Seq(StepResult)
      /\ Len(out) = Len(res)
      /\ \A k \in 1 .. Len(res) : out[k] = IF k < f THEN res[k] ELSE Blocked
  BY BlockFacts
<1> HIDE DEF out
<1>2. PICK e \in 1 .. Len(res) : e < f /\ res[e].shows = "error"
  <2>1. PICK k \in 1 .. Len(res) : k < f /\ res[k].shows \in {"error", "blocked"}
    BY DEF HasError
  <2>2. CASE res[k].shows = "error"
    BY <2>1, <2>2
  <2>3. CASE res[k].shows = "blocked"
    <3>1. \E e \in 1 .. k - 1 : res[e].shows = "error"
      BY <2>1, <2>3 DEF Valid
    <3>2. QED BY <2>1, <3>1
  <2>4. QED BY <2>1, <2>2, <2>3
<1>3. ASSUME NEW i \in 1 .. Len(ss)
      PROVE  /\ ~out[i].loading
             /\ out[i].shows \in {"rows", "error"} => Shown(out[i].basis, i, src, ss, vv, deb)
             /\ out[i].shows = "blocked" <=> \E k \in 1 .. i - 1 : out[k].shows = "error"
  <2>1. CASE i < f
    <3>1. out[i] = res[i] /\ \A k \in 1 .. i - 1 : out[k] = res[k]
      BY <1>1, <2>1
    <3>2. /\ ~res[i].loading
          /\ res[i].shows \in {"rows", "error"} => Shown(res[i].basis, i, src, ss, vv, deb)
          /\ res[i].shows = "blocked" <=> \E k \in 1 .. i - 1 : res[k].shows = "error"
      BY <2>1 DEF Valid
    <3>3. QED BY <3>1, <3>2
  <2>2. CASE f <= i
    <3>1. out[i] = Blocked /\ e \in 1 .. i - 1 /\ out[e].shows = "error"
      BY <1>1, <1>2, <2>2
    <3>2. QED BY <3>1 DEF Blocked
  <2>3. QED BY <2>1, <2>2
<1>4. QED BY <1>1, <1>3 DEF Valid, out

(***************************************************************************)
(* Runs                                                                    *)
(***************************************************************************)

\* When no run of the newest id is left, every preview has to be right.
LEMMA EndKeepsInv ==
  ASSUME runId' \in Nat, runningIndex' \in Nat, source' # NoSource,
         \A q \in runs' : q \in Run /\ q.id < runId',
         \A p, q \in runs' : p.id = q.id => p = q,
         stepResults' \in Seq(StepResult), Len(stepResults') = Len(steps'),
         Valid(Len(steps') + 1, source', steps', stepResults', variableValues', varDebounce')
  PROVE  RunType' /\ RunInv' /\ ResultInv'
<1>1. ~Live'
  BY DEF Live, IsLatest, Run
<1>2. RunType'
  BY DEF RunType
<1>3. RunInv'
  BY <1>1 DEF RunInv, Live, IsLatest, Run
<1>4. ResultInv'
  BY <1>1 DEF ResultInv, Frontier
<1>5. QED BY <1>2, <1>3, <1>4

\* The rest of the latest run, up to its next await or its end, restores the
\* invariant, given that every other run is older and the previews before f are good.
LEMMA ContinueKeepsInv ==
  ASSUME NEW r \in Run, NEW f \in Nat \ {0}, f <= Len(r.steps) + 1,
         NEW others, NEW res \in Seq(StepResult), Len(res) = Len(steps'),
         steps' \in Seq(Step), runId' = r.id, source' # NoSource,
         \A q \in others : q \in Run /\ q.id < r.id,
         \A p, q \in others : p.id = q.id => p = q,
         Follows(r, source', steps', variableValues', varDebounce'),
         Valid(f, source', steps', res, variableValues', varDebounce'),
         ErrorFree(f, res),
         Continue(r, f, res, others)
  PROVE  RunType' /\ RunInv' /\ ResultInv'
<1>1. r.id \in Nat /\ r.source \in Target /\ r.steps \in Seq(Step) /\ r.vars \in Values
  BY DEF Run
<1>2. PICK j \in f .. Len(r.steps) + 1 :
        LET passed == PassNoops(res, f, j)
        IN  \/ /\ j = Len(r.steps) + 1
               /\ stepResults' = passed
               /\ runningIndex' = 0
               /\ runs' = others
            \/ /\ j <= Len(r.steps)
               /\ stepResults' = FailFrom(passed, j, BasisOf(r, j))
               /\ runningIndex' = 0
               /\ runs' = others
            \/ /\ j <= Len(r.steps)
               /\ stepResults' = IF j \in DOMAIN passed
                                 THEN SetResult(passed, j, Loading(passed[j]))
                                 ELSE passed
               /\ runningIndex' = j
               /\ runs' = others \cup {[r EXCEPT !.at = j]}
  BY DEF Continue
<1> DEFINE passed == PassNoops(res, f, j)
<1>3. j \in Nat \ {0} /\ f <= j
  BY <1>1
<1>4. passed \in Seq(StepResult) /\ Len(passed) = Len(steps')
  BY <1>3, PassFacts
<1>5. /\ Valid(j, source', steps', passed, variableValues', varDebounce')
      /\ ErrorFree(j, passed)
  BY <1>3, ValidPass
<1>6. Len(steps') <= Len(r.steps) /\ Len(steps') \in Nat
  BY DEF Follows
<1> HIDE DEF passed
<1>7. ASSUME runs' = others, runningIndex' = 0,
             stepResults' \in Seq(StepResult), Len(stepResults') = Len(steps'),
             Valid(Len(steps') + 1, source', steps', stepResults', variableValues',
                   varDebounce')
      PROVE  RunType' /\ RunInv' /\ ResultInv'
  BY <1>1, <1>7, EndKeepsInv
<1>8. CASE /\ j = Len(r.steps) + 1
           /\ stepResults' = passed
           /\ runningIndex' = 0
           /\ runs' = others
  <2>1. Valid(Len(steps') + 1, source', steps', stepResults', variableValues', varDebounce')
    BY <1>1, <1>5, <1>6, <1>8 DEF Valid
  <2>2. QED BY <1>4, <1>7, <1>8, <2>1
<1>9. CASE /\ j <= Len(r.steps)
           /\ stepResults' = FailFrom(passed, j, BasisOf(r, j))
           /\ runningIndex' = 0
           /\ runs' = others
  <2>1. BasisOf(r, j) \in Basis
    BY <1>1, <1>3, <1>9, BasisFacts
  <2>2. j <= Len(steps')
          => Shown(BasisOf(r, j), j, source', steps', variableValues', varDebounce')
    BY <1>1, <1>3, <1>9, BasisFacts
  <2>3. /\ stepResults' \in Seq(StepResult)
        /\ Len(stepResults') = Len(steps')
        /\ Valid(Len(steps') + 1, source', steps', stepResults', variableValues', varDebounce')
    BY <1>3, <1>4, <1>5, <1>9, <2>1, <2>2, ValidFail
  <2>4. QED BY <1>7, <1>9, <2>3
<1>10. CASE /\ j <= Len(r.steps)
            /\ stepResults' = IF j \in DOMAIN passed
                              THEN SetResult(passed, j, Loading(passed[j]))
                              ELSE passed
            /\ runningIndex' = j
            /\ runs' = others \cup {[r EXCEPT !.at = j]}
  <2> DEFINE n == [r EXCEPT !.at = j]
  <2>1. n \in Run /\ n.id = r.id /\ n.at = j /\ n.steps = r.steps /\ n.source = r.source
          /\ n.vars = r.vars
    BY <1>3 DEF Run
  <2>2. runs' = others \cup {n}
    BY <1>10
  <2> HIDE DEF n
  <2>3. /\ stepResults' \in Seq(StepResult)
        /\ Len(stepResults') = Len(steps')
        /\ \A k \in 1 .. Len(steps') : k < j => stepResults'[k] = passed[k]
    <3>1. CASE j \in DOMAIN passed
      <4>1. Loading(passed[j]) \in StepResult
        BY <1>4, <3>1, ResultTypes
      <4>2. QED BY <1>4, <1>10, <3>1, <4>1, SetResultFacts
    <3>2. CASE j \notin DOMAIN passed
      BY <1>4, <1>10, <3>2
    <3>3. QED BY <3>1, <3>2
  <2>4. Live' /\ \A q \in runs' : IsLatest(q)' => q = n
    BY <1>1, <2>1, <2>2 DEF Live, IsLatest, Run
  <2>5. RunType'
    BY <1>1, <1>3, <1>10, <2>1, <2>2, <2>3 DEF RunType
  <2>6. Follows(n, source', steps', variableValues', varDebounce')
    BY <2>1 DEF Follows
  <2>7. RunInv'
    <3>1. \A q \in runs' : q.id <= runId'
      BY <1>1, <2>1, <2>2 DEF Run
    <3>2. \A p, q \in runs' : p.id = q.id => p = q
      BY <1>1, <2>1, <2>2 DEF Run
    <3>3. n.at \in 1 .. Len(n.steps) /\ n.at = runningIndex'
      BY <1>3, <1>10, <2>1
    <3>4. QED BY <2>4, <2>6, <3>1, <3>2, <3>3 DEF RunInv
  <2>8. Valid(j, source', steps', stepResults', variableValues', varDebounce')
    <3>1. \A k \in 1 .. Len(steps') : k < j => /\ stepResults'[k] = passed[k]
                                               /\ \A i \in 1 .. k - 1 :
                                                    stepResults'[i] = passed[i]
      BY <1>3, <1>6, <2>3
    <3>2. QED BY <1>5, <3>1 DEF Valid
  <2>9. ErrorFree(j, stepResults')
    BY <1>4, <1>5, <2>3 DEF ErrorFree
  <2>10. ResultInv'
    BY <1>10, <2>4, <2>8, <2>9 DEF ResultInv, Frontier
  <2>11. QED BY <2>5, <2>7, <2>10
<1>11. QED BY <1>2, <1>8, <1>9, <1>10 DEF passed

\* A new run starts no later than the edit, nor than the step the superseded run left.
LEMMA ResumeFacts ==
  ASSUME RunType, RunInv, NEW from \in Nat \ {0}
  PROVE  /\ ResumeFrom(from) \in Nat \ {0}
         /\ ResumeFrom(from) <= from
         /\ Live => ResumeFrom(from) <= runningIndex
         /\ Live => runningIndex # 0
<1>1. Live => runningIndex # 0
  BY DEF Live, RunInv, RunType, Run
<1>2. QED BY <1>1 DEF ResumeFrom, RunType

\* executeFrom restores the invariant whatever its caller stored, if the previews
\* before the step it starts from are right for the pipeline the caller stored.
LEMMA ExecuteKeepsInv ==
  ASSUME RunType, RunInv, PipelineAssumption,
         NEW id \in {runId, runId + 1}, NEW from \in Nat \ {0},
         NEW src \in Target \cup {NoSource}, NEW ss \in Seq(Step),
         NEW res \in Seq(StepResult), NEW vv \in Values,
         Len(res) = Len(ss), from <= Len(ss) + 1,
         src = NoSource => /\ source = NoSource /\ id = runId
                           /\ \A i \in 1 .. Len(ss) : res[i] = EmptyResult,
         source' = src, steps' = ss, variableValues' = vv,
         Valid(ResumeFrom(from), src, ss, res, vv, varDebounce'),
         ExecuteFrom(id, from, src, ss, res, vv)
  PROVE  RunType' /\ RunInv' /\ ResultInv'
<1> DEFINE f == ResumeFrom(from)
           r == [id |-> id + 1, at |-> 0, source |-> src, steps |-> ss, vars |-> vv]
<1>1. f \in Nat \ {0} /\ f <= Len(ss) + 1
  BY ResumeFacts
<1>2. id \in Nat /\ runId \in Nat /\ \A q \in runs : q \in Run /\ q.id \in Nat /\ q.id < id + 1
  BY DEF RunType, RunInv, Run
<1>3. CASE src = NoSource
  <2>1. runId' = runId /\ stepResults' = res /\ runs' = runs /\ runningIndex' = runningIndex
    BY <1>3 DEF ExecuteFrom
  <2>2. ~Live'
    BY <1>3, <2>1 DEF RunInv, Live, IsLatest
  <2>3. Valid(Len(ss) + 1, src, ss, res, vv, varDebounce')
    BY <1>3 DEF Valid, EmptyResult
  <2>4. RunType'
    BY <2>1 DEF RunType
  <2>5. RunInv'
    BY <2>1, <2>2 DEF RunInv, Live, IsLatest
  <2>6. ResultInv'
    BY <1>3, <2>1, <2>2, <2>3 DEF ResultInv, Frontier
  <2>7. QED BY <2>4, <2>5, <2>6
<1>4. CASE src # NoSource /\ \E k \in DOMAIN res : k < f /\ HasError(res[k])
  <2>1. /\ runId' = id + 1
        /\ stepResults' = BlockFromLoop(res, f)
        /\ runs' = runs /\ runningIndex' = runningIndex
    BY <1>4 DEF ExecuteFrom
  <2>2. Valid(Len(ss) + 1, src, ss, BlockFromLoop(res, f), vv, varDebounce')
    BY <1>1, <1>4, ValidBlock
  <2>3. \A p, q \in runs : p.id = q.id => p = q
    BY DEF RunInv
  <2>4. runningIndex \in Nat
    BY DEF RunType
  <2>5. BlockFromLoop(res, f) \in Seq(StepResult) /\ Len(BlockFromLoop(res, f)) = Len(ss)
    BY <1>1, BlockFacts
  <2>6. QED BY <1>2, <1>4, <2>1, <2>2, <2>3, <2>4, <2>5, EndKeepsInv
<1>5. CASE src # NoSource /\ ~\E k \in DOMAIN res : k < f /\ HasError(res[k])
  <2>1. runId' = id + 1 /\ Continue(r, f, res, runs)
    BY <1>5 DEF ExecuteFrom
  <2>2. r \in Run /\ r.id = id + 1 /\ r.steps = ss /\ r.source = src /\ r.vars = vv
    BY <1>2, <1>5 DEF Run
  <2> HIDE DEF f, r
  <2>3. ErrorFree(f, res)
    BY <1>5 DEF ErrorFree
  <2>4. Follows(r, src, ss, vv, varDebounce')
    BY <2>2 DEF Follows
  <2>5. \A p, q \in runs : p.id = q.id => p = q
    BY DEF RunInv
  <2>6. Valid(f, src, ss, res, vv, varDebounce')
    BY DEF f
  <2>7. QED BY <1>1, <1>2, <1>5, <2>1, <2>2, <2>3, <2>4, <2>5, <2>6, ContinueKeepsInv
<1>6. QED BY <1>3, <1>4, <1>5

\* The same for a pipeline restored with empty previews, which is previewed from its
\* first step.
LEMMA RestoreKeepsInv ==
  ASSUME RunType, RunInv, PipelineAssumption,
         NEW id \in {runId, runId + 1},
         NEW src \in Target \cup {NoSource}, NEW ss \in Seq(Step), NEW vv \in Values,
         src = NoSource => source = NoSource /\ id = runId,
         source' = src, steps' = ss, variableValues' = vv,
         ExecuteFrom(id, 1, src, ss, EmptyResults(ss), vv)
  PROVE  RunType' /\ RunInv' /\ ResultInv'
<1>1. /\ EmptyResults(ss) \in Seq(StepResult)
      /\ Len(EmptyResults(ss)) = Len(ss)
      /\ \A i \in 1 .. Len(ss) : EmptyResults(ss)[i] = EmptyResult
  BY ResultTypes DEF EmptyResults
<1>2. ResumeFrom(1) = 1
  BY ResumeFacts
<1>3. Valid(1, src, ss, EmptyResults(ss), vv, varDebounce')
  BY DEF Valid
<1>4. QED BY <1>1, <1>2, <1>3, ExecuteKeepsInv

\* Bumping runId over an empty pipeline leaves every run stale.
LEMMA EmptyKeepsInv ==
  ASSUME RunType, RunInv, runId' = runId + 1, steps' = <<>>, stepResults' = <<>>,
         UNCHANGED <<runningIndex, runs>>
  PROVE  RunType' /\ RunInv' /\ ResultInv'
<1>1. ~Live'
  BY DEF RunType, RunInv, Live, IsLatest, Run
<1>2. RunType'
  BY DEF RunType
<1>3. RunInv'
  BY <1>1 DEF RunType, RunInv, Live, IsLatest, Run
<1>4. ResultInv'
  BY <1>1 DEF ResultInv, Valid
<1>5. QED BY <1>2, <1>3, <1>4

\* Steps that leave the pipeline, its previews and its runs alone; a variable may have
\* been typed in.
LEMMA QuietKeepsInv ==
  ASSUME RunType, RunInv, ResultInv,
         UNCHANGED <<source, steps, runVars>>,
         varDebounce' \/ UNCHANGED <<variableValues, varDebounce>>
  PROVE  RunType' /\ RunInv' /\ ResultInv'
<1>1. UNCHANGED <<source, steps, stepResults, runId, runningIndex, runs>>
  BY DEF runVars
<1>2. RunType'
  BY <1>1 DEF RunType
<1>3. RunInv'
  BY <1>1 DEF RunInv, IsLatest, Follows
<1>4. Live' = Live /\ Frontier' = Frontier
  BY <1>1 DEF Live, Frontier, IsLatest
<1>5. Valid(Frontier, source, steps, stepResults, variableValues', varDebounce')
  BY DEF ResultInv, Valid, Shown
<1>6. ResultInv'
  BY <1>1, <1>4, <1>5 DEF ResultInv
<1>7. QED BY <1>2, <1>3, <1>6

\* A new undo state keeps the history a history.
LEMMA HistoryFacts ==
  ASSUME RestType, PipelineAssumption, NEW ss \in Seq(Step), RecordHistory(ss)
  PROVE  history' \in Seq(Seq(Step)) /\ historyIndex' \in 1 .. Len(history')
<1> DEFINE h == Append(SubSeq(history, 1, historyIndex), ss)
<1>1. h \in Seq(Seq(Step)) /\ Len(h) \in Nat \ {0}
  BY DEF RestType
<1>2. history' = LastN(h, HistoryCap) /\ historyIndex' = Len(history')
  BY DEF RecordHistory
<1>3. HistoryCap \in Nat \ {0}
  BY DEF PipelineAssumption
<1> HIDE DEF h
<1>4. LastN(h, HistoryCap) \in Seq(Seq(Step)) /\ Len(LastN(h, HistoryCap)) \in Nat \ {0}
  <2>1. CASE Len(h) <= HistoryCap
    BY <1>1, <2>1 DEF LastN
  <2>2. CASE Len(h) > HistoryCap
    <3>1. LastN(h, HistoryCap) = SubSeq(h, Len(h) - HistoryCap + 1, Len(h))
      BY <1>1, <1>3, <2>2 DEF LastN
    <3>2. Len(h) - HistoryCap + 1 \in 1 .. Len(h)
      BY <1>1, <1>3, <2>2
    <3>3. QED BY <1>1, <3>1, <3>2
  <2>3. QED BY <1>1, <1>3, <2>1, <2>2
<1>5. QED BY <1>2, <1>4

(***************************************************************************)
(* Actions                                                                 *)
(***************************************************************************)

\* The previews on show are good as far as any new run looks at them.
LEMMA ShownSoFar ==
  ASSUME RunType, RunInv, ResultInv, steps \in Seq(Step), NEW m \in Nat,
         m <= Len(steps) + 1, Live => m <= runningIndex,
         NEW tt \in Seq(Step), NEW out \in Seq(StepResult), Len(out) = Len(tt),
         AgreesBelow(m, tt, out)
  PROVE  Valid(m, source, tt, out, variableValues, varDebounce)
<1>1. Frontier \in Nat /\ m <= Frontier
  BY DEF Frontier, RunType
<1>2. Valid(Frontier, source, steps, stepResults, variableValues, varDebounce)
  BY DEF ResultInv
<1>3. stepResults \in Seq(StepResult) /\ Len(stepResults) = Len(steps)
  BY DEF RunType
<1>4. \A k \in 1 .. m - 1 : tt[k] = steps[k] /\ out[k] = stepResults[k]
  BY DEF AgreesBelow
<1>5. QED BY <1>1, <1>2, <1>3, <1>4, ValidAgree

\* Any edit keeps the invariant, if it previews again from the first step it changes.
LEMMA EditKeepsInv ==
  ASSUME IInv, PipelineAssumption,
         NEW ss \in Seq(Step), NEW res \in Seq(StepResult), Len(res) = Len(ss),
         BuilderOpen \/ \A i \in DOMAIN res : res[i] = EmptyResult,
         NEW from \in Nat \ {0}, from <= Len(ss) + 1, from <= Len(steps) + 1,
         AgreesBelow(from, ss, res),
         Edit(ss, res, from)
  PROVE  IInv'
<1> USE DEF IInv
<1>1. /\ steps' = ss
      /\ RecordHistory(ss)
      /\ ExecuteFrom(runId, from, source, ss, res, variableValues)
      /\ UNCHANGED <<source, variableValues, rowCount, settleTimer, pendingRestore, opens,
                     varDebounce>>
  BY DEF Edit
<1>2. RestType'
  BY <1>1, HistoryFacts DEF RestType
<1>3. RunType' /\ RunInv' /\ ResultInv'
  <2>1. /\ ResumeFrom(from) \in Nat
        /\ ResumeFrom(from) <= from
        /\ Live => ResumeFrom(from) <= runningIndex
    BY ResumeFacts
  <2>2. AgreesBelow(ResumeFrom(from), ss, res)
    BY <2>1 DEF AgreesBelow
  <2>3. Valid(ResumeFrom(from), source, ss, res, variableValues, varDebounce)
    <3>1. steps \in Seq(Step) /\ ResumeFrom(from) <= Len(steps) + 1
      BY <2>1 DEF RestType
    <3> HIDE DEF IInv
    <3>2. RunType /\ RunInv /\ ResultInv
      BY DEF IInv
    <3>3. QED BY <2>1, <2>2, <3>1, <3>2, ShownSoFar
  <2>4. source \in Target \cup {NoSource} /\ variableValues \in Values
    BY DEF RestType
  <2>5. source = NoSource => \A i \in 1 .. Len(ss) : res[i] = EmptyResult
    BY DEF BuilderOpen
  <2>6. runId \in {runId, runId + 1}
    OBVIOUS
  <2>7. QED BY <1>1, <2>3, <2>4, <2>5, <2>6, ExecuteKeepsInv
<1>4. QED BY <1>2, <1>3

LEMMA AddStepKeepsInv ==
  ASSUME IInv, PipelineAssumption, NEW s \in NewSteps, AddStep(s)
  PROVE  IInv'
<1>1. steps \in Seq(Step) /\ stepResults \in Seq(StepResult) /\ Len(stepResults) = Len(steps)
  BY DEF IInv, RestType, RunType
<1>2. s \in Step /\ EmptyResult \in StepResult
  BY ResultTypes DEF PipelineAssumption
<1> DEFINE ss == Append(steps, s)
           res == Append(stepResults, EmptyResult)
<1>3. ss \in Seq(Step) /\ res \in Seq(StepResult) /\ Len(res) = Len(ss)
  BY <1>1, <1>2
<1>4. Len(steps) + 1 \in Nat \ {0} /\ Len(steps) + 1 <= Len(ss) + 1
  BY <1>1
<1>5. AgreesBelow(Len(steps) + 1, ss, res)
  BY <1>1 DEF AgreesBelow
<1>6. BuilderOpen /\ Edit(ss, res, Len(steps) + 1)
  BY DEF AddStep
<1> HIDE DEF ss, res
<1>7. QED BY <1>1, <1>3, <1>4, <1>5, <1>6, EditKeepsInv

LEMMA UpdateStepKeepsInv ==
  ASSUME IInv, PipelineAssumption, NEW i \in 1 .. MaxSteps, NEW s \in Step, UpdateStep(i, s)
  PROVE  IInv'
<1>1. steps \in Seq(Step) /\ stepResults \in Seq(StepResult) /\ Len(stepResults) = Len(steps)
  BY DEF IInv, RestType, RunType
<1> DEFINE ss   == [steps EXCEPT ![i] = s]
           from == IF i <= Len(steps) THEN i ELSE Len(steps) + 1
<1>2. i \in Nat \ {0}
  OBVIOUS
<1>3. from \in Nat \ {0} /\ from <= i /\ from <= Len(steps) + 1
  BY <1>1, <1>2
<1>4. ss \in Seq(Step) /\ Len(ss) = Len(steps) /\ AgreesBelow(from, ss, stepResults)
  <2>1. CASE i <= Len(steps)
    <3>1. i \in DOMAIN steps
      BY <1>1, <1>2, <2>1
    <3>2. QED BY <1>1, <1>2, <1>3, <3>1 DEF AgreesBelow
  <2>2. CASE ~(i <= Len(steps))
    <3>1. i \notin DOMAIN steps
      BY <1>1, <1>2, <2>2
    <3>2. ss = steps
      BY <1>1, <3>1
    <3>3. QED BY <1>1, <3>2 DEF AgreesBelow
  <2>3. QED BY <2>1, <2>2
<1>5. BuilderOpen \/ \A k \in DOMAIN stepResults : stepResults[k] = EmptyResult
  BY DEF IInv, ResultInv, BuilderOpen
<1>6. Edit(ss, stepResults, from)
  BY DEF UpdateStep
<1> HIDE DEF ss, from
<1>7. QED BY <1>1, <1>3, <1>4, <1>5, <1>6, EditKeepsInv

LEMMA RemoveStepKeepsInv ==
  ASSUME IInv, PipelineAssumption, NEW i \in DOMAIN steps, RemoveStep(i)
  PROVE  IInv'
<1> DEFINE ss == RemoveAt(steps, i)
           res == RemoveAt(stepResults, i)
<1>1. steps \in Seq(Step) /\ stepResults \in Seq(StepResult) /\ Len(stepResults) = Len(steps)
  BY DEF IInv, RestType, RunType
<1>2. i \in 1 .. Len(steps) /\ i \in 1 .. Len(stepResults)
  BY <1>1
<1>3. /\ ss \in Seq(Step) /\ Len(ss) = Len(steps) - 1
      /\ \A k \in 1 .. i - 1 : ss[k] = steps[k]
  BY <1>1, <1>2, RemoveAtFacts
<1>4. /\ res \in Seq(StepResult) /\ Len(res) = Len(stepResults) - 1
      /\ \A k \in 1 .. i - 1 : res[k] = stepResults[k]
  BY <1>1, <1>2, RemoveAtFacts
<1>5. CASE i < Len(steps)
  <2>1. BuilderOpen /\ Edit(ss, res, i)
    BY <1>5 DEF RemoveStep
  <2> HIDE DEF ss, res
  <2>2. AgreesBelow(i, ss, res)
    BY <1>3, <1>4 DEF AgreesBelow
  <2>3. i \in Nat \ {0} /\ i <= Len(ss) + 1 /\ i <= Len(steps) + 1 /\ Len(res) = Len(ss)
    BY <1>1, <1>2, <1>3, <1>4
  <2>4. QED BY <1>3, <1>4, <2>1, <2>2, <2>3, EditKeepsInv
<1>6. CASE ~(i < Len(steps))
  <2>1. /\ source # NoSource
        /\ steps' = ss /\ stepResults' = res
        /\ RecordHistory(ss)
        /\ UNCHANGED <<source, variableValues, rowCount, runId, runningIndex, runs,
                       settleTimer, pendingRestore, opens, varDebounce>>
    BY <1>6 DEF RemoveStep, BuilderOpen
  <2>2. i = Len(steps)
    BY <1>2, <1>6
  <2> HIDE DEF ss, res
  <2>3. RestType'
    BY <1>3, <2>1, HistoryFacts DEF IInv, RestType
  <2>4. RunType'
    BY <1>1, <1>3, <1>4, <2>1 DEF IInv, RunType
  <2>5. Live' = Live
    BY <2>1 DEF Live, IsLatest
  <2>6. RunInv'
    <3>1. \A r \in runs : IsLatest(r) => Follows(r, source, ss, variableValues, varDebounce)
      BY <1>1, <1>3, <2>2 DEF IInv, RunInv, RunType, Run, Follows
    <3>2. QED BY <2>1, <3>1 DEF IInv, RunInv, IsLatest
  <2>7. Valid(Frontier', source, ss, res, variableValues, varDebounce)
    <3> DEFINE m == IF Live /\ runningIndex < Len(steps) THEN runningIndex ELSE Len(steps)
    <3>1. Live => runningIndex # 0
      BY ResumeFacts DEF IInv
    <3>2. runningIndex \in Nat /\ Len(steps) \in Nat
      BY <1>1 DEF IInv, RunType
    <3>3. m \in Nat /\ m <= Len(steps) /\ (Live => m <= runningIndex)
      BY <3>2
    <3>4. Valid(m, source, ss, res, variableValues, varDebounce)
      <4> HIDE DEF m
      <4>1. AgreesBelow(m, ss, res)
        BY <1>3, <1>4, <2>2, <3>2, <3>3 DEF AgreesBelow
      <4>2. RunType /\ RunInv /\ ResultInv
        BY DEF IInv
      <4>3. Len(res) = Len(ss) /\ m <= Len(steps) + 1
        BY <1>1, <1>3, <1>4, <3>2, <3>3
      <4>4. QED BY <1>1, <1>3, <1>4, <3>3, <4>1, <4>2, <4>3, ShownSoFar
    <3>5. \A k \in 1 .. Len(ss) : k < Frontier' => k < m
      BY <1>3, <2>1, <2>5, <3>2 DEF Frontier
    <3> HIDE DEF m
    <3>6. QED BY <3>4, <3>5 DEF Valid
  <2>8. Live => ErrorFree(runningIndex, res)
    BY <1>1, <1>4, <2>2 DEF IInv, ResultInv, ErrorFree
  <2>9. ResultInv'
    BY <2>1, <2>5, <2>7, <2>8 DEF ResultInv
  <2>10. QED BY <2>3, <2>4, <2>6, <2>9 DEF IInv
<1>7. QED BY <1>5, <1>6

LEMMA ReorderStepsKeepsInv ==
  ASSUME IInv, PipelineAssumption, NEW i \in DOMAIN steps, NEW j \in DOMAIN steps,
         ReorderSteps(i, j)
  PROVE  IInv'
<1> DEFINE ss == Move(steps, i, j)
           res == Move(stepResults, i, j)
           from == ReorderedFrom(i, j)
<1>1. steps \in Seq(Step) /\ stepResults \in Seq(StepResult) /\ Len(stepResults) = Len(steps)
  BY DEF IInv, RestType, RunType
<1>2. /\ i \in 1 .. Len(steps) /\ j \in 1 .. Len(steps)
      /\ i \in 1 .. Len(stepResults) /\ j \in 1 .. Len(stepResults)
  BY <1>1
<1>3. /\ ss \in Seq(Step) /\ Len(ss) = Len(steps)
      /\ \A k \in 1 .. from - 1 : ss[k] = steps[k]
  BY <1>1, <1>2, MoveFacts
<1>4. /\ res \in Seq(StepResult) /\ Len(res) = Len(stepResults)
      /\ \A k \in 1 .. from - 1 : res[k] = stepResults[k]
  BY <1>1, <1>2, MoveFacts
<1>5. from \in Nat \ {0} /\ from <= Len(steps)
  BY <1>2 DEF ReorderedFrom
<1>6. BuilderOpen /\ Edit(ss, res, from)
  BY DEF ReorderSteps
<1> HIDE DEF ss, res, from
<1>7. AgreesBelow(from, ss, res)
  BY <1>3, <1>4 DEF AgreesBelow
<1>8. /\ ss \in Seq(Step) /\ res \in Seq(StepResult) /\ Len(res) = Len(ss)
      /\ from \in Nat \ {0} /\ from <= Len(ss) + 1 /\ from <= Len(steps) + 1
  BY <1>1, <1>3, <1>4, <1>5
<1>9. QED BY <1>6, <1>7, <1>8, EditKeepsInv

LEMMA RestoreHistoryAtKeepsInv ==
  ASSUME IInv, PipelineAssumption, BuilderOpen, NEW h \in 1 .. Len(history),
         RestoreHistoryAt(h)
  PROVE  IInv'
<1>1. /\ historyIndex' = h /\ steps' = history[h]
      /\ UNCHANGED <<source, variableValues, rowCount, history, settleTimer,
                     pendingRestore, opens, varDebounce>>
  BY DEF RestoreHistoryAt
<1>2. history[h] \in Seq(Step)
  BY DEF IInv, RestType
<1>3. RestType'
  BY <1>1, <1>2 DEF IInv, RestType
<1>4. CASE history[h] # <<>>
  <2>1. ExecuteFrom(runId, 1, source, history[h], EmptyResults(history[h]), variableValues)
    BY <1>4 DEF RestoreHistoryAt
  <2>2. /\ source \in Target \cup {NoSource} /\ source # NoSource
        /\ variableValues \in Values /\ RunType /\ RunInv
    BY DEF IInv, RestType, BuilderOpen
  <2>3. RunType' /\ RunInv' /\ ResultInv'
    BY <1>1, <1>2, <2>1, <2>2, RestoreKeepsInv
  <2>4. QED BY <1>3, <2>3 DEF IInv
\* Undoing the first step leaves its run going: it is about steps that are gone.
<1>5. CASE history[h] = <<>>
  <2>1. stepResults' = <<>> /\ steps' = <<>> /\ UNCHANGED <<runId, runningIndex, runs>>
    BY <1>1, <1>5 DEF RestoreHistoryAt
  <2>2. RunType'
    BY <2>1 DEF IInv, RunType
  <2>3. RunInv'
    <3>1. \A r \in runs : IsLatest(r) => Follows(r, source, <<>>, variableValues, varDebounce)
      BY DEF IInv, RunInv, RunType, Run, Follows
    <3>2. QED BY <1>1, <2>1, <3>1 DEF IInv, RunInv, IsLatest
  <2>4. ResultInv'
    BY <2>1 DEF ResultInv, Valid, ErrorFree
  <2>5. QED BY <1>3, <2>2, <2>3, <2>4 DEF IInv
<1>6. QED BY <1>4, <1>5

LEMMA UndoRedoKeepsInv ==
  ASSUME IInv, PipelineAssumption, Undo \/ Redo
  PROVE  IInv'
<1>1. Len(history) \in Nat /\ historyIndex \in 1 .. Len(history)
  BY DEF IInv, RestType
<1>2. BuilderOpen /\ \E h \in 1 .. Len(history) : RestoreHistoryAt(h)
  BY <1>1 DEF Undo, Redo
<1>3. QED BY <1>2, RestoreHistoryAtKeepsInv

LEMMA SetVariableValueKeepsInv ==
  ASSUME IInv, NEW v \in Values, SetVariableValue(v)
  PROVE  IInv'
<1>1. RestType'
  BY DEF IInv, RestType, SetVariableValue, undoVars
<1>2. RunType' /\ RunInv' /\ ResultInv'
  BY QuietKeepsInv DEF IInv, SetVariableValue
<1>3. QED BY <1>1, <1>2 DEF IInv

LEMMA VariableDebounceFiresKeepsInv ==
  ASSUME IInv, PipelineAssumption, VariableDebounceFires
  PROVE  IInv'
<1>1. /\ source' = source /\ steps' = steps /\ variableValues' = variableValues
      /\ varDebounce' = FALSE
  BY DEF VariableDebounceFires, pipelineVars
<1>2. RestType'
  BY DEF IInv, RestType, VariableDebounceFires, pipelineVars, undoVars
<1>3. CASE steps # <<>>
  <2>1. ExecuteFrom(runId, 1, source, steps, stepResults, variableValues)
    BY <1>3 DEF VariableDebounceFires
  <2>2. /\ RunType /\ RunInv
        /\ source \in Target \cup {NoSource} /\ steps \in Seq(Step)
        /\ stepResults \in Seq(StepResult) /\ Len(stepResults) = Len(steps)
        /\ variableValues \in Values /\ runId \in Nat
    BY DEF IInv, RestType, RunType
  <2>3. source = NoSource => \A i \in 1 .. Len(steps) : stepResults[i] = EmptyResult
    BY <2>2 DEF IInv, ResultInv
  <2>4. ResumeFrom(1) = 1
    BY <2>2, ResumeFacts
  <2>5. Valid(ResumeFrom(1), source, steps, stepResults, variableValues, varDebounce')
    BY <2>4 DEF Valid
  <2>6. 1 <= Len(steps) + 1
    BY <2>2
  <2>7. RunType' /\ RunInv' /\ ResultInv'
    BY <1>1, <2>1, <2>2, <2>3, <2>5, <2>6, ExecuteKeepsInv
  <2>8. QED BY <1>2, <2>7 DEF IInv
<1>4. CASE steps = <<>>
  <2>1. UNCHANGED <<stepResults, runId, runningIndex, runs>>
    BY <1>4 DEF VariableDebounceFires, runVars
  <2>2. RunType'
    BY <1>1, <2>1 DEF IInv, RunType
  <2>3. RunInv'
    BY <1>1, <1>4, <2>1 DEF IInv, RunInv, IsLatest, Follows
  <2>4. ResultInv'
    BY <1>1, <1>4, <2>1 DEF IInv, RunType, ResultInv, Valid, ErrorFree
  <2>5. QED BY <1>2, <2>2, <2>3, <2>4 DEF IInv
<1>5. QED BY <1>3, <1>4

LEMMA OpenFreshKeepsInv ==
  ASSUME IInv, PipelineAssumption, NEW t \in Target, NEW q \in SavedQuery \cup {NoQuery},
         OpenFresh(t, q)
  PROVE  IInv'
<1> DEFINE ss == IF RestoreFor(t) THEN pendingRestore.steps ELSE <<>>
           vv == IF RestoreFor(t) THEN pendingRestore.vars ELSE Unset
<1>1. /\ source' = t /\ rowCount' = NoCount /\ steps' = ss /\ variableValues' = vv
      /\ history' = <<ss>> /\ historyIndex' = 1
      /\ pendingRestore' = IF RestoreFor(t) THEN NoRestore ELSE pendingRestore
      /\ opens' = opens \cup {[id |-> runId + 1, target |-> t, query |-> q]}
      /\ settleTimer' = settleTimer /\ varDebounce' = varDebounce
  BY DEF OpenFresh, ResetHistory, NextRunId
<1>2. ss \in Seq(Step) /\ vv \in Values
  BY DEF IInv, RestType, RestoreFor, Restore, PipelineAssumption
<1>3. runId \in Nat /\ t # NoSource
  BY DEF IInv, RunType, PipelineAssumption
<1>4. [id |-> runId + 1, target |-> t, query |-> q] \in Opening
  BY <1>3 DEF Opening
<1>5. RestType'
  <2> HIDE DEF ss, vv
  <2>1. history' \in Seq(Seq(Step)) /\ historyIndex' \in 1 .. Len(history')
    BY <1>1, <1>2
  <2>2. QED BY <1>1, <1>2, <1>4, <2>1 DEF IInv, RestType
<1>6. CASE ss # <<>>
  <2>1. ExecuteFrom(runId + 1, 1, t, ss, EmptyResults(ss), vv)
    BY <1>6 DEF OpenFresh, NextRunId
  <2> HIDE DEF ss, vv
  <2>2. RunType' /\ RunInv' /\ ResultInv'
    BY <1>1, <1>2, <1>3, <2>1, RestoreKeepsInv DEF IInv
  <2>3. QED BY <1>5, <2>2 DEF IInv
<1>7. CASE ss = <<>>
  <2>1. runId' = runId + 1 /\ stepResults' = <<>> /\ UNCHANGED <<runningIndex, runs>>
    BY <1>7 DEF OpenFresh, NextRunId
  <2>2. QED BY <1>1, <1>5, <1>7, <2>1, EmptyKeepsInv DEF IInv
<1>8. QED BY <1>6, <1>7

\* What loadSavedQuery and restoreWhenOpened share, and the row count when it arrives
\* after the table was closed.
LEMMA RestoreStepsKeepsInv ==
  ASSUME IInv, PipelineAssumption, NEW ss \in Seq(Step), NEW vv \in Values,
         RestoreSteps(runId, source, ss, vv), variableValues' = vv,
         UNCHANGED <<source, settleTimer, varDebounce>>,
         pendingRestore' \in {pendingRestore, NoRestore},
         rowCount' \in Target \cup {NoCount}, opens' \subseteq opens
  PROVE  IInv'
<1>1. /\ steps' = ss /\ history' = <<ss>> /\ historyIndex' = 1
      /\ ExecuteFrom(runId, 1, source, ss, EmptyResults(ss), vv)
  BY DEF RestoreSteps, ResetHistory
<1>2. history' \in Seq(Seq(Step)) /\ historyIndex' \in 1 .. Len(history')
  BY <1>1
<1>3. RestType'
  BY <1>1, <1>2 DEF IInv, RestType
<1>4. RunType /\ RunInv /\ source \in Target \cup {NoSource} /\ runId \in Nat
  BY DEF IInv, RestType, RunType
<1>5. RunType' /\ RunInv' /\ ResultInv'
  BY <1>1, <1>4, RestoreKeepsInv
<1>6. QED BY <1>3, <1>5 DEF IInv

LEMMA CountArrivesKeepsInv ==
  ASSUME IInv, PipelineAssumption, NEW o \in opens, NEW ok \in BOOLEAN, CountArrives(o, ok)
  PROVE  IInv'
<1>1. o \in Opening /\ rowCount \in Target \cup {NoCount}
  BY DEF IInv, RestType
<1>2. /\ opens' \subseteq opens
      /\ rowCount' \in Target \cup {NoCount}
      /\ UNCHANGED <<source, settleTimer, pendingRestore, varDebounce>>
  BY <1>1 DEF CountArrives, Opening
<1>3. CASE o.query = NoQuery
  <2>1. UNCHANGED <<steps, variableValues, undoVars, runVars>>
    BY <1>3 DEF CountArrives
  <2>2. RestType'
    BY <1>2, <2>1 DEF IInv, RestType, undoVars
  <2>3. RunType' /\ RunInv' /\ ResultInv'
    BY <1>2, <2>1, QuietKeepsInv DEF IInv
  <2>4. QED BY <2>2, <2>3 DEF IInv
<1>4. CASE o.query # NoQuery
  <2>1. variableValues' = Unset /\ RestoreSteps(runId, source, o.query.steps, Unset)
    BY <1>4 DEF CountArrives
  <2>2. o.query.steps \in Seq(Step) /\ Unset \in Values
    BY <1>1, <1>4 DEF Opening, SavedQuery, PipelineAssumption
  <2>3. QED BY <1>2, <2>1, <2>2, RestoreStepsKeepsInv
<1>5. QED BY <1>3, <1>4

LEMMA LoadSavedQueryKeepsInv ==
  ASSUME IInv, PipelineAssumption, NEW q \in SavedQueries, LoadSavedQuery(q)
  PROVE  IInv'
<1>1. q \in SavedQuery /\ q.target \in Target /\ q.steps \in Seq(Step) /\ Unset \in Values
  BY DEF PipelineAssumption, SavedQuery
<1>2. CASE source = q.target
  <2>1. /\ variableValues' = Unset
        /\ RestoreSteps(runId, source, q.steps, Unset)
        /\ UNCHANGED <<source, rowCount, settleTimer, pendingRestore, opens, varDebounce>>
    BY <1>2 DEF LoadSavedQuery
  <2>2. rowCount \in Target \cup {NoCount}
    BY DEF IInv, RestType
  <2>3. QED BY <1>1, <2>1, <2>2, RestoreStepsKeepsInv
<1>3. CASE source # q.target
  <2>1. OpenFresh(q.target, q)
    BY <1>3 DEF LoadSavedQuery
  <2>2. QED BY <1>1, <2>1, OpenFreshKeepsInv
<1>4. QED BY <1>2, <1>3

LEMMA RestoreWhenOpenedKeepsInv ==
  ASSUME IInv, PipelineAssumption, NEW p \in SessionPipelines, RestoreWhenOpened(p)
  PROVE  IInv'
<1>1. /\ p \in Restore /\ p.steps # <<>> /\ p.steps \in Seq(Step) /\ p.vars \in Values
  BY DEF PipelineAssumption, Restore
<1>2. UNCHANGED <<source, rowCount, settleTimer, opens, varDebounce>>
  BY DEF RestoreWhenOpened
<1>3. CASE AppliesAtOnce(p)
  <2>1. /\ variableValues' = p.vars
        /\ RestoreSteps(runId, source, p.steps, p.vars)
        /\ pendingRestore' = NoRestore
    BY <1>1, <1>3 DEF RestoreWhenOpened
  <2>2. rowCount \in Target \cup {NoCount}
    BY DEF IInv, RestType
  <2>3. QED BY <1>1, <1>2, <2>1, <2>2, RestoreStepsKeepsInv
<1>4. CASE ~AppliesAtOnce(p)
  <2>1. pendingRestore' = p /\ UNCHANGED <<steps, variableValues, undoVars, runVars>>
    BY <1>4 DEF RestoreWhenOpened
  <2>2. RestType'
    BY <1>1, <1>2, <2>1 DEF IInv, RestType, undoVars
  <2>3. RunType' /\ RunInv' /\ ResultInv'
    BY <1>2, <2>1, QuietKeepsInv DEF IInv
  <2>4. QED BY <2>2, <2>3 DEF IInv
<1>5. QED BY <1>3, <1>4

LEMMA ClearKeepsInv ==
  ASSUME IInv, PipelineAssumption, Clear
  PROVE  IInv'
<1>1. /\ source' = NoSource /\ rowCount' = NoCount
      /\ steps' = <<>> /\ stepResults' = <<>> /\ variableValues' = Unset
      /\ history' = << <<>> >> /\ historyIndex' = 1 /\ runId' = runId + 1
      /\ UNCHANGED <<runningIndex, runs, settleTimer, pendingRestore, opens, varDebounce>>
  BY DEF Clear, ResetHistory, NextRunId
<1>2. history' \in Seq(Seq(Step)) /\ historyIndex' \in 1 .. Len(history')
  BY <1>1
<1>3. RestType'
  BY <1>1, <1>2 DEF IInv, RestType, PipelineAssumption
<1>4. QED BY <1>1, <1>3, EmptyKeepsInv DEF IInv

LEMMA PreviewArrivesKeepsInv ==
  ASSUME IInv, PipelineAssumption, NEW r \in runs, NEW ok \in BOOLEAN, PreviewArrives(r, ok)
  PROVE  IInv'
<1> DEFINE others == runs \ {r}
           b == BasisOf(r, r.at)
<1>1. UNCHANGED <<source, steps, variableValues, rowCount, history, historyIndex,
                  pendingRestore, opens, varDebounce, runId>>
  BY DEF PreviewArrives, pipelineVars, undoVars
<1>2. /\ r \in Run /\ runId \in Nat /\ steps \in Seq(Step)
      /\ stepResults \in Seq(StepResult) /\ Len(stepResults) = Len(steps)
  BY DEF IInv, RunType, RestType
<1>3. RestType'
  <2>1. EntryOf(r) \in Entry
    BY <1>2 DEF EntryOf, Entry, Run
  <2>2. settleTimer' \in Entry \cup {NoEntry}
    BY <2>1 DEF PreviewArrives, IInv, RestType
  <2>3. QED BY <1>1, <2>2 DEF IInv, RestType
\* A reply of a superseded run is dropped.
<1>4. CASE ~IsLatest(r)
  <2>1. runs' = others /\ UNCHANGED <<runningIndex, stepResults>>
    BY <1>4 DEF PreviewArrives
  <2>2. Live' = Live
    BY <1>1, <1>4, <2>1 DEF Live, IsLatest
  <2>3. RunType'
    BY <1>1, <2>1 DEF IInv, RunType
  <2>4. RunInv'
    BY <1>1, <2>1 DEF IInv, RunInv, IsLatest
  <2>5. ResultInv'
    BY <1>1, <2>1, <2>2 DEF IInv, ResultInv, Frontier
  <2>6. QED BY <1>3, <2>3, <2>4, <2>5 DEF IInv
\* The latest run: what is before the step it waits for is good.
<1>5. CASE IsLatest(r)
  <2>1. /\ r.id = runId /\ source # NoSource
        /\ Follows(r, source, steps, variableValues, varDebounce)
        /\ r.at \in 1 .. Len(r.steps) /\ r.at = runningIndex /\ Live
    BY <1>5 DEF IInv, RunInv, Live, IsLatest
  <2>2. /\ \A q \in others : q \in Run /\ q.id < r.id
        /\ \A p, q \in others : p.id = q.id => p = q
    BY <2>1 DEF IInv, RunInv, RunType, Run
  <2>3. /\ Valid(r.at, source, steps, stepResults, variableValues, varDebounce)
        /\ ErrorFree(r.at, stepResults)
    BY <2>1 DEF IInv, ResultInv, Frontier
  <2>4. r.at \in Nat \ {0} /\ Len(r.steps) \in Nat
    BY <1>2, <2>1 DEF Run
  <2>5. /\ b \in Basis
        /\ r.at <= Len(steps) => Shown(b, r.at, source, steps, variableValues, varDebounce)
    BY <1>2, <2>1, BasisFacts
  <2> HIDE DEF b
  <2>6. CASE ok
    <3> DEFINE res == SetResult(stepResults, r.at, Rows(b))
    <3>1. Continue(r, r.at + 1, res, others)
      BY <1>5, <2>6 DEF PreviewArrives, b
    <3>2. Rows(b) \in StepResult
      BY <2>5, ResultTypes
    <3>3. /\ res \in Seq(StepResult) /\ Len(res) = Len(steps)
          /\ \A k \in 1 .. Len(steps) : res[k] = IF k = r.at THEN Rows(b) ELSE stepResults[k]
      BY <1>2, <3>2, SetResultFacts
    <3> HIDE DEF res
    <3>4. ErrorFree(r.at + 1, res)
      BY <1>2, <2>3, <2>4, <3>3 DEF ErrorFree, HasError, Rows
    <3>5. Valid(r.at + 1, source, steps, res, variableValues, varDebounce)
      <4>1. SUFFICES ASSUME NEW i \in 1 .. Len(steps), i < r.at + 1
                     PROVE  /\ ~res[i].loading
                            /\ res[i].shows \in {"rows", "error"}
                                 => Shown(res[i].basis, i, source, steps, variableValues,
                                          varDebounce)
                            /\ res[i].shows = "blocked"
                                 <=> \E k \in 1 .. i - 1 : res[k].shows = "error"
        BY DEF Valid
      <4>2. /\ res[i].shows # "blocked"
            /\ \A k \in 1 .. i - 1 : res[k].shows # "error"
        BY <2>4, <3>3, <3>4, <4>1 DEF ErrorFree, HasError
      <4>3. CASE i < r.at
        BY <2>3, <2>4, <3>3, <4>2, <4>3 DEF Valid
      <4>4. CASE i = r.at
        BY <2>5, <3>3, <4>2, <4>4 DEF Rows
      <4>5. QED BY <2>4, <4>1, <4>3, <4>4
    <3>6. r.at + 1 \in Nat \ {0} /\ r.at + 1 <= Len(r.steps) + 1
      BY <2>1, <2>4
    <3>7. RunType' /\ RunInv' /\ ResultInv'
      BY <1>1, <1>2, <2>1, <2>2, <3>1, <3>3, <3>4, <3>5, <3>6, ContinueKeepsInv
    <3>8. QED BY <1>3, <3>7 DEF IInv
  <2>7. CASE ~ok
    <3>1. stepResults' = FailFrom(stepResults, r.at, b) /\ runningIndex' = 0 /\ runs' = others
      BY <1>5, <2>7 DEF PreviewArrives, b
    <3>2. /\ stepResults' \in Seq(StepResult) /\ Len(stepResults') = Len(steps)
          /\ Valid(Len(steps) + 1, source, steps, stepResults', variableValues, varDebounce)
      <4>1. b \in Basis /\ r.at \in Nat \ {0}
        BY <2>4, <2>5
      <4>2. /\ FailFrom(stepResults, r.at, b) \in Seq(StepResult)
            /\ Len(FailFrom(stepResults, r.at, b)) = Len(stepResults)
            /\ Valid(Len(steps) + 1, source, steps, FailFrom(stepResults, r.at, b),
                     variableValues, varDebounce)
        BY <1>2, <2>3, <2>5, <4>1, ValidFail
      <4>3. QED BY <1>2, <3>1, <4>2
    <3>3. /\ runId' \in Nat /\ runningIndex' \in Nat /\ source' # NoSource
          /\ \A q \in runs' : q \in Run /\ q.id < runId'
          /\ \A p, q \in runs' : p.id = q.id => p = q
      <4>1. runs' = others /\ runningIndex' = 0 /\ runId' = r.id /\ source' = source
        BY <1>1, <2>1, <3>1
      <4> HIDE DEF others
      <4>2. QED BY <1>2, <2>1, <2>2, <4>1
    <3> HIDE DEF others
    <3>4. /\ Len(stepResults') = Len(steps')
          /\ Valid(Len(steps') + 1, source', steps', stepResults', variableValues',
                   varDebounce')
      BY <1>1, <3>2
    <3>5. RunType' /\ RunInv' /\ ResultInv'
      BY <3>2, <3>3, <3>4, EndKeepsInv
    <3>6. QED BY <1>3, <3>5 DEF IInv
  <2>8. QED BY <2>6, <2>7
<1>6. QED BY <1>4, <1>5

LEMMA InitInv == ASSUME PipelineAssumption, Init PROVE IInv
<1>1. RestType
  <2>1. history \in Seq(Seq(Step)) /\ historyIndex \in 1 .. Len(history)
    BY DEF Init
  <2>2. steps \in Seq(Step) /\ \A o \in opens : o \in Opening
    BY DEF Init
  <2>3. Unset \in Values
    BY DEF PipelineAssumption
  <2>4. QED BY <2>1, <2>2, <2>3 DEF Init, RestType
<1>2. ~Live /\ steps = <<>> /\ stepResults = <<>>
  BY DEF Init, Live
<1>3. RunType /\ RunInv /\ ResultInv
  BY <1>2 DEF Init, RunType, RunInv, ResultInv, Valid
<1>4. QED BY <1>1, <1>3 DEF IInv

\* The inductive invariant holds in every reachable state of the store.
THEOREM InductiveInvariant == Spec => []IInv
<1>1. Init => IInv
  BY PipelineAssumption, InitInv
<1>2. IInv /\ [Next]_vars => IInv'
  <2> SUFFICES ASSUME IInv, [Next]_vars PROVE IInv'
    OBVIOUS
  <2> USE PipelineAssumption
  <2>1. ASSUME NEW s \in NewSteps, AddStep(s) PROVE IInv'
    BY <2>1, AddStepKeepsInv
  <2>2. ASSUME NEW i \in 1 .. MaxSteps, NEW s \in Step, UpdateStep(i, s) PROVE IInv'
    BY <2>2, UpdateStepKeepsInv
  <2>3. ASSUME NEW i \in DOMAIN steps, RemoveStep(i) PROVE IInv'
    BY <2>3, RemoveStepKeepsInv
  <2>4. ASSUME NEW i \in DOMAIN steps, NEW j \in DOMAIN steps, ReorderSteps(i, j) PROVE IInv'
    BY <2>4, ReorderStepsKeepsInv
  <2>5. CASE Undo \/ Redo
    BY <2>5, UndoRedoKeepsInv
  <2>6. ASSUME NEW v \in Values, SetVariableValue(v) PROVE IInv'
    BY <2>6, SetVariableValueKeepsInv
  <2>7. CASE VariableDebounceFires
    BY <2>7, VariableDebounceFiresKeepsInv
  <2>8. ASSUME NEW t \in Target, OpenForTable(t) PROVE IInv'
    BY <2>8, OpenFreshKeepsInv DEF OpenForTable
  <2>9. ASSUME NEW o \in opens, NEW ok \in BOOLEAN, CountArrives(o, ok) PROVE IInv'
    BY <2>9, CountArrivesKeepsInv
  <2>10. ASSUME NEW q \in SavedQueries, LoadSavedQuery(q) PROVE IInv'
    BY <2>10, LoadSavedQueryKeepsInv
  <2>11. ASSUME NEW p \in SessionPipelines, RestoreWhenOpened(p) PROVE IInv'
    BY <2>11, RestoreWhenOpenedKeepsInv
  <2>12. CASE Clear
    BY <2>12, ClearKeepsInv
  <2>13. ASSUME NEW r \in runs, NEW ok \in BOOLEAN, PreviewArrives(r, ok) PROVE IInv'
    BY <2>13, PreviewArrivesKeepsInv
  <2>14. CASE SettleTimerFires \/ UNCHANGED vars
    <3>1. /\ UNCHANGED <<source, steps, variableValues, rowCount, pendingRestore, opens,
                         varDebounce, undoVars, runVars>>
          /\ settleTimer' \in {settleTimer, NoEntry}
      BY <2>14 DEF SettleTimerFires, vars, pipelineVars
    <3>2. RestType'
      BY <3>1 DEF IInv, RestType, undoVars
    <3>3. RunType' /\ RunInv' /\ ResultInv'
      BY <3>1, QuietKeepsInv DEF IInv
    <3>4. QED BY <3>2, <3>3 DEF IInv
  <2>15. QED
    BY <2>1, <2>2, <2>3, <2>4, <2>5, <2>6, <2>7, <2>8, <2>9, <2>10, <2>11, <2>12, <2>13,
       <2>14 DEF Next
<1>3. QED BY <1>1, <1>2, PTL DEF Spec

\* Every part of the store always has its type, and every step has one preview.
THEOREM TypeCorrect == Spec => []TypeOK
<1>1. IInv => TypeOK
  BY DEF IInv, RestType, RunType, TypeOK
<1>2. QED BY <1>1, InductiveInvariant, PTL

\* Whatever the user edits while previews are on their way, no stale reply, no other
\* table's reply and no removed step's reply ends up as the preview of a step.
THEOREM ResultsAlwaysMatch == Spec => []ResultsMatchPipeline
<1>1. IInv => ResultsMatchPipeline
  BY DEF IInv, ResultInv, Valid, Shown, ResultsMatchPipeline, Current
<1>2. QED BY <1>1, InductiveInvariant, PTL

\* A step is blocked exactly when an earlier step failed, as far as the latest run is.
THEOREM BlockedExactlyBehindErrors == Spec => []BlockedBehindError
<1>1. IInv => BlockedBehindError
  BY DEF IInv, ResultInv, Valid, BlockedBehindError
<1>2. QED BY <1>1, InductiveInvariant, PTL

\* No spinner turns on a step the latest run is done with, nor without a run.
THEOREM SpinnersAreAhead == Spec => []LoadingOnlyAhead
<1>1. IInv => LoadingOnlyAhead
  <2> SUFFICES ASSUME IInv, NEW i \in 1 .. Len(steps), stepResults[i].loading
               PROVE  Live /\ i >= runningIndex
    BY DEF LoadingOnlyAhead
  <2>1. ~(i < Frontier)
    BY DEF IInv, ResultInv, Valid
  <2>2. runningIndex \in Nat /\ Len(steps) \in Nat
    BY DEF IInv, RestType, RunType
  <2>3. QED BY <2>1, <2>2 DEF Frontier
<1>2. QED BY <1>1, InductiveInvariant, PTL

\* The count of another table is never shown next to the open table's name.
THEOREM RowCountIsOfSource == Spec => []RowCountOfSource
<1>1. Init => RowCountOfSource
  BY DEF Init, RowCountOfSource
<1>2. RowCountOfSource /\ [Next]_vars => RowCountOfSource'
  <2> SUFFICES ASSUME RowCountOfSource, [Next]_vars PROVE RowCountOfSource'
    OBVIOUS
  <2>1. CASE UNCHANGED <<source, rowCount>>
    BY <2>1 DEF RowCountOfSource
  <2>2. CASE rowCount' = NoCount
    BY <2>2 DEF RowCountOfSource
  <2>3. ASSUME NEW o \in opens, NEW ok \in BOOLEAN, CountArrives(o, ok)
        PROVE  RowCountOfSource'
    BY <2>3 DEF CountArrives, CountForOpenTable, RowCountOfSource
  <2>4. QED
    BY <2>1, <2>2, <2>3
    DEF Next, vars, pipelineVars, AddStep, UpdateStep, RemoveStep, ReorderSteps, Edit, Undo,
        Redo, RestoreHistoryAt, SetVariableValue, VariableDebounceFires, OpenForTable,
        OpenFresh, LoadSavedQuery, RestoreWhenOpened, Clear, PreviewArrives, SettleTimerFires
<1>3. QED BY <1>1, <1>2, PTL DEF Spec

\* A restored pipeline is never left waiting for the table that is open.
THEOREM RestoreWaitsElsewhere == Spec => []PendingRestoreIsElsewhere
<1>1. Init => PendingRestoreIsElsewhere
  BY DEF Init, PendingRestoreIsElsewhere
<1>2. IInv /\ PendingRestoreIsElsewhere /\ [Next]_vars => PendingRestoreIsElsewhere'
  <2> SUFFICES ASSUME IInv, PendingRestoreIsElsewhere, [Next]_vars
               PROVE  PendingRestoreIsElsewhere'
    OBVIOUS
  <2>1. CASE UNCHANGED <<source, pendingRestore>>
    BY <2>1 DEF PendingRestoreIsElsewhere
  <2>2. ASSUME NEW t \in Target, NEW q, OpenFresh(t, q) PROVE PendingRestoreIsElsewhere'
    BY <2>2 DEF OpenFresh, RestoreFor, PendingRestoreIsElsewhere
  <2>3. ASSUME NEW p \in SessionPipelines, RestoreWhenOpened(p)
        PROVE  PendingRestoreIsElsewhere'
    BY <2>3 DEF RestoreWhenOpened, AppliesAtOnce, PendingRestoreIsElsewhere
  <2>4. CASE Clear
    <3>1. source' = NoSource /\ pendingRestore' = pendingRestore
      BY <2>4 DEF Clear
    <3>2. pendingRestore # NoRestore => pendingRestore.target \in Target
      BY DEF IInv, RestType, Restore
    <3>3. NoSource \notin Target
      BY PipelineAssumption DEF PipelineAssumption
    <3>4. QED BY <3>1, <3>2, <3>3 DEF PendingRestoreIsElsewhere
  <2>5. ASSUME NEW q \in SavedQueries, LoadSavedQuery(q) PROVE PendingRestoreIsElsewhere'
    <3>1. q.target \in Target
      BY PipelineAssumption DEF PipelineAssumption, SavedQuery
    <3>2. QED BY <2>1, <2>2, <2>5, <3>1 DEF LoadSavedQuery
  <2>6. QED
    BY <2>1, <2>2, <2>3, <2>4, <2>5
    DEF Next, vars, pipelineVars, AddStep, UpdateStep, RemoveStep, ReorderSteps, Edit, Undo,
        Redo, RestoreHistoryAt, SetVariableValue, VariableDebounceFires, OpenForTable,
        CountArrives, PreviewArrives, SettleTimerFires
<1>3. QED BY <1>1, <1>2, InductiveInvariant, PTL DEF Spec

(***************************************************************************)
(* The undo states implement UndoStack: each step of the store is an edit, *)
(* an undo, a redo or a reset of the abstract stack, or leaves it alone.   *)
(*                                                                         *)
(* What the mapping needs beside the types is that the pipeline on show is *)
(* the state under historyIndex and that no more states are kept than the  *)
(* cap allows: then cutting the list of all states at its end, as the code *)
(* does, drops the oldest of the past.                                     *)
(***************************************************************************)
HistoryInv ==
  /\ steps = history[historyIndex]
  /\ Len(history) <= HistoryCap

\* All states up to an index are those before it and the one there.
LEMMA UpTo ==
  ASSUME NEW S, NEW s \in Seq(S), NEW n \in 1 .. Len(s)
  PROVE  Append(SubSeq(s, 1, n - 1), s[n]) = SubSeq(s, 1, n)
<1>1. 1 \in 1 .. Len(s) /\ n \in 1 .. Len(s) /\ s[n] \in S
  BY ElementOfSeq
<1>2. SubSeq(s, 1, n) = SubSeq(s, 1, n - 1) \o <<s[n]>>
  BY <1>1, SubSeqRecursiveSecond
<1>3. SubSeq(s, 1, n - 1) \in Seq(S)
  BY ElementOfSeq, SubSeqProperties
<1> QED BY <1>1, <1>2, <1>3, AppendIsConcat

LEMMA StatesAre ==
  ASSUME IInv
  PROVE  /\ history \in Seq(Seq(Step)) /\ Len(history) \in Nat
         /\ historyIndex \in 1 .. Len(history) /\ historyIndex \in Nat /\ historyIndex >= 1
         /\ HistoryCap \in Nat /\ HistoryCap >= 2
<1>1. history \in Seq(Seq(Step)) /\ historyIndex \in 1 .. Len(history)
  BY DEF IInv, RestType
<1> QED BY <1>1, PipelineAssumption DEF PipelineAssumption

(***************************************************************************)
(* The four steps of the stack                                             *)
(***************************************************************************)
\* A new state goes behind the one on show, which joins the past.
LEMMA RecordIsDo ==
  ASSUME IInv, HistoryInv, steps' \in Seq(Step), RecordHistory(steps')
  PROVE  Undoing!Do /\ HistoryInv'
<1> DEFINE S == Seq(Step)
           p == SubSeq(history, 1, historyIndex)
           h == Append(p, steps')
<1>1. /\ history \in Seq(S) /\ Len(history) \in Nat /\ Len(history) <= HistoryCap
      /\ historyIndex \in 1 .. Len(history) /\ historyIndex \in Nat /\ historyIndex >= 1
      /\ HistoryCap \in Nat /\ HistoryCap >= 2
      /\ steps = history[historyIndex] /\ steps' \in S
  BY StatesAre DEF HistoryInv
<1>2. /\ history' = LastN(h, HistoryCap)
      /\ historyIndex' = Len(history')
  BY DEF RecordHistory
<1>3. p = Append(SubSeq(history, 1, historyIndex - 1), steps)
  BY <1>1, UpTo
<1>4. p \in Seq(S) /\ Len(p) = historyIndex
  <2>1. \A i \in 1 .. historyIndex : history[i] \in S
    BY <1>1, ElementOfSeq
  <2> HIDE DEF S
  <2>2. p \in Seq(S) /\ Len(p) = IF 1 <= historyIndex THEN historyIndex - 1 + 1 ELSE 0
    BY <1>1, <2>1, SubSeqProperties
  <2> QED BY <1>1, <2>2
<1> HIDE DEF S, p
<1>5. h = p \o <<steps'>> /\ <<steps'>> \in Seq(S)
  BY <1>1, <1>4, AppendIsConcat
<1>6. h \in Seq(S) /\ Len(h) = historyIndex + 1 /\ h[historyIndex + 1] = steps'
  BY <1>1, <1>4, AppendProperties
<1> HIDE DEF h
<1>7. CASE historyIndex < HistoryCap
  <2>1. history' = h /\ historyIndex' = historyIndex + 1
    BY <1>1, <1>2, <1>6, <1>7 DEF LastN
  <2>2. SubSeq(h, 1, historyIndex) = p
    <3>1. SubSeq(h, 1, historyIndex) = SubSeq(p, 1, historyIndex)
      BY <1>1, <1>4, <1>5, SubSeqOfConcat1
    <3>2. SubSeq(p, 1, historyIndex) = p
      BY <1>4, SubSeqFull
    <3> QED BY <3>1, <3>2
  <2>3. Undoing!Newest(p) = p
    BY <1>1, <1>4, <1>7 DEF Undoing!Newest
  <2>4. SubSeq(history', 1, historyIndex' - 1) = p
    <3>1. historyIndex' - 1 = historyIndex
      BY <1>1, <2>1
    <3> QED BY <2>1, <2>2, <3>1
  <2>5. SubSeq(history', historyIndex' + 1, Len(history')) = <<>>
    BY <1>1, <1>6, <2>1, SubSeqEmpty
  <2>6. HistoryInv'
    BY <1>1, <1>6, <1>7, <2>1 DEF HistoryInv
  <2> QED BY <1>1, <1>3, <2>3, <2>4, <2>5, <2>6 DEF Undoing!Do, S
<1>8. CASE historyIndex = HistoryCap
  <2>1. history' = SubSeq(h, 2, HistoryCap + 1)
    <3>1. Len(h) - HistoryCap + 1 = 2 /\ Len(h) = HistoryCap + 1 /\ ~(Len(h) <= HistoryCap)
      BY <1>1, <1>6, <1>8
    <3> QED BY <1>2, <3>1 DEF LastN
  <2>2. /\ Len(history') = HistoryCap /\ historyIndex' = HistoryCap
        /\ history'[HistoryCap] = steps'
    <3>1. \A i \in 2 .. HistoryCap + 1 : h[i] \in S
      BY <1>1, <1>6, <1>8, ElementOfSeq
    <3>2. /\ Len(SubSeq(h, 2, HistoryCap + 1))
               = IF 2 <= HistoryCap + 1 THEN HistoryCap + 1 - 2 + 1 ELSE 0
          /\ \A i \in 1 .. HistoryCap + 1 - 2 + 1 :
               SubSeq(h, 2, HistoryCap + 1)[i] = h[2 + i - 1]
      BY <1>1, <3>1, SubSeqProperties
    <3>3. HistoryCap + 1 - 2 + 1 = HistoryCap /\ 2 + HistoryCap - 1 = HistoryCap + 1
          /\ 2 <= HistoryCap + 1 /\ HistoryCap \in 1 .. HistoryCap
      BY <1>1
    <3> QED BY <1>2, <1>6, <1>8, <2>1, <3>2, <3>3
  <2>3. SubSeq(history', 1, HistoryCap - 1) = SubSeq(h, 2, HistoryCap)
    <3>1. /\ 2 \in 1 .. Len(h) /\ HistoryCap + 1 \in 1 .. Len(h)
          /\ 1 \in 1 .. (HistoryCap + 1) - 2 + 1
          /\ HistoryCap - 1 \in 1 .. (HistoryCap + 1) - 2 + 1
      BY <1>1, <1>6, <1>8
    <3>2. SubSeq(SubSeq(h, 2, HistoryCap + 1), 1, HistoryCap - 1)
            = SubSeq(h, 2 + 1 - 1, 2 + (HistoryCap - 1) - 1)
      BY <1>6, <3>1, SubSeqOfSubSeq
    <3>3. 2 + 1 - 1 = 2 /\ 2 + (HistoryCap - 1) - 1 = HistoryCap
      BY <1>1
    <3> QED BY <2>1, <3>2, <3>3
  <2>4. SubSeq(h, 2, HistoryCap) = SubSeq(p, 2, HistoryCap)
    BY <1>1, <1>4, <1>5, <1>8, SubSeqOfConcat1
  <2>5. Undoing!Newest(p) = SubSeq(p, 2, HistoryCap)
    <3>1. ~(Len(p) < HistoryCap) /\ Len(p) - HistoryCap + 2 = 2 /\ Len(p) = HistoryCap
      BY <1>1, <1>4, <1>8
    <3> QED BY <3>1 DEF Undoing!Newest
  <2>6. SubSeq(history', historyIndex' + 1, Len(history')) = <<>>
    BY <1>1, <2>2, SubSeqEmpty
  <2>7. HistoryInv'
    BY <1>1, <2>2 DEF HistoryInv
  <2>8. SubSeq(history', 1, historyIndex' - 1) = Undoing!Newest(p)
    BY <2>2, <2>3, <2>4, <2>5
  <2> QED BY <1>1, <1>3, <2>6, <2>7, <2>8 DEF Undoing!Do, S
<1> QED BY <1>1, <1>7, <1>8

\* Opening, clearing and restoring start the history over.
LEMMA ResetIsReset ==
  ASSUME IInv, steps' \in Seq(Step), ResetHistory(steps')
  PROVE  Undoing!Reset /\ HistoryInv'
<1>1. history' = <<steps'>> /\ historyIndex' = 1 /\ Len(<<steps'>>) = 1
      /\ <<steps'>>[1] = steps'
  BY DEF ResetHistory
<1>2. SubSeq(history', 1, historyIndex' - 1) = <<>>
      /\ SubSeq(history', historyIndex' + 1, Len(history')) = <<>>
  BY <1>1, SubSeqEmpty
<1>3. HistoryInv'
  BY <1>1, StatesAre DEF HistoryInv
<1> QED BY <1>2, <1>3 DEF Undoing!Reset

LEMMA BackIsUndo ==
  ASSUME IInv, HistoryInv, historyIndex > 1, historyIndex' = historyIndex - 1,
         UNCHANGED history, steps' = history[historyIndex - 1]
  PROVE  Undoing!Undo /\ HistoryInv'
<1> DEFINE S == Seq(Step)
           past == SubSeq(history, 1, historyIndex - 1)
<1>1. /\ history \in Seq(S) /\ Len(history) \in Nat /\ Len(history) <= HistoryCap
      /\ historyIndex \in 1 .. Len(history) /\ historyIndex \in Nat
      /\ historyIndex - 1 \in 1 .. Len(history) /\ historyIndex - 1 \in Nat
      /\ steps = history[historyIndex]
  BY StatesAre DEF HistoryInv
<1> HIDE DEF S
<1>2. past \in Seq(S) /\ Len(past) = historyIndex - 1
      /\ past[historyIndex - 1] = history[historyIndex - 1]
  <2>1. \A i \in 1 .. historyIndex - 1 : history[i] \in S
    BY <1>1, ElementOfSeq
  <2>2. /\ past \in Seq(S)
        /\ Len(past) = IF 1 <= historyIndex - 1 THEN historyIndex - 1 - 1 + 1 ELSE 0
        /\ \A i \in 1 .. historyIndex - 1 - 1 + 1 : past[i] = history[1 + i - 1]
    BY <1>1, <2>1, SubSeqProperties
  <2>3. 1 <= historyIndex - 1 /\ historyIndex - 1 - 1 + 1 = historyIndex - 1
        /\ historyIndex - 1 \in 1 .. historyIndex - 1
        /\ 1 + (historyIndex - 1) - 1 = historyIndex - 1
    BY <1>1
  <2> QED BY <2>2, <2>3
<1>3. past # <<>>
  BY <1>1, <1>2
<1>4. SubSeq(past, 1, Len(past) - 1) = SubSeq(history, 1, historyIndex' - 1)
  <2>1. CASE historyIndex = 2
    BY <1>2, <2>1, SubSeqEmpty
  <2>2. CASE historyIndex # 2
    <3>1. /\ 1 \in 1 .. Len(history) /\ 1 \in 1 .. (historyIndex - 1) - 1 + 1
          /\ historyIndex - 2 \in 1 .. (historyIndex - 1) - 1 + 1
      BY <1>1, <2>2
    <3>2. SubSeq(past, 1, historyIndex - 2)
            = SubSeq(history, 1 + 1 - 1, 1 + (historyIndex - 2) - 1)
      BY <1>1, <3>1, SubSeqOfSubSeq
    <3>3. 1 + 1 - 1 = 1 /\ 1 + (historyIndex - 2) - 1 = historyIndex - 2
          /\ historyIndex' - 1 = historyIndex - 2 /\ Len(past) - 1 = historyIndex - 2
      BY <1>1, <1>2
    <3> QED BY <3>2, <3>3
  <2> QED BY <2>1, <2>2
<1>5. SubSeq(history, historyIndex, Len(history))
        = <<steps>> \o SubSeq(history, historyIndex + 1, Len(history))
  <2>1. Len(history) \in historyIndex .. Len(history)
    BY <1>1
  <2> QED BY <1>1, <2>1, SubSeqRecursiveFirst
<1>6. SubSeq(history', historyIndex' + 1, Len(history'))
        = SubSeq(history, historyIndex, Len(history))
  <2>1. historyIndex' + 1 = historyIndex
    BY <1>1
  <2> QED BY <2>1
<1>7. HistoryInv'
  BY <1>1 DEF HistoryInv
<1>8. steps' = past[Len(past)]
  BY <1>2
<1> QED BY <1>3, <1>4, <1>5, <1>6, <1>7, <1>8 DEF Undoing!Undo

LEMMA ForwardIsRedo ==
  ASSUME IInv, HistoryInv, historyIndex < Len(history), historyIndex' = historyIndex + 1,
         UNCHANGED history, steps' = history[historyIndex + 1]
  PROVE  Undoing!Redo /\ HistoryInv'
<1> DEFINE S == Seq(Step)
           future == SubSeq(history, historyIndex + 1, Len(history))
<1>1. /\ history \in Seq(S) /\ Len(history) \in Nat /\ Len(history) <= HistoryCap
      /\ historyIndex \in 1 .. Len(history) /\ historyIndex \in Nat
      /\ historyIndex + 1 \in 1 .. Len(history)
      /\ Len(history) \in historyIndex + 1 .. Len(history)
      /\ steps = history[historyIndex]
  BY StatesAre DEF HistoryInv
<1> HIDE DEF S
<1>2. /\ Head(future) = history[historyIndex + 1]
      /\ Tail(future) = SubSeq(history, historyIndex + 1 + 1, Len(history))
  BY <1>1, HeadTailOfSubSeq
<1>3. future # <<>>
  <2>1. \A i \in historyIndex + 1 .. Len(history) : history[i] \in S
    BY <1>1, ElementOfSeq
  <2>2. Len(future) = IF historyIndex + 1 <= Len(history)
                      THEN Len(history) - (historyIndex + 1) + 1 ELSE 0
    BY <1>1, <2>1, SubSeqProperties
  <2> HIDE DEF future
  <2>3. Len(future) # 0
    BY <1>1, <2>2
  <2> QED BY <2>3
<1>4. Append(SubSeq(history, 1, historyIndex - 1), steps) = SubSeq(history, 1, historyIndex)
  BY <1>1, UpTo
<1>5. historyIndex' - 1 = historyIndex /\ historyIndex' + 1 = historyIndex + 1 + 1
  BY <1>1
<1>6. HistoryInv'
  BY <1>1 DEF HistoryInv
<1> QED BY <1>2, <1>3, <1>4, <1>5, <1>6 DEF Undoing!Redo

(***************************************************************************)
(* What a step of the store does to its undo states                        *)
(***************************************************************************)
LEMMA StepsOfTheHistory ==
  ASSUME [Next]_vars
  PROVE  \/ UNCHANGED <<steps, history, historyIndex>>
         \/ RecordHistory(steps')
         \/ ResetHistory(steps')
         \/ /\ historyIndex > 1 /\ historyIndex' = historyIndex - 1
            /\ UNCHANGED history /\ steps' = history[historyIndex - 1]
         \/ /\ historyIndex < Len(history) /\ historyIndex' = historyIndex + 1
            /\ UNCHANGED history /\ steps' = history[historyIndex + 1]
<1>1. ASSUME NEW ss, NEW res, NEW from, Edit(ss, res, from) PROVE RecordHistory(steps')
  BY <1>1 DEF Edit
<1>2. CASE \/ \E s \in NewSteps : AddStep(s)
           \/ \E i \in 1 .. MaxSteps, s \in Step : UpdateStep(i, s)
           \/ \E i \in DOMAIN steps : RemoveStep(i)
           \/ \E i, j \in DOMAIN steps : ReorderSteps(i, j)
  BY <1>1, <1>2 DEF AddStep, UpdateStep, RemoveStep, ReorderSteps
<1>3. CASE Undo \/ Redo
  BY <1>3 DEF Undo, Redo, RestoreHistoryAt
<1>4. CASE \/ \E v \in Values : SetVariableValue(v)
           \/ VariableDebounceFires \/ SettleTimerFires \/ UNCHANGED vars
           \/ \E r \in runs, ok \in BOOLEAN : PreviewArrives(r, ok)
  BY <1>4 DEF SetVariableValue, VariableDebounceFires, SettleTimerFires, PreviewArrives, vars,
              pipelineVars, undoVars
<1>5. ASSUME NEW t, NEW q, OpenFresh(t, q) PROVE ResetHistory(steps')
  BY <1>5 DEF OpenFresh
<1>6. ASSUME NEW id, NEW src, NEW ss, NEW vv, RestoreSteps(id, src, ss, vv)
      PROVE  ResetHistory(steps')
  BY <1>6 DEF RestoreSteps
<1>7. CASE \/ \E t \in Target : OpenForTable(t)
           \/ \E o \in opens, ok \in BOOLEAN : CountArrives(o, ok)
           \/ \E q \in SavedQueries : LoadSavedQuery(q)
           \/ \E p \in SessionPipelines : RestoreWhenOpened(p)
           \/ Clear
  <2>1. CASE Clear
    BY <2>1 DEF Clear
  <2>2. CASE \E t \in Target : OpenForTable(t)
    BY <1>5, <2>2 DEF OpenForTable
  <2>3. CASE \E o \in opens, ok \in BOOLEAN : CountArrives(o, ok)
    BY <1>6, <2>3 DEF CountArrives, undoVars
  <2>4. CASE \E q \in SavedQueries : LoadSavedQuery(q)
    BY <1>5, <1>6, <2>4 DEF LoadSavedQuery
  <2>5. CASE \E p \in SessionPipelines : RestoreWhenOpened(p)
    BY <1>6, <2>5 DEF RestoreWhenOpened, undoVars
  <2> QED BY <1>7, <2>1, <2>2, <2>3, <2>4, <2>5
<1> QED BY <1>2, <1>3, <1>4, <1>7 DEF Next

LEMMA HistoryStep ==
  ASSUME IInv, IInv', HistoryInv, [Next]_vars
  PROVE  /\ HistoryInv'
         /\ [Undoing!Next]_<<SubSeq(history, 1, historyIndex - 1), steps,
                             SubSeq(history, historyIndex + 1, Len(history))>>
<1>1. steps' \in Seq(Step)
  BY DEF IInv, RestType
<1>2. CASE UNCHANGED <<steps, history, historyIndex>>
  BY <1>2 DEF HistoryInv
<1>3. CASE RecordHistory(steps')
  BY <1>1, <1>3, RecordIsDo DEF Undoing!Next
<1>4. CASE ResetHistory(steps')
  BY <1>1, <1>4, ResetIsReset DEF Undoing!Next
<1>5. CASE /\ historyIndex > 1 /\ historyIndex' = historyIndex - 1
           /\ UNCHANGED history /\ steps' = history[historyIndex - 1]
  BY <1>5, BackIsUndo DEF Undoing!Next
<1>6. CASE /\ historyIndex < Len(history) /\ historyIndex' = historyIndex + 1
           /\ UNCHANGED history /\ steps' = history[historyIndex + 1]
  BY <1>6, ForwardIsRedo DEF Undoing!Next
<1> QED BY <1>2, <1>3, <1>4, <1>5, <1>6, StepsOfTheHistory

(***************************************************************************)
(* Theorems                                                                *)
(***************************************************************************)
\* The pipeline on show is always the undo state under historyIndex, of which no more than
\* HistoryCap are kept: the boundary at which slice(-50) moves the index.
THEOREM HistoryIsBounded == Spec => []HistoryInv
<1>1. Init => HistoryInv
  BY PipelineAssumption DEF Init, HistoryInv, PipelineAssumption
<1>2. IInv /\ IInv' /\ HistoryInv /\ [Next]_vars => HistoryInv'
  BY HistoryStep
<1> QED BY <1>1, <1>2, InductiveInvariant, PTL DEF Spec

\* Undo and redo walk over the user's edits, whatever else the store does, for every
\* history cap and any number of edits: the store implements the abstract undo stack.
THEOREM UndoIsAStack == Spec => UndoSpec
<1>1. Init => Undoing!Init
  <2> SUFFICES ASSUME Init PROVE Undoing!Init
    OBVIOUS
  <2>1. history = <<<<>>>> /\ historyIndex = 1 /\ steps = <<>> /\ Len(<<<<>>>>) = 1
    BY DEF Init
  <2>2. SubSeq(history, 1, historyIndex - 1) = <<>>
        /\ SubSeq(history, historyIndex + 1, Len(history)) = <<>>
    BY <2>1, SubSeqEmpty
  <2>3. steps \in Seq(Step)
    BY <2>1
  <2> QED BY <2>2, <2>3 DEF Undoing!Init
<1>2. IInv /\ IInv' /\ HistoryInv /\ [Next]_vars
        => [Undoing!Next]_<<SubSeq(history, 1, historyIndex - 1), steps,
                            SubSeq(history, historyIndex + 1, Len(history))>>
  BY HistoryStep
<1> QED BY <1>1, <1>2, InductiveInvariant, HistoryIsBounded, PTL DEF Spec, UndoSpec, Undoing!Spec
=============================================================================
