--------------------------- MODULE StepCardsProofs ---------------------------
(***************************************************************************)
(* Proofs about StepCards, for every set of step ids, every bound and any  *)
(* saved queries: its type invariant, and the only ways in which what a    *)
(* card shows and what its step has part.                                  *)
(*                                                                         *)
(* The inductive invariant adds that an editor shows the sub-steps of its  *)
(* card unless its timer runs, and that the ids in the undo states and in  *)
(* the saved queries are used up: a new step cannot get the card of one    *)
(* that comes back.                                                        *)
(***************************************************************************)
EXTENDS StepCards, Integers, SequenceTheorems, TLAPS

Open(id, c) == KindOf[id] = "JOIN" /\ c.local["mode"] = Subpipeline

\* A card of the step id as cards can be.
GoodCard(id, c) ==
  /\ c \in Card
  /\ \A f \in Field : c.timer[f] # Untyped => f \in TypedFields(KindOf[id])
  /\ Open(id, c) => /\ c.editor.subTable = c.local["subTable"]
                    /\ c.editor.subSteps = c.local["subSteps"] \/ c.editor.pending

Known(ss) == IdsOf(ss) \subseteq used

StoreInv ==
  /\ past \in Seq(Pipeline) /\ steps \in Pipeline /\ future \in Seq(Pipeline)
  /\ \A k \in DOMAIN past : Known(past[k])
  /\ Known(steps)
  /\ \A k \in DOMAIN future : Known(future[k])

RestInv ==
  /\ table \in Tables
  /\ \A q \in saved : q \in Query /\ Known(q.steps)
  /\ used \subseteq Ids
  /\ \A g \in gone : g \in GoneCard
  /\ acts \in Nat

CardsInv ==
  /\ open \in BOOLEAN
  /\ DOMAIN cards = IF open THEN IdsOf(steps) ELSE {}
  /\ \A id \in DOMAIN cards : GoodCard(id, cards[id])

IInv == StoreInv /\ RestInv /\ CardsInv

\* What the card c of the step id shows of a field, and that this is the value v in the
\* step or on its way there.
ShownBy(id, c, f) ==
  IF f \in {"subTable", "subSteps"} /\ Open(id, c) THEN c.editor[f] ELSE c.local[f]
Agrees(id, c, f, v) ==
  \/ ShownBy(id, c, f) = v
  \/ c.timer[f] # Untyped /\ (KindOf[id] = "JOIN" \/ c.timer[f] = c.local[f])
  \/ f = "subSteps" /\ Open(id, c) /\ c.editor.pending

\* The cards that agreed with their steps still do, and those that are new do.
StillFollow ==
  \A d \in DOMAIN cards' : \A f \in FieldsOf(KindOf[d]) :
    InStep(d, f)' \/ (d \in DOMAIN cards /\ ~InStep(d, f))

LEMMA InStepIs ==
  ASSUME NEW id, NEW f
  PROVE  /\ InStep(id, f) <=> Agrees(id, cards[id], f, Stored(id, f))
         /\ InStep(id, f)' <=> Agrees(id, cards'[id], f, Stored(id, f)')
  BY DEF InStep, Agrees, Shown, ShownBy, OnItsWay, EditorOpen, Open

(***************************************************************************)
(* Fields and pipelines                                                    *)
(***************************************************************************)
\* The fields there are, by type.
LEMMA FieldFacts ==
  /\ Field = {"expression", "columns", "limit", "groupBy", "aggregations", "sql", "mode",
              "joinType", "table", "alias", "on", "subTable", "subSteps"}
  /\ \A kind \in Kind : FieldsOf(kind) \subseteq Field /\ TypedFields(kind) \subseteq FieldsOf(kind)
  /\ FieldsOf("JOIN") = {"mode", "joinType", "table", "alias", "on", "subTable", "subSteps"}
  /\ TypedFields("JOIN") = {"alias", "on"}
  /\ Empty \in Fields /\ NoTimer \in Timer
<1>1. \A kind \in Kind : FieldsOf(kind) \subseteq
        {"expression", "columns", "limit", "groupBy", "aggregations", "sql", "mode",
         "joinType", "table", "alias", "on", "subTable", "subSteps"}
  BY DEF Kind, FieldsOf
<1>2. Field = {"expression", "columns", "limit", "groupBy", "aggregations", "sql", "mode",
               "joinType", "table", "alias", "on", "subTable", "subSteps"}
  <2>1. /\ FieldsOf("WHERE") = {"expression"} /\ FieldsOf("ORDER_BY") = {"columns", "limit"}
        /\ FieldsOf("GROUP_BY") = {"groupBy", "aggregations"} /\ FieldsOf("RAW_SQL") = {"sql"}
        /\ FieldsOf("JOIN") = {"mode", "joinType", "table", "alias", "on", "subTable", "subSteps"}
    BY DEF FieldsOf
  <2>2. "WHERE" \in Kind /\ "ORDER_BY" \in Kind /\ "GROUP_BY" \in Kind /\ "RAW_SQL" \in Kind
        /\ "JOIN" \in Kind
    BY DEF Kind
  <2> QED BY <1>1, <2>1, <2>2 DEF Field
<1>3. \A kind \in Kind : TypedFields(kind) \subseteq FieldsOf(kind)
  BY DEF Kind, FieldsOf, TypedFields
<1>4. FieldsOf("JOIN") = {"mode", "joinType", "table", "alias", "on", "subTable", "subSteps"}
      /\ TypedFields("JOIN") = {"alias", "on"}
  BY DEF FieldsOf, TypedFields
<1>5. Empty \in Fields /\ NoTimer \in Timer
  BY DEF Empty, Fields, NoTimer, Timer, Inline, Blank
<1> QED BY <1>1, <1>2, <1>3, <1>4, <1>5

LEMMA ModeFacts == Inline \in Nat /\ Branch \in Nat /\ Subpipeline \in Nat /\ JoinMode \subseteq Nat
                   /\ Blank \in Nat /\ Inline # Subpipeline /\ Subpipeline # Blank
  BY DEF Inline, Branch, Subpipeline, JoinMode, Blank

\* A step is where its id is.
LEMMA PlaceFacts ==
  ASSUME NEW ss \in Pipeline
  PROVE  /\ \A k \in DOMAIN ss : ss[k].id \in IdsOf(ss) /\ Place(ss, ss[k].id) = k
         /\ \A id \in IdsOf(ss) : /\ Place(ss, id) \in DOMAIN ss
                                  /\ Place(ss, id) \in Nat
                                  /\ ss[Place(ss, id)].id = id
                                  /\ ss[Place(ss, id)] \in Step
<1>1. ss \in Seq(Step) /\ DistinctIds(ss)
  BY DEF Pipeline
<1>2. ASSUME NEW id \in IdsOf(ss)
      PROVE  Place(ss, id) \in DOMAIN ss /\ ss[Place(ss, id)].id = id
  <2>1. \E k \in DOMAIN ss : ss[k].id = id
    BY DEF IdsOf
  <2> QED BY <2>1 DEF Place
<1>3. ASSUME NEW k \in DOMAIN ss PROVE ss[k].id \in IdsOf(ss) /\ Place(ss, ss[k].id) = k
  <2>1. ss[k].id \in IdsOf(ss)
    BY DEF IdsOf
  <2> QED BY <1>1, <1>2, <2>1 DEF DistinctIds
<1>4. DOMAIN ss \subseteq Nat /\ \A k \in DOMAIN ss : ss[k] \in Step
  BY <1>1
<1> QED BY <1>2, <1>3, <1>4

(***************************************************************************)
(* The store                                                               *)
(***************************************************************************)
\* Fields with values, as update takes them.
Partial(changes) == DOMAIN changes \subseteq Field /\ \A f \in DOMAIN changes : changes[f] \in Nat

LEMMA CommittedFacts ==
  ASSUME NEW kind \in Kind, NEW local
  PROVE  /\ Committed(kind, local) \subseteq FieldsOf(kind)
         /\ kind # "JOIN" => Committed(kind, local) = FieldsOf(kind)
         /\ kind = "JOIN" => /\ {"joinType", "alias", "on"} \subseteq Committed(kind, local)
                             /\ "mode" \notin Committed(kind, local)
                             /\ local["mode"] = Subpipeline
                                  => Committed(kind, local) = FieldsOf(kind) \ {"mode", "table"}
                             /\ local["mode"] # Subpipeline
                                  => Committed(kind, local)
                                       = FieldsOf(kind) \ {"mode", "subTable", "subSteps"}
  BY FieldFacts DEF Committed

LEMMA ChangesArePartial ==
  ASSUME NEW kind \in Kind, NEW local \in Fields, NEW timer \in Timer
  PROVE  /\ Partial(Changes(kind, local)) /\ DOMAIN Changes(kind, local) = Committed(kind, local)
         /\ Partial(TimerWrites(kind, local, timer))
         /\ DOMAIN TimerWrites(kind, local, timer) = Committed(kind, local)
<1>1. Committed(kind, local) \subseteq Field
  BY CommittedFacts, FieldFacts
<1>2. \A f \in Field : local[f] \in Nat /\ timer[f] \in Nat \cup {Untyped}
  BY DEF Fields, Timer
<1> QED BY <1>1, <1>2 DEF Partial, Changes, TimerWrites

LEMMA NewestFacts ==
  ASSUME NEW S, NEW s \in Seq(S)
  PROVE  /\ Undoing!Newest(s) \in Seq(S)
         /\ \A k \in DOMAIN Undoing!Newest(s) : \E j \in DOMAIN s : Undoing!Newest(s)[k] = s[j]
<1>1. HistoryCap \in Nat /\ HistoryCap >= 2
  BY StepCardsAssumption DEF StepCardsAssumption
<1>2. CASE Len(s) < HistoryCap
  BY <1>2 DEF Undoing!Newest
<1>3. CASE ~(Len(s) < HistoryCap)
  <2> DEFINE m == Len(s) - HistoryCap + 2
  <2>1. m \in Nat /\ m >= 2 /\ Len(s) \in Nat
    BY <1>1, <1>3
  <2>2. Undoing!Newest(s) = SubSeq(s, m, Len(s))
    BY <1>3 DEF Undoing!Newest
  <2> HIDE DEF m
  <2>3. \A i \in m .. Len(s) : s[i] \in S
    BY <2>1
  <2> QED BY <2>1, <2>2, <2>3
<1> QED BY <1>2, <1>3

\* The state on show joins the past.
LEMMA RecordFacts ==
  ASSUME StoreInv, Record, used \subseteq used'
  PROVE  /\ past' \in Seq(Pipeline) /\ future' \in Seq(Pipeline)
         /\ \A k \in DOMAIN past' : IdsOf(past'[k]) \subseteq used'
         /\ \A k \in DOMAIN future' : IdsOf(future'[k]) \subseteq used'
<1> DEFINE p == Append(past, steps)
<1>1. /\ past \in Seq(Pipeline) /\ steps \in Pipeline
      /\ \A k \in DOMAIN past : IdsOf(past[k]) \subseteq used
      /\ IdsOf(steps) \subseteq used
  BY DEF StoreInv, Known
<1>2. past' = Undoing!Newest(p) /\ future' = <<>>
  BY DEF Record
<1>3. p \in Seq(Pipeline) /\ \A k \in DOMAIN p : IdsOf(p[k]) \subseteq used
  BY <1>1
<1> HIDE DEF p
<1>4. past' \in Seq(Pipeline) /\ \A k \in DOMAIN past' : \E j \in DOMAIN p : past'[k] = p[j]
  BY <1>2, <1>3, NewestFacts
<1>5. \A k \in DOMAIN past' : IdsOf(past'[k]) \subseteq used
  BY <1>3, <1>4
<1> QED BY <1>2, <1>4, <1>5

\* update changes fields of one step: all steps keep their place and id.
LEMMA UpdateFacts ==
  ASSUME StoreInv, NEW i, NEW changes, Partial(changes), Update(i, changes), used' = used
  PROVE  /\ StoreInv'
         /\ IdsOf(steps)' = IdsOf(steps)
         /\ \A id \in IdsOf(steps) :
              /\ Place(steps', id) = Place(steps, id)
              /\ \A f \in Field :
                   Stored(id, f)' = IF Place(steps, id) = i /\ f \in DOMAIN changes
                                    THEN changes[f] ELSE Stored(id, f)
<1>1. steps \in Pipeline /\ steps \in Seq(Step) /\ DistinctIds(steps) /\ Known(steps)
  BY DEF StoreInv, Pipeline
<1>2. /\ steps' = [k \in DOMAIN steps |-> IF k = i THEN Merge(steps[k], changes) ELSE steps[k]]
      /\ Record
  BY DEF Update
<1>3. ASSUME NEW s \in Step
      PROVE  /\ Merge(s, changes) \in Step
             /\ Merge(s, changes).id = s.id
             /\ \A f \in Field : Merge(s, changes).at[f]
                                   = IF f \in DOMAIN changes THEN changes[f] ELSE s.at[f]
  <2> DEFINE g == [f \in Field |-> IF f \in DOMAIN changes THEN changes[f] ELSE s.at[f]]
  <2>1. s.id \in Ids /\ s.at \in Fields /\ s = [id |-> s.id, at |-> s.at]
    BY DEF Step
  <2>2. g \in Fields
    BY <2>1 DEF Partial, Fields
  <2>3. Merge(s, changes) = [id |-> s.id, at |-> g]
    BY <2>1 DEF Merge
  <2> QED BY <2>1, <2>2, <2>3 DEF Step
<1>4. /\ steps' \in Seq(Step) /\ DOMAIN steps' = DOMAIN steps
      /\ \A k \in DOMAIN steps : steps'[k].id = steps[k].id
  <2>1. \A k \in DOMAIN steps : steps[k] \in Step /\ steps'[k] \in Step /\ steps'[k].id = steps[k].id
    BY <1>1, <1>2, <1>3
  <2>2. DOMAIN steps = 1 .. Len(steps) /\ Len(steps) \in Nat
    BY <1>1
  <2>3. steps' \in [1 .. Len(steps) -> Step]
    BY <1>2, <2>1, <2>2
  <2> QED BY <2>1, <2>2, <2>3
<1>5. DistinctIds(steps') /\ IdsOf(steps') = IdsOf(steps)
  BY <1>1, <1>4 DEF DistinctIds, IdsOf
<1>6. steps' \in Pipeline
  BY <1>4, <1>5 DEF Pipeline
<1>7. ASSUME NEW id \in IdsOf(steps)
      PROVE  /\ Place(steps', id) = Place(steps, id)
             /\ \A f \in Field :
                  Stored(id, f)' = IF Place(steps, id) = i /\ f \in DOMAIN changes
                                   THEN changes[f] ELSE Stored(id, f)
  <2> DEFINE k == Place(steps, id)
  <2>1. k \in DOMAIN steps /\ steps[k].id = id /\ steps[k] \in Step
    BY <1>1, PlaceFacts
  <2> HIDE DEF k
  <2>2. Place(steps', id) = k
    BY <1>4, <1>6, <2>1, PlaceFacts
  <2>3. \A f \in Field : steps'[k].at[f] = IF k = i /\ f \in DOMAIN changes
                                           THEN changes[f] ELSE steps[k].at[f]
    BY <1>2, <1>3, <2>1
  <2>4. \A f \in Field : Stored(id, f)' = steps'[k].at[f] /\ Stored(id, f) = steps[k].at[f]
    BY <2>2 DEF Stored, k
  <2> QED BY <2>2, <2>3, <2>4 DEF k
<1>8. StoreInv'
  BY <1>1, <1>2, <1>5, <1>6, RecordFacts DEF StoreInv, Known
<1> QED BY <1>5, <1>7, <1>8

(***************************************************************************)
(* The page after the steps have changed                                   *)
(***************************************************************************)
LEMMA CardFacts ==
  ASSUME NEW id \in Ids, NEW c, GoodCard(id, c)
  PROVE  /\ KindOf[id] \in Kind
         /\ c = [local |-> c.local, timer |-> c.timer, editor |-> c.editor]
         /\ c.local \in Fields /\ c.timer \in Timer /\ c.editor \in Editor
         /\ \A f \in Field : c.local[f] \in Nat
         /\ c.editor = [subTable |-> c.editor.subTable, subSteps |-> c.editor.subSteps,
                        pending |-> c.editor.pending]
         /\ c.editor.subTable \in Nat /\ c.editor.subSteps \in Nat /\ c.editor.pending \in BOOLEAN
  BY StepCardsAssumption DEF StepCardsAssumption, GoodCard, Card, Editor, Fields

\* An editor that is created copies what its card shows.
LEMMA EditorFacts ==
  ASSUME NEW local \in Fields
  PROVE  /\ EditorOf(local) \in Editor
         /\ local["mode"] = Subpipeline => /\ EditorOf(local).subTable = local["subTable"]
                                           /\ EditorOf(local).subSteps = local["subSteps"]
                                           /\ ~EditorOf(local).pending
  BY FieldFacts, ModeFacts DEF EditorOf, Editor, NoEditor, Fields

\* A card that is created shows its step.
LEMMA NewCardIsGood ==
  ASSUME NEW s \in Step
  PROVE  GoodCard(s.id, NewCard(s))
<1>1. s.at \in Fields
  BY DEF Step
<1>2. NewCard(s) \in Card
  BY <1>1, EditorFacts, FieldFacts DEF NewCard, Card
<1>3. \A f \in Field : NewCard(s).timer[f] = Untyped
  BY DEF NewCard, NoTimer
<1> QED BY <1>1, <1>2, <1>3, EditorFacts DEF GoodCard, Open, NewCard

LEMMA RenderFacts ==
  ASSUME StoreInv, RestInv, CardsInv, NEW ss \in Pipeline, Render(ss)
  PROVE  /\ DOMAIN cards' = IdsOf(ss)
         /\ \A id \in DOMAIN cards' : GoodCard(id, cards'[id])
         /\ \A id \in DOMAIN cards \cap DOMAIN cards' : cards'[id] = cards[id]
         /\ \A id \in DOMAIN cards' \ DOMAIN cards : cards'[id] = NewCard(ss[Place(ss, id)])
         /\ \A g \in gone' : g \in GoneCard
<1>1. /\ cards' = [id \in IdsOf(ss) |-> IF id \in DOMAIN cards THEN cards[id]
                                        ELSE NewCard(ss[Place(ss, id)])]
      /\ gone' = gone \cup LeftBehind(ss)
  BY DEF Render, CardsFor
<1>2. \A id \in DOMAIN cards : GoodCard(id, cards[id]) /\ id \in IdsOf(steps) /\ id \in Ids
  <2>1. DOMAIN cards \subseteq IdsOf(steps) /\ \A id \in DOMAIN cards : GoodCard(id, cards[id])
    BY DEF CardsInv
  <2>2. IdsOf(steps) \subseteq Ids
    BY DEF StoreInv, RestInv, Known
  <2> QED BY <2>1, <2>2
<1>3. \A id \in IdsOf(ss) : GoodCard(id, NewCard(ss[Place(ss, id)]))
  <2> TAKE id \in IdsOf(ss)
  <2>1. ss[Place(ss, id)] \in Step /\ ss[Place(ss, id)].id = id
    BY PlaceFacts
  <2> QED BY <2>1, NewCardIsGood
<1>4. ASSUME NEW id \in DOMAIN cards
      PROVE  [id |-> id, local |-> cards[id].local, timer |-> cards[id].timer,
              index |-> Place(steps, id)] \in GoneCard
  <2>1. cards[id].local \in Fields /\ cards[id].timer \in Timer /\ id \in Ids
    BY <1>2, CardFacts
  <2>2. Place(steps, id) \in Nat
    BY <1>2, PlaceFacts DEF StoreInv
  <2> QED BY <2>1, <2>2 DEF GoneCard
<1>5. \A g \in gone' : g \in GoneCard
  <2>1. \A g \in LeftBehind(ss) : g \in GoneCard
    BY <1>4 DEF LeftBehind
  <2> QED BY <1>1, <2>1 DEF RestInv
<1> QED BY <1>1, <1>2, <1>3, <1>5

\* A card that is created shows what its step has.
LEMMA NewCardsFollow ==
  ASSUME StoreInv, RestInv, CardsInv, steps' \in Pipeline, Render(steps'),
         NEW d \in DOMAIN cards' \ DOMAIN cards, NEW f
  PROVE  InStep(d, f)'
<1> DEFINE s == steps'[Place(steps', d)]
<1>1. d \in IdsOf(steps') /\ cards'[d] = NewCard(s)
  BY RenderFacts
<1>2. s \in Step /\ s.at \in Fields
  BY <1>1, PlaceFacts DEF Step
<1>3. Stored(d, f)' = s.at[f]
  BY DEF Stored
<1> HIDE DEF s
<1>4. Agrees(d, NewCard(s), f, s.at[f])
  BY <1>2, EditorFacts DEF Agrees, ShownBy, NewCard, Open
<1> QED BY <1>1, <1>3, <1>4, InStepIs

\* The steps are replaced by a pipeline that may be shown.
LEMMA ReplaceKeepsInv ==
  ASSUME IInv, steps' \in Pipeline, Render(steps'), used \subseteq used', used' \subseteq Ids,
         IdsOf(steps') \subseteq used',
         past' \in Seq(Pipeline), \A k \in DOMAIN past' : IdsOf(past'[k]) \subseteq used',
         future' \in Seq(Pipeline), \A k \in DOMAIN future' : IdsOf(future'[k]) \subseteq used',
         saved' = saved, table' \in Tables, acts' \in Nat, open' = TRUE
  PROVE  IInv'
<1>1. /\ DOMAIN cards' = IdsOf(steps')
      /\ \A id \in DOMAIN cards' : GoodCard(id, cards'[id])
      /\ \A g \in gone' : g \in GoneCard
  BY RenderFacts DEF IInv
<1>2. StoreInv'
  BY DEF StoreInv, Known
<1>3. RestInv'
  BY <1>1 DEF IInv, RestInv, Known
<1>4. CardsInv'
  BY <1>1 DEF CardsInv, GoodCard, Open
<1> QED BY <1>2, <1>3, <1>4 DEF IInv

(***************************************************************************)
(* What a card commits                                                     *)
(***************************************************************************)
\* One card changes, and the store may take changes at an index.
LEMMA CardKeepsInv ==
  ASSUME IInv, NEW id \in DOMAIN cards, NEW c, GoodCard(id, c),
         cards' = [cards EXCEPT ![id] = c],
         StoreInv', IdsOf(steps)' = IdsOf(steps),
         UNCHANGED <<table, saved, used, open, gone>>, acts' \in Nat
  PROVE  IInv'
<1>1. RestInv'
  BY DEF IInv, RestInv, Known
<1>2. CardsInv'
  BY DEF IInv, CardsInv, GoodCard, Open
<1> QED BY <1>1, <1>2 DEF IInv

LEMMA IdFacts ==
  ASSUME IInv, NEW id \in DOMAIN cards
  PROVE  /\ id \in Ids /\ id \in IdsOf(steps) /\ GoodCard(id, cards[id])
         /\ Place(steps, id) \in DOMAIN steps
         /\ \A d \in DOMAIN cards : Place(steps, d) = Place(steps, id) => d = id
         /\ open = TRUE /\ DOMAIN cards = IdsOf(steps)
<1>1. /\ open = TRUE /\ DOMAIN cards = IdsOf(steps) /\ GoodCard(id, cards[id])
      /\ IdsOf(steps) \subseteq Ids /\ steps \in Pipeline
  BY DEF IInv, CardsInv, StoreInv, RestInv, Known
<1> QED BY <1>1, PlaceFacts

\* A card that commits writes what it shows: afterwards all its fields agree that agreed.
LEMMA CommitFollows ==
  ASSUME IInv, NEW id \in DOMAIN cards, NEW c, GoodCard(id, c), Commit(id, c), acts' \in Nat,
         c.timer = cards[id].timer,
         c.local["mode"] = cards[id].local["mode"],
         \A f \in Field \ Committed(KindOf[id], c.local) : c.local[f] = cards[id].local[f]
  PROVE  IInv' /\ StillFollow
<1> DEFINE changes == Changes(KindOf[id], c.local)
<1>1. /\ cards' = [cards EXCEPT ![id] = c]
      /\ Update(Place(steps, id), changes)
      /\ UNCHANGED <<table, saved, used, open, gone>>
  BY DEF Commit
<1>2. KindOf[id] \in Kind /\ c.local \in Fields /\ c.timer \in Timer /\ id \in IdsOf(steps)
  BY IdFacts, CardFacts
<1>3. Partial(changes) /\ DOMAIN changes = Committed(KindOf[id], c.local)
  BY <1>2, ChangesArePartial
<1>4. \A f \in DOMAIN changes : changes[f] = c.local[f]
  BY <1>3 DEF Changes
<1> HIDE DEF changes
<1>5. /\ StoreInv' /\ IdsOf(steps)' = IdsOf(steps)
      /\ \A d \in IdsOf(steps) : \A f \in Field :
           Stored(d, f)' = IF Place(steps, d) = Place(steps, id) /\ f \in DOMAIN changes
                           THEN changes[f] ELSE Stored(d, f)
  BY <1>1, <1>3, UpdateFacts DEF IInv
<1>6. IInv'
  BY <1>1, <1>5, CardKeepsInv
<1>7. ASSUME NEW d \in DOMAIN cards, NEW f \in FieldsOf(KindOf[d]), InStep(d, f)
      PROVE  InStep(d, f)'
  <2>1. d \in IdsOf(steps) /\ KindOf[d] \in Kind /\ f \in Field
    BY IdFacts, CardFacts, FieldFacts
  <2>2. Agrees(d, cards[d], f, Stored(d, f))
    BY <1>7, InStepIs
  <2>3. CASE d # id
    <3>1. cards'[d] = cards[d] /\ Stored(d, f)' = Stored(d, f)
      BY <1>1, <1>5, <2>1, <2>3, IdFacts
    <3> QED BY <2>2, <3>1, InStepIs
  <2>4. CASE d = id
    <3>1. cards'[id] = c
      BY <1>1
    <3>2. CASE f \in DOMAIN changes
      <4>1. Stored(id, f)' = c.local[f]
        BY <1>4, <1>5, <2>1, <2>4, <3>2
      <4>2. Agrees(id, c, f, c.local[f])
        BY DEF Agrees, ShownBy, GoodCard, Open
      <4> QED BY <2>4, <3>1, <4>1, <4>2, InStepIs
    <3>3. CASE f \notin DOMAIN changes
      <4>1. Stored(id, f)' = Stored(id, f) /\ c.local[f] = cards[id].local[f]
        BY <1>3, <1>5, <2>1, <2>4, <3>3
      <4>2. ~(f \in {"subTable", "subSteps"} /\ Open(id, c))
        BY <1>2, <1>3, <2>4, <3>3, CommittedFacts DEF Open
      <4>3. Agrees(id, c, f, Stored(id, f))
        BY <2>2, <2>4, <4>1, <4>2 DEF Agrees, ShownBy, Open
      <4> QED BY <2>4, <3>1, <4>1, <4>3, InStepIs
    <3> QED BY <3>2, <3>3
  <2> QED BY <2>3, <2>4
<1> QED BY <1>1, <1>6, <1>7 DEF StillFollow

\* What the helpers on cards change.
LEMMA ShowsFacts ==
  ASSUME NEW c \in Card, NEW f \in Field, NEW v \in Nat
  PROVE  /\ Shows(c, f, v) \in Card
         /\ Shows(c, f, v).timer = c.timer /\ Shows(c, f, v).editor = c.editor
         /\ Shows(c, f, v).local[f] = v
         /\ \A g \in Field \ {f} : Shows(c, f, v).local[g] = c.local[g]
<1> DEFINE l == [c.local EXCEPT ![f] = v]
<1>1. c.local \in Fields /\ c.timer \in Timer /\ c.editor \in Editor
  BY DEF Card
<1>2. l \in Fields /\ l[f] = v /\ \A g \in Field \ {f} : l[g] = c.local[g]
  BY <1>1 DEF Fields
<1>3. Shows(c, f, v) = [local |-> l, timer |-> c.timer, editor |-> c.editor]
  BY DEF Shows
<1> HIDE DEF l
<1> QED BY <1>1, <1>2, <1>3 DEF Card

LEMMA WaitsFacts ==
  ASSUME NEW c \in Card, NEW f \in Field, NEW v \in Nat
  PROVE  /\ Waits(c, f, v) \in Card
         /\ Waits(c, f, v).editor = c.editor
         /\ Waits(c, f, v).local[f] = v /\ Waits(c, f, v).timer[f] = v
         /\ \A g \in Field \ {f} : /\ Waits(c, f, v).local[g] = c.local[g]
                                   /\ Waits(c, f, v).timer[g] = c.timer[g]
<1> DEFINE l == [c.local EXCEPT ![f] = v]
           t == [c.timer EXCEPT ![f] = v]
<1>1. c.local \in Fields /\ c.timer \in Timer /\ c.editor \in Editor
  BY DEF Card
<1>2. l \in Fields /\ l[f] = v /\ \A g \in Field \ {f} : l[g] = c.local[g]
  BY <1>1 DEF Fields
<1>3. t \in Timer /\ t[f] = v /\ \A g \in Field \ {f} : t[g] = c.timer[g]
  BY <1>1 DEF Timer
<1>4. Waits(c, f, v) = [local |-> l, timer |-> t, editor |-> c.editor]
  BY DEF Waits
<1> HIDE DEF l, t
<1> QED BY <1>1, <1>2, <1>3, <1>4 DEF Card

LEMMA EditsFacts ==
  ASSUME NEW c \in Card, NEW e \in Editor
  PROVE  /\ Edits(c, e) \in Card
         /\ Edits(c, e).timer = c.timer /\ Edits(c, e).local = c.local /\ Edits(c, e).editor = e
  BY DEF Card, Edits

LEMMA RestsFacts ==
  ASSUME NEW c \in Card
  PROVE  /\ Rests(c) \in Card
         /\ Rests(c).timer = NoTimer /\ Rests(c).local = c.local /\ Rests(c).editor = c.editor
  BY FieldFacts DEF Card, Rests

(***************************************************************************)
(* The steps of a card                                                     *)
(***************************************************************************)
LEMMA ActFacts == ASSUME RestInv, UserActs PROVE acts \in Nat /\ acts' \in Nat /\ acts + 1 \in Nat
  BY DEF RestInv, UserActs

\* What is typed is on its way.
LEMMA TypeFollows ==
  ASSUME IInv, NEW id \in DOMAIN cards, NEW f \in TypedFields(KindOf[id]), Type(id, f)
  PROVE  IInv' /\ StillFollow
<1>1. acts' \in Nat /\ Entered(f) \subseteq Nat
  BY ActFacts, ModeFacts DEF IInv, Type, Entered
<1>2. PICK v \in Entered(f) : Typed(id, f, v)
  BY DEF Type
<1> DEFINE c == cards[id]
           e == Waits(c, f, v)
<1>3. /\ id \in Ids /\ id \in IdsOf(steps) /\ GoodCard(id, c) /\ KindOf[id] \in Kind /\ v \in Nat
      /\ f \in Field /\ c \in Card
  <2>1. id \in Ids /\ id \in IdsOf(steps) /\ GoodCard(id, c)
    BY IdFacts
  <2>2. KindOf[id] \in Kind
    BY <2>1, CardFacts
  <2>3. f \in Field
    BY <2>2, FieldFacts
  <2> QED BY <1>1, <2>1, <2>2, <2>3 DEF GoodCard
<1>4. f \notin {"mode", "subTable", "subSteps"}
  BY <1>3 DEF TypedFields, Kind
<1>5. cards' = [cards EXCEPT ![id] = e] /\ UNCHANGED <<table, storeVars, saved, used, open, gone>>
  BY <1>2 DEF Typed
<1> HIDE DEF c
<1>6. /\ e \in Card /\ e.editor = c.editor /\ e.local[f] = v /\ e.timer[f] = v
      /\ \A g \in Field \ {f} : e.local[g] = c.local[g] /\ e.timer[g] = c.timer[g]
  BY <1>3, WaitsFacts
<1> HIDE DEF e
<1>8. /\ e.local["mode"] = c.local["mode"]
      /\ e.local["subTable"] = c.local["subTable"] /\ e.local["subSteps"] = c.local["subSteps"]
  BY <1>3, <1>4, <1>6, FieldFacts
<1>9. GoodCard(id, e)
  <2>2. \A g \in Field : e.timer[g] # Untyped => g \in TypedFields(KindOf[id])
    BY <1>3, <1>6 DEF GoodCard
  <2>3. Open(id, e) <=> Open(id, c)
    BY <1>8 DEF Open
  <2> QED BY <1>3, <1>6, <1>8, <2>2, <2>3 DEF GoodCard
<1>10. StoreInv' /\ IdsOf(steps)' = IdsOf(steps)
  BY <1>5 DEF IInv, StoreInv, Known, storeVars
<1>11. IInv'
  BY <1>1, <1>5, <1>9, <1>10, CardKeepsInv
<1>12. ASSUME NEW d \in DOMAIN cards, NEW g \in FieldsOf(KindOf[d]), InStep(d, g)
       PROVE  InStep(d, g)'
  <2>1. Stored(d, g)' = Stored(d, g)
    BY <1>5 DEF Stored, storeVars
  <2>2. Agrees(d, cards[d], g, Stored(d, g))
    BY <1>12, InStepIs
  <2>3. CASE d # id
    BY <1>5, <2>1, <2>2, <2>3, InStepIs
  <2>4. CASE d = id
    <3>1. cards'[id] = e /\ cards[id] = c
      BY <1>5 DEF c
    <3>2. g \in Field
      BY <1>3, <2>4, FieldFacts
    <3>3. CASE g = f
      <4>1. Agrees(id, e, f, Stored(id, f))
        BY <1>3, <1>4, <1>6, StepCardsAssumption DEF Agrees, ShownBy, StepCardsAssumption
      <4> QED BY <2>1, <2>4, <3>1, <3>3, <4>1, InStepIs
    <3>4. CASE g # f
      <4>1. Agrees(id, e, g, Stored(id, g))
        BY <1>6, <1>8, <2>2, <2>4, <3>1, <3>2, <3>4 DEF Agrees, ShownBy, Open
      <4> QED BY <2>1, <2>4, <3>1, <4>1, InStepIs
    <3> QED BY <3>3, <3>4
  <2> QED BY <2>3, <2>4
<1> QED BY <1>5, <1>11, <1>12 DEF StillFollow

\* A click changes a field that is committed, and not one of the editor's.
LEMMA ClickFollows ==
  ASSUME IInv, NEW id \in DOMAIN cards, NEW f \in Field, Click(id, f),
         f \notin {"mode", "subTable", "subSteps"},
         \A local \in Fields : f \in Committed(KindOf[id], local)
  PROVE  IInv' /\ StillFollow
<1> DEFINE c == cards[id]
           e == Shows(c, f, acts + 1)
<1>1. acts' \in Nat /\ acts + 1 \in Nat /\ Commit(id, e)
  BY ActFacts DEF IInv, Click
<1>2. id \in Ids /\ GoodCard(id, c) /\ c \in Card
  BY IdFacts DEF GoodCard
<1> HIDE DEF c
<1>3. e \in Card /\ e.timer = c.timer /\ e.editor = c.editor /\ e.local \in Fields
  <2>1. e \in Card /\ e.timer = c.timer /\ e.editor = c.editor
    BY <1>1, <1>2, ShowsFacts
  <2> HIDE DEF e
  <2> QED BY <2>1 DEF Card
<1>4. \A g \in Field \ {f} : e.local[g] = c.local[g]
  BY <1>1, <1>2, ShowsFacts
<1> HIDE DEF e
<1>5. /\ e.local["mode"] = c.local["mode"] /\ e.local["subTable"] = c.local["subTable"]
      /\ e.local["subSteps"] = c.local["subSteps"]
  BY <1>4, FieldFacts
<1>6. GoodCard(id, e)
  BY <1>2, <1>3, <1>5 DEF GoodCard, Open
<1>7. \A g \in Field \ Committed(KindOf[id], e.local) : e.local[g] = c.local[g]
  BY <1>3, <1>4
<1> QED BY <1>1, <1>3, <1>5, <1>6, <1>7, CommitFollows DEF c

LEMMA SuggestedType ==
  ASSUME RestInv, NEW on \in Nat, NEW t
  PROVE  Suggested(on, t) \subseteq Nat
  BY ModeFacts DEF RestInv, Suggested

\* Picking a table changes it, and may fill in the condition.
LEMMA TableFollows ==
  ASSUME IInv, NEW id \in DOMAIN cards, OnJoinTableChange(id)
  PROVE  IInv' /\ StillFollow
<1>1. /\ acts' \in Nat /\ Entered("table") \subseteq Nat
      /\ KindOf[id] = "JOIN" /\ cards[id].local["mode"] # Subpipeline
  BY ActFacts, ModeFacts DEF IInv, OnJoinTableChange, Entered, EditorOpen
<1> DEFINE c == cards[id]
<1>2. PICK t \in Entered("table") : \E on \in Suggested(c.local["on"], t) :
        Commit(id, Shows(Shows(c, "table", t), "on", on))
  BY DEF OnJoinTableChange
<1>3. PICK on \in Suggested(c.local["on"], t) : Commit(id, Shows(Shows(c, "table", t), "on", on))
  BY <1>2
<1> DEFINE n == Shows(c, "table", t)
           e == Shows(n, "on", on)
<1>4. /\ id \in Ids /\ GoodCard(id, c) /\ c \in Card /\ t \in Nat
      /\ "table" \in Field /\ "on" \in Field
  BY <1>1, IdFacts, FieldFacts DEF GoodCard
<1>5. on \in Nat
  <2>1. c.local["on"] \in Nat
    BY <1>4, FieldFacts DEF Card, Fields
  <2> QED BY <1>3, <2>1, SuggestedType DEF IInv
<1>6. Commit(id, e)
  BY <1>3
<1> HIDE DEF c
<1>7. /\ n \in Card /\ n.timer = c.timer /\ n.editor = c.editor
      /\ \A g \in Field \ {"table"} : n.local[g] = c.local[g]
  BY <1>4, ShowsFacts
<1> HIDE DEF n
<1>8. /\ e \in Card /\ e.timer = c.timer /\ e.editor = c.editor
      /\ \A g \in Field \ {"on"} : e.local[g] = n.local[g]
  BY <1>4, <1>5, <1>7, ShowsFacts
<1> HIDE DEF e
<1>9. \A g \in Field \ {"table", "on"} : e.local[g] = c.local[g]
  BY <1>7, <1>8
<1>10. /\ e.local["mode"] = c.local["mode"] /\ e.local["subTable"] = c.local["subTable"]
       /\ e.local["subSteps"] = c.local["subSteps"]
  BY <1>9, FieldFacts
<1>11. GoodCard(id, e)
  BY <1>4, <1>8, <1>10 DEF GoodCard, Open
<1>12. \A g \in Field \ Committed(KindOf[id], e.local) : e.local[g] = c.local[g]
  <2>1. {"table", "on"} \subseteq Committed(KindOf[id], e.local)
    BY <1>1, <1>10 DEF Committed, c
  <2> QED BY <1>9, <2>1
<1> QED BY <1>1, <1>6, <1>8, <1>10, <1>11, <1>12, CommitFollows DEF c

\* What the editor emits, the card takes and commits.
LEMMA EmitFollows ==
  ASSUME IInv, NEW id \in DOMAIN cards, EditorOpen(id), acts' \in Nat,
         NEW ss \in Nat, NEW pending \in BOOLEAN, EmitSubSteps(id, ss, pending)
  PROVE  IInv' /\ StillFollow
<1> DEFINE c == cards[id]
           n == Shows(c, "subSteps", ss)
           w == SubSteps(id, ss, pending)
           e == Edits(n, w)
<1>1. id \in Ids /\ GoodCard(id, c) /\ c \in Card /\ "subSteps" \in Field
  BY IdFacts, FieldFacts DEF GoodCard
<1>2. Commit(id, e)
  BY DEF EmitSubSteps
<1>4. KindOf[id] = "JOIN" /\ c.local["mode"] = Subpipeline
  BY DEF EditorOpen
<1> HIDE DEF c
<1>3. /\ n \in Card /\ n.timer = c.timer /\ n.editor = c.editor
      /\ n.local["subSteps"] = ss
      /\ \A g \in Field \ {"subSteps"} : n.local[g] = c.local[g]
  BY <1>1, ShowsFacts
<1> HIDE DEF n
<1>10. /\ w \in Editor
       /\ w.subTable = cards[id].editor.subTable /\ w.subSteps = ss
  <2>1. cards[id].editor \in Editor
    BY IdFacts, CardFacts
  <2> QED BY <2>1 DEF Editor, SubSteps
<1> HIDE DEF w
<1>5. /\ e \in Card /\ e.timer = c.timer /\ e.local = n.local
      /\ e.editor.subTable = c.editor.subTable /\ e.editor.subSteps = ss
  BY <1>3, <1>10, EditsFacts DEF c
<1> HIDE DEF e
<1>6. \A g \in Field \ {"subSteps"} : e.local[g] = c.local[g]
  BY <1>3, <1>5
<1>7. /\ e.local["mode"] = c.local["mode"] /\ e.local["subTable"] = c.local["subTable"]
      /\ e.local["subSteps"] = ss
  BY <1>3, <1>5, <1>6, FieldFacts
<1>8. GoodCard(id, e)
  BY <1>1, <1>4, <1>5, <1>7 DEF GoodCard, Open
<1>9. \A g \in Field \ Committed(KindOf[id], e.local) : e.local[g] = c.local[g]
  <2>1. "subSteps" \in Committed(KindOf[id], e.local)
    BY <1>4, <1>7 DEF Committed
  <2> QED BY <1>6, <2>1
<1> QED BY <1>2, <1>5, <1>7, <1>8, <1>9, CommitFollows DEF c

LEMMA SubTableFollows ==
  ASSUME IInv, NEW id \in DOMAIN cards, OnSubTableChange(id)
  PROVE  IInv' /\ StillFollow
<1>1. /\ acts' \in Nat /\ Entered("subTable") \subseteq Nat
      /\ KindOf[id] = "JOIN" /\ cards[id].local["mode"] = Subpipeline
  BY ActFacts, ModeFacts DEF IInv, OnSubTableChange, Entered, EditorOpen
<1> DEFINE c == cards[id]
<1>2. PICK t \in Entered("subTable") : \E on \in Suggested(c.local["on"], t) :
        Commit(id, Edits(Shows(Shows(c, "subTable", t), "on", on),
                         [subTable |-> t, subSteps |-> c.editor.subSteps,
                          pending |-> c.editor.pending]))
  BY DEF OnSubTableChange
<1>3. PICK on \in Suggested(c.local["on"], t) :
        Commit(id, Edits(Shows(Shows(c, "subTable", t), "on", on),
                         [subTable |-> t, subSteps |-> c.editor.subSteps,
                          pending |-> c.editor.pending]))
  BY <1>2
<1> DEFINE n == Shows(c, "subTable", t)
           o == Shows(n, "on", on)
           w == [subTable |-> t, subSteps |-> c.editor.subSteps, pending |-> c.editor.pending]
           e == Edits(o, w)
<1>4. /\ id \in Ids /\ GoodCard(id, c) /\ c \in Card /\ t \in Nat
      /\ "subTable" \in Field /\ "on" \in Field
      /\ c.editor \in Editor
  BY <1>1, IdFacts, CardFacts, FieldFacts DEF GoodCard
<1>5. on \in Nat
  <2>1. c.local["on"] \in Nat
    BY <1>4, FieldFacts DEF Card, Fields
  <2> QED BY <1>3, <2>1, SuggestedType DEF IInv
<1>6. Commit(id, e)
  BY <1>3
<1> HIDE DEF c
<1>7. /\ n \in Card /\ n.timer = c.timer /\ n.local["subTable"] = t
      /\ \A g \in Field \ {"subTable"} : n.local[g] = c.local[g]
  BY <1>4, ShowsFacts
<1> HIDE DEF n
<1>8. /\ o \in Card /\ o.timer = c.timer
      /\ \A g \in Field \ {"on"} : o.local[g] = n.local[g]
  BY <1>4, <1>5, <1>7, ShowsFacts
<1> HIDE DEF o
<1>13. /\ w \in Editor /\ w.subTable = t /\ w.subSteps = c.editor.subSteps
       /\ w.pending = c.editor.pending
  BY <1>4 DEF Editor
<1> HIDE DEF w
<1>14. e \in Card /\ e.timer = c.timer /\ e.local = o.local /\ e.editor = w
  BY <1>8, <1>13, EditsFacts
<1> HIDE DEF e
<1>9. \A g \in Field \ {"subTable", "on"} : e.local[g] = c.local[g]
  BY <1>7, <1>8, <1>14
<1>10. /\ e.local["mode"] = c.local["mode"] /\ e.local["subTable"] = t
       /\ e.local["subSteps"] = c.local["subSteps"]
  BY <1>7, <1>8, <1>9, <1>14, FieldFacts
<1>11. GoodCard(id, e)
  BY <1>4, <1>8, <1>10, <1>13, <1>14 DEF GoodCard, Open
<1>12. \A g \in Field \ Committed(KindOf[id], e.local) : e.local[g] = c.local[g]
  <2>1. {"subTable", "on"} \subseteq Committed(KindOf[id], e.local)
    BY <1>1, <1>10 DEF Committed, c
  <2> QED BY <1>9, <2>1
<1> QED BY <1>1, <1>6, <1>8, <1>10, <1>11, <1>12, <1>14, CommitFollows DEF c

LEMMA SubStepTypes ==
  ASSUME IInv, NEW id \in DOMAIN cards, NEW ss \in Nat, NEW pending \in BOOLEAN
  PROVE  /\ SubSteps(id, ss, pending) \in Editor
         /\ SubSteps(id, ss, pending).subTable = cards[id].editor.subTable
         /\ SubSteps(id, ss, pending).subSteps = ss
         /\ SubSteps(id, ss, pending).pending = pending
         /\ cards[id].editor.subSteps \in Nat /\ cards[id].editor.pending \in BOOLEAN
<1>1. cards[id].editor \in Editor
  BY IdFacts, CardFacts
<1> QED BY <1>1 DEF Editor, SubSteps

\* What is typed in the editor is on its way from it.
LEMMA SubTypeFollows ==
  ASSUME IInv, NEW id \in DOMAIN cards, EditorOpen(id), acts' \in Nat, acts + 1 \in Nat,
         cards' = [cards EXCEPT ![id] = Edits(cards[id], SubSteps(id, acts + 1, TRUE))],
         UNCHANGED <<table, storeVars, saved, used, open, gone>>
  PROVE  IInv' /\ StillFollow
<1> DEFINE c == cards[id]
           w == SubSteps(id, acts + 1, TRUE)
           e == Edits(c, w)
<1>1. /\ id \in Ids /\ GoodCard(id, c) /\ c \in Card
      /\ w \in Editor /\ w.subTable = c.editor.subTable /\ w.pending
  BY IdFacts, SubStepTypes DEF GoodCard
<1>2. KindOf[id] = "JOIN" /\ c.local["mode"] = Subpipeline
  BY DEF EditorOpen
<1>3. cards' = [cards EXCEPT ![id] = e] /\ cards[id] = c
  OBVIOUS
<1> HIDE DEF c, w
<1>4. e \in Card /\ e.timer = c.timer /\ e.local = c.local /\ e.editor = w
  BY <1>1, EditsFacts
<1> HIDE DEF e
<1>5. GoodCard(id, e)
  BY <1>1, <1>2, <1>4 DEF GoodCard, Open
<1>6. StoreInv' /\ IdsOf(steps)' = IdsOf(steps)
  BY DEF IInv, StoreInv, Known, storeVars
<1>7. IInv'
  BY <1>3, <1>5, <1>6, CardKeepsInv
<1>8. ASSUME NEW d \in DOMAIN cards, NEW g \in FieldsOf(KindOf[d]), InStep(d, g)
      PROVE  InStep(d, g)'
  <2>1. Stored(d, g)' = Stored(d, g)
    BY DEF Stored, storeVars
  <2>2. Agrees(d, cards[d], g, Stored(d, g))
    BY <1>8, InStepIs
  <2>3. CASE d # id
    BY <1>3, <2>1, <2>2, <2>3, InStepIs
  <2>4. CASE d = id
    <3>1. cards'[id] = e
      BY <1>3
    <3>2. Agrees(id, e, g, Stored(id, g))
      BY <1>1, <1>2, <1>3, <1>4, <2>2, <2>4 DEF Agrees, ShownBy, Open
    <3> QED BY <2>1, <2>4, <3>1, <3>2, InStepIs
  <2> QED BY <2>3, <2>4
<1> QED BY <1>3, <1>7, <1>8 DEF StillFollow

\* Adding or removing a sub-step, editing one, and the editor's timer.
LEMMA SubFollows ==
  ASSUME IInv, NEW id \in DOMAIN cards,
         AddOrRemoveSubStep(id) \/ EditSubStep(id) \/ SubTimerFires(id)
  PROVE  IInv' /\ StillFollow
<1>1. cards[id].editor.subSteps \in Nat /\ cards[id].editor.pending \in BOOLEAN /\ acts \in Nat
  BY SubStepTypes, ModeFacts DEF IInv, RestInv
<1>2. CASE AddOrRemoveSubStep(id)
  <2>1. acts' \in Nat /\ acts + 1 \in Nat /\ EditorOpen(id)
    BY <1>2, ActFacts DEF IInv, AddOrRemoveSubStep, EditorInUse
  <2> QED BY <1>1, <1>2, <2>1, EmitFollows DEF AddOrRemoveSubStep
<1>3. CASE EditSubStep(id)
  <2>1. acts' \in Nat /\ acts + 1 \in Nat /\ EditorOpen(id)
    BY <1>3, ActFacts DEF IInv, EditSubStep, EditorInUse
  <2>2. CASE EmitSubSteps(id, acts + 1, cards[id].editor.pending)
    BY <1>1, <2>1, <2>2, EmitFollows
  <2>3. CASE /\ cards' = [cards EXCEPT ![id] = Edits(cards[id], SubSteps(id, acts + 1, TRUE))]
             /\ UNCHANGED <<table, storeVars, saved, used, open, gone>>
    BY <2>1, <2>3, SubTypeFollows
  <2> QED BY <1>3, <2>2, <2>3 DEF EditSubStep
<1>4. CASE SubTimerFires(id)
  <2>1. acts' \in Nat /\ EditorOpen(id) /\ EmitSubSteps(id, cards[id].editor.subSteps, FALSE)
    BY <1>1, <1>4 DEF SubTimerFires
  <2> QED BY <1>1, <2>1, EmitFollows
<1> QED BY <1>2, <1>3, <1>4

\* Choosing a mode parts an open editor from its step only if its timer runs.
LEMMA ModeFollows ==
  ASSUME IInv, NEW id \in DOMAIN cards, NEW m \in JoinMode, SetJoinMode(id, m)
  PROVE  /\ IInv'
         /\ DOMAIN cards' = DOMAIN cards
         /\ \A d \in DOMAIN cards : \A f \in FieldsOf(KindOf[d]) :
              InStep(d, f) => InStep(d, f)' \/ LeavesTheEditor(d, f)
<1> DEFINE b == cards[id]
           c == Shows(b, "mode", m)
           e == IF m = b.local["mode"] THEN c ELSE Edits(c, EditorOf(c.local))
           changes == [f \in {"mode"} |-> m]
<1>1. /\ id \in Ids /\ GoodCard(id, b) /\ b \in Card /\ id \in IdsOf(steps)
      /\ m \in Nat /\ "mode" \in Field /\ acts' \in Nat
  BY IdFacts, ModeFacts, FieldFacts, ActFacts DEF GoodCard, IInv, SetJoinMode
<1>2. /\ cards' = [cards EXCEPT ![id] = e] /\ Update(Place(steps, id), changes)
      /\ UNCHANGED <<table, saved, used, open, gone>> /\ KindOf[id] = "JOIN" /\ cards[id] = b
  BY DEF SetJoinMode
<1> HIDE DEF b
<1>3. /\ c \in Card /\ c.timer = b.timer /\ c.editor = b.editor /\ c.local["mode"] = m
      /\ \A g \in Field \ {"mode"} : c.local[g] = b.local[g]
  BY <1>1, ShowsFacts
<1> HIDE DEF c
<1>4. /\ c.local["subTable"] = b.local["subTable"] /\ c.local["subSteps"] = b.local["subSteps"]
      /\ c.local \in Fields
  <2>1. c.local \in Fields
    BY <1>3 DEF Card
  <2> QED BY <1>3, <2>1, FieldFacts
<1>5. e \in Card /\ e.timer = b.timer /\ e.local = c.local
  BY <1>3, <1>4, EditorFacts, EditsFacts
<1>6. Open(id, e) => \/ m = b.local["mode"] /\ e.editor = b.editor
                     \/ /\ e.editor.subTable = c.local["subTable"]
                        /\ e.editor.subSteps = c.local["subSteps"]
  <2>1. CASE m = b.local["mode"]
    BY <1>3, <2>1
  <2>2. CASE m # b.local["mode"]
    <3>1. e.editor = EditorOf(c.local)
      BY <1>3, <1>4, <2>2, EditorFacts, EditsFacts
    <3>2. c.local["mode"] = Subpipeline
            => /\ EditorOf(c.local).subTable = c.local["subTable"]
               /\ EditorOf(c.local).subSteps = c.local["subSteps"]
      BY <1>4, EditorFacts
    <3> QED BY <1>5, <3>1, <3>2 DEF Open
  <2> QED BY <2>1, <2>2
<1> HIDE DEF e
<1>7. GoodCard(id, e)
  <2>1. \A f \in Field : e.timer[f] # Untyped => f \in TypedFields(KindOf[id])
    BY <1>1, <1>5 DEF GoodCard
  <2>2. ASSUME Open(id, e)
        PROVE  /\ e.editor.subTable = e.local["subTable"]
               /\ e.editor.subSteps = e.local["subSteps"] \/ e.editor.pending
    <3>1. CASE m = b.local["mode"] /\ e.editor = b.editor
      <4>1. Open(id, b)
        BY <1>3, <1>5, <2>2, <3>1 DEF Open
      <4> QED BY <1>1, <1>4, <1>5, <3>1, <4>1 DEF GoodCard
    <3> QED BY <1>5, <1>6, <2>2, <3>1
  <2> QED BY <1>5, <2>1, <2>2 DEF GoodCard
<1>8. Partial(changes) /\ DOMAIN changes = {"mode"} /\ changes["mode"] = m
  BY <1>1 DEF Partial
<1> HIDE DEF changes
<1>9. /\ StoreInv' /\ IdsOf(steps)' = IdsOf(steps)
      /\ \A d \in IdsOf(steps) : \A f \in Field :
           Stored(d, f)' = IF Place(steps, d) = Place(steps, id) /\ f \in DOMAIN changes
                           THEN changes[f] ELSE Stored(d, f)
  BY <1>2, <1>8, UpdateFacts DEF IInv
<1>10. IInv'
  BY <1>1, <1>2, <1>7, <1>9, CardKeepsInv
<1>11. ASSUME NEW d \in DOMAIN cards, NEW f \in FieldsOf(KindOf[d]), InStep(d, f)
       PROVE  InStep(d, f)' \/ LeavesTheEditor(d, f)
  <2>1. d \in IdsOf(steps) /\ KindOf[d] \in Kind /\ f \in Field
    BY IdFacts, CardFacts, FieldFacts
  <2>2. Agrees(d, cards[d], f, Stored(d, f))
    BY <1>11, InStepIs
  <2>3. CASE d # id
    <3>1. cards'[d] = cards[d] /\ Stored(d, f)' = Stored(d, f)
      BY <1>2, <1>9, <2>1, <2>3, IdFacts
    <3> QED BY <2>2, <3>1, InStepIs
  <2>4. CASE d = id /\ f = "mode"
    <3>1. Stored(id, "mode")' = m
      BY <1>1, <1>8, <1>9, <2>1, <2>4
    <3>2. cards'[id] = e /\ Agrees(id, e, "mode", m)
      BY <1>2, <1>3, <1>5 DEF Agrees, ShownBy
    <3> QED BY <2>4, <3>1, <3>2, InStepIs
  <2>5. CASE d = id /\ f # "mode" /\ ~(f = "subSteps" /\ Open(id, b) /\ b.editor.pending)
    <3>1. Stored(id, f)' = Stored(id, f) /\ cards'[id] = e
      BY <1>2, <1>8, <1>9, <2>1, <2>5
    <3>2. e.local[f] = b.local[f]
      BY <1>3, <1>5, <2>1, <2>5
    <3>3. Agrees(id, b, f, Stored(id, f)) /\ ShownBy(id, b, f) = b.local[f]
      BY <1>1, <1>2, <2>2, <2>5 DEF ShownBy, GoodCard
    <3>4. CASE ShownBy(id, e, f) = e.local[f]
      <4>1. Agrees(id, e, f, Stored(id, f))
        BY <1>5, <2>5, <3>2, <3>3, <3>4 DEF Agrees
      <4> QED BY <2>5, <3>1, <4>1, InStepIs
    <3>5. CASE ShownBy(id, e, f) # e.local[f]
      <4>1. Open(id, e) /\ f \in {"subTable", "subSteps"} /\ e.editor[f] # e.local[f]
        BY <3>5 DEF ShownBy
      <4>2. f = "subSteps" /\ e.editor.pending
        BY <1>7, <4>1 DEF GoodCard
      <4>3. Agrees(id, e, f, Stored(id, f))
        BY <4>1, <4>2 DEF Agrees
      <4> QED BY <2>5, <3>1, <4>3, InStepIs
    <3> QED BY <3>4, <3>5
  <2>6. CASE d = id /\ f = "subSteps" /\ Open(id, b) /\ b.editor.pending
    BY <1>2, <2>6 DEF LeavesTheEditor
  <2> QED BY <2>3, <2>4, <2>5, <2>6
<1> QED BY <1>2, <1>10, <1>11

\* A timer that fires parts a field from its step only if it was clicked after the text
\* that is written was typed.
LEMMA TimerFollows ==
  ASSUME IInv, NEW id \in DOMAIN cards, TimerFires(id)
  PROVE  /\ IInv'
         /\ DOMAIN cards' = DOMAIN cards
         /\ \A d \in DOMAIN cards : \A f \in FieldsOf(KindOf[d]) :
              InStep(d, f) => InStep(d, f)' \/ Overtakes(d, f)
<1> DEFINE c == cards[id]
           e == Rests(c)
           changes == TimerWrites(KindOf[id], c.local, c.timer)
<1>1. /\ id \in Ids /\ GoodCard(id, c) /\ c \in Card /\ id \in IdsOf(steps) /\ acts' \in Nat
      /\ cards' = [cards EXCEPT ![id] = e] /\ Update(Place(steps, id), changes)
      /\ UNCHANGED <<table, saved, used, open, gone>> /\ cards[id] = c
  BY IdFacts DEF GoodCard, IInv, RestInv, TimerFires
<1>2. KindOf[id] \in Kind /\ c.local \in Fields /\ c.timer \in Timer
  BY <1>1, CardFacts
<1>3. Partial(changes) /\ DOMAIN changes = Committed(KindOf[id], c.local)
  BY <1>2, ChangesArePartial
<1>4. \A f \in DOMAIN changes :
        changes[f] = IF KindOf[id] # "JOIN" /\ c.timer[f] # Untyped THEN c.timer[f] ELSE c.local[f]
  BY <1>3 DEF TimerWrites
<1> HIDE DEF c, changes
<1>5. e \in Card /\ e.timer = NoTimer /\ e.local = c.local /\ e.editor = c.editor
  BY <1>1, RestsFacts
<1> HIDE DEF e
<1>6. GoodCard(id, e)
  <2>1. \A f \in Field : e.timer[f] = Untyped
    BY <1>5 DEF NoTimer
  <2> QED BY <1>1, <1>5, <2>1 DEF GoodCard, Open
<1>7. /\ StoreInv' /\ IdsOf(steps)' = IdsOf(steps)
      /\ \A d \in IdsOf(steps) : \A f \in Field :
           Stored(d, f)' = IF Place(steps, d) = Place(steps, id) /\ f \in DOMAIN changes
                           THEN changes[f] ELSE Stored(d, f)
  BY <1>1, <1>3, UpdateFacts DEF IInv
<1>8. IInv'
  BY <1>1, <1>6, <1>7, CardKeepsInv
<1>9. ASSUME NEW d \in DOMAIN cards, NEW f \in FieldsOf(KindOf[d]), InStep(d, f)
      PROVE  InStep(d, f)' \/ Overtakes(d, f)
  <2>1. d \in IdsOf(steps) /\ KindOf[d] \in Kind /\ f \in Field
    BY IdFacts, CardFacts, FieldFacts
  <2>2. Agrees(d, cards[d], f, Stored(d, f))
    BY <1>9, InStepIs
  <2>3. CASE d # id
    <3>1. cards'[d] = cards[d] /\ Stored(d, f)' = Stored(d, f)
      BY <1>1, <1>7, <2>1, <2>3, IdFacts
    <3> QED BY <2>2, <3>1, InStepIs
  <2>4. CASE d = id
    <3>1. cards'[id] = e
      BY <1>1
    <3>2. ASSUME f \in DOMAIN changes, changes[f] = c.local[f] PROVE InStep(d, f)'
      <4>1. Stored(id, f)' = c.local[f]
        BY <1>7, <2>1, <2>4, <3>2
      <4>2. Agrees(id, e, f, c.local[f])
        BY <1>5, <1>6 DEF Agrees, ShownBy, GoodCard
      <4> QED BY <2>4, <3>1, <4>1, <4>2, InStepIs
    <3>3. CASE f \in DOMAIN changes /\ changes[f] # c.local[f]
      BY <1>1, <1>4, <2>4, <3>3 DEF Overtakes
    <3>4. CASE f \notin DOMAIN changes
      <4>1. Stored(id, f)' = Stored(id, f)
        BY <1>7, <2>1, <2>4, <3>4
      <4>2. KindOf[id] = "JOIN" /\ f \notin {"alias", "on"}
        BY <1>2, <1>3, <2>1, <2>4, <3>4, CommittedFacts
      <4>3. c.timer[f] = Untyped
        BY <1>1, <2>1, <4>2, FieldFacts DEF GoodCard
      <4>4. Agrees(id, e, f, Stored(id, f))
        BY <1>1, <1>5, <2>2, <2>4, <4>3 DEF Agrees, ShownBy, Open
      <4> QED BY <2>4, <3>1, <4>1, <4>4, InStepIs
    <3> QED BY <3>2, <3>3, <3>4
  <2> QED BY <2>3, <2>4
<1> QED BY <1>1, <1>8, <1>9

\* The timer of a card that is gone writes to the step that has the index it had.
LEMMA GoneTimerKeepsInv ==
  ASSUME IInv, NEW g \in gone, GoneTimerFires(g)
  PROVE  IInv'
<1> DEFINE changes == TimerWrites(KindOf[g.id], g.local, g.timer)
<1>1. /\ gone' = gone \ {g} /\ Update(g.index, changes)
      /\ UNCHANGED <<table, saved, used, open, cards, acts>>
  BY DEF GoneTimerFires
<1>2. g.id \in Ids /\ g.local \in Fields /\ g.timer \in Timer
  BY DEF IInv, RestInv, GoneCard
<1>3. Partial(changes)
  <2>1. KindOf[g.id] \in Kind
    BY <1>2, StepCardsAssumption DEF StepCardsAssumption
  <2> QED BY <1>2, <2>1, ChangesArePartial
<1> HIDE DEF changes
<1>4. StoreInv' /\ IdsOf(steps)' = IdsOf(steps)
  BY <1>1, <1>3, UpdateFacts DEF IInv
<1>5. RestInv'
  BY <1>1 DEF IInv, RestInv, Known
<1>6. CardsInv'
  BY <1>1, <1>4 DEF IInv, CardsInv, GoodCard, Open
<1> QED BY <1>4, <1>5, <1>6 DEF IInv

(***************************************************************************)
(* The steps of the builder                                                *)
(***************************************************************************)
\* Steps that move, go or come with an id of their own take nothing from the cards.
LEMMA SameStepsFollow ==
  ASSUME IInv, steps' \in Pipeline,
         \A k \in DOMAIN steps' : \/ \E j \in DOMAIN steps : steps'[k] = steps[j]
                                  \/ steps'[k].id \notin IdsOf(steps),
         DOMAIN cards' \subseteq IdsOf(steps'),
         \A d \in DOMAIN cards \cap DOMAIN cards' : cards'[d] = cards[d],
         \A d \in DOMAIN cards' \ DOMAIN cards : \A f : InStep(d, f)'
  PROVE  StillFollow
<1>1. ASSUME NEW d \in DOMAIN cards \cap DOMAIN cards', NEW f \in FieldsOf(KindOf[d]), InStep(d, f)
      PROVE  InStep(d, f)'
  <2> DEFINE k == Place(steps', d)
  <2>1. steps \in Pipeline /\ d \in IdsOf(steps)
    BY IdFacts DEF IInv, StoreInv
  <2>2. k \in DOMAIN steps' /\ steps'[k].id = d
    BY PlaceFacts
  <2> HIDE DEF k
  <2>3. PICK j \in DOMAIN steps : steps'[k] = steps[j]
    BY <2>1, <2>2
  <2>4. Place(steps, d) = j
    BY <2>1, <2>2, <2>3, PlaceFacts
  <2>5. Stored(d, f)' = Stored(d, f)
    BY <2>3, <2>4 DEF Stored, k
  <2> QED BY <1>1, <2>5, InStepIs
<1> QED BY <1>1 DEF StillFollow

LEMMA RemoveFacts ==
  ASSUME NEW ss \in Pipeline, NEW p \in DOMAIN ss
  PROVE  /\ RemoveAt(ss, p) \in Pipeline
         /\ \A k \in DOMAIN RemoveAt(ss, p) : \E j \in DOMAIN ss : RemoveAt(ss, p)[k] = ss[j]
         /\ IdsOf(RemoveAt(ss, p)) \subseteq IdsOf(ss)
<1> DEFINE rr == RemoveAt(ss, p)
           J(k) == IF k < p THEN k ELSE k + 1
<1>1. ss \in Seq(Step) /\ DistinctIds(ss) /\ p \in 1 .. Len(ss) /\ Len(ss) \in Nat
  BY DEF Pipeline
<1>2. rr = SubSeq(ss, 1, p - 1) \o SubSeq(ss, p + 1, Len(ss))
  BY DEF RemoveAt
<1> HIDE DEF rr
<1>3. /\ rr \in Seq(Step) /\ Len(rr) = Len(ss) - 1
      /\ \A k \in 1 .. Len(rr) : rr[k] = ss[J(k)]
  <2> DEFINE u == SubSeq(ss, 1, p - 1)
             v == SubSeq(ss, p + 1, Len(ss))
  <2>1. p \in Nat /\ p >= 1 /\ p <= Len(ss) /\ \A k \in 1 .. Len(ss) : ss[k] \in Step
    BY <1>1
  <2>2. u \in Seq(Step) /\ Len(u) = p - 1 /\ \A k \in 1 .. p - 1 : u[k] = ss[k]
    <3>1. \A k \in 1 .. p - 1 : ss[k] \in Step
      BY <1>1, <2>1
    <3>2. /\ u \in Seq(Step) /\ Len(u) = IF 1 <= p - 1 THEN (p - 1) - 1 + 1 ELSE 0
          /\ \A k \in 1 .. (p - 1) - 1 + 1 : u[k] = ss[1 + k - 1]
      BY <2>1, <3>1, SubSeqProperties
    <3> HIDE DEF u
    <3> QED BY <2>1, <3>2
  <2>3. v \in Seq(Step) /\ Len(v) = Len(ss) - p /\ \A k \in 1 .. Len(ss) - p : v[k] = ss[p + k]
    <3>1. \A k \in p + 1 .. Len(ss) : ss[k] \in Step
      BY <1>1, <2>1
    <3>2. /\ v \in Seq(Step)
          /\ Len(v) = IF p + 1 <= Len(ss) THEN Len(ss) - (p + 1) + 1 ELSE 0
          /\ \A k \in 1 .. Len(ss) - (p + 1) + 1 : v[k] = ss[(p + 1) + k - 1]
      BY <1>1, <2>1, <3>1, SubSeqProperties
    <3> HIDE DEF v
    <3> QED BY <1>1, <2>1, <3>2
  <2> HIDE DEF u, v
  <2>4. /\ rr \in Seq(Step) /\ Len(rr) = Len(u) + Len(v)
        /\ \A k \in 1 .. Len(u) + Len(v) : rr[k] = IF k <= Len(u) THEN u[k] ELSE v[k - Len(u)]
    BY <1>2, <2>2, <2>3, ConcatProperties DEF u, v
  <2>5. \A k \in 1 .. Len(ss) - 1 : rr[k] = ss[J(k)]
    <3> TAKE k \in 1 .. Len(ss) - 1
    <3>1. CASE k < p
      <4>1. k \in 1 .. p - 1 /\ k \in 1 .. Len(u) + Len(v) /\ k <= Len(u)
        BY <1>1, <2>1, <2>2, <2>3, <3>1
      <4> QED BY <2>2, <2>4, <3>1, <4>1
    <3>2. CASE ~(k < p)
      <4>1. k - (p - 1) \in 1 .. Len(ss) - p /\ p + (k - (p - 1)) = k + 1
        BY <1>1, <2>1, <3>2
      <4>2. k \in 1 .. Len(u) + Len(v) /\ ~(k <= Len(u)) /\ Len(u) = p - 1
        BY <1>1, <2>1, <2>2, <2>3, <3>2
      <4>3. rr[k] = v[k - (p - 1)]
        BY <2>4, <4>2
      <4> QED BY <2>3, <3>2, <4>1, <4>3
    <3> QED BY <3>1, <3>2
  <2>6. Len(rr) = Len(ss) - 1
    BY <1>1, <2>1, <2>2, <2>3, <2>4
  <2> HIDE DEF J
  <2> QED BY <2>4, <2>5, <2>6
<1>4. \A k \in DOMAIN rr : J(k) \in DOMAIN ss /\ rr[k] = ss[J(k)]
  BY <1>1, <1>3
<1>5. \A i, j \in DOMAIN rr : J(i) = J(j) => i = j
  BY <1>1, <1>3
<1> HIDE DEF J
<1>6. DistinctIds(rr) /\ IdsOf(rr) \subseteq IdsOf(ss)
  BY <1>1, <1>4, <1>5 DEF DistinctIds, IdsOf
<1> QED BY <1>3, <1>4, <1>6 DEF Pipeline, rr

LEMMA RemoveFollows ==
  ASSUME IInv, NEW id \in DOMAIN cards, RemoveStep(id)
  PROVE  IInv' /\ StillFollow
<1>1. /\ steps' = RemoveAt(steps, Place(steps, id)) /\ Record /\ Render(steps') /\ acts' \in Nat
      /\ open' = TRUE /\ UNCHANGED <<table, saved, used>>
  BY ActFacts, IdFacts DEF IInv, RemoveStep
<1>2. steps \in Pipeline /\ Place(steps, id) \in DOMAIN steps /\ IdsOf(steps) \subseteq used
  BY IdFacts DEF IInv, StoreInv, Known
<1>3. /\ steps' \in Pipeline
      /\ \A k \in DOMAIN steps' : \E j \in DOMAIN steps : steps'[k] = steps[j]
      /\ IdsOf(steps') \subseteq used
  BY <1>1, <1>2, RemoveFacts
<1>4. /\ past' \in Seq(Pipeline) /\ \A k \in DOMAIN past' : IdsOf(past'[k]) \subseteq used'
      /\ future' \in Seq(Pipeline) /\ \A k \in DOMAIN future' : IdsOf(future'[k]) \subseteq used'
  BY <1>1, RecordFacts DEF IInv
<1>5. IInv'
  BY <1>1, <1>3, <1>4, ReplaceKeepsInv DEF IInv, RestInv
<1>6. /\ DOMAIN cards' = IdsOf(steps')
      /\ \A d \in DOMAIN cards \cap DOMAIN cards' : cards'[d] = cards[d]
      /\ \A d \in DOMAIN cards' \ DOMAIN cards : \A f : InStep(d, f)'
  BY <1>1, <1>3, RenderFacts, NewCardsFollow DEF IInv
<1> QED BY <1>3, <1>5, <1>6, SameStepsFollow

LEMMA AddFollows ==
  ASSUME IInv, open = TRUE, NEW id \in Ids \ used, AddStep(id)
  PROVE  IInv' /\ StillFollow
<1> DEFINE s == [id |-> id, at |-> Empty]
<1>1. /\ steps' = Append(steps, s) /\ Record /\ Render(steps') /\ acts' \in Nat
      /\ used' = used \cup {id} /\ open' = TRUE /\ UNCHANGED <<table, saved>>
  BY ActFacts DEF IInv, AddStep
<1>2. /\ steps \in Seq(Step) /\ DistinctIds(steps) /\ IdsOf(steps) \subseteq used /\ used \subseteq Ids
      /\ id \notin IdsOf(steps)
  BY DEF IInv, StoreInv, RestInv, Known, Pipeline
<1>3. s \in Step /\ s.id = id
  BY FieldFacts DEF Step
<1> HIDE DEF s
<1>4. /\ steps' \in Seq(Step) /\ Len(steps') = Len(steps) + 1
      /\ \A k \in 1 .. Len(steps) : steps'[k] = steps[k]
      /\ steps'[Len(steps) + 1] = s
  BY <1>1, <1>2, <1>3
<1>5. \A k \in DOMAIN steps' : \/ k \in DOMAIN steps /\ steps'[k] = steps[k]
                               \/ k = Len(steps) + 1 /\ steps'[k] = s
  BY <1>2, <1>4
<1>6. DistinctIds(steps')
  <2> SUFFICES ASSUME NEW i \in DOMAIN steps', NEW j \in DOMAIN steps', steps'[i].id = steps'[j].id
               PROVE  i = j
    BY DEF DistinctIds
  <2> QED BY <1>2, <1>3, <1>5 DEF DistinctIds, IdsOf
<1>7. IdsOf(steps') \subseteq used \cup {id}
  BY <1>2, <1>3, <1>5 DEF IdsOf
<1>8. steps' \in Pipeline
  BY <1>4, <1>6 DEF Pipeline
<1>9. /\ past' \in Seq(Pipeline) /\ \A k \in DOMAIN past' : IdsOf(past'[k]) \subseteq used'
      /\ future' \in Seq(Pipeline) /\ \A k \in DOMAIN future' : IdsOf(future'[k]) \subseteq used'
  BY <1>1, RecordFacts DEF IInv
<1>10. used \subseteq used' /\ used' \subseteq Ids /\ IdsOf(steps') \subseteq used'
  BY <1>1, <1>2, <1>7
<1>11. IInv'
  BY <1>1, <1>8, <1>9, <1>10, ReplaceKeepsInv DEF IInv, RestInv
<1>12. /\ DOMAIN cards' = IdsOf(steps')
       /\ \A d \in DOMAIN cards \cap DOMAIN cards' : cards'[d] = cards[d]
       /\ \A d \in DOMAIN cards' \ DOMAIN cards : \A f : InStep(d, f)'
  BY <1>1, <1>8, RenderFacts, NewCardsFollow DEF IInv
<1>13. \A k \in DOMAIN steps' : \/ \E j \in DOMAIN steps : steps'[k] = steps[j]
                                \/ steps'[k].id \notin IdsOf(steps)
  BY <1>2, <1>3, <1>5
<1> QED BY <1>8, <1>11, <1>12, <1>13, SameStepsFollow

\* Reordering is a permutation of the places.
LEMMA PlaceBeforeFacts ==
  ASSUME NEW n \in Nat, NEW from \in 1 .. n, NEW to \in 1 .. n
  PROVE  /\ \A k \in 1 .. n : PlaceBefore(k, from, to) \in 1 .. n
         /\ \A k \in 1 .. n : PlaceBefore(PlaceBefore(k, to, from), from, to) = k
         /\ \A j, k \in 1 .. n : PlaceBefore(j, from, to) = PlaceBefore(k, from, to) => j = k
<1>1. \A a, b, k \in 1 .. n :
        /\ k = b => PlaceBefore(k, a, b) = a
        /\ k # b /\ a <= k /\ k < b => PlaceBefore(k, a, b) = k + 1
        /\ k # b /\ b < k /\ k <= a => PlaceBefore(k, a, b) = k - 1
        /\ k # b /\ (k < a \/ b < k) /\ (k < b \/ a < k) => PlaceBefore(k, a, b) = k
  BY DEF PlaceBefore
<1>2. \A k \in 1 .. n : PlaceBefore(k, from, to) \in 1 .. n /\ PlaceBefore(k, to, from) \in 1 .. n
  BY <1>1
<1>3. ASSUME NEW k \in 1 .. n PROVE PlaceBefore(PlaceBefore(k, to, from), from, to) = k
  <2> DEFINE j == PlaceBefore(k, to, from)
  <2>1. /\ k = from => j = to
        /\ k # from /\ to <= k /\ k < from => j = k + 1
        /\ k # from /\ from < k /\ k <= to => j = k - 1
        /\ k # from /\ (k < to \/ from < k) /\ (k < from \/ to < k) => j = k
        /\ j \in 1 .. n
    BY <1>1, <1>2
  <2> HIDE DEF j
  <2>2. /\ j = to => PlaceBefore(j, from, to) = from
        /\ j # to /\ from <= j /\ j < to => PlaceBefore(j, from, to) = j + 1
        /\ j # to /\ to < j /\ j <= from => PlaceBefore(j, from, to) = j - 1
        /\ j # to /\ (j < from \/ to < j) /\ (j < to \/ from < j) => PlaceBefore(j, from, to) = j
    BY <1>1, <2>1
  <2>3. PlaceBefore(j, from, to) = k
    BY <2>1, <2>2
  <2> QED BY <2>3 DEF j
<1>4. ASSUME NEW j \in 1 .. n, NEW k \in 1 .. n, PlaceBefore(j, from, to) = PlaceBefore(k, from, to)
      PROVE  j = k
  <2>1. /\ j = to => PlaceBefore(j, from, to) = from
        /\ j # to /\ from <= j /\ j < to => PlaceBefore(j, from, to) = j + 1
        /\ j # to /\ to < j /\ j <= from => PlaceBefore(j, from, to) = j - 1
        /\ j # to /\ (j < from \/ to < j) /\ (j < to \/ from < j) => PlaceBefore(j, from, to) = j
    BY <1>1
  <2>2. /\ k = to => PlaceBefore(k, from, to) = from
        /\ k # to /\ from <= k /\ k < to => PlaceBefore(k, from, to) = k + 1
        /\ k # to /\ to < k /\ k <= from => PlaceBefore(k, from, to) = k - 1
        /\ k # to /\ (k < from \/ to < k) /\ (k < to \/ from < k) => PlaceBefore(k, from, to) = k
    BY <1>1
  <2> QED BY <1>4, <2>1, <2>2
<1> QED BY <1>2, <1>3, <1>4

LEMMA ReorderFollows ==
  ASSUME IInv, open = TRUE, NEW from \in DOMAIN steps, NEW to \in DOMAIN steps, ReorderSteps(from, to)
  PROVE  IInv' /\ StillFollow
<1> DEFINE n == Len(steps)
           was(k) == PlaceBefore(k, from, to)
<1>1. /\ steps' = [k \in DOMAIN steps |-> steps[was(k)]] /\ Record /\ acts' \in Nat
      /\ open' = TRUE /\ UNCHANGED <<table, saved, used, cards, gone>>
  BY ActFacts DEF IInv, ReorderSteps
<1>2. /\ steps \in Seq(Step) /\ DistinctIds(steps) /\ n \in Nat /\ DOMAIN steps = 1 .. n
      /\ \A k \in 1 .. n : steps[k] \in Step
  BY DEF IInv, StoreInv, Pipeline
<1>3. /\ \A k \in 1 .. n : was(k) \in 1 .. n
      /\ \A k \in 1 .. n : \E j \in 1 .. n : was(j) = k
      /\ \A j, k \in 1 .. n : was(j) = was(k) => j = k
  <2>1. \A k \in 1 .. n : PlaceBefore(k, to, from) \in 1 .. n
    BY <1>2, PlaceBeforeFacts
  <2> QED BY <1>2, <2>1, PlaceBeforeFacts
<1> HIDE DEF was
<1>4. DOMAIN steps' = 1 .. n /\ \A k \in 1 .. n : steps'[k] = steps[was(k)]
  BY <1>1, <1>2
<1>5. steps' \in Seq(Step)
  <2>1. steps' \in [1 .. n -> Step]
    BY <1>1, <1>2, <1>3
  <2> QED BY <1>2, <2>1
<1>6. DistinctIds(steps') /\ IdsOf(steps') = IdsOf(steps)
  <2>1. DistinctIds(steps')
    <3> SUFFICES ASSUME NEW i \in 1 .. n, NEW j \in 1 .. n, steps'[i].id = steps'[j].id
                 PROVE  i = j
      BY <1>4 DEF DistinctIds
    <3>1. was(i) \in DOMAIN steps /\ was(j) \in DOMAIN steps /\ steps[was(i)].id = steps[was(j)].id
      BY <1>2, <1>3, <1>4
    <3>2. was(i) = was(j)
      BY <1>2, <3>1 DEF DistinctIds
    <3> QED BY <1>3, <3>2
  <2>2. \A k \in DOMAIN steps' : steps'[k].id \in IdsOf(steps)
    <3> TAKE k \in DOMAIN steps'
    <3>1. was(k) \in DOMAIN steps /\ steps'[k] = steps[was(k)]
      BY <1>2, <1>3, <1>4
    <3> QED BY <3>1 DEF IdsOf
  <2>3. \A k \in DOMAIN steps : steps[k].id \in IdsOf(steps')
    <3> TAKE k \in DOMAIN steps
    <3>1. PICK j \in 1 .. n : was(j) = k
      BY <1>2, <1>3
    <3>2. j \in DOMAIN steps' /\ steps'[j] = steps[k]
      BY <1>4, <3>1
    <3> QED BY <3>2 DEF IdsOf
  <2>4. IdsOf(steps') \subseteq IdsOf(steps)
    BY <2>2 DEF IdsOf
  <2>5. IdsOf(steps) \subseteq IdsOf(steps')
    BY <2>3 DEF IdsOf
  <2> QED BY <2>1, <2>4, <2>5
<1>7. steps' \in Pipeline
  BY <1>5, <1>6 DEF Pipeline
<1>8. /\ past' \in Seq(Pipeline) /\ \A k \in DOMAIN past' : IdsOf(past'[k]) \subseteq used'
      /\ future' \in Seq(Pipeline) /\ \A k \in DOMAIN future' : IdsOf(future'[k]) \subseteq used'
  BY <1>1, RecordFacts DEF IInv
<1>9. StoreInv'
  BY <1>1, <1>6, <1>7, <1>8 DEF IInv, StoreInv, Known
<1>10. RestInv' /\ CardsInv'
  BY <1>1, <1>6 DEF IInv, RestInv, CardsInv, Known, GoodCard, Open
<1>11. StillFollow
  <2>1. /\ DOMAIN cards' = IdsOf(steps') /\ DOMAIN cards' = DOMAIN cards
        /\ \A d \in DOMAIN cards : cards'[d] = cards[d]
    BY <1>1, <1>6 DEF IInv, CardsInv
  <2>2. \A k \in DOMAIN steps' : \E j \in DOMAIN steps : steps'[k] = steps[j]
    BY <1>2, <1>3, <1>4
  <2> QED BY <1>7, <2>1, <2>2, SameStepsFollow
<1> QED BY <1>9, <1>10, <1>11 DEF IInv

\* Undo and redo show a state that was on show.
LEMMA UndoKeepsInv == ASSUME IInv, open = TRUE, Undo PROVE IInv'
<1>1. /\ past # <<>> /\ steps' = past[Len(past)] /\ past' = SubSeq(past, 1, Len(past) - 1)
      /\ future' = <<steps>> \o future
      /\ Render(steps') /\ acts' \in Nat /\ open' = TRUE
      /\ UNCHANGED <<table, saved, used>>
  BY ActFacts DEF IInv, Undo, Undoing!Undo
<1>2. /\ past \in Seq(Pipeline) /\ steps \in Pipeline /\ future \in Seq(Pipeline)
      /\ \A k \in DOMAIN past : IdsOf(past[k]) \subseteq used
      /\ IdsOf(steps) \subseteq used
      /\ \A k \in DOMAIN future : IdsOf(future[k]) \subseteq used
  BY DEF IInv, StoreInv, Known
<1>3. steps' \in Pipeline /\ IdsOf(steps') \subseteq used
  <2>1. Len(past) \in DOMAIN past
    BY <1>1, <1>2
  <2> QED BY <1>1, <1>2, <2>1
<1>4. past' \in Seq(Pipeline) /\ \A k \in DOMAIN past' : IdsOf(past'[k]) \subseteq used
  <2>1. Len(past) \in Nat /\ DOMAIN past = 1 .. Len(past)
    BY <1>2
  <2>2. /\ past' \in Seq(Pipeline) /\ DOMAIN past' = 1 .. Len(past) - 1
        /\ \A k \in 1 .. Len(past) - 1 : past'[k] = past[k]
    BY <1>1, <1>2, <2>1
  <2> QED BY <1>2, <2>1, <2>2
<1>5. future' \in Seq(Pipeline) /\ \A k \in DOMAIN future' : IdsOf(future'[k]) \subseteq used
  <2>1. <<steps>> \in Seq(Pipeline) /\ Len(<<steps>>) = 1 /\ <<steps>>[1] = steps
    BY <1>2
  <2>2. /\ future' \in Seq(Pipeline) /\ Len(future') = 1 + Len(future)
        /\ \A k \in 1 .. 1 + Len(future) :
             future'[k] = IF k <= 1 THEN <<steps>>[k] ELSE future[k - 1]
    BY <1>1, <1>2, <2>1, ConcatProperties
  <2>3. Len(future) \in Nat /\ DOMAIN future = 1 .. Len(future)
        /\ DOMAIN future' = 1 .. 1 + Len(future)
    BY <1>2, <2>2
  <2>4. ASSUME NEW k \in DOMAIN future' PROVE IdsOf(future'[k]) \subseteq used
    <3>1. CASE k = 1
      <4>1. future'[k] = steps
        BY <2>1, <2>2, <2>3, <3>1
      <4> QED BY <1>2, <4>1
    <3>2. CASE k # 1
      <4>1. k \in 1 .. 1 + Len(future) /\ ~(k <= 1) /\ k - 1 \in DOMAIN future
        BY <2>3, <3>2
      <4>2. future'[k] = future[k - 1]
        BY <2>2, <4>1
      <4> QED BY <1>2, <4>1, <4>2
    <3> QED BY <3>1, <3>2
  <2> QED BY <2>2, <2>4
<1> QED BY <1>1, <1>3, <1>4, <1>5, ReplaceKeepsInv DEF IInv, RestInv

LEMMA RedoKeepsInv == ASSUME IInv, open = TRUE, Redo PROVE IInv'
<1>1. /\ future # <<>> /\ steps' = Head(future) /\ past' = Append(past, steps)
      /\ future' = Tail(future)
      /\ Render(steps') /\ acts' \in Nat /\ open' = TRUE
      /\ UNCHANGED <<table, saved, used>>
  BY ActFacts DEF IInv, Redo, Undoing!Redo
<1>2. /\ past \in Seq(Pipeline) /\ steps \in Pipeline /\ future \in Seq(Pipeline)
      /\ \A k \in DOMAIN past : IdsOf(past[k]) \subseteq used
      /\ IdsOf(steps) \subseteq used
      /\ \A k \in DOMAIN future : IdsOf(future[k]) \subseteq used
  BY DEF IInv, StoreInv, Known
<1>3. steps' \in Pipeline /\ IdsOf(steps') \subseteq used
  <2>1. 1 \in DOMAIN future /\ Head(future) = future[1]
    BY <1>1, <1>2
  <2> QED BY <1>1, <1>2, <2>1
<1>4. past' \in Seq(Pipeline) /\ \A k \in DOMAIN past' : IdsOf(past'[k]) \subseteq used
  BY <1>1, <1>2
<1>5. future' \in Seq(Pipeline) /\ \A k \in DOMAIN future' : IdsOf(future'[k]) \subseteq used
  <2>1. /\ future' \in Seq(Pipeline)
        /\ \A k \in DOMAIN future' : k + 1 \in DOMAIN future /\ future'[k] = future[k + 1]
    BY <1>1, <1>2
  <2> QED BY <1>2, <2>1
<1> QED BY <1>1, <1>3, <1>4, <1>5, ReplaceKeepsInv DEF IInv, RestInv

\* A pipeline that is loaded starts a history of its own.
LEMMA StartKeepsInv ==
  ASSUME IInv, NEW ss \in Pipeline, IdsOf(ss) \subseteq used, Start(ss),
         acts' \in Nat, table' \in Tables, open' = TRUE, UNCHANGED <<saved, used>>
  PROVE  IInv'
<1>1. steps' = ss /\ past' = <<>> /\ future' = <<>> /\ Render(steps')
  BY DEF Start
<1>2. past' \in Seq(Pipeline) /\ future' \in Seq(Pipeline) /\ DOMAIN past' = {} /\ DOMAIN future' = {}
  BY <1>1
<1> QED BY <1>1, <1>2, ReplaceKeepsInv DEF IInv, RestInv

\* New steps are shown by new cards or by those they had.
LEMMA StartFollows ==
  ASSUME IInv, NEW ss \in Pipeline, Start(ss)
  PROVE  \A d \in DOMAIN cards' \ DOMAIN cards : \A f : InStep(d, f)'
<1>1. steps' \in Pipeline /\ Render(steps')
  BY DEF Start
<1> QED BY <1>1, NewCardsFollow DEF IInv

LEMMA SaveFollows ==
  ASSUME IInv, SaveQuery
  PROVE  IInv' /\ StillFollow
<1> DEFINE q == [table |-> table, steps |-> steps]
<1>1. /\ saved' = saved \cup {q} /\ acts' \in Nat
      /\ UNCHANGED <<table, storeVars, used, open, cards, gone>>
  BY ActFacts DEF IInv, SaveQuery
<1>2. q \in Query /\ Known(q.steps)
  BY DEF IInv, StoreInv, RestInv, Query
<1>3. RestInv'
  <2>1. \A p \in saved' : p \in Query /\ Known(p.steps)'
    BY <1>1, <1>2 DEF IInv, RestInv, Known
  <2> QED BY <1>1, <2>1 DEF IInv, RestInv
<1>4. StoreInv' /\ CardsInv'
  BY <1>1 DEF IInv, StoreInv, CardsInv, Known, storeVars, GoodCard, Open
<1>5. StillFollow
  BY <1>1, InStepIs DEF StillFollow, Stored, storeVars
<1> QED BY <1>3, <1>4, <1>5 DEF IInv

\* The builder goes with its cards.
LEMMA LeaveFollows ==
  ASSUME IInv, LeaveBuilder
  PROVE  IInv' /\ StillFollow
<1>1. /\ open' = FALSE /\ Render(<<>>) /\ acts' \in Nat
      /\ UNCHANGED <<table, storeVars, saved, used>>
  BY ActFacts DEF IInv, LeaveBuilder
<1>2. <<>> \in Pipeline /\ IdsOf(<<>>) = {}
  BY DEF Pipeline, DistinctIds, IdsOf
<1>3. DOMAIN cards' = {} /\ \A g \in gone' : g \in GoneCard
  BY <1>1, <1>2, RenderFacts DEF IInv
<1>4. StoreInv' /\ RestInv'
  BY <1>1, <1>3 DEF IInv, StoreInv, RestInv, Known, storeVars
<1>5. CardsInv' /\ StillFollow
  BY <1>1, <1>3 DEF CardsInv, StillFollow
<1> QED BY <1>4, <1>5 DEF IInv

\* The builder comes back with new cards.
LEMMA ShowFollows ==
  ASSUME IInv, ShowBuilder
  PROVE  IInv' /\ StillFollow
<1>1. /\ ~open /\ open' = TRUE /\ Render(steps') /\ acts' \in Nat
      /\ UNCHANGED <<table, storeVars, saved, used>>
  BY ActFacts DEF IInv, ShowBuilder, storeVars
<1>2. /\ past' = past /\ steps' = steps /\ future' = future
      /\ steps \in Pipeline /\ past \in Seq(Pipeline) /\ future \in Seq(Pipeline)
      /\ IdsOf(steps) \subseteq used
      /\ \A k \in DOMAIN past : IdsOf(past[k]) \subseteq used
      /\ \A k \in DOMAIN future : IdsOf(future[k]) \subseteq used
  BY <1>1 DEF IInv, StoreInv, Known, storeVars
<1>3. IInv'
  BY <1>1, <1>2, ReplaceKeepsInv DEF IInv, RestInv
<1>4. DOMAIN cards = {}
  BY <1>1 DEF IInv, CardsInv
<1>5. \A d \in DOMAIN cards' \ DOMAIN cards : \A f : InStep(d, f)'
  BY <1>1, <1>2, NewCardsFollow DEF IInv
<1> QED BY <1>3, <1>4, <1>5 DEF StillFollow

(***************************************************************************)
(* The theorems                                                            *)
(***************************************************************************)
LEMMA InitKeepsInv == ASSUME Init PROVE IInv
<1>1. steps = <<>> /\ past = <<>> /\ future = <<>> /\ IdsOf(steps) = {}
  BY DEF Init, IdsOf
<1>2. steps \in Pipeline /\ past \in Seq(Pipeline) /\ future \in Seq(Pipeline)
  BY <1>1 DEF Pipeline, DistinctIds
<1>3. StoreInv
  BY <1>1, <1>2 DEF StoreInv, Known
<1>4. CardsInv
  BY <1>1 DEF Init, CardsInv
<1>5. RestInv
  <2>1. \A q \in saved : q \in Query
    BY StepCardsAssumption DEF StepCardsAssumption, Init
  <2>2. \A q \in saved : Known(q.steps)
    BY DEF Known, Init
  <2>3. used \subseteq Ids
    <3>1. ASSUME NEW q \in Query PROVE IdsOf(q.steps) \subseteq Ids
      <4>1. \A k \in DOMAIN q.steps : q.steps[k] \in Step
        BY DEF Query, Pipeline
      <4>2. \A k \in DOMAIN q.steps : q.steps[k].id \in Ids
        BY <4>1 DEF Step
      <4> QED BY <4>2 DEF IdsOf
    <3> QED BY <2>1, <3>1 DEF Init
  <2> QED BY <2>1, <2>2, <2>3 DEF RestInv, Init
<1> QED BY <1>3, <1>4, <1>5 DEF IInv

\* Where a card and its step may part.
MayPart(d, f) ==
  \/ Undo \/ Redo \/ \E q \in saved : LoadQuery(q)
  \/ \E g \in gone : GoneTimerFires(g)
  \/ Overtakes(d, f)
  \/ LeavesTheEditor(d, f)

FollowOrPart ==
  \A d \in DOMAIN cards' : \A f \in FieldsOf(KindOf[d]) :
    InStep(d, f)' \/ (d \in DOMAIN cards /\ (~InStep(d, f) \/ MayPart(d, f)))

\* A click, by type of step.
LEMMA ClicksFollow ==
  ASSUME IInv, NEW id \in DOMAIN cards,
         \/ InsertColumn(id) \/ ClickSelect(id) \/ ClickSort(id) \/ ClickGroupBy(id)
         \/ CycleJoinType(id) \/ InsertJoinColumn(id)
  PROVE  IInv' /\ StillFollow
<1> DEFINE Clicked == {"expression", "columns", "groupBy", "aggregations", "joinType", "on"}
<1>1. PICK f \in Clicked : /\ Click(id, f)
                           /\ f \in FieldsOf(KindOf[id])
                           /\ KindOf[id] = "JOIN" => f \in {"joinType", "on"}
  <2>1. CASE InsertColumn(id)
    BY <2>1 DEF InsertColumn, FieldsOf
  <2>2. CASE ClickSelect(id)
    BY <2>2 DEF ClickSelect, FieldsOf
  <2>3. CASE ClickSort(id)
    BY <2>3 DEF ClickSort, FieldsOf
  <2>4. CASE ClickGroupBy(id)
    BY <2>4 DEF ClickGroupBy, FieldsOf
  <2>5. CASE CycleJoinType(id)
    BY <2>5 DEF CycleJoinType, FieldsOf
  <2>6. CASE InsertJoinColumn(id)
    BY <2>6 DEF InsertJoinColumn, FieldsOf
  <2> QED BY <2>1, <2>2, <2>3, <2>4, <2>5, <2>6
<1>2. KindOf[id] \in Kind
  BY IdFacts, CardFacts
<1>3. \A local \in Fields : f \in Committed(KindOf[id], local)
  BY <1>1, <1>2, CommittedFacts
<1>4. f \in Field /\ f \notin {"mode", "subTable", "subSteps"}
  BY <1>1, FieldFacts
<1> QED BY <1>1, <1>3, <1>4, ClickFollows

LEMMA TypingFollows ==
  ASSUME IInv, NEW id \in DOMAIN cards,
         \/ OnInput(id) \/ OnRawSqlInput(id) \/ OnLimitChange(id) \/ OnJoinInput(id)
         \/ OnSelectInput(id) \/ OnAggInput(id)
  PROVE  IInv' /\ StillFollow
<1>1. PICK f \in TypedFields(KindOf[id]) : Type(id, f)
  BY DEF OnInput, OnRawSqlInput, OnLimitChange, OnJoinInput, OnSelectInput, OnAggInput, TypedFields
<1> QED BY <1>1, TypeFollows

\* Every step keeps the invariant, and parts a card from its step in no other way.
LEMMA NextKeepsInv == ASSUME IInv, Next PROVE IInv' /\ FollowOrPart
<1>1. ASSUME NEW id \in DOMAIN cards, CardAct(id) PROVE IInv' /\ FollowOrPart
  <2>1. CASE \/ OnInput(id) \/ OnRawSqlInput(id) \/ OnLimitChange(id) \/ OnJoinInput(id)
             \/ OnSelectInput(id) \/ OnAggInput(id)
    BY <2>1, TypingFollows DEF StillFollow, FollowOrPart
  <2>2. CASE \/ InsertColumn(id) \/ ClickSelect(id) \/ ClickSort(id) \/ ClickGroupBy(id)
             \/ CycleJoinType(id) \/ InsertJoinColumn(id)
    BY <2>2, ClicksFollow DEF StillFollow, FollowOrPart
  <2>3. CASE OnJoinTableChange(id)
    BY <2>3, TableFollows DEF StillFollow, FollowOrPart
  <2>4. CASE \E m \in JoinMode : SetJoinMode(id, m)
    BY <2>4, ModeFollows DEF FollowOrPart, MayPart
  <2>5. CASE OnSubTableChange(id)
    BY <2>5, SubTableFollows DEF StillFollow, FollowOrPart
  <2>6. CASE AddOrRemoveSubStep(id) \/ EditSubStep(id) \/ SubTimerFires(id)
    BY <2>6, SubFollows DEF StillFollow, FollowOrPart
  <2>7. CASE TimerFires(id)
    BY <2>7, TimerFollows DEF FollowOrPart, MayPart
  <2>8. CASE RemoveStep(id)
    BY <2>8, RemoveFollows DEF StillFollow, FollowOrPart
  <2> QED BY <1>1, <2>1, <2>2, <2>3, <2>4, <2>5, <2>6, <2>7, <2>8 DEF CardAct
<1>2. ASSUME NEW g \in gone, GoneTimerFires(g) PROVE IInv' /\ FollowOrPart
  BY <1>2, GoneTimerKeepsInv DEF FollowOrPart, MayPart, GoneTimerFires
<1>10. open => open = TRUE
  BY DEF IInv, CardsInv
<1>3. CASE open /\ \E id \in Ids \ used : AddStep(id)
  BY <1>3, <1>10, AddFollows DEF StillFollow, FollowOrPart
<1>4. CASE open /\ \E i, j \in DOMAIN steps : ReorderSteps(i, j)
  BY <1>4, <1>10, ReorderFollows DEF StillFollow, FollowOrPart
<1>5. CASE open /\ (Undo \/ Redo)
  <2>1. IInv'
    BY <1>5, <1>10, UndoKeepsInv, RedoKeepsInv
  <2>2. Render(steps') /\ steps' \in Pipeline
    BY <1>5, <2>1 DEF Undo, Redo, IInv, StoreInv
  <2>3. \A d \in DOMAIN cards' \ DOMAIN cards : \A f : InStep(d, f)'
    BY <2>2, NewCardsFollow DEF IInv
  <2> QED BY <1>5, <2>1, <2>3 DEF FollowOrPart, MayPart
<1>6. CASE SaveQuery
  BY <1>6, SaveFollows DEF StillFollow, FollowOrPart
<1>7. ASSUME open, NEW q \in saved, LoadQuery(q) PROVE IInv' /\ FollowOrPart
  <2>1. q.steps \in Pipeline /\ IdsOf(q.steps) \subseteq used
    BY DEF IInv, RestInv, Query, Known
  <2>2. Start(q.steps) /\ acts' \in Nat /\ table' \in Tables /\ open' = TRUE
      /\ UNCHANGED <<saved, used>>
    BY <1>7, <1>10, ActFacts DEF IInv, RestInv, LoadQuery
  <2> QED BY <1>7, <2>1, <2>2, StartKeepsInv, StartFollows DEF FollowOrPart, MayPart
<1>8. ASSUME open, NEW t \in Tables, OpenTable(t) PROVE IInv' /\ FollowOrPart
  <2>1. <<>> \in Pipeline /\ IdsOf(<<>>) = {}
    BY DEF Pipeline, DistinctIds, IdsOf
  <2>2. Start(<<>>) /\ acts' \in Nat /\ table' \in Tables /\ open' = TRUE
      /\ UNCHANGED <<saved, used>>
    BY <1>8, <1>10, ActFacts DEF IInv, OpenTable
  <2>3. IInv'
    BY <2>1, <2>2, StartKeepsInv
  <2>4. DOMAIN cards' = {}
    BY <2>1, <2>2, RenderFacts DEF IInv, Start
  <2> QED BY <2>3, <2>4 DEF FollowOrPart
<1>9. CASE LeaveBuilder \/ ShowBuilder
  BY <1>9, LeaveFollows, ShowFollows DEF StillFollow, FollowOrPart
<1> QED BY <1>1, <1>2, <1>3, <1>4, <1>5, <1>6, <1>7, <1>8, <1>9 DEF Next, BuilderAct

LEMMA StutterKeepsInv == ASSUME IInv, UNCHANGED vars PROVE IInv'
  BY DEF IInv, StoreInv, RestInv, CardsInv, Known, GoodCard, Open, vars, storeVars

\* The inductive invariant.
THEOREM StepCardsInv == Spec => []IInv
<1>1. Init => IInv
  BY InitKeepsInv
<1>2. IInv /\ [Next]_vars => IInv'
  BY NextKeepsInv, StutterKeepsInv
<1> QED BY <1>1, <1>2, PTL DEF Spec

\* Every step on show has its own card, no two steps have the same id, and every part of
\* the builder has its type.
THEOREM StepCardsTypeOK == Spec => []TypeOK
<1>1. IInv => TypeOK
  BY DEF IInv, StoreInv, RestInv, CardsInv, GoodCard, TypeOK
<1> QED BY <1>1, StepCardsInv, PTL

\* What a new card shows of its step is in the step or on its way there, and stops being so
\* only by undo, redo, a saved query, the timer of a card that is gone, the timer of what
\* was typed before a click, or leaving the editor while its timer runs.
THEOREM CardsFollow == Spec => CardsFollowTheirSteps
<1> DEFINE Follow ==
      \A id \in DOMAIN cards' : \A f \in FieldsOf(KindOf[id]) :
         ~InStep(id, f)'
           => /\ id \in DOMAIN cards
              /\ \/ ~InStep(id, f)
                 \/ Undo \/ Redo \/ \E q \in saved : LoadQuery(q)
                 \/ \E g \in gone : GoneTimerFires(g)
                 \/ Overtakes(id, f)
                 \/ LeavesTheEditor(id, f)
<1>1. IInv /\ [Next]_vars => [Follow]_vars
  <2> SUFFICES ASSUME IInv, Next PROVE Follow
    OBVIOUS
  <2>1. FollowOrPart
    BY NextKeepsInv
  <2> QED BY <2>1 DEF FollowOrPart, MayPart
<1> QED BY <1>1, StepCardsInv, PTL DEF Spec, CardsFollowTheirSteps
=============================================================================
