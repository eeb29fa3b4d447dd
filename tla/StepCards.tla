------------------------------ MODULE StepCards ------------------------------
(***************************************************************************)
(* The cards of the pipeline builder (features/pipeline-builder): each     *)
(* step on show has one card, which copies the step when it is created and *)
(* never again.  What is typed goes to the copy at once and to the step    *)
(* 400 ms later, what is clicked goes to both at once.  The card of a JOIN *)
(* on a subpipeline holds an editor, with a copy and a timer of its own.   *)
(*                                                                         *)
(* Cards are tracked by the id of their step: they survive undo and redo,  *)
(* which replace the steps, and the timers of a card survive the card.     *)
(* Another tab of the workspace takes the builder away with its cards; the *)
(* pipeline stays.                                                         *)
(*                                                                         *)
(* PipelineStore appears through its abstract specification, UndoStack,    *)
(* which it implements.  Texts, columns and tables are numbers: whatever   *)
(* the user enters differs from all that was entered before, or is Blank.  *)
(* One action is one event with the rendering that follows it.             *)
(***************************************************************************)
EXTENDS Naturals, Sequences, SequencesExt

CONSTANTS
  Ids,          (* the ids of steps                                              *)
  KindOf,       (* the type of the step with an id, which never changes          *)
  Tables,       (* the tables the builder is opened for                          *)
  SavedQueries, (* the queries saved in earlier sessions, [table, steps]         *)
  Untyped,      (* not typed in                                                  *)
  HistoryCap,   (* undo states kept: 50 in the code                              *)
  MaxSteps,     (* bound on the steps of a pipeline the user adds to             *)
  MaxActs       (* bound on what the user does                                   *)

Kind == {"WHERE", "SELECT", "ORDER_BY", "GROUP_BY", "JOIN", "RAW_SQL"}

FieldsOf(kind) ==
  CASE kind = "WHERE"    -> {"expression"}
    [] kind = "SELECT"   -> {"columns"}
    [] kind = "ORDER_BY" -> {"columns", "limit"}
    [] kind = "GROUP_BY" -> {"groupBy", "aggregations"}
    [] kind = "RAW_SQL"  -> {"sql"}
    [] kind = "JOIN"     -> {"mode", "joinType", "table", "alias", "on", "subTable", "subSteps"}

\* The fields with a text box that starts a timer.
TypedFields(kind) ==
  CASE kind = "WHERE"    -> {"expression"}
    [] kind = "SELECT"   -> {"columns"}
    [] kind = "ORDER_BY" -> {"limit"}
    [] kind = "GROUP_BY" -> {"aggregations"}
    [] kind = "RAW_SQL"  -> {"sql"}
    [] kind = "JOIN"     -> {"alias", "on"}

Field == UNION {FieldsOf(kind) : kind \in Kind}

Blank == 0
Inline == 0
Branch == 1
Subpipeline == 2
JoinMode == {Inline, Branch, Subpipeline}

Fields == [Field -> Nat]
Empty  == [f \in Field |-> IF f = "mode" THEN Inline ELSE Blank]

Step == [id : Ids, at : Fields]

IdsOf(ss) == {ss[k].id : k \in DOMAIN ss}
DistinctIds(ss) == \A i, j \in DOMAIN ss : ss[i].id = ss[j].id => i = j

Pipeline == {ss \in Seq(Step) : DistinctIds(ss)}
Query == [table : Tables, steps : Pipeline]

ASSUME StepCardsAssumption ==
  /\ KindOf \in [Ids -> Kind]
  /\ Tables # {}
  /\ Untyped \notin Nat
  /\ \A q \in SavedQueries : q \in Query
  /\ HistoryCap \in Nat \ {0, 1}
  /\ MaxSteps \in Nat /\ MaxActs \in Nat

VARIABLES
  table,        (* the open table                                                *)
  past,         (* the undo states before the steps on show                      *)
  steps,        (* the pipeline                                                  *)
  future,       (* the undo states after them                                    *)
  saved,        (* the saved queries, [table, steps]                             *)
  used,         (* the ids steps were created with                               *)
  open,         (* whether the builder is on show, or another tab                *)
  cards,        (* the card of every step on show                                *)
  gone,         (* the cards that are gone and whose timer is not                *)
  acts          (* what the user did, and the newest number that was entered     *)

storeVars == <<past, steps, future>>
vars == <<table, storeVars, saved, used, open, cards, gone, acts>>

(***************************************************************************)
(* Cards                                                                   *)
(***************************************************************************)
Editor   == [subTable : Nat, subSteps : Nat, pending : BOOLEAN]
NoEditor == [subTable |-> Blank, subSteps |-> Blank, pending |-> FALSE]

\* `timer` holds what was typed in each field since it was started; no timer runs when
\* there is nothing.
Timer == [Field -> Nat \cup {Untyped}]
NoTimer == [f \in Field |-> Untyped]
Runs(timer) == timer # NoTimer

Card == [local : Fields, timer : Timer, editor : Editor]

EditorOf(local) ==
  IF local["mode"] = Subpipeline
  THEN [subTable |-> local["subTable"], subSteps |-> local["subSteps"], pending |-> FALSE]
  ELSE NoEditor

\* The card c when its field f shows v, has v typed in it, when its editor is e, and when
\* its timer is over.
Shows(c, f, v) == [local |-> [c.local EXCEPT ![f] = v], timer |-> c.timer, editor |-> c.editor]
Waits(c, f, v) == [local |-> [c.local EXCEPT ![f] = v], timer |-> [c.timer EXCEPT ![f] = v],
                   editor |-> c.editor]
Edits(c, e)    == [local |-> c.local, timer |-> c.timer, editor |-> e]
Rests(c)       == [local |-> c.local, timer |-> NoTimer, editor |-> c.editor]

NewCard(s) == [local |-> s.at, timer |-> NoTimer, editor |-> EditorOf(s.at)]

EditorOpen(id) == KindOf[id] = "JOIN" /\ cards[id].local["mode"] = Subpipeline

Place(ss, id) == CHOOSE k \in DOMAIN ss : ss[k].id = id

\* A card that is gone keeps the index it had last.
GoneCard == [id : Ids, local : Fields, timer : Timer, index : Nat]
LeftBehind(ss) ==
  {[id |-> id, local |-> cards[id].local, timer |-> cards[id].timer, index |-> Place(steps, id)] :
     id \in {i \in DOMAIN cards \ IdsOf(ss) : Runs(cards[i].timer)}}

\* The page after the steps have become ss.
KeepAllCards(ss) ==
  [id \in DOMAIN cards \cup IdsOf(ss) |->
     IF id \in DOMAIN cards THEN cards[id] ELSE NewCard(ss[Place(ss, id)])]
CardsFor(ss) ==
  [id \in IdsOf(ss) |-> IF id \in DOMAIN cards THEN cards[id] ELSE NewCard(ss[Place(ss, id)])]

Render(ss) ==
  /\ cards' = CardsFor(ss)
  /\ gone' = gone \cup LeftBehind(ss)

(***************************************************************************)
(* The store                                                               *)
(***************************************************************************)
Undoing == INSTANCE UndoStack WITH State <- Pipeline, Cap <- HistoryCap, present <- steps

\* recordHistory
Record ==
  /\ past' = Undoing!Newest(Append(past, steps))
  /\ future' = <<>>

Merge(s, changes) ==
  [s EXCEPT !.at = [f \in Field |-> IF f \in DOMAIN changes THEN changes[f] ELSE s.at[f]]]

\* update: whatever step has the index i takes the changes, of its type or not; when
\* there is none, only the history changes.
Update(i, changes) ==
  /\ steps' = [k \in DOMAIN steps |-> IF k = i THEN Merge(steps[k], changes) ELSE steps[k]]
  /\ Record

\* The fields the store is given when a card commits: commitJoinChanges gives those of
\* its mode, the other types all they have.
InlineOnly(kind, local) ==
  IF kind = "JOIN" THEN {"joinType", "table", "alias", "on"} ELSE FieldsOf(kind)
Committed(kind, local) ==
  IF kind # "JOIN" THEN FieldsOf(kind)
  ELSE {"joinType", "alias", "on"}
         \cup IF local["mode"] = Subpipeline THEN {"subTable", "subSteps"} ELSE {"table"}

Changes(kind, local) == [f \in Committed(kind, local) |-> local[f]]

\* A timer writes the text it was started with, except that a JOIN reads its fields when
\* the timer fires; the other fields are read then by all of them.
TimerWrites(kind, local, timer) ==
  [f \in Committed(kind, local) |->
     IF kind # "JOIN" /\ timer[f] # Untyped THEN timer[f] ELSE local[f]]

(***************************************************************************)
(* What the user does.  Only the fields the suggestion of an ON condition  *)
(* looks at can be entered blank.                                          *)
(***************************************************************************)
UserActs == acts < MaxActs /\ acts' = acts + 1
Entered(f) == {acts + 1} \cup IF f \in {"table", "on", "subTable"} THEN {Blank} ELSE {}

Init ==
  /\ table \in Tables
  /\ past = <<>> /\ steps = <<>> /\ future = <<>>
  /\ saved = SavedQueries
  /\ used = UNION {IdsOf(q.steps) : q \in SavedQueries}
  /\ open = TRUE
  /\ cards = [id \in {} |-> NoEditor]
  /\ gone = {}
  /\ acts = 0

\* What is typed goes to the card, and starts its timer over.
Typed(id, f, v) ==
  /\ cards' = [cards EXCEPT ![id] = Waits(cards[id], f, v)]
  /\ UNCHANGED <<table, storeVars, saved, used, open, gone>>

Type(id, f) == UserActs /\ \E v \in Entered(f) : Typed(id, f, v)

OnInput(id)       == KindOf[id] = "WHERE" /\ Type(id, "expression")
OnRawSqlInput(id) == KindOf[id] = "RAW_SQL" /\ Type(id, "sql")
OnLimitChange(id) == KindOf[id] = "ORDER_BY" /\ Type(id, "limit")
OnJoinInput(id)   == KindOf[id] = "JOIN" /\ \E f \in {"alias", "on"} : Type(id, f)

\* There is a box to type in for every selected column and every aggregation.
OnSelectInput(id) ==
  /\ KindOf[id] = "SELECT"
  /\ cards[id].local["columns"] # Blank
  /\ Type(id, "columns")
OnAggInput(id) ==
  /\ KindOf[id] = "GROUP_BY"
  /\ cards[id].local["aggregations"] # Blank
  /\ Type(id, "aggregations")

\* The card becomes c and its fields go to the step at once.  A timer that runs goes on.
Commit(id, c) ==
  /\ cards' = [cards EXCEPT ![id] = c]
  /\ Update(Place(steps, id), Changes(KindOf[id], c.local))
  /\ UNCHANGED <<table, saved, used, open, gone>>

Click(id, f) ==
  /\ UserActs
  /\ Commit(id, Shows(cards[id], f, acts + 1))

InsertColumn(id)     == KindOf[id] = "WHERE" /\ Click(id, "expression")
ClickSelect(id)      == KindOf[id] = "SELECT" /\ Click(id, "columns")
ClickSort(id)        == KindOf[id] = "ORDER_BY" /\ Click(id, "columns")
ClickGroupBy(id)     == KindOf[id] = "GROUP_BY" /\ \E f \in {"groupBy", "aggregations"} : Click(id, f)
CycleJoinType(id)    == KindOf[id] = "JOIN" /\ Click(id, "joinType")
InsertJoinColumn(id) == KindOf[id] = "JOIN" /\ Click(id, "on")

\* suggestJoinCondition: only a condition that is blank is filled in, if it can be.
Suggested(on, t) == IF on = Blank /\ t # Blank THEN {Blank, acts + 1} ELSE {on}

OnJoinTableChange(id) ==
  /\ UserActs
  /\ KindOf[id] = "JOIN" /\ ~EditorOpen(id)
  /\ \E t \in Entered("table") : \E on \in Suggested(cards[id].local["on"], t) :
       Commit(id, Shows(Shows(cards[id], "table", t), "on", on))

\* The mode alone is written.  The editor is created when the subpipeline is chosen and
\* is gone, with its timer, when it is left.
SetJoinMode(id, m) ==
  /\ UserActs
  /\ KindOf[id] = "JOIN"
  /\ LET c == Shows(cards[id], "mode", m)
     IN  cards' = [cards EXCEPT ![id] = IF m = cards[id].local["mode"] THEN c
                                        ELSE Edits(c, EditorOf(c.local))]
  /\ Update(Place(steps, id), [f \in {"mode"} |-> m])
  /\ UNCHANGED <<table, saved, used, open, gone>>

(***************************************************************************)
(* The subpipeline editor.  Its steps are one value: each change of one of *)
(* them makes another.                                                     *)
(***************************************************************************)
OnSubTableChange(id) ==
  /\ UserActs
  /\ EditorOpen(id)
  /\ \E t \in Entered("subTable") : \E on \in Suggested(cards[id].local["on"], t) :
       Commit(id, Edits(Shows(Shows(cards[id], "subTable", t), "on", on),
                        [subTable |-> t, subSteps |-> cards[id].editor.subSteps,
                         pending |-> cards[id].editor.pending]))

SubSteps(id, ss, pending) ==
  [subTable |-> cards[id].editor.subTable, subSteps |-> ss, pending |-> pending]

\* Clicks are emitted at once; the card takes the steps and commits.
EmitSubSteps(id, ss, pending) ==
  Commit(id, Edits(Shows(cards[id], "subSteps", ss), SubSteps(id, ss, pending)))

EditorInUse(id) == EditorOpen(id) /\ cards[id].editor.subTable # Blank

AddOrRemoveSubStep(id) ==
  /\ UserActs
  /\ EditorInUse(id)
  /\ EmitSubSteps(id, acts + 1, cards[id].editor.pending)

\* A sub-step changes by a click, or by typing, which starts the editor's timer over.
EditSubStep(id) ==
  /\ UserActs
  /\ EditorInUse(id)
  /\ cards[id].editor.subSteps # Blank
  /\ \/ EmitSubSteps(id, acts + 1, cards[id].editor.pending)
     \/ /\ cards' = [cards EXCEPT ![id] = Edits(cards[id], SubSteps(id, acts + 1, TRUE))]
        /\ UNCHANGED <<table, storeVars, saved, used, open, gone>>

SubTimerFires(id) ==
  /\ EditorOpen(id) /\ cards[id].editor.pending
  /\ EmitSubSteps(id, cards[id].editor.subSteps, FALSE)
  /\ UNCHANGED acts

(***************************************************************************)
(* Timers of the cards, and of the cards that are gone                     *)
(***************************************************************************)
TimerFires(id) ==
  /\ Runs(cards[id].timer)
  /\ cards' = [cards EXCEPT ![id] = Rests(cards[id])]
  /\ Update(Place(steps, id), TimerWrites(KindOf[id], cards[id].local, cards[id].timer))
  /\ UNCHANGED <<table, saved, used, open, gone, acts>>

GoneTimerFires(g) ==
  /\ gone' = gone \ {g}
  /\ Update(g.index, TimerWrites(KindOf[g.id], g.local, g.timer))
  /\ UNCHANGED <<table, saved, used, open, cards, acts>>

(***************************************************************************)
(* The builder                                                             *)
(***************************************************************************)
AddStep(id) ==
  /\ UserActs
  /\ Len(steps) < MaxSteps
  /\ used' = used \cup {id}
  /\ steps' = Append(steps, [id |-> id, at |-> Empty])
  /\ Record
  /\ Render(steps')
  /\ UNCHANGED <<table, saved, open>>

RemoveStep(id) ==
  /\ UserActs
  /\ steps' = RemoveAt(steps, Place(steps, id))
  /\ Record
  /\ Render(steps')
  /\ UNCHANGED <<table, saved, used, open>>

\* Where the step that comes to place k was.
PlaceBefore(k, from, to) ==
  CASE k = to                   -> from
    [] k # to /\ k \in from .. to -> k + 1
    [] k # to /\ k \in to .. from -> k - 1
    [] OTHER                    -> k

ReorderSteps(from, to) ==
  /\ UserActs
  /\ from # to
  /\ steps' = [k \in DOMAIN steps |-> steps[PlaceBefore(k, from, to)]]
  /\ Record
  /\ UNCHANGED <<table, saved, used, open, cards, gone>>

Undo == UserActs /\ Undoing!Undo /\ Render(steps') /\ UNCHANGED <<table, saved, used, open>>
Redo == UserActs /\ Undoing!Redo /\ Render(steps') /\ UNCHANGED <<table, saved, used, open>>

\* A saved query is loaded onto the table it was saved for, with the ids its steps have;
\* so is an entry of the query history.
SaveQuery ==
  /\ UserActs
  /\ saved' = saved \cup {[table |-> table, steps |-> steps]}
  /\ UNCHANGED <<table, storeVars, used, open, cards, gone>>

Start(ss) ==
  /\ steps' = ss
  /\ past' = <<>> /\ future' = <<>>
  /\ Render(ss)

LoadQuery(q) ==
  /\ UserActs
  /\ q.table = table
  /\ Start(q.steps)
  /\ UNCHANGED <<table, saved, used, open>>

OpenTable(t) ==
  /\ UserActs
  /\ t # table
  /\ table' = t
  /\ Start(<<>>)
  /\ UNCHANGED <<saved, used, open>>

\* Another tab takes the builder's place, and gives it back: its cards are created anew.
\* A table that was opened meanwhile is opened in the builder next.
LeaveBuilder ==
  /\ UserActs
  /\ open /\ open' = FALSE
  /\ Render(<<>>)
  /\ UNCHANGED <<table, storeVars, saved, used>>
ShowBuilder ==
  /\ UserActs
  /\ ~open /\ open' = TRUE
  /\ Render(steps)
  /\ UNCHANGED <<table, storeVars, saved, used>>

CardAct(id) ==
  \/ OnInput(id) \/ OnRawSqlInput(id) \/ OnLimitChange(id) \/ OnJoinInput(id)
  \/ OnSelectInput(id) \/ OnAggInput(id)
  \/ InsertColumn(id) \/ ClickSelect(id) \/ ClickSort(id) \/ ClickGroupBy(id)
  \/ CycleJoinType(id) \/ InsertJoinColumn(id) \/ OnJoinTableChange(id)
  \/ \E m \in JoinMode : SetJoinMode(id, m)
  \/ OnSubTableChange(id) \/ AddOrRemoveSubStep(id) \/ EditSubStep(id)
  \/ SubTimerFires(id)
  \/ TimerFires(id)
  \/ RemoveStep(id)

BuilderAct ==
  \/ LeaveBuilder
  \/ \E id \in Ids \ used : AddStep(id)
  \/ \E i, j \in DOMAIN steps : ReorderSteps(i, j)
  \/ Undo
  \/ Redo
  \/ SaveQuery
  \/ \E q \in saved : LoadQuery(q)
  \/ \E t \in Tables : OpenTable(t)

Next ==
  \/ \E id \in DOMAIN cards : CardAct(id)
  \/ \E g \in gone : GoneTimerFires(g)
  \/ open /\ BuilderAct
  \/ ShowBuilder

Spec == Init /\ [][Next]_vars

(***************************************************************************)
(* Properties                                                              *)
(***************************************************************************)
\* Every step on show has its own card, no two steps have the same id, and every part
\* of the builder has its type.
TypeOK ==
  /\ table \in Tables
  /\ past \in Seq(Pipeline) /\ steps \in Pipeline /\ future \in Seq(Pipeline)
  /\ \A q \in saved : q \in Query
  /\ used \subseteq Ids
  /\ open \in BOOLEAN
  /\ DOMAIN cards = IF open THEN IdsOf(steps) ELSE {}
  /\ \A id \in DOMAIN cards :
       /\ cards[id] \in Card
       /\ \A f \in Field : cards[id].timer[f] # Untyped => f \in TypedFields(KindOf[id])
  /\ \A g \in gone : g \in GoneCard
  /\ acts \in Nat

Stored(id, f) == steps[Place(steps, id)].at[f]

Shown(id, f) ==
  IF f \in {"subTable", "subSteps"} /\ EditorOpen(id) THEN cards[id].editor[f]
                                                      ELSE cards[id].local[f]

OnItsWay(id, f) ==
  \/ cards[id].timer[f] # Untyped /\ (KindOf[id] = "JOIN" \/ cards[id].timer[f] = cards[id].local[f])
  \/ f = "subSteps" /\ EditorOpen(id) /\ cards[id].editor.pending

InStep(id, f) == Shown(id, f) = Stored(id, f) \/ OnItsWay(id, f)

\* A click within 400 ms of typing in the same field is undone in the step, and there
\* only, by the timer.
Overtakes(id, f) ==
  /\ TimerFires(id)
  /\ KindOf[id] # "JOIN"
  /\ cards[id].timer[f] \notin {Untyped, cards[id].local[f]}

\* What was typed in the editor less than 400 ms ago goes with the editor.
LeavesTheEditor(id, f) ==
  f = "subSteps" /\ cards[id].editor.pending /\ \E m \in JoinMode : SetJoinMode(id, m)

\* What a card shows of its step is in the step, or will be within 400 ms: a new card is
\* created so, and a card parts from its step only when the steps are replaced under it (undo, redo, a saved query),
\* when the timer of a card that is gone writes, when a click is overtaken by the timer
\* of what was typed before it, or when the editor is left with its timer running.
CardsFollowTheirSteps ==
  [][\A id \in DOMAIN cards' : \A f \in FieldsOf(KindOf[id]) :
       ~InStep(id, f)'
         => /\ id \in DOMAIN cards
            /\ \/ ~InStep(id, f)
               \/ Undo \/ Redo \/ \E q \in saved : LoadQuery(q)
               \/ \E g \in gone : GoneTimerFires(g)
               \/ Overtakes(id, f)
               \/ LeavesTheEditor(id, f)]_vars
=============================================================================
