---------------------------- MODULE PipelineStore ----------------------------
(***************************************************************************)
(* The visual query pipeline of core/store/pipeline.store.ts: one source   *)
(* table, a list of steps, one preview per step.  Every edit starts a run  *)
(* that asks the backend for the preview of each step in turn; the replies *)
(* come back later, while the user goes on editing, undoing, switching     *)
(* tables and loading saved queries.                                       *)
(*                                                                         *)
(* One action is one event handler up to its first `await`, or the         *)
(* continuation of one `await`: nothing else runs in between, as           *)
(* JavaScript is single threaded.  Indices start at 1 here, at 0 there, so *)
(* runningIndex = 0 stands for the code's null.  `backend` has no variable *)
(* of its own: openForTable and clear() always set it together with        *)
(* `source`, and source.path is its key.                                   *)
(***************************************************************************)
EXTENDS Naturals, Sequences, SequencesExt

CONSTANTS
  Paths,              (* backend keys: one per database (backend.key)              *)
  TableNames,         (* the tables of a database                                  *)
  Step,               (* the contents a step can have                              *)
  NewSteps,           (* what the add...Step() buttons append                      *)
  Values,             (* assignments of the pipeline variables                     *)
  Unset,              (* the empty assignment                                      *)
  Compiled(_, _, _),  (* what compilePipeline makes of the last step of a prefix   *)
  SavedQueries,       (* saved queries and history entries, [target, steps]        *)
  SessionPipelines,   (* what a restored session holds, [target, steps, vars]      *)
  HistoryCap,         (* undo states kept: 50 in the code                          *)
  MaxSteps, MaxRuns,  (* bounds on the steps added and on the runs users start     *)
  NoSource, NoEntry, NoQuery, NoRestore, NoBasis, NoCount  (* the code's nulls     *)

Target     == [path : Paths, table : TableNames]
Entry      == [source : Target, steps : Seq(Step), vars : Values]
SavedQuery == [target : Target, steps : Seq(Step)]
Restore    == [target : Target, steps : Seq(Step), vars : Values]

ASSUME PipelineAssumption ==
  /\ NewSteps \subseteq Step
  /\ Unset \in Values
  /\ HistoryCap \in Nat \ {0, 1}
  /\ MaxSteps \in Nat /\ MaxRuns \in Nat
  /\ NoSource \notin Target
  /\ NoEntry \notin Entry /\ NoQuery \notin SavedQuery /\ NoRestore \notin Restore
  /\ \A q \in SavedQueries : q \in SavedQuery
  /\ \A p \in SessionPipelines : p \in Restore /\ p.steps # <<>>

VARIABLES
  source,          (* the open table or NoSource                                    *)
  steps,           (* the pipeline                                                  *)
  stepResults,     (* one preview per step                                          *)
  variableValues,
  history,         (* _history, the undo states                                     *)
  historyIndex,
  settleTimer,     (* the entry historySettleTimer is going to log, or NoEntry      *)
  pendingRestore,
  runId,
  runningIndex,
  rowCount,        (* source.rowCount: the table that was counted, or NoCount       *)
  runs,            (* the runs waiting for a preview, superseded ones included      *)
  opens,           (* the openForTable calls waiting for the row count              *)
  varDebounce      (* the builder's 400 ms timer after a variable was typed in      *)

pipelineVars == <<source, steps, variableValues, rowCount>>
undoVars     == <<history, historyIndex>>
runVars      == <<runId, runningIndex, runs, stepResults>>
vars == <<pipelineVars, undoVars, runVars, settleTimer, pendingRestore, opens,
          varDebounce>>

(***************************************************************************)
(* Previews.  `basis` is a history variable: what the rows or the error    *)
(* were computed from.  The code has no such field; the properties use it. *)
(***************************************************************************)
Basis == [source : Target, steps : Seq(Step), vars : Values]

StepResult == [shows   : {"empty", "rows", "error", "blocked"},
               loading : BOOLEAN,
               basis   : Basis \cup {NoBasis}]

EmptyResult == [shows |-> "empty", loading |-> FALSE, basis |-> NoBasis]
Blocked     == [shows |-> "blocked", loading |-> FALSE, basis |-> NoBasis]
Rows(b)     == [shows |-> "rows", loading |-> FALSE, basis |-> b]
Failed(b)   == [shows |-> "error", loading |-> FALSE, basis |-> b]

\* The rows on show stay while their replacement loads; an error goes.
Loading(r) == IF r.shows = "rows" THEN [r EXCEPT !.loading = TRUE]
                                  ELSE [EmptyResult EXCEPT !.loading = TRUE]

EmptyResults(ss) == [k \in 1 .. Len(ss) |-> EmptyResult]
HasError(r) == r.shows \in {"error", "blocked"}

\* setResult: an index that is gone by now changes nothing.
SetResult(res, i, r) == [k \in DOMAIN res |-> IF k = i THEN r ELSE res[k]]

BlockFromLoop(res, from) == [k \in DOMAIN res |-> IF k < from THEN res[k] ELSE Blocked]

FailWithoutBlocking(res, i, b) == SetResult(res, i, Failed(b))
FailFrom(res, i, b) == SetResult(BlockFromLoop(res, i), i, Failed(b))

PassNoops(res, from, to) ==
  [k \in DOMAIN res |-> IF k \in from .. to - 1 THEN EmptyResult ELSE res[k]]

(***************************************************************************)
(* Runs: what executeFrom captured before its first await, and the step    *)
(* `at` whose preview it is waiting for.                                   *)
(***************************************************************************)
Run == [id : Nat, at : Nat, source : Target, steps : Seq(Step), vars : Values]

BasisOf(r, i) == [source |-> r.source, steps |-> SubSeq(r.steps, 1, i), vars |-> r.vars]
KindAt(r, i)  == Compiled(r.source, SubSeq(r.steps, 1, i), r.vars)

AcceptAnyRun(r) == TRUE
IsLatest(r) == r.id = runId

\* runSteps from step f on, up to its next await or its end.
Continue(r, f, res, others) ==
  \E j \in f .. Len(r.steps) + 1 :
    /\ \A k \in f .. j - 1 : KindAt(r, k) = "noop"
    /\ LET passed == PassNoops(res, f, j)
       IN  \/ /\ j = Len(r.steps) + 1
              /\ stepResults' = passed
              /\ runningIndex' = 0
              /\ runs' = others
           \/ /\ j <= Len(r.steps)
              /\ KindAt(r, j) = "error"
              /\ stepResults' = FailFrom(passed, j, BasisOf(r, j))
              /\ runningIndex' = 0
              /\ runs' = others
           \/ /\ j <= Len(r.steps)
              /\ KindAt(r, j) \notin {"noop", "error"}
              /\ stepResults' = IF j \in DOMAIN passed
                                THEN SetResult(passed, j, Loading(passed[j]))
                                ELSE passed
              /\ runningIndex' = j
              /\ runs' = others \cup {[r EXCEPT !.at = j]}

\* A newer run also redoes what the run it supersedes leaves unfinished.
IgnoreAbandoned(from) == from
ResumeFrom(from) ==
  IF runningIndex # 0 /\ runningIndex < from THEN runningIndex ELSE from

\* executeFrom with the pipeline (src, ss, vv) and the previews res that its caller
\* has just stored; id is the run counter the caller left.
ExecuteFrom(id, from, src, ss, res, vv) ==
  IF src = NoSource
  THEN /\ runId' = id
       /\ stepResults' = res
       /\ UNCHANGED <<runningIndex, runs>>
  ELSE LET f == ResumeFrom(from)
       IN  /\ runId' = id + 1
           /\ IF \E k \in DOMAIN res : k < f /\ HasError(res[k])
              THEN /\ stepResults' = BlockFromLoop(res, f)
                   /\ UNCHANGED <<runningIndex, runs>>
              ELSE Continue([id |-> id + 1, at |-> 0, source |-> src, steps |-> ss, vars |-> vv],
                            f, res, runs)

(***************************************************************************)
(* Undo states.  The newest HistoryCap are kept.                           *)
(***************************************************************************)
LastN(s, n) == IF Len(s) <= n THEN s ELSE SubSeq(s, Len(s) - n + 1, Len(s))

KeepRedoStates(ss) ==
  /\ history' = LastN(Append(history, ss), HistoryCap)
  /\ historyIndex' = Len(history')
CountPastTheCap(ss) ==
  /\ history' = LastN(Append(SubSeq(history, 1, historyIndex), ss), HistoryCap)
  /\ historyIndex' = historyIndex + 1
RecordHistory(ss) ==
  /\ history' = LastN(Append(SubSeq(history, 1, historyIndex), ss), HistoryCap)
  /\ historyIndex' = Len(history')

ResetHistory(ss) == history' = <<ss>> /\ historyIndex' = 1

\* restoreSteps: shows the steps ss of the table src and previews all of them.
RestoreSteps(id, src, ss, vv) ==
  /\ steps' = ss
  /\ ResetHistory(ss)
  /\ ExecuteFrom(id, 1, src, ss, EmptyResults(ss), vv)

(***************************************************************************)
(* Users act on the builder, which shows its controls while a table is     *)
(* open.  MaxRuns bounds how often they do.                                *)
(***************************************************************************)
UserActs == runId < MaxRuns
BuilderOpen == source # NoSource

Init ==
  /\ source = NoSource
  /\ steps = <<>>
  /\ stepResults = <<>>
  /\ variableValues = Unset
  /\ history = <<<<>>>>
  /\ historyIndex = 1
  /\ settleTimer = NoEntry
  /\ pendingRestore = NoRestore
  /\ runId = 0
  /\ runningIndex = 0
  /\ rowCount = NoCount
  /\ runs = {}
  /\ opens = {}
  /\ varDebounce = FALSE

(***************************************************************************)
(* Editing                                                                 *)
(***************************************************************************)
Edit(ss, res, from) ==
  /\ steps' = ss
  /\ RecordHistory(ss)
  /\ ExecuteFrom(runId, from, source, ss, res, variableValues)
  /\ UNCHANGED <<source, variableValues, rowCount, settleTimer, pendingRestore, opens,
                 varDebounce>>

AddStep(s) ==
  /\ UserActs /\ BuilderOpen
  /\ Len(steps) < MaxSteps
  /\ Edit(Append(steps, s), Append(stepResults, EmptyResult), Len(steps) + 1)

\* A card writes what was typed into it 400 ms later, at the index it last had: by
\* then its step may be gone, another may be there, or none, or no table be open.
UpdateStep(i, s) ==
  /\ UserActs
  /\ Edit([steps EXCEPT ![i] = s], stepResults, IF i <= Len(steps) THEN i ELSE Len(steps) + 1)

\* Removing the last step starts no run: the other previews do not depend on it.
RemoveStep(i) ==
  /\ UserActs /\ BuilderOpen
  /\ IF i < Len(steps)
     THEN Edit(RemoveAt(steps, i), RemoveAt(stepResults, i), i)
     ELSE /\ steps' = RemoveAt(steps, i)
          /\ stepResults' = RemoveAt(stepResults, i)
          /\ RecordHistory(steps')
          /\ UNCHANGED <<source, variableValues, rowCount, runId, runningIndex, runs,
                         settleTimer, pendingRestore, opens, varDebounce>>

Move(s, from, to) == InsertAt(RemoveAt(s, from), to, s[from])

ReorderedFrom(from, to) == IF from < to THEN from ELSE to

ReorderSteps(from, to) ==
  /\ UserActs /\ BuilderOpen
  /\ from # to
  /\ Edit(Move(steps, from, to), Move(stepResults, from, to), ReorderedFrom(from, to))

RestoreHistoryAt(h) ==
  /\ historyIndex' = h
  /\ steps' = history[h]
  /\ IF history[h] # <<>>
     THEN ExecuteFrom(runId, 1, source, history[h], EmptyResults(history[h]), variableValues)
     ELSE stepResults' = <<>> /\ UNCHANGED <<runId, runningIndex, runs>>
  /\ UNCHANGED <<source, variableValues, rowCount, history, settleTimer, pendingRestore,
                 opens, varDebounce>>

Undo == UserActs /\ BuilderOpen /\ historyIndex > 1 /\ RestoreHistoryAt(historyIndex - 1)
Redo == /\ UserActs /\ BuilderOpen
        /\ historyIndex < Len(history)
        /\ RestoreHistoryAt(historyIndex + 1)

SetVariableValue(v) ==
  /\ UserActs /\ BuilderOpen
  /\ variableValues' = v
  /\ varDebounce' = TRUE
  /\ UNCHANGED <<source, steps, rowCount, undoVars, runVars, settleTimer, pendingRestore,
                 opens>>

\* The timer of onVariableInput calls reExecute.
VariableDebounceFires ==
  /\ varDebounce
  /\ varDebounce' = FALSE
  /\ IF steps # <<>>
     THEN ExecuteFrom(runId, 1, source, steps, stepResults, variableValues)
     ELSE UNCHANGED runVars
  /\ UNCHANGED <<pipelineVars, undoVars, settleTimer, pendingRestore, opens>>

(***************************************************************************)
(* Opening tables                                                          *)
(***************************************************************************)
RestoreFor(t) == pendingRestore # NoRestore /\ pendingRestore.target = t

NextRunId(id) == id + 1

\* openForTable on another table, up to its await: the pipeline starts over, with
\* the steps of a session restore that was waiting for this table.  q is the saved
\* query loadSavedQuery restores once the count is there.
OpenFresh(t, q) ==
  LET ss == IF RestoreFor(t) THEN pendingRestore.steps ELSE <<>>
      vv == IF RestoreFor(t) THEN pendingRestore.vars ELSE Unset
      id == NextRunId(runId)
  IN  /\ source' = t
      /\ rowCount' = NoCount
      /\ steps' = ss
      /\ variableValues' = vv
      /\ ResetHistory(ss)
      /\ pendingRestore' = IF RestoreFor(t) THEN NoRestore ELSE pendingRestore
      /\ opens' = opens \cup {[id |-> id, target |-> t, query |-> q]}
      /\ IF ss # <<>>
         THEN ExecuteFrom(id, 1, t, ss, EmptyResults(ss), vv)
         ELSE /\ runId' = id
              /\ stepResults' = <<>>
              /\ UNCHANGED <<runningIndex, runs>>
      /\ UNCHANGED <<settleTimer, varDebounce>>

\* The host selects a table.  On the open table only a waiting restore would do
\* something, and PendingRestoreIsElsewhere says that there is none.
OpenForTable(t) ==
  /\ UserActs
  /\ t # source
  /\ OpenFresh(t, NoQuery)

\* The continuation of openForTable's await, with loadSavedQuery's `then` behind it.
CountForAnyTable(o) == source # NoSource
CountForOpenTable(o) == source = o.target

CountArrives(o, ok) ==
  /\ opens' = opens \ {o}
  /\ rowCount' = IF ok /\ CountForOpenTable(o) THEN o.target ELSE rowCount
  /\ IF o.query = NoQuery
     THEN UNCHANGED <<steps, variableValues, undoVars, runVars>>
     ELSE /\ variableValues' = Unset
          /\ RestoreSteps(runId, source, o.query.steps, Unset)
  /\ UNCHANGED <<source, settleTimer, pendingRestore, varDebounce>>

\* A query of another database is refused.  On the open table openForTable has
\* nothing to wait for, and its `then` follows at once.
LoadSavedQuery(q) ==
  /\ UserActs /\ BuilderOpen
  /\ source.path = q.target.path
  /\ IF source = q.target
     THEN /\ variableValues' = Unset
          /\ RestoreSteps(runId, source, q.steps, Unset)
          /\ UNCHANGED <<source, rowCount, settleTimer, pendingRestore, opens, varDebounce>>
     ELSE OpenFresh(q.target, q)

RememberOnly(p) == FALSE
AppliesAtOnce(p) == source = p.target

RestoreWhenOpened(p) ==
  /\ UserActs
  /\ IF AppliesAtOnce(p)
     THEN /\ variableValues' = p.vars
          /\ IF p.steps # <<>>
             THEN RestoreSteps(runId, source, p.steps, p.vars)
             ELSE UNCHANGED <<steps, undoVars, runVars>>
          /\ pendingRestore' = NoRestore
     ELSE /\ pendingRestore' = p
          /\ UNCHANGED <<steps, variableValues, undoVars, runVars>>
  /\ UNCHANGED <<source, rowCount, settleTimer, opens, varDebounce>>

Clear ==
  /\ UserActs
  /\ runId' = NextRunId(runId)
  /\ source' = NoSource
  /\ rowCount' = NoCount
  /\ steps' = <<>>
  /\ stepResults' = <<>>
  /\ variableValues' = Unset
  /\ ResetHistory(<<>>)
  /\ UNCHANGED <<runningIndex, runs, settleTimer, pendingRestore, opens, varDebounce>>

(***************************************************************************)
(* Replies of the backend, and the log of settled queries                  *)
(***************************************************************************)
EntryOf(r) == [source |-> r.source, steps |-> r.steps, vars |-> r.vars]

PreviewArrives(r, ok) ==
  /\ IF ~IsLatest(r)
     THEN /\ runs' = runs \ {r}
          /\ UNCHANGED <<runId, runningIndex, stepResults, settleTimer>>
     ELSE /\ UNCHANGED runId
          /\ IF ok
             THEN /\ Continue(r, r.at + 1, SetResult(stepResults, r.at, Rows(BasisOf(r, r.at))),
                              runs \ {r})
                  /\ settleTimer' = IF r.at = Len(r.steps) THEN EntryOf(r) ELSE settleTimer
             ELSE /\ stepResults' = FailFrom(stepResults, r.at, BasisOf(r, r.at))
                  /\ runningIndex' = 0
                  /\ runs' = runs \ {r}
                  /\ UNCHANGED settleTimer
  /\ UNCHANGED <<pipelineVars, undoVars, pendingRestore, opens, varDebounce>>

\* The timer hands its entry to QueryHistoryService.log.
SettleTimerFires ==
  /\ settleTimer # NoEntry
  /\ settleTimer' = NoEntry
  /\ UNCHANGED <<pipelineVars, undoVars, runVars, pendingRestore, opens, varDebounce>>

(***************************************************************************)
(* Specification.  Users may stop at any time; timers fire, and every call *)
(* of the backend ends, at the latest with its time limit.                 *)
(***************************************************************************)
Next ==
  \/ \E s \in NewSteps : AddStep(s)
  \/ \E i \in 1 .. MaxSteps, s \in Step : UpdateStep(i, s)
  \/ \E i \in DOMAIN steps : RemoveStep(i)
  \/ \E i, j \in DOMAIN steps : ReorderSteps(i, j)
  \/ Undo
  \/ Redo
  \/ \E v \in Values : SetVariableValue(v)
  \/ VariableDebounceFires
  \/ \E t \in Target : OpenForTable(t)
  \/ \E o \in opens, ok \in BOOLEAN : CountArrives(o, ok)
  \/ \E q \in SavedQueries : LoadSavedQuery(q)
  \/ \E p \in SessionPipelines : RestoreWhenOpened(p)
  \/ Clear
  \/ \E r \in runs, ok \in BOOLEAN : PreviewArrives(r, ok)
  \/ SettleTimerFires

Spec == Init /\ [][Next]_vars

Fairness ==
  /\ WF_vars(VariableDebounceFires)
  /\ WF_vars(SettleTimerFires)
  /\ WF_vars(\E o \in opens, ok \in BOOLEAN : CountArrives(o, ok))
  /\ WF_vars(\E r \in runs, ok \in BOOLEAN : PreviewArrives(r, ok))

FairSpec == Spec /\ Fairness

(***************************************************************************)
(* Properties                                                              *)
(***************************************************************************)
Opening == [id : Nat, target : Target, query : SavedQuery \cup {NoQuery}]

\* Every part of the store has its type, and there is one preview per step.
TypeOK ==
  /\ source \in Target \cup {NoSource}
  /\ steps \in Seq(Step)
  /\ stepResults \in Seq(StepResult)
  /\ Len(stepResults) = Len(steps)
  /\ variableValues \in Values
  /\ history \in Seq(Seq(Step))
  /\ historyIndex \in 1 .. Len(history)
  /\ settleTimer \in Entry \cup {NoEntry}
  /\ pendingRestore \in Restore \cup {NoRestore}
  /\ runId \in Nat
  /\ runningIndex \in Nat
  /\ rowCount \in Target \cup {NoCount}
  /\ \A r \in runs : r \in Run
  /\ \A o \in opens : o \in Opening
  /\ varDebounce \in BOOLEAN

Live == \E r \in runs : IsLatest(r)

\* The first step whose preview the latest run has still to show.
Frontier == IF Live THEN runningIndex ELSE Len(steps) + 1

\* b is about the first i steps of the pipeline as it is now, and about the values
\* of its variables unless one was typed in less than 400 ms ago.
Current(b, i) ==
  /\ b.source = source
  /\ b.steps = SubSeq(steps, 1, i)
  /\ b.vars = variableValues \/ varDebounce

\* A newer run supersedes an older one and stale results are discarded: whatever the
\* user edits while previews are on their way, the rows and the error shown for a
\* step the latest run is done with were computed from the pipeline as it is now, and
\* never from an earlier one, another table or a removed step.
ResultsMatchPipeline ==
  BuilderOpen =>
    \A i \in 1 .. Len(steps) :
      i < Frontier /\ stepResults[i].shows \in {"rows", "error"}
        => Current(stepResults[i].basis, i)

\* A step is blocked because of an error on an earlier step, and once the latest run
\* is over everything after an error is blocked: an edit that cures or moves the
\* failing step leaves neither a stale "blocked" nor rows computed past the error.
BlockedBehindError ==
  BuilderOpen =>
    \A i \in 1 .. Len(steps) : i < Frontier =>
      (stepResults[i].shows = "blocked" <=> \E k \in 1 .. i - 1 : stepResults[k].shows = "error")

\* The spinner of a step turns only while the latest run works on it or has it ahead.
LoadingOnlyAhead ==
  \A i \in 1 .. Len(steps) : stepResults[i].loading => Live /\ i >= runningIndex

\* The row count next to the table name is the open table's, however many tables were
\* opened while it was counted.
RowCountOfSource == rowCount \in {NoCount, source}

\* A restored pipeline waits only for a table that is not open: had it been, it would
\* have been applied.
PendingRestoreIsElsewhere ==
  pendingRestore # NoRestore => pendingRestore.target # source

\* When the user stops, the builder settles with every preview current: no spinner is
\* left, and variables typed last are taken into account.
Settled ==
  /\ ~varDebounce
  /\ ~Live
  /\ \A i \in 1 .. Len(steps) : ~stepResults[i].loading
  /\ BuilderOpen => \A i \in 1 .. Len(steps) :
       stepResults[i].shows \in {"rows", "error"} => Current(stepResults[i].basis, i)
EventuallySettled == []<>Settled

\* Query history logs "only the query the user actually settles on": what the timer
\* logs is the pipeline on show.
LogsTheSettledQuery ==
  [][settleTimer # NoEntry /\ settleTimer' = NoEntry
       => /\ settleTimer.source = source
          /\ settleTimer.steps = steps]_vars

\* "It must belong to the open database": the steps of a saved query are restored onto
\* a table of the query's own database.
SavedQueryLandsInItsDatabase ==
  [][\A o \in opens \ opens' : o.query # NoQuery
       => BuilderOpen /\ source.path = o.query.target.path]_vars

Undoing == INSTANCE UndoStack WITH
  State   <- Seq(Step),
  Cap     <- HistoryCap,
  past    <- SubSeq(history, 1, historyIndex - 1),
  present <- steps,
  future  <- SubSeq(history, historyIndex + 1, Len(history))

\* Undo and redo walk over the user's edits, whatever else the store does: every edit
\* can be undone to exactly what was there before it, an undo can be redone until the
\* next edit, and nothing but opening, clearing or restoring forgets an edit that is
\* not the oldest of the HistoryCap kept.
UndoSpec == Undoing!Spec
=============================================================================
