--------------------------- MODULE SqliteWorkspace ---------------------------
(***************************************************************************)
(* The SQLite workspace: SqliteWorkspaceStore (the open file, its schema,  *)
(* the table in the grid and the loads that fill it, schema changes) and   *)
(* EditStore with the edit tab (edits staged on rows of the grid, applied  *)
(* as one batch), on files that another program may change.                *)
(*                                                                         *)
(* One action is one handler up to its first await, or one continuation.   *)
(* A load reads its rows when its reply is taken; another program's change *)
(* right after it stands for what happened between reading and replying.   *)
(* The alias of an opened file is always `main`: schemas has one element.  *)
(***************************************************************************)
EXTENDS Naturals, Sequences, FiniteSets, SequencesExt

CONSTANTS
  Files,                      (* SQLite files                                       *)
  TableNames,                 (* names a table can have                             *)
  FirstTables,                (* the tables of every file at first                  *)
  Keys, FirstKeys,            (* primary keys, and those of the rows at first       *)
  PageSize,                   (* PAGE_SIZE: 100 in the code                         *)
  NoFile, NoTable, NoFilter, NoCell, NoDdl, NoApply,        (* the code's nulls     *)
  MaxActs, MaxLoads, MaxLost, MaxTheirs                         (* bounds            *)

ASSUME SqliteAssumption ==
  /\ FirstTables \subseteq TableNames
  /\ FirstKeys \subseteq Keys /\ Keys \subseteq Nat \ {0} /\ PageSize \in Nat \ {0}
  /\ IsFiniteSet(Keys)
  /\ NoFile \notin Files /\ NoTable \notin TableNames /\ NoFilter \notin Keys
  /\ {MaxActs, MaxLoads, MaxLost, MaxTheirs} \subseteq Nat

VARIABLES
  db,              (* db[f][t][k]: who wrote the row k of the table t of the file f  *)
  workspace,       (* the open file                                                  *)
  schema,          (* schemas: the file and the tables the sidebar shows             *)
  opening,         (* the files that loadFilePath is reading the schema of           *)
  selectedTable,
  browseSort,
  browseFilter,    (* the key a foreign-key link filters by                          *)
  browseNavStack,
  tableRows, tableRowTotal, loadOffset,
  isLoadingTable,
  loads,           (* the queries under way that fill the grid                       *)
  modal,           (* the table whose settings are open                              *)
  ddl,             (* the schema change under way, started in a modal                *)
  editingCell,     (* index of the row whose cell has an input                       *)
  pendingEdits,
  applying,        (* what applyAll captured, while isApplying                       *)
  inserted,        (* history: how often each staged INSERT has been carried out     *)
  lost,            (* history: batches carried out whose reply was an error          *)
  theirs,          (* how often another program has written                          *)
  acts,            (* what users have done so far: MaxActs at most                   *)
  era,             (* history: counts the views the user has chosen                  *)
  astray           (* history: since then a reply for an earlier view has come, another
                      file has been opened under the view, or rows have come into its
                      table that it has not loaded                                   *)

fileVars == <<workspace, schema, opening>>
viewVars == <<selectedTable, browseSort, browseFilter, browseNavStack>>
gridVars == <<tableRows, tableRowTotal, loadOffset, isLoadingTable, loads>>
editVars == <<editingCell, pendingEdits, applying, inserted, lost>>
vars == <<db, fileVars, viewVars, gridVars, editVars, modal, ddl, theirs, acts, era, astray>>

Writer == {"nobody", "initial", "theirs", "mine"}
Order  == {"unsorted", "ASC", "DESC"}
Place  == [file : Files, table : TableNames]
View   == [file : Files, table : TableNames, sort : Order, filter : Keys \cup {NoFilter}]
Row    == [file : Files, table : TableNames, key : Keys, by : Writer]
Load   == [slot : 1 .. MaxLoads, kind : {"first", "more"}, view : View, offset : Nat,
           era : Nat]

(***************************************************************************)
(* Queries                                                                 *)
(***************************************************************************)
Present(rows) == {k \in Keys : rows[k] # "nobody"}

\* A finite set of numbers as an ascending sequence.
Rank(S, k) == Cardinality({x \in S : x < k})
Ascending(S) == [i \in 1 .. Cardinality(S) |-> CHOOSE k \in S : Rank(S, k) = i - 1]

SortedKeys(S, order) == IF order = "DESC" THEN Reverse(Ascending(S)) ELSE Ascending(S)

\* SELECT * FROM table WHERE filter ORDER BY sort, on the file as it is now.
RowsOf(v) ==
  LET rows == db[v.file][v.table]
      keys == {k \in Present(rows) : v.filter \in {k, NoFilter}}
      ks   == SortedKeys(keys, v.sort)
  IN  [i \in 1 .. Len(ks) |->
         [file |-> v.file, table |-> v.table, key |-> ks[i], by |-> rows[ks[i]]]]

Page(v, offset) ==
  LET all == RowsOf(v)
  IN  SubSeq(all, offset + 1, IF offset + PageSize < Len(all) THEN offset + PageSize ELSE Len(all))

HasTable(f, t) == t \in DOMAIN db[f]
SchemaOf(f) == [file |-> f, tables |-> DOMAIN db[f]]

CurrentView == [file |-> schema.file, table |-> selectedTable, sort |-> browseSort,
                filter |-> browseFilter]

(***************************************************************************)
(* Loads                                                                   *)
(***************************************************************************)
FreeSlots == {s \in 1 .. MaxLoads : \A l \in loads : l.slot # s}
FreeSlot  == CHOOSE s \in FreeSlots : \A x \in FreeSlots : s <= x

Request(kind, v, offset, n) ==
  /\ FreeSlots # {}
  /\ isLoadingTable' = TRUE
  /\ loads' = loads \cup {[slot |-> FreeSlot, kind |-> kind, view |-> v, offset |-> offset,
                           era |-> n]}

\* A new view of the open file: the first page of table t.
Restart(t, sort, filter) ==
  /\ browseSort' = sort
  /\ tableRows' = <<>> /\ loadOffset' = 0
  /\ era' = era + 1 /\ astray' = FALSE
  /\ Request("first", [file |-> schema'.file, table |-> t, sort |-> sort, filter |-> filter], 0,
             era + 1)

\* What selectTable, navigateToReference and navigateBack do up to their await: an
\* empty grid on another view of the open file.
ShowView(t, filter, stack) ==
  /\ selectedTable' = t
  /\ browseFilter' = filter
  /\ browseNavStack' = stack
  /\ tableRowTotal' = 0
  /\ Restart(t, "unsorted", filter)

\* The page behind a modal takes no input; a modal is closed only when its schema
\* change is over.
PageTakesInput == workspace # NoFile /\ modal = NoTable /\ ddl = NoDdl
\* The Browse tab: changing to it destroys the Edit tab, and with it an open input.
InBrowseTab == PageTakesInput /\ selectedTable # NoTable /\ editingCell' = NoCell

SelectTable(t) ==
  /\ PageTakesInput /\ t \in schema.tables
  /\ UNCHANGED fileVars
  /\ ShowView(t, NoFilter, <<>>)
  /\ UNCHANGED <<db, editVars, modal, ddl, theirs>>

NavigateToReference(t, k) ==
  /\ InBrowseTab /\ t \in schema.tables
  /\ tableRows # <<>>
  /\ UNCHANGED fileVars
  /\ ShowView(t, k, Append(browseNavStack, [table |-> selectedTable, filter |-> browseFilter]))
  /\ UNCHANGED <<db, pendingEdits, applying, inserted, lost, modal, ddl, theirs>>

NavigateBack(i) ==
  /\ InBrowseTab
  /\ UNCHANGED fileVars
  /\ ShowView(browseNavStack[i].table, browseNavStack[i].filter, SubSeq(browseNavStack, 1, i - 1))
  /\ UNCHANGED <<db, pendingEdits, applying, inserted, lost, modal, ddl, theirs>>

AlwaysMayLoad == TRUE
MayLoad == ~isLoadingTable

\* The button is there while the total says that rows are missing.
LoadMoreRows ==
  /\ InBrowseTab /\ MayLoad
  /\ Len(tableRows) < tableRowTotal
  /\ Request("more", CurrentView, loadOffset, era)
  /\ UNCHANGED <<db, fileVars, viewVars, tableRows, tableRowTotal, loadOffset, pendingEdits,
                 applying, inserted, lost, modal, ddl, theirs, era, astray>>

NextOrder(o) == CASE o = "unsorted" -> "ASC" [] o = "ASC" -> "DESC" [] OTHER -> "unsorted"

ToggleBrowseSort ==
  /\ InBrowseTab /\ MayLoad
  /\ UNCHANGED fileVars
  /\ Restart(selectedTable, NextOrder(browseSort), browseFilter)
  /\ UNCHANGED <<db, selectedTable, browseFilter, browseNavStack, tableRowTotal,
                 pendingEdits, applying, inserted, lost, modal, ddl, theirs>>

OnlyOnSuccess(ok) == ~ok
EndsTheSpinner(ok) == FALSE

LoadArrives(l, ok) ==
  LET rows == Page(l.view, l.offset)
  IN  /\ loads' = loads \ {l}
      /\ isLoadingTable' = EndsTheSpinner(ok)
      /\ astray' = (astray \/ l.era # era)
      /\ IF ~ok THEN UNCHANGED <<tableRows, tableRowTotal, loadOffset>>
         ELSE /\ HasTable(l.view.file, l.view.table)
              /\ IF l.kind = "first"
                 THEN /\ tableRows' = rows
                      /\ tableRowTotal' = Len(RowsOf(l.view))
                      /\ loadOffset' = Len(rows)
                 ELSE /\ tableRows' = tableRows \o rows
                      /\ loadOffset' = loadOffset + Len(rows)
                      /\ UNCHANGED tableRowTotal
      /\ UNCHANGED <<db, fileVars, viewVars, editVars, modal, ddl, theirs, era>>

(***************************************************************************)
(* Files and schema changes.  The native menu opens a file at any time.    *)
(***************************************************************************)
OpenFile(f) ==
  /\ f \notin opening
  /\ opening' = opening \cup {f}
  /\ UNCHANGED <<db, workspace, schema, viewVars, gridVars, editVars, modal, ddl, theirs, era, astray>>

\* loadFilePath replaces the schema; the selected table and the grid stay.
FileOpened(f, ok) ==
  /\ opening' = opening \ {f}
  /\ IF ok
     THEN /\ workspace' = f
          /\ schema' = SchemaOf(f)
          /\ astray' = (astray \/ (f # schema.file /\ selectedTable # NoTable))
     ELSE UNCHANGED <<workspace, schema, astray>>
  /\ UNCHANGED <<db, viewVars, gridVars, editVars, modal, ddl, theirs, era>>

OpenTableSettings(t) ==
  /\ PageTakesInput /\ t \in schema.tables
  /\ modal' = t
  /\ UNCHANGED <<db, fileVars, viewVars, gridVars, editVars, ddl, theirs, era, astray>>

AlwaysMayClose == TRUE
MayClose == ddl = NoDdl

CloseTableSettings ==
  /\ modal # NoTable /\ MayClose
  /\ modal' = NoTable
  /\ UNCHANGED <<db, fileVars, viewVars, gridVars, editVars, ddl, theirs, era, astray>>

\* "rename" and "drop" a table, "alter" its columns, "other": what only the schema
\* shows, as indexes, views and triggers; "create" has a modal of its own.
BeginDdl(kind, t, name) ==
  /\ ddl = NoDdl
  /\ IF kind = "create" THEN PageTakesInput ELSE t = modal
  /\ kind # "rename" => name = t
  /\ ddl' = [kind |-> kind, table |-> t, name |-> name, file |-> schema.file,
             under |-> schema.file, stage |-> "running"]
  /\ UNCHANGED <<db, fileVars, viewVars, gridVars, editVars, modal, theirs, era, astray>>

Altered(tables, d) ==
  CASE d.kind = "rename" -> [x \in (DOMAIN tables \ {d.table}) \cup {d.name} |->
                               tables[IF x = d.name THEN d.table ELSE x]]
    [] d.kind = "drop"   -> [x \in DOMAIN tables \ {d.table} |-> tables[x]]
    [] d.kind = "create" -> [x \in DOMAIN tables \cup {d.name} |->
                               IF x = d.name THEN [k \in Keys |-> "nobody"] ELSE tables[x]]
    [] OTHER             -> tables

DdlApplies(d) ==
  /\ d.kind # "create" => HasTable(d.file, d.table)
  /\ d.kind \in {"create", "rename"} => ~HasTable(d.file, d.name)

\* Another table gets the name of the selected one, which is gone from the file.
TakesItsName(d) == d.kind = "rename" /\ d.name = selectedTable

\* runDdl is over; reloadSchema looks the alias up again.
DdlRuns(ok) ==
  /\ ddl # NoDdl /\ ddl.stage = "running"
  /\ IF ok THEN /\ DdlApplies(ddl)
                /\ db' = [db EXCEPT ![ddl.file] = Altered(@, ddl)]
                /\ ddl' = [ddl EXCEPT !.stage = "reloading", !.under = schema.file]
                /\ astray' = (astray \/ TakesItsName(ddl))
           ELSE ddl' = NoDdl /\ UNCHANGED <<db, astray>>
  /\ UNCHANGED <<fileVars, viewVars, gridVars, editVars, modal, theirs, era>>

\* The schema goes under the alias, whatever file that is by now.
Reloaded(kinds) ==
  /\ ddl # NoDdl /\ ddl.stage = "reloading" /\ ddl.kind \in kinds
  /\ ddl' = NoDdl
  /\ schema' = SchemaOf(ddl.under)
  /\ UNCHANGED <<db, workspace, opening, editVars, theirs>>

ElsewhereNow == schema.file # ddl.under /\ selectedTable # NoTable
Concerns(d) == selectedTable = d.table

ReloadFails ==
  /\ ddl # NoDdl /\ ddl.stage = "reloading"
  /\ ddl' = NoDdl
  /\ UNCHANGED <<db, fileVars, viewVars, gridVars, editVars, modal, theirs, era, astray>>

TableRenamed ==
  /\ Reloaded({"rename"})
  /\ modal' = ddl.name
  /\ IF Concerns(ddl)
     THEN /\ selectedTable' = ddl.name
          /\ tableRows' = [i \in DOMAIN tableRows |-> [tableRows[i] EXCEPT !.table = ddl.name]]
          /\ era' = era + 1
     ELSE UNCHANGED <<selectedTable, tableRows, era>>
  /\ astray' = (astray \/ ElsewhereNow \/ (Concerns(ddl) /\ ddl.under # ddl.file))
  /\ UNCHANGED <<browseSort, browseFilter, browseNavStack, tableRowTotal, loadOffset,
                 isLoadingTable, loads>>

TableDropped ==
  /\ Reloaded({"drop"})
  /\ modal' = NoTable
  /\ IF Concerns(ddl)
     THEN selectedTable' = NoTable /\ tableRows' = <<>> /\ tableRowTotal' = 0
     ELSE UNCHANGED <<selectedTable, tableRows, tableRowTotal>>
  /\ astray' = (astray \/ ElsewhereNow)
  /\ UNCHANGED <<browseSort, browseFilter, browseNavStack, loadOffset, isLoadingTable,
                 loads, era>>

\* reselectIfOpen; its alias is the reloaded schema's by now.  (The modal waits for that
\* load as well; here it may be closed before.)
ColumnsAltered ==
  /\ Reloaded({"alter"})
  /\ IF Concerns(ddl)
     THEN ShowView(ddl.table, NoFilter, <<>>)
     ELSE /\ UNCHANGED <<viewVars, gridVars, era>>
          /\ astray' = (astray \/ ElsewhereNow)
  /\ UNCHANGED modal

SchemaReloaded ==
  /\ Reloaded({"create", "other"})
  /\ astray' = (astray \/ ElsewhereNow)
  /\ UNCHANGED <<modal, viewVars, gridVars, era>>

(***************************************************************************)
(* Staged edits                                                            *)
(***************************************************************************)
\* What the edit tab needs to know the primary key of the rows.
InEditTab == PageTakesInput /\ selectedTable \in schema.tables

OfRow(op, k) == op.kind # "insert" /\ op.key = k
IsUpdateOf(op, k) == op.kind = "update" /\ op.key = k
IsDeleteOf(op, k) == op.kind = "delete" /\ op.key = k
IsRowDeleted(k) == \E i \in DOMAIN pendingEdits : IsDeleteOf(pendingEdits[i], k)

\* `seen` is the code's `original`: the row as the grid showed it.
Op(kind, row) == [kind |-> kind, key |-> row.key, seen |-> row]

OnlyEdits == UNCHANGED <<db, fileVars, viewVars, gridVars, modal, ddl, theirs, era, astray>>

StartEdit(i) ==
  /\ InEditTab /\ editingCell = NoCell
  /\ ~IsRowDeleted(tableRows[i].key)
  /\ editingCell' = i
  /\ UNCHANGED <<pendingEdits, applying, inserted, lost>> /\ OnlyEdits

\* The first update of a row is extended by the next ones; a row staged for deletion
\* takes no update.
StageUpdate(ops, row) ==
  IF \E i \in DOMAIN ops : OfRow(ops[i], row.key) THEN ops ELSE Append(ops, Op("update", row))

\* commitEdit: on the row that has the index now; a missing one throws.
CommitEdit ==
  /\ InEditTab /\ editingCell \in DOMAIN tableRows
  /\ editingCell' = NoCell
  /\ pendingEdits' = StageUpdate(pendingEdits, tableRows[editingCell])
  /\ UNCHANGED <<applying, inserted, lost>> /\ OnlyEdits

CancelEdit ==
  /\ InEditTab /\ editingCell # NoCell
  /\ editingCell' = NoCell
  /\ UNCHANGED <<pendingEdits, applying, inserted, lost>> /\ OnlyEdits

KeepTheUpdate(ops, k) == ops
Kept(ops, places) == [i \in 1 .. Cardinality(places) |-> ops[Ascending(places)[i]]]
DropTheUpdate(ops, k) == Kept(ops, {i \in DOMAIN ops : ~IsUpdateOf(ops[i], k)})

\* The button of a row that is staged for deletion undoes that.
StageDelete(i) ==
  /\ InEditTab /\ editingCell = NoCell
  /\ LET k == tableRows[i].key
     IN  /\ ~IsRowDeleted(k)
         /\ pendingEdits' = Append(DropTheUpdate(pendingEdits, k), Op("delete", tableRows[i]))
  /\ UNCHANGED <<editingCell, applying, inserted, lost>> /\ OnlyEdits

UnstageDelete(i) ==
  /\ InEditTab /\ editingCell = NoCell
  /\ LET k == tableRows[i].key
     IN  /\ IsRowDeleted(k)
         /\ pendingEdits' =
              Kept(pendingEdits, {j \in DOMAIN pendingEdits : ~IsDeleteOf(pendingEdits[j], k)})
  /\ UNCHANGED <<editingCell, applying, inserted, lost>> /\ OnlyEdits

\* The n-th row inserted.
StageInsert ==
  /\ InEditTab /\ editingCell = NoCell
  /\ pendingEdits' = Append(pendingEdits, [kind |-> "insert", nth |-> Len(inserted) + 1])
  /\ inserted' = Append(inserted, 0)
  /\ UNCHANGED <<editingCell, applying, lost>> /\ OnlyEdits

Unstage(i) ==
  /\ InEditTab /\ editingCell = NoCell
  /\ pendingEdits' = RemoveAt(pendingEdits, i)
  /\ UNCHANGED <<editingCell, applying, inserted, lost>> /\ OnlyEdits

ClearNothing(ops) == ops
ClearAll(ops) == <<>>

DiscardAll ==
  /\ InEditTab /\ applying = NoApply /\ pendingEdits # <<>>
  /\ pendingEdits' = ClearAll(pendingEdits)
  /\ UNCHANGED <<editingCell, applying, inserted, lost>> /\ OnlyEdits

\* The statements go to the table that is selected now.
ApplyAll ==
  /\ InEditTab /\ applying = NoApply /\ pendingEdits # <<>>
  /\ applying' = [ops |-> pendingEdits, file |-> schema.file, table |-> selectedTable]
  /\ UNCHANGED <<editingCell, pendingEdits, inserted, lost>> /\ OnlyEdits

\* Statements expect to hit their row; the next key goes to an inserted row.
NextKey(rows) == {k \in Keys : \A x \in Present(rows) : x < k}
Hits(rows, op) == IF op.kind = "insert" THEN NextKey(rows) # {} ELSE op.key \in Present(rows)
Carried(rows, op) ==
  CASE op.kind = "update" -> [rows EXCEPT ![op.key] = "mine"]
    [] op.kind = "delete" -> [rows EXCEPT ![op.key] = "nobody"]
    [] OTHER -> [rows EXCEPT ![CHOOSE k \in NextKey(rows) : \A x \in NextKey(rows) : k <= x] = "mine"]

\* All statements in turn, or nothing: the native layer runs them as one transaction.
Batch(rows, ops) ==
  LET after[n \in 0 .. Len(ops)] ==
        IF n = 0 THEN rows
        ELSE IF after[n - 1] # <<>> /\ Hits(after[n - 1], ops[n])
             THEN Carried(after[n - 1], ops[n]) ELSE <<>>
  IN  after[Len(ops)]

CountOnce(ops, counts) ==
  [n \in DOMAIN counts |->
     counts[n] + Cardinality({i \in DOMAIN ops : ops[i].kind = "insert" /\ ops[i].nth = n})]

BatchCommits ==
  LET rows == Batch(db[applying.file][applying.table], applying.ops)
  IN  /\ HasTable(applying.file, applying.table)
      /\ rows # <<>>
      /\ db' = [db EXCEPT ![applying.file][applying.table] = rows]
      /\ inserted' = CountOnce(applying.ops, inserted)

\* clearAll, and the component selects the table it had captured.
ApplySucceeds ==
  /\ applying # NoApply
  /\ BatchCommits
  /\ applying' = NoApply
  /\ pendingEdits' = ClearAll(pendingEdits)
  /\ UNCHANGED fileVars
  /\ ShowView(applying.table, NoFilter, <<>>)
  /\ UNCHANGED <<editingCell, lost, modal, ddl, theirs>>

\* Nothing was carried out, or the reply came too late.
ApplyFails(lostReply) ==
  /\ applying # NoApply
  /\ IF lostReply
     THEN /\ lost < MaxLost /\ BatchCommits /\ lost' = lost + 1
          /\ astray' = (astray \/ \E op \in ToSet(applying.ops) : op.kind = "insert")
     ELSE UNCHANGED <<db, inserted, lost, astray>>
  /\ applying' = NoApply
  /\ UNCHANGED <<fileVars, viewVars, gridVars, editingCell, pendingEdits, modal, ddl, theirs,
                 era>>

\* Another program updates or deletes a row that an edit is staged for.
TheyWrite(f, t, k, w) ==
  /\ theirs < MaxTheirs
  /\ db[f][t][k] \in {"initial", "mine"}
  /\ \E i \in DOMAIN pendingEdits :
       LET op == pendingEdits[i]
       IN  op.kind # "insert" /\ <<op.seen.file, op.seen.table, op.key>> = <<f, t, k>>
  /\ db' = [db EXCEPT ![f][t][k] = w]
  /\ theirs' = theirs + 1
  /\ UNCHANGED <<fileVars, viewVars, gridVars, editVars, modal, ddl, era, astray>>

(***************************************************************************)
(* Specification                                                           *)
(***************************************************************************)
Init ==
  /\ db = [f \in Files |-> [t \in FirstTables |-> [k \in Keys |-> IF k \in FirstKeys THEN "initial" ELSE "nobody"]]]
  \* A restored session has opened its file.
  /\ workspace \in Files \cup {NoFile}
  /\ schema = [file |-> workspace, tables |-> IF workspace = NoFile THEN {} ELSE FirstTables]
  /\ opening = {}
  /\ selectedTable = NoTable /\ browseSort = "unsorted" /\ browseFilter = NoFilter
  /\ browseNavStack = <<>>
  /\ tableRows = <<>> /\ tableRowTotal = 0 /\ loadOffset = 0
  /\ isLoadingTable = FALSE /\ loads = {}
  /\ modal = NoTable /\ ddl = NoDdl
  /\ editingCell = NoCell /\ pendingEdits = <<>> /\ applying = NoApply
  /\ inserted = <<>> /\ lost = 0
  /\ theirs = 0 /\ acts = 0 /\ era = 0
  /\ astray = FALSE

Replies ==
  \/ \E f \in opening, ok \in BOOLEAN : FileOpened(f, ok)
  \/ \E l \in loads, ok \in BOOLEAN : LoadArrives(l, ok)
  \/ \E ok \in BOOLEAN : DdlRuns(ok)
  \/ TableRenamed \/ TableDropped \/ ColumnsAltered \/ SchemaReloaded \/ ReloadFails
  \/ ApplySucceeds
  \/ \E lostReply \in BOOLEAN : ApplyFails(lostReply)

UserActs ==
  \/ \E f \in Files : OpenFile(f)
  \/ \E t \in TableNames : SelectTable(t) \/ OpenTableSettings(t)
  \/ \E t \in TableNames, k \in Keys : NavigateToReference(t, k)
  \/ \E i \in DOMAIN browseNavStack : NavigateBack(i)
  \/ LoadMoreRows
  \/ ToggleBrowseSort
  \/ CloseTableSettings
  \/ \E kind \in {"create", "rename", "drop", "alter", "other"}, t, name \in TableNames :
       BeginDdl(kind, t, name)
  \/ \E i \in DOMAIN tableRows : StartEdit(i) \/ StageDelete(i) \/ UnstageDelete(i)
  \/ CommitEdit \/ CancelEdit
  \/ StageInsert
  \/ \E i \in DOMAIN pendingEdits : Unstage(i)
  \/ DiscardAll
  \/ ApplyAll

TheyAct == \E f \in Files : \E t \in DOMAIN db[f], k \in Keys, w \in {"theirs", "nobody"} :
             TheyWrite(f, t, k, w)

Next ==
  \/ UserActs /\ acts < MaxActs /\ acts' = acts + 1
  \/ (Replies \/ TheyAct) /\ UNCHANGED acts

Spec == Init /\ [][Next]_vars

\* Users may stop at any time; every call of the native layer ends, at the latest with
\* its time limit.  There are finitely many, as users act MaxActs times.
FairSpec ==
  /\ Spec
  /\ WF_vars(Replies /\ UNCHANGED acts)

(***************************************************************************)
(* Properties                                                              *)
(***************************************************************************)
EditOp == [kind : {"update", "delete"}, key : Keys, seen : Row]
            \cup [kind : {"insert"}, nth : Nat]

TypeOK ==
  /\ \A f \in Files : \A t \in DOMAIN db[f] : t \in TableNames /\ db[f][t] \in [Keys -> Writer]
  /\ workspace \in Files \cup {NoFile}
  /\ schema.file \in Files \cup {NoFile} /\ schema.tables \subseteq TableNames
  /\ opening \subseteq Files
  /\ selectedTable \in TableNames \cup {NoTable}
  /\ browseSort \in Order /\ browseFilter \in Keys \cup {NoFilter}
  /\ browseNavStack \in Seq([table : TableNames, filter : Keys \cup {NoFilter}])
  /\ tableRows \in Seq(Row) /\ tableRowTotal \in Nat /\ loadOffset \in Nat
  /\ isLoadingTable \in BOOLEAN /\ loads \subseteq Load
  /\ modal \in TableNames \cup {NoTable}
  /\ ddl # NoDdl => /\ ddl.table \in TableNames /\ ddl.file \in Files
                    /\ ddl.kind = "create" \/ modal # NoTable
  /\ editingCell \in Nat \cup {NoCell}
  /\ pendingEdits \in Seq(EditOp)
  /\ applying # NoApply => applying.ops \in Seq(EditOp) /\ applying.file \in Files
  /\ inserted \in Seq(Nat) /\ astray \in BOOLEAN

\* The grid of a table shows its rows in the order and under the filter chosen, each
\* once, and the next page starts behind them: after any sequence of selections,
\* foreign-key links, breadcrumbs, sorts, further pages and schema changes, while rows
\* are changed and deleted, unless the reply of a load has come that the user has left
\* behind, or new rows came without a load.  (After such a reply the grid may show another
\* table's rows, or a page twice: the loads have no request id.  A page may come twice
\* as well once a batch has inserted rows and its reply was lost, and once a table was
\* renamed to the name of the selected one, that somebody had dropped: the next page
\* starts at an offset.)
GridShowsTheView ==
  ~astray /\ selectedTable # NoTable =>
    /\ loadOffset = Len(tableRows)
    /\ \A i \in DOMAIN tableRows :
         /\ tableRows[i].file = schema.file /\ tableRows[i].table = selectedTable
         /\ browseFilter \in {tableRows[i].key, NoFilter}
         /\ \A j \in 1 .. i - 1 : IF browseSort = "DESC" THEN tableRows[j].key > tableRows[i].key
                                  ELSE tableRows[j].key < tableRows[i].key

\* "Loading" is shown only while a query is under way: no failing or overtaken load
\* leaves the spinner, and with it the grid's buttons, behind.
SpinnerHasALoad == isLoadingTable => loads # {}

\* A row is staged for one update or for deletion, never for both or twice: a batch
\* would otherwise fail on the row it has just deleted.
OneEditPerRow ==
  \A i, j \in DOMAIN pendingEdits :
    i # j /\ pendingEdits[i].kind # "insert" /\ pendingEdits[j].kind # "insert"
      => pendingEdits[i].key # pendingEdits[j].key

\* A staged row is inserted once, however often "Apply" is pressed, unless the reply of
\* a batch that was carried out is lost and the user applies it again.
InsertedOnce == \A n \in DOMAIN inserted : inserted[n] <= 1 + lost

\* When the user stops, the grid's spinner and "Applying" go away.
EventuallyIdle == []<>(~isLoadingTable) /\ []<>(applying = NoApply)

\* "If [...] a row was changed or deleted by someone else in the meantime, nothing is
\* applied": the rows a batch writes are as the grid showed them when they were edited.
ChangedRowsAreLeftAlone ==
  [][\A i \in DOMAIN pendingEdits :
       ApplySucceeds /\ pendingEdits[i] \in ToSet(applying.ops) /\ pendingEdits[i].kind # "insert"
         => db[applying.file][applying.table][pendingEdits[i].key] = pendingEdits[i].seen.by]_vars
=============================================================================
