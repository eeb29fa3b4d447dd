# TLA+ models of QuarryDB

QuarryDB is a desktop SQL and Redis client: an Angular front end in a webview, a Rust back end
(Tauri) that owns the connections. These modules model the parts where the order of events
matters, TLC checks them on small instances, and TLAPS proves the main results for every value of
the constants. Paths below are those of the repository.

## The system

| Part | State | Operations | Talks to | What makes it hard |
|------|-------|------------|----------|--------------------|
| Query pipeline, `core/store/pipeline.store.ts` | source table, steps, one preview per step, variables, undo states, a restore waiting for its table, the run id, the settle timer | add, update, remove, reorder, undo, redo, set variable, open table, load saved query, restore, clear | a `PipelineBackend` (two asynchronous calls per preview), query history, the workspaces that open tables | previews of superseded runs come back late, in any order; edits during a run; timers |
| Step cards, `features/pipeline-builder/step-card` | a copy of the step, debounce timers, drag state | typing, clicking, dragging, JOIN fields, the sub-steps of a JOIN, removing | the pipeline, by index | the copy is taken once; a timer outlives its card |
| SQLite workspace, `core/store/sqlite-workspace.store.ts` | schemas, selected table, rows, offset, sort, filter, breadcrumb stack | select, load more, sort, follow a foreign key, go back, DDL, export | native SQL | loads without request ids |
| Edit mode, `core/store/edit.store.ts`, `features/edit-mode` | staged edits, apply error | stage, unstage, discard, apply | SQLite and MySQL adapters | staging while a batch is applied; another table selected |
| MySQL workspace and provider, `core/store/mysql-workspace.store.ts`, `core/providers/mysql-*` | session, schemas, tables, rows, query result, drafts, passwords | connect, select, browse, query, apply edits, sample data, restore | native SQL, keychain, the pipeline | awaits that go on after a newer choice |
| Redis workspace and provider, `core/store/redis-workspace.store.ts`, `core/providers/redis-*` | session, keys, cursor, key details | connect, scan, select, mutate, delete, export | native Redis client | replies for a key or a session that is gone |
| Session persistence, `core/services/session.service.ts`, `session-validation.ts` | the saved session, a save timer | save, validate, restore, clear | every store | debounce against clearing; one bad step discards all |
| Native SQL, `src-tauri/src/sql` | pools by handle, connections, transactions | connect, select, execute a batch, disconnect | SQLite files, MySQL servers (sqlx) | commands run concurrently; a lock held while a pool closes; the time limit drops a batch anywhere |
| Pipeline compiler, `packages/shared/src/pipeline-sql.ts` | none | compile | the pipeline | names, scopes, ordering |
| Native Redis client, `src-tauri/src/redis.rs` | connections by handle | commands, scans, export | Redis servers | bounded scans, mutations of collections |
| Updater, `core/services/updater.service.ts` | pending update, modal | poll, check, install, skip | release feed | a poll during an installation |
| History, saved queries, recent items, profiles, exports, DDL builders, views, shell | small lists, text | | | synchronous; unit tests reach them |

Every event handler of the front end runs to its next `await` without interruption; what
interleaves are handlers, continuations and timers. In the back end the commands run on several
threads and meet at the lock on the pool map, in the pools and in the database.

What each part should guarantee:

- pipeline: no preview, error, "blocked" or spinner belongs to a pipeline the user has left; undo
  and redo walk over the user's edits; it settles;
- step cards: a card shows its own step, and what is entered gets there;
- workspaces: rows, columns, totals and errors belong to the selected table or key; an abandoned
  connection attempt opens nothing; no spinner stays;
- edit mode: staged edits reach the table they were staged on, once, all or none;
- session: what was on screen at the last quiet half second comes back, what was cleared does not;
- native SQL: batches are all or nothing, connections go back to their pool, every command ends;
- compiler: no duplicate column names, the last effective ordering survives, an error stays on its
  step.

`PROJECT.json` lists the components, and under `hazards` the places in the code where these could
go wrong.

## Modules

| Module | Content |
|--------|---------|
| `PipelineStore` | the query pipeline, `pipeline.store.ts` and the two effects of `pipeline-builder.component.ts` that drive it |
| `UndoStack` | what an undo history promises; `PipelineStore` implements it |
| `PipelineSql` | the pipeline compiler, `pipeline-sql.ts`, and what a database makes of its queries |
| `PipelineStoreProofs` | the theorems about `PipelineStore`, and that it implements `UndoStack` |
| `CompiledPipeline` | the store with the compiler, above tables that are altered: what a step may hold, which columns the compiler is told, what the pipeline on show compiles to, the compiler's properties |
| `PipelineSqlProofs` | the theorems about the compiler, and so about `CompiledPipeline` |
| `MCPipelineStore`, `MCCompiledPipeline` | the instances: the step contents and what they compile to; the tables and their alterations |
| `StepCards`, `StepCardsProofs`, `MCStepCards` | the builder's cards, `step-card.component.ts` and `subpipeline-editor.component.ts`, above an undo stack of steps; the theorems; the instance |
| `SqlAccess`, `MCSqlAccess` | the native SQL commands, `sql/mod.rs`; the instances |
| `SqlAccessProofs` | the theorems about connections and pools, and about what batches and scripts commit and leave |
| `SqliteWorkspace`, `SqliteWorkspaceProofs`, `MCSqliteWorkspace` | `sqlite-workspace.store.ts` and `edit.store.ts` with the edit tab and the settings modal, on files that others write too |
| `MysqlWorkspace`, `MysqlWorkspaceProofs` | `mysql-workspace.store.ts` with `mysql-provider.service.ts` and the connections of the adapter |
| `RedisWorkspace`, `RedisWorkspaceProofs`, `MCRedisWorkspace` | `redis-workspace.store.ts` with its page, `redis-provider.service.ts` and the commands of `redis.rs` that read key by key |
| `SessionService`, `SessionServiceProofs`, `MCSessionService` | autosave, validation and restore across launches |

Composition: `CompiledPipeline` puts `PipelineSql` under `PipelineStore`; `StepCards` is above it and
sees the steps and their history only, through `UndoStack`, which `PipelineStore` implements; `SqliteWorkspace`,
`MysqlWorkspace` and `RedisWorkspace` each hold a store, its provider or editor, and the database
behind it; `SessionService` sees all three workspaces and the pipeline as far as a session holds
them. `SqlAccess` is below the SQL workspaces: they use of it that a batch is atomic.

### PipelineStore

Variables carry the names of the store's signals and fields. `stepResults[i]` is the preview under
step `i`; its `basis` is a history variable, the source, steps and variable values the rows or the
error were computed from. `runs` holds every run that still waits for a preview, superseded ones
included, with what `executeFrom` captured before its first await; `opens` holds the
`openForTable` calls that wait for the row count, and with them the `then` of `loadSavedQuery`.

| Action | Code |
|--------|------|
| `AddStep`, `RemoveStep`, `ReorderSteps` | the `add...` methods, `removeStep`, `reorderSteps`, each with `recordHistory` and `executeFrom` |
| `UpdateStep` | the `update...` methods, also as called by the timer of a card whose step has moved or gone: any content, at any index |
| `Undo`, `Redo` | `undo`, `redo`, `restoreHistoryAt` |
| `SetVariableValue`, `VariableDebounceFires` | `setVariableValue`, and `reExecute` 400 ms later |
| `OpenForTable`, `LoadSavedQuery`, `RestoreWhenOpened`, `Clear` | the methods of these names |
| `CountArrives` | the continuation of `openForTable` with the `then` of `loadSavedQuery` |
| `PreviewArrives` | the continuation of the awaits in `runSteps`, `failFrom` included |
| `SettleTimerFires` | the timer of `scheduleHistoryLog` |

What a step compiles to is the parameter `Compiled(source, prefix, values)`: "query", "noop" or
"error". The model so covers every compiler whose verdict on a step depends on the steps up to it
and on the variables; the proofs hold for all of them. In the runs it is `PipelineSql`: a table in
`MCPipelineStore`, and the assumption `TableIsCompiled` compiles every pipeline the store can hold,
over the first columns of the tables and over the altered ones, of the open table and of the others in
any combination: the verdict is the same, as no step there picks a column that goes.
A preview and its count are one reply, as `runSteps` awaits both. A card's timer that fires behind
the last step records an undo state equal to the present one, as the code does.

Three details of the code are left out because they change nothing:

- the `finally` of `executeFrom` sets `runningIndex` to null one microtask after `runSteps` has
  ended; no handler runs in between;
- `openForTable` on the open table does nothing but apply a waiting restore, and
  `RestoreWaitsElsewhere` proves that none is waiting for it;
- reopening the open table of another backend object with the same key keeps `source` as it is.

`exportResult` is not modelled.

### PipelineSql

`CompilePipeline` compiles a list of steps to one output per step: the columns and the ordering that
flow out, whether it is a no-op, its error, and the query as far as its SELECT list goes. One
operator per case of `step`: `Where`, `Select`, `OrderBy`, `GroupBy`, `RawSql`, `Join`; `Chain` feeds
them and compiles a subpipeline the same way. A column name is a sequence of parts, so that the
prefix of a joined column and the number that makes it unique can collide with a name that is there.
`Results` is the reference: the columns the queries return on a database and what each holds. It
knows nothing of the compiler's bookkeeping.

A subpipeline "may not itself contain a subpipeline-mode JOIN" (`packages/shared/src/index.ts:62`),
and the editor offers none. So the steps of a pipeline are compiled with what their subpipelines
compile to (`Subpipeline`), those of a subpipeline with nothing, and no operator calls itself.

`CompiledPipeline` says what a step may hold (`StepContent`, the step types of the shared package) and
what the compiler is told. The store copies the columns of the table it opens (`sourceColumns`, from
`source().columns`) and hands these to `compilePipeline`; the columns of all other tables the backend reads
from the schema whenever it is asked (`listing`). The tables themselves (`database`) change below both.

| Action | Code |
|--------|------|
| every action of `PipelineStore`, with `ColumnsFollow` | `openForTable` copies the columns where another table becomes the source, and nothing else changes the copy; `clear` |
| `Alter` | `alterAddColumn`, `alterRenameColumn`, `alterDropColumn` up to the reply of their DDL; the same statement in the query tab or by another program |
| `SchemaReloads` | `reloadSchema`, behind that DDL or on its own |

So a pipeline is compiled with what was told (`EnvOf`), and its queries are looked up in what is there.
`outdated` is a history variable: the open table was altered since it was opened, or its columns were out of
date when it was. `Considered` is the pipeline on show; and, before the first table is opened and
anything altered, `Samples`, by which TLC looks at more pipelines than users can make within the bounds of
a run.

### StepCards

`cards[id]` is the card of the step `id`: `local`, the fields it shows; `timer`, what was typed in
each field since its timer was started; `editor`, the subpipeline editor of a JOIN with its own copy
and its own timer (`pending`). `gone` holds the cards that are gone and whose timer is not, with the
index each had last. `open` is whether the builder is on show.

| Action | Code |
|--------|------|
| `OnInput`, `OnRawSqlInput`, `OnSelectInput`, `OnAggInput`, `OnLimitChange`, `OnJoinInput` | the handlers of the text boxes: the copy now, the store 400 ms later |
| `InsertColumn`, `ClickSelect`, `ClickSort`, `ClickGroupBy`, `CycleJoinType`, `InsertJoinColumn`, `OnJoinTableChange`, `SetJoinMode` | the handlers that change the copy and the store at once |
| `OnSubTableChange`, `AddOrRemoveSubStep`, `EditSubStep`, `SubTimerFires` | the editor, with what its card does with what it emits |
| `TimerFires`, `GoneTimerFires` | a card's timer, while it is on show and afterwards |
| `AddStep`, `RemoveStep`, `ReorderSteps`, `Undo`, `Redo`, `SaveQuery`, `LoadQuery`, `OpenTable` | the builder and the store |
| `LeaveBuilder`, `ShowBuilder` | the tabs |

Each action is an event with the rendering behind it (`Render`): `@for` tracks by the id of the step,
so a card stays as long as a step has its id, whatever the store has put in that step. Texts,
columns and tables are numbers, and whatever is entered differs from all that was there. The
sub-steps of a JOIN are one number, dragging is one action, and the SQL the steps compile to has no
part in it.

Beside its properties the model shows what a reader of the code may not expect. Undo, redo and a
saved query leave the surviving cards with what they showed before; the next click in such a card
writes that back. The timer of a removed card writes to whatever step has its index then. A timer
writes the text it was started with, so in the step, not in the card, it undoes a click made in the
meantime. When a JOIN leaves the subpipeline mode within 400 ms of typing in its editor, what was
typed is lost, as the editor is destroyed before it could emit.

### SqlAccess

A command is invoked, and then goes through `pc`: `check`, `opening`, `inserting` and `closing` for
`sql_connect`, `removing` and `closing` for `sql_disconnect`, `lookup`, `acquiring`, `running` and
`cleaning` for `sql_select` and `sql_execute`. `pools` is the map in `SqlState`; `writer` is the
command that holds its write guard, which lives until the end of the `if let` and so over
`close_pool(previous).await`. A batch runs one statement a step, with `BEGIN` and `COMMIT` around it
when it is transactional. The database is reduced to which statements have hit rows and which of
these effects are committed.

sqlx and the engines are external and modelled from how the code uses them: a connection belongs to
one command, a closed pool gives none out, closing waits for those that are out, a dropped sqlx
transaction is rolled back, and a connection that comes back is not otherwise reset. A statement that is
dropped may still be carried out. A pool opened for a file can at most be one of `MaxPools`.

### SqliteWorkspace

`viewVars` are what the user chose (table, order, filter, breadcrumbs), `gridVars` what the grid
shows. `loads` are the queries under way, which carry no request id in the code; `ddl` is the schema
change under way, `applying` the batch. `tableRows` remember the file, table and key they came
from, `db` who wrote each row last; `under` of a schema change is the file that was open when its
statement was sent. `astray` is a history variable, reset by every load from the start: the reply of
a load the user had left was taken, another file came under the view, or rows came into its table
without a load (a batch with inserts whose reply was lost; a table renamed to the name of the
selected one).

| Action | Code |
|--------|------|
| `SelectTable`, `NavigateToReference`, `NavigateBack`, `LoadMoreRows`, `ToggleBrowseSort`, `LoadArrives` | the methods of these names up to their await, and what is behind it |
| `OpenFile`, `FileOpened` | `loadFilePath` from the menu |
| `OpenTableSettings`, `BeginDdl`, `DdlRuns`, `ReloadFails`, `TableRenamed`, `TableDropped`, `ColumnsAltered`, `SchemaReloaded`, `CloseTableSettings` | the settings modal, the schema changes and `reloadSchema` with what each does to the selection |
| `StartEdit`, `CommitEdit`, `StageDelete`, `UnstageDelete`, `StageInsert`, `Unstage`, `DiscardAll`, `ApplyAll`, `ApplySucceeds`, `ApplyFails` | the edit tab and `EditStore` |
| `BatchCommits`, `TheyWrite` | the database: the batch; another program |

A reply may be lost although the batch was committed (the time limit).

### MysqlWorkspace

The store is one record `w`; its methods are operators from stores to stores. A load carries
whether its request id is still the newest, on whose behalf it was sent and what goes on when it is
answered.

| Action | Code |
|--------|------|
| `SelectProfile`, `ConnectWorkspaceDraft`, `OpenRecentItem`, `Connects`, `SchemasListed`, `ClearWorkspaceDraft`, `RemoveProfile` | the provider: attempts to connect, which may overlap, and leaving |
| `ChooseSchema`, `ChooseTable`, `ApplyBrowseOptions`, `LoadMoreRows`, `RunQuery`, `StageEdit`, `ApplyPendingEdits`, `LoadSampleData` | the page, each up to its first await |
| `SchemaArrives`, `RowsArrive`, `QueryArrives`, `EditsApplied`, `SampleSeeded` | what is behind the awaits, the callers' continuations (`GoesOn`) included |

`ApplyBrowseOptions` has no guard on a load under way: the button is off then, Enter in the filter is not.

What the model shows of the code beside its properties: after a reconnect that fails the store
keeps the session the provider has already given up; seeding the sample data is not one
transaction; `forgetConnection` is not awaited.

### RedisWorkspace

As above: `r` is the store. SCAN looks at one key a call, so a scan is several replies. A saved
string and an edited collection are selected and read again when the mutation is answered, and then a
saved key is put on the list whatever the pattern (`WithKey`). A key is selected on the page, in the
sidebar or by a mutation (`by`), and only the page puts the value into its text field behind it.
`scanned`, `saved` and `removed` are history: the scans the list stands for with what each found, and
the keys put on it and taken off it since. The export goes through SCAN, TYPE and the read of the
value as separate steps, and other clients write in between. `setSession` leaves `isLoadingKey` set
when a key was being read; nothing resets it, which is why `EventuallyIdle` does not speak of it.

### SessionService

`stored` is localStorage, `saveTimer` the save under way, `restoring` how far the restore at launch
is. Each user action includes the effects behind it: the builder opens its table, the autosave
starts its timer. `Relaunch` is the end of the process at any moment, with the timer and the restore
gone; `left` is what was stored then.

| Action | Code |
|--------|------|
| `NothingToRestore`, `BeginSqlite`, `SchemasLoaded`, `RowsLoaded`, `SchemasFail`, `RestoreMysql`, `BeginRedis`, `PasswordLoaded` | `restore()` with the `restoreSession` of the three providers, up to and behind their awaits |
| `SaveTimerFires` | the timer of `debouncedSave` |
| `OpenFile`, `SelectTable`, `SetActiveTab`, `EditPipeline`, `SelectProfile`, `ConnectMysql`, `MysqlChange`, `SelectTarget`, `ConnectRedis`, `SelectKey`, `ShowHome`, `HardReset` | the user, as far as a session holds it |
| `Relaunch`, `FileGoes` | the process ends; a file is moved away |

Names, dates and variable values are left out, an attempt to connect is one action, and the
subpipeline of a JOIN is validated one level deep. localStorage is never full.

## Runs

| Run | Question | Bounds |
|-----|----------|--------|
| `pipeline_editing` | do edits, undo and replies in any order leave previews, errors, spinners and the undo history right? | one table, 3 step contents, 3 steps, 6 runs, 3 undo states |
| `pipeline_opening` | the same with tables, saved queries, a restored session, variables and failing calls; does the builder settle? do the compiler's columns and orderings agree with the queries, also when a table is altered? | 2 databases with 2 tables, 2 steps, 4 runs, 2 undo states; `orders` of `db1` altered once; the compiler on the pipeline on show and on all pipelines of up to 3 of 20 contents |
| `saved_query_moves_on` | does a saved query land in its own database? (no) | as above, 1 step, 3 runs |
| `step_cards` | does a card show what its step holds, and does each step have its own card? | a step of every type and a saved JOIN on a subpipeline, 2 steps, 5 acts, 2 tables, 3 undo states |
| `sql_access` | are batches atomic, connections and pools accounted for, does every command end, with every overlap, failure and timeout? | 3 commands, 2 handles, 3 pools, 2 connections each |
| `interrupted_script` | is a connection always restored before it is reused? (no) | 2 commands, 1 connection |
| `sqlite_workspace` | does the grid show what was selected, are edits staged once and inserted once, do spinners end? | 2 files, 2 tables, pages of one row, 5 acts, 2 loads at a time, 1 lost reply, 1 foreign write |
| `changed_rows` | is a row someone else has changed left alone? (no) | 1 foreign write |
| `mysql_workspace` | do rows, tables, edits, results and connections belong to the selection and session? | 1 profile, 2 schemas, 2 tables, 2 pages, 4 acts, 2 sessions, 2 attempts at a time |
| `redis_workspace` | do keys, details and the text on the page belong together, is an export faithful? | 1 target, 2 keys, 2 types, 4 acts, 2 sessions, 1 foreign write |
| `session_restore` | is what was on screen stored, and does it come back after any end of the process? | 2 files, 2 tables, 6 acts, 3 launches |
| `session_lost` | does every session that was stored come back? (no) | as above |

Why the bounds are enough. In the pipeline, the hazards need an edit during a run, a second edit
that supersedes both, and replies of all three; three steps give a step before, at and behind the
edited one, and three undo states make the cap push the oldest out while there is something to
undo and to redo. The step contents are chosen so that an edit can make a step fail, cure it, and
make it fail by exchanging two steps. The compiler looks at a step, its input and, for the ordering, the last
ORDER BY: three steps are a sort, something that renames, joins or groups, and a use. The 20 contents
hold each type, and for each a case that collides with a joined name; longer pipelines are the
theorems' part. In the
workspaces, a stale reply needs three acts: the selection it was for, another one, and an act while
it is late; four and five leave room for a session to be replaced under it. In
`step_cards`, five acts are enough to add a step, type in it, remove or undo it, and bring another
in its place while the timer is pending. In `session_restore`
the third launch restores what the second, cut off, has saved. In `sql_access`, two commands contend and a third finds
what they left: two connects that replace each other under a batch, a script that fails or is cut
off and a batch that gets its connection, a disconnect at any point. Every invariant the runs
check is proved for all bounds besides.

Each property has a mutant in `PROJECT.json`: an alternative definition, kept in front of the real
one in the module, with which the run finds the property violated.

### What the properties say

- `ResultsMatchPipeline`: rows and errors the latest run is done with were computed from the
  pipeline on show. `BlockedBehindError`: a step is blocked exactly if an earlier one failed.
  `LoadingOnlyAhead`: spinners turn only on steps still to come. `RowCountOfSource`,
  `PendingRestoreIsElsewhere`: the count and the waiting restore belong where they are used.
- `UndoSpec`: the store implements `UndoStack` with the refinement mapping that takes the undo
  states before and behind `historyIndex` as past and future.
- `EventuallySettled`: if users stop, all previews become current and no spinner stays.
- `CardsFollowTheirSteps`: a card is created with what its step has, and from then on what it shows
  is in the step or waits for a timer that will write it. The exceptions are those told of above:
  undo, redo, a saved query, the timer of a card that is gone, a click that its timer overtakes, and
  leaving the editor while its timer runs. No click, removal, reordering or change of mode, no other
  card and no change of tab parts a card from its step. `TypeOK` has that the cards on show are just
  those of the steps, and that no id appears twice.
- `ColumnsAreTracked`: where the compiler knows the columns, the query returns just these and none
  twice, and a column picked for a step is there; as long as the open table has the columns it was
  opened with and the backend has read the schema since it was altered. `OrderingSurvives`, which
  has no such condition: the final query is sorted by
  the last ORDER BY that is in effect, and its columns hold what they held there. Left out: a SELECT
  gives the name of a sorted column to another one (the query is sorted by that), and aliases the
  user gives twice. Behind raw SQL, where no columns are known, two joins of one table do
  return a name twice. `SELECT *` drops the ordering.
- `GridShowsTheView`, `SpinnerHasALoad`, `OneEditPerRow`, `InsertedOnce` (SQLite);
  `RowsAreOfTheView`, `SelectionIsConsistent`, `EditsAreOfTheSelection`, `ConnectionsHaveTheirUse`,
  `NewestQueryWins` (MySQL); `KeysAreOfTheView`, `DetailsAreOfTheSelection`,
  `DraftIsOfTheKeyShown`, `ExportIsFaithful` (Redis): what is on the page, or
  about to be written, belongs to what is selected. Where the code gives that up, the property
  names the case by a history variable: `astray` (SQLite: above; MySQL: attempts to connect overlap,
  or go on after the user went home; Redis: a mutation outlives its session), `misled` and
  `dragged` (a call that went on behind its wait selected a table, or carried edits or text along),
  `failed` (the rows before a failed load stay).
- `KeysAreOfTheView`: the list stands for scans of this session and this pattern, one for each part of
  the keyspace in front of the cursor. It has all they found but for keys deleted since, and nothing
  else but keys saved since, which need not match the pattern.
- `DraftIsOfTheKeyShown` holds for details that came with a selection on the page; `dragged` is set by
  details that came with one in the sidebar or a mutation's own, and reset by the next one on the page.
- `EventuallyIdle`: once the user waits, the spinners stop.
- `StoredIsTheWorkspace`, `ReopensWhereItWasLeft`: see their comments in `SessionService`. Going
  home clears the pipeline. A restore that fails forgets the session of a workspace opened from the
  menu meanwhile; one that goes on puts its file in place of the one opened. The pipeline of an
  SQLite file is only certain to come back at the first launch: restoring saves the session without
  it until the builder has opened it. The key a Redis session remembers is never selected again.
- `BatchesAreAtomic`, `EveryConnectionHasItsCommand`, `EveryPoolIsReachable`,
  `IdleIsCleanUnlessTimedOut`, `EveryCommandEnds`: see their comments in `SqlAccess`.

### Where the code does not do what is said of it

- `loadSavedQuery` checks the database first and restores the steps when the row count arrives,
  onto whatever table is open then (`SavedQueryLandsInItsDatabase`).
- The settle timer is restarted by a successful run only. Removing the last step, an undo to the
  empty pipeline, a failing edit or another table let it log a query the user has left
  (`LogsTheSettledQuery`, which TLC refutes under the bounds of `pipeline_editing`; no run of its own).
- The time limit cuts a schema script off without its clean-up, and the connection goes back to the
  pool without foreign keys or with its transaction open (`IdleIsClean`).
- A batch of edits finds its rows by primary key alone and overwrites what someone else has changed
  since (`ChangedRowsAreLeftAlone`).
- The builder goes on with the columns the open table was opened with after they were altered in the
  workspace (`pipeline.store.ts:160-168`): opening the table again keeps them, only another table in
  between brings the new ones. Until then the UI offers columns the preview does not have, against
  `docs/architecture.md:61-65`, and a JOIN may return a name twice. TLC refutes `ColumnsAreTracked`
  without its condition on `outdated`; no run of its own.
- "Save string" can write the text of one Redis key to another: a key selected in the sidebar, or
  selected again by a mutation, is shown while the page keeps its text
  (`redis-workspace.component.ts:62-81`, `sidebar.component.ts:145-147`). TLC refutes
  `DraftIsOfTheKeyShown` without its condition on `dragged`; no run of its own.
- A saved Redis key is listed although the pattern on show does not match it, until the next scan from
  the start (`redis-workspace.store.ts:118-119`).
- A JOIN of a subpipeline leaves `table` empty, which the validation of a stored session refuses:
  the workspace does not come back (`EverySessionComesBack`).

### Fairness

Users may stop at any time: no fairness on their actions. `PipelineStore` assumes that timers fire
and that every call of the backend ends, which the time limit of the native layer sees to.
`SqlAccess` assumes that a command that can go on does, that opening a pool ends (`connect_with`
is bounded by `acquire_timeout`), and that the time limit expires; it does not assume that a
statement ever ends by itself. The lock needs weak fairness only, as there are finitely many
commands and each takes it once. The workspaces assume that every call is answered, at the latest
with its time limit. `SessionService` assumes nothing and promises no liveness.

## Proofs

`PipelineStoreProofs` proves, from `PipelineAssumption` (the constants' types; the history keeps at
least two states; a restored pipeline has steps), for all numbers of tables, steps, runs and undo states:

| Theorem | Statement |
|---------|-----------|
| `TypeCorrect` | `Spec => []TypeOK` |
| `InductiveInvariant` | `Spec => []IInv` |
| `ResultsAlwaysMatch` | `Spec => []ResultsMatchPipeline` |
| `BlockedExactlyBehindErrors` | `Spec => []BlockedBehindError` |
| `SpinnersAreAhead` | `Spec => []LoadingOnlyAhead` |
| `RowCountIsOfSource` | `Spec => []RowCountOfSource` |
| `RestoreWaitsElsewhere` | `Spec => []PendingRestoreIsElsewhere` |

None of the properties is inductive: whether a reply may be shown depends on what the run that asked
for it captured. The invariant `IInv` adds that

- ids of runs are not above `runId`, and at most one run has the latest id;
- the latest run was started from the pipeline on show, waits for the step `runningIndex`, and that
  step compiles to a query;
- `Valid` holds below the frontier: every preview the latest run has passed is current, "blocked"
  exactly behind an error, and without a spinner;
- if there is no latest run, `runningIndex` is 0 or belongs to a run that the user has abandoned by
  leaving the table, and `Valid` holds for all steps.

The argument follows the code: an edit at `i` leaves the previews before `i` valid
(`ValidAgree`, as the new steps agree with the old ones below `i`); `executeFrom` starts at or
before the frontier (`ResumeFacts`), so the steps it does not run are valid; it either blocks
everything from there (`ExecuteKeepsInv` with `ValidBlock`) or goes on through steps without
query (`ContinueKeepsInv` with `PassFacts`) to the next await, and `PreviewArrives` extends the
valid part by one. There is one lemma per action.

The module also proves the refinement of `UndoStack`, from that invariant and

| Theorem | Statement |
|---------|-----------|
| `HistoryIsBounded` | `Spec => []HistoryInv`: `steps = history[historyIndex]`, and there are no more states than the cap |
| `UndoIsAStack` | `Spec => UndoSpec` |

With a longer list, or another pipeline on show, cutting the list at its front, as the code does,
would not be the abstract step, which drops the oldest of the past. There is a lemma for each step
of the stack (`RecordIsDo`, `ResetIsReset`, `BackIsUndo`, `ForwardIsRedo`), and every action is one
of these or leaves the states alone.

`PipelineSqlProofs` proves, from `CompiledAssumption` (what steps hold is `StepContent`; no table names
a column twice, at first or once altered), for pipelines of any length and content, any tables, alterations and
variables:

| Theorem | Statement |
|---------|-----------|
| `EveryPipelineTracksItsColumns` | `TracksColumns(env, table, ss)` for every table, sequence of steps and `IsEnv(env, table)`: the schema tells the columns the tables have, and the caller those of `table` or none |
| `EveryPipelineKeepsItsOrdering` | `KeepsOrdering(env, table, ss)` for every environment, truthful or not |
| `ColumnsAlwaysTracked`, `OrderingAlwaysSurvives` | `CompiledSpec => []ColumnsAreTracked`, `CompiledSpec => []OrderingSurvives` |
| `JoinedNamesDiffer` | the names a JOIN gives differ from each other and from those on the left |

These are inductions over the steps, and no induction theorem of the library can be applied to a
predicate here. `IntervalInduction` does it for a set of numbers, from the well-foundedness of
the naturals: once to show that the recursive function in `Written`, `Projected`, `Chain` or `Results`
exists, once to go along the steps.

- Columns: `StepTracks` is what one step promises, that it tells of the columns it returns if it is told
  of those it reads. `EveryStepTracks` proves it of each type of step. A JOIN promises it if
  it is told of its right side (`Supplied`): of a table by the schema, of a subpipeline by `ChainTracks`
  applied to its steps, which have no subpipeline. `UniqueNameIsNew` is why names stay apart:
  of one more numbered names than there are names taken one is free, by the pigeonhole principle.
- Ordering: that the ordering is the one of an ORDER BY in effect is not inductive. A SELECT that
  drops a sorted column resets the ordering, and would leave an earlier ORDER BY in effect if there
  could be one. `OrderedBy` adds that there is one at most. `EveryStepOrders` sorts the steps
  into four kinds: those that leave the order alone, begin one, end it, and the SELECTs, which keep
  it if they keep its columns (`SelectHolds`: each with what it held, unless it is renamed).

- Told columns: `ColumnsInv` says that no table names a column twice, and that the copied columns are
  those of the open table unless `outdated`. `ColumnsStep` keeps it through every action of the store
  (`FollowingKeeps`), every alteration (`AlteringKeeps`) and every reload; `StoreIsUnderneath` brings
  the store's own invariants along. With that and a schema that was read, what a pipeline is compiled
  with is `IsEnv` (`ToldTheTruth`), the condition of `EveryPipelineTracksItsColumns`.

What a joined column holds is not among these theorems, only that it is one of the right side's.

`StepCardsProofs` proves, from `StepCardsAssumption` (the types of steps and saved queries, saved
queries without a repeated id, a cap of at least two), for all sets of ids, saved queries, tables and bounds:

| Theorem | Statement |
|---------|-----------|
| `StepCardsInv` | `Spec => []IInv` |
| `StepCardsTypeOK` | `Spec => []TypeOK` |
| `CardsFollow` | `Spec => CardsFollowTheirSteps` |

`IInv` adds two things to the types. The editor in a card shows the card's sub-steps, unless its
timer runs: a commit writes the card's copy, and would otherwise take back what the editor shows. And
the ids in all undo states and saved queries are in `used`: a step that comes back by undo finds
its card gone or its own, never that of a step added since. One lemma for everything that commits
(`CommitFollows`) says that it is enough to write all that changed: the fields a JOIN does not write
are those of the mode it is not in. There is a lemma for each other kind of action.

`SqlAccessProofs` proves, from `SqlAssumption` (the constants' types; there is a handle; the nulls
are none of the values they stand in for), for all numbers of commands, pools and connections and
for every set of requests, sensible or not:

| Theorem | Statement |
|---------|-----------|
| `TypeCorrectness` | `Spec => []TypeOK` |
| `Invariant` | `Spec => []Inv` |
| `PoolsAreReachable` | `Spec => []EveryPoolIsReachable` |
| `ConnectionsHaveCommands` | `Spec => []EveryConnectionHasItsCommand` |

`Inv` adds two things to the types. `PoolInv`: a pool that is opened and not yet in the map is
open, unknown to the map and of one command only; without it, inserting a pool could close it, or
another command's. `ConnectionInv`: the connection of a command is in use, two commands never have
the same, and one in use has its command. Steps of a command with a connection have two shapes
(`RunningStepShapes`): it goes on with the connection, or gives it back and ends; the rest of the
proof needs no more of statements, failures, clean-up and the time limit than that.

Its second half goes on from there, with `RequestAssumption`: a request is a single statement
(`Single`), a transactional batch of reads and writes (`Batch`), or a script with its own `BEGIN`
and `COMMIT`, between pragmas or not, and with the clean-up of the schema builders (`Script`).
These are the requests the app makes of its own. A user who types `BEGIN` or `COMMIT` in the query
tab sends something else, for which neither statement below holds: nothing in the code keeps a
typed transaction to one connection.

| Theorem | Statement |
|---------|-----------|
| `BatchInvariant` | `Spec => [](Inv /\ BatchInv /\ CleanlinessInv)` |
| `BatchesHold` | `Spec => []BatchesAreAtomic` |
| `IdleHolds` | `Spec => []IdleIsCleanUnlessTimedOut` |

Batches and scripts alike open their transaction at `Start(r)` and commit at `Finish(r)`, and
`BatchInv` says how far a command is between the two: before, it has written nothing; inside, its
connection holds exactly what it has written, although another command may have left the
connection with its transaction open; after, exactly that is committed. `CleanlinessInv` says, as
long as no script was cut off, that a connection is in a transaction inside only, and without
foreign keys only between the pragmas of a script.

`SqliteWorkspaceProofs`, from `SqliteAssumption`, for all files, tables, keys, page sizes and bounds:

| Theorem | Statement |
|---------|-----------|
| `StateIsSound`, `TypeCorrect` | `Spec => []StateInv`, `Spec => []TypeOK` |
| `GridsShowTheView` | `Spec => []GridShowsTheView` |
| `SpinnersHaveALoad` | `Spec => []SpinnerHasALoad` |
| `RowsHaveOneEdit` | `Spec => []OneEditPerRow` |
| `InsertsHappenOnce` | `Spec => []InsertedOnce` |

- `StateInv` has the types and that whatever is done to a table has an open file.
- `EditInv` counts: a staged row that waits, in the edits or in a batch, has been inserted only by
  batches whose reply was lost, one that does not wait once more at most. A batch in the model is a
  recursive function over its operations; that it carries each out once is shown by induction over
  an interval, stated for a set of numbers (`IntervalInduction`, from the well-foundedness of the
  naturals), and the function exists by `RecursionOnInterval`.
- `GridInv` explains why a page never repeats a row although pages are asked for by offset: the rows
  of the table that the grid has not passed start at `loadOffset` or before it (`NextPage`), as
  rows may go but none come without a load; and the view has at most one load under way
  (`LiveLoads`). While a rename has run and the schema is not reloaded yet, the grid's table goes by
  another name in the file (`NowNamed`), and the old name is free (`RenameInv`).

`GridShowsTheView` was once stated with the first kind of `astray` only, and held up to five acts. The
proof did not go through; the step where it stopped led to a run of six acts in which a table that
is still selected but gone from the file is replaced by renaming another to its name, and the next
page repeats a row. The other kinds are there since.

`MysqlWorkspaceProofs`, from `MysqlAssumption`, for all profiles, schemas, tables, texts and bounds:

| Theorem | Statement |
|---------|-----------|
| `TypesHold` | `Spec => []TypeOK` |
| `GridIsOfTheView` | `Spec => []RowsAreOfTheView` |
| `SelectionHolds` | `Spec => []SelectionIsConsistent` |
| `EditsHold` | `Spec => []EditsAreOfTheSelection` |
| `ConnectionsHold` | `Spec => []ConnectionsHaveTheirUse` |
| `NewestQueryHolds` | `Spec => []NewestQueryWins` |

Here the request ids do the work: at most one load of a kind is the newest, it has the spinner, is of
the present view, and asks for the page behind the last (`Sound`, `Viewed`, `RowsInv`). The store's methods
call each other, so there is an invariant that every method keeps (`StoreInv`) and a weaker one
for a method that is half done (`Half`). `SlotInv` ties loads to the attempts that wait for them,
`BudgetInv` keeps a session's number in reserve for each attempt, and `AttemptInv` says what
a single attempt owns: the connection that is open is the session's or its own.

`RedisWorkspaceProofs`, from `RedisAssumption`, for all targets, keys, types, patterns and bounds:

| Theorem | Statement |
|---------|-----------|
| `TypesHold` | `Spec => []TypeOK` |
| `ListIsOfTheView` | `Spec => []KeysAreOfTheView` |
| `SelectionIsShown` | `Spec => []DetailsAreOfTheSelection` |
| `TextIsOfTheKey` | `Spec => []DraftIsOfTheKeyShown` |
| `SessionsAreOpen` | `Spec => []SessionHasItsPage` |
| `ExportsAreFaithful` | `Spec => []ExportIsFaithful` |

`ListInv`: the newest scan goes on where the list ends, and the list is what was scanned with what was
saved and deleted since, unless it is about to be replaced. `KeyInv`: the newest load of a key is of the selected one. `MutationInv`
ties the loads mutations wait for to the mutations. `ExportInv` is the invariant of the export's
loop: each key is read, being read or still to be read at most once, and every key in front of the
cursor that was there all along is among these.

`SessionServiceProofs`, from `SessionAssumption`, for any files, tables, keys, pipelines and bounds:

| Theorem | Statement |
|---------|-----------|
| `StoredFollows` | `Spec => []StoredIsTheWorkspace` |
| `TypesHold` | `Spec => []TypeOK` |
| `Invariant` | `Spec => [](TypeInv /\ ReopenInv)` |
| `SessionComesBack` | `Spec => []ReopensWhereItWasLeft` |

The first property is inductive as it stands: whatever an action does, the autosave behind it looks at
the workspace it left (`AutosaveFollows`), an action without the autosave leaves the workspace alone
(`SameSession`), and a new process has none (`NothingOpen`). For the last, `ReopenInv` follows an
undisturbed restore from await to await: nothing is on the page before the session is read, what
is stored or about to be saved is the session that was left as far as restoring keeps it
(`SavedAgain`), and each stage has opened just its part.

Model-checked only:

- the liveness properties (`EventuallySettled`, `EveryCommandEnds`, `EventuallyIdle`), which rest on
  fairness and ENABLED;
- the counterexamples.

## Not modelled

- The text and execution of SQL, quoting and bound values, value conversion, rendering, file and
  keychain access, the landing page and the build.
- Exports of tables and queries, which change nothing but their own flag and error line; only the Redis
  export, which reads while others write, is modelled.
- A table that is dropped or renamed while the builder has it open, and the columns a saved query brings
  along for a table its workspace no longer lists (`pipeline.store.ts:307`).
- The fallback of `columnsFromTables` to a table's short name: a MySQL builder left on a table of another
  schema is told of the tables of that name in the listed one.
- Passwords and the lists of profiles, recent items, saved queries and history: capped lists changed
  in one synchronous call.
- The updater: a poll and a modal that share no state with the rest.
- Export impact, DDL builders, `findVariables` and `suggestJoinOn`: functions of a text or a
  schema, without state.

`PROJECT.json` gives the reason for each component.

## What is left to prove

Refinements of more abstract specifications: a batch as one atomic step of the database, a
workspace's list as a cache of the server's that follows the selection.
