-------------------------- MODULE CompiledPipeline --------------------------
(***************************************************************************)
(* The pipeline on show and what the compiler makes of it: PipelineStore   *)
(* holds steps whose content PipelineSql compiles (compiled(),             *)
(* pipeline.store.ts) for the open table, the variables that have a value, *)
(* the columns the table was opened with and those its backend tells of    *)
(* the other tables.  The tables themselves change below it: the user      *)
(* alters them in the workspace or in a query, or another program does.    *)
(***************************************************************************)
EXTENDS PipelineStore, PipelineSql

CONSTANTS
  Content,        (* what the user has put into a step                            *)
  DialectOf(_),   (* the dialect of a database                                    *)
  Assigned(_),    (* the variables that have a value                              *)
  AllTables,      (* the tables of a database, further ones to join included      *)
  ListedTables,   (* those of them the workspace has listed                       *)
  InitialColumns, (* the columns each of them has at first                        *)
  Alterations,    (* what tables are altered to, [target, columns]                *)
  Samples         (* further pipelines to look at, before a table is opened       *)

VARIABLES
  database,       (* the columns the tables of every database have                *)
  listing,        (* those the workspace has last been told of, per database      *)
  sourceColumns,  (* source().columns, <<>> while no table is open                *)
  outdated        (* history variable: the open table was altered since it was    *)
                  (* opened, or was opened before its altered columns were read   *)

schemaVars   == <<database, listing>>
compiledVars == <<vars, schemaVars, sourceColumns, outdated>>

(***************************************************************************)
(* What a step may hold.  A subpipeline holds no JOIN with another one.    *)
(***************************************************************************)
Name        == Seq(STRING)
Text        == [is : {"blank", "column", "star", "computed"}, name : Name,
                uses : SUBSET STRING]
SelectItem  == [expr : Text, alias : Name]
Aggregation == [fn : STRING, expr : Text, alias : Name]

SimpleStep ==
  [type : {"WHERE"}, expr : Text]
    \cup [type : {"SELECT"}, columns : Seq(SelectItem)]
    \cup [type : {"ORDER_BY"}, columns : Seq(Name), limit : Nat \cup {NoLimit}]
    \cup [type : {"GROUP_BY"}, groupBy : Seq(Name), aggregations : Seq(Aggregation)]
    \cup [type : {"RAW_SQL"}, expr : Text, yields : Seq(Name)]

JoinStep(modes, subSteps) ==
  [type : {"JOIN"}, mode : modes, joinType : {"INNER", "LEFT", "RIGHT", "FULL"},
   table : STRING, alias : STRING, on : Text, subTable : STRING, subSteps : subSteps]

SubStep     == SimpleStep \cup JoinStep({"inline", "branch"}, {<<>>})
StepContent == SimpleStep \cup JoinStep({"inline", "branch", "subpipeline"}, Seq(SubStep))

\* The schema and the caller tell the columns tables have; no table names one twice.
IsSchema(env) ==
  /\ DOMAIN env.schema \subseteq DOMAIN env.tables
  /\ \A t \in DOMAIN env.tables : env.tables[t] \in Seq(Name)
  /\ \A t \in DOMAIN env.schema : env.schema[t] = env.tables[t] /\ IsInjective(env.schema[t])
IsEnv(env, table) ==
  /\ IsSchema(env)
  /\ env.columns.known => /\ table \in DOMAIN env.tables
                          /\ env.columns = Known(env.tables[table])
                          /\ IsInjective(env.tables[table])

Sample     == [source : Target, steps : Seq(DOMAIN Content), vars : Values]
Alteration == [target : [path : Paths, table : AllTables], columns : Seq(Name)]

ASSUME CompiledAssumption ==
  /\ Step \subseteq DOMAIN Content
  /\ \A c \in DOMAIN Content : Content[c] \in StepContent
  /\ TableNames \subseteq ListedTables /\ ListedTables \subseteq AllTables
  /\ InitialColumns \in [AllTables -> Seq(Name)]
  /\ \A t \in AllTables : IsInjective(InitialColumns[t])
  /\ \A a \in Alterations : a \in Alteration /\ IsInjective(a.columns)
  /\ \A p \in Samples : p \in Sample

(***************************************************************************)
(* The store above tables that change                                      *)
(***************************************************************************)
Told(columnsOf) == [t \in ListedTables |-> columnsOf[t]]

CompiledInit ==
  /\ Init
  /\ database = [p \in Paths |-> InitialColumns]
  /\ listing = [p \in Paths |-> Told(InitialColumns)]
  /\ sourceColumns = <<>>
  /\ outdated = FALSE

\* openForTable copies the columns the host, or loadSavedQuery, tells of a table it opens.
\* The open table opened again keeps the copy it has, and so does every other step.
ColumnsFollow ==
  IF source' = source THEN UNCHANGED <<sourceColumns, outdated>>
  ELSE IF source' = NoSource THEN sourceColumns' = <<>> /\ outdated' = FALSE
  ELSE /\ sourceColumns' = listing[source'.path][source'.table]
       /\ outdated' = (sourceColumns' # database[source'.path][source'.table])

\* alterAddColumn, alterRenameColumn and alterDropColumn, up to the reply of their DDL;
\* a statement of the query tab or of another program does the same.
Alter(a) ==
  /\ database[a.target.path][a.target.table] # a.columns
  /\ database' = [database EXCEPT ![a.target.path][a.target.table] = a.columns]
  /\ outdated' = (outdated \/ source = a.target)
  /\ UNCHANGED <<vars, listing, sourceColumns>>

\* reloadSchema, behind the DDL or on its own.  The backend on show reads the schema
\* whenever it is asked; nothing goes back to source().columns.
SchemaReloads(p) ==
  /\ listing' = [listing EXCEPT ![p] = Told(database[p])]
  /\ UNCHANGED <<vars, database, sourceColumns, outdated>>

CompiledNext ==
  \/ Next /\ ColumnsFollow /\ UNCHANGED schemaVars
  \/ \E a \in Alterations : Alter(a)
  \/ \E p \in Paths : SchemaReloads(p)

CompiledSpec     == CompiledInit /\ [][CompiledNext]_compiledVars
CompiledFairSpec == CompiledSpec /\ Fairness

(***************************************************************************)
(* What the columns the compiler tells of are worth.                       *)
(***************************************************************************)
\* The columns a step has from chips; the compiler puts them in quotes.
Picked(step) == CASE step.type = "ORDER_BY" -> ToSet(step.columns)
                  [] step.type = "GROUP_BY" -> ToSet(step.groupBy)
                  [] OTHER -> {}

\* The names a step gives to what it returns.
Given(step) ==
  CASE step.type = "SELECT"   -> LET items == Written(step.columns)
                                 IN  [k \in DOMAIN items |-> ProjectedName(items[k])]
    [] step.type = "GROUP_BY" -> LET items == Written(step.aggregations)
                                 IN  step.groupBy \o [k \in DOMAIN items |->
                                                        AggregationName(items[k])]
    [] OTHER -> <<>>

NamesOnce(contents) == \A k \in DOMAIN contents : IsInjective(Given(contents[k]))

\* Where the compiler knows the columns, the query returns just these, and none twice
\* unless the user gives a name twice.  A column picked for a step that compiles is
\* among those it reads, a column a JOIN takes from its right side is one of that side.
TracksColumns(env, table, contents) ==
  LET out   == CompilePipeline(env, table, contents)
      rows  == Returns(env, table, out)
      n     == Len(contents)
      input == IF n = 1 THEN SourceColumns(env, table) ELSE out[n - 1].columns
  IN  contents # <<>> =>
        /\ out[n].columns.known =>
             /\ NamesOf(rows[n]) = out[n].columns.names
             /\ NamesOnce(contents) => IsInjective(out[n].columns.names)
        /\ input.known /\ out[n].error = "none" =>
             Picked(contents[n]) \subseteq ToSet(NamesOf(rows[n - 1]))
        /\ out[n].body.is = "join" =>
             NamesOf(RightOf(env, out[n].body)) = out[n].body.columns

(***************************************************************************)
(* Which ORDER BY the rows still come in the order of.                     *)
(***************************************************************************)
IsSort(step, out) == step.type = "ORDER_BY" /\ step.columns # <<>> /\ out.error = "none"

\* A step that leaves the rows in order and the columns of an ORDER BY there.
Keeps(step, out, columns) ==
  \/ out.isNoop \/ out.error # "none"
  \/ step.type = "WHERE"
  \/ step.type = "ORDER_BY" /\ step.columns = <<>>
  \/ step.type = "SELECT" /\ out.columns.known /\ columns \subseteq ToSet(out.columns.names)

\* The ORDER BY that is still in effect behind the steps, if one is.
Effective(contents, out) ==
  {j \in DOMAIN contents :
     /\ IsSort(contents[j], out[j])
     /\ \A i \in j + 1 .. Len(contents) :
          Keeps(contents[i], out[i], ToSet(contents[j].columns))}

\* A SELECT that gives the name of a column to something else.
Renames(step, name) ==
  /\ step.type = "SELECT"
  /\ \E k \in DOMAIN step.columns :
       /\ ProjectedName(step.columns[k]) = name
       /\ ~(step.columns[k].expr.is = "column" /\ step.columns[k].expr.name = name)

\* The rows come in that order, by columns that hold what they held there, unless a
\* SELECT has given their name to another column.
KeepsOrdering(env, table, contents) ==
  LET out      == CompilePipeline(env, table, contents)
      rows     == Returns(env, table, out)
      n        == Len(contents)
      ordering == out[n].ordering
  IN  contents # <<>> =>
        \/ Effective(contents, out) = {} /\ ordering = <<>>
        \/ \E j \in Effective(contents, out) :
             /\ ordering = contents[j].columns
             /\ \A name \in ToSet(ordering) :
                  \/ Held(rows[n], name) = Held(rows[j], name)
                  \/ \E i \in j + 1 .. n : Renames(contents[i], name)

(***************************************************************************)
(* Properties of the pipeline on show; and, before the first table is      *)
(* opened, of the samples.                                                 *)
(***************************************************************************)
Untouched == runId = 0 /\ Len(history) = 1 /\ database = [p \in Paths |-> InitialColumns]

Considered ==
  IF source # NoSource
  THEN {[source |-> source, steps |-> steps, vars |-> variableValues, columns |-> sourceColumns]}
  ELSE IF Untouched
       THEN {[source |-> p.source, steps |-> p.steps, vars |-> p.vars,
              columns |-> listing[p.source.path][p.source.table]] : p \in Samples}
       ELSE {}

EnvOf(p) == [dialect   |-> DialectOf(p.source.path),
             variables |-> Assigned(p.vars),
             columns   |-> Known(p.columns),
             schema    |-> listing[p.source.path],
             tables    |-> database[p.source.path]]

ContentsOf(names) == [k \in DOMAIN names |-> Content[names[k]]]

\* The workspace has read the columns of a database since they were last altered.
SchemaIsRead(path) == listing[path] = Told(database[path])

\* "The compiler knows the columns flowing out of every step ...  The UI offers exactly
\* those columns", and "results never contain duplicate names" (docs/architecture.md:61-65):
\* what the builder offers to pick from is what the preview shows, as long as the open table
\* has the columns it was opened with and the backend has read those of the others.  Once it
\* is altered the store goes on with the old columns until another table is opened, and the
\* sentence no longer holds (see README.md).  Behind a raw SQL step the compiler does not
\* know the columns: there two joins of one table do return a name twice.
ColumnsAreTracked ==
  \A p \in Considered : ~outdated /\ SchemaIsRead(p.source.path) =>
    TracksColumns(EnvOf(p), p.source.table, ContentsOf(p.steps))

\* "The last effective ORDER BY is re-applied to the final query" (docs/architecture.md:67):
\* it is sorted by the last one that is still in effect, and by none if none is, also when
\* the columns of the table have changed behind the store.  When a SELECT gives the name of
\* a sorted column to another one, it is that one the final query is sorted by.
OrderingSurvives ==
  \A p \in Considered : KeepsOrdering(EnvOf(p), p.source.table, ContentsOf(p.steps))
=============================================================================
