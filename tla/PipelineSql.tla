---------------------------- MODULE PipelineSql ----------------------------
(***************************************************************************)
(* The pipeline compiler of packages/shared/src/pipeline-sql.ts: a source  *)
(* table and its steps become one query per step, each a SELECT from the   *)
(* one before.  The compiler follows the columns and the ordering through  *)
(* the steps without ever seeing a row.                                    *)
(*                                                                         *)
(* A column's name is a sequence of parts: <<"customers", "id">> is        *)
(* customers_id.  A text the user types is [is, name, uses]: blank, a      *)
(* column, `*` or a computation, with the variables it uses.  The case of  *)
(* names, directions of sorting and the SQL text itself are left out; a    *)
(* query is what its SELECT lists (`body`).                                *)
(*                                                                         *)
(* The second half says what such a query returns on a database.  It is    *)
(* the measure for the first half and models no code of Quarry.            *)
(*                                                                         *)
(* A subpipeline may not hold another one, so both halves go one level     *)
(* deep: the steps of a pipeline are compiled with what the subpipelines   *)
(* of its JOINs compile to.                                                *)
(***************************************************************************)
EXTENDS Integers, SequencesExt

(* env: what compilePipeline is given besides the steps: the dialect, the   *)
(* variables that have a value, the columns its caller says the source      *)
(* table has (columns: sourceColumns) and those the backend tells of the    *)
(* tables it has listed (schema).  The compiler takes both as it is told.   *)
(* tables, the columns the tables have, only the database knows.            *)

NoLimit == -1
Known(names) == [known |-> TRUE, names |-> names]
Unknown      == [known |-> FALSE, names |-> <<>>]
ColumnsOf(env, table) ==
  IF table \in DOMAIN env.schema THEN Known(env.schema[table]) ELSE Unknown
SourceColumns(env, table) ==
  IF env.columns.known THEN env.columns ELSE ColumnsOf(env, table)

IsBlank(text) == text.is = "blank"
Written(items) ==
  LET kept[k \in 0 .. Len(items)] ==
        IF k = 0 THEN <<>>
        ELSE IF IsBlank(items[k].expr) THEN kept[k - 1] ELSE Append(kept[k - 1], items[k])
  IN  kept[Len(items)]

(* user(): a text with a variable that has no value fails its step *)
LacksVariable(env, texts) == \E t \in texts : ~(t.uses \subseteq env.variables)
Exprs(items) == {items[k].expr : k \in DOMAIN items}

AggregationName(item) == IF item.alias # <<>> THEN item.alias ELSE <<item.fn>>
ProjectedName(item) == IF item.alias # <<>> THEN item.alias ELSE item.expr.name

(* name_2, name_3, ...: the number in strokes *)
Numbered(name, n) == name \o <<"_">> \o [k \in 1 .. n |-> "|"]

AnyName(name, taken) == name
UniqueName(name, taken) ==
  IF name \notin taken THEN name
  ELSE Numbered(name, CHOOSE n \in 2 .. Cardinality(taken) + 2 :
                        /\ Numbered(name, n) \notin taken
                        /\ \A m \in 2 .. n - 1 : Numbered(name, m) \in taken)

(***************************************************************************)
(* Steps: what flows in (columns, ordering) and what flows out.            *)
(***************************************************************************)
Out(columns, ordering, body) ==
  [columns |-> columns, ordering |-> ordering, isNoop |-> FALSE, error |-> "none", body |-> body]

AllRows == [is |-> "rows"]
Passthrough(input)  == [Out(input.columns, input.ordering, AllRows) EXCEPT !.isNoop = TRUE]
Fails(input, error) == [Out(input.columns, input.ordering, AllRows) EXCEPT !.error = error]

RequireColumns(input, names) ==
  input.columns.known => ToSet(names) \subseteq ToSet(input.columns.names)

Where(env, step, input) ==
  IF IsBlank(step.expr) THEN Passthrough(input)
  ELSE IF LacksVariable(env, {step.expr}) THEN Fails(input, "variable")
  ELSE Out(input.columns, input.ordering, AllRows)

AlwaysKeepsOrder(columns, ordering) == TRUE
KeepsOrder(columns, ordering) == columns.known /\ ToSet(ordering) \subseteq ToSet(columns.names)

Select(env, step, input) ==
  LET selected == Written(step.columns)
      columns  == IF \E t \in Exprs(selected) : t.is = "star" THEN Unknown
                  ELSE Known([k \in DOMAIN selected |-> ProjectedName(selected[k])])
  IN  IF selected = <<>> THEN Passthrough(input)
      ELSE IF LacksVariable(env, Exprs(selected)) THEN Fails(input, "variable")
      ELSE Out(columns,
               IF KeepsOrder(columns, input.ordering) THEN input.ordering ELSE <<>>,
               [is |-> "columns", items |-> selected])

OrderBy(step, input) ==
  IF ~RequireColumns(input, step.columns) THEN Fails(input, "column")
  ELSE IF step.columns = <<>> /\ step.limit = NoLimit THEN Passthrough(input)
  ELSE Out(input.columns,
           IF step.columns # <<>> THEN step.columns ELSE input.ordering, AllRows)

GroupBy(env, step, input) ==
  LET aggregations == Written(step.aggregations)
  IN  IF step.groupBy = <<>> THEN Passthrough(input)
      ELSE IF ~RequireColumns(input, step.groupBy) THEN Fails(input, "column")
      ELSE IF LacksVariable(env, Exprs(aggregations)) THEN Fails(input, "variable")
      ELSE Out(Known(step.groupBy \o [k \in DOMAIN aggregations |-> AggregationName(aggregations[k])]),
               <<>>, [is |-> "groups", keys |-> step.groupBy, items |-> aggregations])

RawSql(env, step, input) ==
  IF IsBlank(step.expr) THEN Passthrough(input)
  ELSE IF LacksVariable(env, {step.expr}) THEN Fails(input, "variable")
  ELSE Out(Unknown, <<>>, [is |-> "raw", yields |-> step.yields])

(* Joined columns keep their names unless the left side already uses them. *)
Projected(left, right, alias) ==
  LET names[k \in 0 .. Len(right)] ==
        IF k = 0 THEN <<>>
        ELSE LET taken     == ToSet(left.names) \cup ToSet(names[k - 1])
                 preferred == IF left.known /\ right[k] \notin taken THEN right[k]
                              ELSE <<alias>> \o right[k]
             IN  Append(names[k - 1], UniqueName(preferred, taken))
  IN  names[Len(right)]

RightTable(step) == IF step.mode = "subpipeline" THEN step.subTable ELSE step.table
RightAlias(step) == IF step.alias # "" THEN step.alias ELSE RightTable(step)

(* sub is what the subpipeline compiles to, <<>> for a table *)
Join(env, step, sub, input, leftAlias) ==
  LET table == RightTable(step)
      right == IF sub # <<>> THEN Last(sub).columns ELSE ColumnsOf(env, table)
      names == Projected(input.columns, right.names, RightAlias(step))
  IN  IF table = "" \/ IsBlank(step.on) THEN Passthrough(input)
      ELSE IF env.dialect = "mysql" /\ step.joinType = "FULL" THEN Fails(input, "full join")
      ELSE IF RightAlias(step) = leftAlias THEN Fails(input, "alias")
      ELSE IF \E k \in DOMAIN sub : sub[k].error # "none" THEN Fails(input, "subpipeline")
      ELSE IF ~right.known THEN Fails(input, "unknown table")
      ELSE IF LacksVariable(env, {step.on}) THEN Fails(input, "variable")
      ELSE Out(IF input.columns.known THEN Known(input.columns.names \o names) ELSE Unknown,
               <<>>,
               [is |-> "join", table |-> table, sub |-> sub, columns |-> right.names,
                as |-> names])

StepOf(env, step, sub, input, alias) ==
  CASE step.type = "WHERE"    -> Where(env, step, input)
    [] step.type = "SELECT"   -> Select(env, step, input)
    [] step.type = "ORDER_BY" -> OrderBy(step, input)
    [] step.type = "GROUP_BY" -> GroupBy(env, step, input)
    [] step.type = "JOIN"     -> Join(env, step, sub, input, alias)
    [] step.type = "RAW_SQL"  -> RawSql(env, step, input)

(* What every step of a pipeline compiles to.  A step that fails lets its   *)
(* input pass, so that the steps behind it are compiled all the same.       *)
Chain(env, columns, steps, alias, subs) ==
  LET current[k \in 0 .. Len(steps)] ==
        IF k = 0 THEN Out(columns, <<>>, AllRows)
        ELSE StepOf(env, steps[k], subs[k], current[k - 1], alias)
  IN  [k \in 1 .. Len(steps) |-> current[k]]

Subpipeline(env, step) ==
  IF step.type = "JOIN" /\ step.mode = "subpipeline"
  THEN Chain(env, ColumnsOf(env, step.subTable), step.subSteps, RightAlias(step),
             [k \in DOMAIN step.subSteps |-> <<>>])
  ELSE <<>>

CompilePipeline(env, table, steps) ==
  Chain(env, SourceColumns(env, table), steps, table,
        [k \in DOMAIN steps |-> Subpipeline(env, steps[k])])

(***************************************************************************)
(* A database: the columns a query returns, each with what it holds.       *)
(***************************************************************************)
Column(name, holds) == [name |-> name, holds |-> holds]
NamesOf(result) == [k \in DOMAIN result |-> result[k].name]

Held(result, name) ==
  IF \E k \in DOMAIN result : result[k].name = name
  THEN result[CHOOSE k \in DOMAIN result : result[k].name = name].holds
  ELSE <<"nothing">>

Holds(input, text) ==
  IF text.is = "column" THEN Held(input, text.name) ELSE <<"computed">> \o text.name

Listed(input, items) ==
  LET One(item) == Column(ProjectedName(item), Holds(input, item.expr))
  IN  IF \E t \in Exprs(items) : t.is = "star"
      THEN FlattenSeq([k \in DOMAIN items |->
                         IF items[k].expr.is = "star" THEN input ELSE <<One(items[k])>>])
      ELSE [k \in DOMAIN items |-> One(items[k])]

TableRows(env, table) ==
  [k \in DOMAIN env.tables[table] |->
     Column(env.tables[table][k], <<table>> \o env.tables[table][k])]

(* What a step makes of the rows before it; right is what it joins them to. *)
Returned(input, body, right) ==
  CASE body.is = "rows"    -> input
    [] body.is = "columns" -> Listed(input, body.items)
    [] body.is = "raw"     -> [k \in DOMAIN body.yields |->
                                 Column(body.yields[k], <<"raw">> \o body.yields[k])]
    [] body.is = "groups"  ->
         [k \in DOMAIN body.keys |-> Column(body.keys[k], Held(input, body.keys[k]))]
         \o [k \in DOMAIN body.items |->
               Column(AggregationName(body.items[k]),
                      <<"computed">> \o AggregationName(body.items[k]))]
    [] body.is = "join"    ->
         input \o [k \in DOMAIN body.as |-> Column(body.as[k], Held(right, body.columns[k]))]

(* The rows behind every step: [0] is the table. *)
Results(env, table, outputs, rights) ==
  LET after[k \in 0 .. Len(outputs)] ==
        IF k = 0 THEN TableRows(env, table)
        ELSE Returned(after[k - 1], outputs[k].body, rights[k])
  IN  after

Joined(env, body) ==
  IF body.is = "join" THEN TableRows(env, body.table) ELSE <<>>

RightOf(env, body) ==
  IF body.is = "join" /\ body.sub # <<>>
  THEN Results(env, body.table, body.sub,
               [k \in DOMAIN body.sub |-> Joined(env, body.sub[k].body)])[Len(body.sub)]
  ELSE Joined(env, body)

Returns(env, table, outputs) ==
  Results(env, table, outputs, [k \in DOMAIN outputs |-> RightOf(env, outputs[k].body)])
=============================================================================
