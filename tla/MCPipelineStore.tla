--------------------------- MODULE MCPipelineStore ---------------------------
(***************************************************************************)
(* PipelineStore on small instances.  The steps of the store are names of  *)
(* contents, and what the compiler says of a pipeline is a table that TLC  *)
(* reads quicker than it compiles: TableIsCompiled checks it.              *)
(***************************************************************************)
EXTENDS PipelineStore, PipelineSql

Id == <<"id">>  Total == <<"total">>  CustomersId == <<"customers", "id">>
Label == <<"name">>  Count == <<"count">>  Reason == <<"reason">>  Paid == <<"paid">>

(* `orders` has a column customers_id, the name a joined customers.id is given.  *)
(* No backend knows the columns of `hidden` yet.                                 *)
TableColumns == [orders    |-> <<Id, Total, CustomersId>>,
                 returns   |-> <<Id, Reason>>,
                 customers |-> <<Id, Label>>,
                 hidden    |-> <<Id, Label>>]
Listing == DOMAIN TableColumns \ {"hidden"}

(* What the user makes of two of them. *)
Altered == [orders |-> <<Id, Paid>>, customers |-> <<Id, Label, Paid>>]

(* The database db2 is a MySQL schema. *)
MCDialectOf(path) == IF path = "db2" THEN "mysql" ELSE "sqlite"
MCAssigned(vv) == IF vv = Unset THEN {} ELSE {"min"}

TextOf(is, name, uses) == [is |-> is, name |-> name, uses |-> uses]
Blank    == TextOf("blank", <<>>, {})
Typed    == TextOf("computed", <<"typed">>, {})
Col(c)   == TextOf("column", c, {})
Star     == TextOf("star", <<>>, {})
As(expr, alias) == [expr |-> expr, alias |-> alias]
Counted(alias)  == [fn |-> "count", expr |-> Star, alias |-> alias]

WhereStep(expr)        == [type |-> "WHERE", expr |-> expr]
SelectStep(items)      == [type |-> "SELECT", columns |-> items]
OrderStep(by, limit)   == [type |-> "ORDER_BY", columns |-> by, limit |-> limit]
GroupStep(keys, items) == [type |-> "GROUP_BY", groupBy |-> keys, aggregations |-> items]
JoinOf(table, alias)   == [type |-> "JOIN", mode |-> "inline", joinType |-> "INNER",
                           table |-> table, subTable |-> "", subSteps |-> <<>>,
                           alias |-> alias, on |-> Typed]
SubJoinOf(table, subSteps) == [JoinOf("", "") EXCEPT !.mode = "subpipeline",
                                 !.subTable = table, !.subSteps = subSteps]

MCContent ==
  [blank     |-> WhereStep(Blank),
   param     |-> WhereStep(TextOf("computed", <<"typed">>, {"min"})),
   join      |-> JoinOf("customers", ""),
   byJoined  |-> OrderStep(<<Label>>, NoLimit),
   byTotal   |-> OrderStep(<<Total, Id>>, 1),
   first     |-> OrderStep(<<>>, 1),
   some      |-> SelectStep(<<As(Col(Total), <<>>), As(Col(Id), <<>>)>>),
   one       |-> SelectStep(<<As(Col(Id), <<>>), As(Typed, Count)>>),
   swapped   |-> SelectStep(<<As(Col(Total), Id), As(Col(Id), Total)>>),
   all       |-> SelectStep(<<As(Star, <<>>)>>),
   grouped   |-> GroupStep(<<Total>>, <<Counted(<<>>)>>),
   named     |-> GroupStep(<<CustomersId>>, <<Counted(Id)>>),
   again     |-> JoinOf("customers", "c2"),
   self      |-> JoinOf("orders", ""),
   full      |-> [JoinOf("customers", "") EXCEPT !.joinType = "FULL"],
   unknown   |-> JoinOf("hidden", ""),
   sub       |-> SubJoinOf("customers", <<OrderStep(<<Label>>, 1), JoinOf("orders", "")>>),
   subNamed  |-> SubJoinOf("hidden", <<SelectStep(<<As(Col(Label), CustomersId)>>)>>),
   subFails  |-> SubJoinOf("customers", <<GroupStep(<<Total>>, <<>>)>>),
   raw       |-> [type |-> "RAW_SQL", expr |-> Typed, yields |-> <<Id, Total>>]]

T(p, t) == [path |-> p, table |-> t]

NoPipelines == {}
OneSaved   == {[target |-> T("db1", "orders"), steps |-> <<"join">>]}
OneSession == {[target |-> T("db2", "orders"), steps |-> <<"param">>, vars |-> "typed"]}

(* The compiler's verdict on the last step of a pipeline. *)
MCCompiled(src, prefix, vv) ==
  CASE Last(prefix) = "blank"                                       -> "noop"
    [] Last(prefix) = "byJoined" /\ "join" \notin ToSet(prefix)     -> "error"
    [] Last(prefix) = "param" /\ vv = Unset                         -> "error"
    [] OTHER                                                        -> "query"

VerdictOf(out) == IF out.error # "none" THEN "error" ELSE IF out.isNoop THEN "noop" ELSE "query"

\* The compiler gives the verdict of MCCompiled on every pipeline the store can hold,
\* whichever columns it is told the source and the other tables have.
ASSUME TableIsCompiled ==
  LET States == {TableColumns, Altered @@ TableColumns}
  IN  \A src \in Target, vv \in Values, own, others \in States :
        \A prefix \in UNION {[1 .. n -> Step] : n \in 1 .. MaxSteps} :
          MCCompiled(src, prefix, vv) =
            VerdictOf(Last(CompilePipeline(
              [dialect |-> MCDialectOf(src.path), variables |-> MCAssigned(vv),
               columns |-> Known(own[src.table]), schema |-> [t \in Listing |-> others[t]]],
              src.table, [k \in DOMAIN prefix |-> MCContent[prefix[k]]])))
=============================================================================
