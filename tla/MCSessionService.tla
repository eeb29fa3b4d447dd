-------------------------- MODULE MCSessionService --------------------------
(***************************************************************************)
(* SessionService with values for TLC: two files, one MySQL profile, one   *)
(* Redis target, and three pipelines: none, a WHERE step, and a JOIN with  *)
(* a subpipeline, which runs but which the validation refuses.             *)
(***************************************************************************)
EXTENDS SessionService

CONSTANTS f1, f2, t1, t2, k1

MCFiles  == {f1, f2}
MCTables == {t1, t2}
MCKeys   == {k1}

Where  == [type |-> "WHERE"]
SubJoin == [type |-> "JOIN", mode |-> "subpipeline", table |-> NoName, subTable |-> t2,
            subSteps |-> <<Where>>]
MCPipelines == {<<>>, <<Where>>, <<Where, SubJoin>>}

MCStoredAtFirst ==
  {NoSession, Garbage,
   SessionOf("none", f1, t1, "query", [path |-> f1, table |-> t1], <<Where>>)}
=============================================================================
