------------------------- MODULE MCCompiledPipeline -------------------------
(***************************************************************************)
(* CompiledPipeline on the instances of MCPipelineStore, above two tables  *)
(* of the first database that are altered at any time.                     *)
(***************************************************************************)
EXTENDS MCPipelineStore, CompiledPipeline

MCAllTables == DOMAIN TableColumns

MCAlterations == {[target |-> T("db1", "orders"), columns |-> Altered.orders]}

(* Every pipeline of at most three contents. *)
Upto3 == {[source |-> T("db1", "orders"), steps |-> ss, vars |-> "unset"] :
            ss \in UNION {[1 .. n -> DOMAIN MCContent] : n \in 1 .. 3}}
=============================================================================
