----------------------------- MODULE MCStepCards -----------------------------
(***************************************************************************)
(* An instance of StepCards for TLC: one step of every type to add, and a  *)
(* JOIN on a subpipeline, which was saved in an earlier session.           *)
(***************************************************************************)
EXTENDS StepCards

MCKindOf == [where |-> "WHERE", select |-> "SELECT", order |-> "ORDER_BY", group |-> "GROUP_BY",
             raw |-> "RAW_SQL", join |-> "JOIN", branch |-> "JOIN"]
MCIds == DOMAIN MCKindOf

Subjoin == [id |-> "branch",
            at |-> [Empty EXCEPT !["mode"] = Subpipeline, !["subTable"] = 10, !["subSteps"] = 10]]
MCSaved == {[table |-> "t1", steps |-> <<Subjoin>>]}
=============================================================================
