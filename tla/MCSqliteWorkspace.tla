------------------------- MODULE MCSqliteWorkspace -------------------------
(***************************************************************************)
(* Instances of SqliteWorkspace for TLC.                                   *)
(***************************************************************************)
EXTENDS SqliteWorkspace

MCKeys == 1 .. 3
MCFirstKeys == 1 .. 2
=============================================================================
