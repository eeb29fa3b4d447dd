----------------------------- MODULE MCSqlAccess -----------------------------
(* SqlAccess with the requests of the app: staged edits run as a batch, a   *)
(* table is rebuilt by a script (buildDropColumnScript), other statements   *)
(* run alone.                                                               *)
EXTENDS SqlAccess

Req(kind, h, statements, transactional, onError) ==
  [kind |-> kind, handle |-> h, statements |-> statements,
   transactional |-> transactional, onError |-> onError]

Connect(h)    == Req("connect", h, <<>>, FALSE, <<>>)
Disconnect(h) == Req("disconnect", h, <<>>, FALSE, <<>>)
Edits(h)      == Req("execute", h, <<"writeRows", "write">>, TRUE, <<>>)
Rebuild(h)    == Req("execute", h, <<"fkOff", "BEGIN", "write", "COMMIT", "fkOn">>, FALSE,
                     <<"ROLLBACK", "fkOn">>)
EditView(h)   == Req("execute", h, <<"BEGIN", "write", "COMMIT">>, FALSE, <<"ROLLBACK", "fkOn">>)
Query(h)      == Req("select", h, <<"read">>, FALSE, <<>>)

FileRequests == {Connect("file"), Disconnect("file"), Edits("file"), Rebuild("file"), EditView("file")}
AllRequests  == FileRequests \cup
                {Connect("server"), Disconnect("server"), Query("server")}
=============================================================================
