----------------------------- MODULE SqlAccess -----------------------------
(***************************************************************************)
(* The native SQL layer, src-tauri/src/sql/mod.rs: the commands            *)
(* sql_connect, sql_select, sql_execute and sql_disconnect, which run      *)
(* concurrently and share a map from handles to connection pools behind a  *)
(* read-write lock.                                                        *)
(*                                                                         *)
(* One action is what a command does between two awaits.  The read lock is *)
(* only held within such a step; the write lock is held while a pool       *)
(* closes, by `writer`.  Pools and transactions are sqlx's and the engine's*)
(* and are modelled from how this code uses them: a connection belongs to  *)
(* one command at a time, a closed pool hands out none and takes none      *)
(* back, a dropped transaction is rolled back, the connection of an        *)
(* interrupted command goes back to its pool as it is.                     *)
(***************************************************************************)
EXTENDS Naturals, Sequences, FiniteSets

CONSTANTS
  Handle,           (* one per SQLite file and per MySQL connection               *)
  SqliteHandle,     (* the handles of SQLite files                                *)
  MaxCommands,      (* a bound on the commands invoked                            *)
  Request,          (* what a command may ask for                                 *)
  MaxPools,         (* a bound on the pools ever opened                           *)
  MaxConnections,   (* connections of a pool, 4 in the code                       *)
  NoPool, Nobody, NoRequest

Command == 1 .. MaxCommands   (* in the order they come     *)
PoolId  == 1 .. MaxPools      (* in the order they are opened *)

(* Statements.  A "write" changes rows or the schema, "writeRows" is one marked   *)
(* expect_rows; the others change the connection.                                 *)
Statement == {"read", "write", "writeRows", "BEGIN", "COMMIT", "ROLLBACK", "fkOff", "fkOn"}
Writes    == {"write", "writeRows"}

Requests == [kind : {"connect", "disconnect", "select", "execute"},
             handle : Handle,
             statements : Seq(Statement),
             transactional : BOOLEAN,
             onError : Seq(Statement)]

ASSUME SqlAssumption ==
  /\ Handle # {}
  /\ SqliteHandle \subseteq Handle
  /\ \A r \in Request : r \in Requests
  /\ MaxCommands \in Nat /\ MaxPools \in Nat
  /\ MaxConnections \in Nat \ {0}
  /\ NoPool \notin PoolId
  /\ Nobody \notin Command
  /\ NoRequest \notin Requests

(* What the app asks for (sql-client.ts, and runDdlScript of its SQLite service): a   *)
(* statement of its own, a batch that the layer makes a transaction, or a script that  *)
(* brings its own transaction, inside a pair of PRAGMAs or without them.  Transactions *)
(* a user types statement by statement are not among them.                             *)
RowStatement == {"read"} \cup Writes

RowStatements(r, from, to) == \A k \in from .. to : r.statements[k] \in RowStatement

Single(r) ==
  /\ ~r.transactional /\ r.onError = <<>>
  /\ RowStatements(r, 1, Len(r.statements))
  /\ r.kind = "select" => r.statements # <<>>

Batch(r) ==
  /\ r.kind = "execute" /\ r.transactional
  /\ RowStatements(r, 1, Len(r.statements))

BeginsAt(r, b) ==
  /\ Len(r.statements) >= 2 * b
  /\ r.statements[b] = "BEGIN" /\ r.statements[Len(r.statements) + 1 - b] = "COMMIT"
  /\ RowStatements(r, b + 1, Len(r.statements) - b)
  /\ b = 2 => r.statements[1] = "fkOff" /\ r.statements[Len(r.statements)] = "fkOn"

Script(r) ==
  /\ r.kind = "execute" /\ ~r.transactional /\ r.onError = <<"ROLLBACK", "fkOn">>
  /\ BeginsAt(r, 1) \/ BeginsAt(r, 2)

ASSUME RequestAssumption == \A r \in Request : Single(r) \/ Batch(r) \/ Script(r)

VARIABLES
  pools,      (* SqlState.pools                                                    *)
  pool,       (* every pool ever opened: [state, handle]                           *)
  conns,      (* the connections of each pool                                      *)
  writer,     (* the command that holds the write lock over an await, or Nobody    *)
  cmd,        (* where each command is, and how it ended                           *)
  committed   (* the effects of statements the databases have committed            *)

vars == <<pools, pool, conns, writer, cmd, committed>>

Slot   == 1 .. MaxConnections
Effect == Command \X Nat

Connection == [state : {"none", "idle", "used"},
               txn : BOOLEAN,            (* a transaction is open                  *)
               effects : SUBSET Effect,  (* what it has written                    *)
               fk : BOOLEAN]             (* PRAGMA foreign_keys                    *)

Progress == [pc : {"new", "check", "opening", "inserting", "removing", "closing",
                   "lookup", "acquiring", "running", "cleaning", "done"},
             req : Requests \cup {NoRequest},
             pool : PoolId \cup {NoPool},
             slot : Slot \cup {0},
             at : Nat,                   (* the statement it waits for             *)
             touched : SUBSET Effect,    (* history: its statements that hit rows  *)
             result : {"none", "ok", "error", "timeout"}]

NoConnection == [state |-> "none", txn |-> FALSE, effects |-> {}, fk |-> TRUE]
NotInvoked   == [pc |-> "new", req |-> NoRequest, pool |-> NoPool, slot |-> 0, at |-> 0,
                 touched |-> {}, result |-> "none"]

Init ==
  /\ pools = [h \in Handle |-> NoPool]
  /\ pool = [p \in PoolId |-> [state |-> "unused", handle |-> CHOOSE h \in Handle : TRUE]]
  /\ conns = [p \in PoolId |-> [s \in Slot |-> NoConnection]]
  /\ writer = Nobody
  /\ cmd = [c \in Command |-> NotInvoked]
  /\ committed = {}

(***************************************************************************)
(* A command and its progress                                              *)
(***************************************************************************)
Of(c)       == cmd[c].req.handle
Goes(c, pc) == cmd' = [cmd EXCEPT ![c].pc = pc]
Ends(c, result) == cmd' = [cmd EXCEPT ![c].pc = "done", ![c].result = result]

FirstStep(r) ==
  CASE r.kind = "connect" /\ r.handle \in SqliteHandle -> "check"
    [] r.kind = "connect" /\ r.handle \notin SqliteHandle -> "opening"
    [] r.kind = "disconnect" -> "removing"
    [] r.kind = "execute" /\ r.statements = <<>> -> "done"
    [] OTHER -> "lookup"

Invoke(c, r) ==
  /\ cmd[c].pc = "new"
  /\ \A d \in Command : d < c => cmd[d].pc # "new"
  /\ cmd' = [cmd EXCEPT ![c].pc = FirstStep(r), ![c].req = r, ![c].at = 1,
                        ![c].result = IF FirstStep(r) = "done" THEN "ok" ELSE "none"]
  /\ UNCHANGED <<pools, pool, conns, writer, committed>>

(***************************************************************************)
(* sql_connect and sql_disconnect                                          *)
(***************************************************************************)
\* An SQLite pool that is open already is reused.
CheckPool(c) ==
  /\ cmd[c].pc = "check" /\ writer = Nobody
  /\ LET p == pools[Of(c)]
     IN  IF p # NoPool /\ pool[p].state = "open" THEN Ends(c, "ok") ELSE Goes(c, "opening")
  /\ UNCHANGED <<pools, pool, conns, writer, committed>>

OpenFails(c) ==
  /\ cmd[c].pc = "opening"
  /\ Ends(c, "error")
  /\ UNCHANGED <<pools, pool, conns, writer, committed>>

OpenSucceeds(c) ==
  /\ cmd[c].pc = "opening"
  /\ \E p \in PoolId :
       /\ pool[p].state = "unused"
       /\ \A q \in PoolId : q < p => pool[q].state # "unused"
       /\ pool' = [pool EXCEPT ![p] = [state |-> "open", handle |-> Of(c)]]
       /\ cmd' = [cmd EXCEPT ![c].pc = "inserting", ![c].pool = p]
  /\ UNCHANGED <<pools, conns, writer, committed>>

\* close_pool of the pool p, awaited with the write lock held; there may be none.
Close(c, p, states) ==
  IF p = NoPool
  THEN /\ Ends(c, "ok")
       /\ pool' = states
       /\ UNCHANGED writer
  ELSE /\ cmd' = [cmd EXCEPT ![c].pc = "closing", ![c].pool = p]
       /\ pool' = [states EXCEPT ![p].state = "closed"]
       /\ writer' = c

LeavePrevious(p) == NoPool
PreviousToClose(p) == p

Insert(c) ==
  /\ cmd[c].pc = "inserting" /\ writer = Nobody
  /\ pools' = [pools EXCEPT ![Of(c)] = cmd[c].pool]
  /\ Close(c, PreviousToClose(pools[Of(c)]), pool)
  /\ UNCHANGED <<conns, committed>>

Remove(c) ==
  /\ cmd[c].pc = "removing" /\ writer = Nobody
  /\ pools' = [pools EXCEPT ![Of(c)] = NoPool]
  /\ Close(c, pools[Of(c)], pool)
  /\ UNCHANGED <<conns, committed>>

\* A pool is closed when every connection it handed out has come back.
CloseEnds(c) ==
  /\ cmd[c].pc = "closing"
  /\ \A s \in Slot : conns[cmd[c].pool][s].state # "used"
  /\ conns' = [conns EXCEPT ![cmd[c].pool] = [s \in Slot |-> NoConnection]]
  /\ writer' = Nobody
  /\ Ends(c, "ok")
  /\ UNCHANGED <<pools, pool, committed>>

(***************************************************************************)
(* sql_select and sql_execute up to their connection                       *)
(***************************************************************************)
AlwaysFound(p) == TRUE
Found(p) == p # NoPool

Lookup(c) ==
  /\ cmd[c].pc = "lookup" /\ writer = Nobody
  /\ IF Found(pools[Of(c)])
     THEN cmd' = [cmd EXCEPT ![c].pc = "acquiring", ![c].pool = pools[Of(c)]]
     ELSE Ends(c, "error")
  /\ UNCHANGED <<pools, pool, conns, writer, committed>>

\* An idle connection is taken before a new one is opened.
Free(p, s) ==
  \/ conns[p][s].state = "idle"
  \/ conns[p][s].state = "none" /\ \A t \in Slot : conns[p][t].state # "idle"

Acquire(c) ==
  LET p == cmd[c].pool
  IN  /\ cmd[c].pc = "acquiring"
      /\ pool[p].state = "open"
      /\ \E s \in Slot :
           /\ Free(p, s)
           /\ conns' = [conns EXCEPT ![p][s].state = "used"]
           /\ cmd' = [cmd EXCEPT ![c].pc = "running", ![c].slot = s,
                                 ![c].at = IF cmd[c].req.transactional THEN 0 ELSE 1]
      /\ UNCHANGED <<pools, pool, writer, committed>>

\* The pool is closed, or no connection came free within its time.
AcquireFails(c) ==
  /\ cmd[c].pc = "acquiring"
  /\ Ends(c, "error")
  /\ UNCHANGED <<pools, pool, conns, writer, committed>>

(***************************************************************************)
(* Statements on a connection                                              *)
(***************************************************************************)
Conn(c) == conns[cmd[c].pool][cmd[c].slot]
Statements(c) == cmd[c].req.statements

\* A transactional batch begins and commits around its statements.
Current(c) ==
  IF cmd[c].pc = "cleaning" THEN cmd[c].req.onError[cmd[c].at]
  ELSE CASE cmd[c].at = 0 -> "BEGIN"
         [] cmd[c].at > Len(Statements(c)) -> "COMMIT"
         [] OTHER -> Statements(c)[cmd[c].at]

LastStep(c) == Len(Statements(c)) + (IF cmd[c].req.transactional THEN 1 ELSE 0)

\* SQLite has one writer per file at a time.
Locked(c) ==
  \E p \in PoolId, s \in Slot :
    /\ <<p, s>> # <<cmd[c].pool, cmd[c].slot>>
    /\ pool[p].handle = Of(c)
    /\ conns[p][s].effects # {}

Possible(c, s) ==
  /\ s = "BEGIN" => ~Conn(c).txn
  /\ s \in {"COMMIT", "ROLLBACK"} => Conn(c).txn
  /\ s \in Writes /\ Of(c) \in SqliteHandle => ~Locked(c)

\* The rows a statement can hit: none, or some.
Effects(c, s) == IF s \in Writes THEN {{}, {<<c, cmd[c].at>>}} ELSE {{}}

RolledBack(x) == [x EXCEPT !.txn = FALSE, !.effects = {}]

After(x, s, hit) ==
  CASE s = "BEGIN" -> [x EXCEPT !.txn = TRUE]
    [] s \in {"COMMIT", "ROLLBACK"} -> RolledBack(x)
    [] s \in Writes /\ x.txn -> [x EXCEPT !.effects = @ \cup hit]
    [] s \in {"fkOff", "fkOn"} /\ ~x.txn -> [x EXCEPT !.fk = (s = "fkOn")]
    [] OTHER -> x

Commits(x, s, hit) ==
  CASE s = "COMMIT" -> x.effects
    [] s \in Writes /\ ~x.txn -> hit
    [] OTHER -> {}

\* The connection goes back to its pool, which forgets it when it is closed.
DropsIt(c, x) ==
  conns' = [conns EXCEPT ![cmd[c].pool][cmd[c].slot] =
              IF pool[cmd[c].pool].state = "open" THEN [x EXCEPT !.state = "idle"] ELSE x]
GivesBack(c, x) ==
  conns' = [conns EXCEPT ![cmd[c].pool][cmd[c].slot] =
              IF pool[cmd[c].pool].state = "open" THEN [x EXCEPT !.state = "idle"]
                                                  ELSE NoConnection]

IgnoreRows(s, hit) == TRUE
RowsFound(s, hit)  == s = "writeRows" => hit # {}

StatementSucceeds(c) ==
  LET s == Current(c)
  IN  /\ cmd[c].pc = "running"
      /\ Possible(c, s)
      /\ \E hit \in Effects(c, s) :
           /\ RowsFound(s, hit)
           /\ committed' = committed \cup Commits(Conn(c), s, hit)
           /\ IF cmd[c].at < LastStep(c)
              THEN /\ conns' = [conns EXCEPT ![cmd[c].pool][cmd[c].slot] = After(@, s, hit)]
                   /\ cmd' = [cmd EXCEPT ![c].at = @ + 1, ![c].touched = @ \cup hit]
              ELSE /\ GivesBack(c, After(Conn(c), s, hit))
                   /\ cmd' = [cmd EXCEPT ![c].pc = "done", ![c].result = "ok",
                                         ![c].touched = @ \cup hit]
      /\ UNCHANGED <<pools, pool, writer>>

\* What is left of a connection whose batch ends early: sqlx rolls its own
\* transaction back when it is dropped, and knows nothing of a script's BEGIN.
KeepTransaction(c) == Conn(c)
Dropped(c) == IF cmd[c].req.transactional /\ cmd[c].at > 0 THEN RolledBack(Conn(c)) ELSE Conn(c)

NoCleanup(c) == FALSE
HasCleanup(c) == ~cmd[c].req.transactional /\ cmd[c].req.onError # <<>>

\* An error of the engine, or no rows where the statement expects some.
StatementFails(c) ==
  /\ cmd[c].pc = "running"
  /\ IF HasCleanup(c)
     THEN /\ cmd' = [cmd EXCEPT ![c].pc = "cleaning", ![c].at = 1]
          /\ UNCHANGED conns
     ELSE /\ GivesBack(c, Dropped(c))
          /\ Ends(c, "error")
  /\ UNCHANGED <<pools, pool, writer, committed>>

\* The next on_error statement; one that cannot run changes nothing.
Cleans(c) ==
  LET s == Current(c)
      x == IF Possible(c, s) THEN After(Conn(c), s, {}) ELSE Conn(c)
  IN  /\ cmd[c].pc = "cleaning"
      /\ IF cmd[c].at < Len(cmd[c].req.onError)
         THEN /\ conns' = [conns EXCEPT ![cmd[c].pool][cmd[c].slot] = x]
              /\ cmd' = [cmd EXCEPT ![c].at = @ + 1]
         ELSE GivesBack(c, x) /\ Ends(c, "error")
      /\ UNCHANGED <<pools, pool, writer, committed>>

(***************************************************************************)
(* with_timeout drops what it awaits.  The engine may finish the statement *)
(* it was given, or not have started it.                                   *)
(***************************************************************************)
BoundedAcquire(c) == cmd[c].pc = "acquiring"
Bounded(c) == cmd[c].pc \in {"acquiring", "running", "cleaning"}

TimesOutWaiting(c) ==
  /\ Bounded(c)
  /\ cmd[c].pc = "acquiring"
  /\ Ends(c, "timeout")
  /\ UNCHANGED <<pools, pool, conns, writer, committed>>

TimesOutBefore(c) ==
  /\ Bounded(c)
  /\ cmd[c].pc \in {"running", "cleaning"}
  /\ GivesBack(c, Dropped(c))
  /\ Ends(c, "timeout")
  /\ UNCHANGED <<pools, pool, writer, committed>>

TimesOutAfter(c) ==
  LET s == Current(c)
  IN  /\ Bounded(c)
      /\ cmd[c].pc \in {"running", "cleaning"}
      /\ Possible(c, s)
      /\ \E hit \in Effects(c, s) :
           /\ committed' = committed \cup Commits(Conn(c), s, hit)
           /\ GivesBack(c, IF cmd[c].req.transactional THEN Dropped(c)
                                                       ELSE After(Conn(c), s, hit))
           /\ cmd' = [cmd EXCEPT ![c].pc = "done", ![c].result = "timeout",
                                 ![c].touched = @ \cup hit]
      /\ UNCHANGED <<pools, pool, writer>>

TimesOut(c) == TimesOutWaiting(c) \/ TimesOutBefore(c) \/ TimesOutAfter(c)

(***************************************************************************)
(* Specification.  Commands are invoked when users want; opening a pool and *)
(* running a statement end or time out.                                    *)
(***************************************************************************)
Lifecycle(c) ==
  \/ CheckPool(c) \/ OpenFails(c) \/ OpenSucceeds(c) \/ Insert(c)
  \/ Remove(c) \/ CloseEnds(c) \/ Lookup(c)

Runs(c) ==
  \/ Acquire(c) \/ AcquireFails(c)
  \/ StatementSucceeds(c) \/ StatementFails(c) \/ Cleans(c)

Next ==
  \E c \in Command :
    \/ \E r \in Request : Invoke(c, r)
    \/ Lifecycle(c)
    \/ Runs(c)
    \/ TimesOut(c)

Spec == Init /\ [][Next]_vars
FairSpec == Spec /\ \A c \in Command : WF_vars(Lifecycle(c)) /\ WF_vars(TimesOut(c))

(***************************************************************************)
(* Properties                                                              *)
(***************************************************************************)
HasConnection(c) == cmd[c].pc \in {"running", "cleaning"}

\* Every part has its type, and a command that uses a pool or a connection has one.
TypeOK ==
  /\ pools \in [Handle -> PoolId \cup {NoPool}]
  /\ pool \in [PoolId -> [state : {"unused", "open", "closed"}, handle : Handle]]
  /\ conns \in [PoolId -> [Slot -> Connection]]
  /\ writer \in Command \cup {Nobody}
  /\ cmd \in [Command -> Progress]
  /\ \A c \in Command :
       /\ cmd[c].pc = "new" <=> cmd[c].req = NoRequest
       /\ cmd[c].pc \in {"inserting", "closing", "acquiring"} => cmd[c].pool \in PoolId
       /\ HasConnection(c) => cmd[c].pool \in PoolId /\ cmd[c].slot \in Slot
  /\ committed \subseteq Effect

CommittedBy(c) == {e \in committed : e[1] = c}
HasTransaction(c) ==
  /\ cmd[c].req # NoRequest
  /\ cmd[c].req.transactional \/ \E k \in DOMAIN Statements(c) : Statements(c)[k] = "BEGIN"

\* "With transactional they commit together or not at all": whatever fails, times out
\* or finds a connection that another command has left in a transaction, a batch or a
\* script has committed everything it wrote or nothing; everything, with every expected
\* row found, when it reports success; nothing when a transactional batch reports an
\* error.
BatchesAreAtomic ==
  \A c \in Command : HasTransaction(c) =>
    /\ CommittedBy(c) \in {{}, cmd[c].touched}
    /\ cmd[c].result = "ok" =>
         /\ CommittedBy(c) = cmd[c].touched
         /\ \A k \in DOMAIN Statements(c) : Statements(c)[k] = "writeRows" => <<c, k>> \in committed
    /\ cmd[c].result = "error" /\ cmd[c].req.transactional => CommittedBy(c) = {}

\* A connection is in use by one command, which gives it back whatever happens: none is
\* shared, none is lost to its pool, which hands out only MaxConnections.
EveryConnectionHasItsCommand ==
  \A p \in PoolId, s \in Slot :
    LET users == {c \in Command : HasConnection(c) /\ cmd[c].pool = p /\ cmd[c].slot = s}
    IN  Cardinality(users) = IF conns[p][s].state = "used" THEN 1 ELSE 0

\* However connects and disconnects of a handle overlap, a handle leads to an open pool
\* of its own, and every open pool can still be reached: none is left open behind the map.
EveryPoolIsReachable ==
  /\ \A h \in Handle : pools[h] # NoPool => pool[pools[h]] = [state |-> "open", handle |-> h]
  /\ \A p \in PoolId : pool[p].state = "open" =>
       \/ \E h \in Handle : pools[h] = p
       \/ \E c \in Command : cmd[c].pc = "inserting" /\ cmd[c].pool = p

Clean(x) == ~x.txn /\ x.fk

\* "Restore connection state (open transaction, pragmas) before the connection goes
\* back to the pool": an idle connection has no open transaction and enforces foreign
\* keys.
IdleIsClean ==
  \A p \in PoolId, s \in Slot : conns[p][s].state = "idle" => Clean(conns[p][s])

\* As long as no script has been cut off by the timeout, that holds: every error is
\* cleaned up after, whichever statement it hit.
IdleIsCleanUnlessTimedOut ==
  (\E c \in Command : cmd[c].result = "timeout" /\ ~cmd[c].req.transactional) \/ IdleIsClean

\* Every command ends: nobody waits for ever for the lock that a command keeps while it
\* closes a pool, nor that command for a connection someone else never gives back.
EveryCommandEnds == \A c \in Command : cmd[c].pc # "new" ~> cmd[c].pc = "done"
=============================================================================
