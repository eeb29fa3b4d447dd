-------------------------- MODULE SqlAccessProofs --------------------------
(***************************************************************************)
(* What SqlAccess keeps for every number of commands, pools, handles and   *)
(* connections and whatever the commands ask for.                          *)
(*                                                                         *)
(* Inv is the inductive invariant.  The type invariant alone shows nothing *)
(* about two commands; PoolInv adds that a pool on its way into the map is *)
(* open, unknown to the map and of one command only, so that closing what  *)
(* the map held before never closes it, and ConnectionInv that a command's *)
(* connection is in use and not another command's.                         *)
(*                                                                         *)
(* Then what batches and scripts commit and the connection they leave.     *)
(* Both are false for arbitrary statements, so these proofs rest on        *)
(* RequestAssumption, the shapes of the requests the app sends.            *)
(*                                                                         *)
(* A batch and a script alike open their transaction at Start(r) and       *)
(* commit at Finish(r).  BatchInv says for every command how far it is     *)
(* between the two: before, nothing is written; inside, the connection     *)
(* holds exactly what the command has written, although another command    *)
(* may have used it before; after, exactly that is committed.              *)
(* CleanlinessInv says it of the connection: it is in a transaction inside *)
(* only, and without foreign keys between a script's pragmas only.         *)
(***************************************************************************)
EXTENDS SqlAccess, FiniteSetTheorems, TLAPS

Inserting(c) == cmd[c].pc = "inserting"

PoolInv ==
  /\ \A h \in Handle : pools[h] # NoPool => pool[pools[h]] = [state |-> "open", handle |-> h]
  /\ \A c \in Command : Inserting(c) =>
       /\ pool[cmd[c].pool] = [state |-> "open", handle |-> Of(c)]
       /\ \A h \in Handle : pools[h] # cmd[c].pool
       /\ \A d \in Command : Inserting(d) /\ cmd[d].pool = cmd[c].pool => d = c
  /\ \A p \in PoolId : pool[p].state = "open" =>
       \/ \E h \in Handle : pools[h] = p
       \/ \E c \in Command : Inserting(c) /\ cmd[c].pool = p

Holds(c, p, s) == HasConnection(c) /\ cmd[c].pool = p /\ cmd[c].slot = s

ConnectionInv ==
  /\ \A c \in Command : HasConnection(c) => Conn(c).state = "used"
  /\ \A p \in PoolId, s \in Slot : conns[p][s].state = "used" =>
       \E c \in Command : Holds(c, p, s)
  /\ \A c, d \in Command : HasConnection(c) /\ Holds(d, cmd[c].pool, cmd[c].slot) => c = d

Inv == TypeOK /\ PoolInv /\ ConnectionInv

(***************************************************************************)
(* Helpers                                                                 *)
(***************************************************************************)
\* Where a request can begin; none begins with a pool or a connection.
LEMMA FirstStepFacts ==
  ASSUME NEW r \in Requests
  PROVE  FirstStep(r) \in {"check", "opening", "removing", "done", "lookup"}
BY DEF FirstStep, Requests

\* A statement changes what a connection knows of its transaction, not who has it.
LEMMA AfterFacts ==
  ASSUME NEW x \in Connection, NEW s, NEW hit \in SUBSET Effect
  PROVE  After(x, s, hit) \in Connection /\ After(x, s, hit).state = x.state
BY DEF After, RolledBack, Connection

\* The rows a statement can hit are effects.
LEMMA EffectsFacts ==
  ASSUME NEW c \in Command, NEW s, cmd[c].at \in Nat, NEW hit \in Effects(c, s)
  PROVE  hit \in SUBSET Effect
BY DEF Effects, Effect

\* A statement commits effects only.
LEMMA CommitsFacts ==
  ASSUME NEW x \in Connection, NEW s, NEW hit \in SUBSET Effect
  PROVE  Commits(x, s, hit) \subseteq Effect
BY DEF Commits, Connection

\* What a batch that ends early leaves is a connection still in use.
LEMMA DroppedFacts ==
  ASSUME NEW c \in Command, Conn(c) \in Connection
  PROVE  Dropped(c) \in Connection /\ Dropped(c).state = Conn(c).state
BY DEF Dropped, RolledBack, Connection

\* What TypeOK says of one command.
LEMMA CommandFacts ==
  ASSUME TypeOK, SqlAssumption, NEW c \in Command
  PROVE  /\ cmd[c] \in Progress
         /\ cmd[c].pc # "new" => cmd[c].req \in Requests /\ Of(c) \in Handle
         /\ cmd[c].at \in Nat
         /\ HasConnection(c) => Conn(c) \in Connection
BY DEF TypeOK, SqlAssumption, Progress, Requests, Of, Conn, HasConnection

\* A connection that is given back is not in use any more; the others stay as they are.
LEMMA GivesBackFacts ==
  ASSUME TypeOK, SqlAssumption, NEW c \in Command, HasConnection(c),
         NEW x \in Connection, GivesBack(c, x)
  PROVE  /\ conns' \in [PoolId -> [Slot -> Connection]]
         /\ conns'[cmd[c].pool][cmd[c].slot].state # "used"
         /\ \A p \in PoolId, s \in Slot : <<p, s>> # <<cmd[c].pool, cmd[c].slot>>
              => conns'[p][s] = conns[p][s]
<1> DEFINE y == IF pool[cmd[c].pool].state = "open" THEN [x EXCEPT !.state = "idle"]
                                                    ELSE NoConnection
<1>1. cmd[c].pool \in PoolId /\ cmd[c].slot \in Slot
  BY DEF TypeOK
<1>2. y \in Connection /\ y.state # "used"
  BY DEF Connection, NoConnection
<1>3. conns' = [conns EXCEPT ![cmd[c].pool][cmd[c].slot] = y]
  BY DEF GivesBack
<1> HIDE DEF y
<1>4. conns \in [PoolId -> [Slot -> Connection]]
  BY DEF TypeOK
<1>5. QED BY <1>1, <1>2, <1>3, <1>4

(***************************************************************************)
(* Types                                                                   *)
(***************************************************************************)
\* The initial state has its types.
LEMMA InitTypeOK ==
  ASSUME SqlAssumption, Init
  PROVE  TypeOK
<1>1. (CHOOSE h \in Handle : TRUE) \in Handle
  BY DEF SqlAssumption
<1>2. NoConnection \in Connection
  BY DEF NoConnection, Connection
<1>3. NotInvoked \in Progress /\ NotInvoked.pc = "new" /\ NotInvoked.req = NoRequest
  BY DEF NotInvoked, Progress
<1>4. QED BY <1>1, <1>2, <1>3 DEF Init, TypeOK, HasConnection

RestType ==
  /\ pools \in [Handle -> PoolId \cup {NoPool}]
  /\ pool \in [PoolId -> [state : {"unused", "open", "closed"}, handle : Handle]]
  /\ conns \in [PoolId -> [Slot -> Connection]]
  /\ writer \in Command \cup {Nobody}
  /\ committed \subseteq Effect

\* A step that moves c on to the progress r.
LEMMA ProgressKeepsType ==
  ASSUME TypeOK, NEW c \in Command, NEW r \in Progress,
         cmd' = [cmd EXCEPT ![c] = r],
         r.pc = "new" <=> r.req = NoRequest,
         r.pc \in {"inserting", "closing", "acquiring"} => r.pool \in PoolId,
         r.pc \in {"running", "cleaning"} => r.pool \in PoolId /\ r.slot \in Slot,
         RestType'
  PROVE  TypeOK'
<1>1. cmd' \in [Command -> Progress]
  BY DEF TypeOK
<1>2. \A d \in Command : cmd'[d] = IF d = c THEN r ELSE cmd[d]
  BY DEF TypeOK
<1>3. ASSUME NEW d \in Command
      PROVE  /\ cmd'[d].pc = "new" <=> cmd'[d].req = NoRequest
             /\ cmd'[d].pc \in {"inserting", "closing", "acquiring"} => cmd'[d].pool \in PoolId
             /\ HasConnection(d)' => cmd'[d].pool \in PoolId /\ cmd'[d].slot \in Slot
  <2>1. CASE d = c
    BY <1>2, <2>1 DEF HasConnection
  <2>2. CASE d # c
    BY <1>2, <2>2 DEF HasConnection, TypeOK
  <2>3. QED BY <2>1, <2>2
<1>4. QED BY <1>1, <1>3 DEF TypeOK, RestType

\* Invoking a command keeps the types.
LEMMA InvokeType ==
  ASSUME TypeOK, SqlAssumption, NEW c \in Command, NEW r \in Request, Invoke(c, r)
  PROVE  TypeOK'
<1>1. r \in Requests /\ r # NoRequest
  BY DEF SqlAssumption
<1>2. FirstStep(r) \in {"check", "opening", "removing", "done", "lookup"}
  BY <1>1, FirstStepFacts
<1> DEFINE q == [cmd[c] EXCEPT !.pc = FirstStep(r), !.req = r, !.at = 1,
                               !.result = IF FirstStep(r) = "done" THEN "ok" ELSE "none"]
<1>3. cmd' = [cmd EXCEPT ![c] = q]
  BY DEF Invoke
<1>4. q \in Progress /\ q.pc = FirstStep(r) /\ q.req = r
  BY <1>1, <1>2, CommandFacts DEF Progress
<1>5. /\ q.pc = "new" <=> q.req = NoRequest
      /\ q.pc \notin {"inserting", "closing", "acquiring", "running", "cleaning"}
  BY <1>1, <1>2, <1>4
<1>6. RestType'
  BY DEF Invoke, TypeOK, RestType
<1> HIDE DEF q
<1>7. QED BY <1>3, <1>4, <1>5, <1>6, ProgressKeepsType

\* c goes on to pc with the pool p, and ends if pc is "done".
LEMMA MoveType ==
  ASSUME TypeOK, NEW c \in Command, cmd[c].pc # "new",
         NEW pc \in {"opening", "inserting", "closing", "acquiring", "done"},
         NEW p \in PoolId \cup {NoPool}, NEW result \in {"none", "ok", "error", "timeout"},
         pc \in {"inserting", "closing", "acquiring"} => p \in PoolId,
         cmd' = [cmd EXCEPT ![c].pc = pc, ![c].pool = p, ![c].result = result],
         RestType'
  PROVE  TypeOK'
<1> DEFINE q == [cmd[c] EXCEPT !.pc = pc, !.pool = p, !.result = result]
<1>1. cmd[c] \in Progress /\ cmd[c].req # NoRequest
  BY DEF TypeOK
<1>2. q \in Progress /\ q.pc = pc /\ q.pool = p /\ q.req = cmd[c].req
  BY <1>1 DEF Progress
<1>3. cmd' = [cmd EXCEPT ![c] = q]
  OBVIOUS
<1>4. q.pc \notin {"new", "running", "cleaning"} /\ q.req # NoRequest
  BY <1>1, <1>2
<1> HIDE DEF q
<1>5. QED BY <1>2, <1>3, <1>4, ProgressKeepsType

\* c goes on to pc with the pool p, its result unchanged.
LEMMA PoolType ==
  ASSUME TypeOK, NEW c \in Command, cmd[c].pc # "new",
         NEW pc \in {"inserting", "closing", "acquiring"}, NEW p \in PoolId,
         cmd' = [cmd EXCEPT ![c].pc = pc, ![c].pool = p],
         RestType'
  PROVE  TypeOK'
<1>1. cmd \in [Command -> Progress] /\ cmd[c] \in Progress
  BY DEF TypeOK
<1>2. cmd[c].result \in {"none", "ok", "error", "timeout"}
  BY <1>1 DEF Progress
<1>3. cmd' = [cmd EXCEPT ![c].pc = pc, ![c].pool = p, ![c].result = cmd[c].result]
  BY <1>1 DEF Progress
<1>4. QED BY <1>2, <1>3, MoveType

\* c ends without a connection.
LEMMA EndType ==
  ASSUME TypeOK, NEW c \in Command, cmd[c].pc # "new",
         NEW result \in {"none", "ok", "error", "timeout"}, Ends(c, result),
         RestType'
  PROVE  TypeOK'
<1>1. cmd \in [Command -> Progress] /\ cmd[c] \in Progress
  BY DEF TypeOK
<1>2. cmd[c].pool \in PoolId \cup {NoPool}
  BY <1>1 DEF Progress
<1>3. cmd' = [cmd EXCEPT ![c].pc = "done", ![c].pool = cmd[c].pool, ![c].result = result]
  BY <1>1 DEF Ends, Progress
<1>4. QED BY <1>2, <1>3, MoveType

\* Insert and Remove keep the types, whether there is a pool to close or not.
LEMMA CloseType ==
  ASSUME TypeOK, SqlAssumption, NEW c \in Command, cmd[c].pc # "new",
         NEW p \in PoolId \cup {NoPool}, Close(c, p, pool),
         NEW q \in PoolId \cup {NoPool}, pools' = [pools EXCEPT ![Of(c)] = q],
         UNCHANGED <<conns, committed>>
  PROVE  TypeOK'
<1>1. pools' \in [Handle -> PoolId \cup {NoPool}]
  BY CommandFacts DEF TypeOK
<1>2. CASE p = NoPool
  <2>1. Ends(c, "ok") /\ UNCHANGED <<pool, writer>>
    BY <1>2 DEF Close
  <2>2. RestType'
    BY <1>1, <2>1 DEF TypeOK, RestType
  <2>3. QED BY <2>1, <2>2, EndType
<1>3. CASE p \in PoolId
  <2>1. /\ cmd' = [cmd EXCEPT ![c].pc = "closing", ![c].pool = p]
        /\ pool' = [pool EXCEPT ![p].state = "closed"]
        /\ writer' = c
    BY <1>3 DEF Close, SqlAssumption
  <2>2. pool' \in [PoolId -> [state : {"unused", "open", "closed"}, handle : Handle]]
    BY <1>3, <2>1 DEF TypeOK
  <2>3. RestType'
    BY <1>1, <2>1, <2>2 DEF TypeOK, RestType
  <2>4. QED BY <1>3, <2>1, <2>3, PoolType
<1>4. QED BY <1>2, <1>3

\* Every step of sql_connect, sql_disconnect and the lookup keeps the types.
LEMMA LifecycleType ==
  ASSUME TypeOK, SqlAssumption, NEW c \in Command, Lifecycle(c)
  PROVE  TypeOK'
<1> USE DEF RestType
<1>1. CASE CheckPool(c)
  <2>1. cmd[c].pc # "new" /\ (Ends(c, "ok") \/ Goes(c, "opening")) /\ RestType'
    BY <1>1 DEF CheckPool, TypeOK
  <2>2. CASE Ends(c, "ok")
    BY <2>1, <2>2, EndType
  <2>3. CASE Goes(c, "opening")
    <3>1. cmd \in [Command -> Progress] /\ cmd[c] \in Progress
      BY DEF TypeOK
    <3>2. /\ cmd[c].pool \in PoolId \cup {NoPool}
          /\ cmd[c].result \in {"none", "ok", "error", "timeout"}
      BY <3>1 DEF Progress
    <3>3. cmd' = [cmd EXCEPT ![c].pc = "opening", ![c].pool = cmd[c].pool,
                             ![c].result = cmd[c].result]
      BY <2>3, <3>1 DEF Goes, Progress
    <3>4. QED BY <2>1, <3>2, <3>3, MoveType
  <2>4. QED BY <2>1, <2>2, <2>3
<1>2. CASE OpenFails(c)
  <2>1. cmd[c].pc # "new" /\ Ends(c, "error") /\ RestType'
    BY <1>2 DEF OpenFails, TypeOK
  <2>2. QED BY <2>1, EndType
<1>3. CASE OpenSucceeds(c)
  <2>1. PICK p \in PoolId :
          /\ pool' = [pool EXCEPT ![p] = [state |-> "open", handle |-> Of(c)]]
          /\ cmd' = [cmd EXCEPT ![c].pc = "inserting", ![c].pool = p]
    BY <1>3 DEF OpenSucceeds
  <2>2. cmd[c].pc = "opening" /\ UNCHANGED <<pools, conns, writer, committed>>
    BY <1>3 DEF OpenSucceeds
  <2>3. Of(c) \in Handle
    BY <2>2, CommandFacts
  <2>4. RestType'
    BY <2>1, <2>2, <2>3 DEF TypeOK
  <2>5. QED BY <2>1, <2>2, <2>4, PoolType
<1>4. CASE Insert(c)
  <2>1. cmd[c].pool \in PoolId /\ pools[Of(c)] \in PoolId \cup {NoPool}
    BY <1>4, CommandFacts DEF Insert, TypeOK
  <2>2. QED BY <1>4, <2>1, CloseType DEF Insert, PreviousToClose
<1>5. CASE Remove(c)
  <2>1. pools[Of(c)] \in PoolId \cup {NoPool}
    BY <1>5, CommandFacts DEF Remove, TypeOK
  <2>2. QED BY <1>5, <2>1, CloseType DEF Remove
<1>6. CASE CloseEnds(c)
  <2>1. NoConnection \in Connection
    BY DEF NoConnection, Connection
  <2>2. cmd[c].pc # "new" /\ Ends(c, "ok") /\ RestType'
    BY <1>6, <2>1 DEF CloseEnds, TypeOK
  <2>3. QED BY <2>2, EndType
<1>7. CASE Lookup(c)
  <2>1. cmd[c].pc = "lookup" /\ RestType'
    BY <1>7 DEF Lookup, TypeOK
  <2>2. pools[Of(c)] \in PoolId \cup {NoPool}
    BY <2>1, CommandFacts DEF TypeOK
  <2>3. CASE Ends(c, "error")
    BY <2>1, <2>3, EndType
  <2>4. CASE pools[Of(c)] # NoPool
    <3>1. cmd' = [cmd EXCEPT ![c].pc = "acquiring", ![c].pool = pools[Of(c)]]
      BY <1>7, <2>4 DEF Lookup, Found
    <3>2. QED BY <2>1, <2>2, <2>4, <3>1, PoolType
  <2>5. QED BY <1>7, <2>3, <2>4 DEF Lookup, Found
<1>8. QED BY <1>1, <1>2, <1>3, <1>4, <1>5, <1>6, <1>7 DEF Lifecycle

(***************************************************************************)
(* The steps of a command that has a connection are of two shapes, as are  *)
(* their consequences: it goes on with the connection, or it gives it back *)
(* and ends.                                                               *)
(***************************************************************************)
Using(r, s, pc, at, touched) ==
  [r EXCEPT !.pc = pc, !.slot = s, !.at = at, !.touched = touched]

Uses(c, s, pc, at, touched, x) ==
  /\ conns' = [conns EXCEPT ![cmd[c].pool][s] = x]
  /\ cmd' = [cmd EXCEPT ![c] = Using(cmd[c], s, pc, at, touched)]
  /\ committed' \subseteq Effect
  /\ UNCHANGED <<pools, pool, writer>>

GoesOn(c) ==
  \E pc \in {"running", "cleaning"}, at \in Nat, touched \in SUBSET Effect, x \in Connection :
    x.state = Conn(c).state /\ Uses(c, cmd[c].slot, pc, at, touched, x)

Leaves(c, x, result, touched) ==
  /\ GivesBack(c, x)
  /\ cmd' = [cmd EXCEPT ![c].pc = "done", ![c].result = result, ![c].touched = touched]
  /\ committed' \subseteq Effect
  /\ UNCHANGED <<pools, pool, writer>>

EndsRun(c) ==
  \E x \in Connection, result \in {"ok", "error", "timeout"}, touched \in SUBSET Effect :
    Leaves(c, x, result, touched)

RunningStep(c) ==
  \/ StatementSucceeds(c) \/ StatementFails(c) \/ Cleans(c)
  \/ TimesOutBefore(c) \/ TimesOutAfter(c)

\* Every step of a command with a connection has one of the two shapes.
LEMMA RunningStepShapes ==
  ASSUME TypeOK, SqlAssumption, NEW c \in Command, RunningStep(c)
  PROVE  HasConnection(c) /\ (GoesOn(c) \/ EndsRun(c))
<1>1. /\ HasConnection(c)
      /\ UNCHANGED <<pools, pool, writer>>
  BY DEF RunningStep, StatementSucceeds, StatementFails, Cleans, TimesOutBefore, TimesOutAfter,
         HasConnection
<1>2. /\ cmd \in [Command -> Progress] /\ cmd[c] \in Progress
      /\ conns \in [PoolId -> [Slot -> Connection]]
      /\ committed \subseteq Effect
      /\ cmd[c].pool \in PoolId /\ cmd[c].slot \in Slot
      /\ Conn(c) \in Connection
      /\ conns = [conns EXCEPT ![cmd[c].pool][cmd[c].slot] = Conn(c)]
  BY <1>1, CommandFacts DEF TypeOK, Conn
<1>3. cmd[c].at \in Nat /\ cmd[c].touched \in SUBSET Effect
  BY <1>2 DEF Progress
<1>4. ASSUME NEW s, NEW hit \in Effects(c, s)
      PROVE  /\ hit \in SUBSET Effect
             /\ After(Conn(c), s, hit) \in Connection
             /\ After(Conn(c), s, hit).state = Conn(c).state
             /\ committed \cup Commits(Conn(c), s, hit) \subseteq Effect
             /\ cmd[c].touched \cup hit \in SUBSET Effect
  <2>1. hit \in SUBSET Effect
    BY <1>3, <1>4, EffectsFacts
  <2>2. QED BY <1>2, <1>3, <2>1, AfterFacts, CommitsFacts
<1>5. Dropped(c) \in Connection
  BY <1>2, DroppedFacts
<1>6. \A result : Ends(c, result) =>
        cmd' = [cmd EXCEPT ![c].pc = "done", ![c].result = result, ![c].touched = cmd[c].touched]
  BY <1>2 DEF Ends, Progress
<1>7. CASE StatementSucceeds(c)
  <2> DEFINE s == Current(c)
  <2>1. PICK hit \in Effects(c, s) :
          /\ committed' = committed \cup Commits(Conn(c), s, hit)
          /\ IF cmd[c].at < LastStep(c)
             THEN /\ conns' = [conns EXCEPT ![cmd[c].pool][cmd[c].slot] = After(@, s, hit)]
                  /\ cmd' = [cmd EXCEPT ![c].at = @ + 1, ![c].touched = @ \cup hit]
             ELSE /\ GivesBack(c, After(Conn(c), s, hit))
                  /\ cmd' = [cmd EXCEPT ![c].pc = "done", ![c].result = "ok",
                                        ![c].touched = @ \cup hit]
    BY <1>7 DEF StatementSucceeds
  <2> DEFINE x == After(Conn(c), s, hit)
             touched == cmd[c].touched \cup hit
  <2>2. x \in Connection /\ x.state = Conn(c).state /\ touched \in SUBSET Effect
        /\ committed' \subseteq Effect
    BY <1>4, <2>1
  <2>3. CASE cmd[c].at < LastStep(c)
    <3>1. conns' = [conns EXCEPT ![cmd[c].pool][cmd[c].slot] = x]
      BY <1>2, <2>1, <2>3 DEF Conn
    <3>2. cmd[c].pc = "running"
      BY <1>7 DEF StatementSucceeds
    <3>3. cmd' = [cmd EXCEPT ![c] = [cmd[c] EXCEPT !.at = cmd[c].at + 1, !.touched = touched]]
      BY <2>1, <2>3
    <3> HIDE DEF x, touched
    <3>4. [cmd[c] EXCEPT !.at = cmd[c].at + 1, !.touched = touched]
             = Using(cmd[c], cmd[c].slot, "running", cmd[c].at + 1, touched)
      BY <1>2, <3>2 DEF Progress, Using
    <3>5. Uses(c, cmd[c].slot, "running", cmd[c].at + 1, touched, x)
      BY <1>1, <2>2, <3>1, <3>3, <3>4 DEF Uses
    <3>6. QED BY <1>1, <1>3, <2>2, <3>5 DEF GoesOn
  <2>4. CASE ~(cmd[c].at < LastStep(c))
    <3>1. /\ GivesBack(c, x)
          /\ cmd' = [cmd EXCEPT ![c].pc = "done", ![c].result = "ok", ![c].touched = touched]
      BY <1>2, <2>1, <2>4 DEF Progress
    <3> HIDE DEF x, touched
    <3>2. QED BY <1>1, <2>2, <3>1 DEF EndsRun, Leaves
  <2>5. QED BY <2>3, <2>4
<1>8. CASE StatementFails(c)
  <2>1. committed' = committed /\ cmd[c].pc = "running"
    BY <1>8 DEF StatementFails
  <2>2. CASE HasCleanup(c)
    <3>1. conns' = conns /\ cmd' = [cmd EXCEPT ![c].pc = "cleaning", ![c].at = 1]
      BY <1>8, <2>2 DEF StatementFails
    <3>2. cmd' = [cmd EXCEPT ![c] = [cmd[c] EXCEPT !.pc = "cleaning", !.at = 1]]
      BY <3>1
    <3>3. [cmd[c] EXCEPT !.pc = "cleaning", !.at = 1]
             = Using(cmd[c], cmd[c].slot, "cleaning", 1, cmd[c].touched)
      BY <1>2 DEF Progress, Using
    <3>4. Uses(c, cmd[c].slot, "cleaning", 1, cmd[c].touched, Conn(c))
      BY <1>1, <1>2, <2>1, <3>1, <3>2, <3>3 DEF Uses
    <3>5. QED BY <1>1, <1>2, <1>3, <3>4 DEF GoesOn
  <2>3. CASE ~HasCleanup(c)
    <3>1. GivesBack(c, Dropped(c)) /\ Ends(c, "error")
      BY <1>8, <2>3 DEF StatementFails
    <3>2. QED BY <1>1, <1>2, <1>3, <1>5, <1>6, <2>1, <3>1 DEF EndsRun, Leaves
  <2>4. QED BY <2>2, <2>3
<1>9. CASE Cleans(c)
  <2> DEFINE s == Current(c)
             x == IF Possible(c, s) THEN After(Conn(c), s, {}) ELSE Conn(c)
  <2>1. committed' = committed /\ cmd[c].pc = "cleaning"
    BY <1>9 DEF Cleans
  <2>2. {} \in Effects(c, s)
    BY DEF Effects
  <2>3. x \in Connection /\ x.state = Conn(c).state
    BY <1>2, <1>4, <2>2
  <2>4. CASE cmd[c].at < Len(cmd[c].req.onError)
    <3>1. /\ conns' = [conns EXCEPT ![cmd[c].pool][cmd[c].slot] = x]
          /\ cmd' = [cmd EXCEPT ![c].at = @ + 1]
      BY <1>9, <2>4 DEF Cleans
    <3>2. cmd' = [cmd EXCEPT ![c] = [cmd[c] EXCEPT !.at = cmd[c].at + 1]]
      BY <3>1
    <3> HIDE DEF x
    <3>3. [cmd[c] EXCEPT !.at = cmd[c].at + 1]
             = Using(cmd[c], cmd[c].slot, "cleaning", cmd[c].at + 1, cmd[c].touched)
      BY <1>2, <2>1 DEF Progress, Using
    <3>4. Uses(c, cmd[c].slot, "cleaning", cmd[c].at + 1, cmd[c].touched, x)
      BY <1>1, <1>2, <2>1, <3>1, <3>2, <3>3 DEF Uses
    <3>5. QED BY <1>1, <1>3, <2>3, <3>4 DEF GoesOn
  <2>5. CASE ~(cmd[c].at < Len(cmd[c].req.onError))
    <3>1. GivesBack(c, x) /\ Ends(c, "error")
      BY <1>9, <2>5 DEF Cleans
    <3> HIDE DEF x
    <3>2. QED BY <1>1, <1>2, <1>3, <1>6, <2>1, <2>3, <3>1 DEF EndsRun, Leaves
  <2>6. QED BY <2>4, <2>5
<1>10. CASE TimesOutBefore(c)
  <2>1. committed' = committed /\ GivesBack(c, Dropped(c)) /\ Ends(c, "timeout")
    BY <1>10 DEF TimesOutBefore
  <2>2. QED BY <1>1, <1>2, <1>3, <1>5, <1>6, <2>1 DEF EndsRun, Leaves
<1>11. CASE TimesOutAfter(c)
  <2> DEFINE s == Current(c)
  <2>1. PICK hit \in Effects(c, s) :
          /\ committed' = committed \cup Commits(Conn(c), s, hit)
          /\ GivesBack(c, IF cmd[c].req.transactional THEN Dropped(c)
                                                      ELSE After(Conn(c), s, hit))
          /\ cmd' = [cmd EXCEPT ![c].pc = "done", ![c].result = "timeout",
                                ![c].touched = @ \cup hit]
    BY <1>11 DEF TimesOutAfter
  <2> DEFINE x == IF cmd[c].req.transactional THEN Dropped(c) ELSE After(Conn(c), s, hit)
             touched == cmd[c].touched \cup hit
  <2>2. x \in Connection /\ touched \in SUBSET Effect /\ committed' \subseteq Effect
    BY <1>4, <1>5, <2>1
  <2>3. /\ GivesBack(c, x)
        /\ cmd' = [cmd EXCEPT ![c].pc = "done", ![c].result = "timeout", ![c].touched = touched]
    BY <1>2, <2>1 DEF Progress
  <2> HIDE DEF x, touched
  <2>4. QED BY <1>1, <2>2, <2>3 DEF EndsRun, Leaves
<1>12. QED BY <1>1, <1>7, <1>8, <1>9, <1>10, <1>11 DEF RunningStep

\* Acquire uses a connection that nobody has.
LEMMA AcquireShape ==
  ASSUME TypeOK, SqlAssumption, NEW c \in Command, Acquire(c)
  PROVE  /\ cmd[c].pc = "acquiring" /\ cmd[c].pool \in PoolId
         /\ \E s \in Slot, at \in Nat, x \in Connection :
              /\ conns[cmd[c].pool][s].state # "used" /\ x.state = "used"
              /\ Uses(c, s, "running", at, cmd[c].touched, x)
<1>1. cmd[c].pc = "acquiring" /\ UNCHANGED <<pools, pool, writer, committed>>
  BY DEF Acquire
<1>2. cmd[c].pool \in PoolId
  BY <1>1 DEF TypeOK
<1>3. PICK s \in Slot :
        /\ Free(cmd[c].pool, s)
        /\ conns' = [conns EXCEPT ![cmd[c].pool][s].state = "used"]
        /\ cmd' = [cmd EXCEPT ![c].pc = "running", ![c].slot = s,
                              ![c].at = IF cmd[c].req.transactional THEN 0 ELSE 1]
  BY DEF Acquire
<1> DEFINE x == [conns[cmd[c].pool][s] EXCEPT !.state = "used"]
           at == IF cmd[c].req.transactional THEN 0 ELSE 1
<1>4. conns[cmd[c].pool][s].state # "used"
  BY <1>3 DEF Free
<1>5. conns[cmd[c].pool][s] \in Connection /\ cmd[c] \in Progress
  BY <1>2 DEF TypeOK
<1>6. x \in Connection /\ x.state = "used"
  BY <1>5 DEF Connection
<1>7. conns' = [conns EXCEPT ![cmd[c].pool][s] = x]
  BY <1>2, <1>3 DEF TypeOK
<1>8. cmd' = [cmd EXCEPT ![c] = [cmd[c] EXCEPT !.pc = "running", !.slot = s, !.at = at]]
  BY <1>3
<1>9. at \in Nat /\ committed' \subseteq Effect
  BY <1>1 DEF TypeOK
<1> HIDE DEF x, at
<1>10. [cmd[c] EXCEPT !.pc = "running", !.slot = s, !.at = at]
          = Using(cmd[c], s, "running", at, cmd[c].touched)
  BY <1>5 DEF Progress, Using
<1>11. Uses(c, s, "running", at, cmd[c].touched, x)
  BY <1>1, <1>7, <1>8, <1>9, <1>10 DEF Uses
<1>12. QED BY <1>1, <1>2, <1>4, <1>6, <1>9, <1>11

\* Going on with a connection, or taking one, keeps the types.
LEMMA UsesType ==
  ASSUME TypeOK, NEW c \in Command, cmd[c].pool \in PoolId, cmd[c].pc # "new",
         NEW s \in Slot, NEW pc \in {"running", "cleaning"}, NEW at \in Nat,
         NEW touched \in SUBSET Effect, NEW x \in Connection,
         Uses(c, s, pc, at, touched, x)
  PROVE  TypeOK'
<1> DEFINE q == Using(cmd[c], s, pc, at, touched)
<1>1. cmd[c] \in Progress /\ cmd[c].req # NoRequest
  BY DEF TypeOK
<1>2. /\ q \in Progress
      /\ q.pc = pc /\ q.slot = s /\ q.pool = cmd[c].pool /\ q.req = cmd[c].req
  BY <1>1 DEF Progress, Using
<1>3. cmd' = [cmd EXCEPT ![c] = q]
  BY DEF Uses
<1>4. RestType'
  BY DEF Uses, RestType, TypeOK
<1> HIDE DEF q
<1>5. QED BY <1>1, <1>2, <1>3, <1>4, ProgressKeepsType

\* Giving the connection back and ending keeps the types.
LEMMA LeavesType ==
  ASSUME TypeOK, SqlAssumption, NEW c \in Command, HasConnection(c),
         NEW x \in Connection, NEW result \in {"ok", "error", "timeout"},
         NEW touched \in SUBSET Effect, Leaves(c, x, result, touched)
  PROVE  TypeOK'
<1> DEFINE q == [cmd[c] EXCEPT !.pc = "done", !.result = result, !.touched = touched]
<1>1. cmd[c] \in Progress /\ cmd[c].req # NoRequest
  BY DEF TypeOK, HasConnection
<1>2. q \in Progress /\ q.pc = "done" /\ q.req = cmd[c].req
  BY <1>1 DEF Progress
<1>3. cmd' = [cmd EXCEPT ![c] = q]
  BY DEF Leaves
<1>4. conns' \in [PoolId -> [Slot -> Connection]]
  BY GivesBackFacts DEF Leaves
<1>5. RestType'
  BY <1>4 DEF Leaves, RestType, TypeOK
<1> HIDE DEF q
<1>6. QED BY <1>1, <1>2, <1>3, <1>5, ProgressKeepsType

(***************************************************************************)
(* Which parts of the state a step of c leaves alone                       *)
(***************************************************************************)
OthersStay(c) == \A d \in Command : d # c => cmd'[d] = cmd[d]

\* Steps that have nothing to do with pools, nor with a connection of c.
QuietStep(c) ==
  \/ \E r \in Request : Invoke(c, r)
  \/ CheckPool(c) \/ OpenFails(c) \/ Lookup(c)
  \/ AcquireFails(c) \/ TimesOutWaiting(c)

\* A quiet step changes the progress of c only.
LEMMA QuietFacts ==
  ASSUME TypeOK, SqlAssumption, NEW c \in Command, QuietStep(c)
  PROVE  /\ OthersStay(c) /\ UNCHANGED <<pools, pool, conns>>
         /\ ~HasConnection(c) /\ ~HasConnection(c)'
         /\ ~Inserting(c) /\ ~Inserting(c)'
<1>1. cmd \in [Command -> Progress] /\ cmd[c] \in Progress
  BY DEF TypeOK
<1>2. ASSUME NEW r \in Request, Invoke(c, r)
      PROVE  /\ OthersStay(c) /\ UNCHANGED <<pools, pool, conns>>
             /\ ~HasConnection(c) /\ ~HasConnection(c)'
             /\ ~Inserting(c) /\ ~Inserting(c)'
  <2>1. FirstStep(r) \in {"check", "opening", "removing", "done", "lookup"}
    BY FirstStepFacts DEF SqlAssumption
  <2>2. /\ cmd[c].pc = "new" /\ UNCHANGED <<pools, pool, conns>>
        /\ cmd' = [cmd EXCEPT ![c].pc = FirstStep(r), ![c].req = r, ![c].at = 1,
                              ![c].result = IF FirstStep(r) = "done" THEN "ok" ELSE "none"]
    BY <1>2 DEF Invoke
  <2>3. cmd'[c].pc = FirstStep(r)
    BY <1>1, <2>2 DEF Progress
  <2>4. OthersStay(c)
    BY <1>1, <2>2 DEF OthersStay
  <2>5. QED BY <2>1, <2>2, <2>3, <2>4 DEF HasConnection, Inserting
<1>3. ASSUME NEW pc \in {"opening", "done", "acquiring"}, cmd'[c].pc = pc, OthersStay(c),
             cmd[c].pc \in {"check", "opening", "lookup", "acquiring"},
             UNCHANGED <<pools, pool, conns>>
      PROVE  /\ OthersStay(c) /\ UNCHANGED <<pools, pool, conns>>
             /\ ~HasConnection(c) /\ ~HasConnection(c)'
             /\ ~Inserting(c) /\ ~Inserting(c)'
  BY <1>3 DEF HasConnection, Inserting
<1>4. \A r : Ends(c, r) => OthersStay(c) /\ cmd'[c].pc = "done"
  BY <1>1 DEF Ends, OthersStay, Progress
<1>5. \A pc : Goes(c, pc) => OthersStay(c) /\ cmd'[c].pc = pc
  BY <1>1 DEF Goes, OthersStay, Progress
<1>6. \A p : cmd' = [cmd EXCEPT ![c].pc = "acquiring", ![c].pool = p]
        => OthersStay(c) /\ cmd'[c].pc = "acquiring"
  BY <1>1 DEF OthersStay, Progress
<1>7. CASE CheckPool(c)
  BY <1>3, <1>4, <1>5, <1>7 DEF CheckPool
<1>8. CASE OpenFails(c)
  BY <1>3, <1>4, <1>8 DEF OpenFails
<1>9. CASE Lookup(c)
  BY <1>3, <1>4, <1>6, <1>9 DEF Lookup
<1>10. CASE AcquireFails(c)
  BY <1>3, <1>4, <1>10 DEF AcquireFails
<1>11. CASE TimesOutWaiting(c)
  BY <1>3, <1>4, <1>11 DEF TimesOutWaiting
<1>12. QED BY <1>2, <1>7, <1>8, <1>9, <1>10, <1>11 DEF QuietStep

\* What changes when c goes on with its connection or takes one.
LEMMA UsesFacts ==
  ASSUME TypeOK, NEW c \in Command, cmd[c].pool \in PoolId,
         NEW s \in Slot, NEW pc \in {"running", "cleaning"}, NEW at, NEW touched,
         NEW x \in Connection, Uses(c, s, pc, at, touched, x)
  PROVE  /\ OthersStay(c) /\ UNCHANGED <<pools, pool>>
         /\ HasConnection(c)' /\ ~Inserting(c)'
         /\ cmd'[c].pool = cmd[c].pool /\ cmd'[c].slot = s
         /\ conns'[cmd[c].pool][s] = x
         /\ \A p \in PoolId, t \in Slot : <<p, t>> # <<cmd[c].pool, s>>
              => conns'[p][t] = conns[p][t]
<1>1. /\ cmd \in [Command -> Progress] /\ cmd[c] \in Progress
      /\ conns \in [PoolId -> [Slot -> Connection]]
  BY DEF TypeOK
<1>2. /\ cmd' = [cmd EXCEPT ![c] = Using(cmd[c], s, pc, at, touched)]
      /\ conns' = [conns EXCEPT ![cmd[c].pool][s] = x]
      /\ UNCHANGED <<pools, pool>>
  BY DEF Uses
<1>3. /\ cmd'[c].pc = pc /\ cmd'[c].pool = cmd[c].pool /\ cmd'[c].slot = s
      /\ OthersStay(c)
  BY <1>1, <1>2 DEF Progress, Using, OthersStay
<1>4. /\ conns'[cmd[c].pool][s] = x
      /\ \A p \in PoolId, t \in Slot : <<p, t>> # <<cmd[c].pool, s>>
              => conns'[p][t] = conns[p][t]
  BY <1>1, <1>2
<1>5. QED BY <1>2, <1>3, <1>4 DEF HasConnection, Inserting

\* What changes when c gives its connection back.
LEMMA LeavesFacts ==
  ASSUME TypeOK, SqlAssumption, NEW c \in Command, HasConnection(c),
         NEW x \in Connection, NEW result, NEW touched, Leaves(c, x, result, touched)
  PROVE  /\ OthersStay(c) /\ UNCHANGED <<pools, pool>>
         /\ ~HasConnection(c)' /\ ~Inserting(c)'
         /\ conns'[cmd[c].pool][cmd[c].slot].state # "used"
         /\ \A p \in PoolId, t \in Slot : <<p, t>> # <<cmd[c].pool, cmd[c].slot>>
              => conns'[p][t] = conns[p][t]
<1>1. cmd \in [Command -> Progress] /\ cmd[c] \in Progress
  BY DEF TypeOK
<1>2. /\ cmd' = [cmd EXCEPT ![c].pc = "done", ![c].result = result, ![c].touched = touched]
      /\ GivesBack(c, x)
      /\ UNCHANGED <<pools, pool>>
  BY DEF Leaves
<1>3. cmd'[c].pc = "done" /\ OthersStay(c)
  BY <1>1, <1>2 DEF Progress, OthersStay
<1>4. QED BY <1>2, <1>3, GivesBackFacts DEF HasConnection, Inserting

(***************************************************************************)
(* Connections                                                             *)
(***************************************************************************)
\* c neither had a connection nor gets one.
LEMMA ConnectionInvAside ==
  ASSUME TypeOK, TypeOK', ConnectionInv, NEW c \in Command, OthersStay(c),
         ~HasConnection(c), ~HasConnection(c)',
         \A p \in PoolId, s \in Slot :
           conns'[p][s].state = "used" <=> conns[p][s].state = "used"
  PROVE  ConnectionInv'
<1>1. \A d \in Command : HasConnection(d)' <=> HasConnection(d)
  BY DEF OthersStay, HasConnection
<1>2. \A d \in Command : HasConnection(d) => cmd'[d] = cmd[d]
  BY DEF OthersStay
<1>3. \A d \in Command : HasConnection(d) => cmd[d].pool \in PoolId /\ cmd[d].slot \in Slot
  BY DEF TypeOK
<1>4. QED BY <1>1, <1>2, <1>3 DEF ConnectionInv, Holds, Conn

\* c goes on with its connection, or takes one that was free.
LEMMA ConnectionInvUses ==
  ASSUME TypeOK, ConnectionInv, NEW c \in Command, OthersStay(c),
         NEW p \in PoolId, NEW s \in Slot,
         \/ Holds(c, p, s)
         \/ ~HasConnection(c) /\ conns[p][s].state # "used",
         Holds(c, p, s)', conns'[p][s].state = "used",
         \A q \in PoolId, t \in Slot : <<q, t>> # <<p, s>> => conns'[q][t] = conns[q][t]
  PROVE  ConnectionInv'
<1>1. ASSUME NEW d \in Command, d # c
      PROVE  /\ \A q, t : Holds(d, q, t)' <=> Holds(d, q, t)
             /\ HasConnection(d)' <=> HasConnection(d)
             /\ cmd'[d] = cmd[d]
             /\ ~Holds(d, p, s)
    <2>1. cmd'[d] = cmd[d]
      BY <1>1 DEF OthersStay
    <2>2. ~Holds(d, p, s)
      BY <1>1 DEF ConnectionInv, Holds, Conn
    <2>3. QED BY <2>1, <2>2 DEF Holds, HasConnection
<1>2. \A q, t : Holds(c, q, t) => q = p /\ t = s
  BY DEF Holds
<1>3. \A q, t : Holds(c, q, t)' <=> q = p /\ t = s
  BY DEF Holds, HasConnection
<1>4. \A d \in Command : HasConnection(d) => cmd[d].pool \in PoolId /\ cmd[d].slot \in Slot
  BY DEF TypeOK
<1>5. \A d \in Command : HasConnection(d)' => Conn(d)'.state = "used"
  <2>1. TAKE d \in Command
  <2>2. HAVE HasConnection(d)'
  <2>3. CASE d = c
    BY <2>3 DEF Holds, Conn
  <2>4. CASE d # c
    <3>1. HasConnection(d) /\ cmd'[d] = cmd[d] /\ ~Holds(d, p, s)
      BY <1>1, <2>2, <2>4
    <3>2. <<cmd[d].pool, cmd[d].slot>> # <<p, s>>
      BY <3>1 DEF Holds
    <3>3. QED BY <1>4, <3>1, <3>2 DEF ConnectionInv, Conn
  <2>5. QED BY <2>3, <2>4
<1>6. \A q \in PoolId, t \in Slot : conns'[q][t].state = "used" =>
        \E d \in Command : Holds(d, q, t)'
  <2>1. TAKE q \in PoolId, t \in Slot
  <2>2. HAVE conns'[q][t].state = "used"
  <2>3. CASE q = p /\ t = s
    BY <2>3
  <2>4. CASE ~(q = p /\ t = s)
    <3>1. PICK d \in Command : Holds(d, q, t)
      BY <2>2, <2>4 DEF ConnectionInv
    <3>2. d # c
      BY <1>2, <2>4, <3>1
    <3>3. QED BY <1>1, <3>1, <3>2
  <2>5. QED BY <2>3, <2>4
<1>7. \A d, e \in Command : HasConnection(d)' /\ Holds(e, cmd[d].pool, cmd[d].slot)' => d = e
  <2>1. TAKE d, e \in Command
  <2>2. HAVE HasConnection(d)' /\ Holds(e, cmd[d].pool, cmd[d].slot)'
  <2>3. CASE d = c /\ e # c
    <3>1. cmd'[c].pool = p /\ cmd'[c].slot = s
      BY DEF Holds
    <3>2. Holds(e, p, s)'
      BY <2>2, <2>3, <3>1 DEF Holds, HasConnection
    <3>3. QED BY <1>1, <2>3, <3>2
  <2>4. CASE d # c /\ e = c
    <3>1. cmd'[d].pool = p /\ cmd'[d].slot = s
      BY <2>2, <2>4 DEF Holds
    <3>2. Holds(d, p, s)'
      BY <2>2, <3>1 DEF Holds, HasConnection
    <3>3. QED BY <1>1, <2>4, <3>2
  <2>5. CASE d # c /\ e # c
    <3>1. HasConnection(d) /\ cmd'[d] = cmd[d] /\ cmd'[e] = cmd[e]
      BY <1>1, <2>2, <2>5
    <3>2. Holds(e, cmd[d].pool, cmd[d].slot)
      BY <2>2, <3>1 DEF Holds, HasConnection
    <3>3. QED BY <3>1, <3>2 DEF ConnectionInv
  <2>6. QED BY <2>3, <2>4, <2>5
<1>8. QED BY <1>5, <1>6, <1>7 DEF ConnectionInv

\* c gives its connection back.
LEMMA ConnectionInvLeaves ==
  ASSUME TypeOK, ConnectionInv, NEW c \in Command, OthersStay(c),
         HasConnection(c), ~HasConnection(c)',
         conns'[cmd[c].pool][cmd[c].slot].state # "used",
         \A q \in PoolId, t \in Slot :
           <<q, t>> # <<cmd[c].pool, cmd[c].slot>> => conns'[q][t] = conns[q][t]
  PROVE  ConnectionInv'
<1>1. ASSUME NEW d \in Command, d # c
      PROVE  /\ \A q, t : Holds(d, q, t)' <=> Holds(d, q, t)
             /\ HasConnection(d)' <=> HasConnection(d)
             /\ cmd'[d] = cmd[d]
  BY <1>1 DEF OthersStay, Holds, HasConnection
<1>2. \A d \in Command : HasConnection(d) => cmd[d].pool \in PoolId /\ cmd[d].slot \in Slot
  BY DEF TypeOK
<1>3. \A d \in Command : d # c /\ HasConnection(d)
        => <<cmd[d].pool, cmd[d].slot>> # <<cmd[c].pool, cmd[c].slot>>
  BY DEF ConnectionInv, Holds
<1>4. \A d \in Command : HasConnection(d)' => Conn(d)'.state = "used"
  BY <1>1, <1>2, <1>3 DEF ConnectionInv, Conn
<1>5. \A q \in PoolId, t \in Slot : conns'[q][t].state = "used" =>
        \E d \in Command : Holds(d, q, t)'
  <2>1. TAKE q \in PoolId, t \in Slot
  <2>2. HAVE conns'[q][t].state = "used"
  <2>3. <<q, t>> # <<cmd[c].pool, cmd[c].slot>>
    BY <2>2
  <2>4. PICK d \in Command : Holds(d, q, t)
    BY <2>2, <2>3 DEF ConnectionInv
  <2>5. d # c
    BY <2>3, <2>4 DEF Holds
  <2>6. QED BY <1>1, <2>4, <2>5
<1>6. \A d, e \in Command : HasConnection(d)' /\ Holds(e, cmd[d].pool, cmd[d].slot)' => d = e
  <2>1. TAKE d, e \in Command
  <2>2. HAVE HasConnection(d)' /\ Holds(e, cmd[d].pool, cmd[d].slot)'
  <2>3. d # c /\ e # c
    BY <2>2 DEF Holds
  <2>4. HasConnection(d) /\ cmd'[d] = cmd[d] /\ cmd'[e] = cmd[e]
    BY <1>1, <2>2, <2>3
  <2>5. Holds(e, cmd[d].pool, cmd[d].slot)
    BY <2>2, <2>4 DEF Holds, HasConnection
  <2>6. QED BY <2>4, <2>5 DEF ConnectionInv
<1>7. QED BY <1>4, <1>5, <1>6 DEF ConnectionInv

(***************************************************************************)
(* Pools                                                                   *)
(***************************************************************************)
\* A step that leaves the pools alone, of a command on no way into the map.
LEMMA PoolInvAside ==
  ASSUME PoolInv, NEW c \in Command, OthersStay(c), UNCHANGED <<pools, pool>>,
         ~Inserting(c), ~Inserting(c)'
  PROVE  PoolInv'
<1>1. \A d \in Command : /\ Inserting(d)' <=> Inserting(d)
                         /\ Inserting(d) => cmd'[d] = cmd[d]
  BY DEF OthersStay, Inserting
<1>2. QED BY <1>1 DEF PoolInv, Of

\* PoolInv, field by field.
LEMMA PoolFacts ==
  ASSUME PoolInv
  PROVE  /\ \A h \in Handle : pools[h] # NoPool =>
              pool[pools[h]].state = "open" /\ pool[pools[h]].handle = h
         /\ \A c \in Command : Inserting(c) =>
              pool[cmd[c].pool].state = "open" /\ pool[cmd[c].pool].handle = Of(c)
<1>1. /\ \A h \in Handle : pools[h] # NoPool =>
           pool[pools[h]] = [state |-> "open", handle |-> h]
      /\ \A c \in Command : Inserting(c) =>
           pool[cmd[c].pool] = [state |-> "open", handle |-> Of(c)]
  BY DEF PoolInv
<1>2. \A r, h : r = [state |-> "open", handle |-> h] => r.state = "open" /\ r.handle = h
  OBVIOUS
<1>3. QED BY <1>1, <1>2

\* A pool that has just been opened is new to the map and to every command.
LEMMA OpenSucceedsKeepsPoolInv ==
  ASSUME TypeOK, SqlAssumption, PoolInv, NEW c \in Command, OpenSucceeds(c)
  PROVE  /\ OthersStay(c) /\ UNCHANGED conns
         /\ ~HasConnection(c) /\ ~HasConnection(c)'
         /\ PoolInv'
<1>1. PICK p \in PoolId :
        /\ pool[p].state = "unused"
        /\ pool' = [pool EXCEPT ![p] = [state |-> "open", handle |-> Of(c)]]
        /\ cmd' = [cmd EXCEPT ![c].pc = "inserting", ![c].pool = p]
  BY DEF OpenSucceeds
<1>2. cmd[c].pc = "opening" /\ UNCHANGED <<pools, conns>>
  BY DEF OpenSucceeds
<1>3. /\ cmd \in [Command -> Progress] /\ cmd[c] \in Progress
      /\ pool \in [PoolId -> [state : {"unused", "open", "closed"}, handle : Handle]]
      /\ pools \in [Handle -> PoolId \cup {NoPool}]
      /\ NoPool \notin PoolId
  BY DEF TypeOK, SqlAssumption
<1>4. /\ cmd'[c].pc = "inserting" /\ cmd'[c].pool = p /\ cmd'[c].req = cmd[c].req
      /\ OthersStay(c)
  BY <1>1, <1>3 DEF Progress, OthersStay
<1>5. \A d \in Command : d # c => /\ Inserting(d)' <=> Inserting(d)
                                  /\ cmd'[d] = cmd[d]
  BY <1>4 DEF OthersStay, Inserting
<1>6. /\ ~Inserting(c) /\ Inserting(c)' /\ Of(c)' = Of(c)
      /\ ~HasConnection(c) /\ ~HasConnection(c)'
  BY <1>2, <1>4 DEF Inserting, Of, HasConnection
<1>7. /\ pool'[p] = [state |-> "open", handle |-> Of(c)]
      /\ \A q \in PoolId : q # p => pool'[q] = pool[q]
  BY <1>1, <1>3
<1>8. \A h \in Handle : pools[h] # p
  BY <1>1, <1>3, PoolFacts
<1>9. \A d \in Command : Inserting(d) => cmd[d].pool # p /\ cmd[d].pool \in PoolId
  BY <1>1, PoolFacts DEF Inserting, TypeOK
<1>10. \A h \in Handle : pools'[h] # NoPool => pool'[pools'[h]] = [state |-> "open", handle |-> h]
  BY <1>2, <1>3, <1>7, <1>8 DEF PoolInv
<1>11. ASSUME NEW d \in Command, Inserting(d)'
       PROVE  /\ pool'[cmd'[d].pool] = [state |-> "open", handle |-> Of(d)']
              /\ \A h \in Handle : pools'[h] # cmd'[d].pool
              /\ \A e \in Command : Inserting(e)' /\ cmd'[e].pool = cmd'[d].pool => e = d
  <2>1. CASE d = c
    BY <1>2, <1>4, <1>5, <1>6, <1>7, <1>8, <1>9, <2>1
  <2>2. CASE d # c
    <3>1. Inserting(d) /\ cmd'[d] = cmd[d] /\ Of(d)' = Of(d)
      BY <1>5, <1>11, <2>2 DEF Of
    <3>2. QED BY <1>2, <1>4, <1>5, <1>7, <1>9, <2>2, <3>1 DEF PoolInv
  <2>3. QED BY <2>1, <2>2
<1>12. \A q \in PoolId : pool'[q].state = "open" =>
         \/ \E h \in Handle : pools'[h] = q
         \/ \E d \in Command : Inserting(d)' /\ cmd'[d].pool = q
  <2>1. TAKE q \in PoolId
  <2>2. HAVE pool'[q].state = "open"
  <2>3. CASE q = p
    BY <1>4, <1>6, <2>3
  <2>4. CASE q # p
    BY <1>2, <1>5, <1>6, <1>7, <2>2, <2>4 DEF PoolInv
  <2>5. QED BY <2>3, <2>4
<1>13. PoolInv'
  BY <1>10, <1>11, <1>12 DEF PoolInv
<1>14. QED BY <1>2, <1>4, <1>6, <1>13

\* Insert and Remove: the handle of c gets the pool q, and what it had is closed.
LEMMA CloseKeepsPoolInv ==
  ASSUME TypeOK, SqlAssumption, PoolInv, NEW c \in Command, Of(c) \in Handle,
         Close(c, pools[Of(c)], pool),
         NEW q \in PoolId \cup {NoPool}, pools' = [pools EXCEPT ![Of(c)] = q],
         \/ Inserting(c) /\ q = cmd[c].pool
         \/ ~Inserting(c) /\ q = NoPool
  PROVE  /\ OthersStay(c) /\ ~HasConnection(c)'
         /\ PoolInv'
<1> DEFINE h == Of(c)
           old == pools[h]
<1>1. /\ cmd \in [Command -> Progress] /\ cmd[c] \in Progress
      /\ pool \in [PoolId -> [state : {"unused", "open", "closed"}, handle : Handle]]
      /\ pools \in [Handle -> PoolId \cup {NoPool}]
      /\ NoPool \notin PoolId
  BY DEF TypeOK, SqlAssumption
<1>2. /\ OthersStay(c) /\ cmd'[c].pc \in {"done", "closing"}
  BY <1>1 DEF Close, Ends, OthersStay, Progress
<1>3. /\ ~Inserting(c)' /\ ~HasConnection(c)'
      /\ \A d \in Command : d # c => /\ Inserting(d)' <=> Inserting(d)
                                     /\ cmd'[d] = cmd[d] /\ Of(d)' = Of(d)
  BY <1>2 DEF OthersStay, Inserting, HasConnection, Of
<1>4. /\ \A p \in PoolId : p # old => pool'[p] = pool[p]
      /\ old # NoPool => pool'[old].state = "closed"
  BY <1>1 DEF Close
<1>5. pools'[h] = q /\ \A g \in Handle : g # h => pools'[g] = pools[g]
  BY <1>1
<1>6. old # NoPool => pool[old].handle = h
  BY PoolFacts
<1>7. \A d \in Command : Inserting(d) =>
        /\ cmd[d].pool \in PoolId /\ cmd[d].pool # old
        /\ \A g \in Handle : pools[g] # cmd[d].pool
        /\ pool[cmd[d].pool] = [state |-> "open", handle |-> Of(d)]
        /\ d # c => cmd[d].pool # q
  BY <1>1 DEF PoolInv, TypeOK, Inserting
<1> HIDE DEF h, old
<1>8. ASSUME NEW g \in Handle, pools'[g] # NoPool
      PROVE  pool'[pools'[g]] = [state |-> "open", handle |-> g]
  <2>1. CASE g = h
    <3>1. Inserting(c) /\ q = cmd[c].pool
      BY <1>5, <1>8, <2>1
    <3>2. QED BY <1>4, <1>5, <1>7, <2>1, <3>1 DEF h
  <2>2. CASE g # h
    <3>1. pools'[g] = pools[g] /\ pools[g] \in PoolId
      BY <1>1, <1>5, <1>8, <2>2
    <3>2. pool[pools[g]] = [state |-> "open", handle |-> g]
      BY <1>8, <3>1 DEF PoolInv
    <3>3. pools[g] # old
      BY <1>6, <1>8, <2>2, <3>1, <3>2
    <3>4. QED BY <1>4, <3>1, <3>2, <3>3
  <2>3. QED BY <2>1, <2>2
<1>9. ASSUME NEW d \in Command, Inserting(d)'
      PROVE  /\ pool'[cmd'[d].pool] = [state |-> "open", handle |-> Of(d)']
             /\ \A g \in Handle : pools'[g] # cmd'[d].pool
             /\ \A e \in Command : Inserting(e)' /\ cmd'[e].pool = cmd'[d].pool => e = d
  <2>1. d # c /\ Inserting(d) /\ cmd'[d] = cmd[d] /\ Of(d)' = Of(d)
    BY <1>3, <1>9
  <2>2. pool'[cmd'[d].pool] = [state |-> "open", handle |-> Of(d)']
    BY <1>4, <1>7, <2>1
  <2>3. \A g \in Handle : pools'[g] # cmd'[d].pool
    BY <1>5, <1>7, <2>1
  <2>4. \A e \in Command : Inserting(e)' /\ cmd'[e].pool = cmd'[d].pool => e = d
    BY <1>3, <2>1 DEF PoolInv
  <2>5. QED BY <2>2, <2>3, <2>4
<1>10. ASSUME NEW p \in PoolId, pool'[p].state = "open"
       PROVE  \/ \E g \in Handle : pools'[g] = p
              \/ \E d \in Command : Inserting(d)' /\ cmd'[d].pool = p
  <2>1. p # old /\ pool[p].state = "open"
    BY <1>1, <1>4, <1>10
  <2>2. CASE \E g \in Handle : pools[g] = p
    <3>1. PICK g \in Handle : pools[g] = p
      BY <2>2
    <3>2. g # h
      BY <2>1, <3>1 DEF h, old
    <3>3. QED BY <1>5, <3>1, <3>2
  <2>3. CASE \E d \in Command : Inserting(d) /\ cmd[d].pool = p
    <3>1. PICK d \in Command : Inserting(d) /\ cmd[d].pool = p
      BY <2>3
    <3>2. CASE d = c
      <4>1. q = p
        BY <3>1, <3>2
      <4>2. pools'[h] = p /\ h \in Handle
        BY <1>5, <4>1 DEF h
      <4>3. QED BY <4>2
    <3>3. CASE d # c
      BY <1>3, <3>1, <3>3
    <3>4. QED BY <3>2, <3>3
  <2>4. QED BY <2>1, <2>2, <2>3 DEF PoolInv
<1>11. PoolInv'
  BY <1>8, <1>9, <1>10 DEF PoolInv
<1>12. QED BY <1>2, <1>3, <1>11

(***************************************************************************)
(* The invariant                                                           *)
(***************************************************************************)
\* The initial state satisfies the invariant.
LEMMA InitInv ==
  ASSUME SqlAssumption, Init
  PROVE  Inv
<1>1. TypeOK
  BY InitTypeOK
<1>2. /\ \A c \in Command : ~HasConnection(c) /\ ~Inserting(c)
      /\ \A p \in PoolId, s \in Slot : conns[p][s].state # "used"
      /\ \A h \in Handle : pools[h] = NoPool
      /\ \A p \in PoolId : pool[p].state # "open"
  BY DEF Init, NotInvoked, NoConnection, HasConnection, Inserting
<1>3. PoolInv
  BY <1>2 DEF PoolInv
<1>4. ConnectionInv
  BY <1>2 DEF ConnectionInv
<1>5. QED BY <1>1, <1>3, <1>4 DEF Inv

\* Quiet steps keep the invariant.
LEMMA QuietKeepsInv ==
  ASSUME Inv, SqlAssumption, NEW c \in Command, QuietStep(c)
  PROVE  Inv'
<1> USE DEF Inv
<1>1. TypeOK'
  <2>1. CASE \E r \in Request : Invoke(c, r)
    BY <2>1, InvokeType
  <2>2. CASE CheckPool(c) \/ OpenFails(c) \/ Lookup(c)
    BY <2>2, LifecycleType DEF Lifecycle
  <2>3. CASE AcquireFails(c) \/ TimesOutWaiting(c)
    <3>1. PICK result \in {"error", "timeout"} : Ends(c, result)
      BY <2>3 DEF AcquireFails, TimesOutWaiting
    <3>2. cmd[c].pc # "new" /\ RestType'
      BY <2>3 DEF AcquireFails, TimesOutWaiting, TypeOK, RestType
    <3>3. QED BY <3>1, <3>2, EndType
  <2>4. QED BY <2>1, <2>2, <2>3 DEF QuietStep
<1>2. /\ OthersStay(c) /\ UNCHANGED <<pools, pool, conns>>
      /\ ~HasConnection(c) /\ ~HasConnection(c)'
      /\ ~Inserting(c) /\ ~Inserting(c)'
  BY QuietFacts
<1>3. PoolInv'
  BY <1>2, PoolInvAside
<1>4. ConnectionInv'
  BY <1>1, <1>2, ConnectionInvAside
<1>5. QED BY <1>1, <1>3, <1>4

\* Opening, inserting, removing and closing pools keep the invariant.
LEMMA PoolStepKeepsInv ==
  ASSUME Inv, SqlAssumption, NEW c \in Command,
         OpenSucceeds(c) \/ Insert(c) \/ Remove(c) \/ CloseEnds(c)
  PROVE  Inv'
<1> USE DEF Inv
<1>1. TypeOK'
  BY LifecycleType DEF Lifecycle
<1>2. CASE OpenSucceeds(c)
  <2>1. /\ OthersStay(c) /\ UNCHANGED conns
        /\ ~HasConnection(c) /\ ~HasConnection(c)'
        /\ PoolInv'
    BY <1>2, OpenSucceedsKeepsPoolInv
  <2>2. QED BY <1>1, <2>1, ConnectionInvAside
<1>3. CASE Insert(c)
  <2>1. cmd[c].pc = "inserting" /\ UNCHANGED conns /\ cmd[c].pool \in PoolId
    BY <1>3 DEF Insert, TypeOK
  <2>2. Inserting(c) /\ ~HasConnection(c) /\ Of(c) \in Handle
    BY <2>1, CommandFacts DEF Inserting, HasConnection
  <2>3. Close(c, pools[Of(c)], pool) /\ pools' = [pools EXCEPT ![Of(c)] = cmd[c].pool]
    BY <1>3 DEF Insert, PreviousToClose
  <2>4. OthersStay(c) /\ ~HasConnection(c)' /\ PoolInv'
    BY <2>1, <2>2, <2>3, CloseKeepsPoolInv
  <2>5. QED BY <1>1, <2>1, <2>2, <2>4, ConnectionInvAside
<1>4. CASE Remove(c)
  <2>1. cmd[c].pc = "removing" /\ UNCHANGED conns
    BY <1>4 DEF Remove
  <2>2. ~Inserting(c) /\ ~HasConnection(c) /\ Of(c) \in Handle
    BY <2>1, CommandFacts DEF Inserting, HasConnection
  <2>3. Close(c, pools[Of(c)], pool) /\ pools' = [pools EXCEPT ![Of(c)] = NoPool]
    BY <1>4 DEF Remove
  <2>4. OthersStay(c) /\ ~HasConnection(c)' /\ PoolInv'
    BY <2>2, <2>3, CloseKeepsPoolInv
  <2>5. QED BY <1>1, <2>1, <2>2, <2>4, ConnectionInvAside
<1>5. CASE CloseEnds(c)
  <2>1. /\ cmd[c].pc = "closing" /\ Ends(c, "ok") /\ UNCHANGED <<pools, pool>>
        /\ \A s \in Slot : conns[cmd[c].pool][s].state # "used"
        /\ conns' = [conns EXCEPT ![cmd[c].pool] = [s \in Slot |-> NoConnection]]
    BY <1>5 DEF CloseEnds
  <2>2. /\ OthersStay(c)
        /\ ~Inserting(c) /\ ~Inserting(c)'
        /\ ~HasConnection(c) /\ ~HasConnection(c)'
    BY <2>1 DEF Ends, OthersStay, Inserting, HasConnection, TypeOK, Progress
  <2>3. \A p \in PoolId, s \in Slot :
          conns'[p][s].state = "used" <=> conns[p][s].state = "used"
    BY <2>1 DEF NoConnection, TypeOK
  <2>4. PoolInv'
    BY <2>1, <2>2, PoolInvAside
  <2>5. QED BY <1>1, <2>2, <2>3, <2>4, ConnectionInvAside
<1>6. QED BY <1>2, <1>3, <1>4, <1>5

\* Taking a connection keeps the invariant.
LEMMA AcquireKeepsInv ==
  ASSUME Inv, SqlAssumption, NEW c \in Command, Acquire(c)
  PROVE  Inv'
<1> USE DEF Inv
<1>1. PICK p \in PoolId : cmd[c].pool = p
  BY AcquireShape
<1>2. PICK s \in Slot, at \in Nat, x \in Connection :
        /\ cmd[c].pc = "acquiring"
        /\ conns[p][s].state # "used" /\ x.state = "used"
        /\ Uses(c, s, "running", at, cmd[c].touched, x)
  BY <1>1, AcquireShape
<1>3. cmd[c].touched \in SUBSET Effect /\ ~HasConnection(c) /\ ~Inserting(c)
  BY <1>2 DEF TypeOK, Progress, HasConnection, Inserting
<1>4. TypeOK'
  BY <1>1, <1>2, <1>3, UsesType
<1>5. /\ OthersStay(c) /\ UNCHANGED <<pools, pool>>
      /\ HasConnection(c)' /\ ~Inserting(c)'
      /\ cmd'[c].pool = p /\ cmd'[c].slot = s
      /\ conns'[p][s] = x
      /\ \A q \in PoolId, t \in Slot : <<q, t>> # <<p, s>> => conns'[q][t] = conns[q][t]
  BY <1>1, <1>2, UsesFacts
<1>6. PoolInv'
  BY <1>3, <1>5, PoolInvAside
<1>7. Holds(c, p, s)'
  BY <1>5 DEF Holds
<1>8. ConnectionInv'
  BY <1>2, <1>3, <1>5, <1>7, ConnectionInvUses
<1>9. QED BY <1>4, <1>6, <1>8

\* Statements, failures, clean-up and the time limit keep the invariant.
LEMMA RunningStepKeepsInv ==
  ASSUME Inv, SqlAssumption, NEW c \in Command, RunningStep(c)
  PROVE  Inv'
<1> USE DEF Inv
<1>1. HasConnection(c) /\ (GoesOn(c) \/ EndsRun(c)) /\ ~Inserting(c) /\ cmd[c].pc # "new"
  BY RunningStepShapes DEF HasConnection, Inserting
<1>2. PICK p \in PoolId, s \in Slot : cmd[c].pool = p /\ cmd[c].slot = s
  BY <1>1 DEF TypeOK
<1>3. conns[p][s].state = "used" /\ Holds(c, p, s)
  BY <1>1, <1>2 DEF ConnectionInv, Conn, Holds
<1>4. CASE GoesOn(c)
  <2>1. PICK pc \in {"running", "cleaning"}, at \in Nat, touched \in SUBSET Effect,
             x \in Connection :
          x.state = "used" /\ Uses(c, s, pc, at, touched, x)
    BY <1>2, <1>3, <1>4 DEF GoesOn, Conn
  <2>2. TypeOK'
    BY <1>1, <1>2, <2>1, UsesType
  <2>3. /\ OthersStay(c) /\ UNCHANGED <<pools, pool>>
        /\ HasConnection(c)' /\ ~Inserting(c)'
        /\ cmd'[c].pool = p /\ cmd'[c].slot = s
        /\ conns'[p][s] = x
        /\ \A q \in PoolId, t \in Slot : <<q, t>> # <<p, s>> => conns'[q][t] = conns[q][t]
    BY <1>2, <2>1, UsesFacts
  <2>4. PoolInv'
    BY <1>1, <2>3, PoolInvAside
  <2>5. Holds(c, p, s)'
    BY <2>3 DEF Holds
  <2>6. ConnectionInv'
    BY <1>3, <2>1, <2>3, <2>5, ConnectionInvUses
  <2>7. QED BY <2>2, <2>4, <2>6
<1>5. CASE EndsRun(c)
  <2>1. PICK x \in Connection, result \in {"ok", "error", "timeout"},
             touched \in SUBSET Effect :
          Leaves(c, x, result, touched)
    BY <1>5 DEF EndsRun
  <2>2. TypeOK'
    BY <1>1, <2>1, LeavesType
  <2>3. /\ OthersStay(c) /\ UNCHANGED <<pools, pool>>
        /\ ~HasConnection(c)' /\ ~Inserting(c)'
        /\ conns'[cmd[c].pool][cmd[c].slot].state # "used"
        /\ \A q \in PoolId, t \in Slot :
             <<q, t>> # <<cmd[c].pool, cmd[c].slot>> => conns'[q][t] = conns[q][t]
    BY <1>1, <2>1, LeavesFacts
  <2>4. PoolInv'
    BY <1>1, <2>3, PoolInvAside
  <2>5. ConnectionInv'
    BY <1>1, <2>3, ConnectionInvLeaves
  <2>6. QED BY <2>2, <2>4, <2>5
<1>6. QED BY <1>1, <1>4, <1>5

\* Every state of every run satisfies the inductive invariant.
THEOREM Invariant == Spec => []Inv
<1>1. Init => Inv
  BY SqlAssumption, InitInv
<1>2. Inv /\ [Next]_vars => Inv'
  <2> SUFFICES ASSUME Inv, [Next]_vars
               PROVE  Inv'
    OBVIOUS
  <2>1. CASE Next
    <3>1. PICK c \in Command :
            (\E r \in Request : Invoke(c, r)) \/ Lifecycle(c) \/ Runs(c) \/ TimesOut(c)
      BY <2>1 DEF Next
    <3>2. CASE QuietStep(c)
      BY <3>2, SqlAssumption, QuietKeepsInv
    <3>3. CASE OpenSucceeds(c) \/ Insert(c) \/ Remove(c) \/ CloseEnds(c)
      BY <3>3, SqlAssumption, PoolStepKeepsInv
    <3>4. CASE Acquire(c)
      BY <3>4, SqlAssumption, AcquireKeepsInv
    <3>5. CASE RunningStep(c)
      BY <3>5, SqlAssumption, RunningStepKeepsInv
    <3>6. QED
      BY <3>1, <3>2, <3>3, <3>4, <3>5 DEF QuietStep, RunningStep, Lifecycle, Runs, TimesOut
  <2>2. CASE UNCHANGED vars
    BY <2>2 DEF vars, Inv, TypeOK, PoolInv, ConnectionInv, Inserting, Of, HasConnection,
                Holds, Conn
  <2>3. QED BY <2>1, <2>2
<1>3. QED BY <1>1, <1>2, PTL DEF Spec

\* Every part has its type, and a command that uses a pool or a connection has one.
THEOREM TypeCorrectness == Spec => []TypeOK
<1>1. Inv => TypeOK
  BY DEF Inv
<1>2. QED BY <1>1, Invariant, PTL

\* sql_connect and sql_disconnect of the same handle may overlap as they like: no pool
\* is left open behind the map, and the map leads to open pools only.
THEOREM PoolsAreReachable == Spec => []EveryPoolIsReachable
<1>1. Inv => EveryPoolIsReachable
  BY DEF Inv, PoolInv, EveryPoolIsReachable, Inserting
<1>2. QED BY <1>1, Invariant, PTL

\* Whatever fails or times out, a connection in use has one command, and one that has
\* none is back in its pool or closed.
THEOREM ConnectionsHaveCommands == Spec => []EveryConnectionHasItsCommand
<1>1. Inv => EveryConnectionHasItsCommand
  <2> SUFFICES ASSUME Inv, NEW p \in PoolId, NEW s \in Slot
               PROVE  Cardinality({c \in Command : Holds(c, p, s)})
                        = IF conns[p][s].state = "used" THEN 1 ELSE 0
    BY DEF EveryConnectionHasItsCommand, Holds
  <2>1. CASE conns[p][s].state = "used"
    <3>1. PICK c \in Command : Holds(c, p, s)
      BY <2>1 DEF Inv, ConnectionInv
    <3>2. \A d \in Command : Holds(d, p, s) => d = c
      BY <3>1 DEF Inv, ConnectionInv, Holds
    <3>3. {d \in Command : Holds(d, p, s)} = {c}
      BY <3>1, <3>2
    <3>4. QED BY <2>1, <3>3, FS_Singleton
  <2>2. CASE conns[p][s].state # "used"
    <3>1. {c \in Command : Holds(c, p, s)} = {}
      BY <2>2 DEF Inv, ConnectionInv, Holds, Conn
    <3>2. QED BY <2>2, <3>1, FS_EmptySet
  <2>3. QED BY <2>1, <2>2
<1>2. QED BY <1>1, Invariant, PTL

(***************************************************************************)
(* Requests                                                                *)
(***************************************************************************)
Transacts(r) == Batch(r) \/ Script(r)

\* Where its transaction begins and ends, and the last statement it runs.
Start(r)  == IF r.transactional THEN 0 ELSE IF r.statements[1] = "BEGIN" THEN 1 ELSE 2
Finish(r) == Len(r.statements) + 1 - Start(r)
Last(r)   == Len(r.statements) + (IF r.transactional THEN 1 ELSE 0)

\* The statement n of a request, with those the layer adds.
StatementAt(r, n) ==
  CASE n = 0 -> "BEGIN"
    [] n > Len(r.statements) -> "COMMIT"
    [] OTHER -> r.statements[n]

\* Where the transaction of a batch is.
LEMMA BatchShape ==
  ASSUME NEW r \in Requests, Batch(r)
  PROVE  /\ Start(r) = 0 /\ Finish(r) = Len(r.statements) + 1 /\ Last(r) = Finish(r)
         /\ Finish(r) \in Nat /\ Len(r.statements) \in Nat
         /\ \A n \in 1 .. Len(r.statements) : r.statements[n] \in RowStatement
<1>1. Len(r.statements) \in Nat /\ r.transactional
  BY DEF Requests, Batch
<1>2. QED BY <1>1 DEF Batch, RowStatements, Start, Finish, Last

\* Where the transaction of a script is.
LEMMA ScriptShape ==
  ASSUME NEW r \in Requests, Script(r)
  PROVE  /\ Start(r) \in {1, 2} /\ Finish(r) \in Nat /\ Start(r) < Finish(r)
         /\ Len(r.statements) \in Nat /\ Finish(r) = Len(r.statements) + 1 - Start(r)
         /\ Last(r) = Len(r.statements)
         /\ r.statements[Start(r)] = "BEGIN" /\ r.statements[Finish(r)] = "COMMIT"
         /\ \A n \in Start(r) + 1 .. Finish(r) - 1 : r.statements[n] \in RowStatement
         /\ Start(r) = 2 => /\ r.statements[1] = "fkOff"
                            /\ r.statements[Len(r.statements)] = "fkOn"
<1>1. Len(r.statements) \in Nat /\ ~r.transactional
  BY DEF Requests, Script
<1>2. Last(r) = Len(r.statements) /\ Finish(r) = Len(r.statements) + 1 - Start(r)
  BY <1>1 DEF Last, Finish
<1>3. CASE BeginsAt(r, 1)
  <2>1. Start(r) = 1
    BY <1>1, <1>3 DEF BeginsAt, Start
  <2>2. /\ Len(r.statements) >= 2
        /\ r.statements[1] = "BEGIN" /\ r.statements[Len(r.statements)] = "COMMIT"
        /\ RowStatements(r, 2, Len(r.statements) - 1)
    BY <1>1, <1>3 DEF BeginsAt
  <2>3. QED BY <1>1, <1>2, <2>1, <2>2 DEF RowStatements
<1>4. CASE BeginsAt(r, 2)
  <2>1. r.statements[1] = "fkOff"
    BY <1>4 DEF BeginsAt
  <2>2. Start(r) = 2
    BY <1>1, <2>1 DEF Start
  <2>3. /\ Len(r.statements) >= 4
        /\ r.statements[2] = "BEGIN" /\ r.statements[Len(r.statements) - 1] = "COMMIT"
        /\ RowStatements(r, 3, Len(r.statements) - 2)
        /\ r.statements[Len(r.statements)] = "fkOn"
    BY <1>1, <1>4 DEF BeginsAt
  <2>4. QED BY <1>1, <1>2, <2>1, <2>2, <2>3 DEF RowStatements
<1>5. QED BY <1>3, <1>4 DEF Script

\* Both shapes at once.
LEMMA TransactionShape ==
  ASSUME NEW r \in Requests, Transacts(r)
  PROVE  /\ Start(r) \in {0, 1, 2} /\ Finish(r) \in Nat /\ Start(r) < Finish(r)
         /\ Len(r.statements) \in Nat /\ Last(r) \in Nat
         /\ IF Start(r) = 2 THEN Last(r) = Finish(r) + 1 /\ Last(r) = Len(r.statements)
                            ELSE Last(r) = Finish(r)
         /\ Start(r) = 0 <=> r.transactional
         /\ ~r.transactional => r.onError = <<"ROLLBACK", "fkOn">>
<1>1. CASE Batch(r)
  BY <1>1, BatchShape DEF Batch
<1>2. CASE Script(r)
  <2>1. ~r.transactional /\ r.onError = <<"ROLLBACK", "fkOn">>
    BY <1>2 DEF Script, Requests
  <2>2. QED BY <1>2, <2>1, ScriptShape
<1>3. QED BY <1>1, <1>2 DEF Transacts

\* What it runs at each place.
LEMMA TransactionStatements ==
  ASSUME NEW r \in Requests, Transacts(r), NEW n \in Nat, n <= Last(r),
         n > 0 \/ r.transactional
  PROVE  /\ n = Start(r) => StatementAt(r, n) = "BEGIN"
         /\ n = Finish(r) => StatementAt(r, n) = "COMMIT"
         /\ Start(r) < n /\ n < Finish(r) =>
              StatementAt(r, n) \in RowStatement /\ StatementAt(r, n) = r.statements[n]
         /\ n < Start(r) => Start(r) = 2 /\ n = 1 /\ StatementAt(r, n) = "fkOff"
         /\ Finish(r) < n => Start(r) = 2 /\ n = Last(r) /\ StatementAt(r, n) = "fkOn"
<1>1. CASE Batch(r)
  <2>1. /\ Start(r) = 0 /\ Finish(r) = Len(r.statements) + 1 /\ Last(r) = Finish(r)
        /\ Len(r.statements) \in Nat
        /\ \A k \in 1 .. Len(r.statements) : r.statements[k] \in RowStatement
    BY <1>1, BatchShape
  <2>2. n = 0 => StatementAt(r, n) = "BEGIN"
    BY DEF StatementAt
  <2>3. n > Len(r.statements) => StatementAt(r, n) = "COMMIT"
    BY <2>1 DEF StatementAt
  <2>4. n \in 1 .. Len(r.statements) => StatementAt(r, n) = r.statements[n]
    BY <2>1 DEF StatementAt
  <2>5. QED BY <2>1, <2>2, <2>3, <2>4
<1>2. CASE Script(r)
  <2>1. n \in 1 .. Len(r.statements)
    BY <1>2, ScriptShape DEF Script, Requests
  <2>2. StatementAt(r, n) = r.statements[n]
    BY <1>2, <2>1, ScriptShape DEF StatementAt
  <2>3. QED BY <1>2, <2>1, <2>2, ScriptShape
<1>3. QED BY <1>1, <1>2 DEF Transacts

\* A request that brings no transaction runs statements on rows only.
LEMMA SingleStatements ==
  ASSUME NEW r \in Requests, Single(r), NEW n \in 1 .. Last(r)
  PROVE  /\ StatementAt(r, n) = r.statements[n] /\ StatementAt(r, n) \in RowStatement
         /\ Last(r) = Len(r.statements)
<1>1. Len(r.statements) \in Nat /\ ~r.transactional
  BY DEF Requests, Single
<1>2. Last(r) = Len(r.statements)
  BY <1>1 DEF Last
<1>3. QED BY <1>1, <1>2 DEF StatementAt, Single, RowStatements

\* A request is of one kind: alone, or with a transaction.
LEMMA Kinds ==
  ASSUME NEW r \in Request, SqlAssumption
  PROVE  /\ r \in Requests
         /\ Single(r) <=> ~Transacts(r)
         /\ r.transactional => Batch(r)
<1>1. r \in Requests /\ (Single(r) \/ Batch(r) \/ Script(r))
  BY RequestAssumption DEF SqlAssumption
<1>2. Single(r) => ~r.transactional /\ r.onError = <<>>
  BY DEF Single
<1>3. Batch(r) => r.transactional
  BY DEF Batch
<1>4. Script(r) => ~r.transactional /\ r.onError # <<>>
  BY DEF Script
<1>5. QED BY <1>1, <1>2, <1>3, <1>4 DEF Transacts

(***************************************************************************)
(* Statements                                                              *)
(***************************************************************************)
\* The effects of the statements of c.
Own(c) == {c} \X Nat

\* Before the statement n of r, which has written `touched` and committed `done`.
Phase(r, n, touched, done, x) ==
  /\ n <= Start(r) => touched = {} /\ done = {}
  /\ Start(r) < n /\ n <= Finish(r) => x.txn /\ x.effects = touched /\ done = {}
  /\ Finish(r) < n => done = touched

\* Nothing is left to commit where no transaction is open.
NothingLeft(x) == ~x.txn => x.effects = {}

\* The connection of r before its statement n, where no script was cut off.
CleanPhase(r, n, x) ==
  /\ x.txn <=> Transacts(r) /\ Start(r) < n /\ n <= Finish(r)
  /\ x.fk <=> ~(Transacts(r) /\ Start(r) = 2 /\ 1 < n /\ n <= Last(r))

\* What a statement does to a connection and commits, statement by statement.
LEMMA StatementEffects ==
  ASSUME NEW x \in Connection, NEW s, NEW hit
  PROVE  /\ s = "BEGIN" => After(x, s, hit) = [x EXCEPT !.txn = TRUE] /\ Commits(x, s, hit) = {}
         /\ s = "COMMIT" => After(x, s, hit) = RolledBack(x) /\ Commits(x, s, hit) = x.effects
         /\ s = "ROLLBACK" => After(x, s, hit) = RolledBack(x) /\ Commits(x, s, hit) = {}
         /\ s \in RowStatement /\ x.txn =>
              /\ After(x, s, hit) = IF s \in Writes THEN [x EXCEPT !.effects = @ \cup hit] ELSE x
              /\ Commits(x, s, hit) = {}
         /\ s \in RowStatement /\ ~x.txn =>
              After(x, s, hit) = x /\ Commits(x, s, hit) = IF s \in Writes THEN hit ELSE {}
         /\ s \in {"fkOff", "fkOn"} =>
              /\ After(x, s, hit) = IF x.txn THEN x ELSE [x EXCEPT !.fk = (s = "fkOn")]
              /\ Commits(x, s, hit) = {}
<1>1. s = "BEGIN" => After(x, s, hit) = [x EXCEPT !.txn = TRUE] /\ Commits(x, s, hit) = {}
  BY DEF After, Commits, Writes
<1>2. s = "COMMIT" => After(x, s, hit) = RolledBack(x) /\ Commits(x, s, hit) = x.effects
  BY DEF After, Commits, Writes
<1>3. s = "ROLLBACK" => After(x, s, hit) = RolledBack(x) /\ Commits(x, s, hit) = {}
  BY DEF After, Commits, Writes
<1>4. s \in RowStatement /\ x.txn =>
        /\ After(x, s, hit) = IF s \in Writes THEN [x EXCEPT !.effects = @ \cup hit] ELSE x
        /\ Commits(x, s, hit) = {}
  BY DEF After, Commits, Writes, RowStatement
<1>5. s \in RowStatement /\ ~x.txn =>
        After(x, s, hit) = x /\ Commits(x, s, hit) = IF s \in Writes THEN hit ELSE {}
  BY DEF After, Commits, Writes, RowStatement
<1>6. s \in {"fkOff", "fkOn"} =>
        /\ After(x, s, hit) = IF x.txn THEN x ELSE [x EXCEPT !.fk = (s = "fkOn")]
        /\ Commits(x, s, hit) = {}
  BY DEF After, Commits, Writes
<1>7. QED BY <1>1, <1>2, <1>3, <1>4, <1>5, <1>6

\* A transaction is rolled back or goes on; nothing is left behind it either way.
LEMMA StatementLeaves ==
  ASSUME NEW x \in Connection, NothingLeft(x), NEW s \in Statement, NEW hit
  PROVE  NothingLeft(After(x, s, hit))
<1>1. NothingLeft([x EXCEPT !.txn = TRUE]) /\ NothingLeft(RolledBack(x))
  BY DEF Connection, NothingLeft, RolledBack
<1>2. x.txn => NothingLeft([x EXCEPT !.effects = @ \cup hit])
  BY DEF Connection, NothingLeft
<1>3. NothingLeft([x EXCEPT !.fk = (s = "fkOn")])
  BY DEF Connection, NothingLeft
<1>4. s \in {"BEGIN", "COMMIT", "ROLLBACK", "fkOff", "fkOn"} \/ s \in RowStatement
  BY DEF Statement, RowStatement, Writes
<1>5. CASE s \in {"BEGIN", "COMMIT", "ROLLBACK"}
  <2>1. After(x, s, hit) \in {[x EXCEPT !.txn = TRUE], RolledBack(x)}
    BY <1>5, StatementEffects
  <2>2. QED BY <1>1, <2>1
<1>6. CASE s \in {"fkOff", "fkOn"}
  <2>1. After(x, s, hit) \in {x, [x EXCEPT !.fk = (s = "fkOn")]}
    BY <1>6, StatementEffects
  <2>2. QED BY <1>3, <2>1
<1>7. CASE s \in RowStatement
  <2>1. \/ After(x, s, hit) = x
        \/ x.txn /\ After(x, s, hit) = [x EXCEPT !.effects = @ \cup hit]
    BY <1>7, StatementEffects
  <2>2. QED BY <1>2, <2>1
<1>8. QED BY <1>4, <1>5, <1>6, <1>7

\* A statement that ran brings a batch or a script to its next phase, and commits what
\* this command has written and nothing else.
LEMMA StatementPhase ==
  ASSUME NEW r \in Requests, Transacts(r), NEW n \in Nat, n <= Last(r), n > 0 \/ r.transactional,
         NEW c, NEW x \in Connection, NothingLeft(x),
         NEW touched, NEW done, touched \subseteq Own(c), Phase(r, n, touched, done, x),
         NEW s, s = StatementAt(r, n), s = "BEGIN" => ~x.txn,
         NEW hit, hit \subseteq Own(c), s \notin Writes => hit = {}
  PROVE  /\ Phase(r, n + 1, touched \cup hit, done \cup Commits(x, s, hit), After(x, s, hit))
         /\ Commits(x, s, hit) \subseteq Own(c)
<1>1. /\ Start(r) \in {0, 1, 2} /\ Finish(r) \in Nat /\ Start(r) < Finish(r)
  BY TransactionShape
<1> DEFINE y == After(x, s, hit)
           new == Commits(x, s, hit)
           t == touched \cup hit
           d == done \cup new
<1> HIDE DEF y, new, t, d
<1>2. CASE n < Start(r)
  <2>1. s = "fkOff"
    BY <1>2, TransactionStatements
  <2>2. hit = {} /\ new = {} /\ n + 1 <= Start(r)
    BY <1>1, <1>2, <2>1, StatementEffects DEF Writes, new
  <2>3. touched = {} /\ done = {}
    BY <1>1, <1>2 DEF Phase
  <2>4. t = {} /\ d = {}
    BY <2>2, <2>3 DEF t, d
  <2>5. Phase(r, n + 1, t, d, y)
    BY <1>1, <2>2, <2>4 DEF Phase
  <2>6. QED BY <2>2, <2>5 DEF t, d, y, new
<1>3. CASE n = Start(r)
  <2>1. s = "BEGIN"
    BY <1>3, TransactionStatements
  <2>2. hit = {} /\ new = {} /\ y = [x EXCEPT !.txn = TRUE]
    BY <2>1, StatementEffects DEF Writes, new, y
  <2>3. y.txn /\ y.effects = {}
    BY <2>1, <2>2 DEF Connection, NothingLeft
  <2>4. touched = {} /\ done = {}
    BY <1>1, <1>3 DEF Phase
  <2>5. t = {} /\ d = {}
    BY <2>2, <2>4 DEF t, d
  <2>6. Phase(r, n + 1, t, d, y)
    BY <1>1, <1>3, <2>3, <2>5 DEF Phase
  <2>7. QED BY <2>2, <2>6 DEF t, d, y, new
<1>4. CASE Start(r) < n /\ n < Finish(r)
  <2>1. s \in RowStatement
    BY <1>4, TransactionStatements
  <2>2. x.txn /\ x.effects = touched /\ done = {}
    BY <1>1, <1>4 DEF Phase
  <2>3. new = {} /\ y = IF s \in Writes THEN [x EXCEPT !.effects = @ \cup hit] ELSE x
    BY <2>1, <2>2, StatementEffects DEF new, y
  <2>4. y.txn /\ y.effects = t
    BY <2>2, <2>3 DEF Connection, t
  <2>5. d = {}
    BY <2>2, <2>3 DEF d
  <2>6. Phase(r, n + 1, t, d, y)
    BY <1>1, <1>4, <2>4, <2>5 DEF Phase
  <2>7. QED BY <2>3, <2>6 DEF t, d, y, new
<1>5. CASE n = Finish(r)
  <2>1. s = "COMMIT"
    BY <1>5, TransactionStatements
  <2>2. x.effects = touched /\ done = {}
    BY <1>1, <1>5 DEF Phase
  <2>3. hit = {} /\ new = touched
    BY <2>1, <2>2, StatementEffects DEF Writes, new
  <2>4. t = touched /\ d = touched
    BY <2>2, <2>3 DEF t, d
  <2>5. Phase(r, n + 1, t, d, y)
    BY <1>1, <1>5, <2>4 DEF Phase
  <2>6. QED BY <2>3, <2>5 DEF t, d, y, new
<1>6. CASE Finish(r) < n
  <2>1. s = "fkOn"
    BY <1>6, TransactionStatements
  <2>2. hit = {} /\ new = {}
    BY <2>1, StatementEffects DEF Writes, new
  <2>3. done = touched
    BY <1>1, <1>6 DEF Phase
  <2>4. t = d
    BY <2>2, <2>3 DEF t, d
  <2>5. Phase(r, n + 1, t, d, y)
    BY <1>1, <1>6, <2>4 DEF Phase
  <2>6. QED BY <2>2, <2>5 DEF t, d, y, new
<1>7. QED BY <1>1, <1>2, <1>3, <1>4, <1>5, <1>6

\* The connection too.
LEMMA StatementCleanPhase ==
  ASSUME NEW r \in Requests, Transacts(r) \/ Single(r), NEW n \in Nat, n <= Last(r),
         n > 0 \/ r.transactional, Single(r) => ~Transacts(r) /\ ~r.transactional,
         NEW x \in Connection, CleanPhase(r, n, x),
         NEW s, s = StatementAt(r, n), NEW hit
  PROVE  CleanPhase(r, n + 1, After(x, s, hit))
<1> DEFINE y == After(x, s, hit)
<1>1. x.txn \in BOOLEAN /\ x.fk \in BOOLEAN
  BY DEF Connection
<1>2. CASE Transacts(r)
  <2>1. /\ Start(r) \in {0, 1, 2} /\ Finish(r) \in Nat /\ Start(r) < Finish(r) /\ Last(r) \in Nat
        /\ IF Start(r) = 2 THEN Last(r) = Finish(r) + 1 ELSE Last(r) = Finish(r)
    BY <1>2, TransactionShape
  <2>2. /\ x.txn <=> Start(r) < n /\ n <= Finish(r)
        /\ x.fk <=> ~(Start(r) = 2 /\ 1 < n /\ n <= Last(r))
    BY <1>2 DEF CleanPhase
  <2>3. /\ y.txn <=> Start(r) < n + 1 /\ n + 1 <= Finish(r)
        /\ y.fk <=> ~(Start(r) = 2 /\ 1 < n + 1 /\ n + 1 <= Last(r))
    <3>1. CASE n < Start(r)
      <4>1. s = "fkOff" /\ Start(r) = 2 /\ n = 1
        BY <1>2, <3>1, TransactionStatements
      <4>2. ~x.txn
        BY <2>1, <2>2, <4>1
      <4>3. y = [x EXCEPT !.fk = (s = "fkOn")]
        BY <4>1, <4>2, StatementEffects
      <4>4. ~y.txn /\ ~y.fk
        BY <4>1, <4>2, <4>3 DEF Connection
      <4> HIDE DEF y
      <4>5. QED BY <2>1, <4>1, <4>4
    <3>2. CASE n = Start(r)
      <4>1. s = "BEGIN"
        BY <1>2, <3>2, TransactionStatements
      <4>2. y = [x EXCEPT !.txn = TRUE]
        BY <4>1, StatementEffects
      <4>3. y.txn /\ (y.fk <=> x.fk)
        BY <4>2 DEF Connection
      <4> HIDE DEF y
      <4>4. x.fk <=> ~(Start(r) = 2)
        BY <2>1, <2>2, <3>2
      <4>5. QED BY <2>1, <3>2, <4>3, <4>4
    <3>3. CASE Start(r) < n /\ n < Finish(r)
      <4>1. s \in RowStatement
        BY <1>2, <3>3, TransactionStatements
      <4>2. x.txn
        BY <2>1, <2>2, <3>3
      <4>3. y = IF s \in Writes THEN [x EXCEPT !.effects = @ \cup hit] ELSE x
        BY <4>1, <4>2, StatementEffects
      <4>4. y.txn /\ (y.fk <=> x.fk)
        BY <4>2, <4>3 DEF Connection
      <4> HIDE DEF y
      <4>5. x.fk <=> ~(Start(r) = 2 /\ 1 < n)
        BY <2>1, <2>2, <3>3
      <4>6. QED BY <2>1, <3>3, <4>4, <4>5
    <3>4. CASE n = Finish(r)
      <4>1. s = "COMMIT"
        BY <1>2, <3>4, TransactionStatements
      <4>2. y = RolledBack(x)
        BY <4>1, StatementEffects
      <4>3. ~y.txn /\ (y.fk <=> x.fk)
        BY <4>2 DEF Connection, RolledBack
      <4> HIDE DEF y
      <4>4. x.fk <=> ~(Start(r) = 2)
        BY <2>1, <2>2, <3>4
      <4>5. QED BY <2>1, <3>4, <4>3, <4>4
    <3>5. CASE Finish(r) < n
      <4>1. s = "fkOn" /\ Start(r) = 2 /\ n = Last(r)
        BY <1>2, <3>5, TransactionStatements
      <4>2. ~x.txn
        BY <2>1, <2>2, <3>5
      <4>3. y = [x EXCEPT !.fk = (s = "fkOn")]
        BY <4>1, <4>2, StatementEffects
      <4>4. ~y.txn /\ y.fk
        BY <4>1, <4>2, <4>3 DEF Connection
      <4> HIDE DEF y
      <4>5. QED BY <2>1, <3>5, <4>1, <4>4
    <3>6. QED BY <2>1, <3>1, <3>2, <3>3, <3>4, <3>5
  <2> HIDE DEF y
  <2>4. CleanPhase(r, n + 1, y)
    BY <1>2, <2>3 DEF CleanPhase
  <2>5. QED BY <2>4 DEF y
<1>3. CASE ~Transacts(r)
  <2>1. n \in 1 .. Last(r)
    BY <1>3
  <2>2. s \in RowStatement /\ ~x.txn /\ x.fk
    BY <1>3, <2>1, SingleStatements DEF CleanPhase
  <2>3. y = x
    BY <2>2, StatementEffects
  <2>4. QED BY <1>3, <2>2, <2>3 DEF CleanPhase
<1>4. QED BY <1>2, <1>3

(***************************************************************************)
(* The invariant                                                           *)
(***************************************************************************)
RequestOf(c) == cmd[c].req

\* The rows its statements before n were expected to find.
RowsHit(c, n) ==
  \A k \in DOMAIN Statements(c) :
    k < n /\ Statements(c)[k] = "writeRows" => <<c, k>> \in cmd[c].touched

RequestInv(c) ==
  /\ RequestOf(c) \in Request \cup {NoRequest}
  /\ cmd[c].touched \subseteq Own(c)
  /\ cmd[c].pc # "done" => cmd[c].result = "none"
  /\ cmd[c].pc \in {"check", "opening", "inserting", "removing", "closing"} =>
       RequestOf(c).kind \in {"connect", "disconnect"}
  /\ cmd[c].pc \in {"lookup", "acquiring"} =>
       RequestOf(c).transactional \/ Statements(c) # <<>>
  /\ cmd[c].pc \notin {"running", "cleaning", "done"} =>
       cmd[c].touched = {} /\ CommittedBy(c) = {}

RunningInv(c) ==
  cmd[c].pc = "running" =>
    /\ cmd[c].at <= Last(RequestOf(c)) /\ (cmd[c].at > 0 \/ RequestOf(c).transactional)
    /\ Transacts(RequestOf(c)) =>
         /\ Phase(RequestOf(c), cmd[c].at, cmd[c].touched, CommittedBy(c), Conn(c))
         /\ RowsHit(c, cmd[c].at)

CleaningInv(c) ==
  cmd[c].pc = "cleaning" =>
    /\ Script(RequestOf(c)) /\ cmd[c].at \in {1, 2}
    /\ CommittedBy(c) \in {{}, cmd[c].touched}

DoneInv(c) ==
  cmd[c].pc = "done" /\ Transacts(RequestOf(c)) =>
    /\ CommittedBy(c) \in {{}, cmd[c].touched}
    /\ cmd[c].result = "ok" =>
         CommittedBy(c) = cmd[c].touched /\ RowsHit(c, Len(Statements(c)) + 1)
    /\ cmd[c].result = "error" /\ RequestOf(c).transactional => CommittedBy(c) = {}

CommandInv(c) == RequestInv(c) /\ RunningInv(c) /\ CleaningInv(c) /\ DoneInv(c)

BatchInv ==
  /\ \A c \in Command : CommandInv(c)
  /\ \A p \in PoolId, s \in Slot : NothingLeft(conns[p][s])

\* No script was cut off by the time limit.
NoCutOff == \A c \in Command : cmd[c].result = "timeout" => RequestOf(c).transactional

CleanInv(c) ==
  /\ cmd[c].pc = "running" => CleanPhase(RequestOf(c), cmd[c].at, Conn(c))
  /\ cmd[c].pc = "cleaning" /\ cmd[c].at = 2 => ~Conn(c).txn

CleanlinessInv ==
  NoCutOff =>
    /\ \A c \in Command : CleanInv(c)
    /\ \A p \in PoolId, s \in Slot : conns[p][s].state # "used" => Clean(conns[p][s])

\* What is committed of c adds to what was, and nothing to what other commands have.
LEMMA CommittedFacts ==
  ASSUME NEW c \in Command, NEW new, new \subseteq Own(c), committed' = committed \cup new
  PROVE  /\ CommittedBy(c)' = CommittedBy(c) \cup new
         /\ \A d \in Command : d # c => CommittedBy(d)' = CommittedBy(d)
<1>1. \A e \in new : e[1] = c
  BY DEF Own
<1>2. QED BY <1>1 DEF CommittedBy

\* Two commands never have the same connection, so that a step of one leaves the other's.
LEMMA OthersKeepTheirs ==
  ASSUME TypeOK, ConnectionInv, NEW c \in Command, OthersStay(c),
         NEW p \in PoolId, NEW s \in Slot,
         Holds(c, p, s) \/ conns[p][s].state # "used",
         \A q \in PoolId, t \in Slot : <<q, t>> # <<p, s>> => conns'[q][t] = conns[q][t],
         NEW d \in Command, d # c, HasConnection(d)
  PROVE  Conn(d)' = Conn(d)
<1>1. cmd[d].pool \in PoolId /\ cmd[d].slot \in Slot /\ cmd'[d] = cmd[d]
  BY DEF TypeOK, OthersStay
<1>2. <<cmd[d].pool, cmd[d].slot>> # <<p, s>>
  <2>1. conns[cmd[d].pool][cmd[d].slot].state = "used"
    BY DEF ConnectionInv, Conn
  <2>2. CASE Holds(c, p, s)
    <3>1. HasConnection(c) /\ cmd[c].pool = p /\ cmd[c].slot = s
      BY <2>2 DEF Holds
    <3>2. ~Holds(d, cmd[c].pool, cmd[c].slot)
      BY <3>1 DEF ConnectionInv
    <3>3. QED BY <3>1, <3>2 DEF Holds
  <2>3. CASE conns[p][s].state # "used"
    BY <2>1, <2>3
  <2>4. QED BY <2>2, <2>3
<1>3. QED BY <1>1, <1>2 DEF Conn

\* The invariant of a command speaks of its progress, its connection and what is
\* committed of it.
LEMMA CommandStays ==
  ASSUME NEW d \in Command, CommandInv(d), cmd'[d] = cmd[d], CommittedBy(d)' = CommittedBy(d),
         HasConnection(d) => Conn(d)' = Conn(d)
  PROVE  CommandInv(d)'
<1>1. RequestOf(d)' = RequestOf(d) /\ Statements(d)' = Statements(d)
  BY DEF RequestOf, Statements
<1>2. RequestInv(d)'
  BY <1>1 DEF CommandInv, RequestInv
<1>3. \A n : RowsHit(d, n)' <=> RowsHit(d, n)
  BY <1>1 DEF RowsHit
<1>4. RunningInv(d)'
  BY <1>1, <1>3 DEF CommandInv, RunningInv, HasConnection
<1>5. CleaningInv(d)'
  BY <1>1 DEF CommandInv, CleaningInv
<1>6. DoneInv(d)'
  BY <1>1, <1>3 DEF CommandInv, DoneInv
<1>7. QED BY <1>2, <1>4, <1>5, <1>6 DEF CommandInv

LEMMA CleanStays ==
  ASSUME NEW d \in Command, CleanInv(d), cmd'[d] = cmd[d],
         HasConnection(d) => Conn(d)' = Conn(d)
  PROVE  CleanInv(d)'
BY DEF CleanInv, RequestOf, HasConnection

\* A script is cut off once and for all: a command has no result before its end.
LEMMA CutOffStays ==
  ASSUME NEW c \in Command, RequestInv(c), cmd[c].pc # "done", OthersStay(c), NoCutOff'
  PROVE  NoCutOff
BY DEF NoCutOff, OthersStay, RequestInv, RequestOf

\* What is left to show of a step of c that uses a connection.
LEMMA ConnectionStep ==
  ASSUME TypeOK, ConnectionInv, BatchInv, CleanlinessInv,
         NEW c \in Command, cmd[c].pc # "done", OthersStay(c),
         NEW p \in PoolId, NEW s \in Slot,
         Holds(c, p, s) \/ conns[p][s].state # "used",
         \A q \in PoolId, t \in Slot : <<q, t>> # <<p, s>> => conns'[q][t] = conns[q][t],
         \A d \in Command : d # c => CommittedBy(d)' = CommittedBy(d),
         CommandInv(c)', NothingLeft(conns'[p][s]),
         NoCutOff' /\ NoCutOff =>
           CleanInv(c)' /\ (conns'[p][s].state # "used" => Clean(conns'[p][s]))
  PROVE  BatchInv' /\ CleanlinessInv'
<1>1. \A d \in Command : d # c =>
        /\ cmd'[d] = cmd[d] /\ CommittedBy(d)' = CommittedBy(d)
        /\ HasConnection(d) => Conn(d)' = Conn(d)
  BY OthersKeepTheirs DEF OthersStay
<1>2. \A d \in Command : CommandInv(d)'
  <2>1. TAKE d \in Command
  <2>2. CASE d = c
    BY <2>2
  <2>3. CASE d # c
    BY <1>1, <2>3, CommandStays DEF BatchInv
  <2>4. QED BY <2>2, <2>3
<1>3. \A q \in PoolId, t \in Slot : NothingLeft(conns'[q][t])
  <2>1. TAKE q \in PoolId, t \in Slot
  <2>2. CASE <<q, t>> = <<p, s>>
    BY <2>2
  <2>3. CASE <<q, t>> # <<p, s>>
    BY <2>3 DEF BatchInv
  <2>4. QED BY <2>2, <2>3
<1>4. BatchInv'
  BY <1>2, <1>3 DEF BatchInv, NothingLeft
<1>5. ASSUME NoCutOff'
      PROVE  /\ \A d \in Command : CleanInv(d)'
             /\ \A q \in PoolId, t \in Slot : conns'[q][t].state # "used" => Clean(conns'[q][t])
  <2>1. NoCutOff
    BY <1>5, CutOffStays DEF BatchInv, CommandInv
  <2>2. /\ \A d \in Command : CleanInv(d)
        /\ \A q \in PoolId, t \in Slot : conns[q][t].state # "used" => Clean(conns[q][t])
    BY <2>1 DEF CleanlinessInv
  <2>3. ASSUME NEW d \in Command PROVE CleanInv(d)'
    <3>1. CASE d = c
      BY <1>5, <2>1, <3>1
    <3>2. CASE d # c
      BY <1>1, <2>2, <3>2, CleanStays
    <3>3. QED BY <3>1, <3>2
  <2>4. ASSUME NEW q \in PoolId, NEW t \in Slot, conns'[q][t].state # "used"
        PROVE  Clean(conns'[q][t])
    <3>1. CASE <<q, t>> = <<p, s>>
      BY <1>5, <2>1, <2>4, <3>1
    <3>2. CASE <<q, t>> # <<p, s>>
      BY <2>2, <2>4, <3>2
    <3>3. QED BY <3>1, <3>2
  <2>5. QED BY <2>3, <2>4
<1>6. CleanlinessInv'
  BY <1>5 DEF CleanlinessInv, Clean
<1>7. QED BY <1>4, <1>6

(***************************************************************************)
(* Steps without a connection                                              *)
(***************************************************************************)
WaitingStep(c) ==
  \/ CheckPool(c) \/ OpenFails(c) \/ OpenSucceeds(c) \/ Insert(c) \/ Remove(c) \/ CloseEnds(c)
  \/ Lookup(c) \/ AcquireFails(c) \/ TimesOutWaiting(c)

\* What a step before the connection does to the progress of its command.
LEMMA WaitingFacts ==
  ASSUME TypeOK, SqlAssumption, NEW c \in Command, WaitingStep(c)
  PROVE  /\ OthersStay(c) /\ committed' = committed
         /\ cmd'[c].req = cmd[c].req /\ cmd'[c].touched = cmd[c].touched
         /\ \/ /\ cmd[c].pc \in {"check", "opening", "inserting", "removing", "closing"}
               /\ \/ cmd'[c].pc \in {"opening", "inserting", "closing"} /\ cmd'[c].result = cmd[c].result
                  \/ cmd'[c].pc = "done" /\ cmd'[c].result \in {"ok", "error"}
            \/ /\ cmd[c].pc \in {"lookup", "acquiring"}
               /\ \/ cmd'[c].pc = "acquiring" /\ cmd'[c].result = cmd[c].result
                  \/ cmd'[c].pc = "done" /\ cmd'[c].result = "error"
                  \/ cmd[c].pc = "acquiring" /\ cmd'[c].pc = "done" /\ cmd'[c].result = "timeout"
<1>1. cmd \in [Command -> Progress] /\ cmd[c] \in Progress
  BY DEF TypeOK
<1>2. \A result : Ends(c, result) =>
        /\ OthersStay(c) /\ cmd'[c].req = cmd[c].req /\ cmd'[c].touched = cmd[c].touched
        /\ cmd'[c].pc = "done" /\ cmd'[c].result = result
  BY <1>1 DEF Ends, OthersStay, Progress
<1>3. \A pc : Goes(c, pc) =>
        /\ OthersStay(c) /\ cmd'[c].req = cmd[c].req /\ cmd'[c].touched = cmd[c].touched
        /\ cmd'[c].pc = pc /\ cmd'[c].result = cmd[c].result
  BY <1>1 DEF Goes, OthersStay, Progress
<1>4. \A pc, p : cmd' = [cmd EXCEPT ![c].pc = pc, ![c].pool = p] =>
        /\ OthersStay(c) /\ cmd'[c].req = cmd[c].req /\ cmd'[c].touched = cmd[c].touched
        /\ cmd'[c].pc = pc /\ cmd'[c].result = cmd[c].result
  BY <1>1 DEF OthersStay, Progress
<1>5. CASE CheckPool(c)
  <2>1. cmd[c].pc = "check" /\ committed' = committed /\ (Ends(c, "ok") \/ Goes(c, "opening"))
    BY <1>5 DEF CheckPool
  <2>2. QED BY <1>2, <1>3, <2>1
<1>6. CASE OpenFails(c)
  <2>1. cmd[c].pc = "opening" /\ committed' = committed /\ Ends(c, "error")
    BY <1>6 DEF OpenFails
  <2>2. QED BY <1>2, <2>1
<1>7. CASE OpenSucceeds(c)
  <2>1. /\ cmd[c].pc = "opening" /\ committed' = committed
        /\ \E p : cmd' = [cmd EXCEPT ![c].pc = "inserting", ![c].pool = p]
    BY <1>7 DEF OpenSucceeds
  <2>2. QED BY <1>4, <2>1
<1>8. CASE Insert(c) \/ Remove(c)
  <2>1. /\ cmd[c].pc \in {"inserting", "removing"} /\ committed' = committed
        /\ \/ Ends(c, "ok")
           \/ \E p : cmd' = [cmd EXCEPT ![c].pc = "closing", ![c].pool = p]
    BY <1>8 DEF Insert, Remove, Close
  <2>2. QED BY <1>2, <1>4, <2>1
<1>9. CASE CloseEnds(c)
  <2>1. cmd[c].pc = "closing" /\ committed' = committed /\ Ends(c, "ok")
    BY <1>9 DEF CloseEnds
  <2>2. QED BY <1>2, <2>1
<1>10. CASE Lookup(c)
  <2>1. /\ cmd[c].pc = "lookup" /\ committed' = committed
        /\ \/ Ends(c, "error")
           \/ \E p : cmd' = [cmd EXCEPT ![c].pc = "acquiring", ![c].pool = p]
    BY <1>10 DEF Lookup
  <2>2. QED BY <1>2, <1>4, <2>1
<1>11. CASE AcquireFails(c)
  <2>1. cmd[c].pc = "acquiring" /\ committed' = committed /\ Ends(c, "error")
    BY <1>11 DEF AcquireFails
  <2>2. QED BY <1>2, <2>1
<1>12. CASE TimesOutWaiting(c)
  <2>1. cmd[c].pc = "acquiring" /\ committed' = committed /\ Ends(c, "timeout")
    BY <1>12 DEF TimesOutWaiting
  <2>2. QED BY <1>2, <2>1
<1>13. QED BY <1>5, <1>6, <1>7, <1>8, <1>9, <1>10, <1>11, <1>12 DEF WaitingStep

\* Such a step writes nothing and commits nothing.
LEMMA WaitingKeepsCommand ==
  ASSUME TypeOK, SqlAssumption, NEW c \in Command, WaitingStep(c), CommandInv(c)
  PROVE  CommandInv(c)' /\ ~HasConnection(c)' /\ cmd[c].pc # "done" /\ ~HasConnection(c)
<1>1. /\ committed' = committed
      /\ cmd'[c].req = cmd[c].req /\ cmd'[c].touched = cmd[c].touched
      /\ \/ /\ cmd[c].pc \in {"check", "opening", "inserting", "removing", "closing"}
            /\ \/ cmd'[c].pc \in {"opening", "inserting", "closing"} /\ cmd'[c].result = cmd[c].result
               \/ cmd'[c].pc = "done" /\ cmd'[c].result \in {"ok", "error"}
         \/ /\ cmd[c].pc \in {"lookup", "acquiring"}
            /\ \/ cmd'[c].pc = "acquiring" /\ cmd'[c].result = cmd[c].result
               \/ cmd'[c].pc = "done" /\ cmd'[c].result = "error"
               \/ cmd[c].pc = "acquiring" /\ cmd'[c].pc = "done" /\ cmd'[c].result = "timeout"
  BY WaitingFacts
<1>2. /\ RequestOf(c)' = RequestOf(c) /\ Statements(c)' = Statements(c)
      /\ CommittedBy(c)' = CommittedBy(c)
  BY <1>1 DEF RequestOf, Statements, CommittedBy
<1>3. /\ cmd[c].pc # "done" /\ ~HasConnection(c) /\ ~HasConnection(c)'
      /\ cmd'[c].pc \notin {"running", "cleaning"}
  BY <1>1 DEF HasConnection
<1>4. cmd[c].touched = {} /\ CommittedBy(c) = {} /\ cmd[c].result = "none"
  BY <1>1, <1>3 DEF CommandInv, RequestInv, HasConnection
<1>5. RequestInv(c)'
  <2>1. /\ RequestOf(c) \in Request \cup {NoRequest} /\ cmd[c].touched \subseteq Own(c)
        /\ cmd[c].pc \in {"check", "opening", "inserting", "removing", "closing"} =>
             RequestOf(c).kind \in {"connect", "disconnect"}
        /\ cmd[c].pc \in {"lookup", "acquiring"} =>
             RequestOf(c).transactional \/ Statements(c) # <<>>
    BY DEF CommandInv, RequestInv
  <2>2. cmd'[c].pc # "done" => cmd'[c].result = "none"
    BY <1>1, <1>4
  <2>3. QED BY <1>1, <1>2, <1>4, <2>1, <2>2 DEF RequestInv, Own
<1>6. RunningInv(c)' /\ CleaningInv(c)'
  BY <1>3 DEF RunningInv, CleaningInv
<1>7. DoneInv(c)'
  <2>1. CASE cmd[c].pc \in {"check", "opening", "inserting", "removing", "closing"}
    <3>1. RequestOf(c).kind # "execute"
      BY <2>1 DEF CommandInv, RequestInv
    <3>2. ~Transacts(RequestOf(c))
      BY <3>1 DEF Transacts, Batch, Script
    <3>3. QED BY <1>2, <3>2 DEF DoneInv
  <2>2. CASE cmd[c].pc \in {"lookup", "acquiring"}
    <3>1. cmd'[c].result # "ok"
      BY <1>1, <1>4, <2>2
    <3>2. QED BY <1>1, <1>2, <1>4, <3>1 DEF DoneInv
  <2>3. QED BY <1>1, <2>1, <2>2
<1>8. QED BY <1>3, <1>5, <1>6, <1>7 DEF CommandInv

\* A command comes with one of the requests of the app.
LEMMA InvokeKeepsCommand ==
  ASSUME TypeOK, SqlAssumption, NEW c \in Command, NEW r \in Request, Invoke(c, r),
         CommandInv(c)
  PROVE  CommandInv(c)' /\ ~HasConnection(c)' /\ cmd[c].pc # "done" /\ ~HasConnection(c)
<1>1. cmd \in [Command -> Progress] /\ cmd[c] \in Progress
  BY DEF TypeOK
<1>2. /\ cmd[c].pc = "new" /\ committed' = committed
      /\ cmd'[c].pc = FirstStep(r) /\ cmd'[c].req = r /\ cmd'[c].touched = cmd[c].touched
      /\ cmd'[c].result = IF FirstStep(r) = "done" THEN "ok" ELSE "none"
  BY <1>1 DEF Invoke, Progress
<1>3. r \in Requests /\ (Single(r) <=> ~Transacts(r)) /\ (r.transactional => Batch(r))
  BY Kinds
<1>4. /\ FirstStep(r) \in {"check", "opening", "removing"} =>
           r.kind \in {"connect", "disconnect"}
      /\ FirstStep(r) = "done" => r.kind = "execute" /\ r.statements = <<>>
      /\ FirstStep(r) = "lookup" => r.kind \in {"select", "execute"} /\
                                    (r.kind = "execute" => r.statements # <<>>)
      /\ FirstStep(r) \in {"check", "opening", "removing", "done", "lookup"}
  <2>1. /\ r.kind \in {"connect", "disconnect", "select", "execute"}
    BY <1>3 DEF Requests
  <2>2. CASE r.kind = "connect"
    BY <2>2 DEF FirstStep
  <2>3. CASE r.kind = "disconnect"
    BY <2>3 DEF FirstStep
  <2>4. CASE r.kind = "select"
    BY <2>4 DEF FirstStep
  <2>5. CASE r.kind = "execute"
    BY <2>5 DEF FirstStep
  <2>6. QED BY <2>1, <2>2, <2>3, <2>4, <2>5
<1>5. FirstStep(r) = "lookup" => r.transactional \/ r.statements # <<>>
  <2>1. r.kind = "select" => Single(r)
    BY <1>3 DEF Transacts, Batch, Script
  <2>2. QED BY <1>4, <2>1 DEF Single
<1>6. cmd[c].touched = {} /\ CommittedBy(c) = {}
  BY <1>2 DEF CommandInv, RequestInv
<1>7. RequestOf(c)' = r /\ Statements(c)' = r.statements /\ CommittedBy(c)' = {}
  BY <1>2, <1>6 DEF RequestOf, Statements, CommittedBy
<1>8. RequestInv(c)'
  BY <1>2, <1>4, <1>5, <1>6, <1>7 DEF RequestInv
<1>9. /\ ~HasConnection(c) /\ ~HasConnection(c)'
      /\ RunningInv(c)' /\ CleaningInv(c)'
  BY <1>2, <1>4 DEF HasConnection, RunningInv, CleaningInv
<1>10. DoneInv(c)'
  <2>1. cmd'[c].pc = "done" => cmd'[c].result = "ok" /\ r.statements = <<>>
    BY <1>2, <1>4
  <2>2. cmd'[c].pc = "done" => RowsHit(c, Len(r.statements) + 1)'
    BY <1>7, <2>1 DEF RowsHit
  <2>3. QED BY <1>2, <1>6, <1>7, <2>1, <2>2 DEF DoneInv
<1>11. QED BY <1>2, <1>8, <1>9, <1>10 DEF CommandInv

\* Invoking, connecting, disconnecting and waiting keep the invariants.
LEMMA AsideKeepsBatchInv ==
  ASSUME Inv, SqlAssumption, BatchInv, CleanlinessInv, NEW c \in Command,
         (\E r \in Request : Invoke(c, r)) \/ WaitingStep(c)
  PROVE  BatchInv' /\ CleanlinessInv'
<1>1. CommandInv(c) /\ TypeOK /\ ConnectionInv
  BY DEF BatchInv, Inv
<1>2. CommandInv(c)' /\ ~HasConnection(c)' /\ cmd[c].pc # "done" /\ ~HasConnection(c)
  BY <1>1, InvokeKeepsCommand, WaitingKeepsCommand
<1>3. OthersStay(c) /\ committed' = committed
  <2>1. CASE \E r \in Request : Invoke(c, r)
    BY <1>1, <2>1 DEF Invoke, OthersStay, TypeOK
  <2>2. CASE WaitingStep(c)
    BY <1>1, <2>2, WaitingFacts
  <2>3. QED BY <2>1, <2>2
<1>4. /\ \A p \in PoolId, s \in Slot : conns'[p][s] \in {conns[p][s], NoConnection}
      /\ \A p \in PoolId, s \in Slot : conns[p][s].state = "used" => conns'[p][s] = conns[p][s]
  <2>1. CASE CloseEnds(c)
    <3>1. /\ \A s \in Slot : conns[cmd[c].pool][s].state # "used"
          /\ conns' = [conns EXCEPT ![cmd[c].pool] = [s \in Slot |-> NoConnection]]
      BY <2>1 DEF CloseEnds
    <3>2. conns \in [PoolId -> [Slot -> Connection]]
      BY <1>1 DEF TypeOK
    <3>3. QED BY <3>1, <3>2
  <2>2. CASE ~CloseEnds(c)
    <3>1. conns' = conns
      BY <2>2 DEF Invoke, WaitingStep, CheckPool, OpenFails, OpenSucceeds, Insert, Remove, Lookup,
                  AcquireFails, TimesOutWaiting
    <3>2. QED BY <3>1
  <2>3. QED BY <2>1, <2>2
<1>5. NothingLeft(NoConnection) /\ Clean(NoConnection)
  BY DEF NothingLeft, Clean, NoConnection
<1>6. \A d \in Command : d # c =>
        /\ cmd'[d] = cmd[d] /\ CommittedBy(d)' = CommittedBy(d)
        /\ HasConnection(d) => Conn(d)' = Conn(d)
  <2>1. TAKE d \in Command
  <2>2. HAVE d # c
  <2>3. cmd'[d] = cmd[d] /\ CommittedBy(d)' = CommittedBy(d)
    BY <1>3, <2>2 DEF OthersStay, CommittedBy
  <2>4. ASSUME HasConnection(d) PROVE Conn(d)' = Conn(d)
    <3>1. cmd[d].pool \in PoolId /\ cmd[d].slot \in Slot /\ Conn(d).state = "used"
      BY <1>1, <2>4 DEF TypeOK, ConnectionInv
    <3>2. QED BY <1>4, <2>3, <3>1 DEF Conn
  <2>5. QED BY <2>3, <2>4
<1>7. \A d \in Command : CommandInv(d)'
  <2>1. TAKE d \in Command
  <2>2. CASE d = c
    BY <1>2, <2>2
  <2>3. CASE d # c
    BY <1>6, <2>3, CommandStays DEF BatchInv
  <2>4. QED BY <2>2, <2>3
<1>8. \A p \in PoolId, s \in Slot : NothingLeft(conns'[p][s])
  BY <1>4, <1>5 DEF BatchInv
<1>9. BatchInv'
  BY <1>7, <1>8 DEF BatchInv, NothingLeft
<1>10. ASSUME NoCutOff'
       PROVE  /\ \A d \in Command : CleanInv(d)'
              /\ \A p \in PoolId, s \in Slot : conns'[p][s].state # "used" => Clean(conns'[p][s])
  <2>1. NoCutOff
    BY <1>1, <1>2, <1>3, <1>10, CutOffStays DEF CommandInv
  <2>2. /\ \A d \in Command : CleanInv(d)
        /\ \A p \in PoolId, s \in Slot : conns[p][s].state # "used" => Clean(conns[p][s])
    BY <2>1 DEF CleanlinessInv
  <2>3. ASSUME NEW d \in Command PROVE CleanInv(d)'
    <3>1. CASE d = c
      BY <1>2, <3>1 DEF CleanInv, HasConnection
    <3>2. CASE d # c
      BY <1>6, <2>2, <3>2, CleanStays
    <3>3. QED BY <3>1, <3>2
  <2>4. \A p \in PoolId, s \in Slot : conns'[p][s].state # "used" => Clean(conns'[p][s])
    BY <1>4, <1>5, <2>2
  <2>5. QED BY <2>3, <2>4
<1>11. CleanlinessInv'
  BY <1>10 DEF CleanlinessInv, Clean
<1>12. QED BY <1>9, <1>11

(***************************************************************************)
(* Taking a connection                                                     *)
(***************************************************************************)
\* A request of the app begins before its transaction, and has a statement to begin with.
LEMMA FirstStatement ==
  ASSUME SqlAssumption, NEW r \in Request, r.transactional \/ r.statements # <<>>
  PROVE  LET n == IF r.transactional THEN 0 ELSE 1
         IN  /\ n \in Nat /\ n <= Last(r) /\ (n > 0 \/ r.transactional)
             /\ Transacts(r) => n <= Start(r)
<1>1. r \in Requests /\ (Single(r) <=> ~Transacts(r)) /\ (r.transactional => Batch(r))
  BY Kinds
<1>2. CASE Transacts(r)
  <2>1. CASE r.transactional
    BY <1>1, <1>2, <2>1, TransactionShape
  <2>2. CASE ~r.transactional
    BY <1>1, <1>2, <2>2, TransactionShape
  <2>3. QED BY <2>1, <2>2
<1>3. CASE Single(r)
  <2>1. ~r.transactional /\ r.statements # <<>>
    BY <1>3 DEF Single
  <2>2. Len(r.statements) \in Nat /\ Len(r.statements) # 0
    BY <1>1, <2>1 DEF Requests
  <2>3. Last(r) = Len(r.statements)
    BY <2>1, <2>2 DEF Last
  <2>4. QED BY <1>1, <1>3, <2>1, <2>2, <2>3
<1>4. QED BY <1>1, <1>2, <1>3

\* A connection is taken as the last command has left it.
LEMMA AcquireKeepsBatchInv ==
  ASSUME Inv, SqlAssumption, BatchInv, CleanlinessInv, NEW c \in Command, Acquire(c)
  PROVE  BatchInv' /\ CleanlinessInv'
<1>1. CommandInv(c) /\ TypeOK /\ ConnectionInv
  BY DEF BatchInv, Inv
<1>2. /\ cmd[c].pc = "acquiring" /\ committed' = committed
      /\ cmd \in [Command -> Progress] /\ cmd[c] \in Progress
      /\ conns \in [PoolId -> [Slot -> Connection]]
      /\ cmd[c].pool \in PoolId
  BY <1>1 DEF Acquire, TypeOK
<1>3. PICK p \in PoolId, r \in {cmd[c].req}, n \in {0, 1} :
        p = cmd[c].pool /\ r = cmd[c].req /\ n = IF r.transactional THEN 0 ELSE 1
  BY <1>2
<1>4. PICK s \in Slot :
        /\ Free(p, s)
        /\ conns' = [conns EXCEPT ![p][s].state = "used"]
        /\ cmd' = [cmd EXCEPT ![c].pc = "running", ![c].slot = s, ![c].at = n]
  BY <1>3 DEF Acquire
<1>5. conns[p][s] \in Connection /\ conns[p][s].state # "used"
  BY <1>2, <1>4 DEF Free
<1> DEFINE x == [conns[p][s] EXCEPT !.state = "used"]
<1>6. /\ cmd'[c].pc = "running" /\ cmd'[c].pool = p /\ cmd'[c].slot = s /\ cmd'[c].at = n
      /\ cmd'[c].req = r /\ cmd'[c].touched = cmd[c].touched /\ cmd'[c].result = cmd[c].result
      /\ OthersStay(c)
  BY <1>2, <1>4, <1>3 DEF Progress, OthersStay
<1>7. /\ conns[p][s] \in Connection /\ conns[p][s].state # "used"
      /\ x \in Connection /\ x.state = "used"
      /\ x.txn = conns[p][s].txn /\ x.effects = conns[p][s].effects /\ x.fk = conns[p][s].fk
  BY <1>5 DEF Connection
<1>8. /\ conns'[p][s] = x
      /\ \A q \in PoolId, t \in Slot : <<q, t>> # <<p, s>> => conns'[q][t] = conns[q][t]
  BY <1>2, <1>4
<1>9. /\ RequestOf(c) = r /\ RequestOf(c)' = r /\ Statements(c)' = Statements(c)
      /\ Conn(c)' = x /\ CommittedBy(c)' = CommittedBy(c)
  BY <1>2, <1>6, <1>8, <1>3 DEF RequestOf, Statements, Conn, CommittedBy
<1>10. r \in Request /\ (r.transactional \/ r.statements # <<>>)
  <2>1. r # NoRequest
    BY <1>1, <1>2, <1>3 DEF TypeOK
  <2>2. QED BY <1>1, <1>2, <1>3, <1>9, <2>1 DEF CommandInv, RequestInv, Statements, RequestOf
<1>11. n \in Nat /\ n <= Last(r) /\ (n > 0 \/ r.transactional) /\ (Transacts(r) => n <= Start(r))
  BY <1>10, <1>3, FirstStatement
<1>12. r \in Requests /\ (Single(r) <=> ~Transacts(r)) /\ (r.transactional => Batch(r))
  BY <1>10, Kinds
<1>13. cmd[c].touched = {} /\ CommittedBy(c) = {} /\ cmd[c].result = "none"
  BY <1>1, <1>2 DEF CommandInv, RequestInv
<1>14. n = 0 \/ n = 1
  BY <1>3
<1> HIDE DEF x
<1>15. CommandInv(c)'
  <2>1. RequestInv(c)'
    BY <1>6, <1>9, <1>10, <1>13 DEF RequestInv, Own
  <2>2. Transacts(r) => Phase(r, n, {}, {}, x)
    <3>1. HAVE Transacts(r)
    <3>2. Start(r) \in {0, 1, 2} /\ Finish(r) \in Nat /\ Start(r) < Finish(r)
      BY <1>12, <3>1, TransactionShape
    <3>3. n <= Start(r) /\ n \in Nat
      BY <1>11, <3>1
    <3>4. QED BY <3>2, <3>3 DEF Phase
  <2>3. RowsHit(c, n)'
    <3>1. DOMAIN Statements(c) \subseteq Nat \ {0}
      BY <1>9, <1>12 DEF Requests, Statements, RequestOf
    <3>2. \A k \in DOMAIN Statements(c) : ~(k < n)
      BY <1>14, <3>1
    <3>3. QED BY <1>9, <3>2 DEF RowsHit
  <2>4. RunningInv(c)'
    BY <1>6, <1>9, <1>11, <1>13, <2>2, <2>3 DEF RunningInv
  <2>5. CleaningInv(c)' /\ DoneInv(c)'
    BY <1>6 DEF CleaningInv, DoneInv
  <2>6. QED BY <2>1, <2>4, <2>5 DEF CommandInv
<1>16. NothingLeft(x)
  BY <1>2, <1>7 DEF BatchInv, NothingLeft
<1>17. ASSUME NoCutOff
       PROVE  CleanInv(c)'
  <2>1. ~x.txn /\ x.fk
    BY <1>2, <1>7, <1>17 DEF CleanlinessInv, Clean
  <2>2. CleanPhase(r, n, x)
    <3>1. ~(Transacts(r) /\ Start(r) < n /\ n <= Finish(r))
      BY <1>11, <1>12, TransactionShape
    <3>2. ~(1 < n)
      BY <1>14
    <3>3. QED BY <2>1, <3>1, <3>2 DEF CleanPhase
  <2>3. QED BY <1>6, <1>9, <2>2 DEF CleanInv
<1>18. cmd[c].pc # "done" /\ \A d \in Command : CommittedBy(d)' = CommittedBy(d)
  BY <1>2 DEF CommittedBy
<1>19. /\ NothingLeft(conns'[p][s])
       /\ NoCutOff' /\ NoCutOff =>
            CleanInv(c)' /\ (conns'[p][s].state # "used" => Clean(conns'[p][s]))
  BY <1>7, <1>8, <1>16, <1>17
<1>20. Holds(c, p, s) \/ conns[p][s].state # "used"
  BY <1>7
<1>21. QED
  BY <1>1, <1>6, <1>8, <1>15, <1>18, <1>19, <1>20, ConnectionStep

(***************************************************************************)
(* Steps of a command that has a connection                                *)
(***************************************************************************)
\* What the invariants say of a command with a connection.
LEMMA HeldFacts ==
  ASSUME Inv, SqlAssumption, BatchInv, NEW c \in Command, HasConnection(c)
  PROVE  /\ cmd[c].pc # "done" /\ cmd[c].pool \in PoolId /\ cmd[c].slot \in Slot
         /\ cmd \in [Command -> Progress] /\ cmd[c] \in Progress /\ cmd[c].at \in Nat
         /\ conns \in [PoolId -> [Slot -> Connection]]
         /\ Conn(c) \in Connection /\ Conn(c).state = "used" /\ NothingLeft(Conn(c))
         /\ Holds(c, cmd[c].pool, cmd[c].slot)
         /\ RequestOf(c) \in Request /\ RequestOf(c) \in Requests
         /\ cmd[c].touched \subseteq Own(c) /\ cmd[c].result = "none"
<1>1. TypeOK /\ ConnectionInv /\ CommandInv(c)
  BY DEF Inv, BatchInv
<1>2. /\ cmd[c].pc # "done" /\ cmd[c].pc # "new"
      /\ cmd[c].pool \in PoolId /\ cmd[c].slot \in Slot
  BY <1>1 DEF HasConnection, TypeOK
<1>3. /\ cmd \in [Command -> Progress] /\ cmd[c] \in Progress /\ cmd[c].at \in Nat
      /\ conns \in [PoolId -> [Slot -> Connection]]
      /\ Conn(c) \in Connection
  BY <1>1, CommandFacts DEF TypeOK
<1>4. RequestOf(c) \in Request
  BY <1>1, <1>2 DEF CommandInv, RequestInv, TypeOK, RequestOf
<1>5. Conn(c).state = "used" /\ NothingLeft(Conn(c))
  BY <1>1, <1>2 DEF ConnectionInv, BatchInv, Conn
<1>6. cmd[c].touched \subseteq Own(c) /\ cmd[c].result = "none"
  BY <1>1, <1>2 DEF CommandInv, RequestInv
<1>7. Holds(c, cmd[c].pool, cmd[c].slot)
  BY DEF Holds
<1>8. QED BY <1>2, <1>3, <1>4, <1>5, <1>6, <1>7, Kinds

\* A step that keeps the connection: what is to show of its command.
LEMMA KeepsConnection ==
  ASSUME Inv, SqlAssumption, BatchInv, CleanlinessInv, NEW c \in Command, HasConnection(c),
         OthersStay(c), NEW pc \in {"running", "cleaning"}, NEW n \in Nat, NEW t, t \subseteq Own(c),
         cmd'[c].pc = pc, cmd'[c].at = n, cmd'[c].touched = t,
         cmd'[c].req = cmd[c].req, cmd'[c].pool = cmd[c].pool, cmd'[c].slot = cmd[c].slot,
         cmd'[c].result = cmd[c].result,
         NEW y, NothingLeft(y), conns' = [conns EXCEPT ![cmd[c].pool][cmd[c].slot] = y],
         NEW new, new \subseteq Own(c), committed' = committed \cup new,
         pc = "running" =>
           /\ n > 0 /\ n <= Last(RequestOf(c))
           /\ Transacts(RequestOf(c)) =>
                /\ Phase(RequestOf(c), n, t, CommittedBy(c) \cup new, y)
                /\ \A k \in DOMAIN Statements(c) :
                     k < n /\ Statements(c)[k] = "writeRows" => <<c, k>> \in t,
         pc = "cleaning" =>
           /\ Script(RequestOf(c)) /\ n \in {1, 2}
           /\ CommittedBy(c) \cup new \in {{}, t},
         y.state = "used",
         NoCutOff =>
           /\ pc = "running" => CleanPhase(RequestOf(c), n, y)
           /\ pc = "cleaning" /\ n = 2 => ~y.txn
  PROVE  BatchInv' /\ CleanlinessInv'
<1>1. TypeOK /\ ConnectionInv /\ CommandInv(c)
  BY DEF Inv, BatchInv
<1>2. PICK p \in PoolId, s \in Slot : p = cmd[c].pool /\ s = cmd[c].slot
  BY HeldFacts
<1>3. /\ conns'[p][s] = y
      /\ \A q \in PoolId, u \in Slot : <<q, u>> # <<p, s>> => conns'[q][u] = conns[q][u]
  BY <1>2, HeldFacts
<1>4. /\ RequestOf(c)' = RequestOf(c) /\ Statements(c)' = Statements(c) /\ Conn(c)' = y
  BY <1>2, <1>3 DEF RequestOf, Statements, Conn
<1>5. /\ CommittedBy(c)' = CommittedBy(c) \cup new
      /\ \A d \in Command : d # c => CommittedBy(d)' = CommittedBy(d)
  BY CommittedFacts
<1>6. RequestInv(c)'
  <2>1. RequestOf(c) \in Request /\ cmd[c].result = "none"
    BY HeldFacts
  <2>2. QED BY <1>4, <2>1 DEF RequestInv, Own
<1>7. RunningInv(c)'
  <2>1. CASE pc = "running"
    <3>1. Transacts(RequestOf(c)) => RowsHit(c, n)'
      BY <1>4, <2>1 DEF RowsHit
    <3>2. QED BY <1>4, <1>5, <2>1, <3>1 DEF RunningInv
  <2>2. CASE pc = "cleaning"
    BY <2>2 DEF RunningInv
  <2>3. QED BY <2>1, <2>2
<1>8. CleaningInv(c)' /\ DoneInv(c)'
  BY <1>4, <1>5 DEF CleaningInv, DoneInv
<1>9. CommandInv(c)'
  BY <1>6, <1>7, <1>8 DEF CommandInv
<1>10. NoCutOff => CleanInv(c)'
  BY <1>4 DEF CleanInv
<1>11. /\ NothingLeft(conns'[p][s])
       /\ NoCutOff' /\ NoCutOff =>
            CleanInv(c)' /\ (conns'[p][s].state # "used" => Clean(conns'[p][s]))
  BY <1>3, <1>10
<1>12. Holds(c, p, s) /\ cmd[c].pc # "done"
  BY <1>2, HeldFacts
<1>13. QED
  BY <1>1, <1>3, <1>5, <1>9, <1>11, <1>12, ConnectionStep

\* A step that gives the connection back: what is to show of its command.
LEMMA LeavesConnection ==
  ASSUME Inv, SqlAssumption, BatchInv, CleanlinessInv, NEW c \in Command, HasConnection(c),
         NEW result \in {"ok", "error", "timeout"}, NEW t, t \subseteq Own(c),
         cmd' = [cmd EXCEPT ![c].pc = "done", ![c].result = result, ![c].touched = t],
         NEW y \in Connection, NothingLeft(y), GivesBack(c, y),
         NEW new, new \subseteq Own(c), committed' = committed \cup new,
         Transacts(RequestOf(c)) =>
           /\ CommittedBy(c) \cup new \in {{}, t}
           /\ result = "ok" =>
                /\ CommittedBy(c) \cup new = t
                /\ \A k \in DOMAIN Statements(c) : Statements(c)[k] = "writeRows" => <<c, k>> \in t
           /\ result = "error" /\ RequestOf(c).transactional => CommittedBy(c) \cup new = {},
         NoCutOff /\ (result = "timeout" => RequestOf(c).transactional) => Clean(y)
  PROVE  BatchInv' /\ CleanlinessInv'
<1>1. TypeOK /\ ConnectionInv /\ CommandInv(c)
  BY DEF Inv, BatchInv
<1>2. PICK p \in PoolId, s \in Slot : p = cmd[c].pool /\ s = cmd[c].slot
  BY HeldFacts
<1>3. /\ cmd'[c].pc = "done" /\ cmd'[c].result = result /\ cmd'[c].touched = t
      /\ cmd'[c].req = cmd[c].req /\ OthersStay(c)
  BY HeldFacts DEF Progress, OthersStay
<1>4. /\ RequestOf(c)' = RequestOf(c) /\ Statements(c)' = Statements(c)
  BY <1>3 DEF RequestOf, Statements
<1>5. /\ CommittedBy(c)' = CommittedBy(c) \cup new
      /\ \A d \in Command : d # c => CommittedBy(d)' = CommittedBy(d)
  BY CommittedFacts
<1>6. \A q \in PoolId, u \in Slot : <<q, u>> # <<p, s>> => conns'[q][u] = conns[q][u]
  BY <1>1, <1>2, GivesBackFacts
<1>7. conns'[p][s] \in {[y EXCEPT !.state = "idle"], NoConnection}
  BY <1>2, HeldFacts DEF GivesBack
<1>8. NothingLeft(conns'[p][s]) /\ (Clean(y) => Clean(conns'[p][s]))
  <2>1. NothingLeft(NoConnection) /\ Clean(NoConnection)
    BY DEF NothingLeft, Clean, NoConnection
  <2>2. /\ NothingLeft([y EXCEPT !.state = "idle"])
        /\ Clean(y) => Clean([y EXCEPT !.state = "idle"])
    BY DEF NothingLeft, Clean, Connection
  <2>3. QED BY <1>7, <2>1, <2>2
<1>9. CommandInv(c)'
  <2>1. RequestOf(c) \in Request
    BY HeldFacts
  <2>2. RequestInv(c)'
    BY <1>3, <1>4, <2>1 DEF RequestInv, Own
  <2>3. RunningInv(c)' /\ CleaningInv(c)'
    BY <1>3 DEF RunningInv, CleaningInv
  <2>4. Transacts(RequestOf(c)) /\ result = "ok" => RowsHit(c, Len(Statements(c)) + 1)'
    BY <1>3, <1>4 DEF RowsHit
  <2>5. DoneInv(c)'
    BY <1>3, <1>4, <1>5, <2>4 DEF DoneInv
  <2>6. QED BY <2>2, <2>3, <2>5 DEF CommandInv
<1>10. NoCutOff' /\ NoCutOff =>
         CleanInv(c)' /\ (conns'[p][s].state # "used" => Clean(conns'[p][s]))
  <2>1. NoCutOff' => (result = "timeout" => RequestOf(c).transactional)
    BY <1>3, <1>4 DEF NoCutOff
  <2>2. CleanInv(c)'
    BY <1>3 DEF CleanInv
  <2>3. QED BY <1>8, <2>1, <2>2
<1>11. Holds(c, p, s) /\ cmd[c].pc # "done"
  BY <1>2, HeldFacts
<1>12. QED
  BY <1>1, <1>3, <1>5, <1>6, <1>8, <1>9, <1>10, <1>11, ConnectionStep

\* Wherever a command ends, all it has written is committed, or nothing.
LEMMA PhaseEnds ==
  ASSUME NEW r \in Requests, Transacts(r), NEW n \in Nat, NEW t, NEW done, NEW x,
         Phase(r, n, t, done, x)
  PROVE  /\ done \in {{}, t}
         /\ n > Last(r) => done = t
         /\ n <= Last(r) /\ r.transactional => done = {}
<1>1. /\ Start(r) \in {0, 1, 2} /\ Finish(r) \in Nat /\ Start(r) < Finish(r) /\ Last(r) \in Nat
      /\ IF Start(r) = 2 THEN Last(r) = Finish(r) + 1 ELSE Last(r) = Finish(r)
      /\ r.transactional => Start(r) = 0
  BY TransactionShape
<1>2. \/ n <= Start(r) \/ (Start(r) < n /\ n <= Finish(r)) \/ Finish(r) < n
  BY <1>1
<1>3. done \in {{}, t}
  BY <1>2 DEF Phase
<1>4. n > Last(r) => Finish(r) < n
  BY <1>1
<1>5. n <= Last(r) /\ r.transactional => n <= Start(r) \/ (Start(r) < n /\ n <= Finish(r))
  BY <1>1
<1>6. QED BY <1>3, <1>4, <1>5 DEF Phase

\* The connection of a batch or of a statement of its own that ends early is clean.
LEMMA DroppedClean ==
  ASSUME Inv, SqlAssumption, BatchInv, NEW c \in Command, cmd[c].pc = "running",
         CleanPhase(RequestOf(c), cmd[c].at, Conn(c)),
         RequestOf(c).transactional \/ ~Transacts(RequestOf(c))
  PROVE  Clean(Dropped(c))
<1>1. /\ Conn(c) \in Connection /\ RequestOf(c) \in Requests /\ RequestOf(c) \in Request
      /\ cmd[c].at \in Nat
  BY HeldFacts DEF HasConnection
<1>2. Conn(c).txn \in BOOLEAN /\ Conn(c).fk \in BOOLEAN
  BY <1>1 DEF Connection
<1>3. CASE RequestOf(c).transactional
  <2>1. Transacts(RequestOf(c)) /\ Start(RequestOf(c)) = 0
    BY <1>1, <1>3, Kinds DEF Transacts, Start
  <2>2. Conn(c).fk
    BY <2>1 DEF CleanPhase
  <2>3. CASE cmd[c].at = 0
    <3>1. ~Conn(c).txn
      BY <2>1, <2>3 DEF CleanPhase
    <3>2. Dropped(c) = Conn(c)
      BY <2>3 DEF Dropped
    <3>3. QED BY <2>2, <3>1, <3>2 DEF Clean
  <2>4. CASE cmd[c].at # 0
    <3>1. Dropped(c) = RolledBack(Conn(c))
      BY <1>1, <1>3, <2>4 DEF Dropped, RequestOf
    <3>2. ~RolledBack(Conn(c)).txn /\ RolledBack(Conn(c)).fk
      BY <1>1, <2>2 DEF RolledBack, Connection
    <3>3. QED BY <3>1, <3>2 DEF Clean
  <2>5. QED BY <2>3, <2>4
<1>4. CASE ~RequestOf(c).transactional
  <2>1. ~Transacts(RequestOf(c))
    BY <1>4
  <2>2. ~Conn(c).txn /\ Conn(c).fk
    BY <2>1 DEF CleanPhase
  <2>3. Dropped(c) = Conn(c)
    BY <1>4 DEF Dropped, RequestOf
  <2>4. QED BY <2>2, <2>3 DEF Clean
<1>5. QED BY <1>3, <1>4

\* Every place of a request holds a statement.
LEMMA StatementsAreStatements ==
  ASSUME NEW r \in Requests, NEW n \in Nat
  PROVE  StatementAt(r, n) \in Statement
<1>1. r.statements \in Seq(Statement)
  BY DEF Requests
<1>2. CASE n \in 1 .. Len(r.statements)
  <2>1. r.statements[n] \in Statement
    BY <1>1, <1>2
  <2>2. StatementAt(r, n) = r.statements[n]
    BY <1>1, <1>2 DEF StatementAt
  <2>3. QED BY <2>1, <2>2
<1>3. CASE n \notin 1 .. Len(r.statements)
  <2>1. StatementAt(r, n) \in {"BEGIN", "COMMIT"}
    BY <1>1, <1>3 DEF StatementAt
  <2>2. QED BY <2>1 DEF Statement
<1>4. QED BY <1>2, <1>3

\* What the current statement of a running command does when it runs.
LEMMA CurrentFacts ==
  ASSUME Inv, SqlAssumption, BatchInv, NEW c \in Command, cmd[c].pc = "running",
         Possible(c, Current(c)), NEW hit \in Effects(c, Current(c))
  PROVE  LET r == RequestOf(c)
             n == cmd[c].at
             s == Current(c)
             y == After(Conn(c), s, hit)
             new == Commits(Conn(c), s, hit)
         IN  /\ s = StatementAt(r, n) /\ hit \subseteq Own(c)
             /\ n \in Nat /\ n <= Last(r) /\ (n > 0 \/ r.transactional)
             /\ new \subseteq Own(c)
             /\ y \in Connection /\ y.state = "used" /\ NothingLeft(y)
             /\ Transacts(r) =>
                  Phase(r, n + 1, cmd[c].touched \cup hit, CommittedBy(c) \cup new, y)
             /\ NoCutOff /\ CleanlinessInv => CleanPhase(r, n + 1, y)
<1>1. PICK r, n, s, x : r = RequestOf(c) /\ n = cmd[c].at /\ s = Current(c) /\ x = Conn(c)
  OBVIOUS
<1>2. HasConnection(c) /\ CommandInv(c)
  BY DEF HasConnection, BatchInv
<1>3. /\ n \in Nat /\ r \in Requests /\ r \in Request
      /\ x \in Connection /\ x.state = "used" /\ NothingLeft(x)
      /\ cmd[c].touched \subseteq Own(c)
  BY <1>1, <1>2, HeldFacts
<1>4. /\ n <= Last(r) /\ (n > 0 \/ r.transactional)
      /\ Transacts(r) => Phase(r, n, cmd[c].touched, CommittedBy(c), x)
  BY <1>1, <1>2 DEF CommandInv, RunningInv
<1>5. s = StatementAt(r, n)
  BY <1>1 DEF Current, StatementAt, RequestOf, Statements
<1>6. s \in Statement
  BY <1>3, <1>5, StatementsAreStatements
<1>7. s = "BEGIN" => ~x.txn
  BY <1>1 DEF Possible
<1>8. hit \subseteq Own(c) /\ (s \notin Writes => hit = {})
  BY <1>1, <1>3 DEF Effects, Own
<1>9. hit \in SUBSET Effect
  BY <1>1, <1>3, EffectsFacts
<1>10. After(x, s, hit) \in Connection /\ After(x, s, hit).state = "used"
  BY <1>3, <1>9, AfterFacts
<1>11. NothingLeft(After(x, s, hit))
  BY <1>3, <1>6, StatementLeaves
<1>12. PICK t, d : t = cmd[c].touched /\ d = CommittedBy(c)
  OBVIOUS
<1>13. Transacts(r) =>
         /\ Phase(r, n + 1, t \cup hit, d \cup Commits(x, s, hit), After(x, s, hit))
         /\ Commits(x, s, hit) \subseteq Own(c)
  <2>1. HAVE Transacts(r)
  <2>2. Phase(r, n, t, d, x) /\ t \subseteq Own(c)
    BY <1>3, <1>4, <1>12, <2>1
  <2>3. QED BY <1>3, <1>4, <1>5, <1>7, <1>8, <2>1, <2>2, StatementPhase
<1>14. Single(r) <=> ~Transacts(r)
  BY <1>3, Kinds
<1>15. ~Transacts(r) => Commits(x, s, hit) \subseteq Own(c)
  <2>1. HAVE ~Transacts(r)
  <2>2. Single(r) /\ n \in 1 .. Last(r)
    <3>1. Single(r) /\ n > 0
      BY <1>4, <1>14, <2>1 DEF Single
    <3>2. Last(r) = Len(r.statements) /\ Len(r.statements) \in Nat
      BY <1>3, <3>1 DEF Last, Single, Requests
    <3>3. QED BY <1>3, <1>4, <3>1, <3>2
  <2>3. s \in RowStatement
    BY <1>3, <1>5, <2>2, SingleStatements
  <2>4. Commits(x, s, hit) \in {{}, hit}
    BY <1>3, <2>3, StatementEffects
  <2>5. QED BY <1>8, <2>4
<1>16. NoCutOff /\ CleanlinessInv => CleanPhase(r, n + 1, After(x, s, hit))
  <2>1. HAVE NoCutOff /\ CleanlinessInv
  <2>2. CleanPhase(r, n, x)
    BY <1>1, <2>1 DEF CleanlinessInv, CleanInv
  <2>3. Single(r) => ~Transacts(r) /\ ~r.transactional
    BY <1>14 DEF Single
  <2>4. QED BY <1>3, <1>4, <1>5, <1>14, <2>2, <2>3, StatementCleanPhase
<1>17. QED
  BY <1>1, <1>4, <1>5, <1>3, <1>8, <1>10, <1>11, <1>12, <1>13, <1>15, <1>16

\* A statement that runs through.
LEMMA SucceedsKeepsBatchInv ==
  ASSUME Inv, SqlAssumption, BatchInv, CleanlinessInv, NEW c \in Command, StatementSucceeds(c)
  PROVE  BatchInv' /\ CleanlinessInv'
<1>1. cmd[c].pc = "running" /\ Possible(c, Current(c)) /\ HasConnection(c)
  BY DEF StatementSucceeds, HasConnection
<1>2. PICK r, n, s, x, t : /\ r = RequestOf(c) /\ n = cmd[c].at /\ s = Current(c) /\ x = Conn(c)
                           /\ t = cmd[c].touched
  OBVIOUS
<1>3. PICK hit \in Effects(c, Current(c)) :
        /\ RowsFound(s, hit)
        /\ committed' = committed \cup Commits(x, s, hit)
        /\ IF n < LastStep(c)
           THEN /\ conns' = [conns EXCEPT ![cmd[c].pool][cmd[c].slot] = After(@, s, hit)]
                /\ cmd' = [cmd EXCEPT ![c].at = @ + 1, ![c].touched = @ \cup hit]
           ELSE /\ GivesBack(c, After(x, s, hit))
                /\ cmd' = [cmd EXCEPT ![c].pc = "done", ![c].result = "ok",
                                      ![c].touched = @ \cup hit]
  BY <1>2 DEF StatementSucceeds
<1>4. /\ s = StatementAt(r, n) /\ hit \subseteq Own(c)
      /\ Commits(x, s, hit) \subseteq Own(c)
      /\ After(x, s, hit) \in Connection /\ After(x, s, hit).state = "used"
      /\ NothingLeft(After(x, s, hit))
      /\ n \in Nat /\ n <= Last(r) /\ (n > 0 \/ r.transactional)
      /\ Transacts(r) =>
           Phase(r, n + 1, t \cup hit, CommittedBy(c) \cup Commits(x, s, hit), After(x, s, hit))
      /\ NoCutOff => CleanPhase(r, n + 1, After(x, s, hit))
  <2>1. RequestOf(c) = r /\ cmd[c].at = n /\ Current(c) = s /\ Conn(c) = x
    BY <1>2
  <2>2. /\ s = StatementAt(r, n) /\ hit \subseteq Own(c)
        /\ Commits(x, s, hit) \subseteq Own(c)
        /\ After(x, s, hit) \in Connection /\ After(x, s, hit).state = "used"
        /\ NothingLeft(After(x, s, hit))
        /\ n \in Nat /\ n <= Last(r) /\ (n > 0 \/ r.transactional)
        /\ Transacts(r) =>
             Phase(r, n + 1, cmd[c].touched \cup hit, CommittedBy(c) \cup Commits(x, s, hit),
                   After(x, s, hit))
        /\ NoCutOff /\ CleanlinessInv => CleanPhase(r, n + 1, After(x, s, hit))
    BY <1>1, <2>1, CurrentFacts
  <2>3. cmd[c].touched = t
    BY <1>2
  <2>4. QED BY <2>2, <2>3
<1>5. /\ cmd \in [Command -> Progress] /\ cmd[c] \in Progress
      /\ conns \in [PoolId -> [Slot -> Connection]]
      /\ cmd[c].pool \in PoolId /\ cmd[c].slot \in Slot
      /\ r \in Requests /\ r \in Request /\ t \subseteq Own(c)
  BY <1>1, <1>2, HeldFacts
<1>6. PICK y, new : y = After(x, s, hit) /\ new = Commits(x, s, hit)
  OBVIOUS
<1>7. Last(r) = LastStep(c) /\ Last(r) \in Nat /\ Len(r.statements) \in Nat
      /\ Len(r.statements) <= Last(r) /\ Statements(c) = r.statements
      /\ DOMAIN Statements(c) = 1 .. Len(r.statements)
  <2>1. r.statements \in Seq(Statement) /\ r.transactional \in BOOLEAN
    BY <1>5 DEF Requests
  <2>2. r = cmd[c].req
    BY <1>2 DEF RequestOf
  <2>3. Statements(c) = r.statements
    BY <2>2 DEF Statements
  <2>4. Last(r) = LastStep(c)
    BY <2>1, <2>2, <2>3 DEF Last, LastStep
  <2>5. Len(r.statements) \in Nat /\ DOMAIN r.statements = 1 .. Len(r.statements)
    BY <2>1
  <2>6. Last(r) \in {Len(r.statements), Len(r.statements) + 1}
    <3>1. CASE r.transactional
      BY <2>5, <3>1 DEF Last
    <3>2. CASE ~r.transactional
      BY <2>5, <3>2 DEF Last
    <3>3. QED BY <3>1, <3>2
  <2>7. Last(r) \in Nat /\ Len(r.statements) <= Last(r)
    BY <2>5, <2>6
  <2>8. QED BY <2>3, <2>4, <2>5, <2>7
<1>8. Transacts(r) =>
        \A k \in DOMAIN Statements(c) :
          k < n + 1 /\ Statements(c)[k] = "writeRows" => <<c, k>> \in t \cup hit
  <2>1. HAVE Transacts(r)
  <2>2. TAKE k \in DOMAIN Statements(c)
  <2>3. HAVE k < n + 1 /\ Statements(c)[k] = "writeRows"
  <2>4. CASE k < n
    <3>1. RowsHit(c, n)
      BY <1>1, <1>2, <2>1 DEF BatchInv, CommandInv, RunningInv
    <3>2. QED BY <1>2, <2>3, <2>4, <3>1 DEF RowsHit
  <2>5. CASE k = n
    <3>1. s = "writeRows"
      BY <1>4, <1>7, <2>3, <2>5 DEF StatementAt
    <3>2. hit # {} /\ hit \in {{}, {<<c, n>>}}
      BY <1>2, <1>3, <3>1 DEF RowsFound, Effects
    <3>3. QED BY <2>5, <3>2
  <2>6. QED BY <1>4, <1>7, <2>3, <2>4, <2>5
<1>9. CASE n < LastStep(c)
  <2>1. /\ conns' = [conns EXCEPT ![cmd[c].pool][cmd[c].slot] = y]
        /\ cmd' = [cmd EXCEPT ![c].at = n + 1, ![c].touched = t \cup hit]
    BY <1>2, <1>3, <1>5, <1>6, <1>9 DEF Conn
  <2>2. /\ cmd'[c].pc = "running" /\ cmd'[c].at = n + 1 /\ cmd'[c].touched = t \cup hit
        /\ cmd'[c].req = cmd[c].req /\ cmd'[c].pool = cmd[c].pool /\ cmd'[c].slot = cmd[c].slot
        /\ cmd'[c].result = cmd[c].result /\ OthersStay(c)
    BY <1>1, <1>5, <2>1 DEF Progress, OthersStay
  <2>3. n + 1 \in Nat /\ n + 1 > 0 /\ n + 1 <= Last(r) /\ t \cup hit \subseteq Own(c)
    BY <1>4, <1>5, <1>7, <1>9
  <2>4. committed' = committed \cup new /\ new \subseteq Own(c) /\ NothingLeft(y)
        /\ y.state = "used"
    BY <1>3, <1>4, <1>6
  <2>5. /\ Transacts(r) => Phase(r, n + 1, t \cup hit, CommittedBy(c) \cup new, y)
        /\ NoCutOff => CleanPhase(r, n + 1, y)
    BY <1>4, <1>6
  <2>6. QED
    BY <1>1, <1>2, <1>8, <2>1, <2>2, <2>3, <2>4, <2>5, KeepsConnection
<1>10. CASE ~(n < LastStep(c))
  <2>1. /\ GivesBack(c, y)
        /\ cmd' = [cmd EXCEPT ![c].pc = "done", ![c].result = "ok", ![c].touched = t \cup hit]
    BY <1>2, <1>3, <1>5, <1>6, <1>10
  <2>2. n = Last(r)
    BY <1>4, <1>7, <1>10
  <2>3. Transacts(r) =>
          /\ CommittedBy(c) \cup new = t \cup hit
          /\ \A k \in DOMAIN Statements(c) :
               Statements(c)[k] = "writeRows" => <<c, k>> \in t \cup hit
    <3>1. HAVE Transacts(r)
    <3>2. n + 1 \in Nat /\ n + 1 > Last(r)
      BY <1>4, <2>2
    <3>3. CommittedBy(c) \cup new = t \cup hit
      <4>1. PICK d : d = CommittedBy(c) \cup new
        OBVIOUS
      <4>2. Phase(r, n + 1, t \cup hit, d, y)
        BY <1>4, <1>6, <3>1, <4>1
      <4>3. QED BY <1>5, <3>1, <3>2, <4>1, <4>2, PhaseEnds
    <3>4. \A k \in DOMAIN Statements(c) : k < n + 1
      BY <1>7, <2>2
    <3>5. QED BY <1>8, <3>1, <3>3, <3>4
  <2>4. NoCutOff => Clean(y)
    <3>1. HAVE NoCutOff
    <3>2. CleanPhase(r, n + 1, y) /\ y.txn \in BOOLEAN /\ y.fk \in BOOLEAN
      BY <1>4, <1>6, <3>1 DEF Connection
    <3>3. ~(Transacts(r) /\ n + 1 <= Finish(r))
      BY <1>5, <2>2, TransactionShape
    <3>4. ~(n + 1 <= Last(r))
      BY <1>7, <2>2
    <3>5. QED BY <3>2, <3>3, <3>4 DEF CleanPhase, Clean
  <2>5. t \cup hit \subseteq Own(c) /\ y \in Connection /\ NothingLeft(y)
        /\ new \subseteq Own(c) /\ committed' = committed \cup new
    BY <1>3, <1>4, <1>5, <1>6
  <2>6. QED
    BY <1>1, <1>2, <2>1, <2>3, <2>4, <2>5, LeavesConnection
<1>11. QED BY <1>9, <1>10

\* A script is what is cleaned up after, and how.
LEMMA CleanupFacts ==
  ASSUME SqlAssumption, NEW c \in Command, RequestOf(c) \in Request
  PROVE  /\ HasCleanup(c) <=> Script(RequestOf(c))
         /\ Script(RequestOf(c)) =>
              /\ ~RequestOf(c).transactional /\ Transacts(RequestOf(c))
              /\ Len(cmd[c].req.onError) = 2
              /\ cmd[c].req.onError[1] = "ROLLBACK" /\ cmd[c].req.onError[2] = "fkOn"
         /\ ~Script(RequestOf(c)) =>
              RequestOf(c).transactional \/ ~Transacts(RequestOf(c))
<1>1. Single(RequestOf(c)) \/ Batch(RequestOf(c)) \/ Script(RequestOf(c))
  BY RequestAssumption
<1>2. Script(RequestOf(c)) =>
        ~RequestOf(c).transactional /\ RequestOf(c).onError = <<"ROLLBACK", "fkOn">>
  BY DEF Script
<1>3. Batch(RequestOf(c)) => RequestOf(c).transactional
  BY DEF Batch
<1>4. Single(RequestOf(c)) => RequestOf(c).onError = <<>>
  BY DEF Single
<1>5. <<"ROLLBACK", "fkOn">> # <<>>
  OBVIOUS
<1>6. HasCleanup(c) <=> ~RequestOf(c).transactional /\ RequestOf(c).onError # <<>>
  BY DEF HasCleanup, RequestOf
<1>7. Script(RequestOf(c)) =>
        /\ Len(cmd[c].req.onError) = 2
        /\ cmd[c].req.onError[1] = "ROLLBACK" /\ cmd[c].req.onError[2] = "fkOn"
  <2>1. HAVE Script(RequestOf(c))
  <2>2. PICK o : o = cmd[c].req.onError
    OBVIOUS
  <2>3. o = <<"ROLLBACK", "fkOn">>
    BY <1>2, <2>1, <2>2 DEF RequestOf
  <2>4. Len(o) = 2 /\ o[1] = "ROLLBACK" /\ o[2] = "fkOn"
    BY <2>3
  <2>5. QED BY <2>2, <2>4
<1>8. QED BY <1>1, <1>2, <1>3, <1>4, <1>5, <1>6, <1>7 DEF Transacts

\* What a running command has committed so far is all or nothing.
LEMMA RunningFacts ==
  ASSUME Inv, SqlAssumption, BatchInv, NEW c \in Command, cmd[c].pc = "running",
         Transacts(RequestOf(c))
  PROVE  /\ CommittedBy(c) \in {{}, cmd[c].touched}
         /\ RequestOf(c).transactional => CommittedBy(c) = {}
<1>1. HasConnection(c)
  BY DEF HasConnection
<1>2. PICK r, n, t, d, x : /\ r = RequestOf(c) /\ n = cmd[c].at /\ t = cmd[c].touched
                           /\ d = CommittedBy(c) /\ x = Conn(c)
  OBVIOUS
<1>3. r \in Requests /\ n \in Nat
  BY <1>1, <1>2, HeldFacts
<1>4. Transacts(r) /\ Phase(r, n, t, d, x) /\ n <= Last(r)
  BY <1>2 DEF BatchInv, CommandInv, RunningInv
<1>5. d \in {{}, t} /\ (r.transactional => d = {})
  BY <1>3, <1>4, PhaseEnds
<1>6. QED BY <1>2, <1>5

\* What is dropped leaves nothing behind either.
LEMMA DroppedLeaves ==
  ASSUME NEW c \in Command, Conn(c) \in Connection, NothingLeft(Conn(c))
  PROVE  NothingLeft(Dropped(c))
<1>1. NothingLeft(RolledBack(Conn(c)))
  BY DEF NothingLeft, RolledBack, Connection
<1>2. QED BY <1>1 DEF Dropped

\* An error: a script is cleaned up after, all else is dropped.
LEMMA FailsKeepsBatchInv ==
  ASSUME Inv, SqlAssumption, BatchInv, CleanlinessInv, NEW c \in Command, StatementFails(c)
  PROVE  BatchInv' /\ CleanlinessInv'
<1>1. cmd[c].pc = "running" /\ HasConnection(c)
  BY DEF StatementFails, HasConnection
<1>2. PICK none : none = {} /\ none \subseteq Own(c) /\ committed' = committed \cup none
  <2>1. committed' = committed \cup {} /\ {} \subseteq Own(c)
    BY DEF StatementFails
  <2>2. QED BY <2>1
<1>3. PICK x, t, y : x = Conn(c) /\ t = cmd[c].touched /\ y = Dropped(c)
  OBVIOUS
<1>4. /\ cmd \in [Command -> Progress] /\ cmd[c] \in Progress
      /\ conns \in [PoolId -> [Slot -> Connection]]
      /\ cmd[c].pool \in PoolId /\ cmd[c].slot \in Slot
      /\ RequestOf(c) \in Request /\ RequestOf(c) \in Requests /\ t \subseteq Own(c)
      /\ x \in Connection /\ x.state = "used" /\ NothingLeft(x)
  BY <1>1, <1>3, HeldFacts
<1>5. Transacts(RequestOf(c)) =>
        /\ CommittedBy(c) \cup none \in {{}, t}
        /\ RequestOf(c).transactional => CommittedBy(c) \cup none = {}
  BY <1>2, <1>1, <1>3, RunningFacts
<1>6. CASE HasCleanup(c)
  <2>1. cmd' = [cmd EXCEPT ![c].pc = "cleaning", ![c].at = 1] /\ conns' = conns
    BY <1>6 DEF StatementFails
  <2>2. conns' = [conns EXCEPT ![cmd[c].pool][cmd[c].slot] = x]
    BY <1>3, <1>4, <2>1 DEF Conn
  <2>3. /\ cmd'[c].pc = "cleaning" /\ cmd'[c].at = 1 /\ cmd'[c].touched = t
        /\ cmd'[c].req = cmd[c].req /\ cmd'[c].pool = cmd[c].pool /\ cmd'[c].slot = cmd[c].slot
        /\ cmd'[c].result = cmd[c].result /\ OthersStay(c)
    BY <1>3, <1>4, <2>1 DEF Progress, OthersStay
  <2>4. Script(RequestOf(c)) /\ CommittedBy(c) \cup none \in {{}, t}
    BY <1>4, <1>5, <1>6, CleanupFacts
  <2>5. PICK pc \in {"running", "cleaning"}, n \in Nat : pc = "cleaning" /\ n = 1
    OBVIOUS
  <2>6. /\ pc # "running" /\ n \in {1, 2} /\ n # 2
        /\ cmd'[c].pc = pc /\ cmd'[c].at = n
    BY <2>3, <2>5
  <2>7. t \subseteq Own(c) /\ NothingLeft(x) /\ x.state = "used"
    BY <1>4
  <2>8. QED BY <1>2, <1>1, <2>2, <2>3, <2>4, <2>6, <2>7, KeepsConnection
<1>7. CASE ~HasCleanup(c)
  <2>1. GivesBack(c, y) /\ Ends(c, "error")
    BY <1>3, <1>7 DEF StatementFails
  <2>2. cmd' = [cmd EXCEPT ![c].pc = "done", ![c].result = "error", ![c].touched = t]
    BY <1>3, <1>4, <2>1 DEF Ends, Progress
  <2>3. y \in Connection /\ NothingLeft(y)
    BY <1>3, <1>4, DroppedFacts, DroppedLeaves
  <2>4. NoCutOff => Clean(y)
    <3>1. HAVE NoCutOff
    <3>2. CleanPhase(RequestOf(c), cmd[c].at, Conn(c))
      BY <1>1, <3>1 DEF CleanlinessInv, CleanInv
    <3>3. RequestOf(c).transactional \/ ~Transacts(RequestOf(c))
      BY <1>4, <1>7, CleanupFacts
    <3>4. QED BY <1>1, <1>3, <3>2, <3>3, DroppedClean
  <2>5. QED BY <1>2, <1>1, <1>4, <1>5, <2>1, <2>2, <2>3, <2>4, LeavesConnection
<1>8. QED BY <1>6, <1>7

\* What a statement of the clean-up leaves: no transaction after the ROLLBACK, whether there
\* was one or not, and foreign keys after the pragma where there is none.
LEMMA CleaningFacts ==
  ASSUME Inv, SqlAssumption, BatchInv, NEW c \in Command, cmd[c].pc = "cleaning",
         NEW x, x = IF Possible(c, Current(c)) THEN After(Conn(c), Current(c), {}) ELSE Conn(c)
  PROVE  /\ Current(c) = IF cmd[c].at = 1 THEN "ROLLBACK" ELSE "fkOn"
         /\ Script(RequestOf(c)) /\ cmd[c].at \in {1, 2} /\ Len(cmd[c].req.onError) = 2
         /\ CommittedBy(c) \in {{}, cmd[c].touched}
         /\ x \in Connection /\ x.state = "used" /\ NothingLeft(x)
         /\ cmd[c].at = 1 => ~x.txn
         /\ cmd[c].at = 2 /\ ~Conn(c).txn => Clean(x)
<1>1. HasConnection(c) /\ CleaningInv(c)
  BY DEF HasConnection, BatchInv, CommandInv
<1>2. /\ Conn(c) \in Connection /\ Conn(c).state = "used" /\ NothingLeft(Conn(c))
      /\ RequestOf(c) \in Request
  BY <1>1, HeldFacts
<1>3. /\ Script(RequestOf(c)) /\ cmd[c].at \in {1, 2}
      /\ CommittedBy(c) \in {{}, cmd[c].touched}
  BY <1>1 DEF CleaningInv
<1>4. /\ Len(cmd[c].req.onError) = 2
      /\ cmd[c].req.onError[1] = "ROLLBACK" /\ cmd[c].req.onError[2] = "fkOn"
  BY <1>2, <1>3, CleanupFacts
<1>5. Current(c) = IF cmd[c].at = 1 THEN "ROLLBACK" ELSE "fkOn"
  BY <1>3, <1>4 DEF Current
<1>6. Current(c) \in Statement
  BY <1>5 DEF Statement
<1>7. PICK y, s : y = After(Conn(c), s, {}) /\ s = Current(c)
  OBVIOUS
<1>8. y \in Connection /\ y.state = "used" /\ NothingLeft(y)
  BY <1>2, <1>6, <1>7, AfterFacts, StatementLeaves
<1>9. x \in {y, Conn(c)}
  BY <1>7
<1>10. cmd[c].at = 1 => ~x.txn
  <2>1. HAVE cmd[c].at = 1
  <2>2. s = "ROLLBACK"
    BY <1>5, <1>7, <2>1
  <2>3. y = RolledBack(Conn(c))
    BY <1>2, <1>7, <2>2, StatementEffects
  <2>4. ~y.txn
    BY <1>2, <2>3 DEF RolledBack, Connection
  <2>5. Possible(c, s) \/ ~Conn(c).txn
    BY <2>2 DEF Possible, Writes
  <2>6. QED BY <1>7, <2>4, <2>5
<1>11. cmd[c].at = 2 /\ ~Conn(c).txn => Clean(x)
  <2>1. HAVE cmd[c].at = 2 /\ ~Conn(c).txn
  <2>2. s = "fkOn"
    BY <1>5, <1>7, <2>1
  <2>3. y = [Conn(c) EXCEPT !.fk = (s = "fkOn")]
    BY <1>2, <1>7, <2>1, <2>2, StatementEffects
  <2>4. ~y.txn /\ y.fk
    BY <1>2, <2>1, <2>2, <2>3 DEF Connection
  <2>5. Possible(c, s)
    BY <2>2 DEF Possible, Writes
  <2>6. QED BY <1>7, <2>4, <2>5 DEF Clean
<1>12. QED BY <1>2, <1>3, <1>4, <1>5, <1>8, <1>9, <1>10, <1>11

\* A statement of the clean-up.
LEMMA CleansKeepsBatchInv ==
  ASSUME Inv, SqlAssumption, BatchInv, CleanlinessInv, NEW c \in Command, Cleans(c)
  PROVE  BatchInv' /\ CleanlinessInv'
<1>1. cmd[c].pc = "cleaning" /\ HasConnection(c)
  BY DEF Cleans, HasConnection
<1>2. PICK none : none = {} /\ none \subseteq Own(c) /\ committed' = committed \cup none
  <2>1. committed' = committed \cup {} /\ {} \subseteq Own(c)
    BY DEF Cleans
  <2>2. QED BY <2>1
<1>3. PICK x, t : /\ x = IF Possible(c, Current(c)) THEN After(Conn(c), Current(c), {}) ELSE Conn(c)
                  /\ t = cmd[c].touched
  OBVIOUS
<1>4. /\ cmd \in [Command -> Progress] /\ cmd[c] \in Progress
      /\ conns \in [PoolId -> [Slot -> Connection]]
      /\ cmd[c].pool \in PoolId /\ cmd[c].slot \in Slot
      /\ RequestOf(c) \in Request /\ RequestOf(c) \in Requests /\ t \subseteq Own(c)
  BY <1>1, <1>3, HeldFacts
<1>5. /\ Script(RequestOf(c)) /\ cmd[c].at \in {1, 2} /\ Len(cmd[c].req.onError) = 2
      /\ CommittedBy(c) \cup none \in {{}, t}
      /\ x \in Connection /\ x.state = "used" /\ NothingLeft(x)
      /\ cmd[c].at = 1 => ~x.txn
      /\ cmd[c].at = 2 /\ ~Conn(c).txn => Clean(x)
  BY <1>2, <1>1, <1>3, CleaningFacts
<1>6. CASE cmd[c].at = 1
  <2>1. /\ conns' = [conns EXCEPT ![cmd[c].pool][cmd[c].slot] = x]
        /\ cmd' = [cmd EXCEPT ![c].at = 2]
    BY <1>3, <1>4, <1>5, <1>6 DEF Cleans
  <2>2. /\ cmd'[c].pc = "cleaning" /\ cmd'[c].at = 2 /\ cmd'[c].touched = t
        /\ cmd'[c].req = cmd[c].req /\ cmd'[c].pool = cmd[c].pool /\ cmd'[c].slot = cmd[c].slot
        /\ cmd'[c].result = cmd[c].result /\ OthersStay(c)
    BY <1>1, <1>3, <1>4, <2>1 DEF Progress, OthersStay
  <2>3. QED BY <1>2, <1>1, <1>4, <1>5, <1>6, <2>1, <2>2, KeepsConnection
<1>7. CASE cmd[c].at = 2
  <2>1. GivesBack(c, x) /\ Ends(c, "error")
    BY <1>3, <1>5, <1>7 DEF Cleans
  <2>2. cmd' = [cmd EXCEPT ![c].pc = "done", ![c].result = "error", ![c].touched = t]
    BY <1>3, <1>4, <2>1 DEF Ends, Progress
  <2>3. NoCutOff => Clean(x)
    BY <1>1, <1>5, <1>7 DEF CleanlinessInv, CleanInv
  <2>4. ~RequestOf(c).transactional
    BY <1>4, <1>5, CleanupFacts
  <2>5. QED BY <1>2, <1>1, <1>4, <1>5, <2>1, <2>2, <2>3, <2>4, LeavesConnection
<1>8. QED BY <1>5, <1>6, <1>7

\* The time limit drops a command before the engine has run its statement.
LEMMA TimesOutBeforeKeepsBatchInv ==
  ASSUME Inv, SqlAssumption, BatchInv, CleanlinessInv, NEW c \in Command, TimesOutBefore(c)
  PROVE  BatchInv' /\ CleanlinessInv'
<1>1. cmd[c].pc \in {"running", "cleaning"} /\ HasConnection(c)
  BY DEF TimesOutBefore, HasConnection
<1>2. PICK none : none = {} /\ none \subseteq Own(c) /\ committed' = committed \cup none
  <2>1. committed' = committed \cup {} /\ {} \subseteq Own(c)
    BY DEF TimesOutBefore
  <2>2. QED BY <2>1
<1>3. PICK t, y : t = cmd[c].touched /\ y = Dropped(c)
  OBVIOUS
<1>4. /\ cmd \in [Command -> Progress] /\ cmd[c] \in Progress
      /\ RequestOf(c) \in Request /\ RequestOf(c) \in Requests /\ t \subseteq Own(c)
      /\ Conn(c) \in Connection /\ NothingLeft(Conn(c))
  BY <1>1, <1>3, HeldFacts
<1>5. y \in Connection /\ NothingLeft(y)
  BY <1>3, <1>4, DroppedFacts, DroppedLeaves
<1>6. GivesBack(c, y) /\ Ends(c, "timeout")
  BY <1>3 DEF TimesOutBefore
<1>7. cmd' = [cmd EXCEPT ![c].pc = "done", ![c].result = "timeout", ![c].touched = t]
  BY <1>3, <1>4, <1>6 DEF Ends, Progress
<1>8. Transacts(RequestOf(c)) => CommittedBy(c) \cup none \in {{}, t}
  BY <1>1, <1>2, <1>3, RunningFacts, CleaningFacts
<1>9. NoCutOff /\ RequestOf(c).transactional => Clean(y)
  <2>1. HAVE NoCutOff /\ RequestOf(c).transactional
  <2>2. cmd[c].pc = "running"
    BY <1>1, <1>4, <2>1, CleaningFacts, CleanupFacts
  <2>3. CleanPhase(RequestOf(c), cmd[c].at, Conn(c))
    BY <2>1, <2>2 DEF CleanlinessInv, CleanInv
  <2>4. QED BY <1>3, <2>1, <2>2, <2>3, DroppedClean
<1>10. QED BY <1>1, <1>2, <1>4, <1>5, <1>6, <1>7, <1>8, <1>9, LeavesConnection

\* The engine has run the statement, but the command is dropped all the same.
LEMMA TimesOutAfterKeepsBatchInv ==
  ASSUME Inv, SqlAssumption, BatchInv, CleanlinessInv, NEW c \in Command, TimesOutAfter(c)
  PROVE  BatchInv' /\ CleanlinessInv'
<1>1. cmd[c].pc \in {"running", "cleaning"} /\ HasConnection(c) /\ Possible(c, Current(c))
  BY DEF TimesOutAfter, HasConnection
<1>2. PICK hit \in Effects(c, Current(c)) :
        /\ committed' = committed \cup Commits(Conn(c), Current(c), hit)
        /\ GivesBack(c, IF cmd[c].req.transactional THEN Dropped(c)
                                                    ELSE After(Conn(c), Current(c), hit))
        /\ cmd' = [cmd EXCEPT ![c].pc = "done", ![c].result = "timeout",
                              ![c].touched = @ \cup hit]
  BY DEF TimesOutAfter
<1>3. PICK new, t, after, y :
        /\ new = Commits(Conn(c), Current(c), hit) /\ t = cmd[c].touched \cup hit
        /\ after = After(Conn(c), Current(c), hit)
        /\ y = IF cmd[c].req.transactional THEN Dropped(c) ELSE after
  OBVIOUS
<1>4. /\ cmd \in [Command -> Progress] /\ cmd[c] \in Progress
      /\ RequestOf(c) \in Request /\ RequestOf(c) \in Requests /\ cmd[c].touched \subseteq Own(c)
      /\ Conn(c) \in Connection /\ NothingLeft(Conn(c)) /\ cmd[c].at \in Nat
  BY <1>1, HeldFacts
<1>5. /\ committed' = committed \cup new /\ GivesBack(c, y)
      /\ cmd' = [cmd EXCEPT ![c].pc = "done", ![c].result = "timeout", ![c].touched = t]
  BY <1>2, <1>3, <1>4
<1>6. /\ hit \subseteq Own(c) /\ new \subseteq Own(c)
      /\ after \in Connection /\ NothingLeft(after)
      /\ Transacts(RequestOf(c)) => CommittedBy(c) \cup new \in {{}, t}
  <2>1. CASE cmd[c].pc = "running"
    <3>1. PICK r, n, d : r = RequestOf(c) /\ n = cmd[c].at + 1 /\ d = CommittedBy(c) \cup new
      OBVIOUS
    <3>2. /\ hit \subseteq Own(c) /\ new \subseteq Own(c)
          /\ after \in Connection /\ NothingLeft(after)
          /\ Transacts(r) => Phase(r, n, t, d, after)
      BY <1>1, <1>3, <2>1, <3>1, CurrentFacts
    <3>3. Transacts(r) => d \in {{}, t}
      BY <1>4, <3>1, <3>2, PhaseEnds
    <3>4. QED BY <3>1, <3>2, <3>3
  <2>2. CASE cmd[c].pc = "cleaning"
    <3>1. /\ Current(c) \in {"ROLLBACK", "fkOn"}
          /\ CommittedBy(c) \in {{}, cmd[c].touched}
      BY <2>2, CleaningFacts
    <3>2. hit = {} /\ Current(c) \in Statement
      BY <3>1 DEF Effects, Writes, Statement
    <3>3. new = {}
      BY <1>3, <1>4, <3>1, StatementEffects
    <3>4. after \in Connection /\ NothingLeft(after)
      BY <1>3, <1>4, <3>2, AfterFacts, StatementLeaves
    <3>5. QED BY <1>3, <3>1, <3>2, <3>3, <3>4
  <2>3. QED BY <1>1, <2>1, <2>2
<1>7. t \subseteq Own(c)
  BY <1>3, <1>4, <1>6
<1>8. y \in Connection /\ NothingLeft(y)
  BY <1>3, <1>4, <1>6, DroppedFacts, DroppedLeaves
<1>9. NoCutOff /\ RequestOf(c).transactional => Clean(y)
  <2>1. HAVE NoCutOff /\ RequestOf(c).transactional
  <2>2. cmd[c].pc = "running"
    BY <1>1, <1>4, <2>1, CleaningFacts, CleanupFacts
  <2>3. CleanPhase(RequestOf(c), cmd[c].at, Conn(c))
    BY <2>1, <2>2 DEF CleanlinessInv, CleanInv
  <2>4. y = Dropped(c)
    BY <1>3, <2>1 DEF RequestOf
  <2>5. QED BY <2>1, <2>2, <2>3, <2>4, DroppedClean
<1>10. QED BY <1>1, <1>5, <1>6, <1>7, <1>8, <1>9, LeavesConnection

(***************************************************************************)
(* The theorems                                                            *)
(***************************************************************************)
\* Nothing has been asked for, written or committed at the start.
LEMMA InitBatchInv ==
  ASSUME SqlAssumption, Init
  PROVE  BatchInv /\ CleanlinessInv
<1>1. \A c \in Command : cmd[c] = NotInvoked /\ CommittedBy(c) = {}
  BY DEF Init, CommittedBy
<1>2. \A p \in PoolId, s \in Slot : conns[p][s] = NoConnection
  BY DEF Init
<1>3. NothingLeft(NoConnection) /\ Clean(NoConnection)
  BY DEF NothingLeft, Clean, NoConnection
<1>4. ASSUME NEW c \in Command PROVE CommandInv(c) /\ CleanInv(c)
  <2>1. /\ cmd[c].pc = "new" /\ cmd[c].req = NoRequest /\ cmd[c].result = "none"
        /\ cmd[c].touched = {} /\ CommittedBy(c) = {}
    BY <1>1 DEF NotInvoked
  <2>2. RequestInv(c)
    BY <2>1 DEF RequestInv, RequestOf, Own
  <2>3. RunningInv(c) /\ CleaningInv(c) /\ DoneInv(c) /\ CleanInv(c)
    BY <2>1 DEF RunningInv, CleaningInv, DoneInv, CleanInv
  <2>4. QED BY <2>2, <2>3 DEF CommandInv
<1>5. QED BY <1>2, <1>3, <1>4 DEF BatchInv, CleanlinessInv

\* Every state of every run satisfies the invariant of batches and of connections.
THEOREM BatchInvariant == Spec => [](Inv /\ BatchInv /\ CleanlinessInv)
<1> DEFINE All == Inv /\ BatchInv /\ CleanlinessInv
<1>1. Init => All
  BY SqlAssumption, InitInv, InitBatchInv
<1>2. Inv /\ Inv' /\ BatchInv /\ CleanlinessInv /\ [Next]_vars => BatchInv' /\ CleanlinessInv'
  <2> SUFFICES ASSUME Inv, BatchInv, CleanlinessInv, [Next]_vars
               PROVE  BatchInv' /\ CleanlinessInv'
    OBVIOUS
  <2>1. CASE Next
    <3>1. PICK c \in Command :
            (\E r \in Request : Invoke(c, r)) \/ Lifecycle(c) \/ Runs(c) \/ TimesOut(c)
      BY <2>1 DEF Next
    <3>2. CASE (\E r \in Request : Invoke(c, r)) \/ WaitingStep(c)
      BY <3>2, SqlAssumption, AsideKeepsBatchInv
    <3>3. CASE Acquire(c)
      BY <3>3, SqlAssumption, AcquireKeepsBatchInv
    <3>4. CASE StatementSucceeds(c)
      BY <3>4, SqlAssumption, SucceedsKeepsBatchInv
    <3>5. CASE StatementFails(c)
      BY <3>5, SqlAssumption, FailsKeepsBatchInv
    <3>6. CASE Cleans(c)
      BY <3>6, SqlAssumption, CleansKeepsBatchInv
    <3>7. CASE TimesOutBefore(c)
      BY <3>7, SqlAssumption, TimesOutBeforeKeepsBatchInv
    <3>8. CASE TimesOutAfter(c)
      BY <3>8, SqlAssumption, TimesOutAfterKeepsBatchInv
    <3>9. QED
      BY <3>1, <3>2, <3>3, <3>4, <3>5, <3>6, <3>7, <3>8
      DEF WaitingStep, Lifecycle, Runs, TimesOut
  <2>2. CASE UNCHANGED vars
    <3>1. cmd' = cmd /\ conns' = conns /\ committed' = committed
      BY <2>2 DEF vars
    <3>2. \A c \in Command : /\ cmd'[c] = cmd[c] /\ CommittedBy(c)' = CommittedBy(c)
                             /\ Conn(c)' = Conn(c)
      BY <3>1 DEF CommittedBy, Conn
    <3>3. \A c \in Command : CommandInv(c)'
      BY <3>2, CommandStays DEF BatchInv
    <3>4. BatchInv'
      BY <3>1, <3>3 DEF BatchInv, NothingLeft
    <3>5. NoCutOff' <=> NoCutOff
      BY <3>1 DEF NoCutOff, RequestOf
    <3>6. NoCutOff => \A c \in Command : CleanInv(c)'
      BY <3>2, CleanStays DEF CleanlinessInv
    <3>7. CleanlinessInv'
      BY <3>1, <3>5, <3>6 DEF CleanlinessInv, Clean
    <3>8. QED BY <3>4, <3>7
  <2>3. QED BY <2>1, <2>2
<1>3. QED BY <1>1, <1>2, Invariant, PTL DEF Spec

\* "With transactional they commit together or not at all": a batch or a script commits
\* everything it wrote or nothing, whatever fails or times out and whatever another command
\* has left on its connection; everything, with every expected row found, where it reports
\* success.
THEOREM BatchesHold == Spec => []BatchesAreAtomic
<1>1. Inv /\ BatchInv => BatchesAreAtomic
  <2> SUFFICES ASSUME Inv, BatchInv, NEW c \in Command, HasTransaction(c)
               PROVE  /\ CommittedBy(c) \in {{}, cmd[c].touched}
                      /\ cmd[c].result = "ok" =>
                           /\ CommittedBy(c) = cmd[c].touched
                           /\ \A k \in DOMAIN Statements(c) :
                                Statements(c)[k] = "writeRows" => <<c, k>> \in committed
                      /\ cmd[c].result = "error" /\ cmd[c].req.transactional => CommittedBy(c) = {}
    BY DEF BatchesAreAtomic
  <2>1. CommandInv(c) /\ cmd[c].req # NoRequest
    BY DEF BatchInv, HasTransaction
  <2>2. RequestOf(c) \in Request /\ RequestOf(c) \in Requests
    BY <2>1, SqlAssumption DEF CommandInv, RequestInv, RequestOf, SqlAssumption
  <2>3. Transacts(RequestOf(c))
    <3>1. CASE RequestOf(c).transactional
      BY <2>2, <3>1, SqlAssumption, Kinds DEF Transacts
    <3>2. CASE ~RequestOf(c).transactional
      <4>1. PICK k \in DOMAIN Statements(c) : Statements(c)[k] = "BEGIN"
        BY <3>2 DEF HasTransaction, RequestOf
      <4>2. k \in 1 .. Len(RequestOf(c).statements) /\ RequestOf(c).statements[k] = "BEGIN"
        BY <2>2, <4>1 DEF Statements, RequestOf, Requests
      <4>3. "BEGIN" \notin RowStatement
        BY DEF RowStatement, Writes
      <4>4. ~Single(RequestOf(c))
        BY <4>2, <4>3 DEF Single, RowStatements
      <4>5. QED BY <2>2, <4>4, SqlAssumption, Kinds
    <3>3. QED BY <3>1, <3>2
  <2>4. CASE cmd[c].pc = "done"
    <3>1. /\ CommittedBy(c) \in {{}, cmd[c].touched}
          /\ cmd[c].result = "ok" =>
               CommittedBy(c) = cmd[c].touched /\ RowsHit(c, Len(Statements(c)) + 1)
          /\ cmd[c].result = "error" /\ cmd[c].req.transactional => CommittedBy(c) = {}
      BY <2>1, <2>3, <2>4 DEF CommandInv, DoneInv, RequestOf
    <3>2. \A k \in DOMAIN Statements(c) : k < Len(Statements(c)) + 1
      BY <2>2 DEF Statements, RequestOf, Requests
    <3>3. \A e \in CommittedBy(c) : e \in committed
      BY DEF CommittedBy
    <3>4. QED BY <3>1, <3>2, <3>3 DEF RowsHit
  <2>5. CASE cmd[c].pc # "done"
    <3>1. cmd[c].result = "none"
      BY <2>1, <2>5 DEF CommandInv, RequestInv
    <3>2. CommittedBy(c) \in {{}, cmd[c].touched}
      <4>1. CASE cmd[c].pc = "running"
        BY <2>3, <4>1, SqlAssumption, RunningFacts
      <4>2. CASE cmd[c].pc = "cleaning"
        BY <2>1, <4>2 DEF CommandInv, CleaningInv
      <4>3. CASE cmd[c].pc \notin {"running", "cleaning"}
        BY <2>1, <2>5, <4>3 DEF CommandInv, RequestInv
      <4>4. QED BY <4>1, <4>2, <4>3
    <3>3. QED BY <3>1, <3>2
  <2>6. QED BY <2>4, <2>5
<1>2. QED BY <1>1, BatchInvariant, PTL

\* As long as no script has been cut off by the time limit, every connection that goes back
\* to its pool has no open transaction and enforces foreign keys.
THEOREM IdleHolds == Spec => []IdleIsCleanUnlessTimedOut
<1>1. CleanlinessInv => IdleIsCleanUnlessTimedOut
  <2> SUFFICES ASSUME CleanlinessInv,
                      ~\E c \in Command : cmd[c].result = "timeout" /\ ~cmd[c].req.transactional
               PROVE  IdleIsClean
    BY DEF IdleIsCleanUnlessTimedOut
  <2>1. NoCutOff
    BY DEF NoCutOff, RequestOf
  <2>2. QED BY <2>1 DEF CleanlinessInv, IdleIsClean
<1>2. QED BY <1>1, BatchInvariant, PTL
=============================================================================
