---------------------------- MODULE MysqlWorkspace ----------------------------
(***************************************************************************)
(* The MySQL workspace: MysqlProviderService (the draft, the attempts to   *)
(* connect, the session), MysqlWorkspaceStore (schemas, the table in the   *)
(* grid, the query tab, sample data) and the connections the adapter keeps.*)
(*                                                                         *)
(* The store is one record, w, and its methods are operators from stores   *)
(* to stores: what a method does up to its first await, or behind one.     *)
(* A load carries whether its request id is still the newest (`latest`),   *)
(* on whose behalf it was sent (`by`) and what goes on when it is answered. *)
(* The user has a password for every profile.                              *)
(***************************************************************************)
EXTENDS Naturals, Sequences, FiniteSets

CONSTANTS
  Conns,                                  (* connection profiles                      *)
  Schemas, TableNames, DefaultTable,      (* every schema has tables of these names   *)
  Filters, Queries,                       (* texts typed by the user                  *)
  Pages,                                  (* pages of rows a table has                *)
  NoDraft, NoSession, NoSchema, NoTable, NoFilter, NoResult, NoSeeding,     (* nulls  *)
  MaxActs, MaxSessions, MaxAttempts, MaxLoads                              (* bounds  *)

VARIABLES
  draft,      (* workspaceDraft: the profile and the table a session wants back       *)
  session,    (* the provider's connectionSession                                     *)
  clients,    (* the adapter's clients: connections that are open                     *)
  attempts,   (* calls of connectWorkspaceDraft under way                             *)
  isLoading,  (* of the host                                                          *)
  open,       (* the host shows the MySQL workspace                                   *)
  w,          (* the MysqlWorkspaceStore                                              *)
  applying,   (* isApplying of the EditStore                                          *)
  seeding,    (* the call of loadSampleData under way                                 *)
  acts,       (* what the user has done so far: MaxActs at most                       *)
  sessions,   (* sessions made so far: MaxSessions at most                            *)
  astray      (* history: an attempt went on after the user left or started another   *)

vars == <<draft, session, clients, attempts, isLoading, open, w, applying, seeding, acts,
          sessions, astray>>
providerVars == <<draft, session, clients, attempts, isLoading, open, sessions, astray>>

Places   == [schema : Schemas, table : TableNames]
Session  == [n : 1 .. MaxSessions, conn : Conns]
Slots    == 1 .. MaxAttempts
User     == 0                            (* calls nothing waits for *)
Sample   == MaxAttempts + 1
Callers  == {User, Sample} \cup Slots
FilterOf == Filters \cup {NoFilter}
View     == [session : Session, place : Places, filter : FilterOf]

ASSUME MysqlAssumption ==
  /\ DefaultTable \in TableNames
  /\ NoSchema \notin Schemas /\ NoTable \notin Places /\ NoFilter \notin Filters
  /\ NoSession \notin Session /\ NoSeeding \notin [schema : Schemas, seeded : BOOLEAN]
  /\ {Pages, MaxActs, MaxSessions, MaxAttempts, MaxLoads} \subseteq Nat

(***************************************************************************)
(* MysqlWorkspaceStore                                                     *)
(***************************************************************************)
EmptyStore ==
  [session |-> NoSession, schema |-> NoSchema, table |-> NoTable,
   rows |-> <<>>, total |-> 0, offset |-> 0, filter |-> NoFilter,
   schemaLoads |-> {}, rowLoads |-> {}, queries |-> {}, result |-> NoResult,
   isLoadingTables |-> FALSE, isLoadingRows |-> FALSE, isRunningQuery |-> FALSE,
   isSeeding |-> FALSE,
   edits |-> {},             \* the EditStore: the tables that were selected when the edits were staged
   \* history
   query |-> NoResult,       \* the query run last
   failed |-> FALSE,         \* the last load of a first page has failed
   dragged |-> FALSE,        \* a table was selected after a wait, while edits were staged
   misled |-> FALSE]         \* a table was selected although its schema had not been

AllLatest(loads) == loads
Outdated(loads) == {[l EXCEPT !.latest = FALSE] : l \in loads}

Connected(s) == s # NoSession /\ s.conn \in clients

\* selectSchema up to its await.
SelectSchema(s, schema, by, then) ==
  IF s.session = NoSession THEN s
  ELSE [s EXCEPT !.isLoadingTables = TRUE,
                 !.schemaLoads = Outdated(@) \cup
                   {[session |-> s.session, schema |-> schema, by |-> by, then |-> then,
                     latest |-> TRUE, sent |-> Connected(s.session)]}]

ViewOf(s) == [session |-> s.session, place |-> s.table, filter |-> s.filter]

LoadTableRows(s, reset, by) ==
  IF s.session = NoSession \/ s.table = NoTable THEN s
  ELSE [s EXCEPT !.isLoadingRows = TRUE,
                 !.rowLoads = Outdated(@) \cup
                   {[view |-> ViewOf(s), offset |-> IF reset THEN 0 ELSE s.offset, by |-> by,
                     reset |-> reset, latest |-> TRUE, sent |-> Connected(s.session)]}]

KeepEdits(s) == s
ClearAll(s) == [s EXCEPT !.edits = {}, !.dragged = FALSE]

\* selectTable behind its wait for the schema.
TableSelected(s, place, by) ==
  LoadTableRows([s EXCEPT !.table = place, !.filter = NoFilter,
                          !.misled = @ \/ s.schema # place.schema], TRUE, by)

SelectTable(s, place, by) ==
  LET left == [s EXCEPT !.rowLoads = Outdated(@)]
      s1   == IF s.table # place THEN ClearAll(left) ELSE left
  IN  IF s.schema # place.schema /\ s.session # NoSession
      THEN SelectSchema(s1, place.schema, by, place)
      ELSE TableSelected(s1, place, by)

KeepTable(s) == s
NoSelection(s) ==
  [s EXCEPT !.table = NoTable, !.rows = <<>>, !.total = 0, !.filter = NoFilter]

\* selectSchema behind its await: only the newest answer of this session counts.
SchemaReply(s, l, ok) ==
  LET current == l.latest /\ l.session = s.session
      s1 == IF ~current \/ ~ok THEN s
            ELSE IF s.table # NoTable /\ s.table.schema = l.schema
                 THEN [s EXCEPT !.schema = l.schema]
                 ELSE NoSelection([s EXCEPT !.schema = l.schema])
  IN  [s1 EXCEPT !.schemaLoads = @ \ {l},
                 !.isLoadingTables = @ /\ ~l.latest]

AnyOfTheSession(s, l) == l.view.session = s.session
IsCurrent(s, l) == l.latest /\ l.view.session = s.session /\ l.view.place = s.table

OnlyIfCurrent(s, l) == IsCurrent(s, l)
EndsTheSpinner(s, l) == l.latest

\* loadTableRows behind its await.
RowsReply(s, l, ok) ==
  LET page == IF l.offset < Pages THEN <<[view |-> l.view, page |-> l.offset + 1]>> ELSE <<>>
      s1 == IF IsCurrent(s, l) /\ ok
            THEN [s EXCEPT !.rows = IF l.reset THEN page ELSE @ \o page,
                           !.total = Pages,
                           !.offset = l.offset + Len(page),
                           !.failed = @ /\ ~l.reset]
            ELSE [s EXCEPT !.failed = @ \/ (IsCurrent(s, l) /\ l.reset)]
  IN  [s1 EXCEPT !.rowLoads = @ \ {l},
                 !.isLoadingRows = @ /\ ~EndsTheSpinner(s, l)]

\* openWorkspace up to its await.
OpenWorkspace(s, sn, schema, by) ==
  SelectSchema(
    ClearAll([s EXCEPT !.session = sn,
                       !.schemaLoads = Outdated(@), !.rowLoads = Outdated(@),
                       !.queries = Outdated(@), !.result = NoResult, !.query = NoResult,
                       !.isLoadingTables = FALSE, !.isLoadingRows = FALSE,
                       !.isRunningQuery = FALSE, !.isSeeding = FALSE]),
    schema, by, NoTable)

\* ... and behind it.
OpenContinues(s, target, by) ==
  IF target = NoTable THEN NoSelection(s) ELSE SelectTable(s, target, by)

Clear(s) ==
  [EmptyStore EXCEPT !.schemaLoads = Outdated(s.schemaLoads),
                     !.rowLoads = Outdated(s.rowLoads), !.queries = Outdated(s.queries)]

\* loadSampleData once its schema has been read again.
Sampled(s, schema) ==
  IF s.table # NoTable THEN SelectTable(s, s.table, Sample)
  ELSE IF s.schema = NoSchema THEN s
       ELSE SelectTable(s, [schema |-> schema, table |-> DefaultTable], Sample)

Waits(s, by) == \E l \in s.schemaLoads \cup s.rowLoads : l.by = by

HasRoom(s) == Cardinality(s.schemaLoads) <= MaxLoads /\ Cardinality(s.rowLoads) <= MaxLoads

(***************************************************************************)
(* MysqlProviderService                                                    *)
(***************************************************************************)
FreeSlots == {n \in Slots : \A a \in attempts : a.slot # n}

ForgetNothing(sn) == {}
ConnectionOf(sn) == IF sn = NoSession THEN {} ELSE {sn.conn}

Attempt(c) ==
  /\ FreeSlots # {}
  /\ sessions + Cardinality({a \in attempts : a.stage = "connecting"}) < MaxSessions
  /\ attempts' = attempts \cup
       {[slot |-> CHOOSE n \in FreeSlots : TRUE, conn |-> c, stage |-> "connecting",
         session |-> NoSession, target |-> NoTable]}
  /\ clients' = clients \ ConnectionOf(session)
  /\ session' = NoSession
  /\ isLoading' = TRUE
  /\ astray' = (astray \/ attempts # {})

\* selectProfile and saveDraft, on the welcome page.
SelectProfile(c) ==
  /\ ~open
  /\ draft' = [conn |-> c, table |-> NoTable]
  /\ UNCHANGED <<session, clients, attempts, isLoading, open, w, applying, seeding, sessions, astray>>

\* The buttons "Test MySQL connection" and "Reconnect".
ConnectWorkspaceDraft ==
  /\ draft # NoDraft /\ ~isLoading
  /\ Attempt(draft.conn)
  /\ UNCHANGED <<draft, open, w, applying, seeding, sessions>>

\* A recent item does not look at isLoading.
OpenRecentItem(c) ==
  /\ ~open
  /\ draft' = [conn |-> c, table |-> NoTable]
  /\ Attempt(c)
  /\ UNCHANGED <<open, w, applying, seeding, sessions>>

Replaced(a, b) == attempts' = (attempts \ {a}) \cup {b}
Ends(a) == attempts' = attempts \ {a} /\ isLoading' = FALSE

Connects(a, ok) ==
  /\ a.stage = "connecting"
  /\ IF ok
     THEN LET sn == [n |-> sessions + 1, conn |-> a.conn]
          IN  /\ sessions' = sessions + 1
              /\ clients' = clients \cup {a.conn}
              /\ session' = sn
              /\ Replaced(a, [a EXCEPT !.stage = "listing", !.session = sn])
              /\ UNCHANGED isLoading
     ELSE Ends(a) /\ UNCHANGED <<sessions, clients, session>>
  /\ UNCHANGED <<draft, open, w, applying, seeding, astray>>

\* The schemas are listed, or the default database stands in for them; or neither.
SchemasListed(a, schema, ok) ==
  /\ a.stage = "listing"
  /\ LET target == IF draft = NoDraft THEN NoTable ELSE draft.table
     IN  IF ok
         THEN /\ target # NoTable => schema = target.schema
              /\ w' = OpenWorkspace(w, a.session, schema, a.slot)
              /\ Replaced(a, [a EXCEPT !.stage = "opening", !.target = target])
              /\ UNCHANGED isLoading
         ELSE Ends(a) /\ UNCHANGED w
  /\ UNCHANGED <<draft, session, clients, open, applying, seeding, sessions, astray>>

\* What has waited for a reply ends when it waits for no further one.
GoesOn(s, by) ==
  LET ended == by \in Slots /\ ~Waits(s, by)
      sampled == by = Sample /\ ~Waits(s, by)
  IN  /\ w' = [s EXCEPT !.isSeeding = @ /\ ~sampled]
      /\ seeding' = IF sampled THEN NoSeeding ELSE seeding
      /\ attempts' = IF ended THEN {a \in attempts : a.slot # by} ELSE attempts
      /\ isLoading' = (isLoading /\ ~ended)
      /\ open' = (open \/ ended)

\* selectSchema is answered, and its caller goes on.
SchemaArrives(l, ok) ==
  /\ ok => l.sent
  /\ LET s == SchemaReply(w, l, ok)
     IN  GoesOn(CASE l.then # NoTable ->
                       TableSelected([s EXCEPT !.dragged = @ \/ s.edits # {}], l.then, l.by)
                  [] l.then = NoTable /\ l.by = User -> s
                  [] l.then = NoTable /\ l.by = Sample -> Sampled(s, seeding.schema)
                  [] OTHER -> OpenContinues(s, (CHOOSE a \in attempts : a.slot = l.by).target, l.by),
                l.by)
  /\ UNCHANGED <<draft, session, clients, applying, sessions, astray>>

RowsArrive(l, ok) ==
  /\ ok => l.sent
  /\ GoesOn(RowsReply(w, l, ok), l.by)
  /\ UNCHANGED <<draft, session, clients, applying, sessions, astray>>

\* clearWorkspaceDraft, from the welcome page or the sidebar's "Home".
ClearWorkspaceDraft ==
  /\ clients' = clients \ ConnectionOf(session)
  /\ draft' = NoDraft /\ session' = NoSession
  /\ w' = Clear(w)
  /\ open' = FALSE
  /\ astray' = (astray \/ attempts # {})
  /\ UNCHANGED <<attempts, isLoading, applying, seeding, sessions>>

RemoveProfile(c) ==
  /\ ~open
  /\ clients' = clients \ {c}
  /\ draft' = IF draft # NoDraft /\ draft.conn = c THEN NoDraft ELSE draft
  /\ IF ConnectionOf(session) = {c} THEN session' = NoSession /\ w' = Clear(w)
                                    ELSE UNCHANGED <<session, w>>
  /\ astray' = (astray \/ attempts # {})
  /\ UNCHANGED <<attempts, isLoading, open, applying, seeding, sessions>>

(***************************************************************************)
(* The workspace page                                                      *)
(***************************************************************************)
OnPage == open /\ UNCHANGED providerVars

ChooseSchema(schema) ==
  /\ OnPage
  /\ w' = SelectSchema(w, schema, User, NoTable)
  /\ HasRoom(w')
  /\ UNCHANGED <<applying, seeding>>

\* The sidebar lists the tables of the selected schema.
ChooseTable(t) ==
  /\ OnPage /\ w.schema # NoSchema
  /\ w' = SelectTable(w, [schema |-> w.schema, table |-> t], User)
  /\ HasRoom(w')
  /\ UNCHANGED <<applying, seeding>>

\* The button waits for the rows under way; Enter in the filter's input does not.
ApplyBrowseOptions(f) ==
  /\ OnPage /\ w.table # NoTable
  /\ w' = LoadTableRows([w EXCEPT !.filter = f], TRUE, User)
  /\ HasRoom(w')
  /\ UNCHANGED <<applying, seeding>>

LoadMoreRows ==
  /\ OnPage /\ w.table # NoTable /\ ~w.isLoadingRows
  /\ Len(w.rows) < w.total
  /\ w' = LoadTableRows(w, FALSE, User)
  /\ HasRoom(w')
  /\ UNCHANGED <<applying, seeding>>

RunQuery(text) ==
  /\ OnPage /\ w.session # NoSession /\ ~w.isRunningQuery
  /\ Cardinality(w.queries) < MaxLoads
  /\ LET q == [session |-> w.session, text |-> text]
     IN  w' = [w EXCEPT !.isRunningQuery = TRUE, !.result = NoResult, !.query = q,
                        !.queries = Outdated(@) \cup
                          {[of |-> q, latest |-> TRUE, sent |-> Connected(w.session)]}]
  /\ UNCHANGED <<applying, seeding>>

AnyQuery(q) == TRUE
NewestQuery(q) == q.latest /\ q.of.session = w.session

QueryArrives(q, ok) ==
  /\ ok => q.sent
  /\ w' = [w EXCEPT !.queries = @ \ {q},
                    !.result = IF ok /\ NewestQuery(q) THEN q.of ELSE @,
                    !.isRunningQuery = @ /\ ~q.latest]
  /\ UNCHANGED <<providerVars, applying, seeding>>

\* An edit is staged on a row the grid shows, under the table that is selected.
StageEdit ==
  /\ OnPage /\ w.table # NoTable /\ w.rows # <<>>
  /\ w' = [w EXCEPT !.edits = @ \cup {w.table}]
  /\ UNCHANGED <<applying, seeding>>

ApplyPendingEdits ==
  /\ OnPage /\ w.session # NoSession /\ w.table # NoTable /\ w.edits # {} /\ ~applying
  /\ applying' = TRUE
  /\ UNCHANGED <<w, seeding>>

EditsApplied(ok) ==
  /\ applying
  /\ applying' = FALSE
  /\ w' = IF ok THEN LoadTableRows(ClearAll(w), TRUE, User) ELSE w
  /\ UNCHANGED <<providerVars, seeding>>

LoadSampleData ==
  /\ OnPage /\ ~w.isSeeding /\ seeding = NoSeeding
  /\ w.session # NoSession /\ w.schema # NoSchema
  /\ seeding' = [schema |-> w.schema, seeded |-> FALSE]
  /\ w' = [w EXCEPT !.isSeeding = TRUE]
  /\ UNCHANGED applying

\* The schema is read again with the session there is by now.
SampleSeeded(ok) ==
  /\ seeding # NoSeeding /\ ~seeding.seeded
  /\ IF ok
     THEN /\ w' = IF w.session # NoSession
                  THEN SelectSchema(w, seeding.schema, Sample, NoTable)
                  ELSE [Sampled(w, seeding.schema) EXCEPT !.isSeeding = FALSE]
          /\ seeding' = IF w.session # NoSession THEN [seeding EXCEPT !.seeded = TRUE] ELSE NoSeeding
     ELSE w' = [w EXCEPT !.isSeeding = FALSE] /\ seeding' = NoSeeding
  /\ UNCHANGED <<providerVars, applying>>

(***************************************************************************)
(* Specification                                                           *)
(***************************************************************************)
Init ==
  \* A restored session has left its draft.
  /\ draft \in {NoDraft} \cup [conn : Conns, table : Places]
  /\ session = NoSession /\ clients = {} /\ attempts = {}
  /\ isLoading = FALSE /\ open = FALSE
  /\ w = EmptyStore
  /\ applying = FALSE /\ seeding = NoSeeding
  /\ acts = 0 /\ sessions = 0 /\ astray = FALSE

Replies ==
  \/ \E a \in attempts, ok \in BOOLEAN : Connects(a, ok)
  \/ \E a \in attempts, schema \in Schemas, ok \in BOOLEAN : SchemasListed(a, schema, ok)
  \/ \E l \in w.schemaLoads, ok \in BOOLEAN : SchemaArrives(l, ok)
  \/ \E l \in w.rowLoads, ok \in BOOLEAN : RowsArrive(l, ok)
  \/ \E q \in w.queries, ok \in BOOLEAN : QueryArrives(q, ok)
  \/ \E ok \in BOOLEAN : EditsApplied(ok) \/ SampleSeeded(ok)

UserActs ==
  \/ \E c \in Conns : SelectProfile(c) \/ OpenRecentItem(c) \/ RemoveProfile(c)
  \/ ConnectWorkspaceDraft
  \/ ClearWorkspaceDraft
  \/ \E schema \in Schemas : ChooseSchema(schema)
  \/ \E t \in TableNames : ChooseTable(t)
  \/ \E f \in FilterOf : ApplyBrowseOptions(f)
  \/ LoadMoreRows
  \/ \E text \in Queries : RunQuery(text)
  \/ StageEdit \/ ApplyPendingEdits
  \/ LoadSampleData

Next ==
  \/ UserActs /\ acts < MaxActs /\ acts' = acts + 1
  \/ Replies /\ UNCHANGED acts

Spec == Init /\ [][Next]_vars

\* Users may stop at any time; every call of the native layer ends, at the latest with
\* its time limit.
FairSpec == Spec /\ WF_vars(Replies /\ UNCHANGED acts)

(***************************************************************************)
(* Properties                                                              *)
(***************************************************************************)
\* The types, and at most one load of each kind is the newest: the three request ids of
\* the store tell every older answer from the one awaited.
TypeOK ==
  /\ draft \in {NoDraft} \cup [conn : Conns, table : Places \cup {NoTable}]
  /\ session \in Session \cup {NoSession} /\ clients \subseteq Conns
  /\ attempts \subseteq [slot : Slots, conn : Conns, stage : {"connecting", "listing", "opening"},
                         session : Session \cup {NoSession}, target : Places \cup {NoTable}]
  /\ {isLoading, open, applying, astray} \subseteq BOOLEAN
  /\ acts \in 0 .. MaxActs /\ sessions \in 0 .. MaxSessions
  /\ seeding \in {NoSeeding} \cup [schema : Schemas, seeded : BOOLEAN]
  /\ w.session \in Session \cup {NoSession} /\ w.schema \in Schemas \cup {NoSchema}
  /\ w.table \in Places \cup {NoTable} /\ w.filter \in FilterOf
  /\ w.rows \in Seq([view : View, page : 1 .. Pages])
  /\ w.total \in 0 .. Pages /\ w.offset \in 0 .. Pages
  /\ w.edits \subseteq Places
  /\ \A loads \in {w.schemaLoads, w.rowLoads, w.queries} :
       Cardinality({l \in loads : l.latest}) <= 1
  /\ \A l \in w.schemaLoads : l.by \in Callers /\ l.then \in Places \cup {NoTable}
  /\ \A l \in w.rowLoads : l.by \in Callers /\ l.view \in View

Opening == \E a \in attempts : a.stage = "opening"

\* Whatever order the answers come in, a grid that is not loading shows pages 1, 2, ... of
\* the table, the filter and the session that are selected, none twice and none left out,
\* and the next page to ask for is the one behind them. (Not after a load that failed: the
\* rows of the table before it stay on show, as they do while a workspace is opened.)
RowsAreOfTheView ==
  ~Opening /\ ~w.isLoadingRows /\ ~w.failed /\ w.session # NoSession /\ w.table # NoTable
    => /\ w.offset = Len(w.rows)
       /\ \A n \in DOMAIN w.rows : w.rows[n] = [view |-> ViewOf(w), page |-> n]

\* The table in the grid is one of the schema in the sidebar, unless it was selected after
\* its schema could not be listed or another schema was asked for.
SelectionIsConsistent ==
  ~w.misled /\ w.table # NoTable => w.table.schema = w.schema

\* Pending edits are applied to the table that is selected then: it is the table they were
\* staged under, unless selectTable went on behind a wait during which they were staged.
EditsAreOfTheSelection ==
  ~w.dragged /\ w.table # NoTable => w.edits \subseteq {w.table}

\* A workspace on screen has a session, and every open connection is the provider's
\* session's or that of an attempt under way: none is left behind.
ConnectionsHaveTheirUse ==
  ~astray => /\ open => w.session # NoSession
             /\ clients \subseteq ConnectionOf(session) \cup {a.conn : a \in attempts}

\* The result on show is the one of the query run last in this session.
NewestQueryWins ==
  w.result # NoResult => w.result = w.query /\ w.result.session = w.session

\* Every spinner stops once the user waits: a load that was overtaken leaves it to the
\* newer one, which ends.
EventuallyIdle ==
  []<>(~w.isLoadingTables /\ ~w.isLoadingRows /\ ~w.isRunningQuery /\ ~w.isSeeding /\ ~isLoading)
=============================================================================
