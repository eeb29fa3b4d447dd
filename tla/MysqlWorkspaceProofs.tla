------------------------- MODULE MysqlWorkspaceProofs -------------------------
(***************************************************************************)
(* What MysqlWorkspace keeps for any profiles, schemas, tables, texts and  *)
(* bounds.                                                                 *)
(*                                                                         *)
(* StoreInv is what every method of the store keeps; a method that is only *)
(* half done keeps its parts Sound, Viewed, SelOk and EditsOk.  The grid   *)
(* (RowsInv) is left aside while openWorkspace waits for its schema        *)
(* (Stale): the session is the new one then and the rows are the old one's.*)
(* SlotInv ties a load to the attempt that waits for it, AttemptInv says   *)
(* what one attempt at a time owns.                                        *)
(***************************************************************************)
EXTENDS MysqlWorkspace, FiniteSetTheorems, SequenceTheorems, TLAPS

SchemaLoad == [session : Session, schema : Schemas, by : Callers, then : Places \cup {NoTable},
               latest : BOOLEAN, sent : BOOLEAN]
RowLoad    == [view : View, offset : 0 .. Pages, by : Callers, reset : BOOLEAN,
               latest : BOOLEAN, sent : BOOLEAN]
QueryText  == [session : Session, text : Queries]
QueryLoad  == [of : QueryText, latest : BOOLEAN, sent : BOOLEAN]
PageShown  == [view : View, page : 1 .. Pages]

Store ==
  [session : Session \cup {NoSession}, schema : Schemas \cup {NoSchema},
   table : Places \cup {NoTable}, rows : Seq(PageShown), total : 0 .. Pages,
   offset : 0 .. Pages, filter : FilterOf,
   schemaLoads : SUBSET SchemaLoad, rowLoads : SUBSET RowLoad, queries : SUBSET QueryLoad,
   result : QueryText \cup {NoResult},
   isLoadingTables : BOOLEAN, isLoadingRows : BOOLEAN, isRunningQuery : BOOLEAN,
   isSeeding : BOOLEAN, edits : SUBSET Places,
   query : QueryText \cup {NoResult},
   failed : BOOLEAN, dragged : BOOLEAN, misled : BOOLEAN]

AtMostOne(loads) == \A l, m \in loads : l.latest /\ m.latest => l = m

\* The newest load of rows has its spinner and is of this session, the newest query is the
\* one run last.
NewestRows(s) ==
  \A l \in s.rowLoads : l.latest => s.isLoadingRows /\ l.view.session = s.session
NewestOfQueries(s) ==
  /\ \A q \in s.queries : q.latest => q.of = s.query
  /\ s.result # NoResult => s.result = s.query /\ s.result.session = s.session

Sound(s) ==
  /\ s \in Store
  /\ AtMostOne(s.schemaLoads) /\ AtMostOne(s.rowLoads) /\ AtMostOne(s.queries)
  /\ NewestRows(s) /\ NewestOfQueries(s)

Viewed(s) == \A l \in s.rowLoads : l.latest /\ s.table # NoTable => l.view = ViewOf(s)

SelOk(s)   == ~s.misled /\ s.table # NoTable => s.table.schema = s.schema
EditsOk(s) == ~s.dragged /\ s.table # NoTable => s.edits \subseteq {s.table}

Stale(s) == \E l \in s.schemaLoads : l.by \in Slots
RowsOk(s) ==
  /\ s.offset = Len(s.rows)
  /\ \A n \in DOMAIN s.rows : s.rows[n] = [view |-> ViewOf(s), page |-> n]
RowsInv(s) ==
  ~Stale(s) /\ s.session # NoSession /\ s.table # NoTable =>
    /\ ~s.isLoadingRows /\ ~s.failed => RowsOk(s)
    /\ \A l \in s.rowLoads : l.latest =>
         IF l.reset THEN l.offset = 0 ELSE l.offset = s.offset /\ (~s.failed => RowsOk(s))

Half(s)     == Sound(s) /\ Viewed(s) /\ SelOk(s) /\ EditsOk(s)
StoreInv(s) == Half(s) /\ RowsInv(s)

\* Who waits for a load, and what a method called by `by` may add to that.
By(s) == {l.by : l \in s.schemaLoads \cup s.rowLoads}
Grows(s, t, by) ==
  /\ t.session = s.session
  /\ By(t) \subseteq By(s) \cup {by}
  /\ s.session = NoSession => By(t) \subseteq By(s)

(***************************************************************************)
(* The store's methods                                                     *)
(***************************************************************************)
\* A load that is overtaken keeps everything but its place as the newest.
LEMMA OutdatedSchemaLoads ==
  ASSUME NEW loads \in SUBSET SchemaLoad
  PROVE  /\ Outdated(loads) \in SUBSET SchemaLoad
         /\ \A l \in Outdated(loads) : ~l.latest
         /\ {l.by : l \in Outdated(loads)} = {l.by : l \in loads}
<1>1. \A l \in loads : [l EXCEPT !.latest = FALSE] \in SchemaLoad
                       /\ [l EXCEPT !.latest = FALSE].by = l.by
                       /\ ~[l EXCEPT !.latest = FALSE].latest
  BY DEF SchemaLoad
<1>2. {l.by : l \in Outdated(loads)} = {l.by : l \in loads}
  BY <1>1 DEF Outdated
<1> QED BY <1>1, <1>2 DEF Outdated

LEMMA OutdatedRowLoads ==
  ASSUME NEW loads \in SUBSET RowLoad
  PROVE  /\ Outdated(loads) \in SUBSET RowLoad
         /\ \A l \in Outdated(loads) : ~l.latest
         /\ {l.by : l \in Outdated(loads)} = {l.by : l \in loads}
<1>1. \A l \in loads : [l EXCEPT !.latest = FALSE] \in RowLoad
                       /\ [l EXCEPT !.latest = FALSE].by = l.by
                       /\ ~[l EXCEPT !.latest = FALSE].latest
  BY DEF RowLoad
<1>2. {l.by : l \in Outdated(loads)} = {l.by : l \in loads}
  BY <1>1 DEF Outdated
<1> QED BY <1>1, <1>2 DEF Outdated

LEMMA OutdatedQueries ==
  ASSUME NEW loads \in SUBSET QueryLoad
  PROVE  /\ Outdated(loads) \in SUBSET QueryLoad
         /\ \A l \in Outdated(loads) : ~l.latest
BY DEF Outdated, QueryLoad

LEMMA ByFacts ==
  ASSUME NEW s
  PROVE  By(s) = {l.by : l \in s.schemaLoads} \cup {l.by : l \in s.rowLoads}
BY DEF By

\* A session that is there.
LEMMA ViewFacts ==
  ASSUME NEW s \in Store, s.session # NoSession, s.table # NoTable
  PROVE  ViewOf(s) \in View
BY DEF ViewOf, View, Store

LEMMA LoadTableRowsFacts ==
  ASSUME NEW s, Sound(s), NEW reset \in BOOLEAN, NEW by \in Callers, MysqlAssumption
  PROVE  LET t == LoadTableRows(s, reset, by)
         IN  /\ Sound(t) /\ Viewed(t)
             /\ SelOk(s) => SelOk(t)
             /\ EditsOk(s) => EditsOk(t)
             /\ Grows(s, t, by)
             /\ reset \/ (RowsInv(s) /\ ~s.isLoadingRows) => RowsInv(t)
<1> DEFINE t == LoadTableRows(s, reset, by)
<1>s. s \in Store
  BY DEF Sound
<1>1. CASE s.session = NoSession \/ s.table = NoTable
  <2>1. t = s
    BY <1>1 DEF LoadTableRows
  <2>2. Viewed(s)
    BY <1>1, <1>s DEF Viewed, Sound, NewestRows, Store, RowLoad, View, MysqlAssumption
  <2>3. RowsInv(s)
    BY <1>1 DEF RowsInv
  <2> QED BY <2>1, <2>2, <2>3 DEF Grows
<1>2. CASE s.session # NoSession /\ s.table # NoTable
  <2> DEFINE l == [view |-> ViewOf(s), offset |-> IF reset THEN 0 ELSE s.offset, by |-> by,
                   reset |-> reset, latest |-> TRUE, sent |-> Connected(s.session)]
  <2> DEFINE rest == Outdated(s.rowLoads)
  <2>1. t = [s EXCEPT !.isLoadingRows = TRUE, !.rowLoads = rest \cup {l}]
    BY <1>2 DEF LoadTableRows
  <2>2. l \in RowLoad
    <3>1. Connected(s.session) \in BOOLEAN
      BY DEF Connected
    <3>2. s.offset \in 0 .. Pages /\ 0 \in 0 .. Pages
      BY <1>s DEF Store, MysqlAssumption
    <3> QED BY <3>1, <3>2, <1>2, <1>s, ViewFacts DEF RowLoad
  <2>3. s.rowLoads \in SUBSET RowLoad
    BY <1>s DEF Store
  <2>4. /\ rest \in SUBSET RowLoad /\ \A k \in rest : ~k.latest
        /\ {k.by : k \in rest} = {k.by : k \in s.rowLoads}
    BY <2>3, OutdatedRowLoads
  <2>5. l.view = ViewOf(s) /\ l.latest /\ l.by = by /\ l.reset = reset /\ ViewOf(s).session = s.session
    BY DEF ViewOf
  <2>6. l.offset = IF reset THEN 0 ELSE s.offset
    OBVIOUS
  <2> HIDE DEF l, rest
  <2>7. /\ t \in Store
        /\ t.isLoadingRows /\ t.rowLoads = rest \cup {l}
        /\ t.session = s.session /\ t.table = s.table /\ t.filter = s.filter
        /\ t.schemaLoads = s.schemaLoads /\ t.queries = s.queries /\ t.schema = s.schema
        /\ t.rows = s.rows /\ t.offset = s.offset /\ t.result = s.result /\ t.query = s.query
        /\ t.edits = s.edits /\ t.dragged = s.dragged /\ t.misled = s.misled /\ t.failed = s.failed
    <3>1. rest \cup {l} \in SUBSET RowLoad
      BY <2>2, <2>4
    <3> QED BY <2>1, <3>1, <1>s DEF Store
  <2> HIDE DEF t
  <2>8. ViewOf(t) = ViewOf(s)
    BY <2>7 DEF ViewOf
  <2>9. Sound(t) /\ Viewed(t)
    BY <2>7, <2>8, <2>4, <2>5 DEF Sound, Viewed, AtMostOne, NewestRows, NewestOfQueries
  <2>10. Grows(s, t, by)
    BY <2>7, <2>4, <2>5, <1>2 DEF Grows, By
  <2>11. Stale(t) = Stale(s)
    BY <2>7 DEF Stale
  <2>12. RowsOk(t) = RowsOk(s)
    BY <2>7, <2>8 DEF RowsOk
  <2>13. reset \/ (RowsInv(s) /\ ~s.isLoadingRows) => RowsInv(t)
    BY <2>7, <2>11, <2>12, <2>4, <2>5, <2>6 DEF RowsInv
  <2> QED BY <2>7, <2>9, <2>10, <2>13 DEF SelOk, EditsOk, t
<1> QED BY <1>1, <1>2

LEMMA SelectSchemaFacts ==
  ASSUME NEW s, Sound(s), NEW schema \in Schemas, NEW by \in Callers,
         NEW then \in Places \cup {NoTable}
  PROVE  LET t == SelectSchema(s, schema, by, then)
         IN  /\ Sound(t)
             /\ Viewed(s) => Viewed(t)
             /\ SelOk(s) => SelOk(t)
             /\ EditsOk(s) => EditsOk(t)
             /\ RowsInv(s) \/ by \in Slots => RowsInv(t)
             /\ Grows(s, t, by)
<1> DEFINE t == SelectSchema(s, schema, by, then)
<1>s. s \in Store
  BY DEF Sound
<1>1. CASE s.session = NoSession
  <2>1. t = s
    BY <1>1 DEF SelectSchema
  <2> QED BY <2>1, <1>1 DEF Grows, RowsInv
<1>2. CASE s.session # NoSession
  <2> DEFINE l == [session |-> s.session, schema |-> schema, by |-> by, then |-> then,
                   latest |-> TRUE, sent |-> Connected(s.session)]
             rest == Outdated(s.schemaLoads)
  <2>1. t = [s EXCEPT !.isLoadingTables = TRUE, !.schemaLoads = rest \cup {l}]
    BY <1>2 DEF SelectSchema
  <2>2. l \in SchemaLoad
    <3>1. Connected(s.session) \in BOOLEAN
      BY DEF Connected
    <3> QED BY <3>1, <1>2, <1>s DEF SchemaLoad, Store
  <2>3. s.schemaLoads \in SUBSET SchemaLoad
    BY <1>s DEF Store
  <2>4. /\ rest \in SUBSET SchemaLoad /\ \A k \in rest : ~k.latest
        /\ {k.by : k \in rest} = {k.by : k \in s.schemaLoads}
    BY <2>3, OutdatedSchemaLoads
  <2>5. l.latest /\ l.by = by
    OBVIOUS
  <2> HIDE DEF l, rest
  <2>6. /\ t \in Store
        /\ t.schemaLoads = rest \cup {l} /\ t.rowLoads = s.rowLoads /\ t.queries = s.queries
        /\ t.session = s.session /\ t.table = s.table /\ t.filter = s.filter
        /\ t.schema = s.schema /\ t.isLoadingRows = s.isLoadingRows
        /\ t.rows = s.rows /\ t.offset = s.offset /\ t.result = s.result /\ t.query = s.query
        /\ t.edits = s.edits /\ t.dragged = s.dragged /\ t.misled = s.misled /\ t.failed = s.failed
    <3>1. rest \cup {l} \in SUBSET SchemaLoad
      BY <2>2, <2>4
    <3> QED BY <2>1, <3>1, <1>s DEF Store
  <2> HIDE DEF t
  <2>7. ViewOf(t) = ViewOf(s)
    BY <2>6 DEF ViewOf
  <2>8. Sound(t)
    BY <2>6, <2>4, <2>5 DEF Sound, AtMostOne, NewestRows, NewestOfQueries
  <2>9. Grows(s, t, by)
    BY <2>6, <2>4, <2>5, <1>2 DEF Grows, By
  <2>10. RowsOk(t) = RowsOk(s)
    BY <2>6, <2>7 DEF RowsOk
  <2>11. Stale(s) \/ by \in Slots => Stale(t)
    <3>1. CASE by \in Slots
      BY <3>1, <2>5, <2>6 DEF Stale
    <3>2. ASSUME NEW k \in s.schemaLoads, k.by \in Slots PROVE Stale(t)
      <4>1. k.by \in {x.by : x \in rest}
        BY <2>4
      <4> QED BY <4>1, <3>2, <2>6 DEF Stale
    <3> QED BY <3>1, <3>2 DEF Stale
  <2>12. RowsInv(s) \/ by \in Slots => RowsInv(t)
    BY <2>6, <2>10, <2>11 DEF RowsInv
  <2> QED BY <2>6, <2>7, <2>8, <2>9, <2>12 DEF SelOk, EditsOk, Viewed, t
<1> QED BY <1>1, <1>2

\* selectTable behind its wait settles the grid, whatever came before.
LEMMA TableSelectedFacts ==
  ASSUME NEW s, Sound(s), NEW place \in Places, NEW by \in Callers, MysqlAssumption,
         s.dragged \/ s.edits \subseteq {place}
  PROVE  LET t == TableSelected(s, place, by)
         IN  StoreInv(t) /\ Grows(s, t, by)
<1> DEFINE misled == s.misled \/ s.schema # place.schema
           u == [s EXCEPT !.table = place, !.filter = NoFilter, !.misled = misled]
           t == LoadTableRows(u, TRUE, by)
<1>s. s \in Store
  BY DEF Sound
<1>1. /\ u \in Store
      /\ u.schemaLoads = s.schemaLoads /\ u.rowLoads = s.rowLoads /\ u.queries = s.queries
      /\ u.session = s.session /\ u.table = place /\ u.schema = s.schema
      /\ u.isLoadingRows = s.isLoadingRows /\ u.result = s.result /\ u.query = s.query
      /\ u.edits = s.edits /\ u.dragged = s.dragged /\ u.misled = misled
  <2>1. misled \in BOOLEAN /\ NoFilter \in FilterOf
    BY <1>s DEF Store, FilterOf
  <2> HIDE DEF misled
  <2> QED BY <2>1, <1>s DEF Store
<1> HIDE DEF u
<1>2. Sound(u)
  BY <1>1 DEF Sound, AtMostOne, NewestRows, NewestOfQueries
<1>3. SelOk(u) /\ EditsOk(u)
  BY <1>1 DEF SelOk, EditsOk
<1>4. /\ Sound(t) /\ Viewed(t) /\ SelOk(t) /\ EditsOk(t) /\ RowsInv(t)
      /\ Grows(u, t, by)
  BY <1>2, <1>3, LoadTableRowsFacts
<1>5. Grows(s, t, by)
  BY <1>4, <1>1 DEF Grows, By
<1>6. TableSelected(s, place, by) = t
  BY DEF TableSelected, u
<1> HIDE DEF t
<1> QED BY <1>4, <1>5, <1>6 DEF StoreInv, Half

LEMMA ClearAllFacts ==
  ASSUME NEW s \in Store
  PROVE  /\ ClearAll(s) \in Store
         /\ ClearAll(s).edits = {} /\ ~ClearAll(s).dragged
         /\ Sound(s) => Sound(ClearAll(s))
         /\ Viewed(s) => Viewed(ClearAll(s))
         /\ SelOk(s) => SelOk(ClearAll(s))
         /\ EditsOk(ClearAll(s))
         /\ RowsInv(s) => RowsInv(ClearAll(s))
         /\ By(ClearAll(s)) = By(s)
         /\ ClearAll(s).session = s.session /\ ClearAll(s).schema = s.schema
         /\ ClearAll(s).table = s.table
<1> DEFINE t == ClearAll(s)
<1>1. /\ t \in Store /\ t.edits = {} /\ ~t.dragged
      /\ t.schemaLoads = s.schemaLoads /\ t.rowLoads = s.rowLoads /\ t.queries = s.queries
      /\ t.session = s.session /\ t.table = s.table /\ t.filter = s.filter
      /\ t.schema = s.schema /\ t.isLoadingRows = s.isLoadingRows
      /\ t.rows = s.rows /\ t.offset = s.offset /\ t.result = s.result /\ t.query = s.query
      /\ t.misled = s.misled /\ t.failed = s.failed
  BY DEF ClearAll, Store
<1> HIDE DEF t
<1>2. ViewOf(t) = ViewOf(s)
  BY <1>1 DEF ViewOf
<1>3. RowsOk(t) = RowsOk(s) /\ Stale(t) = Stale(s)
  BY <1>1, <1>2 DEF RowsOk, Stale
<1>4. RowsInv(s) => RowsInv(t)
  BY <1>1, <1>3 DEF RowsInv
<1>5. Sound(s) => Sound(t)
  BY <1>1 DEF Sound, NewestRows, NewestOfQueries
<1>6. Viewed(s) => Viewed(t)
  BY <1>1, <1>2 DEF Viewed
<1> QED BY <1>1, <1>4, <1>5, <1>6 DEF SelOk, EditsOk, By, t

\* ... and the whole of selectTable up to that wait keeps the invariant; called by an
\* attempt to connect it even restores it.
LEMMA SelectTableFacts ==
  ASSUME NEW s, Half(s), NEW place \in Places, NEW by \in Callers, MysqlAssumption,
         RowsInv(s) \/ by \in Slots
  PROVE  LET t == SelectTable(s, place, by)
         IN  StoreInv(t) /\ Grows(s, t, by)
<1> DEFINE rest == Outdated(s.rowLoads)
           left == [s EXCEPT !.rowLoads = rest]
           u == IF s.table # place THEN ClearAll(left) ELSE left
           t == SelectTable(s, place, by)
<1>s. s \in Store
  BY DEF Half, Sound
<1>1. /\ rest \in SUBSET RowLoad /\ \A k \in rest : ~k.latest
      /\ {k.by : k \in rest} = {k.by : k \in s.rowLoads}
  BY <1>s, OutdatedRowLoads DEF Store
<1> HIDE DEF rest
<1>2. /\ left \in Store /\ left.rowLoads = rest
      /\ left.schemaLoads = s.schemaLoads /\ left.queries = s.queries
      /\ left.session = s.session /\ left.table = s.table /\ left.filter = s.filter
      /\ left.schema = s.schema /\ left.isLoadingRows = s.isLoadingRows
      /\ left.rows = s.rows /\ left.offset = s.offset /\ left.result = s.result
      /\ left.query = s.query /\ left.edits = s.edits /\ left.dragged = s.dragged
      /\ left.misled = s.misled /\ left.failed = s.failed
  BY <1>1, <1>s DEF Store
<1> HIDE DEF left
<1>3. ViewOf(left) = ViewOf(s)
  BY <1>2 DEF ViewOf
<1>4. Sound(left) /\ Viewed(left) /\ SelOk(left) /\ EditsOk(left)
  BY <1>1, <1>2, <1>3 DEF Half, Sound, Viewed, SelOk, EditsOk, AtMostOne, NewestRows, NewestOfQueries
<1>5. RowsInv(s) => RowsInv(left)
  <2>1. RowsOk(left) = RowsOk(s) /\ Stale(left) = Stale(s)
    BY <1>2, <1>3 DEF RowsOk, Stale
  <2> QED BY <2>1, <1>1, <1>2 DEF RowsInv
<1>6. By(left) = By(s)
  BY <1>1, <1>2 DEF By
<1>7. /\ Sound(u) /\ Viewed(u) /\ SelOk(u) /\ EditsOk(u)
      /\ RowsInv(s) => RowsInv(u)
      /\ By(u) = By(s) /\ u.session = s.session
      /\ u.dragged \/ u.edits \subseteq {place}
  <2>1. CASE s.table # place
    BY <2>1, <1>2, <1>4, <1>5, <1>6, ClearAllFacts
  <2>2. CASE s.table = place
    <3>1. s.dragged \/ s.edits \subseteq {place}
      BY <2>2 DEF Half, EditsOk, MysqlAssumption
    <3> QED BY <3>1, <2>2, <1>2, <1>4, <1>5, <1>6
  <2> QED BY <2>1, <2>2
<1> HIDE DEF u
<1>8. ASSUME NEW x, x \in {TableSelected(u, place, by), SelectSchema(u, place.schema, by, place)},
             StoreInv(x), Grows(u, x, by)
      PROVE  StoreInv(x) /\ Grows(s, x, by)
  BY <1>8, <1>7 DEF Grows
<1>9. CASE s.schema # place.schema /\ s.session # NoSession
  <2>1. t = SelectSchema(u, place.schema, by, place)
    BY <1>9 DEF SelectTable, u, left, rest
  <2>2. place.schema \in Schemas
    BY DEF Places
  <2>3. StoreInv(t) /\ Grows(u, t, by)
    <3> DEFINE x == SelectSchema(u, place.schema, by, place)
    <3>1. /\ Sound(x) /\ Viewed(x) /\ SelOk(x) /\ EditsOk(x)
          /\ RowsInv(u) \/ by \in Slots => RowsInv(x)
          /\ Grows(u, x, by)
      BY <2>2, <1>7, SelectSchemaFacts
    <3> HIDE DEF x
    <3>2. t = x
      BY <2>1 DEF x
    <3> HIDE DEF t
    <3> QED BY <3>1, <3>2, <1>7 DEF StoreInv, Half
  <2> QED BY <2>1, <2>3, <1>8
<1>10. CASE ~(s.schema # place.schema /\ s.session # NoSession)
  <2>1. t = TableSelected(u, place, by)
    BY <1>10 DEF SelectTable, u, left, rest
  <2>2. StoreInv(t) /\ Grows(u, t, by)
    BY <2>1, <1>7, TableSelectedFacts
  <2> QED BY <2>1, <2>2, <1>8
<1> QED BY <1>9, <1>10

\* What is left of a selection.
LEMMA NoSelectionFacts ==
  ASSUME NEW s, Sound(s), EditsOk(s), MysqlAssumption
  PROVE  LET t == NoSelection(s)
         IN  StoreInv(t) /\ By(t) = By(s) /\ t.session = s.session
             /\ t.schemaLoads = s.schemaLoads
<1> DEFINE t == NoSelection(s)
<1>1. /\ t \in Store
      /\ t.schemaLoads = s.schemaLoads /\ t.rowLoads = s.rowLoads /\ t.queries = s.queries
      /\ t.session = s.session /\ t.table = NoTable /\ t.schema = s.schema
      /\ t.isLoadingRows = s.isLoadingRows /\ t.result = s.result /\ t.query = s.query
  <2>1. s \in Store
    BY DEF Sound
  <2>2. <<>> \in Seq(PageShown) /\ 0 \in 0 .. Pages /\ NoFilter \in FilterOf
    BY DEF MysqlAssumption, FilterOf
  <2> QED BY <2>1, <2>2 DEF NoSelection, Store
<1> HIDE DEF t
<1>2. Sound(t)
  BY <1>1 DEF Sound, NewestRows, NewestOfQueries
<1>3. Viewed(t) /\ SelOk(t) /\ EditsOk(t) /\ RowsInv(t)
  BY <1>1 DEF Viewed, SelOk, EditsOk, RowsInv
<1> QED BY <1>1, <1>2, <1>3 DEF StoreInv, Half, By, t

\* selectSchema's answer: the grid is settled unless openWorkspace waited for it.
LEMMA SchemaReplyFacts ==
  ASSUME NEW s, StoreInv(s), NEW l \in s.schemaLoads, NEW ok \in BOOLEAN, MysqlAssumption
  PROVE  LET t == SchemaReply(s, l, ok)
         IN  /\ Half(t)
             /\ l.by \notin Slots => RowsInv(t)
             /\ t.session = s.session
             /\ By(t) \subseteq By(s)
<1> DEFINE current == l.latest /\ l.session = s.session
           chosen  == [s EXCEPT !.schema = l.schema]
           u == IF ~current \/ ~ok THEN s
                ELSE IF s.table # NoTable /\ s.table.schema = l.schema THEN chosen
                     ELSE NoSelection(chosen)
           t == SchemaReply(s, l, ok)
<1>s. s \in Store /\ l \in SchemaLoad
  BY DEF StoreInv, Half, Sound, Store
<1>1. /\ chosen \in Store /\ chosen.schema = l.schema
      /\ chosen.schemaLoads = s.schemaLoads /\ chosen.rowLoads = s.rowLoads
      /\ chosen.queries = s.queries
      /\ chosen.session = s.session /\ chosen.table = s.table /\ chosen.filter = s.filter
      /\ chosen.isLoadingRows = s.isLoadingRows
      /\ chosen.rows = s.rows /\ chosen.offset = s.offset /\ chosen.result = s.result
      /\ chosen.query = s.query /\ chosen.edits = s.edits /\ chosen.dragged = s.dragged
      /\ chosen.misled = s.misled /\ chosen.failed = s.failed
  BY <1>s DEF Store, SchemaLoad
<1> HIDE DEF chosen
<1>2. ViewOf(chosen) = ViewOf(s)
  BY <1>1 DEF ViewOf
<1>3. Sound(chosen) /\ Viewed(chosen) /\ EditsOk(chosen) /\ RowsInv(chosen)
  <2>1. RowsOk(chosen) = RowsOk(s) /\ Stale(chosen) = Stale(s)
    BY <1>1, <1>2 DEF RowsOk, Stale
  <2>2. Sound(chosen)
    BY <1>1 DEF StoreInv, Half, Sound, NewestRows, NewestOfQueries
  <2>3. Viewed(chosen) /\ EditsOk(chosen)
    BY <1>1, <1>2 DEF StoreInv, Half, Viewed, EditsOk
  <2> QED BY <2>1, <2>2, <2>3, <1>1 DEF StoreInv, RowsInv
<1>4. /\ StoreInv(u) /\ By(u) = By(s) /\ u.session = s.session
      /\ u.schemaLoads = s.schemaLoads
  <2>1. CASE ~current \/ ~ok
    BY <2>1
  <2>2. CASE current /\ ok /\ s.table # NoTable /\ s.table.schema = l.schema
    <3>1. u = chosen
      BY <2>2
    <3>2. SelOk(chosen)
      BY <2>2, <1>1 DEF SelOk
    <3> QED BY <3>1, <3>2, <1>1, <1>3 DEF StoreInv, Half, By
  <2>3. CASE current /\ ok /\ ~(s.table # NoTable /\ s.table.schema = l.schema)
    <3>1. u = NoSelection(chosen)
      BY <2>3
    <3>2. StoreInv(NoSelection(chosen)) /\ By(NoSelection(chosen)) = By(chosen)
          /\ NoSelection(chosen).session = chosen.session
          /\ NoSelection(chosen).schemaLoads = chosen.schemaLoads
      BY <1>3, NoSelectionFacts
    <3> QED BY <3>1, <3>2, <1>1 DEF By
  <2> QED BY <2>1, <2>2, <2>3
<1>5. t = [u EXCEPT !.schemaLoads = @ \ {l}, !.isLoadingTables = @ /\ ~l.latest]
  BY DEF SchemaReply, chosen
<1> HIDE DEF u
<1>6. /\ t \in Store
      /\ t.schemaLoads = s.schemaLoads \ {l} /\ t.rowLoads = u.rowLoads
      /\ t.queries = u.queries
      /\ t.session = u.session /\ t.table = u.table /\ t.filter = u.filter
      /\ t.schema = u.schema /\ t.isLoadingRows = u.isLoadingRows
      /\ t.rows = u.rows /\ t.offset = u.offset /\ t.result = u.result
      /\ t.query = u.query /\ t.edits = u.edits /\ t.dragged = u.dragged
      /\ t.misled = u.misled /\ t.failed = u.failed
  <2>1. u \in Store
    BY <1>4 DEF StoreInv, Half, Sound
  <2>2. (u.isLoadingTables /\ ~l.latest) \in BOOLEAN
    OBVIOUS
  <2>3. u.schemaLoads \ {l} \in SUBSET SchemaLoad
    BY <2>1 DEF Store
  <2> QED BY <2>1, <2>2, <2>3, <1>4, <1>5 DEF Store
<1> HIDE DEF t
<1>7. ViewOf(t) = ViewOf(u)
  BY <1>6 DEF ViewOf
<1>8. Half(t)
  <2>1. AtMostOne(t.schemaLoads)
    BY <1>4, <1>6 DEF StoreInv, Half, Sound, AtMostOne
  <2>2. Sound(t)
    BY <2>1, <1>4, <1>6 DEF StoreInv, Half, Sound, NewestRows, NewestOfQueries
  <2> QED BY <2>2, <1>4, <1>6, <1>7 DEF StoreInv, Half, Viewed, SelOk, EditsOk
<1>9. l.by \notin Slots => RowsInv(t)
  <2>1. RowsOk(t) = RowsOk(u)
    BY <1>6, <1>7 DEF RowsOk
  <2>2. l.by \notin Slots => Stale(t) = Stale(u)
    BY <1>4, <1>6 DEF Stale
  <2> QED BY <2>1, <2>2, <1>4, <1>6 DEF StoreInv, RowsInv
<1>10. By(t) \subseteq By(s)
  BY <1>4, <1>6 DEF By
<1> QED BY <1>4, <1>6, <1>8, <1>9, <1>10 DEF t

\* What a further page adds to rows that are those of a view.
LEMMA PageAdded ==
  ASSUME NEW v \in View, NEW rows \in Seq(PageShown), NEW n \in 0 .. Pages, n < Pages,
         MysqlAssumption
  PROVE  LET p == [view |-> v, page |-> n + 1]
         IN  /\ <<p>> \in Seq(PageShown) /\ rows \o <<p>> \in Seq(PageShown)
             /\ Len(<<p>>) = 1 /\ Len(rows \o <<p>>) = Len(rows) + 1
             /\ \A i \in 1 .. Len(rows) : (rows \o <<p>>)[i] = rows[i]
             /\ (rows \o <<p>>)[Len(rows) + 1] = p
             /\ n + 1 \in 0 .. Pages
<1> DEFINE p == [view |-> v, page |-> n + 1]
<1>1. p \in PageShown /\ n + 1 \in 0 .. Pages
  BY DEF PageShown, MysqlAssumption
<1> HIDE DEF p
<1>2. <<p>> \in Seq(PageShown) /\ Len(<<p>>) = 1 /\ <<p>>[1] = p
  BY <1>1
<1>3. rows \o <<p>> \in Seq(PageShown) /\ Len(rows \o <<p>>) = Len(rows) + 1
  BY <1>1, <1>2, ConcatProperties
<1>4. /\ \A i \in 1 .. Len(rows) : (rows \o <<p>>)[i] = rows[i]
      /\ (rows \o <<p>>)[Len(rows) + 1] = p
  BY <1>1, <1>2, ConcatProperties
<1> QED BY <1>1, <1>2, <1>3, <1>4 DEF p

\* loadTableRows' answer.
LEMMA RowsReplyFacts ==
  ASSUME NEW s, StoreInv(s), NEW l \in s.rowLoads, NEW ok \in BOOLEAN, MysqlAssumption
  PROVE  LET t == RowsReply(s, l, ok)
         IN  /\ StoreInv(t)
             /\ t.session = s.session
             /\ t.schemaLoads = s.schemaLoads
             /\ By(t) \subseteq By(s)
<1> DEFINE page == IF l.offset < Pages THEN <<[view |-> l.view, page |-> l.offset + 1]>> ELSE <<>>
           rows == IF l.reset THEN page ELSE s.rows \o page
           taken == IsCurrent(s, l) /\ ok
           t == RowsReply(s, l, ok)
<1>s. s \in Store /\ l \in RowLoad
  BY DEF StoreInv, Half, Sound, Store
<1>l. /\ l.view \in View /\ l.offset \in 0 .. Pages /\ l.latest \in BOOLEAN /\ l.reset \in BOOLEAN
      /\ s.rows \in Seq(PageShown) /\ s.failed \in BOOLEAN /\ s.offset \in 0 .. Pages
      /\ s.isLoadingRows \in BOOLEAN /\ s.rowLoads \in SUBSET RowLoad
  BY <1>s DEF RowLoad, Store
<1>1. /\ page \in Seq(PageShown) /\ rows \in Seq(PageShown)
      /\ l.offset + Len(page) \in 0 .. Pages
  <2>1. CASE l.offset < Pages
    BY <2>1, <1>l, PageAdded
  <2>2. CASE ~(l.offset < Pages)
    <3>1. page = <<>> /\ Len(page) = 0 /\ s.rows \o <<>> = s.rows /\ <<>> \in Seq(PageShown)
      BY <2>2, <1>l, ConcatEmptySeq
    <3> QED BY <3>1, <1>l DEF MysqlAssumption
  <2> QED BY <2>1, <2>2
<1>2. /\ t \in Store
      /\ t.rowLoads = s.rowLoads \ {l} /\ t.isLoadingRows = (s.isLoadingRows /\ ~l.latest)
      /\ t.rows = IF taken THEN rows ELSE s.rows
      /\ t.offset = IF taken THEN l.offset + Len(page) ELSE s.offset
      /\ t.failed = IF taken THEN s.failed /\ ~l.reset
                    ELSE s.failed \/ (IsCurrent(s, l) /\ l.reset)
      /\ t.schemaLoads = s.schemaLoads /\ t.queries = s.queries
      /\ t.session = s.session /\ t.table = s.table /\ t.filter = s.filter
      /\ t.schema = s.schema /\ t.result = s.result /\ t.query = s.query
      /\ t.edits = s.edits /\ t.dragged = s.dragged /\ t.misled = s.misled
  <2> DEFINE loading == s.isLoadingRows /\ ~l.latest
             rest == s.rowLoads \ {l}
             fails == s.failed \/ (IsCurrent(s, l) /\ l.reset)
             heals == s.failed /\ ~l.reset
             next == l.offset + Len(page)
  <2>1. /\ loading \in BOOLEAN /\ rest \in SUBSET RowLoad /\ fails \in BOOLEAN
        /\ heals \in BOOLEAN /\ next \in 0 .. Pages /\ Pages \in 0 .. Pages
        /\ rows \in Seq(PageShown)
    BY <1>1, <1>l DEF MysqlAssumption
  <2>2. CASE taken
    <3>1. t = [s EXCEPT !.rows = rows, !.total = Pages, !.offset = next, !.failed = heals,
                        !.rowLoads = rest, !.isLoadingRows = loading]
      BY <2>2, <1>s DEF RowsReply, EndsTheSpinner, Store
    <3> HIDE DEF rows, next, heals, rest, loading, fails, taken, t
    <3>2. /\ t \in Store
          /\ t.rowLoads = rest /\ t.isLoadingRows = loading /\ t.rows = rows
          /\ t.offset = next /\ t.failed = heals
          /\ t.schemaLoads = s.schemaLoads /\ t.queries = s.queries
          /\ t.session = s.session /\ t.table = s.table /\ t.filter = s.filter
          /\ t.schema = s.schema /\ t.result = s.result /\ t.query = s.query
          /\ t.edits = s.edits /\ t.dragged = s.dragged /\ t.misled = s.misled
      BY <3>1, <2>1, <1>s DEF Store
    <3> QED BY <3>2, <2>2 DEF next, heals, rest, loading
  <2>3. CASE ~taken
    <3>1. t = [s EXCEPT !.failed = fails, !.rowLoads = rest, !.isLoadingRows = loading]
      BY <2>3, <1>s DEF RowsReply, EndsTheSpinner, Store
    <3> HIDE DEF rows, next, heals, rest, loading, fails, taken, t
    <3>2. /\ t \in Store
          /\ t.rowLoads = rest /\ t.isLoadingRows = loading /\ t.rows = s.rows
          /\ t.offset = s.offset /\ t.failed = fails
          /\ t.schemaLoads = s.schemaLoads /\ t.queries = s.queries
          /\ t.session = s.session /\ t.table = s.table /\ t.filter = s.filter
          /\ t.schema = s.schema /\ t.result = s.result /\ t.query = s.query
          /\ t.edits = s.edits /\ t.dragged = s.dragged /\ t.misled = s.misled
      BY <3>1, <2>1, <1>s DEF Store
    <3> QED BY <3>2, <2>3 DEF fails, rest, loading
  <2> QED BY <2>2, <2>3
<1> HIDE DEF t
<1>3. ViewOf(t) = ViewOf(s)
  BY <1>2 DEF ViewOf
<1>4. Half(t)
  <2>1. AtMostOne(t.rowLoads) /\ \A m \in t.rowLoads : m.latest => ~l.latest
    BY <1>2 DEF StoreInv, Half, Sound, AtMostOne
  <2>2. Sound(t)
    <3> HIDE DEF rows, page, taken
    <3>1. NewestRows(t)
      BY <2>1, <1>2 DEF StoreInv, Half, Sound, NewestRows
    <3>2. NewestOfQueries(t)
      BY <1>2 DEF StoreInv, Half, Sound, NewestOfQueries
    <3> QED BY <2>1, <3>1, <3>2, <1>2 DEF StoreInv, Half, Sound
  <2> QED BY <2>2, <1>2, <1>3 DEF StoreInv, Half, Viewed, SelOk, EditsOk
<1>5. RowsInv(t)
  <2> SUFFICES ASSUME ~Stale(t), t.session # NoSession, t.table # NoTable
               PROVE  /\ ~t.isLoadingRows /\ ~t.failed => RowsOk(t)
                      /\ \A m \in t.rowLoads : m.latest =>
                           IF m.reset THEN m.offset = 0
                           ELSE m.offset = t.offset /\ (~t.failed => RowsOk(t))
    BY DEF RowsInv
  <2>1. ~Stale(s) /\ s.session # NoSession /\ s.table # NoTable
    BY <1>2 DEF Stale
  <2>2. CASE ~l.latest
    <3>1. ~taken /\ ~IsCurrent(s, l)
      BY <2>2 DEF IsCurrent
    <3>2. t.rows = s.rows /\ t.offset = s.offset /\ t.failed = s.failed
          /\ t.isLoadingRows = s.isLoadingRows
      BY <3>1, <2>2, <1>2, <1>l
    <3>3. RowsOk(t) = RowsOk(s)
      BY <3>2, <1>3 DEF RowsOk
    <3> QED BY <3>2, <3>3, <2>1, <1>2 DEF StoreInv, RowsInv
  <2>3. CASE l.latest
    <3>1. l.view = ViewOf(s) /\ IsCurrent(s, l)
      BY <2>1, <2>3, <1>s DEF StoreInv, Half, Viewed, IsCurrent, ViewOf
    <3>2. \A m \in t.rowLoads : ~m.latest
      BY <2>3, <1>2 DEF StoreInv, Half, Sound, AtMostOne
    <3>3. ASSUME ~t.failed PROVE RowsOk(t)
      <4>1. CASE taken /\ l.reset
        <5>1. l.offset = 0 /\ t.rows = page /\ t.offset = l.offset + Len(page)
          BY <4>1, <2>1, <2>3, <1>2 DEF StoreInv, RowsInv
        <5>2. page = IF 0 < Pages THEN <<[view |-> ViewOf(t), page |-> 1]>> ELSE <<>>
          BY <5>1, <3>1, <1>3
        <5> HIDE DEF page, rows, taken
        <5> QED BY <5>1, <5>2 DEF RowsOk, MysqlAssumption
      <4>2. CASE taken /\ ~l.reset
        <5>1. t.rows = s.rows \o page /\ t.offset = l.offset + Len(page) /\ ~s.failed
          BY <4>2, <3>3, <1>2
        <5>2. l.offset = s.offset /\ RowsOk(s)
          BY <4>2, <5>1, <2>1, <2>3 DEF StoreInv, RowsInv
        <5>3. l.offset = Len(s.rows) /\ \A n \in 1 .. Len(s.rows) : s.rows[n] = [view |-> l.view, page |-> n]
          BY <5>2, <3>1, <1>l DEF RowsOk
        <5>4. Len(s.rows) \in Nat /\ DOMAIN t.rows = 1 .. Len(t.rows)
          <6>1. t.rows \in Seq(PageShown)
            BY <1>2 DEF Store
          <6> QED BY <6>1, <1>l
        <5>5. CASE l.offset < Pages
          <6>1. Len(t.rows) = Len(s.rows) + 1 /\ t.offset = Len(t.rows)
            BY <5>1, <5>3, <5>5, <1>l, PageAdded
          <6>2. \A n \in 1 .. Len(s.rows) : t.rows[n] = [view |-> l.view, page |-> n]
            BY <5>1, <5>3, <5>5, <1>l, PageAdded
          <6>3. t.rows[Len(s.rows) + 1] = [view |-> l.view, page |-> Len(s.rows) + 1]
            BY <5>1, <5>3, <5>5, <1>l, PageAdded
          <6>4. \A n \in DOMAIN t.rows : t.rows[n] = [view |-> l.view, page |-> n]
            <7> SUFFICES ASSUME NEW n \in DOMAIN t.rows
                         PROVE  t.rows[n] = [view |-> l.view, page |-> n]
              OBVIOUS
            <7>1. n \in 1 .. Len(s.rows) \/ n = Len(s.rows) + 1
              BY <6>1, <5>4
            <7> QED BY <7>1, <6>2, <6>3
          <6> QED BY <6>1, <6>4, <3>1, <1>3 DEF RowsOk
        <5>6. CASE ~(l.offset < Pages)
          <6>1. page = <<>> /\ s.rows \o <<>> = s.rows /\ Len(page) = 0
            BY <5>6, <1>l, ConcatEmptySeq
          <6> HIDE DEF page
          <6>2. t.rows = s.rows
            BY <6>1, <5>1
          <6>3. t.offset = s.offset
            BY <6>1, <5>1, <5>2, <1>l, <1>s DEF MysqlAssumption
          <6> QED BY <6>2, <6>3, <5>2, <1>3 DEF RowsOk
        <5> QED BY <5>5, <5>6
      <4>3. CASE ~taken
        <5>1. ~l.reset /\ ~s.failed /\ t.rows = s.rows /\ t.offset = s.offset
          BY <4>3, <3>1, <3>3, <1>2
        <5>2. RowsOk(s)
          BY <5>1, <2>1, <2>3 DEF StoreInv, RowsInv
        <5> QED BY <5>1, <5>2, <1>3 DEF RowsOk
      <4> QED BY <4>1, <4>2, <4>3
    <3> QED BY <3>2, <3>3
  <2> QED BY <2>2, <2>3
<1>6. By(t) \subseteq By(s)
  BY <1>2 DEF By
<1> QED BY <1>2, <1>4, <1>5, <1>6 DEF StoreInv, t

\* openWorkspace up to its await.
LEMMA OpenWorkspaceFacts ==
  ASSUME NEW s, StoreInv(s), NEW sn \in Session, NEW schema \in Schemas, NEW by \in Slots,
         MysqlAssumption
  PROVE  LET t == OpenWorkspace(s, sn, schema, by)
         IN  /\ StoreInv(t)
             /\ t.session = sn
             /\ By(t) \subseteq By(s) \cup {by}
<1> DEFINE sl == Outdated(s.schemaLoads)
           rl == Outdated(s.rowLoads)
           ql == Outdated(s.queries)
           u == [s EXCEPT !.session = sn, !.schemaLoads = sl, !.rowLoads = rl, !.queries = ql,
                          !.result = NoResult, !.query = NoResult,
                          !.isLoadingTables = FALSE, !.isLoadingRows = FALSE,
                          !.isRunningQuery = FALSE, !.isSeeding = FALSE]
           t == SelectSchema(ClearAll(u), schema, by, NoTable)
<1>s. s \in Store
  BY DEF StoreInv, Half, Sound
<1>1. /\ sl \in SUBSET SchemaLoad /\ rl \in SUBSET RowLoad /\ ql \in SUBSET QueryLoad
      /\ \A l \in sl \cup rl \cup ql : ~l.latest
      /\ {l.by : l \in sl} = {l.by : l \in s.schemaLoads}
      /\ {l.by : l \in rl} = {l.by : l \in s.rowLoads}
  BY <1>s, OutdatedSchemaLoads, OutdatedRowLoads, OutdatedQueries DEF Store
<1> HIDE DEF sl, rl, ql
<1>2. /\ u \in Store
      /\ u.session = sn /\ u.schemaLoads = sl /\ u.rowLoads = rl /\ u.queries = ql
      /\ u.result = NoResult /\ u.query = NoResult
      /\ u.table = s.table /\ u.schema = s.schema /\ u.misled = s.misled
  BY <1>s, <1>1 DEF Store
<1> HIDE DEF u
<1>3. Sound(u) /\ Viewed(u) /\ SelOk(u)
  <2>1. AtMostOne(u.schemaLoads) /\ AtMostOne(u.rowLoads) /\ AtMostOne(u.queries)
    BY <1>1, <1>2 DEF AtMostOne
  <2>2. NewestRows(u) /\ NewestOfQueries(u) /\ Viewed(u)
    BY <1>1, <1>2 DEF NewestRows, NewestOfQueries, Viewed
  <2>3. SelOk(u)
    BY <1>2 DEF StoreInv, Half, SelOk
  <2> QED BY <2>1, <2>2, <2>3, <1>2 DEF Sound
<1>4. By(u) = By(s)
  BY <1>1, <1>2, ByFacts
<1> DEFINE c == ClearAll(u)
<1>5. Half(c) /\ By(c) = By(s) /\ c.session = sn
  BY <1>2, <1>3, <1>4, ClearAllFacts DEF Half
<1> HIDE DEF c
<1>6. by \in Callers /\ NoTable \in Places \cup {NoTable}
  BY DEF Callers
<1> DEFINE x == SelectSchema(c, schema, by, NoTable)
<1>7. /\ Sound(x) /\ Viewed(x) /\ SelOk(x) /\ EditsOk(x) /\ RowsInv(x)
      /\ Grows(c, x, by)
  BY <1>5, <1>6, SelectSchemaFacts DEF Half
<1>8. OpenWorkspace(s, sn, schema, by) = x
  BY DEF OpenWorkspace, c, u, sl, rl, ql
<1> HIDE DEF x
<1> QED BY <1>5, <1>7, <1>8 DEF StoreInv, Half, Grows

\* ... and behind it.
LEMMA OpenContinuesFacts ==
  ASSUME NEW s, Half(s), NEW target \in Places \cup {NoTable}, NEW by \in Slots,
         MysqlAssumption
  PROVE  LET t == OpenContinues(s, target, by)
         IN  StoreInv(t) /\ Grows(s, t, by)
<1>1. CASE target = NoTable
  BY <1>1, NoSelectionFacts DEF OpenContinues, Half, Grows
<1>2. CASE target # NoTable
  BY <1>2, SelectTableFacts DEF OpenContinues, Callers
<1> QED BY <1>1, <1>2

LEMMA ClearFacts ==
  ASSUME NEW s, StoreInv(s), MysqlAssumption
  PROVE  LET t == Clear(s)
         IN  StoreInv(t) /\ By(t) = By(s) /\ t.session = NoSession
<1> DEFINE sl == Outdated(s.schemaLoads)
           rl == Outdated(s.rowLoads)
           ql == Outdated(s.queries)
           t == [EmptyStore EXCEPT !.schemaLoads = sl, !.rowLoads = rl, !.queries = ql]
<1>s. s \in Store
  BY DEF StoreInv, Half, Sound
<1>1. /\ sl \in SUBSET SchemaLoad /\ rl \in SUBSET RowLoad /\ ql \in SUBSET QueryLoad
      /\ \A l \in sl \cup rl \cup ql : ~l.latest
      /\ {l.by : l \in sl} = {l.by : l \in s.schemaLoads}
      /\ {l.by : l \in rl} = {l.by : l \in s.rowLoads}
  BY <1>s, OutdatedSchemaLoads, OutdatedRowLoads, OutdatedQueries DEF Store
<1>2. Clear(s) = t
  BY DEF Clear
<1> HIDE DEF sl, rl, ql
<1>3. /\ t \in Store
      /\ t.session = NoSession /\ t.schemaLoads = sl /\ t.rowLoads = rl /\ t.queries = ql
      /\ t.result = NoResult /\ t.table = NoTable
  <2>1. <<>> \in Seq(PageShown) /\ 0 \in 0 .. Pages /\ NoFilter \in FilterOf
    BY DEF MysqlAssumption, FilterOf
  <2> QED BY <2>1, <1>1 DEF EmptyStore, Store
<1> HIDE DEF t
<1>4. StoreInv(t)
  <2>1. AtMostOne(t.schemaLoads) /\ AtMostOne(t.rowLoads) /\ AtMostOne(t.queries)
    BY <1>1, <1>3 DEF AtMostOne
  <2>2. NewestRows(t) /\ NewestOfQueries(t)
    BY <1>1, <1>3 DEF NewestRows, NewestOfQueries
  <2>3. Viewed(t) /\ SelOk(t) /\ EditsOk(t) /\ RowsInv(t)
    BY <1>3 DEF Viewed, SelOk, EditsOk, RowsInv
  <2> QED BY <2>1, <2>2, <2>3, <1>3 DEF StoreInv, Half, Sound
<1>5. By(t) = By(s)
  BY <1>1, <1>3, ByFacts
<1> QED BY <1>2, <1>3, <1>4, <1>5

LEMMA SampledFacts ==
  ASSUME NEW s, StoreInv(s), NEW schema \in Schemas, MysqlAssumption
  PROVE  LET t == Sampled(s, schema)
         IN  StoreInv(t) /\ Grows(s, t, Sample)
<1>s. s \in Store /\ Half(s) /\ RowsInv(s) /\ Sample \in Callers
  BY DEF StoreInv, Half, Sound, Callers
<1>1. CASE s.table # NoTable
  <2>1. s.table \in Places
    BY <1>1, <1>s DEF Store
  <2>2. Sampled(s, schema) = SelectTable(s, s.table, Sample)
    BY <1>1 DEF Sampled
  <2> QED BY <2>2, <1>s, <2>1, SelectTableFacts
<1>2. CASE s.table = NoTable /\ s.schema # NoSchema
  <2>1. [schema |-> schema, table |-> DefaultTable] \in Places
    BY DEF Places, MysqlAssumption
  <2> QED BY <1>2, <1>s, <2>1, SelectTableFacts DEF Sampled
<1>3. CASE s.table = NoTable /\ s.schema = NoSchema
  <2>1. Sampled(s, schema) = s
    BY <1>3 DEF Sampled
  <2> QED BY <2>1 DEF Grows
<1> QED BY <1>1, <1>2, <1>3

\* Two stores that differ in a spinner at most.
Alike(s, t) ==
  /\ t \in Store
  /\ t.schemaLoads = s.schemaLoads /\ t.rowLoads = s.rowLoads /\ t.queries = s.queries
  /\ t.session = s.session /\ t.table = s.table /\ t.filter = s.filter
  /\ t.schema = s.schema /\ t.isLoadingRows = s.isLoadingRows
  /\ t.rows = s.rows /\ t.offset = s.offset /\ t.failed = s.failed
  /\ t.result = s.result /\ t.query = s.query
  /\ t.edits = s.edits /\ t.dragged = s.dragged /\ t.misled = s.misled

LEMMA AlikeFacts ==
  ASSUME NEW s, NEW t, StoreInv(s), Alike(s, t)
  PROVE  StoreInv(t) /\ By(t) = By(s) /\ t.session = s.session
<1>1. ViewOf(t) = ViewOf(s) /\ Stale(t) = Stale(s)
  BY DEF Alike, ViewOf, Stale
<1>2. RowsOk(t) = RowsOk(s)
  BY <1>1 DEF Alike, RowsOk
<1>3. RowsInv(t)
  BY <1>1, <1>2 DEF Alike, StoreInv, RowsInv
<1>4. Half(t)
  BY <1>1 DEF Alike, StoreInv, Half, Sound, Viewed, SelOk, EditsOk, NewestRows, NewestOfQueries
<1> QED BY <1>3, <1>4 DEF StoreInv, By, Alike

(***************************************************************************)
(* The provider's part of the invariant                                    *)
(***************************************************************************)
AttemptRecord ==
  [slot : Slots, conn : Conns, stage : {"connecting", "listing", "opening"},
   session : Session \cup {NoSession}, target : Places \cup {NoTable}]
Seeding == [schema : Schemas, seeded : BOOLEAN]

ProviderTypes ==
  /\ draft \in {NoDraft} \cup [conn : Conns, table : Places \cup {NoTable}]
  /\ session \in Session \cup {NoSession} /\ clients \subseteq Conns
  /\ attempts \subseteq AttemptRecord
  /\ isLoading \in BOOLEAN /\ open \in BOOLEAN /\ astray \in BOOLEAN
  /\ sessions \in 0 .. MaxSessions
PageTypes == applying \in BOOLEAN /\ seeding \in {NoSeeding} \cup Seeding

\* Every attempt that is still to make a session has its number in reserve.
Connecting == {a \in attempts : a.stage = "connecting"}
BudgetInv == IsFiniteSet(attempts) /\ sessions + Cardinality(Connecting) <= MaxSessions

\* Attempts are told apart by their slots, and a load that an attempt waits for has one.
SlotInv ==
  /\ \A a, b \in attempts : a.slot = b.slot => a = b
  /\ \A by \in By(w) \cap Slots : \E a \in attempts : a.slot = by /\ a.stage = "opening"
  /\ \A a \in attempts : a.stage # "connecting" => a.session \in Session

AttemptInv ==
  ~astray =>
    /\ \A a, b \in attempts : a = b
    /\ clients \subseteq ConnectionOf(session)
    /\ \A a \in attempts : a.stage = "connecting" => session = NoSession
    /\ \A a \in attempts : a.stage = "opening" => w.session # NoSession
    /\ open => w.session # NoSession

SeedInv == Sample \in By(w) => seeding # NoSeeding /\ seeding.seeded

ProviderInv == ProviderTypes /\ BudgetInv /\ SlotInv /\ AttemptInv
Inv == StoreInv(w) /\ PageTypes /\ SeedInv /\ ProviderInv

\* What the page does leaves the provider alone and adds no load of an attempt.
LEMMA PageKeepsProvider ==
  ASSUME ProviderInv, UNCHANGED providerVars, w'.session = w.session,
         By(w)' \subseteq By(w) \cup {User, Sample}, MysqlAssumption
  PROVE  ProviderInv'
<1>1. By(w)' \cap Slots \subseteq By(w)
  BY DEF User, Sample, Slots, MysqlAssumption
<1>2. ProviderTypes' /\ BudgetInv'
  BY DEF ProviderInv, providerVars, ProviderTypes, BudgetInv, Connecting
<1>3. SlotInv'
  BY <1>1 DEF ProviderInv, providerVars, SlotInv
<1>4. AttemptInv'
  BY DEF ProviderInv, providerVars, AttemptInv
<1> QED BY <1>2, <1>3, <1>4 DEF ProviderInv

\* A step of the page that starts and ends no sample data.
LEMMA PageStep ==
  ASSUME Inv, UNCHANGED providerVars, UNCHANGED seeding, applying' \in BOOLEAN,
         StoreInv(w'), w'.session = w.session, By(w)' \subseteq By(w) \cup {User},
         MysqlAssumption
  PROVE  Inv'
<1>1. ProviderInv'
  BY PageKeepsProvider DEF Inv
<1>2. Sample # User
  BY DEF Sample, User, MysqlAssumption
<1>3. SeedInv' /\ PageTypes'
  BY <1>2 DEF Inv, SeedInv, PageTypes
<1> QED BY <1>1, <1>3 DEF Inv

\* One connecting attempt less.
LEMMA FewerConnecting ==
  ASSUME BudgetInv, sessions \in Nat, MysqlAssumption,
         attempts' \subseteq attempts, sessions' = sessions
  PROVE  BudgetInv'
<1>1. Connecting' \subseteq Connecting /\ Connecting \subseteq attempts
  BY DEF Connecting
<1>2. IsFiniteSet(attempts') /\ IsFiniteSet(Connecting)
  BY <1>1, FS_Subset DEF BudgetInv
<1>3. /\ Cardinality(Connecting') <= Cardinality(Connecting)
      /\ Cardinality(Connecting') \in Nat /\ Cardinality(Connecting) \in Nat
  BY <1>1, <1>2, FS_Subset, FS_CardinalityType
<1> QED BY <1>2, <1>3 DEF BudgetInv, MysqlAssumption

\* What has waited for a reply goes on with a store that waits for no more than before.
LEMMA GoesOnKeeps ==
  ASSUME Inv, NEW s, NEW by \in By(w), GoesOn(s, by), StoreInv(s), s.session = w.session,
         By(s) \subseteq By(w), MysqlAssumption,
         UNCHANGED <<draft, session, clients, applying, sessions, astray>>
  PROVE  Inv'
<1> DEFINE ended == by \in Slots /\ ~Waits(s, by)
           sampled == by = Sample /\ ~Waits(s, by)
<1>1. Waits(s, by) <=> by \in By(s)
  BY DEF Waits, By
<1>2. /\ w' = [s EXCEPT !.isSeeding = @ /\ ~sampled]
      /\ seeding' = IF sampled THEN NoSeeding ELSE seeding
      /\ attempts' = IF ended THEN {a \in attempts : a.slot # by} ELSE attempts
      /\ isLoading' = (isLoading /\ ~ended)
      /\ open' = (open \/ ended)
  BY DEF GoesOn
<1>3. StoreInv(w') /\ By(w)' = By(s) /\ w'.session = w.session
  <2>1. s \in Store /\ (s.isSeeding /\ ~sampled) \in BOOLEAN
    BY DEF StoreInv, Half, Sound
  <2>2. Alike(s, w')
    BY <2>1, <1>2 DEF Alike, Store
  <2>3. StoreInv(w') /\ By(w') = By(s) /\ w'.session = s.session
    BY <2>2, AlikeFacts
  <2> QED BY <2>3 DEF By
<1>4. PageTypes' /\ SeedInv'
  BY <1>1, <1>2, <1>3 DEF Inv, PageTypes, SeedInv
<1>5. ProviderTypes'
  BY <1>2 DEF Inv, ProviderInv, ProviderTypes
<1>6. BudgetInv'
  <2>1. attempts' \subseteq attempts /\ sessions \in Nat
    BY <1>2 DEF Inv, ProviderInv, ProviderTypes, MysqlAssumption
  <2> QED BY <2>1, FewerConnecting DEF Inv, ProviderInv
<1>7. SlotInv'
  BY <1>1, <1>2, <1>3 DEF Inv, ProviderInv, SlotInv
<1>8. AttemptInv'
  <2>1. ended => \E a \in attempts : a.slot = by /\ a.stage = "opening"
    BY DEF Inv, ProviderInv, SlotInv
  <2> QED BY <2>1, <1>2, <1>3 DEF Inv, ProviderInv, AttemptInv
<1> QED BY <1>3, <1>4, <1>5, <1>6, <1>7, <1>8 DEF Inv, ProviderInv

(***************************************************************************)
(* The provider's actions                                                  *)
(***************************************************************************)
\* A step of the provider that leaves the store alone.
LEMMA StoreKept ==
  ASSUME Inv, UNCHANGED <<w, applying, seeding>>, ProviderInv'
  PROVE  Inv'
BY DEF Inv, PageTypes, SeedInv

LEMMA SelectProfileKeeps ==
  ASSUME Inv, NEW c \in Conns, SelectProfile(c)
  PROVE  Inv'
<1>1. draft' \in [conn : Conns, table : Places \cup {NoTable}]
  BY DEF SelectProfile
<1>2. ProviderTypes' /\ BudgetInv' /\ SlotInv' /\ AttemptInv'
  BY <1>1 DEF SelectProfile, Inv, ProviderInv, ProviderTypes, BudgetInv, Connecting, SlotInv,
             AttemptInv
<1> QED BY <1>2, StoreKept DEF SelectProfile, ProviderInv

LEMMA AttemptKeeps ==
  ASSUME Inv, NEW c \in Conns, Attempt(c), MysqlAssumption,
         draft' \in {NoDraft} \cup [conn : Conns, table : Places \cup {NoTable}],
         UNCHANGED <<open, w, applying, seeding, sessions>>
  PROVE  Inv'
<1> DEFINE n == CHOOSE n \in FreeSlots : TRUE
           new == [slot |-> n, conn |-> c, stage |-> "connecting", session |-> NoSession,
                   target |-> NoTable]
<1>1. n \in Slots /\ \A a \in attempts : a.slot # n
  BY DEF Attempt, FreeSlots
<1> HIDE DEF n
<1>2. new \in AttemptRecord /\ new.slot = n /\ new.stage = "connecting"
  BY <1>1 DEF AttemptRecord
<1>3. /\ attempts' = attempts \cup {new}
      /\ clients' = clients \ ConnectionOf(session) /\ session' = NoSession
      /\ isLoading' = TRUE /\ astray' = (astray \/ attempts # {})
      /\ sessions + Cardinality(Connecting) < MaxSessions
  BY DEF Attempt, n, Connecting
<1> HIDE DEF new
<1>4. ProviderTypes'
  BY <1>2, <1>3 DEF Inv, ProviderInv, ProviderTypes
<1>5. BudgetInv'
  <2>1. Connecting' = Connecting \cup {new} /\ Connecting \subseteq attempts
    BY <1>2, <1>3 DEF Connecting
  <2>2. IsFiniteSet(Connecting) /\ IsFiniteSet(attempts')
    BY <2>1, <1>3, FS_Subset, FS_AddElement DEF Inv, ProviderInv, BudgetInv
  <2>3. /\ Cardinality(Connecting') <= Cardinality(Connecting) + 1
        /\ Cardinality(Connecting') \in Nat /\ Cardinality(Connecting) \in Nat
    <3>1. /\ IsFiniteSet(Connecting \cup {new})
          /\ Cardinality(Connecting \cup {new}) =
               IF new \in Connecting THEN Cardinality(Connecting) ELSE Cardinality(Connecting) + 1
      BY <2>2, FS_AddElement
    <3>2. Cardinality(Connecting) \in Nat
      BY <2>2, FS_CardinalityType
    <3> QED BY <3>1, <3>2, <2>1
  <2> QED BY <2>2, <2>3, <1>3 DEF Inv, ProviderInv, ProviderTypes, BudgetInv, MysqlAssumption
<1>6. SlotInv'
  BY <1>1, <1>2, <1>3 DEF Inv, ProviderInv, SlotInv
<1>7. AttemptInv'
  BY <1>2, <1>3 DEF Inv, ProviderInv, AttemptInv, ConnectionOf
<1> QED BY <1>4, <1>5, <1>6, <1>7, StoreKept DEF ProviderInv

LEMMA ConnectsKeeps ==
  ASSUME Inv, NEW a \in attempts, NEW ok \in BOOLEAN, Connects(a, ok), MysqlAssumption
  PROVE  Inv'
<1>a. /\ a \in AttemptRecord /\ a.stage = "connecting" /\ sessions \in 0 .. MaxSessions
      /\ UNCHANGED <<draft, open, w, applying, seeding, astray>>
  BY DEF Inv, ProviderInv, ProviderTypes, Connects
<1>1. CASE ~ok
  <2>1. attempts' = attempts \ {a} /\ isLoading' = FALSE /\ UNCHANGED <<sessions, clients, session>>
    BY <1>1 DEF Connects, Ends
  <2>2. ProviderTypes'
    BY <2>1, <1>a DEF Inv, ProviderInv, ProviderTypes
  <2>3. BudgetInv'
    BY <2>1, <1>a, FewerConnecting DEF Inv, ProviderInv, MysqlAssumption
  <2>4. SlotInv'
    BY <2>1, <1>a DEF Inv, ProviderInv, SlotInv
  <2>5. AttemptInv'
    BY <2>1, <1>a DEF Inv, ProviderInv, AttemptInv
  <2> QED BY <2>2, <2>3, <2>4, <2>5, <1>a, StoreKept DEF ProviderInv
<1>2. CASE ok
  <2> DEFINE sn == [n |-> sessions + 1, conn |-> a.conn]
             b == [a EXCEPT !.stage = "listing", !.session = sn]
  <2>1. /\ attempts' = (attempts \ {a}) \cup {b}
        /\ sessions' = sessions + 1 /\ clients' = clients \cup {a.conn} /\ session' = sn
        /\ UNCHANGED isLoading
    BY <1>2 DEF Connects, Replaced
  <2>2. /\ Connecting' = Connecting \ {a} /\ a \in Connecting
        /\ IsFiniteSet(attempts') /\ IsFiniteSet(Connecting)
    <3>1. Connecting' = Connecting \ {a} /\ a \in Connecting
      <4>1. b.stage = "listing" /\ a.stage = "connecting"
        BY <1>a DEF AttemptRecord
      <4> HIDE DEF b, sn
      <4> QED BY <4>1, <2>1 DEF Connecting
    <3>2. IsFiniteSet(attempts')
      BY <2>1, FS_AddElement, FS_RemoveElement DEF Inv, ProviderInv, BudgetInv
    <3>3. Connecting \subseteq attempts
      BY DEF Connecting
    <3> QED BY <3>1, <3>2, <3>3, FS_Subset DEF Inv, ProviderInv, BudgetInv
  <2>3. /\ Cardinality(Connecting') = Cardinality(Connecting) - 1
        /\ Cardinality(Connecting') \in Nat /\ Cardinality(Connecting) \in Nat
    BY <2>2, FS_RemoveElement, FS_CardinalityType
  <2>4. BudgetInv' /\ sessions' \in 0 .. MaxSessions /\ sessions + 1 \in 1 .. MaxSessions
    BY <2>1, <2>2, <2>3, <1>a DEF Inv, ProviderInv, BudgetInv, MysqlAssumption
  <2>5. sn \in Session /\ a.conn \in Conns /\ sn.conn = a.conn
    BY <2>4, <1>a DEF Session, AttemptRecord
  <2>6. b \in AttemptRecord /\ b.slot = a.slot /\ b.stage = "listing" /\ b.session = sn
    BY <2>5, <1>a DEF AttemptRecord
  <2> HIDE DEF sn, b
  <2>7. ProviderTypes'
    BY <2>1, <2>4, <2>5, <2>6, <1>a DEF Inv, ProviderInv, ProviderTypes
  <2>8. SlotInv'
    BY <2>1, <2>5, <2>6, <1>a DEF Inv, ProviderInv, SlotInv
  <2>9. AttemptInv'
    <3>1. ConnectionOf(sn) = {a.conn}
      BY <2>5 DEF ConnectionOf, MysqlAssumption
    <3>2. ASSUME ~astray PROVE clients = {}
      BY <3>2, <1>a DEF Inv, ProviderInv, AttemptInv, ConnectionOf
    <3>3. ASSUME ~astray PROVE attempts = {a}
      BY <3>3 DEF Inv, ProviderInv, AttemptInv
    <3> QED BY <3>1, <3>2, <3>3, <2>1, <2>6, <1>a DEF Inv, ProviderInv, AttemptInv
  <2> QED BY <2>4, <2>7, <2>8, <2>9, <1>a, StoreKept DEF ProviderInv
<1> QED BY <1>1, <1>2

LEMMA SchemasListedKeeps ==
  ASSUME Inv, NEW a \in attempts, NEW schema \in Schemas, NEW ok \in BOOLEAN,
         SchemasListed(a, schema, ok), MysqlAssumption
  PROVE  Inv'
<1> DEFINE target == IF draft = NoDraft THEN NoTable ELSE draft.table
<1>a. /\ a \in AttemptRecord /\ a.stage = "listing"
      /\ UNCHANGED <<draft, session, clients, open, applying, seeding, sessions, astray>>
      /\ target \in Places \cup {NoTable}
      /\ a.session \in Session /\ a.slot \in Slots
  BY DEF Inv, ProviderInv, ProviderTypes, SchemasListed, SlotInv, AttemptRecord
<1>1. CASE ~ok
  <2>1. attempts' = attempts \ {a} /\ isLoading' = FALSE /\ UNCHANGED w
    BY <1>1 DEF SchemasListed, Ends
  <2>2. ProviderTypes'
    BY <2>1, <1>a DEF Inv, ProviderInv, ProviderTypes
  <2>3. BudgetInv'
    BY <2>1, <1>a, FewerConnecting DEF Inv, ProviderInv, ProviderTypes, MysqlAssumption
  <2>4. SlotInv'
    BY <2>1, <1>a DEF Inv, ProviderInv, SlotInv
  <2>5. AttemptInv'
    BY <2>1, <1>a DEF Inv, ProviderInv, AttemptInv
  <2> QED BY <2>1, <2>2, <2>3, <2>4, <2>5, <1>a, StoreKept DEF ProviderInv
<1>2. CASE ok
  <2> DEFINE b == [a EXCEPT !.stage = "opening", !.target = target]
  <2>1. /\ w' = OpenWorkspace(w, a.session, schema, a.slot)
        /\ attempts' = (attempts \ {a}) \cup {b} /\ UNCHANGED isLoading
    BY <1>2 DEF SchemasListed, Replaced
  <2>2. /\ b \in AttemptRecord /\ b.slot = a.slot /\ b.stage = "opening" /\ b.session = a.session
    BY <1>a DEF AttemptRecord
  <2> HIDE DEF b, target
  <2>3. /\ StoreInv(w') /\ w'.session = a.session
        /\ By(w') \subseteq By(w) \cup {a.slot}
    <3>1. /\ StoreInv(OpenWorkspace(w, a.session, schema, a.slot))
          /\ OpenWorkspace(w, a.session, schema, a.slot).session = a.session
          /\ By(OpenWorkspace(w, a.session, schema, a.slot)) \subseteq By(w) \cup {a.slot}
      BY <1>a, OpenWorkspaceFacts DEF Inv
    <3> QED BY <3>1, <2>1
  <2>4. By(w)' \subseteq By(w) \cup {a.slot}
    BY <2>3 DEF By
  <2>5. ProviderTypes'
    BY <2>1, <2>2, <1>a DEF Inv, ProviderInv, ProviderTypes
  <2>6. BudgetInv'
    <3>1. Connecting' = Connecting
      BY <2>1, <2>2, <1>a DEF Connecting
    <3>2. IsFiniteSet(attempts')
      BY <2>1, FS_AddElement, FS_RemoveElement DEF Inv, ProviderInv, BudgetInv
    <3> QED BY <3>1, <3>2, <1>a DEF Inv, ProviderInv, BudgetInv
  <2>7. SlotInv'
    BY <2>1, <2>2, <2>4, <1>a DEF Inv, ProviderInv, SlotInv
  <2>8. AttemptInv'
    <3>1. a.session # NoSession
      BY <1>a DEF MysqlAssumption
    <3> QED BY <3>1, <2>1, <2>2, <2>3, <1>a DEF Inv, ProviderInv, AttemptInv
  <2>9. SeedInv' /\ PageTypes'
    <3>1. Sample \notin Slots
      BY DEF Sample, Slots, MysqlAssumption
    <3> QED BY <3>1, <2>4, <1>a DEF Inv, SeedInv, PageTypes
  <2> QED BY <2>3, <2>5, <2>6, <2>7, <2>8, <2>9 DEF Inv, ProviderInv
<1> QED BY <1>1, <1>2

\* clearWorkspaceDraft and the removal of the profile in use clear the store.
LEMMA ClearKeeps ==
  ASSUME Inv, w' = Clear(w), UNCHANGED <<attempts, isLoading, applying, seeding, sessions>>,
         draft' \in {NoDraft, draft}, session' = NoSession, open' = FALSE,
         clients' = clients \ ConnectionOf(session), astray' = (astray \/ attempts # {}),
         MysqlAssumption
  PROVE  Inv'
<1>1. StoreInv(w') /\ By(w') = By(w) /\ w'.session = NoSession
  BY ClearFacts DEF Inv
<1>2. By(w)' = By(w)
  BY <1>1 DEF By
<1>3. ProviderTypes' /\ BudgetInv'
  BY DEF Inv, ProviderInv, ProviderTypes, BudgetInv, Connecting
<1>4. SlotInv'
  BY <1>2 DEF Inv, ProviderInv, SlotInv
<1>5. AttemptInv'
  BY DEF Inv, ProviderInv, AttemptInv, ConnectionOf
<1>6. SeedInv' /\ PageTypes'
  BY <1>2 DEF Inv, SeedInv, PageTypes
<1> QED BY <1>1, <1>3, <1>4, <1>5, <1>6 DEF Inv, ProviderInv

LEMMA RemoveProfileKeeps ==
  ASSUME Inv, NEW c \in Conns, RemoveProfile(c), MysqlAssumption
  PROVE  Inv'
<1>1. CASE ConnectionOf(session) = {c}
  <2>1. /\ w' = Clear(w) /\ UNCHANGED <<attempts, isLoading, applying, seeding, sessions>>
        /\ draft' \in {NoDraft, draft} /\ session' = NoSession
        /\ clients' = clients \ ConnectionOf(session) /\ astray' = (astray \/ attempts # {})
    BY <1>1 DEF RemoveProfile
  <2>2. open' = FALSE
    BY DEF RemoveProfile, Inv, ProviderInv, ProviderTypes
  <2> QED BY <2>1, <2>2, ClearKeeps
<1>2. CASE ConnectionOf(session) # {c}
  <2>1. UNCHANGED <<session, w, attempts, isLoading, open, applying, seeding, sessions>>
    BY <1>2 DEF RemoveProfile
  <2>2. draft' \in {NoDraft, draft} /\ clients' = clients \ {c} /\ astray' = (astray \/ attempts # {})
    BY DEF RemoveProfile
  <2>3. ProviderTypes' /\ BudgetInv' /\ SlotInv' /\ AttemptInv'
    BY <2>1, <2>2 DEF Inv, ProviderInv, ProviderTypes, BudgetInv, Connecting, SlotInv, AttemptInv
  <2> QED BY <2>1, <2>3, StoreKept DEF ProviderInv
<1> QED BY <1>1, <1>2

(***************************************************************************)
(* Replies and the page                                                    *)
(***************************************************************************)
LEMMA SchemaArrivesKeeps ==
  ASSUME Inv, NEW l \in w.schemaLoads, NEW ok \in BOOLEAN, SchemaArrives(l, ok), MysqlAssumption
  PROVE  Inv'
<1> DEFINE s == SchemaReply(w, l, ok)
           moved == [s EXCEPT !.dragged = @ \/ s.edits # {}]
           target == (CHOOSE a \in attempts : a.slot = l.by).target
           x == CASE l.then # NoTable -> TableSelected(moved, l.then, l.by)
                  [] l.then = NoTable /\ l.by = User -> s
                  [] l.then = NoTable /\ l.by = Sample -> Sampled(s, seeding.schema)
                  [] OTHER -> OpenContinues(s, target, l.by)
<1>a. /\ l.by \in By(w) /\ l \in SchemaLoad /\ l.by \in Callers
      /\ l.then \in Places \cup {NoTable}
  BY DEF Inv, StoreInv, Half, Sound, Store, By, SchemaLoad
<1>b. User \notin Slots /\ Sample \notin Slots /\ User # Sample
  BY DEF User, Sample, Slots, MysqlAssumption
<1>1. /\ Half(s) /\ s.session = w.session /\ By(s) \subseteq By(w)
      /\ l.by \notin Slots => RowsInv(s)
  BY SchemaReplyFacts DEF Inv
<1>2. GoesOn(x, l.by) /\ UNCHANGED <<draft, session, clients, applying, sessions, astray>>
  BY DEF SchemaArrives
<1>3. StoreInv(x) /\ Grows(s, x, l.by)
  <2> HIDE DEF s
  <2>1. CASE l.then # NoTable
    <3>1. x = TableSelected(moved, l.then, l.by)
      BY <2>1
    <3>2. /\ moved \in Store /\ moved.dragged = (s.dragged \/ s.edits # {})
          /\ moved.schemaLoads = s.schemaLoads /\ moved.rowLoads = s.rowLoads
          /\ moved.queries = s.queries /\ moved.session = s.session
          /\ moved.isLoadingRows = s.isLoadingRows /\ moved.result = s.result
          /\ moved.query = s.query /\ moved.edits = s.edits
      BY <1>1 DEF Half, Sound, Store
    <3> HIDE DEF moved
    <3>3. Sound(moved)
      BY <1>1, <3>2 DEF Half, Sound, NewestRows, NewestOfQueries
    <3>4. StoreInv(x) /\ Grows(moved, x, l.by)
      <4> HIDE DEF x
      <4>1. moved.dragged \/ moved.edits \subseteq {l.then}
        BY <3>2
      <4>2. /\ StoreInv(TableSelected(moved, l.then, l.by))
            /\ Grows(moved, TableSelected(moved, l.then, l.by), l.by)
        BY <4>1, <3>3, <2>1, <1>a, TableSelectedFacts
      <4> QED BY <4>2, <3>1
    <3> HIDE DEF x
    <3> QED BY <3>2, <3>4 DEF Grows, By
  <2>2. CASE l.then = NoTable /\ l.by = User
    <3>1. x = s
      BY <2>2, <1>b
    <3> QED BY <3>1, <2>2, <1>1, <1>b DEF StoreInv, Grows
  <2>3. CASE l.then = NoTable /\ l.by = Sample
    <3>1. x = Sampled(s, seeding.schema)
      BY <2>3, <1>b
    <3>2. seeding.schema \in Schemas
      BY <2>3, <1>a DEF Inv, SeedInv, PageTypes, Seeding
    <3>3. StoreInv(s)
      BY <2>3, <1>1, <1>b DEF StoreInv
    <3>4. /\ StoreInv(Sampled(s, seeding.schema))
          /\ Grows(s, Sampled(s, seeding.schema), Sample)
      BY <3>2, <3>3, SampledFacts
    <3> HIDE DEF x
    <3> QED BY <3>1, <3>4, <2>3
  <2>4. CASE l.then = NoTable /\ l.by \notin {User, Sample}
    <3>1. x = OpenContinues(s, target, l.by)
      BY <2>4
    <3>2. l.by \in Slots
      BY <2>4, <1>a DEF Callers
    <3>3. \E a \in attempts : a.slot = l.by
      BY <3>2, <1>a DEF Inv, ProviderInv, SlotInv
    <3>4. target \in Places \cup {NoTable}
      BY <3>3 DEF Inv, ProviderInv, ProviderTypes, AttemptRecord
    <3> HIDE DEF target, x
    <3>5. /\ StoreInv(OpenContinues(s, target, l.by))
          /\ Grows(s, OpenContinues(s, target, l.by), l.by)
      BY <3>2, <3>4, <1>1, OpenContinuesFacts
    <3> QED BY <3>1, <3>5
  <2> QED BY <2>1, <2>2, <2>3, <2>4
<1> HIDE DEF x
<1>4. x.session = w.session /\ By(x) \subseteq By(w)
  BY <1>1, <1>3, <1>a DEF Grows
<1> QED BY <1>2, <1>3, <1>4, <1>a, GoesOnKeeps

LEMMA RowsArriveKeeps ==
  ASSUME Inv, NEW l \in w.rowLoads, NEW ok \in BOOLEAN, RowsArrive(l, ok), MysqlAssumption
  PROVE  Inv'
<1> DEFINE s == RowsReply(w, l, ok)
<1>1. GoesOn(s, l.by) /\ UNCHANGED <<draft, session, clients, applying, sessions, astray>>
  BY DEF RowsArrive
<1>2. StoreInv(s) /\ s.session = w.session /\ By(s) \subseteq By(w)
  BY RowsReplyFacts DEF Inv
<1>3. l.by \in By(w)
  BY DEF By
<1> HIDE DEF s
<1> QED BY <1>1, <1>2, <1>3, GoesOnKeeps

LEMMA QueryArrivesKeeps ==
  ASSUME Inv, NEW q \in w.queries, NEW ok \in BOOLEAN, QueryArrives(q, ok), MysqlAssumption
  PROVE  Inv'
<1> DEFINE shown == IF ok /\ NewestQuery(q) THEN q.of ELSE w.result
           running == w.isRunningQuery /\ ~q.latest
<1>a. w \in Store /\ q \in QueryLoad
  BY DEF Inv, StoreInv, Half, Sound, Store
<1>1. /\ shown \in QueryText \cup {NoResult} /\ running \in BOOLEAN
      /\ w' = [w EXCEPT !.queries = @ \ {q}, !.result = shown, !.isRunningQuery = running]
  BY <1>a DEF QueryArrives, Store, QueryLoad
<1>2. shown # NoResult => shown = w.query /\ shown.session = w.session
  BY DEF Inv, StoreInv, Half, Sound, NewestOfQueries, NewestQuery
<1> HIDE DEF shown, running
<1>3. /\ w' \in Store /\ w'.queries = w.queries \ {q} /\ w'.result = shown
      /\ w'.schemaLoads = w.schemaLoads /\ w'.rowLoads = w.rowLoads
      /\ w'.session = w.session /\ w'.table = w.table /\ w'.filter = w.filter
      /\ w'.schema = w.schema /\ w'.isLoadingRows = w.isLoadingRows
      /\ w'.rows = w.rows /\ w'.offset = w.offset /\ w'.query = w.query
      /\ w'.edits = w.edits /\ w'.dragged = w.dragged
      /\ w'.misled = w.misled /\ w'.failed = w.failed
  BY <1>1, <1>a DEF Store
<1>4. ViewOf(w') = ViewOf(w) /\ Stale(w') = Stale(w)
  BY <1>3 DEF ViewOf, Stale
<1>5. RowsInv(w')
  <2>1. RowsOk(w') = RowsOk(w)
    BY <1>3, <1>4 DEF RowsOk
  <2> QED BY <2>1, <1>3, <1>4 DEF Inv, StoreInv, RowsInv
<1>6. Half(w')
  <2>1. NewestOfQueries(w') /\ AtMostOne(w'.queries)
    BY <1>2, <1>3 DEF Inv, StoreInv, Half, Sound, NewestOfQueries, AtMostOne
  <2> QED BY <2>1, <1>3, <1>4 DEF Inv, StoreInv, Half, Sound, Viewed, SelOk, EditsOk, NewestRows
<1>7. By(w)' = By(w)
  BY <1>3 DEF By
<1> QED BY <1>3, <1>5, <1>6, <1>7, PageStep DEF QueryArrives, StoreInv, Inv, PageTypes

\* The user's choices on the page: each is one method of the store.
LEMMA UserIsACaller == User \in Callers /\ Sample \in Callers
BY DEF Callers

LEMMA ChooseSchemaKeeps ==
  ASSUME Inv, NEW schema \in Schemas, ChooseSchema(schema), MysqlAssumption
  PROVE  Inv'
<1> DEFINE t == SelectSchema(w, schema, User, NoTable)
<1>1. w' = t /\ UNCHANGED providerVars /\ UNCHANGED <<applying, seeding>>
  BY DEF ChooseSchema, OnPage
<1>2. StoreInv(t) /\ Grows(w, t, User)
  BY UserIsACaller, SelectSchemaFacts DEF Inv, StoreInv, Half
<1> HIDE DEF t
<1>3. w'.session = w.session /\ By(w)' \subseteq By(w) \cup {User}
  BY <1>1, <1>2 DEF Grows, By
<1> QED BY <1>1, <1>2, <1>3, PageStep DEF Inv, PageTypes

LEMMA ChooseTableKeeps ==
  ASSUME Inv, NEW name \in TableNames, ChooseTable(name), MysqlAssumption
  PROVE  Inv'
<1> DEFINE place == [schema |-> w.schema, table |-> name]
           t == SelectTable(w, place, User)
<1>1. w' = t /\ UNCHANGED providerVars /\ UNCHANGED <<applying, seeding>>
  BY DEF ChooseTable, OnPage
<1>2. place \in Places
  BY DEF ChooseTable, Places, Inv, StoreInv, Half, Sound, Store
<1> HIDE DEF place
<1>3. StoreInv(t) /\ Grows(w, t, User)
  BY <1>2, UserIsACaller, SelectTableFacts DEF Inv, StoreInv
<1> HIDE DEF t
<1>4. w'.session = w.session /\ By(w)' \subseteq By(w) \cup {User}
  BY <1>1, <1>3 DEF Grows, By
<1> QED BY <1>1, <1>3, <1>4, PageStep DEF Inv, PageTypes

LEMMA ApplyBrowseOptionsKeeps ==
  ASSUME Inv, NEW f \in FilterOf, ApplyBrowseOptions(f), MysqlAssumption
  PROVE  Inv'
<1> DEFINE u == [w EXCEPT !.filter = f]
           t == LoadTableRows(u, TRUE, User)
<1>1. w' = t /\ UNCHANGED providerVars /\ UNCHANGED <<applying, seeding>>
  BY DEF ApplyBrowseOptions, OnPage
<1>2. /\ u \in Store
      /\ u.schemaLoads = w.schemaLoads /\ u.rowLoads = w.rowLoads /\ u.queries = w.queries
      /\ u.session = w.session /\ u.table = w.table /\ u.schema = w.schema
      /\ u.isLoadingRows = w.isLoadingRows /\ u.result = w.result /\ u.query = w.query
      /\ u.edits = w.edits /\ u.dragged = w.dragged /\ u.misled = w.misled
  BY DEF Inv, StoreInv, Half, Sound, Store
<1> HIDE DEF u
<1>3. Sound(u) /\ SelOk(u) /\ EditsOk(u)
  BY <1>2 DEF Inv, StoreInv, Half, Sound, SelOk, EditsOk, NewestRows, NewestOfQueries
<1>4. StoreInv(t) /\ Grows(u, t, User)
  BY <1>3, UserIsACaller, LoadTableRowsFacts DEF StoreInv, Half
<1> HIDE DEF t
<1>5. w'.session = w.session /\ By(w)' \subseteq By(w) \cup {User}
  BY <1>1, <1>2, <1>4 DEF Grows, By
<1> QED BY <1>1, <1>4, <1>5, PageStep DEF Inv, PageTypes

LEMMA LoadMoreRowsKeeps ==
  ASSUME Inv, LoadMoreRows, MysqlAssumption
  PROVE  Inv'
<1> DEFINE t == LoadTableRows(w, FALSE, User)
<1>1. w' = t /\ UNCHANGED providerVars /\ UNCHANGED <<applying, seeding>> /\ ~w.isLoadingRows
  BY DEF LoadMoreRows, OnPage
<1>2. StoreInv(t) /\ Grows(w, t, User)
  BY <1>1, UserIsACaller, LoadTableRowsFacts DEF Inv, StoreInv, Half
<1> HIDE DEF t
<1>3. w'.session = w.session /\ By(w)' \subseteq By(w) \cup {User}
  BY <1>1, <1>2 DEF Grows, By
<1> QED BY <1>1, <1>2, <1>3, PageStep DEF Inv, PageTypes

LEMMA RunQueryKeeps ==
  ASSUME Inv, NEW text \in Queries, RunQuery(text), MysqlAssumption
  PROVE  Inv'
<1> DEFINE q == [session |-> w.session, text |-> text]
           new == [of |-> q, latest |-> TRUE, sent |-> Connected(w.session)]
           rest == Outdated(w.queries)
<1>a. w \in Store /\ w.queries \in SUBSET QueryLoad
  BY DEF Inv, StoreInv, Half, Sound, Store
<1>1. /\ w' = [w EXCEPT !.isRunningQuery = TRUE, !.result = NoResult, !.query = q,
                       !.queries = rest \cup {new}]
      /\ UNCHANGED providerVars /\ UNCHANGED <<applying, seeding>>
  BY DEF RunQuery, OnPage
<1>2. q \in QueryText
  BY <1>a DEF RunQuery, QueryText, Store
<1>3. new \in QueryLoad /\ new.of = q
  BY <1>2 DEF QueryLoad, Connected
<1>4. rest \in SUBSET QueryLoad /\ \A l \in rest : ~l.latest
  BY <1>a, OutdatedQueries
<1> HIDE DEF q, new, rest
<1>5. /\ w' \in Store /\ w'.queries = rest \cup {new} /\ w'.result = NoResult /\ w'.query = q
      /\ w'.schemaLoads = w.schemaLoads /\ w'.rowLoads = w.rowLoads
      /\ w'.session = w.session /\ w'.table = w.table /\ w'.filter = w.filter
      /\ w'.schema = w.schema /\ w'.isLoadingRows = w.isLoadingRows
      /\ w'.rows = w.rows /\ w'.offset = w.offset
      /\ w'.edits = w.edits /\ w'.dragged = w.dragged
      /\ w'.misled = w.misled /\ w'.failed = w.failed
  <2>1. rest \cup {new} \in SUBSET QueryLoad
    BY <1>3, <1>4
  <2> QED BY <2>1, <1>1, <1>2, <1>a DEF Store
<1>6. ViewOf(w') = ViewOf(w) /\ Stale(w') = Stale(w)
  BY <1>5 DEF ViewOf, Stale
<1>7. RowsInv(w')
  <2>1. RowsOk(w') = RowsOk(w)
    BY <1>5, <1>6 DEF RowsOk
  <2> QED BY <2>1, <1>5, <1>6 DEF Inv, StoreInv, RowsInv
<1>8. Half(w')
  <2>1. NewestOfQueries(w') /\ AtMostOne(w'.queries)
    BY <1>3, <1>4, <1>5 DEF NewestOfQueries, AtMostOne
  <2> QED BY <2>1, <1>5, <1>6 DEF Inv, StoreInv, Half, Sound, Viewed, SelOk, EditsOk, NewestRows
<1>9. By(w)' = By(w)
  BY <1>5 DEF By
<1> QED BY <1>1, <1>5, <1>7, <1>8, <1>9, PageStep DEF StoreInv, Inv, PageTypes

LEMMA StageEditKeeps ==
  ASSUME Inv, StageEdit, MysqlAssumption
  PROVE  Inv'
<1> DEFINE edits == w.edits \cup {w.table}
<1>1. /\ w' = [w EXCEPT !.edits = edits] /\ w.table # NoTable
      /\ UNCHANGED providerVars /\ UNCHANGED <<applying, seeding>>
  BY DEF StageEdit, OnPage
<1>2. w \in Store /\ edits \in SUBSET Places
  BY <1>1 DEF Inv, StoreInv, Half, Sound, Store
<1> HIDE DEF edits
<1>3. /\ w' \in Store /\ w'.edits = edits
      /\ w'.schemaLoads = w.schemaLoads /\ w'.rowLoads = w.rowLoads /\ w'.queries = w.queries
      /\ w'.session = w.session /\ w'.table = w.table /\ w'.filter = w.filter
      /\ w'.schema = w.schema /\ w'.isLoadingRows = w.isLoadingRows
      /\ w'.rows = w.rows /\ w'.offset = w.offset /\ w'.result = w.result
      /\ w'.query = w.query /\ w'.dragged = w.dragged
      /\ w'.misled = w.misled /\ w'.failed = w.failed
  BY <1>1, <1>2 DEF Store
<1>4. ViewOf(w') = ViewOf(w) /\ Stale(w') = Stale(w)
  BY <1>3 DEF ViewOf, Stale
<1>5. RowsInv(w')
  <2>1. RowsOk(w') = RowsOk(w)
    BY <1>3, <1>4 DEF RowsOk
  <2> QED BY <2>1, <1>3, <1>4 DEF Inv, StoreInv, RowsInv
<1>6. Half(w')
  <2>1. EditsOk(w')
    BY <1>3 DEF Inv, StoreInv, Half, EditsOk, edits
  <2> QED BY <2>1, <1>3, <1>4 DEF Inv, StoreInv, Half, Sound, Viewed, SelOk, NewestRows,
                                   NewestOfQueries
<1>7. By(w)' = By(w)
  BY <1>3 DEF By
<1> QED BY <1>1, <1>3, <1>5, <1>6, <1>7, PageStep DEF StoreInv, Inv, PageTypes

LEMMA EditsAppliedKeeps ==
  ASSUME Inv, NEW ok \in BOOLEAN, EditsApplied(ok), MysqlAssumption
  PROVE  Inv'
<1> DEFINE c == ClearAll(w)
           t == LoadTableRows(c, TRUE, User)
<1>1. /\ w' = IF ok THEN t ELSE w
      /\ applying' = FALSE /\ UNCHANGED providerVars /\ UNCHANGED seeding
  BY DEF EditsApplied
<1>2. Half(c) /\ By(c) = By(w) /\ c.session = w.session
  BY ClearAllFacts DEF Inv, StoreInv, Half, Sound
<1> HIDE DEF c
<1>3. StoreInv(t) /\ Grows(c, t, User)
  BY <1>2, UserIsACaller, LoadTableRowsFacts DEF StoreInv, Half
<1> HIDE DEF t
<1>4. StoreInv(w') /\ w'.session = w.session /\ By(w)' \subseteq By(w) \cup {User}
  BY <1>1, <1>2, <1>3 DEF Grows, By, Inv
<1> QED BY <1>1, <1>4, PageStep

LEMMA LoadSampleDataKeeps ==
  ASSUME Inv, LoadSampleData, MysqlAssumption
  PROVE  Inv'
<1>1. /\ w' = [w EXCEPT !.isSeeding = TRUE]
      /\ seeding = NoSeeding /\ seeding' = [schema |-> w.schema, seeded |-> FALSE]
      /\ UNCHANGED providerVars /\ UNCHANGED applying
      /\ w \in Store /\ w.schema \in Schemas
  BY DEF LoadSampleData, OnPage, Inv, StoreInv, Half, Sound, Store
<1>2. Alike(w, w')
  BY <1>1 DEF Alike, Store
<1>3. StoreInv(w') /\ By(w') = By(w) /\ w'.session = w.session
  BY <1>2, AlikeFacts DEF Inv
<1>4. By(w)' = By(w)
  BY <1>3 DEF By
<1>5. ProviderInv'
  BY <1>1, <1>3, <1>4, PageKeepsProvider DEF Inv
<1>6. PageTypes' /\ SeedInv'
  BY <1>1, <1>4 DEF Inv, PageTypes, SeedInv, Seeding
<1> QED BY <1>3, <1>5, <1>6 DEF Inv

LEMMA SampleSeededKeeps ==
  ASSUME Inv, NEW ok \in BOOLEAN, SampleSeeded(ok), MysqlAssumption
  PROVE  Inv'
<1>a. /\ seeding \in Seeding /\ ~seeding.seeded /\ seeding.schema \in Schemas
      /\ Sample \notin By(w) /\ UNCHANGED providerVars /\ UNCHANGED applying
      /\ w \in Store
  BY DEF SampleSeeded, Inv, PageTypes, SeedInv, Seeding, StoreInv, Half, Sound
<1>1. SUFFICES ASSUME StoreInv(w'), w'.session = w.session, By(w') \subseteq By(w) \cup {Sample},
                      PageTypes', SeedInv'
               PROVE  Inv'
  <2>1. /\ StoreInv(w') /\ w'.session = w.session /\ By(w') \subseteq By(w) \cup {Sample}
        /\ PageTypes' /\ SeedInv'
    <3>1. CASE ok /\ w.session # NoSession
      <4> DEFINE t == SelectSchema(w, seeding.schema, Sample, NoTable)
      <4>1. w' = t /\ seeding' = [seeding EXCEPT !.seeded = TRUE]
        BY <3>1 DEF SampleSeeded
      <4>2. StoreInv(t) /\ Grows(w, t, Sample)
        BY <1>a, UserIsACaller, SelectSchemaFacts DEF Inv, StoreInv, Half
      <4> HIDE DEF t
      <4>3. seeding' \in Seeding /\ seeding'.seeded
        BY <4>1, <1>a DEF Seeding
      <4>4. SeedInv' /\ PageTypes'
        <5>1. SeedInv' = (Sample \in By(w)' => seeding' # NoSeeding /\ seeding'.seeded)
          BY DEF SeedInv
        <5>2. seeding' # NoSeeding
          BY <4>3 DEF MysqlAssumption, Seeding
        <5> QED BY <4>3, <5>1, <5>2, <1>a DEF PageTypes, Inv
      <4> QED BY <4>1, <4>2, <4>4 DEF Grows
    <3>2. CASE ok /\ w.session = NoSession
      <4> DEFINE t == Sampled(w, seeding.schema)
      <4>1. w' = [t EXCEPT !.isSeeding = FALSE] /\ seeding' = NoSeeding
        BY <3>2 DEF SampleSeeded
      <4>2. StoreInv(t) /\ Grows(w, t, Sample)
        BY <1>a, SampledFacts DEF Inv
      <4> HIDE DEF t
      <4>3. Alike(t, w')
        BY <4>1, <4>2 DEF Alike, StoreInv, Half, Sound, Store
      <4>4. StoreInv(w') /\ By(w') = By(t) /\ w'.session = t.session
        BY <4>2, <4>3, AlikeFacts
      <4>5. By(w)' \subseteq By(w)
        BY <4>2, <4>4, <3>2 DEF Grows, By
      <4> QED BY <4>1, <4>2, <4>4, <4>5, <1>a DEF Grows, SeedInv, PageTypes, Inv
    <3>3. CASE ~ok
      <4>1. w' = [w EXCEPT !.isSeeding = FALSE] /\ seeding' = NoSeeding
        BY <3>3 DEF SampleSeeded
      <4>2. Alike(w, w')
        BY <4>1, <1>a DEF Alike, Store
      <4>3. StoreInv(w') /\ By(w') = By(w) /\ w'.session = w.session
        BY <4>2, AlikeFacts DEF Inv
      <4>4. By(w)' = By(w)
        BY <4>3 DEF By
      <4> QED BY <4>1, <4>3, <4>4, <1>a DEF SeedInv, PageTypes, Inv
    <3> QED BY <3>1, <3>2, <3>3
  <2> QED BY <2>1, <1>1
<1>2. By(w)' \subseteq By(w) \cup {User, Sample}
  BY <1>1 DEF By
<1>3. ProviderInv'
  BY <1>a, <1>1, <1>2, PageKeepsProvider DEF Inv
<1> QED BY <1>1, <1>3 DEF Inv

(***************************************************************************)
(* The invariant, and what it implies                                      *)
(***************************************************************************)
LEMMA InitInv ==
  ASSUME Init, MysqlAssumption
  PROVE  Inv
<1>1. w = EmptyStore /\ w \in Store
  <2>1. <<>> \in Seq(PageShown) /\ 0 \in 0 .. Pages /\ NoFilter \in FilterOf
    BY DEF MysqlAssumption, FilterOf
  <2> QED BY <2>1 DEF Init, EmptyStore, Store
<1>2. /\ w.schemaLoads = {} /\ w.rowLoads = {} /\ w.queries = {} /\ w.result = NoResult
      /\ w.table = NoTable
  BY <1>1 DEF EmptyStore
<1>3. StoreInv(w)
  BY <1>1, <1>2 DEF StoreInv, Half, Sound, Viewed, SelOk, EditsOk, RowsInv, AtMostOne,
                    NewestRows, NewestOfQueries
<1>4. By(w) = {}
  BY <1>2 DEF By
<1>5. PageTypes /\ SeedInv
  BY <1>4 DEF Init, PageTypes, SeedInv
<1>6. BudgetInv
  <2>1. Connecting = {}
    BY DEF Init, Connecting
  <2>2. Cardinality(Connecting) = 0 /\ IsFiniteSet(attempts)
    BY <2>1, FS_EmptySet DEF Init
  <2>3. sessions = 0 /\ MaxSessions \in Nat
    BY DEF Init, MysqlAssumption
  <2> HIDE DEF Init
  <2> QED BY <2>2, <2>3 DEF BudgetInv
<1>7. ProviderTypes
  <2>1. draft \in {NoDraft} \cup [conn : Conns, table : Places \cup {NoTable}]
    BY DEF Init
  <2>2. /\ session = NoSession /\ clients = {} /\ attempts = {} /\ isLoading = FALSE
        /\ open = FALSE /\ sessions = 0 /\ astray = FALSE /\ MaxSessions \in Nat
    BY DEF Init, MysqlAssumption
  <2>3. sessions \in 0 .. MaxSessions
    BY <2>2
  <2> HIDE DEF Init
  <2> QED BY <2>1, <2>2, <2>3 DEF ProviderTypes
<1>8. SlotInv /\ AttemptInv
  BY <1>4 DEF Init, SlotInv, AttemptInv
<1> QED BY <1>3, <1>5, <1>6, <1>7, <1>8 DEF Inv, ProviderInv

LEMMA NextKeepsInv ==
  ASSUME Inv, [Next]_vars, MysqlAssumption
  PROVE  Inv'
<1>1. CASE UserActs
  <2>1. ASSUME NEW c \in Conns, SelectProfile(c) PROVE Inv'
    BY <2>1, SelectProfileKeeps
  <2>2. ASSUME NEW c \in Conns, OpenRecentItem(c) PROVE Inv'
    BY <2>2, AttemptKeeps DEF OpenRecentItem
  <2>3. ASSUME NEW c \in Conns, RemoveProfile(c) PROVE Inv'
    BY <2>3, RemoveProfileKeeps
  <2>4. CASE ConnectWorkspaceDraft
    <3>1. draft.conn \in Conns
      BY <2>4 DEF ConnectWorkspaceDraft, Inv, ProviderInv, ProviderTypes
    <3> QED BY <2>4, <3>1, AttemptKeeps DEF ConnectWorkspaceDraft, Inv, ProviderInv, ProviderTypes
  <2>5. CASE ClearWorkspaceDraft
    BY <2>5, ClearKeeps DEF ClearWorkspaceDraft
  <2>6. ASSUME NEW schema \in Schemas, ChooseSchema(schema) PROVE Inv'
    BY <2>6, ChooseSchemaKeeps
  <2>7. ASSUME NEW t \in TableNames, ChooseTable(t) PROVE Inv'
    BY <2>7, ChooseTableKeeps
  <2>8. ASSUME NEW f \in FilterOf, ApplyBrowseOptions(f) PROVE Inv'
    BY <2>8, ApplyBrowseOptionsKeeps
  <2>9. CASE LoadMoreRows
    BY <2>9, LoadMoreRowsKeeps
  <2>10. ASSUME NEW text \in Queries, RunQuery(text) PROVE Inv'
    BY <2>10, RunQueryKeeps
  <2>11. CASE StageEdit
    BY <2>11, StageEditKeeps
  <2>12. CASE ApplyPendingEdits
    BY <2>12, PageStep DEF ApplyPendingEdits, OnPage, Inv, By
  <2>13. CASE LoadSampleData
    BY <2>13, LoadSampleDataKeeps
  <2> QED
    BY <1>1, <2>1, <2>2, <2>3, <2>4, <2>5, <2>6, <2>7, <2>8, <2>9, <2>10, <2>11, <2>12, <2>13
    DEF UserActs
<1>2. CASE Replies
  <2>1. ASSUME NEW a \in attempts, NEW ok \in BOOLEAN, Connects(a, ok) PROVE Inv'
    BY <2>1, ConnectsKeeps
  <2>2. ASSUME NEW a \in attempts, NEW schema \in Schemas, NEW ok \in BOOLEAN,
               SchemasListed(a, schema, ok)
        PROVE  Inv'
    BY <2>2, SchemasListedKeeps
  <2>3. ASSUME NEW l \in w.schemaLoads, NEW ok \in BOOLEAN, SchemaArrives(l, ok) PROVE Inv'
    BY <2>3, SchemaArrivesKeeps
  <2>4. ASSUME NEW l \in w.rowLoads, NEW ok \in BOOLEAN, RowsArrive(l, ok) PROVE Inv'
    BY <2>4, RowsArriveKeeps
  <2>5. ASSUME NEW q \in w.queries, NEW ok \in BOOLEAN, QueryArrives(q, ok) PROVE Inv'
    BY <2>5, QueryArrivesKeeps
  <2>6. ASSUME NEW ok \in BOOLEAN, EditsApplied(ok) PROVE Inv'
    BY <2>6, EditsAppliedKeeps
  <2>7. ASSUME NEW ok \in BOOLEAN, SampleSeeded(ok) PROVE Inv'
    BY <2>7, SampleSeededKeeps
  <2> QED
    BY <1>2, <2>1, <2>2, <2>3, <2>4, <2>5, <2>6, <2>7 DEF Replies
<1>3. CASE UNCHANGED vars
  BY <1>3 DEF vars, Inv, PageTypes, SeedInv, By, ProviderInv, ProviderTypes, BudgetInv, Connecting,
              SlotInv, AttemptInv
<1> QED BY <1>1, <1>2, <1>3 DEF Next

ActsOk == acts \in 0 .. MaxActs

LEMMA Invariance == Spec => [](Inv /\ ActsOk)
<1> USE MysqlAssumption
<1>1. Init => Inv /\ ActsOk
  <2>1. Init => ActsOk
    BY DEF Init, ActsOk, MysqlAssumption
  <2> QED BY <2>1, InitInv
<1>2. Inv /\ ActsOk /\ [Next]_vars => Inv' /\ ActsOk'
  <2> SUFFICES ASSUME Inv, ActsOk, [Next]_vars PROVE Inv' /\ ActsOk'
    OBVIOUS
  <2>1. ActsOk'
    BY DEF ActsOk, Next, vars, MysqlAssumption
  <2> QED BY <2>1, NextKeepsInv
<1> QED BY <1>1, <1>2, PTL DEF Spec

\* At most one load of a kind is the newest one.
LEMMA OneNewest ==
  ASSUME NEW loads, AtMostOne(loads)
  PROVE  Cardinality({l \in loads : l.latest}) <= 1
<1> DEFINE S == {l \in loads : l.latest}
<1>1. CASE S = {}
  BY <1>1, FS_EmptySet
<1>2. ASSUME NEW l \in S PROVE Cardinality(S) <= 1
  <2>1. l \in loads /\ l.latest
    BY <1>2
  <2>2. \A m \in S : m = l
    BY <2>1 DEF AtMostOne
  <2>3. S = {l}
    BY <1>2, <2>2
  <2> HIDE DEF S
  <2>4. Cardinality({l}) = 1
    BY FS_Singleton
  <2> QED BY <2>3, <2>4
<1> QED BY <1>1, <1>2

LEMMA InvImpliesTypeOK ==
  ASSUME Inv, ActsOk
  PROVE  TypeOK
<1>1. w \in Store /\ AtMostOne(w.schemaLoads) /\ AtMostOne(w.rowLoads) /\ AtMostOne(w.queries)
  BY DEF Inv, StoreInv, Half, Sound
<1>2. \A loads \in {w.schemaLoads, w.rowLoads, w.queries} :
        Cardinality({l \in loads : l.latest}) <= 1
  BY <1>1, OneNewest
<1>3. /\ w.session \in Session \cup {NoSession} /\ w.schema \in Schemas \cup {NoSchema}
      /\ w.table \in Places \cup {NoTable} /\ w.filter \in FilterOf
      /\ w.rows \in Seq([view : View, page : 1 .. Pages])
      /\ w.total \in 0 .. Pages /\ w.offset \in 0 .. Pages
      /\ w.edits \subseteq Places
  BY <1>1 DEF Store, PageShown
<1>4. /\ \A l \in w.schemaLoads : l.by \in Callers /\ l.then \in Places \cup {NoTable}
      /\ \A l \in w.rowLoads : l.by \in Callers /\ l.view \in View
  BY <1>1 DEF Store, SchemaLoad, RowLoad
<1>5. /\ draft \in {NoDraft} \cup [conn : Conns, table : Places \cup {NoTable}]
      /\ session \in Session \cup {NoSession} /\ clients \subseteq Conns
      /\ attempts \subseteq AttemptRecord
      /\ {isLoading, open, applying, astray} \subseteq BOOLEAN
      /\ acts \in 0 .. MaxActs /\ sessions \in 0 .. MaxSessions
      /\ seeding \in {NoSeeding} \cup [schema : Schemas, seeded : BOOLEAN]
  BY DEF Inv, ProviderInv, ProviderTypes, PageTypes, Seeding, ActsOk
<1> QED BY <1>2, <1>3, <1>4, <1>5 DEF TypeOK, AttemptRecord

\* The provider, the store and the page keep their types, and of the loads of a kind at
\* most one is awaited, for any number of attempts and loads (the request ids of
\* MysqlWorkspaceStore).
THEOREM TypesHold == Spec => []TypeOK
<1>1. Inv /\ ActsOk => TypeOK
  BY InvImpliesTypeOK
<1> QED BY <1>1, Invariance, PTL

\* Whatever order answers come in, a grid that is not loading shows the first pages of the
\* table, the filter and the session that are selected (loadTableRows, selectTable,
\* openWorkspace).
THEOREM GridIsOfTheView == Spec => []RowsAreOfTheView
<1>1. Inv => RowsAreOfTheView
  <2>1. Inv => (Stale(w) => Opening)
    BY DEF Inv, ProviderInv, SlotInv, Stale, Opening, By
  <2> QED BY <2>1 DEF Inv, StoreInv, RowsInv, RowsOk, RowsAreOfTheView
<1> QED BY <1>1, Invariance, PTL

\* The table in the grid is of the schema in the sidebar (selectSchema, selectTable).
THEOREM SelectionHolds == Spec => []SelectionIsConsistent
<1>1. Inv => SelectionIsConsistent
  BY DEF Inv, StoreInv, Half, SelOk, SelectionIsConsistent
<1> QED BY <1>1, Invariance, PTL

\* Pending edits are those of the selected table (selectTable clears the others).
THEOREM EditsHold == Spec => []EditsAreOfTheSelection
<1>1. Inv => EditsAreOfTheSelection
  BY DEF Inv, StoreInv, Half, EditsOk, EditsAreOfTheSelection
<1> QED BY <1>1, Invariance, PTL

\* No connection is left open without a session or an attempt, and a workspace on screen
\* has its session (connectWorkspaceDraft, clearWorkspaceDraft, removeProfile).
THEOREM ConnectionsHold == Spec => []ConnectionsHaveTheirUse
<1>1. Inv => ConnectionsHaveTheirUse
  BY DEF Inv, ProviderInv, AttemptInv, ConnectionsHaveTheirUse
<1> QED BY <1>1, Invariance, PTL

\* The result on show is the one of the query run last in this session (runQuery).
THEOREM NewestQueryHolds == Spec => []NewestQueryWins
<1>1. Inv => NewestQueryWins
  BY DEF Inv, StoreInv, Half, Sound, NewestOfQueries, NewestQueryWins
<1> QED BY <1>1, Invariance, PTL
=============================================================================
