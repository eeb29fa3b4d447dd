------------------------- MODULE RedisWorkspaceProofs -------------------------
(***************************************************************************)
(* What RedisWorkspace keeps for any targets, keys, types, patterns and    *)
(* bounds.                                                                 *)
(*                                                                         *)
(* StoreInv is what every method of the store keeps. Of its two halves,    *)
(* the list and the key on show, a method changes one at a time (SameList, *)
(* SameKey). Mine, which accounts for every key of the list, holds until a *)
(* mutation outlives its session. MutationInv ties the loads that          *)
(* mutations wait for to the mutations, ExportInv says how far an export   *)
(* has got.                                                                *)
(***************************************************************************)
EXTENDS RedisWorkspace, FiniteSetTheorems, SequenceTheorems, TLAPS

ScanLoad == [view : View, cursor : 0 .. NKeys - 1, reset : BOOLEAN, latest : BOOLEAN]
KeyLoad  == [session : Session, key : Keys, kind : Kinds \cup {NoKind, NoKey},
             by : Callers, latest : BOOLEAN]
Part     == [view : View, cursor : 0 .. NKeys - 1, found : SUBSET Keys]

Store ==
  [session : Session \cup {NoSession}, keys : SUBSET Keys,
   selected : Keys \cup {NoKey}, details : Details \cup {NoDetails},
   cursor : 0 .. NKeys - 1, pattern : SUBSET Keys,
   scans : SUBSET ScanLoad, keyLoads : SUBSET KeyLoad,
   isLoadingKeys : BOOLEAN, isLoadingKey : BOOLEAN, isMutating : BOOLEAN,
   scanned : SUBSET Part, saved : SUBSET Keys, removed : SUBSET Keys,
   scanFailed : BOOLEAN, keyFailed : BOOLEAN]

AtMostOne(loads) == \A l, m \in loads : l.latest /\ m.latest => l = m

\* The list: the newest scan has its spinner, it goes on where the list ends, and the list
\* is what was scanned, unless it is about to be replaced.
NewestScan(s) == AtMostOne(s.scans) /\ \A l \in s.scans : l.latest => s.isLoadingKeys
StartsAnew(s) == s.scanFailed \/ \E l \in s.scans : l.latest /\ l.reset
Continues(s) ==
  s.session # NoSession =>
    \A l \in s.scans : l.latest =>
      /\ l.view = ViewOf(s)
      /\ l.reset => l.cursor = 0
      /\ ~l.reset => l.cursor = s.cursor /\ s.cursor # 0
UpTo(s) == IF s.cursor = 0 THEN NKeys ELSE s.cursor
OfTheView(s) ==
  /\ \A p \in s.scanned : p.view = ViewOf(s)
  /\ {p.cursor : p \in s.scanned} = 0 .. UpTo(s) - 1
AllFound(s) == UNION {p.found : p \in s.scanned}
Accounted(s) ==
  /\ s.keys \subseteq AllFound(s) \cup s.saved
  /\ AllFound(s) \subseteq s.keys \cup s.removed
Listed(s) == s.session # NoSession => OfTheView(s) \/ StartsAnew(s)
Mine(s)   == s.session # NoSession => Accounted(s) \/ StartsAnew(s)

\* The key on show: the newest load of a key is of the selected one.
NewestKey(s) ==
  /\ AtMostOne(s.keyLoads)
  /\ \A l \in s.keyLoads : l.latest =>
       s.isLoadingKey /\ (s.details # NoDetails => l.key = s.selected /\ l.session = s.session)
Shown(s) == ~s.isLoadingKey /\ ~s.keyFailed /\ s.details # NoDetails
              => s.details.key = s.selected
OneLoadEach(loads) == \A l, m \in loads : l.by = m.by /\ l.by \in Nat => l = m

ListInv(s)  == NewestScan(s) /\ Continues(s) /\ Listed(s)
KeyInv(s)   == NewestKey(s) /\ Shown(s) /\ OneLoadEach(s.keyLoads)
StoreInv(s) == s \in Store /\ ListInv(s) /\ KeyInv(s)

SameList(s, t) ==
  /\ t.session = s.session /\ t.keys = s.keys /\ t.cursor = s.cursor
  /\ t.pattern = s.pattern /\ t.scans = s.scans /\ t.isLoadingKeys = s.isLoadingKeys
  /\ t.scanned = s.scanned /\ t.scanFailed = s.scanFailed
  /\ t.saved = s.saved /\ t.removed = s.removed
SameKey(s, t) ==
  /\ t.session = s.session /\ t.selected = s.selected /\ t.details = s.details
  /\ t.keyLoads = s.keyLoads /\ t.isLoadingKey = s.isLoadingKey
  /\ t.keyFailed = s.keyFailed

(***************************************************************************)
(* The store's methods                                                     *)
(***************************************************************************)
\* A list that stays is as good as it was.
LEMMA SameListKeeps ==
  ASSUME NEW s, NEW t, SameList(s, t)
  PROVE  /\ ListInv(s) => ListInv(t)
         /\ Mine(s) => Mine(t)
<1>1. ViewOf(t) = ViewOf(s)
  BY DEF SameList, ViewOf
<1> QED
  BY <1>1 DEF SameList, ListInv, NewestScan, Continues, Listed, Mine, StartsAnew,
                   OfTheView, AllFound, Accounted, UpTo

LEMMA SameKeyKeeps ==
  ASSUME NEW s, NEW t, SameKey(s, t), KeyInv(s)
  PROVE  KeyInv(t)
BY DEF SameKey, KeyInv, NewestKey, Shown

\* A scan that is overtaken keeps everything but its place as the newest.
LEMMA OutdatedScans ==
  ASSUME NEW loads \in SUBSET ScanLoad
  PROVE  /\ Outdated(loads) \in SUBSET ScanLoad
         /\ \A l \in Outdated(loads) : ~l.latest
BY DEF Outdated, ScanLoad

\* So does the load of a key.
LEMMA OutdatedKeyLoads ==
  ASSUME NEW loads \in SUBSET KeyLoad
  PROVE  /\ Outdated(loads) \in SUBSET KeyLoad
         /\ \A l \in Outdated(loads) : ~l.latest
         /\ \A l \in Outdated(loads) : \E m \in loads : m.by = l.by
         /\ OneLoadEach(loads) => OneLoadEach(Outdated(loads))
<1> DEFINE Old(l) == [l EXCEPT !.latest = FALSE]
<1>1. \A l \in loads : Old(l) \in KeyLoad /\ Old(l).by = l.by /\ ~Old(l).latest
  BY DEF KeyLoad
<1>2. \A l \in Outdated(loads) : \E m \in loads : l = Old(m)
  BY DEF Outdated
<1> HIDE DEF Old
<1>3. OneLoadEach(loads) => OneLoadEach(Outdated(loads))
  BY <1>1, <1>2 DEF OneLoadEach
<1> QED BY <1>1, <1>2, <1>3

\* A scan is sent.
LEMMA LoadKeysFacts ==
  ASSUME NEW s \in Store, NEW reset \in BOOLEAN, s.session # NoSession,
         reset \/ ~s.isLoadingKeys
  PROVE  LET t == LoadKeys(s, reset)
             l == [view |-> ViewOf(s), cursor |-> IF reset THEN 0 ELSE s.cursor,
                   reset |-> reset, latest |-> TRUE]
         IN  /\ t \in Store /\ SameKey(s, t)
             /\ t.keys = s.keys /\ t.cursor = s.cursor /\ t.pattern = s.pattern
             /\ t.scanned = s.scanned /\ t.scanFailed = s.scanFailed
             /\ t.saved = s.saved /\ t.removed = s.removed
             /\ t.isMutating = s.isMutating
             /\ t.isLoadingKeys /\ t.scans = Outdated(s.scans) \cup {l}
             /\ l \in ScanLoad /\ ViewOf(s) \in View
<1> DEFINE t == LoadKeys(s, reset)
           l == [view |-> ViewOf(s), cursor |-> IF reset THEN 0 ELSE s.cursor,
                 reset |-> reset, latest |-> TRUE]
           new == Outdated(s.scans) \cup {l}
<1>1. ViewOf(s) \in View
  BY DEF ViewOf, View, Store
<1>2. l \in ScanLoad
  BY <1>1, RedisAssumption DEF ScanLoad, Store
<1>3. new \in SUBSET ScanLoad
  BY <1>2, OutdatedScans DEF Store
<1>4. t = [s EXCEPT !.isLoadingKeys = TRUE, !.scans = new]
  BY DEF LoadKeys, MayLoadKeys
<1> HIDE DEF t, new, l
<1>5. t \in Store /\ SameKey(s, t)
  BY <1>3, <1>4 DEF Store, SameKey
<1>6. /\ t.keys = s.keys /\ t.cursor = s.cursor /\ t.pattern = s.pattern
      /\ t.scanned = s.scanned /\ t.scanFailed = s.scanFailed
      /\ t.saved = s.saved /\ t.removed = s.removed
      /\ t.isMutating = s.isMutating /\ t.isLoadingKeys /\ t.scans = new
  BY <1>4 DEF Store
<1> QED BY <1>1, <1>2, <1>5, <1>6 DEF t, new, l

\* loadKeys(true) makes a list that starts anew, whatever the list was.
LEMMA ResetKeeps ==
  ASSUME NEW s \in Store, s.session # NoSession, KeyInv(s)
  PROVE  LET t == LoadKeys(s, TRUE)
         IN  StoreInv(t) /\ Mine(t) /\ SameKey(s, t) /\ t.isMutating = s.isMutating
<1> DEFINE t == LoadKeys(s, TRUE)
           l == [view |-> ViewOf(s), cursor |-> 0, reset |-> TRUE, latest |-> TRUE]
<1>1. /\ t \in Store /\ SameKey(s, t) /\ t.pattern = s.pattern
      /\ t.isMutating = s.isMutating /\ t.isLoadingKeys
      /\ t.scans = Outdated(s.scans) \cup {l}
  BY LoadKeysFacts
<1>2. \A m \in t.scans : m.latest => m = l
  BY <1>1, OutdatedScans DEF Store
<1>3. ViewOf(t) = ViewOf(s)
  BY <1>1 DEF ViewOf, SameKey
<1> HIDE DEF t
<1>4. l \in t.scans /\ l.latest /\ l.reset /\ l.cursor = 0 /\ l.view = ViewOf(t)
  BY <1>1, <1>3
<1> HIDE DEF l
<1>5. NewestScan(t) /\ Continues(t) /\ StartsAnew(t)
  BY <1>1, <1>2, <1>4 DEF NewestScan, AtMostOne, Continues, StartsAnew
<1>6. KeyInv(t)
  BY <1>1, SameKeyKeeps
<1>7. StoreInv(t) /\ Mine(t)
  BY <1>1, <1>5, <1>6 DEF StoreInv, ListInv, Listed, Mine
<1> QED BY <1>1, <1>7 DEF t

\* loadKeys(false) goes on where the list ends.
LEMMA MoreKeeps ==
  ASSUME NEW s, StoreInv(s), s.session # NoSession, ~s.isLoadingKeys, s.cursor # 0
  PROVE  LET t == LoadKeys(s, FALSE)
         IN  /\ StoreInv(t) /\ SameKey(s, t) /\ t.isMutating = s.isMutating
             /\ Mine(s) => Mine(t)
<1> DEFINE t == LoadKeys(s, FALSE)
           l == [view |-> ViewOf(s), cursor |-> s.cursor, reset |-> FALSE, latest |-> TRUE]
<1>0. s \in Store
  BY DEF StoreInv
<1>1. /\ t \in Store /\ SameKey(s, t) /\ t.pattern = s.pattern /\ t.cursor = s.cursor
      /\ t.keys = s.keys /\ t.scanned = s.scanned /\ t.scanFailed = s.scanFailed
      /\ t.saved = s.saved /\ t.removed = s.removed
      /\ t.isMutating = s.isMutating /\ t.isLoadingKeys
      /\ t.scans = Outdated(s.scans) \cup {l}
  BY <1>0, LoadKeysFacts
<1>2. \A m \in t.scans : m.latest => m = l
  BY <1>0, <1>1, OutdatedScans DEF Store
<1>3. ViewOf(t) = ViewOf(s)
  BY <1>1 DEF ViewOf, SameKey
<1> HIDE DEF t
<1>4. ~l.reset /\ l.cursor = t.cursor /\ t.cursor # 0 /\ l.view = ViewOf(t)
  BY <1>1, <1>3
<1> HIDE DEF l
<1>5. NewestScan(t) /\ Continues(t)
  BY <1>1, <1>2, <1>4 DEF NewestScan, AtMostOne, Continues
<1>6. KeyInv(t)
  BY <1>1, SameKeyKeeps DEF StoreInv
<1>7. StartsAnew(s) => s.scanFailed
  BY DEF StoreInv, ListInv, NewestScan, StartsAnew
<1>8. Listed(t) /\ (Mine(s) => Mine(t))
  BY <1>1, <1>3, <1>7
  DEF StoreInv, ListInv, Listed, Mine, OfTheView, AllFound, Accounted, UpTo, StartsAnew
<1>9. StoreInv(t)
  BY <1>1, <1>5, <1>6, <1>8 DEF StoreInv, ListInv
<1> QED BY <1>1, <1>8, <1>9 DEF t

\* Another session begins with an empty list and nothing selected.
LEMMA SetSessionKeeps ==
  ASSUME NEW s, StoreInv(s), NEW sn \in Session
  PROVE  LET t == SetSession(s, sn)
         IN  /\ StoreInv(t) /\ Mine(t) /\ t.session = sn /\ t.details = NoDetails
             /\ t.keyLoads = Outdated(s.keyLoads)
<1> DEFINE scans == Outdated(s.scans)
           loads == Outdated(s.keyLoads)
           b == [s EXCEPT !.scans = scans, !.keyLoads = loads, !.session = sn,
                          !.keys = {}, !.cursor = 0, !.selected = NoKey,
                          !.details = NoDetails, !.scanned = {}, !.saved = {},
                          !.removed = {}, !.scanFailed = FALSE, !.keyFailed = FALSE]
<1>1. /\ scans \in SUBSET ScanLoad /\ loads \in SUBSET KeyLoad
      /\ (\A l \in loads : ~l.latest) /\ OneLoadEach(loads)
  BY OutdatedScans, OutdatedKeyLoads DEF StoreInv, KeyInv, Store
<1>2. SetSession(s, sn) = LoadKeys(b, TRUE)
  BY DEF SetSession
<1> HIDE DEF scans, loads
<1>3. 0 \in 0 .. NKeys - 1
  BY RedisAssumption
<1>4. b \in Store
  BY <1>1, <1>3 DEF StoreInv, Store
<1>5. b.session = sn /\ b.details = NoDetails /\ b.keyLoads = loads
  BY DEF StoreInv, Store
<1>6. sn # NoSession
  BY RedisAssumption
<1> HIDE DEF b
<1>7. KeyInv(b)
  BY <1>1, <1>5 DEF KeyInv, NewestKey, AtMostOne, Shown
<1> QED BY <1>2, <1>4, <1>5, <1>6, <1>7, ResetKeeps DEF SameKey, loads

\* Back home, the store forgets all but its pattern.
LEMMA ClearKeeps ==
  ASSUME NEW s, StoreInv(s)
  PROVE  LET t == Clear(s)
         IN  /\ StoreInv(t) /\ Mine(t) /\ t.session = NoSession /\ t.details = NoDetails
             /\ t.keyLoads = Outdated(s.keyLoads)
<1> DEFINE t == Clear(s)
<1>1. /\ Outdated(s.scans) \in SUBSET ScanLoad /\ Outdated(s.keyLoads) \in SUBSET KeyLoad
      /\ (\A l \in Outdated(s.scans) : ~l.latest) /\ (\A l \in Outdated(s.keyLoads) : ~l.latest)
      /\ OneLoadEach(Outdated(s.keyLoads))
  BY OutdatedScans, OutdatedKeyLoads DEF StoreInv, KeyInv, Store
<1>2. 0 \in 0 .. NKeys - 1 /\ s.pattern \in SUBSET Keys
  BY RedisAssumption DEF StoreInv, Store
<1>3. t \in Store
  BY <1>1, <1>2 DEF Clear, EmptyStore, Store
<1>4. /\ t.session = NoSession /\ t.details = NoDetails
      /\ t.scans = Outdated(s.scans) /\ t.keyLoads = Outdated(s.keyLoads)
  BY DEF Clear, EmptyStore
<1> HIDE DEF t
<1>5. ListInv(t) /\ Mine(t)
  BY <1>1, <1>4 DEF ListInv, NewestScan, AtMostOne, Continues, Listed, Mine
<1>6. KeyInv(t)
  BY <1>1, <1>4 DEF KeyInv, NewestKey, AtMostOne, Shown
<1> QED BY <1>3, <1>4, <1>5, <1>6 DEF StoreInv, t

\* The page is gone, and nobody follows what it selected.
LEMMA UnfollowedKeeps ==
  ASSUME NEW s, StoreInv(s), s.session = NoSession, s.details = NoDetails
  PROVE  LET t == [s EXCEPT !.keyLoads = Unfollowed(@)]
         IN  /\ StoreInv(t) /\ (Mine(s) => Mine(t))
             /\ t.session = NoSession /\ t.details = NoDetails
             /\ \A l \in t.keyLoads : l.by \notin Nat \/ \E m \in s.keyLoads : m.by = l.by
<1> DEFINE Un(l) == [l EXCEPT !.by = IF l.by = Page THEN Sidebar ELSE l.by]
           loads == Unfollowed(s.keyLoads)
           t == [s EXCEPT !.keyLoads = loads]
<1>1. \A l \in s.keyLoads :
        /\ Un(l) \in KeyLoad /\ Un(l).latest = l.latest
        /\ Un(l).by \in Nat => Un(l).by = l.by /\ Un(l) = l
  BY RedisAssumption DEF StoreInv, Store, KeyLoad, Callers
<1>2. \A m \in loads : \E l \in s.keyLoads : m = Un(l)
  BY DEF Unfollowed
<1>a. \A l, m \in s.keyLoads : l.latest /\ m.latest => l = m
  BY DEF StoreInv, KeyInv, NewestKey, AtMostOne
<1>b. OneLoadEach(s.keyLoads) /\ (\A l \in s.keyLoads : l.latest => s.isLoadingKey)
  BY DEF StoreInv, KeyInv, NewestKey
<1> HIDE DEF Un
<1>3. AtMostOne(loads) /\ (\A m \in loads : m.latest => s.isLoadingKey)
  BY <1>1, <1>2, <1>a, <1>b DEF AtMostOne
<1>4. OneLoadEach(loads)
  BY <1>1, <1>2, <1>b DEF OneLoadEach
<1>5. loads \in SUBSET KeyLoad
  BY <1>1, <1>2
<1>6. \A m \in loads : m.by \notin Nat \/ \E l \in s.keyLoads : l.by = m.by
  BY <1>1, <1>2
<1> HIDE DEF loads
<1>7. /\ t \in Store /\ SameList(s, t) /\ t.details = s.details /\ t.keyLoads = loads
      /\ t.isLoadingKey = s.isLoadingKey /\ t.session = s.session
  BY <1>5 DEF StoreInv, Store, SameList
<1> HIDE DEF t
<1>8. ListInv(t) /\ (Mine(s) => Mine(t))
  BY <1>7, SameListKeeps DEF StoreInv
<1>9. KeyInv(t)
  BY <1>3, <1>4, <1>7 DEF KeyInv, NewestKey, Shown
<1> QED BY <1>6, <1>7, <1>8, <1>9 DEF StoreInv, t, loads

\* A key is selected, by the user or by a mutation that has no load yet.
LEMMA SelectKeyKeeps ==
  ASSUME NEW s, StoreInv(s), s.session # NoSession, NEW key \in Keys, NEW by \in Callers,
         by \in Nat => \A l \in s.keyLoads : l.by # by
  PROVE  LET t == SelectKey(s, key, by)
         IN  /\ StoreInv(t) /\ (Mine(s) => Mine(t))
             /\ t.session = s.session /\ t.details = s.details
             /\ \A l \in t.keyLoads : l.by = by \/ \E m \in s.keyLoads : m.by = l.by
<1> DEFINE t == SelectKey(s, key, by)
           l == [session |-> s.session, key |-> key, kind |-> NoKey, by |-> by, latest |-> TRUE]
           new == Outdated(s.keyLoads) \cup {l}
<1>1. /\ Outdated(s.keyLoads) \in SUBSET KeyLoad
      /\ (\A m \in Outdated(s.keyLoads) : ~m.latest)
      /\ (\A m \in Outdated(s.keyLoads) : \E k \in s.keyLoads : k.by = m.by)
      /\ OneLoadEach(Outdated(s.keyLoads))
  BY OutdatedKeyLoads DEF StoreInv, KeyInv, Store
<1>2. l \in KeyLoad
  BY DEF KeyLoad, StoreInv, Store
<1>3. new \in SUBSET KeyLoad
  BY <1>1, <1>2
<1>4. l.session = s.session /\ l.key = key /\ l.by = by /\ l.latest
  OBVIOUS
<1>5. t = [s EXCEPT !.selected = key, !.isLoadingKey = TRUE, !.keyLoads = new]
  BY DEF SelectKey
<1> HIDE DEF t, l
<1>6. (\A m \in new : m.latest => m = l) /\ OneLoadEach(new)
  BY <1>1, <1>4 DEF OneLoadEach
<1>7. \A m \in new : m.by = by \/ \E k \in s.keyLoads : k.by = m.by
  BY <1>1, <1>4
<1> HIDE DEF new
<1>8. /\ t \in Store /\ SameList(s, t) /\ t.details = s.details
      /\ t.selected = key /\ t.isLoadingKey /\ t.keyLoads = new
  BY <1>3, <1>5 DEF StoreInv, Store, SameList
<1>9. ListInv(t) /\ (Mine(s) => Mine(t))
  BY <1>8, SameListKeeps DEF StoreInv
<1>10. KeyInv(t)
  BY <1>4, <1>6, <1>8 DEF KeyInv, NewestKey, AtMostOne, Shown, SameList
<1> QED BY <1>7, <1>8, <1>9, <1>10 DEF StoreInv, SameList, t

\* SCAN's next cursor: 0 behind the last key.
LEMMA NextCursor ==
  ASSUME NEW c \in 0 .. NKeys - 1
  PROVE  /\ (c + 1) % NKeys \in 0 .. NKeys - 1
         /\ (c + 1) % NKeys = IF c + 1 = NKeys THEN 0 ELSE c + 1
BY RedisAssumption

\* A list stands for one part more.
LEMMA OnePartMore ==
  ASSUME NEW parts, NEW new
  PROVE  /\ {p.cursor : p \in parts \cup {new}} = {p.cursor : p \in parts} \cup {new.cursor}
         /\ UNION {p.found : p \in parts \cup {new}} = (UNION {p.found : p \in parts}) \cup new.found
<1>1. \A x : x \in {p.cursor : p \in parts \cup {new}}
              <=> x \in {p.cursor : p \in parts} \cup {new.cursor}
  BY Zenon
<1>2. \A x : x \in UNION {p.found : p \in parts \cup {new}}
              <=> x \in (UNION {p.found : p \in parts}) \cup new.found
  OBVIOUS
<1> QED BY <1>1, <1>2

\* A scan is answered.
LEMMA KeysReplyKeeps ==
  ASSUME NEW s, StoreInv(s), NEW l \in s.scans, NEW ok \in BOOLEAN
  PROVE  LET t == KeysReply(s, l, ok)
         IN  StoreInv(t) /\ SameKey(s, t) /\ (Mine(s) => Mine(t))
<1> DEFINE t == KeysReply(s, l, ok)
           found == Found(l)
           new == [view |-> l.view, cursor |-> l.cursor, found |-> found]
           part == {new}
           cursor == (l.cursor + 1) % NKeys
           keys == IF l.reset THEN found ELSE s.keys \cup found
           scanned == IF l.reset THEN part ELSE s.scanned \cup part
           saved == IF l.reset THEN {} ELSE s.saved
           removed == IF l.reset THEN {} ELSE s.removed \ found
           failed == s.scanFailed /\ ~l.reset
           loading == s.isLoadingKeys /\ ~l.latest
<1>1. s \in Store /\ l \in ScanLoad
  BY DEF StoreInv, Store
<1>2. l.view \in View /\ l.cursor \in 0 .. NKeys - 1 /\ l.reset \in BOOLEAN /\ l.latest \in BOOLEAN
  BY <1>1 DEF ScanLoad
<1>3. found \in SUBSET Keys
  BY <1>2 DEF Found, Present
<1> HIDE DEF found
<1>4. part \in SUBSET Part /\ new.view = l.view /\ new.cursor = l.cursor /\ new.found = found
  BY <1>2, <1>3 DEF Part
<1>5. keys \in SUBSET Keys /\ saved \in SUBSET Keys /\ removed \in SUBSET Keys
  BY <1>1, <1>3 DEF Store
<1>6. scanned \in SUBSET Part
  BY <1>1, <1>4 DEF Store
<1>7. cursor \in 0 .. NKeys - 1 /\ cursor = IF l.cursor + 1 = NKeys THEN 0 ELSE l.cursor + 1
  BY <1>2, NextCursor
<1>8. failed \in BOOLEAN /\ loading \in BOOLEAN
  BY <1>1, <1>2 DEF Store
<1>a. CASE TakesKeys(s, l) /\ ok
  <2>1. t = [s EXCEPT !.keys = keys, !.cursor = cursor, !.scanned = scanned,
                      !.saved = saved, !.removed = removed,
                      !.scanFailed = failed, !.scans = @ \ {l}, !.isLoadingKeys = loading]
    BY <1>a, <1>1 DEF KeysReply, EndsTheSpinner, Store, found
  <2> HIDE DEF new, t, keys, scanned, saved, removed, cursor, failed, loading
  <2>2. /\ t \in Store /\ SameKey(s, t) /\ t.session = s.session /\ t.pattern = s.pattern
        /\ t.keys = keys /\ t.cursor = cursor /\ t.scanned = scanned
        /\ t.saved = saved /\ t.removed = removed
        /\ t.scanFailed = failed /\ t.scans = s.scans \ {l} /\ t.isLoadingKeys = loading
    BY <2>1, <1>1, <1>5, <1>6, <1>7, <1>8 DEF Store, SameKey
  <2>3. l.latest /\ l.view = ViewOf(s) /\ ViewOf(t) = ViewOf(s)
    BY <1>a, <2>2 DEF TakesKeys, ViewOf
  <2>4. \A m \in t.scans : ~m.latest
    BY <2>2, <2>3 DEF StoreInv, ListInv, NewestScan, AtMostOne
  <2>5. NewestScan(t) /\ Continues(t)
    BY <2>4 DEF NewestScan, AtMostOne, Continues
  <2>6. ~l.reset => (StartsAnew(s) => s.scanFailed)
    BY <2>3 DEF StartsAnew, StoreInv, ListInv, NewestScan, AtMostOne
  <2>7. Mine(s) => Mine(t)
    <3>1. CASE l.reset
      <4>1. t.keys = found /\ t.scanned = part /\ t.saved = {} /\ t.removed = {}
        BY <3>1, <2>2 DEF keys, scanned, saved, removed
      <4>2. AllFound(t) = found
        BY <1>4, <4>1 DEF AllFound
      <4> QED BY <4>1, <4>2 DEF Mine, Accounted
    <3>2. CASE ~l.reset
      <4>1. /\ t.keys = s.keys \cup found /\ t.scanned = s.scanned \cup part
            /\ t.saved = s.saved /\ t.removed = s.removed \ found
        BY <3>2, <2>2 DEF keys, scanned, saved, removed
      <4>2. AllFound(t) = AllFound(s) \cup found
        BY <1>4, <4>1, OnePartMore DEF AllFound
      <4>3. Accounted(s) => Accounted(t)
        BY <4>1, <4>2 DEF Accounted
      <4>4. StartsAnew(s) => StartsAnew(t)
        BY <3>2, <2>2, <2>6 DEF StartsAnew, failed
      <4> QED BY <2>2, <4>3, <4>4 DEF Mine
    <3> QED BY <3>1, <3>2, <1>2
  <2>8. Listed(t)
    <3> SUFFICES ASSUME s.session # NoSession, ~t.scanFailed PROVE OfTheView(t)
      BY <2>2 DEF Listed, StartsAnew, failed
    <3>1. UpTo(t) = l.cursor + 1
      BY <2>2, <1>2, <1>7, RedisAssumption DEF UpTo
    <3>2. \A p \in part : p.view = l.view /\ p.cursor = l.cursor
      BY <1>4
    <3>3. CASE l.reset
      <4>1. l.cursor = 0 /\ 0 .. UpTo(t) - 1 = {0}
        BY <3>1, <3>3, <2>3 DEF StoreInv, ListInv, Continues
      <4>2. t.scanned = part
        BY <3>3, <2>2 DEF scanned
      <4>3. {p.cursor : p \in t.scanned} = {l.cursor}
        BY <1>4, <4>2
      <4> QED BY <3>2, <4>1, <4>2, <4>3, <2>3 DEF OfTheView
    <3>4. CASE ~l.reset
      <4>1. l.cursor = s.cursor /\ s.cursor # 0
        BY <3>4, <2>3 DEF StoreInv, ListInv, Continues
      <4>2. OfTheView(s)
        BY <3>4, <2>2, <2>6 DEF failed, StoreInv, ListInv, Listed
      <4>3. {p.cursor : p \in s.scanned} = 0 .. l.cursor - 1
        BY <4>1, <4>2 DEF OfTheView, UpTo
      <4>4. 0 .. UpTo(t) - 1 = (0 .. l.cursor - 1) \cup {l.cursor}
        BY <3>1, <1>2
      <4>5. t.scanned = s.scanned \cup part
        BY <3>4, <2>2 DEF scanned
      <4>6. {p.cursor : p \in t.scanned} = {p.cursor : p \in s.scanned} \cup {l.cursor}
        BY <1>4, <4>5, OnePartMore
      <4>7. \A p \in t.scanned : p.view = ViewOf(t)
        BY <3>2, <4>2, <4>5, <2>3 DEF OfTheView
      <4> QED BY <4>3, <4>4, <4>6, <4>7 DEF OfTheView
    <3> QED BY <3>3, <3>4, <1>2
  <2>9. KeyInv(t)
    BY <2>2, SameKeyKeeps DEF StoreInv
  <2> QED BY <2>2, <2>5, <2>7, <2>8, <2>9 DEF StoreInv, ListInv, t
<1>b. CASE ~(TakesKeys(s, l) /\ ok)
  <2>1. t = [s EXCEPT !.scanFailed = @ \/ (l.latest /\ l.reset), !.scans = @ \ {l},
                      !.isLoadingKeys = @ /\ ~l.latest]
    BY <1>b, <1>1 DEF KeysReply, EndsTheSpinner, Store
  <2> HIDE DEF t, keys, scanned, cursor
  <2>2. /\ t \in Store /\ SameKey(s, t) /\ t.session = s.session /\ t.pattern = s.pattern
        /\ t.keys = s.keys /\ t.cursor = s.cursor /\ t.scanned = s.scanned
        /\ t.saved = s.saved /\ t.removed = s.removed
        /\ t.scanFailed = (s.scanFailed \/ (l.latest /\ l.reset)) /\ t.scans = s.scans \ {l}
        /\ t.isLoadingKeys = (s.isLoadingKeys /\ ~l.latest)
    BY <2>1, <1>1, <1>2 DEF Store, SameKey
  <2>3. ViewOf(t) = ViewOf(s)
    BY <2>2 DEF ViewOf
  <2>4. NewestScan(t) /\ Continues(t)
    BY <2>2, <2>3 DEF StoreInv, ListInv, NewestScan, AtMostOne, Continues
  <2>5. StartsAnew(s) => StartsAnew(t)
    BY <2>2 DEF StartsAnew
  <2>6. Listed(t) /\ (Mine(s) => Mine(t))
    BY <2>2, <2>3, <2>5
    DEF StoreInv, ListInv, Listed, Mine, OfTheView, AllFound, Accounted, UpTo
  <2>7. KeyInv(t)
    BY <2>2, SameKeyKeeps DEF StoreInv
  <2> QED BY <2>2, <2>4, <2>6, <2>7 DEF StoreInv, ListInv, t
<1> QED BY <1>a, <1>b

\* A key is read, or could not be.
LEMMA KeyReplyKeeps ==
  ASSUME NEW s, StoreInv(s), NEW l \in s.keyLoads, NEW ok \in BOOLEAN, ok => l.kind # NoKey
  PROVE  LET t == KeyReply(s, l, ok)
         IN  /\ StoreInv(t) /\ SameList(s, t) /\ t.isMutating = s.isMutating
             /\ t.keyLoads = s.keyLoads \ {l}
<1> DEFINE t == KeyReply(s, l, ok)
           shown == [key |-> l.key, kind |-> l.kind]
           loads == s.keyLoads \ {l}
           loading == s.isLoadingKey /\ ~l.latest
<1>1. s \in Store /\ l \in KeyLoad
  BY DEF StoreInv, Store
<1>2. ok => shown \in Details
  BY <1>1 DEF KeyLoad, Details
<1>3. loading \in BOOLEAN /\ loads \in SUBSET KeyLoad
  BY <1>1 DEF Store, KeyLoad
<1>4. OneLoadEach(loads) /\ AtMostOne(loads)
  BY DEF StoreInv, KeyInv, NewestKey, OneLoadEach, AtMostOne
<1>5. \A m \in loads : m.latest =>
        /\ ~l.latest /\ s.isLoadingKey
        /\ s.details # NoDetails => m.key = s.selected /\ m.session = s.session
  BY DEF StoreInv, KeyInv, NewestKey, AtMostOne
<1>6. l.latest => /\ s.isLoadingKey
                  /\ s.details # NoDetails => l.key = s.selected /\ l.session = s.session
  BY DEF StoreInv, KeyInv, NewestKey
<1>7. Shown(s)
  BY DEF StoreInv, KeyInv
<1>a. CASE TakesDetails(s, l) /\ ok
  <2>1. t = [s EXCEPT !.details = shown, !.keyFailed = FALSE, !.keyLoads = loads,
                      !.isLoadingKey = loading]
    BY <1>a, <1>1 DEF KeyReply, Store
  <2>2. shown.key = l.key /\ l.key = s.selected /\ l.latest
    BY <1>a DEF TakesDetails
  <2> HIDE DEF t, shown, loads, loading
  <2>3. /\ t \in Store /\ SameList(s, t) /\ t.isMutating = s.isMutating /\ t.keyLoads = loads
        /\ t.details = shown /\ t.selected = s.selected /\ t.isLoadingKey = loading
    BY <2>1, <1>1, <1>2, <1>3, <1>a DEF Store, SameList
  <2>4. ListInv(t)
    BY <2>3, SameListKeeps DEF StoreInv
  <2>5. \A m \in t.keyLoads : ~m.latest
    BY <2>2, <2>3, <1>5
  <2>6. KeyInv(t)
    BY <2>2, <2>3, <2>5, <1>4 DEF KeyInv, NewestKey, Shown
  <2> QED BY <2>3, <2>4, <2>6 DEF StoreInv, t, loads
<1>b. CASE TakesDetails(s, l) /\ ~ok
  <2>1. t = [s EXCEPT !.keyFailed = TRUE, !.keyLoads = loads, !.isLoadingKey = loading]
    BY <1>b, <1>1 DEF KeyReply, Store
  <2>2. l.latest
    BY <1>b DEF TakesDetails
  <2> HIDE DEF t, shown, loads
  <2>3. /\ t \in Store /\ SameList(s, t) /\ t.isMutating = s.isMutating /\ t.keyLoads = loads
        /\ t.keyFailed
    BY <2>1, <1>1, <1>3 DEF Store, SameList
  <2>4. ListInv(t)
    BY <2>3, SameListKeeps DEF StoreInv
  <2>5. KeyInv(t)
    BY <2>2, <2>3, <1>4, <1>5 DEF KeyInv, NewestKey, Shown
  <2> QED BY <2>3, <2>4, <2>5 DEF StoreInv, t, loads
<1>c. CASE ~TakesDetails(s, l)
  <2>1. t = [s EXCEPT !.keyLoads = loads, !.isLoadingKey = loading]
    BY <1>c, <1>1 DEF KeyReply, Store
  <2> HIDE DEF t, shown, loads
  <2>2. /\ t \in Store /\ SameList(s, t) /\ t.isMutating = s.isMutating /\ t.keyLoads = loads
        /\ t.details = s.details /\ t.selected = s.selected /\ t.keyFailed = s.keyFailed
        /\ t.isLoadingKey = loading
    BY <2>1, <1>1, <1>3 DEF Store, SameList
  <2>3. ListInv(t)
    BY <2>2, SameListKeeps DEF StoreInv
  <2>4. l.latest => s.details = NoDetails
    BY <1>c, <1>6 DEF TakesDetails
  <2>5. \A m \in loads : m.latest => loading
    BY <1>5
  <2>6. NewestKey(t) /\ OneLoadEach(t.keyLoads)
    BY <2>2, <2>5, <1>4, <1>5 DEF NewestKey, SameList
  <2>7. Shown(t)
    BY <2>2, <2>4, <1>7 DEF Shown
  <2> QED BY <2>2, <2>3, <2>6, <2>7 DEF StoreInv, KeyInv, t, loads
<1> QED BY <1>a, <1>b, <1>c

\* setString lists its key, and answers for it if the session is still its own.
LEMMA WithKeyKeeps ==
  ASSUME NEW s, StoreInv(s), NEW key \in Keys, NEW sn \in Session
  PROVE  LET t == WithKey(s, key, sn)
         IN  StoreInv(t) /\ SameKey(s, t) /\ (Mine(s) /\ sn = s.session => Mine(t))
<1> DEFINE t == WithKey(s, key, sn)
           keys == s.keys \cup {key}
           saved == s.saved \cup Own(s, sn, key)
           removed == s.removed \ {key}
<1>1. s \in Store
  BY DEF StoreInv
<1>2. /\ keys \in SUBSET Keys /\ saved \in SUBSET Keys /\ removed \in SUBSET Keys
      /\ sn = s.session => saved = s.saved \cup {key}
  BY <1>1 DEF Store, Own
<1>a. CASE t = s
  BY <1>a DEF SameKey
<1>b. CASE t # s
  <2>1. t = [s EXCEPT !.keys = keys, !.saved = saved, !.removed = removed]
    BY <1>b DEF WithKey
  <2> HIDE DEF t, keys, saved, removed
  <2>2. /\ t \in Store /\ SameKey(s, t) /\ t.keys = keys /\ t.cursor = s.cursor
        /\ t.saved = saved /\ t.removed = removed
        /\ t.pattern = s.pattern /\ t.scans = s.scans /\ t.isLoadingKeys = s.isLoadingKeys
        /\ t.scanned = s.scanned /\ t.scanFailed = s.scanFailed
    BY <2>1, <1>1, <1>2 DEF Store, SameKey
  <2>3. ViewOf(t) = ViewOf(s) /\ t.session = s.session /\ AllFound(t) = AllFound(s)
    BY <2>2 DEF ViewOf, SameKey, AllFound
  <2>4. ListInv(t)
    BY <2>2, <2>3
    DEF StoreInv, ListInv, NewestScan, Continues, Listed, StartsAnew, OfTheView, UpTo
  <2>5. KeyInv(t)
    BY <2>2, SameKeyKeeps DEF StoreInv
  <2>6. sn = s.session /\ Accounted(s) => Accounted(t)
    BY <1>2, <2>2, <2>3 DEF Accounted, keys, removed
  <2>7. StartsAnew(s) => StartsAnew(t)
    BY <2>2 DEF StartsAnew
  <2>8. Mine(s) /\ sn = s.session => Mine(t)
    BY <2>3, <2>6, <2>7 DEF Mine
  <2> QED BY <2>2, <2>4, <2>5, <2>8 DEF StoreInv, t
<1> QED BY <1>a, <1>b

\* A mutation starts or ends.
LEMMA MutatingKeeps ==
  ASSUME NEW s, StoreInv(s), NEW b \in BOOLEAN
  PROVE  LET t == [s EXCEPT !.isMutating = b]
         IN  /\ StoreInv(t) /\ (Mine(s) => Mine(t))
             /\ t.session = s.session /\ t.details = s.details /\ t.keyLoads = s.keyLoads
<1> DEFINE t == [s EXCEPT !.isMutating = b]
<1>1. t \in Store /\ SameList(s, t) /\ SameKey(s, t)
  BY DEF StoreInv, Store, SameList, SameKey
<1> HIDE DEF t
<1>2. ListInv(t) /\ KeyInv(t) /\ (Mine(s) => Mine(t))
  BY <1>1, SameListKeeps, SameKeyKeeps DEF StoreInv
<1> QED BY <1>1, <1>2 DEF StoreInv, SameKey, t

\* deleteSelectedKey takes its key out of the list and deselects.
LEMMA DeletedKeeps ==
  ASSUME NEW s, StoreInv(s), NEW key \in Keys, NEW sn \in Session
  PROVE  LET t == WithoutKey(s, key, sn)
         IN  /\ StoreInv(t) /\ (Mine(s) /\ sn = s.session => Mine(t))
             /\ t.session = s.session /\ t.details = NoDetails /\ t.keyLoads = s.keyLoads
<1> DEFINE keys == s.keys \ {key}
           saved == s.saved \ {key}
           removed == s.removed \cup Own(s, sn, key)
           t == WithoutKey(s, key, sn)
<1>0. t = [s EXCEPT !.keys = keys, !.selected = NoKey, !.details = NoDetails,
                    !.saved = saved, !.removed = removed]
  BY DEF WithoutKey
<1>1. /\ keys \in SUBSET Keys /\ saved \in SUBSET Keys /\ removed \in SUBSET Keys
      /\ sn = s.session => removed = s.removed \cup {key}
  BY DEF StoreInv, Store, Own
<1> HIDE DEF keys, saved, removed, t
<1>2. /\ t \in Store /\ t.session = s.session /\ t.details = NoDetails
      /\ t.keyLoads = s.keyLoads /\ t.isLoadingKey = s.isLoadingKey
      /\ t.keys = keys /\ t.saved = saved /\ t.removed = removed
      /\ t.cursor = s.cursor /\ t.pattern = s.pattern /\ t.scans = s.scans
      /\ t.isLoadingKeys = s.isLoadingKeys /\ t.scanned = s.scanned /\ t.scanFailed = s.scanFailed
  BY <1>0, <1>1 DEF StoreInv, Store
<1>3. ViewOf(t) = ViewOf(s) /\ AllFound(t) = AllFound(s)
  BY <1>2 DEF ViewOf, AllFound
<1>4. ListInv(t)
  BY <1>2, <1>3
  DEF StoreInv, ListInv, NewestScan, Continues, Listed, StartsAnew, OfTheView, UpTo
<1>5. KeyInv(t)
  BY <1>2 DEF StoreInv, KeyInv, NewestKey, Shown
<1>6. sn = s.session /\ Accounted(s) => Accounted(t)
  BY <1>1, <1>2, <1>3 DEF Accounted, keys, saved
<1>7. StartsAnew(s) => StartsAnew(t)
  BY <1>2 DEF StartsAnew
<1>8. Mine(s) /\ sn = s.session => Mine(t)
  BY <1>2, <1>6, <1>7 DEF Mine
<1> QED BY <1>2, <1>4, <1>5, <1>8 DEF StoreInv, t

\* TYPE is answered: the load goes on to read a value of that type.
LEMMA TypedKeeps ==
  ASSUME NEW s, StoreInv(s), NEW l \in s.keyLoads, NEW kind \in Kinds \cup {NoKind}
  PROVE  LET t == [s EXCEPT !.keyLoads = (@ \ {l}) \cup {[l EXCEPT !.kind = kind]}]
         IN  /\ StoreInv(t) /\ (Mine(s) => Mine(t))
             /\ t.session = s.session /\ t.details = s.details
             /\ \A m \in t.keyLoads : \E k \in s.keyLoads : k.by = m.by
<1> DEFINE typed == [l EXCEPT !.kind = kind]
           loads == (s.keyLoads \ {l}) \cup {typed}
           t == [s EXCEPT !.keyLoads = loads]
<1>1. s.keyLoads \subseteq KeyLoad /\ s \in Store
  BY DEF StoreInv, Store
<1>2. /\ typed \in KeyLoad /\ typed.by = l.by /\ typed.latest = l.latest /\ typed.key = l.key
      /\ typed.session = l.session
  BY <1>1 DEF KeyLoad
<1> HIDE DEF typed
<1>3. loads \in SUBSET KeyLoad /\ \A m \in loads : m = typed \/ (m \in s.keyLoads /\ m # l)
  BY <1>1, <1>2
<1> HIDE DEF loads
<1>4. /\ t \in Store /\ SameList(s, t) /\ t.session = s.session /\ t.details = s.details
      /\ t.keyLoads = loads /\ t.isLoadingKey = s.isLoadingKey /\ t.selected = s.selected
      /\ t.keyFailed = s.keyFailed
  BY <1>1, <1>3 DEF Store, SameList
<1> HIDE DEF t
<1>5. NewestKey(t) /\ OneLoadEach(t.keyLoads)
  BY <1>2, <1>3, <1>4 DEF StoreInv, KeyInv, NewestKey, AtMostOne, OneLoadEach
<1>6. Shown(t)
  BY <1>4 DEF StoreInv, KeyInv, Shown
<1>7. ListInv(t) /\ (Mine(s) => Mine(t))
  BY <1>4, SameListKeeps DEF StoreInv
<1>8. \A m \in t.keyLoads : \E k \in s.keyLoads : k.by = m.by
  BY <1>2, <1>3, <1>4
<1> QED BY <1>4, <1>5, <1>6, <1>7, <1>8 DEF StoreInv, KeyInv, t, loads, typed

(***************************************************************************)
(* The parts of the invariant                                              *)
(***************************************************************************)
CountInv ==
  /\ acts \in 0 .. MaxActs /\ theirs \in 0 .. MaxTheirs
  /\ server \in KindsNow /\ dragged \in BOOLEAN

\* Every attempt that is under way has the number of a session in reserve.
Attempt == [n : Nat, conn : Conns, stage : {"password", "connecting"}]
ProviderInv ==
  /\ draft \in Conns \cup {NoDraft}
  /\ open \in BOOLEAN /\ isLoading \in BOOLEAN /\ astray \in BOOLEAN
  /\ attempts \subseteq Attempt /\ IsFiniteSet(attempts)
  /\ sessions \in Nat /\ sessions + Cardinality(attempts) <= MaxSessions

\* A load that a mutation waits for has that mutation, and a mutation is of the session on
\* show, unless it went astray.
Mutation == [n : Nat, op : {"set", "delete", "edit", "command"}, key : Keys,
             kind : Kinds \cup {NoKind}, session : Session, stage : {"call", "select"}]
Awaited(loads, ms) ==
  \A l \in loads : l.by \in Nat => \E m \in ms : m.n = l.by /\ m.stage = "select"
MutationInv ==
  /\ mutation \subseteq Mutation
  /\ \A m \in mutation : m.n <= acts
  /\ \A m, k \in mutation : m.n = k.n => m = k
  /\ Awaited(r.keyLoads, mutation)
  /\ ~astray => \A m \in mutation : m.session = r.session

ListMine == ~astray => Mine(r)
DraftInv == valueDraft \in Keys \cup {NoKey} /\ DraftIsOfTheKeyShown

\* How far an export has got: every key is read or being read once, and every key in front
\* of the cursor that stayed is among those or still to be read.
Export == [pattern : SUBSET Keys, cursor : 0 .. NKeys, found : Seq(Keys), seen : SUBSET Keys,
           reading : Details \cup {NoDetails}, details : Seq(Details), stayed : SUBSET Keys]
IsIn(k, seq) == \E n \in DOMAIN seq : seq[n] = k
Read(e, k)   == \E n \in DOMAIN e.details : e.details[n].key = k
NoKeyTwice(e) ==
  \A i, j \in DOMAIN e.details : e.details[i].key = e.details[j].key => i = j
ReadsNext(e) ==
  e.reading # NoDetails =>
    /\ e.found # <<>> /\ Head(e.found) = e.reading.key
    /\ Len(e.details) < ExportLimit /\ ~Read(e, e.reading.key)
Seen(e) ==
  \A k \in Keys : k \in e.seen <=> Read(e, k) \/ (e.reading # NoDetails /\ e.reading.key = k)
NoneLeftOut(e) ==
  \A k \in e.stayed \cap e.pattern : k <= e.cursor => Read(e, k) \/ IsIn(k, e.found)
ExportInv(e) ==
  /\ e \in Export /\ Len(e.details) <= ExportLimit
  /\ NoKeyTwice(e) /\ ReadsNext(e) /\ Seen(e) /\ NoneLeftOut(e)
ExportsInv ==
  /\ export # NoExport => ExportInv(export) /\ export.stayed \subseteq Present
  /\ exported # NoExport => ExportInv(exported) /\ exported.reading = NoDetails /\ Stops(exported)

Inv ==
  /\ CountInv /\ ProviderInv /\ SessionHasItsPage
  /\ StoreInv(r) /\ ListMine /\ MutationInv /\ DraftInv /\ ExportsInv

(***************************************************************************)
(* Steps that leave a part alone                                           *)
(***************************************************************************)
\* Mutations stay: a load goes on being theirs or is the user's.
LEMMA MutationsStay ==
  ASSUME MutationInv, acts \in Nat, UNCHANGED mutation, acts' = acts \/ acts' = acts + 1,
         \A l \in r'.keyLoads : l.by \notin Nat \/ \E k \in r.keyLoads : k.by = l.by,
         ~astray' => mutation = {} \/ (~astray /\ r'.session = r.session)
  PROVE  MutationInv'
<1>1. \A m \in mutation' : m.n <= acts'
  BY DEF MutationInv, Mutation
<1>2. Awaited(r'.keyLoads, mutation')
  BY DEF MutationInv, Awaited
<1> QED BY <1>1, <1>2 DEF MutationInv

\* The text stays, and with it the key on show or none.
LEMMA DraftStays ==
  ASSUME DraftInv, UNCHANGED <<valueDraft, dragged>>, r'.details \in {r.details, NoDetails}
  PROVE  DraftInv'
BY DEF DraftInv, DraftIsOfTheKeyShown

LEMMA ExportStays ==
  ASSUME ExportsInv, UNCHANGED <<server, export, exported>>
  PROVE  ExportsInv'
BY DEF ExportsInv, Present

LEMMA ProviderStays ==
  ASSUME ProviderInv, SessionHasItsPage, UNCHANGED providerVars,
         r'.session = r.session \/ r'.session = NoSession
  PROVE  ProviderInv' /\ SessionHasItsPage'
BY DEF ProviderInv, SessionHasItsPage, providerVars

\* A step of the store that nothing else takes part in.
LEMMA StoreStep ==
  ASSUME Inv, UNCHANGED providerVars,
         UNCHANGED <<mutation, valueDraft, dragged, export, exported, server, theirs>>,
         acts' = acts \/ acts' = acts + 1, acts' <= MaxActs,
         StoreInv(r'), Mine(r) => Mine(r'), r'.session = r.session, r'.details = r.details,
         \A l \in r'.keyLoads : l.by \notin Nat \/ \E k \in r.keyLoads : k.by = l.by
  PROVE  Inv'
<1>1. CountInv'
  BY RedisAssumption DEF Inv, CountInv
<1>2. ProviderInv' /\ SessionHasItsPage'
  BY ProviderStays DEF Inv
<1>3. ListMine'
  BY DEF Inv, ListMine, providerVars
<1>4. MutationInv'
  <2>1. acts \in Nat /\ (~astray' => ~astray)
    BY DEF Inv, CountInv, providerVars
  <2> QED BY <2>1, MutationsStay DEF Inv
<1>5. DraftInv' /\ ExportsInv'
  BY DraftStays, ExportStays DEF Inv
<1>6. StoreInv(r)'
  OBVIOUS
<1> QED BY <1>1, <1>2, <1>3, <1>4, <1>5, <1>6 DEF Inv

UserFrame  == acts < MaxActs /\ acts' = acts + 1 /\ UNCHANGED <<server, theirs, dragged>>
ReplyFrame == UNCHANGED <<server, acts, theirs>>

LEMMA UserCounts ==
  ASSUME CountInv, UserFrame
  PROVE  CountInv' /\ acts \in Nat /\ acts' = acts + 1 /\ acts' <= MaxActs
BY RedisAssumption DEF CountInv, UserFrame

(***************************************************************************)
(* RedisProviderService                                                    *)
(***************************************************************************)
\* A step of the provider alone.
LEMMA ProviderStep ==
  ASSUME Inv, CountInv', acts' = acts \/ acts' = acts + 1, ProviderInv', SessionHasItsPage',
         UNCHANGED <<r, mutation, valueDraft, dragged, server, exportVars>>,
         ~astray' => ~astray
  PROVE  Inv'
<1>1. MutationInv'
  <2>1. acts \in Nat
    BY DEF Inv, CountInv
  <2> QED BY <2>1, MutationsStay DEF Inv
<1>2. DraftInv' /\ ExportsInv'
  BY DraftStays, ExportStays DEF Inv, exportVars
<1>3. StoreInv(r)' /\ ListMine'
  BY DEF Inv, ListMine
<1> QED BY <1>1, <1>2, <1>3 DEF Inv

LEMMA ChooseTargetKeeps ==
  ASSUME Inv, UserFrame, NEW c \in Conns, ChooseTarget(c)
  PROVE  Inv'
<1>1. CountInv' /\ acts' = acts + 1
  BY UserCounts DEF Inv
<1>2. ProviderInv' /\ SessionHasItsPage'
  BY DEF Inv, ProviderInv, SessionHasItsPage, ChooseTarget
<1> QED BY <1>1, <1>2, ProviderStep DEF ChooseTarget, UserFrame

\* An attempt takes one of the sessions that are left.
LEMMA AskedKeeps ==
  ASSUME ProviderInv, NEW c \in Conns, NEW stage \in {"password", "connecting"},
         Pending < MaxSessions, Asked(c, stage)
  PROVE  /\ attempts' \subseteq Attempt /\ IsFiniteSet(attempts')
         /\ sessions + Cardinality(attempts') <= MaxSessions
<1> DEFINE a == [n |-> Pending + 1, conn |-> c, stage |-> stage]
<1>1. Cardinality(attempts) \in Nat /\ sessions \in Nat /\ MaxSessions \in Nat
  BY FS_CardinalityType, RedisAssumption DEF ProviderInv
<1>2. a \in Attempt
  BY <1>1 DEF Pending, Attempt
<1>3. attempts' = attempts \cup {a}
  BY DEF Asked
<1> HIDE DEF a
<1>4. /\ IsFiniteSet(attempts \cup {a})
      /\ Cardinality(attempts \cup {a}) = IF a \in attempts THEN Cardinality(attempts)
                                          ELSE Cardinality(attempts) + 1
  BY FS_AddElement DEF ProviderInv
<1>5. sessions + Cardinality(attempts \cup {a}) <= MaxSessions
  BY <1>1, <1>4 DEF Pending
<1> QED BY <1>2, <1>3, <1>4, <1>5 DEF ProviderInv

LEMMA ConnectWorkspaceDraftKeeps ==
  ASSUME Inv, UserFrame, NEW c \in Conns, ConnectWorkspaceDraft(c)
  PROVE  Inv'
<1>1. CountInv' /\ acts' = acts + 1
  BY UserCounts DEF Inv
<1>2. ProviderInv' /\ SessionHasItsPage'
  BY AskedKeeps DEF Inv, ProviderInv, SessionHasItsPage, ConnectWorkspaceDraft
<1> QED BY <1>1, <1>2, ProviderStep DEF ConnectWorkspaceDraft, UserFrame

LEMMA OpenRecentItemKeeps ==
  ASSUME Inv, UserFrame, NEW c \in Conns, OpenRecentItem(c)
  PROVE  Inv'
<1>1. CountInv' /\ acts' = acts + 1
  BY UserCounts DEF Inv
<1>2. ProviderInv' /\ SessionHasItsPage'
  BY AskedKeeps DEF Inv, ProviderInv, SessionHasItsPage, OpenRecentItem
<1> QED BY <1>1, <1>2, ProviderStep DEF OpenRecentItem, UserFrame

\* What is left of the attempts when one ends or goes on.
LEMMA AttemptGoes ==
  ASSUME ProviderInv, NEW a \in attempts
  PROVE  /\ IsFiniteSet(attempts \ {a}) /\ Cardinality(attempts) \in Nat
         /\ Cardinality(attempts \ {a}) = Cardinality(attempts) - 1
         /\ \A b : /\ IsFiniteSet((attempts \ {a}) \cup {b})
                   /\ Cardinality((attempts \ {a}) \cup {b}) <= Cardinality(attempts)
                   /\ Cardinality((attempts \ {a}) \cup {b}) \in Nat
<1>1. IsFiniteSet(attempts) /\ Cardinality(attempts) \in Nat
  BY FS_CardinalityType DEF ProviderInv
<1>2. IsFiniteSet(attempts \ {a}) /\ Cardinality(attempts \ {a}) = Cardinality(attempts) - 1
  BY <1>1, FS_RemoveElement
<1>3. ASSUME NEW b
      PROVE  /\ IsFiniteSet((attempts \ {a}) \cup {b})
             /\ Cardinality((attempts \ {a}) \cup {b}) <= Cardinality(attempts)
             /\ Cardinality((attempts \ {a}) \cup {b}) \in Nat
  <2>1. /\ IsFiniteSet((attempts \ {a}) \cup {b})
        /\ Cardinality((attempts \ {a}) \cup {b})
             = IF b \in attempts \ {a} THEN Cardinality(attempts \ {a})
               ELSE Cardinality(attempts \ {a}) + 1
    BY <1>2, FS_AddElement
  <2>2. Cardinality((attempts \ {a}) \cup {b}) \in Nat
    BY <2>1, FS_CardinalityType
  <2> QED BY <1>1, <1>2, <2>1, <2>2
<1> QED BY <1>1, <1>2, <1>3

LEMMA PasswordLoadedKeeps ==
  ASSUME Inv, ReplyFrame, NEW a \in attempts, NEW found \in BOOLEAN, PasswordLoaded(a, found)
  PROVE  Inv'
<1>1. CountInv' /\ acts' = acts
  BY DEF Inv, CountInv, ReplyFrame, PasswordLoaded, KindsNow
<1> DEFINE b == [a EXCEPT !.conn = draft, !.stage = "connecting"]
<1>2. draft # NoDraft => b \in Attempt
  BY DEF Inv, ProviderInv, Attempt
<1>3. /\ sessions \in Nat /\ MaxSessions \in Nat /\ sessions + Cardinality(attempts) <= MaxSessions
      /\ attempts \subseteq Attempt /\ ProviderInv
  BY RedisAssumption DEF Inv, ProviderInv
<1>4. CASE found /\ draft # NoDraft
  <2>1. attempts' = (attempts \ {a}) \cup {b} /\ isLoading' = TRUE
    BY <1>4 DEF PasswordLoaded
  <2> HIDE DEF b
  <2>a. /\ IsFiniteSet(attempts') /\ Cardinality(attempts') <= Cardinality(attempts)
        /\ Cardinality(attempts') \in Nat /\ Cardinality(attempts) \in Nat
    BY <1>3, <2>1, AttemptGoes
  <2>2. attempts' \subseteq Attempt /\ IsFiniteSet(attempts')
        /\ sessions + Cardinality(attempts') <= MaxSessions
    BY <1>2, <1>3, <1>4, <2>1, <2>a
  <2> QED
    BY <1>1, <2>1, <2>2, ProviderStep
    DEF Inv, ProviderInv, SessionHasItsPage, PasswordLoaded, ReplyFrame
<1>5. CASE ~(found /\ draft # NoDraft)
  <2>1. attempts' = attempts \ {a} /\ isLoading' = isLoading
    BY <1>5 DEF PasswordLoaded
  <2>2. attempts' \subseteq Attempt /\ IsFiniteSet(attempts')
        /\ sessions + Cardinality(attempts') <= MaxSessions
    BY <1>3, <2>1, AttemptGoes DEF Inv, ProviderInv
  <2> QED
    BY <1>1, <2>1, <2>2, ProviderStep
    DEF Inv, ProviderInv, SessionHasItsPage, PasswordLoaded, ReplyFrame
<1> QED BY <1>4, <1>5

LEMMA ConnectsKeeps ==
  ASSUME Inv, ReplyFrame, NEW a \in attempts, NEW ok \in BOOLEAN, Connects(a, ok)
  PROVE  Inv'
<1> DEFINE sn == [n |-> sessions + 1, conn |-> a.conn]
<1>1. CountInv' /\ acts' = acts
  BY DEF Inv, CountInv, ReplyFrame, Connects, KindsNow
<1>2. /\ sessions \in Nat /\ MaxSessions \in Nat /\ sessions + Cardinality(attempts) <= MaxSessions
      /\ attempts \subseteq Attempt /\ ProviderInv /\ StoreInv(r) /\ MutationInv
  BY RedisAssumption DEF Inv, ProviderInv
<1>3. /\ attempts' = attempts \ {a} /\ isLoading' = FALSE /\ draft' = draft
      /\ mutation' = mutation /\ valueDraft' = valueDraft /\ dragged' = dragged
      /\ UNCHANGED <<server, export, exported>>
      /\ astray' = (astray \/ (ok /\ mutation # {}))
  BY DEF Connects, ReplyFrame, exportVars
<1>4. /\ IsFiniteSet(attempts') /\ Cardinality(attempts') = Cardinality(attempts) - 1
      /\ Cardinality(attempts) \in Nat /\ Cardinality(attempts') \in Nat
  BY <1>2, <1>3, AttemptGoes, FS_CardinalityType
<1>5. CASE ok
  <2>1. r' = SetSession(r, sn) /\ sessions' = sessions + 1 /\ open' = TRUE
    BY <1>5 DEF Connects
  <2>2. sn \in Session
    <3>1. sessions + 1 \in 1 .. MaxSessions
      BY <1>2, <1>4
    <3> QED BY <1>2, <3>1 DEF Session, Attempt
  <2> HIDE DEF sn
  <2>3. /\ StoreInv(r') /\ Mine(r') /\ r'.session = sn /\ r'.details = NoDetails
        /\ r'.keyLoads = Outdated(r.keyLoads)
    BY <1>2, <2>1, <2>2, SetSessionKeeps
  <2>4. sessions' + Cardinality(attempts') <= MaxSessions /\ sessions' \in Nat
    BY <1>2, <1>4, <2>1
  <2>5. ProviderInv' /\ SessionHasItsPage'
    BY <1>2, <1>3, <1>4, <2>1, <2>4 DEF ProviderInv, SessionHasItsPage
  <2>6. MutationInv'
    <3>0. r.keyLoads \in SUBSET KeyLoad
      BY <1>2 DEF StoreInv, Store
    <3>1. \A l \in r'.keyLoads : l.by \notin Nat \/ \E k \in r.keyLoads : k.by = l.by
      BY <2>3, <3>0, OutdatedKeyLoads
    <3>2. acts \in Nat
      BY DEF Inv, CountInv
    <3>3. ~astray' => mutation = {}
      BY <1>3, <1>5
    <3> QED BY <1>1, <1>2, <1>3, <3>1, <3>2, <3>3, MutationsStay
  <2>7. DraftInv' /\ ExportsInv'
    BY <1>3, <2>3, DraftStays, ExportStays DEF Inv
  <2> QED BY <1>1, <2>3, <2>5, <2>6, <2>7 DEF Inv, ListMine
<1>6. CASE ~ok
  <2>1. r' = r /\ sessions' = sessions /\ open' = open /\ astray' = astray
    BY <1>3, <1>6 DEF Connects, Inv, ProviderInv
  <2>2. sessions' + Cardinality(attempts') <= MaxSessions
    BY <1>2, <1>4, <2>1
  <2>3. ProviderInv' /\ SessionHasItsPage'
    BY <1>2, <1>3, <1>4, <2>1, <2>2 DEF ProviderInv, SessionHasItsPage, Inv
  <2> QED BY <1>1, <1>3, <2>1, <2>3, ProviderStep DEF exportVars
<1> QED BY <1>5, <1>6

LEMMA BackHomeKeeps ==
  ASSUME Inv, UserFrame, BackHome
  PROVE  Inv'
<1>1. CountInv' /\ acts' = acts + 1 /\ acts \in Nat
  BY UserCounts DEF Inv
<1> DEFINE s == Clear(r)
<1>a. /\ StoreInv(s) /\ Mine(s) /\ s.session = NoSession /\ s.details = NoDetails
      /\ s.keyLoads = Outdated(r.keyLoads)
  BY ClearKeeps DEF Inv
<1>b. r' = [s EXCEPT !.keyLoads = Unfollowed(@)] /\ valueDraft' = NoKey
  BY DEF BackHome
<1> HIDE DEF s
<1>2. /\ StoreInv(r') /\ Mine(r') /\ r'.session = NoSession /\ r'.details = NoDetails
      /\ \A l \in r'.keyLoads : l.by \notin Nat \/ \E m \in s.keyLoads : m.by = l.by
  BY <1>a, <1>b, UnfollowedKeeps
<1>3. ProviderInv' /\ SessionHasItsPage'
  BY <1>2 DEF Inv, ProviderInv, SessionHasItsPage, BackHome
<1>4. MutationInv'
  <2>1. \A l \in r'.keyLoads : l.by \notin Nat \/ \E k \in r.keyLoads : k.by = l.by
    BY <1>2, <1>a, OutdatedKeyLoads DEF Inv, StoreInv, Store
  <2>2. ~astray' => mutation = {}
    BY DEF BackHome
  <2> QED BY <1>1, <2>1, <2>2, MutationsStay DEF Inv, BackHome
<1>5. DraftInv' /\ ExportsInv'
  BY <1>2, <1>b, ExportStays
  DEF Inv, BackHome, UserFrame, exportVars, DraftInv, DraftIsOfTheKeyShown
<1> QED BY <1>1, <1>2, <1>3, <1>4, <1>5 DEF Inv, ListMine

(***************************************************************************)
(* The page                                                                *)
(***************************************************************************)
LEMMA ScanKeeps ==
  ASSUME Inv, UserFrame, NEW reset \in BOOLEAN, Scan(reset)
  PROVE  Inv'
<1>1. acts' = acts + 1 /\ acts' <= MaxActs
  BY UserCounts DEF Inv
<1>2. r.session # NoSession /\ r' = LoadKeys(r, reset) /\ StoreInv(r) /\ r \in Store
  BY DEF Scan, OnPage, Inv, StoreInv
<1>3. ~reset => ~r.isLoadingKeys /\ r.cursor # 0
  BY DEF Scan, MayLoadKeys
<1>4. StoreInv(r') /\ (Mine(r) => Mine(r')) /\ SameKey(r, r')
  <2>1. CASE reset
    BY <1>2, <2>1, ResetKeeps DEF StoreInv
  <2>2. CASE ~reset
    BY <1>2, <1>3, <2>2, MoreKeeps
  <2> QED BY <2>1, <2>2
<1> QED BY <1>1, <1>4, StoreStep DEF Scan, OnPage, SameKey, UserFrame, exportVars

LEMMA SetPatternKeeps ==
  ASSUME Inv, UserFrame, NEW p \in Patterns, SetPattern(p)
  PROVE  Inv'
<1> DEFINE s == [r EXCEPT !.pattern = p]
<1>1. acts' = acts + 1 /\ acts' <= MaxActs
  BY UserCounts DEF Inv
<1>2. r.session # NoSession /\ r' = LoadKeys(s, TRUE) /\ StoreInv(r) /\ r \in Store
  BY DEF SetPattern, OnPage, Inv, StoreInv
<1>3. p \in SUBSET Keys
  BY RedisAssumption
<1>4. s \in Store /\ SameKey(r, s) /\ s.session = r.session
  BY <1>2, <1>3 DEF Store, SameKey
<1> HIDE DEF s
<1>5. KeyInv(s)
  BY <1>2, <1>4, SameKeyKeeps DEF StoreInv
<1>6. StoreInv(r') /\ Mine(r') /\ SameKey(s, r')
  BY <1>2, <1>4, <1>5, ResetKeeps
<1> QED BY <1>1, <1>4, <1>6, StoreStep DEF SetPattern, OnPage, SameKey, UserFrame, exportVars

LEMMA ChooseKeyKeeps ==
  ASSUME Inv, UserFrame, NEW k \in Keys, NEW by \in {Page, Sidebar}, ChooseKey(k, by)
  PROVE  Inv'
<1>1. acts' = acts + 1 /\ acts' <= MaxActs
  BY UserCounts DEF Inv
<1>2. /\ r.session # NoSession /\ r' = SelectKey(r, k, by) /\ StoreInv(r)
      /\ by \in Callers /\ by \notin Nat
  BY RedisAssumption DEF ChooseKey, OnPage, Inv, Callers
<1>3. /\ StoreInv(r') /\ (Mine(r) => Mine(r'))
      /\ r'.session = r.session /\ r'.details = r.details
      /\ \A l \in r'.keyLoads : l.by = by \/ \E m \in r.keyLoads : m.by = l.by
  BY <1>2, SelectKeyKeeps
<1> QED BY <1>1, <1>2, <1>3, StoreStep DEF ChooseKey, OnPage, UserFrame, exportVars

\* A mutation goes out, under a number of its own.
LEMMA MutateKeeps ==
  ASSUME Inv, UserFrame, NEW op \in {"set", "delete", "edit", "command"}, NEW k \in Keys,
         NEW kind \in Kinds \cup {NoKind}, Mutate(op, k, kind)
  PROVE  Inv'
<1> DEFINE m == [n |-> acts + 1, op |-> op, key |-> k, kind |-> kind, session |-> r.session,
                 stage |-> "call"]
<1>1. CountInv' /\ acts \in Nat /\ acts' = acts + 1
  BY UserCounts DEF Inv
<1>2. /\ r.session # NoSession /\ r' = [r EXCEPT !.isMutating = TRUE]
      /\ mutation' = mutation \cup {m} /\ UNCHANGED providerVars
  BY DEF Mutate, OnPage
<1>3. /\ StoreInv(r') /\ (Mine(r) => Mine(r'))
      /\ r'.session = r.session /\ r'.details = r.details /\ r'.keyLoads = r.keyLoads
  BY <1>2, MutatingKeeps DEF Inv
<1>4. m \in Mutation /\ m.n = acts + 1 /\ m.session = r.session
  BY <1>1, <1>2 DEF Mutation, Inv, StoreInv, Store
<1> HIDE DEF m
<1>5. MutationInv'
  <2>1. /\ mutation \subseteq Mutation /\ (\A x \in mutation : x.n <= acts /\ x.n \in Nat)
        /\ (\A x, y \in mutation : x.n = y.n => x = y) /\ Awaited(r.keyLoads, mutation)
        /\ (~astray => \A x \in mutation : x.session = r.session)
    BY DEF Inv, MutationInv, Mutation
  <2>2. \A x, y \in mutation' : x.n = y.n => x = y
    BY <1>1, <1>2, <1>4, <2>1
  <2>3. \A x \in mutation' : x.n <= acts'
    BY <1>1, <1>2, <1>4, <2>1
  <2>4. Awaited(r'.keyLoads, mutation')
    BY <1>2, <1>3, <2>1 DEF Awaited
  <2>5. astray' = astray
    BY <1>2 DEF providerVars
  <2> QED BY <1>2, <1>3, <1>4, <2>1, <2>2, <2>3, <2>4, <2>5 DEF MutationInv
<1>6. DraftInv' /\ ExportsInv'
  BY <1>3, DraftStays, ExportStays DEF Inv, Mutate, UserFrame, exportVars
<1>7. ProviderInv' /\ SessionHasItsPage'
  BY <1>2, <1>3, ProviderStays DEF Inv
<1>8. ListMine'
  BY <1>2, <1>3 DEF Inv, ListMine, providerVars
<1> QED BY <1>1, <1>3, <1>5, <1>6, <1>7, <1>8 DEF Inv

LEMMA MutationsKeep ==
  ASSUME Inv, UserFrame,
         \/ SaveString \/ DeleteSelectedKey \/ MutateCollection
         \/ \E k \in Keys, kind \in Kinds \cup {NoKind} : RunCommand(k, kind)
  PROVE  Inv'
<1>1. /\ r.details # NoDetails => r.details.key \in Keys /\ r.details.kind \in Kinds \cup {NoKind}
      /\ r.selected # NoKey => r.selected \in Keys
  BY DEF Inv, StoreInv, Store, Details
<1>2. String \in Kinds
  BY RedisAssumption
<1>3. CASE SaveString
  BY <1>1, <1>2, <1>3, MutateKeeps DEF SaveString
<1>4. CASE DeleteSelectedKey
  BY <1>1, <1>4, MutateKeeps DEF DeleteSelectedKey
<1>5. CASE MutateCollection
  BY <1>1, <1>5, MutateKeeps DEF MutateCollection
<1>6. ASSUME NEW k \in Keys, NEW kind \in Kinds \cup {NoKind}, RunCommand(k, kind) PROVE Inv'
  BY <1>6, MutateKeeps DEF RunCommand
<1> QED BY <1>3, <1>4, <1>5, <1>6

(***************************************************************************)
(* Answers                                                                 *)
(***************************************************************************)
LEMMA KeysArriveKeeps ==
  ASSUME Inv, ReplyFrame, NEW l \in r.scans, NEW ok \in BOOLEAN, KeysArrive(l, ok)
  PROVE  Inv'
<1>1. acts' = acts /\ acts' <= MaxActs
  BY RedisAssumption DEF ReplyFrame, Inv, CountInv
<1>2. StoreInv(r') /\ SameKey(r, r') /\ (Mine(r) => Mine(r'))
  BY KeysReplyKeeps DEF Inv, KeysArrive
<1> QED BY <1>1, <1>2, StoreStep DEF KeysArrive, SameKey, ReplyFrame, exportVars

LEMMA KeyTypedKeeps ==
  ASSUME Inv, ReplyFrame, NEW l \in r.keyLoads, KeyTyped(l)
  PROVE  Inv'
<1>1. acts' = acts /\ acts' <= MaxActs
  BY RedisAssumption DEF ReplyFrame, Inv, CountInv
<1>2. server[l.key] \in Kinds \cup {NoKind}
  BY DEF Inv, StoreInv, Store, KeyLoad, CountInv, KindsNow
<1>3. r' = [r EXCEPT !.keyLoads = (@ \ {l}) \cup {[l EXCEPT !.kind = server[l.key]]}]
  BY DEF KeyTyped
<1>4. /\ StoreInv(r') /\ (Mine(r) => Mine(r'))
      /\ r'.session = r.session /\ r'.details = r.details
      /\ \A m \in r'.keyLoads : \E k \in r.keyLoads : k.by = m.by
  BY <1>2, <1>3, TypedKeeps DEF Inv
<1> QED BY <1>1, <1>4, StoreStep DEF KeyTyped, ReplyFrame, exportVars

\* A key arrives that was chosen on the page, which takes over its value, or in the sidebar.
LEMMA KeyArrivesForTheUser ==
  ASSUME Inv, ReplyFrame, NEW l \in r.keyLoads, NEW ok \in BOOLEAN, KeyArrives(l, ok),
         l.by \in {Page, Sidebar}
  PROVE  Inv'
<1>1. /\ r' = KeyReply(r, l, ok) /\ mutation' = mutation
      /\ l.by = Page => valueDraft' = DraftFor(r') /\ dragged' = FALSE
      /\ l.by = Sidebar => /\ dragged' = (dragged \/ r'.details # r.details)
                           /\ valueDraft' = valueDraft
  BY RedisAssumption DEF KeyArrives
<1>2. /\ StoreInv(r') /\ SameList(r, r') /\ r'.keyLoads = r.keyLoads \ {l}
  BY <1>1, KeyReplyKeeps DEF Inv, KeyArrives
<1>3. CountInv' /\ acts \in Nat
  <2>1. UNCHANGED <<server, acts, theirs>> /\ dragged' \in BOOLEAN
    BY <1>1 DEF ReplyFrame, Inv, CountInv
  <2>2. CountInv
    BY DEF Inv
  <2> QED BY <2>1, <2>2 DEF CountInv, KindsNow
<1>4. ProviderInv' /\ SessionHasItsPage' /\ UNCHANGED <<providerVars, server, exportVars>>
  BY <1>2, ProviderStays DEF Inv, KeyArrives, SameList, ReplyFrame
<1>5. ListMine'
  BY <1>2, <1>4, SameListKeeps DEF Inv, ListMine, providerVars
<1>6. MutationInv'
  BY <1>1, <1>2, <1>3, <1>4, MutationsStay DEF Inv, SameList, ReplyFrame, providerVars
<1>7. DraftInv'
  <2>1. CASE l.by = Page
    <3>1. r'.details # NoDetails => r'.details.key \in Keys
      BY <1>2 DEF StoreInv, Store, Details
    <3> QED BY <1>1, <2>1, <3>1 DEF DraftInv, DraftIsOfTheKeyShown, DraftFor
  <2>2. CASE l.by = Sidebar
    <3>1. ~dragged' => ~dragged /\ r'.details = r.details
      BY <1>1, <2>2
    <3> QED BY <1>1, <2>2, <3>1 DEF Inv, DraftInv, DraftIsOfTheKeyShown
  <2> QED BY <2>1, <2>2
<1>8. ExportsInv'
  BY <1>4, ExportStays DEF Inv, exportVars
<1> QED BY <1>2, <1>3, <1>4, <1>5, <1>6, <1>7, <1>8 DEF Inv

\* A key arrives that a mutation selected, and ends it.
LEMMA KeyArrivesForAMutation ==
  ASSUME Inv, ReplyFrame, NEW l \in r.keyLoads, NEW ok \in BOOLEAN, KeyArrives(l, ok),
         l.by \notin {Page, Sidebar}
  PROVE  Inv'
<1> DEFINE m == CHOOSE x \in mutation : x.n = l.by
           s == KeyReply(r, l, ok)
           s1 == IF m.op = "set" THEN WithKey(s, m.key, m.session) ELSE s
<1>1. /\ mutation \subseteq Mutation /\ (\A x, y \in mutation : x.n = y.n => x = y)
      /\ (\A x \in mutation : x.n <= acts) /\ Awaited(r.keyLoads, mutation)
      /\ (~astray => \A x \in mutation : x.session = r.session)
      /\ OneLoadEach(r.keyLoads)
  BY DEF Inv, MutationInv, StoreInv, KeyInv
<1>a. l.by \in Nat
  BY DEF Inv, StoreInv, Store, KeyLoad, Callers
<1>2. m \in mutation /\ m.n = l.by
  BY <1>1, <1>a DEF Awaited
<1>3. m.key \in Keys /\ m.session \in Session
  BY <1>1, <1>2 DEF Mutation
<1>4. /\ r' = [s1 EXCEPT !.isMutating = FALSE] /\ mutation' = mutation \ {m}
      /\ dragged' = (dragged \/ s.details # r.details) /\ valueDraft' = valueDraft
      /\ ok => l.kind # NoKey
  BY RedisAssumption DEF KeyArrives
<1>5. UNCHANGED <<providerVars, server, acts, theirs, exportVars>>
  BY DEF KeyArrives, ReplyFrame
<1> HIDE DEF m
<1>6. /\ StoreInv(s) /\ SameList(r, s) /\ s.keyLoads = r.keyLoads \ {l} /\ s.session = r.session
      /\ (Mine(r) => Mine(s))
  BY <1>4, KeyReplyKeeps, SameListKeeps DEF Inv, SameList
<1> HIDE DEF s
<1>7. /\ StoreInv(s1) /\ SameKey(s, s1) /\ (Mine(s) /\ m.session = s.session => Mine(s1))
  BY <1>3, <1>6, WithKeyKeeps DEF SameKey
<1> HIDE DEF s1
<1>8. /\ StoreInv(r') /\ (Mine(s1) => Mine(r')) /\ r'.session = r.session
      /\ r'.details = s.details /\ r'.keyLoads = r.keyLoads \ {l}
  BY <1>4, <1>6, <1>7, MutatingKeeps DEF SameKey
<1>9. astray' = astray /\ acts' = acts
  BY <1>5 DEF providerVars
<1>10. ListMine'
  BY <1>1, <1>2, <1>6, <1>7, <1>8, <1>9 DEF Inv, ListMine
<1>11. MutationInv'
  <2>1. Awaited(r'.keyLoads, mutation')
    BY <1>1, <1>2, <1>4, <1>8, <1>a DEF Awaited, OneLoadEach
  <2> QED BY <1>1, <1>4, <1>8, <1>9, <2>1 DEF MutationInv
<1>12. CountInv'
  <2>1. dragged' \in BOOLEAN
    BY <1>4 DEF Inv, CountInv
  <2> QED BY <1>5, <2>1 DEF Inv, CountInv, KindsNow
<1>13. DraftInv'
  <2>1. ~dragged' => ~dragged /\ r'.details = r.details
    BY <1>4, <1>8
  <2> QED BY <1>4, <2>1 DEF Inv, DraftInv, DraftIsOfTheKeyShown
<1>14. ProviderInv' /\ SessionHasItsPage'
  BY <1>5, <1>8, ProviderStays DEF Inv
<1>15. ExportsInv'
  BY <1>5, ExportStays DEF Inv, exportVars
<1> QED BY <1>8, <1>10, <1>11, <1>12, <1>13, <1>14, <1>15 DEF Inv

\* A key is written: an export need not hold it if it is gone.
LEMMA WriteKeeps ==
  ASSUME Inv, NEW k \in Keys, NEW kind \in Kinds \cup {NoKind}, Write(k, kind)
  PROVE  server' \in KindsNow /\ ExportsInv'
<1>1. server \in KindsNow /\ ExportsInv
  BY DEF Inv, CountInv
<1>2. server' = [server EXCEPT ![k] = kind] /\ exported' = exported
  BY DEF Write
<1>3. server' \in KindsNow
  BY <1>1, <1>2 DEF KindsNow
<1>4. \A x \in Present : x # k \/ kind # NoKind => x \in Present'
  BY <1>1, <1>2 DEF Present, KindsNow
<1>5. CASE export = NoExport \/ kind # NoKind
  <2>1. export' = export
    BY <1>5 DEF Write
  <2> QED BY <1>1, <1>2, <1>3, <1>4, <1>5, <2>1 DEF ExportsInv
<1>6. CASE export # NoExport /\ kind = NoKind
  <2> DEFINE stayed == export.stayed \ {k}
  <2>1. export' = [export EXCEPT !.stayed = stayed]
    BY <1>6 DEF Write
  <2>2. ExportInv(export) /\ export.stayed \subseteq Present /\ export \in Export
    BY <1>1, <1>6 DEF ExportsInv, ExportInv
  <2>3. stayed \subseteq export.stayed /\ k \notin stayed
    OBVIOUS
  <2> HIDE DEF stayed
  <2>4. /\ export' \in Export /\ export'.details = export.details /\ export'.found = export.found
        /\ export'.cursor = export.cursor /\ export'.reading = export.reading
        /\ export'.seen = export.seen /\ export'.pattern = export.pattern
        /\ export'.stayed = stayed
    BY <2>1, <2>2, <2>3 DEF Export
  <2>5. ExportInv(export')
    BY <2>2, <2>3, <2>4
    DEF ExportInv, NoKeyTwice, ReadsNext, Seen, NoneLeftOut, Read
  <2>6. export'.stayed \subseteq Present'
    BY <1>4, <2>2, <2>3, <2>4
  <2> QED BY <1>1, <1>2, <1>3, <2>5, <2>6 DEF ExportsInv
<1> QED BY <1>5, <1>6

LEMMA TheyWriteKeeps ==
  ASSUME Inv, acts' = acts, NEW k \in Keys, NEW kind \in Kinds \cup {NoKind}, TheyWrite(k, kind)
  PROVE  Inv'
<1>1. server' \in KindsNow /\ ExportsInv'
  BY WriteKeeps DEF TheyWrite
<1>2. CountInv'
  BY <1>1, RedisAssumption DEF Inv, CountInv, TheyWrite
<1>3. ProviderInv' /\ SessionHasItsPage'
  BY ProviderStays DEF Inv, TheyWrite
<1>4. ListMine' /\ StoreInv(r)'
  BY DEF Inv, ListMine, TheyWrite, providerVars
<1>5. MutationInv' /\ DraftInv'
  BY DEF Inv, MutationInv, DraftInv, DraftIsOfTheKeyShown, TheyWrite, providerVars
<1> QED BY <1>1, <1>2, <1>3, <1>4, <1>5 DEF Inv

\* A mutation is answered: it selects its key again, or ends.
LEMMA MutationAnsweredKeeps ==
  ASSUME Inv, acts' = acts, NEW m \in mutation, NEW done \in BOOLEAN, NEW ok \in BOOLEAN,
         MutationAnswered(m, done, ok)
  PROVE  Inv'
<1>1. /\ mutation \subseteq Mutation /\ (\A x, y \in mutation : x.n = y.n => x = y)
      /\ (\A x \in mutation : x.n <= acts) /\ Awaited(r.keyLoads, mutation)
      /\ (~astray => \A x \in mutation : x.session = r.session)
      /\ StoreInv(r)
  BY DEF Inv, MutationInv
<1>2. /\ m.n \in Nat /\ m.key \in Keys /\ m.session \in Session /\ m.kind \in Kinds \cup {NoKind}
      /\ m.stage = "call"
  BY <1>1 DEF Mutation, MutationAnswered
<1>3. UNCHANGED <<providerVars, valueDraft, dragged, theirs>>
  BY DEF MutationAnswered
<1>4. server' \in KindsNow /\ ExportsInv'
  <2>1. CASE done
    <3>1. PICK kind \in Leaves(m) : Write(m.key, kind)
      BY <2>1 DEF MutationAnswered
    <3>2. kind \in Kinds \cup {NoKind}
      BY <1>2 DEF Leaves
    <3> QED BY <1>2, <3>1, <3>2, WriteKeeps
  <2>2. CASE ~done
    BY <2>2, ExportStays DEF MutationAnswered, Inv, CountInv, exportVars
  <2> QED BY <2>1, <2>2
<1>5. CountInv'
  BY <1>3, <1>4 DEF Inv, CountInv
<1>6. astray' = astray
  BY <1>3 DEF providerVars
<1>7. CASE ok /\ m.op \in {"set", "edit"} /\ r.session # NoSession
  <2> DEFINE m2 == [m EXCEPT !.stage = "select"]
  <2>1. r' = SelectKey(r, m.key, m.n) /\ mutation' = (mutation \ {m}) \cup {m2}
    BY <1>7 DEF MutationAnswered
  <2>2. m2 \in Mutation /\ m2.n = m.n /\ m2.stage = "select" /\ m2.session = m.session
    BY <1>1 DEF Mutation
  <2>3. \A l \in r.keyLoads : l.by \in Nat => l.by # m.n
    BY <1>1, <1>2 DEF Awaited
  <2>4. m.n \in Nat /\ m.n \in Callers
    BY <1>2 DEF Callers
  <2> HIDE DEF m2
  <2>5. \A l \in r.keyLoads : l.by # m.n
    BY <2>3, <2>4
  <2>6. /\ StoreInv(r') /\ (Mine(r) => Mine(r')) /\ r'.session = r.session
        /\ r'.details = r.details
        /\ \A l \in r'.keyLoads : l.by = m.n \/ \E k \in r.keyLoads : k.by = l.by
    BY <1>1, <1>2, <1>7, <2>1, <2>4, <2>5, SelectKeyKeeps
  <2>7. Awaited(r'.keyLoads, mutation')
    BY <1>1, <1>2, <2>1, <2>2, <2>6 DEF Awaited
  <2>8. MutationInv'
    <3>1. \A x \in mutation' : x.n <= acts' /\ (~astray' => x.session = r'.session)
      BY <1>1, <1>6, <2>1, <2>2, <2>6
    <3>2. \A x, y \in mutation' : x.n = y.n => x = y
      BY <1>1, <2>1, <2>2
    <3>3. mutation' \subseteq Mutation
      BY <1>1, <2>1, <2>2
    <3> QED BY <2>7, <3>1, <3>2, <3>3 DEF MutationInv
  <2>9. ProviderInv' /\ SessionHasItsPage' /\ DraftInv'
    BY <1>3, <2>6, ProviderStays, DraftStays DEF Inv
  <2>10. ListMine'
    BY <1>6, <2>6 DEF Inv, ListMine
  <2> QED BY <1>4, <1>5, <2>6, <2>8, <2>9, <2>10 DEF Inv
<1>8. CASE ~(ok /\ m.op \in {"set", "edit"} /\ r.session # NoSession)
  <2> DEFINE deleted == WithoutKey(r, m.key, m.session)
             s == CASE ok /\ m.op = "set"    -> WithKey(r, m.key, m.session)
                    [] ok /\ m.op = "delete" -> deleted
                    [] OTHER -> r
  <2>1. r' = [s EXCEPT !.isMutating = FALSE] /\ mutation' = mutation \ {m}
    BY <1>8 DEF MutationAnswered
  <2>2. /\ StoreInv(deleted) /\ (Mine(r) /\ m.session = r.session => Mine(deleted))
        /\ deleted.session = r.session
        /\ deleted.details = NoDetails /\ deleted.keyLoads = r.keyLoads
    BY <1>1, <1>2, DeletedKeeps
  <2>3. LET t == WithKey(r, m.key, m.session)
        IN  /\ StoreInv(t) /\ (Mine(r) /\ m.session = r.session => Mine(t))
            /\ t.session = r.session /\ t.details = r.details /\ t.keyLoads = r.keyLoads
    BY <1>1, <1>2, WithKeyKeeps DEF SameKey
  <2>4. s \in {WithKey(r, m.key, m.session), deleted, r}
    OBVIOUS
  <2> HIDE DEF deleted, s
  <2>5. /\ StoreInv(s) /\ (Mine(r) /\ m.session = r.session => Mine(s)) /\ s.session = r.session
        /\ s.details \in {r.details, NoDetails} /\ s.keyLoads = r.keyLoads
    BY <1>1, <2>2, <2>3, <2>4
  <2>6. /\ StoreInv(r') /\ (Mine(s) => Mine(r')) /\ r'.session = r.session
        /\ r'.details \in {r.details, NoDetails} /\ r'.keyLoads = r.keyLoads
    BY <2>1, <2>5, MutatingKeeps
  <2>7. Awaited(r'.keyLoads, mutation')
    BY <1>1, <1>2, <2>1, <2>6 DEF Awaited
  <2>8. MutationInv'
    BY <1>1, <1>6, <2>1, <2>6, <2>7 DEF MutationInv
  <2>9. ListMine'
    BY <1>1, <1>6, <2>5, <2>6 DEF Inv, ListMine
  <2>10. ProviderInv' /\ SessionHasItsPage' /\ DraftInv'
    BY <1>3, <2>6, ProviderStays, DraftStays DEF Inv
  <2> QED BY <1>4, <1>5, <2>6, <2>8, <2>9, <2>10 DEF Inv
<1> QED BY <1>7, <1>8

(***************************************************************************)
(* redis_export_keyspace                                                   *)
(***************************************************************************)
\* A step of the export.
LEMMA ExportStep ==
  ASSUME Inv, ReplyFrame, ExportsInv', UNCHANGED <<providerVars, r, mutation, valueDraft, dragged>>
  PROVE  Inv'
<1>1. CountInv' /\ ProviderInv' /\ SessionHasItsPage'
  BY ProviderStays DEF Inv, CountInv, ReplyFrame, KindsNow
<1>2. StoreInv(r)' /\ ListMine' /\ MutationInv' /\ DraftInv'
  BY DEF Inv, ListMine, MutationInv, DraftInv, DraftIsOfTheKeyShown, ReplyFrame, providerVars
<1> QED BY <1>1, <1>2 DEF Inv

LEMMA ExportKeyspaceKeeps ==
  ASSUME Inv, UserFrame, ExportKeyspace
  PROVE  Inv'
<1>1. CountInv' /\ acts' = acts + 1 /\ acts \in Nat
  BY UserCounts DEF Inv
<1>2. /\ StoreInv(r') /\ (Mine(r) => Mine(r'))
      /\ r'.session = r.session /\ r'.details = r.details /\ r'.keyLoads = r.keyLoads
  BY MutatingKeeps DEF Inv, ExportKeyspace
<1>3. ProviderInv' /\ SessionHasItsPage' /\ astray' = astray
  BY <1>2, ProviderStays DEF Inv, ExportKeyspace, OnPage, providerVars
<1>4. ListMine' /\ DraftInv'
  BY <1>2, <1>3, DraftStays DEF Inv, ListMine, ExportKeyspace, UserFrame
<1>5. MutationInv'
  BY <1>1, <1>2, <1>3, MutationsStay DEF Inv, ExportKeyspace
<1>6. ExportsInv'
  <2> DEFINE e == [pattern |-> r.pattern, cursor |-> 0, found |-> <<>>, seen |-> {},
                   reading |-> NoDetails, details |-> <<>>, stayed |-> Present]
  <2>1. r.pattern \in SUBSET Keys /\ Present \in SUBSET Keys /\ 0 \in 0 .. NKeys
    BY RedisAssumption DEF Inv, StoreInv, Store, Present
  <2>2. e \in Export
    BY <2>1 DEF Export
  <2>3. \A k \in Keys : ~(k <= 0)
    BY DEF Keys
  <2>4. /\ e.details = <<>> /\ e.cursor = 0 /\ e.seen = {} /\ e.reading = NoDetails
        /\ e.stayed = Present
    OBVIOUS
  <2>5. export' = e /\ exported' = exported /\ server' = server
    BY DEF ExportKeyspace, UserFrame
  <2> HIDE DEF e
  <2>6. ExportInv(e)
    BY <2>1, <2>2, <2>3, <2>4, RedisAssumption
    DEF ExportInv, NoKeyTwice, ReadsNext, Seen, NoneLeftOut, Read
  <2>7. Present' = Present
    BY <2>5 DEF Present
  <2> QED BY <2>4, <2>5, <2>6, <2>7 DEF Inv, ExportsInv
<1> QED BY <1>1, <1>2, <1>3, <1>4, <1>5, <1>6 DEF Inv

LEMMA ExportScansKeeps ==
  ASSUME Inv, ReplyFrame, NEW again \in SUBSET Keys, ExportScans(again)
  PROVE  Inv'
<1> DEFINE e == export
           k == e.cursor + 1
           fresh == IF k \in Present \cap e.pattern THEN <<k>> ELSE <<>>
           repeated == IF again = {} THEN <<>> ELSE <<CHOOSE key \in again : TRUE>>
           found == fresh \o repeated
<1>1. ExportInv(e) /\ e \in Export /\ e.stayed \subseteq Present
  BY DEF Inv, ExportsInv, ExportScans, ExportInv
<1>2. e.found = <<>> /\ e.reading = NoDetails /\ e.cursor # NKeys
  BY DEF ExportScans, Stops, Exhausted
<1>3. e.cursor \in Nat /\ k \in Keys /\ k \in 0 .. NKeys
  BY <1>1, <1>2, RedisAssumption DEF Export, Keys
<1>4. fresh \in Seq(Keys) /\ repeated \in Seq(Keys)
  BY <1>3
<1>5. found \in Seq(Keys)
  BY <1>4
<1>6. k \in Present \cap e.pattern => IsIn(k, found)
  BY DEF IsIn
<1>7. export' = [e EXCEPT !.found = found, !.cursor = k]
  BY DEF ExportScans
<1>8. UNCHANGED <<providerVars, r, mutation, valueDraft, dragged, exported, server>>
  BY DEF ExportScans, ReplyFrame
<1> HIDE DEF fresh, repeated, found
<1>9. /\ export' \in Export /\ export'.found = found /\ export'.cursor = k
      /\ export'.details = e.details /\ export'.seen = e.seen /\ export'.stayed = e.stayed
      /\ export'.pattern = e.pattern /\ export'.reading = NoDetails
  BY <1>1, <1>2, <1>3, <1>5, <1>7 DEF Export
<1>10. NoneLeftOut(export')
  <2> SUFFICES ASSUME NEW x \in e.stayed \cap e.pattern, x <= k
               PROVE  Read(export', x) \/ IsIn(x, found)
    BY <1>9 DEF NoneLeftOut
  <2>1. x \in Nat /\ (x <= e.cursor \/ x = k)
    BY <1>1, <1>3 DEF Export, Keys
  <2>2. CASE x <= e.cursor
    BY <1>1, <1>2, <1>9, <2>2 DEF ExportInv, NoneLeftOut, Read, IsIn
  <2>3. CASE x = k
    BY <1>1, <1>6, <2>3
  <2> QED BY <2>1, <2>2, <2>3
<1>11. ExportInv(export')
  BY <1>1, <1>2, <1>9, <1>10 DEF ExportInv, NoKeyTwice, ReadsNext, Seen, Read
<1>12. Present' = Present
  BY <1>8 DEF Present
<1>13. ExportsInv'
  BY <1>1, <1>8, <1>9, <1>11, <1>12 DEF Inv, ExportsInv
<1> QED BY <1>8, <1>13, ExportStep

\* What is left to read when the first of the keys found is done with.
LEMMA TailFacts ==
  ASSUME NEW seq \in Seq(Keys), seq # <<>>
  PROVE  /\ Head(seq) \in Keys /\ Tail(seq) \in Seq(Keys)
         /\ \A k : IsIn(k, seq) => k = Head(seq) \/ IsIn(k, Tail(seq))
<1>1. Tail(seq) \in Seq(Keys) /\ Len(Tail(seq)) = Len(seq) - 1 /\ Head(seq) = seq[1]
  BY HeadTailProperties
<1>2. \A n \in 1 .. Len(seq) : n # 1 => n - 1 \in 1 .. Len(Tail(seq)) /\ Tail(seq)[n - 1] = seq[n]
  BY <1>1, HeadTailProperties
<1>3. ASSUME NEW k, IsIn(k, seq) PROVE k = Head(seq) \/ IsIn(k, Tail(seq))
  <2>1. PICK n \in DOMAIN seq : seq[n] = k
    BY <1>3 DEF IsIn
  <2>2. CASE n = 1
    BY <1>1, <2>1, <2>2
  <2>3. CASE n # 1
    <3>1. n - 1 \in 1 .. Len(Tail(seq)) /\ Tail(seq)[n - 1] = k
      BY <1>2, <2>1, <2>3
    <3>2. DOMAIN Tail(seq) = 1 .. Len(Tail(seq))
      BY <1>1
    <3> QED BY <3>1, <3>2 DEF IsIn
  <2> QED BY <2>2, <2>3
<1>4. Head(seq) \in Keys
  BY HeadTailProperties
<1> QED BY <1>1, <1>3, <1>4

LEMMA ExportTypesKeeps ==
  ASSUME Inv, ReplyFrame, ExportTypes
  PROVE  Inv'
<1> DEFINE e == export
           k == Head(e.found)
           reading == [key |-> k, kind |-> server[k]]
           seen == e.seen \cup {k}
<1>1. ExportInv(e) /\ e \in Export /\ e.stayed \subseteq Present
  BY DEF Inv, ExportsInv, ExportTypes, ExportInv
<1>2. e.found # <<>> /\ e.reading = NoDetails /\ Len(e.details) < ExportLimit
  BY DEF ExportTypes
<1>3. /\ k \in Keys /\ Tail(e.found) \in Seq(Keys)
      /\ \A x : IsIn(x, e.found) => x = k \/ IsIn(x, Tail(e.found))
  <2>1. e.found \in Seq(Keys)
    BY <1>1 DEF Export
  <2> QED BY <1>2, <2>1, TailFacts
<1>4. UNCHANGED <<providerVars, r, mutation, valueDraft, dragged, exported, server>>
  BY DEF ExportTypes, ReplyFrame
<1>5. CASE IsNew(k)
  <2>1. export' = [e EXCEPT !.seen = seen, !.reading = reading]
    BY <1>5 DEF ExportTypes
  <2>2. reading \in Details /\ seen \in SUBSET Keys /\ reading.key = k /\ reading # NoDetails
    BY <1>1, <1>3, RedisAssumption DEF Details, Inv, CountInv, KindsNow, Export
  <2>3. ~Read(e, k)
    BY <1>1, <1>3, <1>5 DEF ExportInv, Seen, IsNew
  <2> HIDE DEF reading
  <2>4. \A x \in Keys : x \in seen <=> x \in e.seen \/ x = k
    OBVIOUS
  <2> HIDE DEF seen, k
  <2>5. /\ export' \in Export /\ export'.found = e.found /\ export'.cursor = e.cursor
        /\ export'.details = e.details /\ export'.seen = seen /\ export'.stayed = e.stayed
        /\ export'.pattern = e.pattern /\ export'.reading = reading
    BY <1>1, <2>1, <2>2 DEF Export
  <2>6. ReadsNext(export')
    BY <1>2, <2>2, <2>3, <2>5 DEF ReadsNext, Read, k
  <2>7. Seen(export')
    BY <1>1, <1>2, <2>2, <2>4, <2>5 DEF ExportInv, Seen, Read
  <2>8. NoneLeftOut(export') /\ NoKeyTwice(export') /\ Len(export'.details) <= ExportLimit
    BY <1>1, <2>5 DEF ExportInv, NoneLeftOut, NoKeyTwice, Read
  <2>9. ExportInv(export')
    BY <2>5, <2>6, <2>7, <2>8 DEF ExportInv
  <2>10. ExportsInv'
    BY <1>1, <1>4, <2>5, <2>9 DEF Inv, ExportsInv, Present
  <2> QED BY <1>4, <2>10, ExportStep
<1>6. CASE ~IsNew(k)
  <2>1. export' = [e EXCEPT !.found = Tail(e.found)]
    BY <1>6 DEF ExportTypes
  <2>2. Read(e, k)
    BY <1>1, <1>2, <1>3, <1>6 DEF ExportInv, Seen, IsNew
  <2> HIDE DEF k
  <2>3. /\ export' \in Export /\ export'.found = Tail(e.found) /\ export'.cursor = e.cursor
        /\ export'.details = e.details /\ export'.seen = e.seen /\ export'.stayed = e.stayed
        /\ export'.pattern = e.pattern /\ export'.reading = NoDetails
    BY <1>1, <1>2, <1>3, <2>1 DEF Export
  <2>4. NoneLeftOut(export')
    BY <1>1, <1>3, <2>2, <2>3 DEF ExportInv, NoneLeftOut, Read
  <2>5. ReadsNext(export') /\ Seen(export') /\ NoKeyTwice(export')
        /\ Len(export'.details) <= ExportLimit
    BY <1>1, <1>2, <2>3 DEF ExportInv, ReadsNext, Seen, NoKeyTwice, Read
  <2>6. ExportInv(export')
    BY <2>3, <2>4, <2>5 DEF ExportInv
  <2>7. ExportsInv'
    BY <1>1, <1>4, <2>3, <2>6 DEF Inv, ExportsInv, Present
  <2> QED BY <1>4, <2>7, ExportStep
<1> QED BY <1>5, <1>6

LEMMA ExportReadsKeeps ==
  ASSUME Inv, ReplyFrame, ExportReads
  PROVE  Inv'
<1> DEFINE e == export
           k == e.reading.key
           details == Append(e.details, e.reading)
<1>1. ExportInv(e) /\ e \in Export /\ e.stayed \subseteq Present
  BY DEF Inv, ExportsInv, ExportReads, ExportInv
<1>2. /\ e.reading # NoDetails /\ e.reading \in Details /\ k \in Keys /\ e.found # <<>>
      /\ k = Head(e.found) /\ Len(e.details) < ExportLimit /\ ~Read(e, k)
  BY <1>1 DEF ExportReads, ExportInv, ReadsNext, Export, Details
<1>3. /\ Tail(e.found) \in Seq(Keys)
      /\ \A x : IsIn(x, e.found) => x = k \/ IsIn(x, Tail(e.found))
  <2>1. e.found \in Seq(Keys)
    BY <1>1 DEF Export
  <2> QED BY <1>2, <2>1, TailFacts
<1>4. UNCHANGED <<providerVars, r, mutation, valueDraft, dragged, exported, server>>
  BY DEF ExportReads, ReplyFrame
<1>5. e.details \in Seq(Details) /\ Len(e.details) \in Nat
  BY <1>1 DEF Export
<1>6. /\ details \in Seq(Details) /\ Len(details) = Len(e.details) + 1
      /\ \A n \in 1 .. Len(e.details) : details[n] = e.details[n]
      /\ details[Len(e.details) + 1] = e.reading
      /\ DOMAIN details = 1 .. Len(e.details) + 1 /\ DOMAIN e.details = 1 .. Len(e.details)
  BY <1>2, <1>5
<1>7. export' = [e EXCEPT !.details = details, !.found = Tail(@), !.reading = NoDetails]
  BY DEF ExportReads
<1> HIDE DEF details
<1>8. /\ export' \in Export /\ export'.found = Tail(e.found) /\ export'.cursor = e.cursor
      /\ export'.details = details /\ export'.seen = e.seen /\ export'.stayed = e.stayed
      /\ export'.pattern = e.pattern /\ export'.reading = NoDetails
  BY <1>1, <1>3, <1>6, <1>7 DEF Export
<1>9. \A x : Read(export', x) <=> Read(e, x) \/ x = k
  BY <1>5, <1>6, <1>8 DEF Read
<1>10. NoKeyTwice(export')
  <2> SUFFICES ASSUME NEW i \in 1 .. Len(e.details) + 1, NEW j \in 1 .. Len(e.details) + 1,
                      details[i].key = details[j].key
               PROVE  i = j
    BY <1>6, <1>8 DEF NoKeyTwice
  <2>1. CASE i \in 1 .. Len(e.details) /\ j \in 1 .. Len(e.details)
    BY <1>1, <1>6, <2>1 DEF ExportInv, NoKeyTwice
  <2>2. CASE i \in 1 .. Len(e.details) /\ j = Len(e.details) + 1
    BY <1>2, <1>6, <2>2 DEF Read
  <2>3. CASE i = Len(e.details) + 1 /\ j \in 1 .. Len(e.details)
    BY <1>2, <1>6, <2>3 DEF Read
  <2>4. CASE i = Len(e.details) + 1 /\ j = Len(e.details) + 1
    BY <2>4
  <2> QED BY <1>5, <2>1, <2>2, <2>3, <2>4
<1>11. ReadsNext(export') /\ Len(export'.details) <= ExportLimit
  BY <1>2, <1>5, <1>6, <1>8, RedisAssumption DEF ReadsNext
<1>12. Seen(export')
  BY <1>1, <1>2, <1>8, <1>9 DEF ExportInv, Seen
<1>13. NoneLeftOut(export')
  BY <1>1, <1>3, <1>8, <1>9 DEF ExportInv, NoneLeftOut
<1>14. ExportInv(export')
  BY <1>8, <1>10, <1>11, <1>12, <1>13 DEF ExportInv
<1>15. ExportsInv'
  BY <1>1, <1>4, <1>8, <1>14 DEF Inv, ExportsInv, Present
<1> QED BY <1>4, <1>15, ExportStep

LEMMA ExportEndsKeeps ==
  ASSUME Inv, ReplyFrame, NEW ok \in BOOLEAN, ExportEnds(ok)
  PROVE  Inv'
<1>1. acts' = acts /\ acts \in Nat /\ CountInv'
  BY DEF Inv, CountInv, ReplyFrame, ExportEnds, KindsNow
<1>2. /\ StoreInv(r') /\ (Mine(r) => Mine(r'))
      /\ r'.session = r.session /\ r'.details = r.details /\ r'.keyLoads = r.keyLoads
  BY MutatingKeeps DEF Inv, ExportEnds
<1>3. ProviderInv' /\ SessionHasItsPage' /\ astray' = astray
  BY <1>2, ProviderStays DEF Inv, ExportEnds, providerVars
<1>4. ListMine' /\ DraftInv'
  BY <1>2, <1>3, DraftStays DEF Inv, ListMine, ExportEnds
<1>5. MutationInv'
  BY <1>1, <1>2, <1>3, MutationsStay DEF Inv, ExportEnds
<1>6. ExportsInv'
  <2>1. export' = NoExport /\ exported' \in {export, exported}
    BY DEF ExportEnds
  <2>2. ok => exported' = export /\ export.reading = NoDetails /\ Stops(export) /\ export # NoExport
    BY DEF ExportEnds
  <2>3. ~ok => exported' = exported
    BY DEF ExportEnds
  <2> QED BY <2>1, <2>2, <2>3 DEF Inv, ExportsInv, Stops, Exhausted
<1> QED BY <1>1, <1>2, <1>3, <1>4, <1>5, <1>6 DEF Inv

(***************************************************************************)
(* The invariant, and what it implies                                      *)
(***************************************************************************)
LEMMA InitInv ==
  ASSUME Init
  PROVE  Inv
<1>1. r = EmptyStore /\ r \in Store
  <2>1. 0 \in 0 .. NKeys - 1 /\ Keys \in SUBSET Keys
    BY RedisAssumption
  <2> QED BY <2>1 DEF Init, EmptyStore, Store
<1>2. /\ r.session = NoSession /\ r.scans = {} /\ r.keyLoads = {} /\ r.details = NoDetails
  BY <1>1 DEF EmptyStore
<1>3. StoreInv(r) /\ Mine(r)
  BY <1>1, <1>2
  DEF StoreInv, ListInv, NewestScan, AtMostOne, Continues, Listed, Mine, KeyInv, NewestKey, Shown,
      OneLoadEach
<1>4. CountInv
  <2>1. server \in KindsNow
    BY DEF Init, KindsNow
  <2>2. acts = 0 /\ theirs = 0 /\ dragged = FALSE
    BY DEF Init
  <2>3. acts \in 0 .. MaxActs /\ theirs \in 0 .. MaxTheirs
    BY <2>2, RedisAssumption
  <2> QED BY <2>1, <2>2, <2>3 DEF CountInv
<1>5. ProviderInv
  <2>1. IsFiniteSet(attempts) /\ Cardinality(attempts) = 0 /\ attempts = {}
    BY FS_EmptySet DEF Init
  <2>2. sessions = 0 /\ MaxSessions \in Nat
    BY RedisAssumption DEF Init
  <2>3. sessions + Cardinality(attempts) <= MaxSessions
    BY <2>1, <2>2
  <2>4. /\ draft \in Conns \cup {NoDraft} /\ open \in BOOLEAN /\ isLoading \in BOOLEAN
        /\ astray \in BOOLEAN
    BY DEF Init
  <2> QED BY <2>1, <2>2, <2>3, <2>4 DEF ProviderInv
<1>6. SessionHasItsPage /\ DraftInv
  BY <1>2 DEF Init, SessionHasItsPage, DraftInv, DraftIsOfTheKeyShown
<1>7. MutationInv /\ ExportsInv
  BY <1>2 DEF Init, MutationInv, Awaited, ExportsInv
<1> QED BY <1>3, <1>4, <1>5, <1>6, <1>7 DEF Inv, ListMine

LEMMA NextKeepsInv ==
  ASSUME Inv, [Next]_vars
  PROVE  Inv'
<1>1. ASSUME UserActs, UserFrame PROVE Inv'
  <2>1. ASSUME NEW c \in Conns, ChooseTarget(c) PROVE Inv'
    BY <1>1, <2>1, ChooseTargetKeeps
  <2>2. ASSUME NEW c \in Conns, ConnectWorkspaceDraft(c) PROVE Inv'
    BY <1>1, <2>2, ConnectWorkspaceDraftKeeps
  <2>3. ASSUME NEW c \in Conns, OpenRecentItem(c) PROVE Inv'
    BY <1>1, <2>3, OpenRecentItemKeeps
  <2>4. CASE BackHome
    BY <1>1, <2>4, BackHomeKeeps
  <2>5. ASSUME NEW reset \in BOOLEAN, Scan(reset) PROVE Inv'
    BY <1>1, <2>5, ScanKeeps
  <2>6. ASSUME NEW p \in Patterns, SetPattern(p) PROVE Inv'
    BY <1>1, <2>6, SetPatternKeeps
  <2>7. ASSUME NEW k \in Keys, NEW by \in {Page, Sidebar}, ChooseKey(k, by) PROVE Inv'
    BY <1>1, <2>7, ChooseKeyKeeps
  <2>8. CASE \/ SaveString \/ DeleteSelectedKey \/ MutateCollection
             \/ \E k \in Keys, kind \in Kinds \cup {NoKind} : RunCommand(k, kind)
    BY <1>1, <2>8, MutationsKeep
  <2>9. CASE ExportKeyspace
    BY <1>1, <2>9, ExportKeyspaceKeeps
  <2> QED BY <1>1, <2>1, <2>2, <2>3, <2>4, <2>5, <2>6, <2>7, <2>8, <2>9 DEF UserActs
<1>2. ASSUME Replies, ReplyFrame PROVE Inv'
  <2>1. ASSUME NEW a \in attempts, NEW ok \in BOOLEAN, PasswordLoaded(a, ok) PROVE Inv'
    BY <1>2, <2>1, PasswordLoadedKeeps
  <2>2. ASSUME NEW a \in attempts, NEW ok \in BOOLEAN, Connects(a, ok) PROVE Inv'
    BY <1>2, <2>2, ConnectsKeeps
  <2>3. ASSUME NEW l \in r.scans, NEW ok \in BOOLEAN, KeysArrive(l, ok) PROVE Inv'
    BY <1>2, <2>3, KeysArriveKeeps
  <2>4. ASSUME NEW l \in r.keyLoads, KeyTyped(l) PROVE Inv'
    BY <1>2, <2>4, KeyTypedKeeps
  <2>5. ASSUME NEW l \in r.keyLoads, NEW ok \in BOOLEAN, KeyArrives(l, ok) PROVE Inv'
    BY <1>2, <2>5, KeyArrivesForTheUser, KeyArrivesForAMutation
  <2>6. ASSUME NEW again \in SUBSET Keys, ExportScans(again) PROVE Inv'
    BY <1>2, <2>6, ExportScansKeeps
  <2>7. CASE ExportTypes
    BY <1>2, <2>7, ExportTypesKeeps
  <2>8. CASE ExportReads
    BY <1>2, <2>8, ExportReadsKeeps
  <2>9. ASSUME NEW ok \in BOOLEAN, ExportEnds(ok) PROVE Inv'
    BY <1>2, <2>9, ExportEndsKeeps
  <2> QED BY <1>2, <2>1, <2>2, <2>3, <2>4, <2>5, <2>6, <2>7, <2>8, <2>9 DEF Replies
<1>3. CASE MutationReplies /\ UNCHANGED acts
  BY <1>3, MutationAnsweredKeeps DEF MutationReplies
<1>4. CASE Others /\ UNCHANGED acts
  BY <1>4, TheyWriteKeeps DEF Others
<1>5. CASE UNCHANGED vars
  <2>1. CountInv' /\ ProviderInv' /\ SessionHasItsPage'
    BY <1>5 DEF vars, Inv, CountInv, ProviderInv, SessionHasItsPage
  <2>2. StoreInv(r)' /\ ListMine' /\ MutationInv' /\ DraftInv' /\ ExportsInv'
    BY <1>5
    DEF vars, Inv, ListMine, MutationInv, DraftInv, DraftIsOfTheKeyShown, ExportsInv, Present
  <2> QED BY <2>1, <2>2 DEF Inv
<1> QED BY <1>1, <1>2, <1>3, <1>4, <1>5 DEF Next, UserFrame, ReplyFrame

LEMMA Invariance == Spec => []Inv
BY InitInv, NextKeepsInv, PTL DEF Spec

\* At most one load of a kind is the newest one.
LEMMA OneNewest ==
  ASSUME NEW loads, AtMostOne(loads)
  PROVE  Cardinality({l \in loads : l.latest}) <= 1
<1> DEFINE S == {l \in loads : l.latest}
<1>1. CASE S = {}
  BY <1>1, FS_EmptySet
<1>2. ASSUME NEW l \in S PROVE Cardinality(S) <= 1
  <2>1. \A m \in S : m = l
    BY <1>2 DEF AtMostOne
  <2>2. S = {l}
    BY <1>2, <2>1
  <2> HIDE DEF S
  <2> QED BY <2>2, FS_Singleton
<1> QED BY <1>1, <1>2

\* The provider, the store, the page and the server keep their types, and of the scans and
\* of the loads of a key at most one is awaited, for any number of them (the request ids of
\* RedisWorkspaceStore).
THEOREM TypesHold == Spec => []TypeOK
<1>1. Inv => TypeOK
  <2> SUFFICES ASSUME Inv PROVE TypeOK
    OBVIOUS
  <2>1. r \in Store /\ AtMostOne(r.scans) /\ AtMostOne(r.keyLoads)
    BY DEF Inv, StoreInv, ListInv, NewestScan, KeyInv, NewestKey
  <2>2. \A loads \in {r.scans, r.keyLoads} : Cardinality({l \in loads : l.latest}) <= 1
    BY <2>1, OneNewest
  <2>3. /\ r.session \in Session \cup {NoSession} /\ r.pattern \in SUBSET Keys
        /\ r.cursor \in 0 .. NKeys - 1 /\ r.selected \in Keys \cup {NoKey}
        /\ r.details \in Details \cup {NoDetails}
        /\ {r.keys, r.saved, r.removed} \subseteq SUBSET Keys
        /\ \A l \in r.keyLoads : l.by \in Callers
    BY <2>1 DEF Store, KeyLoad
  <2>4. sessions \in 0 .. MaxSessions
    BY FS_CardinalityType, RedisAssumption DEF Inv, ProviderInv
  <2>5. /\ draft \in Conns \cup {NoDraft} /\ {open, isLoading, astray, dragged} \subseteq BOOLEAN
        /\ \A a \in attempts : a.conn \in Conns /\ a.stage \in {"password", "connecting"}
        /\ acts \in 0 .. MaxActs /\ theirs \in 0 .. MaxTheirs
        /\ server \in KindsNow /\ valueDraft \in Keys \cup {NoKey}
    BY DEF Inv, CountInv, ProviderInv, Attempt, DraftInv
  <2> QED BY <2>2, <2>3, <2>4, <2>5 DEF TypeOK
<1> QED BY <1>1, Invariance, PTL

\* Whatever order scans are answered in, a list that is not loading stands for exactly the
\* keyspace in front of the cursor, under the session and the pattern on show: it holds what
\* was found there and is not deleted since, and beyond that only keys saved since (loadKeys,
\* setSession, setPattern, setString, deleteSelectedKey).
THEOREM ListIsOfTheView == Spec => []KeysAreOfTheView
<1>1. Inv => KeysAreOfTheView
  <2> SUFFICES ASSUME Inv, ~r.isLoadingKeys, ~r.scanFailed, r.session # NoSession
               PROVE  (~astray => Accounted(r)) /\ OfTheView(r)
    BY DEF KeysAreOfTheView, OfTheView, Accounted, AllFound, UpTo
  <2>1. ~StartsAnew(r)
    BY DEF StartsAnew, Inv, StoreInv, ListInv, NewestScan
  <2> QED BY <2>1 DEF Inv, StoreInv, ListInv, Listed, ListMine, Mine
<1> QED BY <1>1, Invariance, PTL

\* The key that is deleted or edited is the key on show (selectKey, deleteSelectedKey,
\* mutateCollection).
THEOREM SelectionIsShown == Spec => []DetailsAreOfTheSelection
<1>1. Inv => DetailsAreOfTheSelection
  BY DEF Inv, StoreInv, KeyInv, Shown, DetailsAreOfTheSelection
<1> QED BY <1>1, Invariance, PTL

\* The text that would be saved was the value of the key on show, if that key was put there
\* by a selection made on the page (the page's value draft; a selection in the sidebar or of
\* a mutation leaves the text as it was).
THEOREM TextIsOfTheKey == Spec => []DraftIsOfTheKeyShown
<1>1. Inv => DraftIsOfTheKeyShown
  BY DEF Inv, DraftInv
<1> QED BY <1>1, Invariance, PTL

\* No session is without its page (clearWorkspace, connectWorkspaceDraft).
THEOREM SessionsAreOpen == Spec => []SessionHasItsPage
<1>1. Inv => SessionHasItsPage
  BY DEF Inv
<1> QED BY <1>1, Invariance, PTL

\* For any keyspace, limit and writes of others between two Redis commands, an export is
\* complete and repeats nothing (redis_export_keyspace).
THEOREM ExportsAreFaithful == Spec => []ExportIsFaithful
<1>1. Inv => ExportIsFaithful
  <2> SUFFICES ASSUME Inv, exported # NoExport
               PROVE  LET keys == [n \in DOMAIN exported.details |-> exported.details[n].key]
                      IN  /\ \A i, j \in DOMAIN keys : keys[i] = keys[j] => i = j
                          /\ Len(keys) <= ExportLimit
                          /\ Len(keys) < ExportLimit =>
                               \A k \in exported.stayed \cap exported.pattern :
                                 \E n \in DOMAIN keys : keys[n] = k
    BY DEF ExportIsFaithful
  <2> DEFINE e == exported
             keys == [n \in DOMAIN e.details |-> e.details[n].key]
  <2>1. /\ e \in Export /\ Len(e.details) <= ExportLimit /\ NoKeyTwice(e) /\ NoneLeftOut(e)
        /\ Stops(e)
    BY DEF Inv, ExportsInv, ExportInv
  <2>2. /\ DOMAIN keys = DOMAIN e.details /\ DOMAIN e.details = 1 .. Len(e.details)
        /\ Len(e.details) \in Nat /\ \A n \in DOMAIN keys : keys[n] = e.details[n].key
    BY <2>1 DEF Export
  <2>3. Len(keys) = Len(e.details)
    BY <2>2
  <2>4. Len(keys) < ExportLimit =>
          \A k \in e.stayed \cap e.pattern : \E n \in DOMAIN keys : keys[n] = k
    <3> SUFFICES ASSUME Len(e.details) < ExportLimit, NEW k \in e.stayed \cap e.pattern
                 PROVE  \E n \in DOMAIN keys : keys[n] = k
      BY <2>3
    <3>1. Exhausted(e) /\ k \in Keys
      BY <2>1, <2>2, RedisAssumption DEF Stops, Export
    <3>2. k <= e.cursor /\ e.found = <<>>
      BY <3>1, RedisAssumption DEF Exhausted, Keys
    <3>3. Read(e, k)
      BY <2>1, <3>2 DEF NoneLeftOut, IsIn
    <3> QED BY <2>2, <3>3 DEF Read
  <2>5. \A i, j \in DOMAIN keys : keys[i] = keys[j] => i = j
    BY <2>1, <2>2 DEF NoKeyTwice
  <2> HIDE DEF keys
  <2> QED BY <2>1, <2>3, <2>4, <2>5 DEF keys
<1> QED BY <1>1, Invariance, PTL
=============================================================================
