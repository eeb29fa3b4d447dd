---------------------------- MODULE RedisWorkspace ----------------------------
(***************************************************************************)
(* The Redis workspace: RedisProviderService (draft, attempts to connect), *)
(* RedisWorkspaceStore (scanned keys, selected key, mutations, export),    *)
(* the page's value draft and the commands of redis.rs that read keys one  *)
(* Redis command at a time while other clients write.                      *)
(*                                                                         *)
(* The store is one record, r. Keys are numbers: SCAN from cursor n looks  *)
(* at key n + 1. A pattern is the set of the keys it matches.              *)
(***************************************************************************)
EXTENDS Naturals, Sequences, FiniteSets

CONSTANTS
  Conns,                     (* connection targets                                    *)
  NKeys, Kinds, String,      (* keys, their types, and the type of strings            *)
  Patterns,                  (* patterns typed by the user; the store starts with all *)
  ExportLimit,               (* exportKeyspace's maxKeys                              *)
  NoDraft, NoSession, NoKey, NoDetails, NoKind, NoExport,       (* null, "none"       *)
  Page, Sidebar,             (* who selects a key, beside the mutations               *)
  MaxActs, MaxSessions, MaxLoads, MaxTheirs                     (* bounds             *)

Keys == 1 .. NKeys

VARIABLES
  draft,       (* workspaceDraft                                                      *)
  open,        (* the host shows the Redis workspace                                  *)
  isLoading,   (* of the host                                                         *)
  attempts,    (* openRecentItem and connectWorkspaceDraft under way                  *)
  r,           (* the RedisWorkspaceStore and the loads it waits for                  *)
  mutation,    (* mutations under way                                                 *)
  valueDraft,  (* the key whose value was put in the page's text field                *)
  server,      (* the type of every key                                               *)
  export,      (* redis_export_keyspace under way                                     *)
  exported,    (* what the last export returned                                       *)
  acts, theirs,     (* counters for the bounds                                        *)
  sessions,
  astray,      (* history: the user left, or another session began, while a mutation
                  was under way                                                       *)
  dragged      (* history: details put on show by a selection the page did not follow *)

vars == <<draft, open, isLoading, attempts, r, mutation, valueDraft, server, export,
          exported, acts, theirs, sessions, astray, dragged>>
providerVars == <<draft, open, isLoading, attempts, sessions, astray>>
exportVars   == <<export, exported>>

Session  == [n : 1 .. MaxSessions, conn : Conns]
Details  == [key : Keys, kind : Kinds \cup {NoKind}]
Callers  == Nat \cup {Page, Sidebar}   (* a number is a mutation's *)
View     == [session : Session, pattern : SUBSET Keys]
KindsNow == [Keys -> Kinds \cup {NoKind}]
Present  == {k \in Keys : server[k] # NoKind}

ASSUME RedisAssumption ==
  /\ NKeys \in Nat \ {0} /\ ExportLimit \in Nat \ {0}
  /\ String \in Kinds /\ NoKind \notin Kinds /\ NoKey \notin Nat \cup Kinds \cup {NoKind}
  /\ NoSession \notin Session /\ NoDetails \notin Details /\ NoDraft \notin Conns
  /\ Page \notin Nat /\ Sidebar \notin Nat \cup {Page}
  /\ Patterns \subseteq SUBSET Keys
  /\ {MaxActs, MaxSessions, MaxLoads, MaxTheirs} \subseteq Nat

(***************************************************************************)
(* RedisWorkspaceStore                                                     *)
(***************************************************************************)
EmptyStore ==
  [session |-> NoSession, keys |-> {}, selected |-> NoKey, details |-> NoDetails,
   cursor |-> 0, pattern |-> Keys,
   scans |-> {}, keyLoads |-> {},
   isLoadingKeys |-> FALSE, isLoadingKey |-> FALSE, isMutating |-> FALSE,
   \* history
   scanned |-> {},        \* the parts of the keyspace the list stands for, with what they held
   saved |-> {},          \* keys setString has put in the list since it was scanned from the start
   removed |-> {},        \* keys deleteSelectedKey has taken off it
   scanFailed |-> FALSE,  \* the last scan from the start has failed
   keyFailed |-> FALSE]   \* the last selected key could not be read

AllLatest(loads) == loads
Outdated(loads) == {[l EXCEPT !.latest = FALSE] : l \in loads}

ViewOf(s) == [session |-> s.session, pattern |-> s.pattern]

MayLoadKeys(s, reset) == s.session # NoSession /\ (reset \/ ~s.isLoadingKeys)

LoadKeys(s, reset) ==
  IF ~MayLoadKeys(s, reset) THEN s
  ELSE [s EXCEPT !.isLoadingKeys = TRUE,
                 !.scans = Outdated(@) \cup
                   {[view |-> ViewOf(s), cursor |-> IF reset THEN 0 ELSE s.cursor,
                     reset |-> reset, latest |-> TRUE]}]

SetSession(s, sn) ==
  LoadKeys([s EXCEPT !.scans = Outdated(@), !.keyLoads = Outdated(@), !.session = sn,
                     !.keys = {}, !.cursor = 0, !.selected = NoKey, !.details = NoDetails,
                     !.scanned = {}, !.saved = {}, !.removed = {}, !.scanFailed = FALSE, !.keyFailed = FALSE], TRUE)

\* by: the page, the sidebar or the mutation that waits for the key. kind is NoKey until
\* TYPE is answered.
SelectKey(s, key, by) ==
  IF s.session = NoSession THEN s
  ELSE [s EXCEPT !.selected = key, !.isLoadingKey = TRUE,
                 !.keyLoads = Outdated(@) \cup
                   {[session |-> s.session, key |-> key, kind |-> NoKey, by |-> by,
                     latest |-> TRUE]}]

KeepSession(s) == [EmptyStore EXCEPT !.session = s.session, !.pattern = s.pattern]
Clear(s) ==
  [EmptyStore EXCEPT !.pattern = s.pattern, !.scans = Outdated(s.scans),
                     !.keyLoads = Outdated(s.keyLoads)]

AnyOfTheSession(s, l) == l.view.session = s.session
TakesKeys(s, l) == l.latest /\ l.view = ViewOf(s)

\* SCAN looks at one key; a key that stays is found.
Found(l) == {k \in Present \cap l.view.pattern : k = l.cursor + 1}

OnlyOnSuccess(l, ok) == l.latest /\ ok
EndsTheSpinner(l, ok) == l.latest

\* loadKeys behind its await.
KeysReply(s, l, ok) ==
  LET found == Found(l)
      part  == {[view |-> l.view, cursor |-> l.cursor, found |-> found]}
      s1 == IF TakesKeys(s, l) /\ ok
            THEN [s EXCEPT !.keys = IF l.reset THEN found ELSE @ \cup found,
                           !.cursor = (l.cursor + 1) % NKeys,
                           !.scanned = IF l.reset THEN part ELSE @ \cup part,
                           !.saved   = IF l.reset THEN {} ELSE @,
                           !.removed = IF l.reset THEN {} ELSE @ \ found,
                           !.scanFailed = @ /\ ~l.reset]
            ELSE [s EXCEPT !.scanFailed = @ \/ (l.latest /\ l.reset)]
  IN  [s1 EXCEPT !.scans = @ \ {l},
                 !.isLoadingKeys = @ /\ ~EndsTheSpinner(l, ok)]

TakesAnyKey(s, l) == l.session = s.session
TakesDetails(s, l) == l.latest /\ l.session = s.session /\ l.key = s.selected

KeyReply(s, l, ok) ==
  LET s1 == IF ~TakesDetails(s, l) THEN s
            ELSE IF ok THEN [s EXCEPT !.details = [key |-> l.key, kind |-> l.kind],
                                      !.keyFailed = FALSE]
                 ELSE [s EXCEPT !.keyFailed = TRUE]
  IN  [s1 EXCEPT !.keyLoads = @ \ {l}, !.isLoadingKey = @ /\ ~l.latest]

\* What a mutation of this session does to the list is remembered.
Own(s, session, key) == IF session = s.session THEN {key} ELSE {}

\* setString once its key is selected again: it is listed, whatever the pattern.
WithKey(s, key, session) ==
  IF key \in s.keys THEN s
  ELSE [s EXCEPT !.keys = @ \cup {key}, !.saved = @ \cup Own(s, session, key),
                 !.removed = @ \ {key}]

\* deleteSelectedKey behind its await.
WithoutKey(s, key, session) ==
  [s EXCEPT !.keys = @ \ {key}, !.selected = NoKey, !.details = NoDetails,
            !.saved = @ \ {key}, !.removed = @ \cup Own(s, session, key)]

\* Who waits for a key when the page is gone: nobody who would follow.
Unfollowed(loads) == {[l EXCEPT !.by = IF @ = Page THEN Sidebar ELSE @] : l \in loads}

(***************************************************************************)
(* RedisProviderService                                                    *)
(***************************************************************************)
Pending == Cardinality(attempts) + sessions
Asked(c, stage) == attempts' = attempts \cup {[n |-> Pending + 1, conn |-> c, stage |-> stage]}

\* openFromHome, openSample, selectProfile, saveDraft.
ChooseTarget(c) ==
  /\ r.session = NoSession
  /\ draft' = c /\ open' = TRUE
  /\ UNCHANGED <<isLoading, attempts, r, mutation, valueDraft, sessions, astray, exportVars>>

\* connectDraft and "Reconnect" are off while isLoading; "Save & connect" is not.
ConnectWorkspaceDraft(c) ==
  /\ open /\ Pending < MaxSessions
  /\ IF c = draft THEN ~isLoading ELSE r.session = NoSession
  /\ draft' = c
  /\ isLoading' = TRUE
  /\ Asked(c, "connecting")
  /\ UNCHANGED <<open, r, mutation, valueDraft, sessions, astray, exportVars>>

\* A recent item waits for its password ...
OpenRecentItem(c) ==
  /\ ~open /\ Pending < MaxSessions
  /\ draft' = c /\ open' = TRUE
  /\ Asked(c, "password")
  /\ UNCHANGED <<isLoading, r, mutation, valueDraft, sessions, astray, exportVars>>

\* ... and connects to the target chosen by then.
PasswordLoaded(a, found) ==
  /\ a.stage = "password"
  /\ IF found /\ draft # NoDraft
     THEN /\ attempts' = (attempts \ {a}) \cup {[a EXCEPT !.conn = draft, !.stage = "connecting"]}
          /\ isLoading' = TRUE
     ELSE attempts' = attempts \ {a} /\ UNCHANGED isLoading
  /\ UNCHANGED <<draft, open, r, mutation, valueDraft, sessions, astray, dragged, exportVars>>

Connects(a, ok) ==
  /\ a.stage = "connecting"
  /\ attempts' = attempts \ {a}
  /\ isLoading' = FALSE
  /\ IF ok
     THEN LET sn == [n |-> sessions + 1, conn |-> a.conn]
          IN  /\ r' = SetSession(r, sn)
              /\ sessions' = sessions + 1
              /\ open' = TRUE
     ELSE UNCHANGED <<r, open, sessions>>
  /\ astray' = (astray \/ (ok /\ mutation # {}))
  /\ UNCHANGED <<draft, mutation, valueDraft, dragged, exportVars>>

\* clearWorkspace and the host's clearWorkspace: "Back to Home". The page goes, and the text
\* in it.
BackHome ==
  /\ open
  /\ open' = FALSE /\ draft' = NoDraft
  /\ r' = LET s == Clear(r) IN [s EXCEPT !.keyLoads = Unfollowed(@)]
  /\ valueDraft' = NoKey
  /\ astray' = (astray \/ mutation # {})
  /\ UNCHANGED <<isLoading, attempts, mutation, sessions, exportVars>>

(***************************************************************************)
(* The page                                                                *)
(***************************************************************************)
OnPage == open /\ r.session # NoSession /\ UNCHANGED providerVars
HasRoom(s) == Cardinality(s.scans) <= MaxLoads /\ Cardinality(s.keyLoads) <= MaxLoads

Scan(reset) ==
  /\ OnPage
  /\ reset => ~r.isMutating
  /\ ~reset => r.cursor # 0 /\ MayLoadKeys(r, reset)
  /\ r' = LoadKeys(r, reset)
  /\ HasRoom(r')
  /\ UNCHANGED <<mutation, valueDraft, exportVars>>

SetPattern(p) ==
  /\ OnPage
  /\ r' = LoadKeys([r EXCEPT !.pattern = p], TRUE)
  /\ HasRoom(r')
  /\ UNCHANGED <<mutation, valueDraft, exportVars>>

\* The page and the sidebar both list the keys; only the page goes on behind its selection.
ChooseKey(k, by) ==
  /\ OnPage /\ k \in r.keys
  /\ r' = SelectKey(r, k, by)
  /\ HasRoom(r')
  /\ UNCHANGED <<mutation, valueDraft, exportVars>>

\* A mutation goes out. Only clear lets a second one start before the first has ended.
Mutate(op, k, kind) ==
  /\ OnPage /\ ~r.isMutating /\ Cardinality(mutation) < MaxLoads
  /\ r' = [r EXCEPT !.isMutating = TRUE]
  /\ mutation' = mutation \cup
       {[n |-> acts + 1, op |-> op, key |-> k, kind |-> kind, session |-> r.session, stage |-> "call"]}
  /\ UNCHANGED <<valueDraft, exportVars>>

\* Saving writes the text to the key on show, deleting and editing go to the selected key.
SaveString ==
  /\ r.details # NoDetails /\ r.details.kind = String
  /\ Mutate("set", r.details.key, String)
DeleteSelectedKey ==
  /\ r.details # NoDetails /\ r.selected # NoKey
  /\ Mutate("delete", r.selected, NoKind)
MutateCollection ==
  /\ r.details # NoDetails /\ r.details.kind \in Kinds \ {String} /\ r.selected # NoKey
  /\ Mutate("edit", r.selected, r.details.kind)
RunCommand(k, kind) == Mutate("command", k, kind)

ExportKeyspace ==
  /\ OnPage /\ ~r.isMutating /\ export = NoExport
  /\ r' = [r EXCEPT !.isMutating = TRUE]
  /\ export' = [pattern |-> r.pattern, cursor |-> 0, found |-> <<>>, seen |-> {},
                reading |-> NoDetails, details |-> <<>>, stayed |-> Present]
  /\ UNCHANGED <<mutation, valueDraft, exported>>

(***************************************************************************)
(* Redis and the native commands                                           *)
(***************************************************************************)
Write(k, kind) ==
  /\ server' = [server EXCEPT ![k] = kind]
  /\ export' = IF export = NoExport \/ kind # NoKind THEN export
               ELSE [export EXCEPT !.stayed = @ \ {k}]
  /\ UNCHANGED exported

TheyWrite(k, kind) ==
  /\ theirs < MaxTheirs /\ theirs' = theirs + 1
  /\ kind # server[k]
  /\ Write(k, kind)
  /\ UNCHANGED <<providerVars, r, mutation, valueDraft, dragged>>

\* What a key reads as when TYPE said kind: a key of another type by now is an error, one
\* that is gone reads as empty.
Readable(k, kind) == kind = NoKind \/ server[k] \in {kind, NoKind}

\* An edit of a collection fails on a key of another type, and otherwise makes it. The
\* command runner may do anything.
Takes(m) == m.op = "edit" => server[m.key] \in {m.kind, NoKind}

\* Removing its last member removes a collection.
Leaves(m) == IF m.op = "edit" THEN {m.kind, NoKind} ELSE {m.kind}

KeysArrive(l, ok) ==
  /\ r' = KeysReply(r, l, ok)
  /\ UNCHANGED <<providerVars, mutation, valueDraft, dragged, exportVars>>

\* TYPE and PTTL, with the value to be read.
KeyTyped(l) ==
  /\ l.kind = NoKey
  /\ r' = [r EXCEPT !.keyLoads = (@ \ {l}) \cup {[l EXCEPT !.kind = server[l.key]]}]
  /\ UNCHANGED <<providerVars, mutation, valueDraft, dragged, exportVars>>

KeepDraft(s) == valueDraft
DraftFor(s) ==
  IF s.details # NoDetails /\ s.details.kind = String THEN s.details.key ELSE NoKey

\* The page takes over the value behind a selection of its own, whatever is on show by then;
\* that of a mutation or of the sidebar changes the store only.
KeyArrives(l, ok) ==
  /\ ok => l.kind # NoKey /\ Readable(l.key, l.kind)
  /\ LET s == KeyReply(r, l, ok)
     IN  /\ IF l.by \in {Page, Sidebar}
            THEN r' = s /\ UNCHANGED mutation
            ELSE LET m == CHOOSE m \in mutation : m.n = l.by
                 IN  /\ r' = [(IF m.op = "set" THEN WithKey(s, m.key, m.session) ELSE s)
                                EXCEPT !.isMutating = FALSE]
                     /\ mutation' = mutation \ {m}
         /\ IF l.by = Page
            THEN valueDraft' = DraftFor(s) /\ dragged' = FALSE
            ELSE /\ dragged' = (dragged \/ s.details # r.details)
                 /\ UNCHANGED valueDraft
  /\ UNCHANGED <<providerVars, exportVars>>

\* A call of the native layer may fail, with its command carried out or not.
MutationAnswered(m, done, ok) ==
  /\ m.stage = "call"
  /\ done => Takes(m)
  /\ ok => done
  /\ IF done THEN \E kind \in Leaves(m) : Write(m.key, kind) ELSE UNCHANGED <<server, exportVars>>
  /\ IF ok /\ m.op \in {"set", "edit"} /\ r.session # NoSession
     THEN /\ r' = SelectKey(r, m.key, m.n)
          /\ mutation' = (mutation \ {m}) \cup {[m EXCEPT !.stage = "select"]}
     ELSE /\ r' = [(CASE ok /\ m.op = "set"    -> WithKey(r, m.key, m.session)
                      [] ok /\ m.op = "delete" -> WithoutKey(r, m.key, m.session)
                      [] OTHER -> r)
                    EXCEPT !.isMutating = FALSE]
          /\ mutation' = mutation \ {m}
  /\ UNCHANGED <<providerVars, valueDraft, dragged, theirs>>

Exhausted(e) == e.found = <<>> /\ e.cursor = NKeys
Stops(e) == Len(e.details) >= ExportLimit \/ Exhausted(e)

\* SCAN may return a key a second time.
ExportScans(again) ==
  /\ export # NoExport /\ export.found = <<>> /\ export.reading = NoDetails /\ ~Stops(export)
  /\ again \subseteq export.seen
  /\ LET k == export.cursor + 1
         fresh == IF k \in Present \cap export.pattern THEN <<k>> ELSE <<>>
         repeated == IF again = {} THEN <<>> ELSE <<CHOOSE key \in again : TRUE>>
     IN  export' = [export EXCEPT !.found = fresh \o repeated, !.cursor = k]
  /\ UNCHANGED <<providerVars, r, mutation, valueDraft, dragged, exported>>

AlwaysNew(k) == TRUE
IsNew(k) == k \notin export.seen

ExportTypes ==
  /\ export # NoExport /\ export.found # <<>> /\ export.reading = NoDetails
  /\ Len(export.details) < ExportLimit
  /\ LET k == Head(export.found)
     IN  export' = IF IsNew(k)
                   THEN [export EXCEPT !.seen = @ \cup {k},
                                       !.reading = [key |-> k, kind |-> server[k]]]
                   ELSE [export EXCEPT !.found = Tail(@)]
  /\ UNCHANGED <<providerVars, r, mutation, valueDraft, dragged, exported>>

ExportReads ==
  /\ export # NoExport /\ export.reading # NoDetails
  /\ Readable(export.reading.key, export.reading.kind)
  /\ export' = [export EXCEPT !.details = Append(@, export.reading), !.found = Tail(@),
                              !.reading = NoDetails]
  /\ UNCHANGED <<providerVars, r, mutation, valueDraft, dragged, exported>>

ExportEnds(ok) ==
  /\ export # NoExport
  /\ ok => export.reading = NoDetails /\ Stops(export)
  /\ exported' = IF ok THEN export ELSE exported
  /\ export' = NoExport
  /\ r' = [r EXCEPT !.isMutating = FALSE]
  /\ UNCHANGED <<providerVars, mutation, valueDraft, dragged>>

(***************************************************************************)
(* Specification                                                           *)
(***************************************************************************)
Init ==
  \* A restored session has left its draft and shows the page.
  /\ draft \in Conns \cup {NoDraft} /\ open = (draft # NoDraft)
  /\ isLoading = FALSE /\ attempts = {}
  /\ r = EmptyStore
  /\ mutation = {} /\ valueDraft = NoKey
  /\ server \in [Keys -> Kinds]
  /\ export = NoExport /\ exported = NoExport
  /\ acts = 0 /\ theirs = 0 /\ sessions = 0
  /\ astray = FALSE /\ dragged = FALSE

Replies ==
  \/ \E a \in attempts, ok \in BOOLEAN : PasswordLoaded(a, ok) \/ Connects(a, ok)
  \/ \E l \in r.scans, ok \in BOOLEAN : KeysArrive(l, ok)
  \/ \E l \in r.keyLoads : KeyTyped(l) \/ \E ok \in BOOLEAN : KeyArrives(l, ok)
  \/ \E again \in SUBSET Keys : ExportScans(again)
  \/ ExportTypes \/ ExportReads
  \/ \E ok \in BOOLEAN : ExportEnds(ok)

MutationReplies == \E m \in mutation, done, ok \in BOOLEAN : MutationAnswered(m, done, ok)

UserActs ==
  \/ \E c \in Conns : ChooseTarget(c) \/ ConnectWorkspaceDraft(c) \/ OpenRecentItem(c)
  \/ BackHome
  \/ \E reset \in BOOLEAN : Scan(reset)
  \/ \E p \in Patterns : SetPattern(p)
  \/ \E k \in Keys, by \in {Page, Sidebar} : ChooseKey(k, by)
  \/ SaveString \/ DeleteSelectedKey \/ MutateCollection
  \/ \E k \in Keys, kind \in Kinds \cup {NoKind} : RunCommand(k, kind)
  \/ ExportKeyspace

Others == \E k \in Keys, kind \in Kinds \cup {NoKind} : TheyWrite(k, kind)

Next ==
  \/ UserActs /\ acts < MaxActs /\ acts' = acts + 1 /\ UNCHANGED <<server, theirs, dragged>>
  \/ Replies /\ UNCHANGED <<server, acts, theirs>>
  \/ MutationReplies /\ UNCHANGED acts
  \/ Others /\ UNCHANGED acts

Spec == Init /\ [][Next]_vars

\* Users and other clients may stop at any time; every command is answered or runs into
\* its connect, read or write timeout.
FairSpec ==
  /\ Spec
  /\ WF_vars(Replies /\ UNCHANGED <<server, acts, theirs>>)
  /\ WF_vars(MutationReplies /\ UNCHANGED acts)

(***************************************************************************)
(* Properties                                                              *)
(***************************************************************************)
\* The types, and at most one scan and one key that is awaited: the request ids tell every
\* older answer from it.
TypeOK ==
  /\ draft \in Conns \cup {NoDraft} /\ {open, isLoading, astray, dragged} \subseteq BOOLEAN
  /\ \A a \in attempts : a.conn \in Conns /\ a.stage \in {"password", "connecting"}
  /\ acts \in 0 .. MaxActs /\ theirs \in 0 .. MaxTheirs /\ sessions \in 0 .. MaxSessions
  /\ server \in KindsNow /\ valueDraft \in Keys \cup {NoKey}
  /\ r.session \in Session \cup {NoSession} /\ r.pattern \in SUBSET Keys
  /\ r.cursor \in 0 .. NKeys - 1 /\ r.selected \in Keys \cup {NoKey}
  /\ r.details \in Details \cup {NoDetails}
  /\ {r.keys, r.saved, r.removed} \subseteq SUBSET Keys
  /\ \A l \in r.keyLoads : l.by \in Callers
  /\ \A loads \in {r.scans, r.keyLoads} : Cardinality({l \in loads : l.latest}) <= 1

\* A list of keys that is not loading stands for the parts of the keyspace in front of the
\* cursor, each scanned for the session and the pattern on show, none of an earlier one and
\* none left out. It holds what they held, without the keys deleted since, and nothing but
\* the keys saved since, which may lie outside the pattern: setString does not look at it.
\* (Not after a scan from the start failed: the list before it stays. A mutation of an
\* earlier session still adds its key or removes one.)
KeysAreOfTheView ==
  ~r.isLoadingKeys /\ ~r.scanFailed /\ r.session # NoSession
    => LET found == UNION {p.found : p \in r.scanned}
       IN  /\ \A p \in r.scanned : p.view = ViewOf(r)
           /\ {p.cursor : p \in r.scanned} = 0 .. (IF r.cursor = 0 THEN NKeys ELSE r.cursor) - 1
           /\ ~astray => /\ r.keys \subseteq found \cup r.saved
                         /\ found \subseteq r.keys \cup r.removed

\* "Delete key" and the collection editor act on the selected key: once it is read, the
\* details on show, which the user decides by, are that key's.
DetailsAreOfTheSelection ==
  ~r.isLoadingKey /\ ~r.keyFailed /\ r.details # NoDetails => r.details.key = r.selected

\* "Save string" writes the page's text to the key on show. Where that key was put on show
\* by a selection made on the page the text is its own, however its load crossed others,
\* mutations and "Back to Home". (A selection in the sidebar, or that of a mutation which
\* reads its key again, leaves another key's text in the page: see README.md.)
DraftIsOfTheKeyShown ==
  ~dragged /\ r.details # NoDetails /\ r.details.kind = String => valueDraft = r.details.key

\* A session has its page: whoever returns home leaves none behind, and an attempt that ends
\* after that brings its page along.
SessionHasItsPage == r.session # NoSession => open

\* While others write, an export returns no key twice, no more than its limit and, below
\* it, every key of the pattern that was there all along.
ExportIsFaithful ==
  exported # NoExport =>
    LET keys == [n \in DOMAIN exported.details |-> exported.details[n].key]
    IN  /\ \A i, j \in DOMAIN keys : keys[i] = keys[j] => i = j
        /\ Len(keys) <= ExportLimit
        /\ Len(keys) < ExportLimit =>
             \A k \in exported.stayed \cap exported.pattern : \E n \in DOMAIN keys : keys[n] = k

\* The list stops loading, mutations end and attempts to connect end once the user waits.
EventuallyIdle == []<>(~r.isLoadingKeys /\ ~r.isMutating /\ ~isLoading)
=============================================================================
