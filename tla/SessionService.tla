--------------------------- MODULE SessionService ---------------------------
(***************************************************************************)
(* What Quarry remembers between two launches: core/services/              *)
(* session.service.ts with the autosave and the start of app.component.ts, *)
(* the validation of what localStorage holds and the restoreSession() of   *)
(* the three providers.                                                    *)
(*                                                                         *)
(* The session is saved half a second after the last change of the         *)
(* workspace and read again at the next launch.  Quarry may be closed,     *)
(* killed or reloaded at any moment: everything but localStorage and the   *)
(* database files is gone then, the save under way included.  The menu     *)
(* works while a session is being restored; the rest of the window shows a *)
(* spinner.                                                                *)
(*                                                                         *)
(* Workspaces are only looked at as far as a session holds them.  An       *)
(* action includes the effects Angular runs behind it: the pipeline        *)
(* builder opening the table it is shown for, and the autosave.            *)
(***************************************************************************)
EXTENDS Integers, Sequences

CONSTANTS
  Files,            (* the SQLite files there are at first                        *)
  Connection,       (* the path of the pipelines of the MySQL profile             *)
  Target,           (* the Redis target                                           *)
  Tables,           (* tables of every database                                   *)
  Keys,             (* keys of the Redis target                                   *)
  Pipelines,        (* the lists of steps the builder can be left with            *)
  StoredAtFirst,    (* what localStorage may hold when Quarry is first launched   *)
  MaxActs,          (* bound: what the user does, over all launches               *)
  MaxLaunches,      (* bound: launches                                            *)
  NoPath, NoTable, NoSource, NoDraft, NoSession, NoRestore, NoName, NoLimit,
  Garbage           (* text in localStorage that is no session                    *)

VARIABLES
  stored,           (* localStorage["quarry_session"]                             *)
  saveTimer,        (* the session the 500 ms timer is going to store             *)
  restoring,        (* [at, session]: how far restore() has come                  *)
  active,           (* host.activeProviderId                                      *)
  sqlite,           (* the SQLite workspace: [path, table, tab]                   *)
  mysql,            (* [session, table, tab, draft, pending]                      *)
  redis,            (* [session, key, draft]                                      *)
  pipe,             (* the PipelineStore: [source, steps]                         *)
  pendingRestore,   (* its pendingRestore                                         *)
  there,            (* the files that are still where they were                   *)
  left, since, acted,  (* history: the last session saved after the user did      *)
                       (* something, the launches since, has the user acted in    *)
                       (* this launch                                             *)
  acts, launches

workVars == <<active, sqlite, mysql, redis, pipe, pendingRestore>>
leftVars == <<left, since, acted>>
countVars == <<acts, launches>>
vars == <<stored, saveTimer, restoring, workVars, there, leftVars, countVars>>

Source     == [path : Files \cup {Connection}, table : Tables]
SqliteTabs == {"browse", "query"}
MysqlTabs  == {"browse", "pipeline"}
Restore    == [source : Source \cup {NoSource}, steps : Pipelines]
MysqlDraft == [table : Tables \cup {NoTable}, tab : MysqlTabs]
RedisDraft == [table : Keys \cup {NoTable}, tab : {"browse"}]

(***************************************************************************)
(* Sessions.  The source of a pipeline names its own database: the file of *)
(* the workspace may have been replaced since.  Before there were          *)
(* providers, a session named none.                                        *)
(***************************************************************************)
FileSession(providerIds) ==
  [providerId : providerIds, path : Files, table : Tables \cup {NoTable},
   tab : SqliteTabs, source : Source \cup {NoSource}, steps : Pipelines]

MysqlSession ==
  [providerId : {"mysql"}, path : {Connection}, table : Tables \cup {NoTable},
   tab : MysqlTabs, source : Source \cup {NoSource}, steps : Pipelines]

RedisSession ==
  [providerId : {"redis"}, path : {Target}, table : Keys \cup {NoTable},
   tab : {"browse"}, source : {NoSource}, steps : {<<>>}]

Session == FileSession({"sqlite"}) \cup MysqlSession \cup RedisSession
LegacySession == FileSession({"none"})

ASSUME SessionAssumption ==
  /\ <<>> \in Pipelines
  /\ Connection \notin Files
  /\ NoPath \notin Files /\ NoTable \notin Tables /\ NoTable \notin Keys
  /\ NoSource \notin Source /\ NoRestore \notin Restore
  /\ NoDraft \notin MysqlDraft /\ NoDraft \notin RedisDraft
  /\ \A v \in Session \cup LegacySession : v \notin {NoSession, Garbage}
  /\ StoredAtFirst \subseteq Session \cup LegacySession \cup {NoSession, Garbage}

SessionOf(providerId, path, table, tab, source, steps) ==
  [providerId |-> providerId, path |-> path, table |-> table, tab |-> tab,
   source |-> source, steps |-> steps]

Pipeline(mine) == IF mine THEN pipe ELSE [source |-> NoSource, steps |-> <<>>]

WithoutAFile == TRUE
HasAFile == sqlite.path # NoPath

BuildSqliteSession ==
  LET p == Pipeline(pipe.source # NoSource /\ pipe.source.path # Connection)
  IN  IF ~HasAFile THEN NoSession
      ELSE SessionOf("sqlite", sqlite.path, sqlite.table, sqlite.tab, p.source, p.steps)

BuildMysqlSession ==
  LET p == Pipeline(pipe.source # NoSource /\ pipe.source.path = Connection)
  IN  IF ~mysql.session THEN NoSession
      ELSE SessionOf("mysql", Connection, mysql.table, mysql.tab, p.source, p.steps)

BuildRedisSession ==
  IF ~redis.session THEN NoSession
  ELSE SessionOf("redis", Target, redis.key, "browse", NoSource, <<>>)

BuildSession ==
  CASE active = "mysql" -> BuildMysqlSession
    [] active = "redis" -> BuildRedisSession
    [] OTHER            -> BuildSqliteSession

(***************************************************************************)
(* What the validation can find wrong with a session Quarry has written    *)
(* itself: the other checks are about fields the types already give.  A    *)
(* JOIN needs its inline table even when it joins a subpipeline, whose     *)
(* table is another field.                                                 *)
(***************************************************************************)
IsPlainStep(s) ==
  /\ s.type \in {"WHERE", "SELECT", "ORDER_BY", "GROUP_BY", "JOIN", "RAW_SQL"}
  /\ s.type = "JOIN" => s.table # NoName
  /\ s.type = "ORDER_BY" => s.limit \in Nat \cup {NoLimit}

IsPipelineStep(s) ==
  /\ IsPlainStep(s)
  /\ s.type = "JOIN" => \A k \in DOMAIN s.subSteps : IsPlainStep(s.subSteps[k])

IsPersistedSession(v) ==
  /\ v \notin {NoSession, Garbage}
  /\ v.providerId \in {"sqlite", "mysql", "redis"}
  /\ \A k \in DOMAIN v.steps : IsPipelineStep(v.steps[k])

IsLegacyPersistedSession(v) ==
  /\ v \notin {NoSession, Garbage}
  /\ v.providerId = "none"
  /\ \A k \in DOMAIN v.steps : IsPipelineStep(v.steps[k])

WithProvider(v) == [v EXCEPT !.providerId = "sqlite"]

Normalized(v) ==
  CASE IsPersistedSession(v)       -> v
    [] IsLegacyPersistedSession(v) -> WithProvider(v)
    [] OTHER                       -> NoSession

(***************************************************************************)
(* The pipeline builder is on the page in one tab of the SQL workspaces,   *)
(* once the session is restored.  It opens its table as soon as it is      *)
(* shown or another one is selected.                                       *)
(***************************************************************************)
Ready == restoring.at = "done"

BuilderTarget ==
  IF Ready /\ active = "sqlite" /\ sqlite.tab = "query" /\ sqlite.table # NoTable
  THEN [path |-> sqlite.path, table |-> sqlite.table]
  ELSE IF Ready /\ active = "mysql" /\ mysql.tab = "pipeline" /\ mysql.table # NoTable
  THEN [path |-> Connection, table |-> mysql.table]
  ELSE NoSource

Waits(pend, source) == pend # NoRestore /\ source # NoSource /\ pend.source = source

(* applyPendingRestore, with the steps that are there otherwise *)
AfterRestore(pend, source, steps) ==
  IF Waits(pend, source) /\ pend.steps # <<>> THEN pend.steps ELSE steps
RestOf(pend, source) == IF Waits(pend, source) THEN NoRestore ELSE pend

(* openForTable of the table the builder is shown for, if there is one *)
OpenForTable(p, pend) ==
  LET source == IF BuilderTarget' = NoSource THEN p.source ELSE BuilderTarget'
      steps  == IF source = p.source THEN p.steps ELSE <<>>
      opens  == BuilderTarget' # NoSource
  IN  /\ pipe' = [source |-> source,
                  steps  |-> IF opens THEN AfterRestore(pend, source, steps) ELSE steps]
      /\ pendingRestore' = IF opens THEN RestOf(pend, source) ELSE pend

(***************************************************************************)
(* The autosave: a change of what buildSession() reads starts the timer    *)
(* again.  A workspace without a session leaves a save under way alone.    *)
(***************************************************************************)
KeepFirstSave(timer, session) == IF timer = NoSession THEN session ELSE timer
DebouncedSave(timer, session) == session

Autosave ==
  saveTimer' = IF BuildSession' \in {NoSession, BuildSession} THEN saveTimer
               ELSE DebouncedSave(saveTimer, BuildSession')

(* the effects behind a change that leaves pipeline p and restore pend *)
Effects(p, pend) == OpenForTable(p, pend) /\ Autosave

(***************************************************************************)
(* Launch and restore.                                                     *)
(***************************************************************************)
EmptySqlite == [path |-> NoPath, table |-> NoTable, tab |-> "browse"]
EmptyMysql  == [session |-> FALSE, table |-> NoTable, tab |-> "browse",
                draft |-> NoDraft, pending |-> NoRestore]
EmptyRedis  == [session |-> FALSE, key |-> NoTable, draft |-> NoDraft]
EmptyPipe   == [source |-> NoSource, steps |-> <<>>]
Reading     == [at |-> "reading", session |-> NoSession]
Done        == [at |-> "done", session |-> NoSession]

Init ==
  /\ stored \in StoredAtFirst
  /\ saveTimer = NoSession
  /\ restoring = Reading
  /\ active = "none" /\ sqlite = EmptySqlite /\ mysql = EmptyMysql /\ redis = EmptyRedis
  /\ pipe = EmptyPipe /\ pendingRestore = NoRestore
  /\ there = Files
  /\ left = NoSession /\ since = 0 /\ acted = FALSE
  /\ acts = 0 /\ launches = 1

Unrestored == UNCHANGED <<stored, there, leftVars, countVars>>

RestoreOf(s) == [source |-> s.source, steps |-> s.steps]

(* The stored text is read; a session that is not accepted stays stored. *)
NothingToRestore ==
  /\ restoring.at = "reading" /\ Normalized(stored) = NoSession
  /\ restoring' = Done
  /\ UNCHANGED <<active, sqlite, mysql, redis>>
  /\ Effects(pipe, pendingRestore)
  /\ Unrestored

BeginSqlite ==
  /\ restoring.at = "reading"
  /\ Normalized(stored) # NoSession /\ Normalized(stored).providerId = "sqlite"
  /\ restoring' = [at |-> "schemas", session |-> Normalized(stored)]
  /\ UNCHANGED <<saveTimer, workVars>> /\ Unrestored

(* Both servers wait for the user to connect: only a draft is made. *)
RestoreMysql ==
  /\ restoring.at = "reading"
  /\ Normalized(stored) # NoSession /\ Normalized(stored).providerId = "mysql"
  /\ mysql' = [mysql EXCEPT !.draft = [table |-> stored.table, tab |-> stored.tab],
                            !.pending = RestoreOf(stored)]
  /\ restoring' = Done
  /\ UNCHANGED <<active, sqlite, redis>>
  /\ Effects(pipe, pendingRestore)
  /\ Unrestored

BeginRedis ==
  /\ restoring.at = "reading"
  /\ Normalized(stored) # NoSession /\ Normalized(stored).providerId = "redis"
  /\ redis' = [redis EXCEPT !.draft = [table |-> stored.table, tab |-> stored.tab]]
  /\ active' = "redis"
  /\ restoring' = [at |-> "password", session |-> stored]
  /\ UNCHANGED <<sqlite, mysql>>
  /\ Effects(pipe, pendingRestore)
  /\ Unrestored

PasswordLoaded ==
  /\ restoring.at = "password"
  /\ restoring' = Done
  /\ UNCHANGED <<active, sqlite, mysql, redis>>
  /\ Effects(pipe, pendingRestore)
  /\ Unrestored

(* restoreWhenOpened: the pipeline of the session waits for its table *)
ForgetPipeline(s) == pendingRestore
RememberPipeline(s) == IF s.source = NoSource THEN pendingRestore ELSE RestoreOf(s)

RestoreWhenOpened(pend) ==
  Effects([pipe EXCEPT !.steps = AfterRestore(pend, pipe.source, pipe.steps)],
          RestOf(pend, pipe.source))

(* restoreWorkspace, setActiveTab and selectTable up to its await.  The      *)
(* pipeline is still missing: only when the rows are there is it remembered. *)
SchemasLoaded ==
  LET s     == restoring.session
      waits == s.table # NoTable
  IN  /\ restoring.at = "schemas" /\ s.path \in there
      /\ sqlite' = [path |-> s.path, tab |-> s.tab,
                    table |-> IF waits THEN s.table ELSE sqlite.table]
      /\ active' = "sqlite"
      /\ restoring' = IF waits THEN [restoring EXCEPT !.at = "rows"] ELSE Done
      /\ UNCHANGED <<mysql, redis>>
      /\ IF waits THEN Effects(pipe, pendingRestore)
                  ELSE RestoreWhenOpened(RememberPipeline(s))
      /\ Unrestored

RowsLoaded ==
  /\ restoring.at = "rows"
  /\ restoring' = Done
  /\ UNCHANGED <<active, sqlite, mysql, redis>>
  /\ RestoreWhenOpened(RememberPipeline(restoring.session))
  /\ Unrestored

(* A file that is gone or refused: clear() forgets what is stored, the       *)
(* session of a workspace opened from the menu in the meantime included.     *)
SchemasFail ==
  /\ restoring.at = "schemas"
  /\ stored' = NoSession /\ saveTimer' = NoSession
  /\ restoring' = Done
  /\ left' = NoSession
  /\ UNCHANGED <<active, sqlite, mysql, redis>>
  /\ OpenForTable(pipe, pendingRestore)
  /\ UNCHANGED <<there, since, acted, countVars>>

SaveTimerFires ==
  /\ saveTimer # NoSession
  /\ stored' = saveTimer /\ saveTimer' = NoSession
  /\ IF acted THEN left' = saveTimer /\ since' = 0 ELSE UNCHANGED <<left, since>>
  /\ UNCHANGED <<restoring, workVars, there, acted, countVars>>

(***************************************************************************)
(* The user.                                                               *)
(***************************************************************************)
UserActs == acts < MaxActs /\ acts' = acts + 1 /\ acted' = TRUE
Elsewhere == UNCHANGED <<stored, restoring, there, left, since, launches>>

(* loadFilePath behind its await: from the menu, at any time, or from home.  *)
(* The selected table and the tab stay those of the file before.             *)
OpenFile(f) ==
  /\ UserActs /\ restoring.at # "reading" /\ f \in there
  /\ sqlite' = [sqlite EXCEPT !.path = f]
  /\ active' = "sqlite"
  /\ UNCHANGED <<mysql, redis>>
  /\ Elsewhere
  /\ Effects(pipe, pendingRestore)

SelectTable(t) ==
  /\ UserActs /\ Ready /\ active = "sqlite"
  /\ sqlite' = [sqlite EXCEPT !.table = t]
  /\ UNCHANGED <<active, mysql, redis>>
  /\ Elsewhere
  /\ Effects(pipe, pendingRestore)

SetActiveTab(tab) ==
  /\ UserActs /\ Ready /\ active = "sqlite" /\ sqlite.table # NoTable /\ tab # sqlite.tab
  /\ sqlite' = [sqlite EXCEPT !.tab = tab]
  /\ UNCHANGED <<active, mysql, redis>>
  /\ Elsewhere
  /\ Effects(pipe, pendingRestore)

EditPipeline(steps) ==
  /\ UserActs /\ BuilderTarget # NoSource /\ steps # pipe.steps
  /\ UNCHANGED <<active, sqlite, mysql, redis>>
  /\ Elsewhere
  /\ Effects([pipe EXCEPT !.steps = steps], pendingRestore)

(* The MySQL workspace of a chosen profile or of the restored draft opens.   *)
(* The attempt itself, and connecting again from the page, are the subject   *)
(* of MysqlWorkspace.                                                        *)
SelectProfile ==
  /\ UserActs /\ Ready /\ active = "none"
  /\ mysql' = [mysql EXCEPT !.draft = [table |-> NoTable, tab |-> "browse"]]
  /\ UNCHANGED <<active, sqlite, redis>>
  /\ Elsewhere
  /\ Effects(pipe, pendingRestore)

ConnectMysql ==
  LET pend == IF mysql.pending = NoRestore \/ mysql.pending.source = NoSource
              THEN pendingRestore ELSE mysql.pending
  IN  /\ UserActs /\ Ready /\ active = "none" /\ mysql.draft # NoDraft
      /\ mysql' = [session |-> TRUE, table |-> mysql.draft.table, tab |-> mysql.draft.tab,
                   draft |-> mysql.draft, pending |-> NoRestore]
      /\ active' = "mysql"
      /\ UNCHANGED <<sqlite, redis>>
      /\ Elsewhere
      /\ RestoreWhenOpened(pend)

MysqlChange(field, value) ==
  /\ UserActs /\ Ready /\ active = "mysql" /\ mysql[field] # value
  /\ mysql' = [mysql EXCEPT ![field] = value]
  /\ UNCHANGED <<active, sqlite, redis>>
  /\ Elsewhere
  /\ Effects(pipe, pendingRestore)

(* The page of a Redis target opens without a session: nothing is saved. *)
SelectTarget ==
  /\ UserActs /\ Ready /\ active = "none"
  /\ redis' = [redis EXCEPT !.draft = [table |-> NoTable, tab |-> "browse"]]
  /\ active' = "redis"
  /\ UNCHANGED <<sqlite, mysql>>
  /\ Elsewhere
  /\ Effects(pipe, pendingRestore)

(* setSession selects no key, whatever the draft says. *)
ConnectRedis ==
  /\ UserActs /\ Ready /\ active = "redis" /\ redis.draft # NoDraft
  /\ redis' = [redis EXCEPT !.session = TRUE, !.key = NoTable]
  /\ UNCHANGED <<active, sqlite, mysql>>
  /\ Elsewhere
  /\ Effects(pipe, pendingRestore)

SelectKey(k) ==
  /\ UserActs /\ Ready /\ active = "redis" /\ redis.session
  /\ redis' = [redis EXCEPT !.key = k]
  /\ UNCHANGED <<active, sqlite, mysql>>
  /\ Elsewhere
  /\ Effects(pipe, pendingRestore)

(* showHome: the servers and the pipeline are left, the SQLite file is not. *)
ShowHome ==
  /\ UserActs /\ Ready /\ active # "none"
  /\ mysql' = EmptyMysql /\ redis' = EmptyRedis /\ active' = "none"
  /\ UNCHANGED sqlite
  /\ Elsewhere
  /\ Effects(EmptyPipe, pendingRestore)

(***************************************************************************)
(* The process ends, in whatever state, and Quarry is launched again; or   *)
(* the user has the window reset and reloaded.                             *)
(***************************************************************************)
NewProcess ==
  /\ launches < MaxLaunches /\ launches' = launches + 1
  /\ saveTimer' = NoSession
  /\ restoring' = Reading
  /\ active' = "none" /\ sqlite' = EmptySqlite /\ mysql' = EmptyMysql /\ redis' = EmptyRedis
  /\ pipe' = EmptyPipe /\ pendingRestore' = NoRestore
  /\ acted' = FALSE
  /\ UNCHANGED <<there, acts>>

Relaunch == NewProcess /\ since' = since + 1 /\ UNCHANGED <<stored, left>>

HardReset ==
  /\ restoring.at # "reading"
  /\ NewProcess /\ stored' = NoSession /\ left' = NoSession /\ since' = 0

(* A file is moved or deleted by another program. *)
FileGoes(f) ==
  /\ there' = there \ {f}
  /\ UNCHANGED <<stored, saveTimer, restoring, workVars, leftVars, countVars>>

Restores == \/ NothingToRestore \/ BeginSqlite \/ RestoreMysql \/ BeginRedis
            \/ PasswordLoaded \/ SchemasLoaded \/ SchemasFail \/ RowsLoaded

UserDoes ==
  \/ \E f \in Files : OpenFile(f)
  \/ \E t \in Tables : SelectTable(t) \/ MysqlChange("table", t)
  \/ \E tab \in {"browse", "query"} : SetActiveTab(tab)
  \/ \E tab \in {"browse", "pipeline"} : MysqlChange("tab", tab)
  \/ \E steps \in Pipelines : EditPipeline(steps)
  \/ \E k \in Keys : SelectKey(k)
  \/ SelectProfile \/ ConnectMysql \/ SelectTarget \/ ConnectRedis \/ ShowHome

Next ==
  \/ Restores \/ UserDoes \/ SaveTimerFires
  \/ Relaunch \/ HardReset
  \/ \E f \in there : FileGoes(f)

Spec == Init /\ [][Next]_vars

(***************************************************************************)
(* Properties.                                                             *)
(***************************************************************************)
(* The types.  What is restored always has a provider: a session from before *)
(* there were providers is completed first (normalizePersistedSession).      *)
TypeOK ==
  /\ stored \in Session \cup LegacySession \cup {NoSession, Garbage}
  /\ saveTimer \in Session \cup {NoSession} /\ left \in Session \cup {NoSession}
  /\ restoring \in {Reading, Done}
                   \cup [at : {"schemas", "rows"}, session : FileSession({"sqlite"})]
                   \cup [at : {"password"}, session : RedisSession]
  /\ active \in {"none", "sqlite", "mysql", "redis"}
  /\ sqlite \in [path : Files \cup {NoPath}, table : Tables \cup {NoTable}, tab : SqliteTabs]
  /\ mysql \in [session : BOOLEAN, table : Tables \cup {NoTable}, tab : MysqlTabs,
                draft : MysqlDraft \cup {NoDraft}, pending : Restore \cup {NoRestore}]
  /\ redis \in [session : BOOLEAN, key : Keys \cup {NoTable},
                draft : RedisDraft \cup {NoDraft}]
  /\ pipe \in Restore
  /\ pendingRestore \in Restore \cup {NoRestore}
  /\ there \subseteq Files
  /\ since \in Nat /\ acted \in BOOLEAN /\ acts \in Nat /\ launches \in Nat

(* Half a second after the last change the workspace on the page is what is  *)
(* stored; before, it is what the timer is going to store.  The exception    *)
(* is clear(): a restore that fails forgets the session of a workspace that  *)
(* was opened from the menu while it ran, until that changes again.          *)
StoredIsTheWorkspace ==
  BuildSession # NoSession =>
    \/ saveTimer = BuildSession
    \/ saveTimer = NoSession /\ stored \in {BuildSession, NoSession}

PipelineIsBack(s) ==
  s.source # NoSource => \/ pendingRestore = RestoreOf(s)
                         \/ pipe = RestoreOf(s)

RestoredAs(s) ==
  CASE s.providerId = "sqlite" ->
         /\ active = "sqlite"
         /\ sqlite = [path |-> s.path, table |-> s.table, tab |-> s.tab]
         /\ since = 1 => PipelineIsBack(s)
    [] s.providerId = "mysql" ->
         /\ mysql.draft = [table |-> s.table, tab |-> s.tab]
         /\ mysql.pending = RestoreOf(s)
    [] OTHER ->
         active = "redis" /\ redis.draft = [table |-> s.table, tab |-> s.tab]

(* "The last workspace, table and pipeline come back on launch", whatever    *)
(* the process was doing when it ended.  The code keeps this for the         *)
(* pipeline of an SQLite file at the first launch only: restoring saves the  *)
(* session again, without the pipeline until the builder has opened it.  And *)
(* not for a session the validation refuses (IsPersistedSession).            *)
ReopensWhereItWasLeft ==
  Ready /\ ~acted /\ IsPersistedSession(left) => RestoredAs(left)

(* The same for every session Quarry has stored.  Violated by a pipeline     *)
(* that joins a subpipeline: it runs, is stored, and the next launch refuses *)
(* the whole session for the inline table it has no need of.                 *)
EverySessionComesBack ==
  Ready /\ ~acted /\ left # NoSession => RestoredAs(left)
=============================================================================
