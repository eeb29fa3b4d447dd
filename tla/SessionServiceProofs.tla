------------------------ MODULE SessionServiceProofs ------------------------
(***************************************************************************)
(* Proofs about SessionService, for any files, tables, pipelines and       *)
(* bounds: what is stored follows the workspace, the types, and what is    *)
(* stored comes back.                                                      *)
(***************************************************************************)
EXTENDS SessionService, TLAPS

(* What the effects behind an action do to the stored session, whatever the *)
(* action was: the timer takes up every change, so the invariant survives.  *)
LEMMA AutosaveFollows ==
  ASSUME StoredIsTheWorkspace, Autosave, stored' = stored
  PROVE  StoredIsTheWorkspace'
BY DEF StoredIsTheWorkspace, Autosave, DebouncedSave

(* A step that leaves the workspace alone leaves its session alone. *)
LEMMA SameSession ==
  ASSUME UNCHANGED workVars
  PROVE  BuildSession' = BuildSession
BY DEF workVars, BuildSession, BuildSqliteSession, BuildMysqlSession, BuildRedisSession,
       HasAFile, Pipeline

(* A process that has just been launched has no workspace. *)
LEMMA NothingOpen ==
  ASSUME active = "none", sqlite = EmptySqlite
  PROVE  BuildSession = NoSession
BY DEF BuildSession, BuildSqliteSession, HasAFile, EmptySqlite

LEMMA NothingOpenThen ==
  ASSUME active' = "none", sqlite' = EmptySqlite
  PROVE  BuildSession' = NoSession
BY DEF BuildSession, BuildSqliteSession, HasAFile, EmptySqlite

(* Whatever the user does is followed by the effects. *)
LEMMA UserIsFollowed ==
  ASSUME UserDoes
  PROVE  Autosave /\ stored' = stored
<1>1. ASSUME NEW f \in Files, OpenFile(f) PROVE Autosave /\ stored' = stored
  BY <1>1 DEF OpenFile, Effects, Elsewhere
<1>2. ASSUME NEW t \in Tables, SelectTable(t) PROVE Autosave /\ stored' = stored
  BY <1>2 DEF SelectTable, Effects, Elsewhere
<1>3. ASSUME NEW field, NEW value, MysqlChange(field, value) PROVE Autosave /\ stored' = stored
  BY <1>3 DEF MysqlChange, Effects, Elsewhere
<1>4. ASSUME NEW tab, SetActiveTab(tab) PROVE Autosave /\ stored' = stored
  BY <1>4 DEF SetActiveTab, Effects, Elsewhere
<1>5. ASSUME NEW steps, EditPipeline(steps) PROVE Autosave /\ stored' = stored
  BY <1>5 DEF EditPipeline, Effects, Elsewhere
<1>6. ASSUME NEW k, SelectKey(k) PROVE Autosave /\ stored' = stored
  BY <1>6 DEF SelectKey, Effects, Elsewhere
<1>7. CASE SelectProfile
  BY <1>7 DEF SelectProfile, Effects, Elsewhere
<1>8. CASE ConnectMysql
  BY <1>8 DEF ConnectMysql, RestoreWhenOpened, Effects, Elsewhere
<1>9. CASE SelectTarget
  BY <1>9 DEF SelectTarget, Effects, Elsewhere
<1>10. CASE ConnectRedis
  BY <1>10 DEF ConnectRedis, Effects, Elsewhere
<1>11. CASE ShowHome
  BY <1>11 DEF ShowHome, Effects, Elsewhere
<1> QED
  BY <1>1, <1>2, <1>3, <1>4, <1>5, <1>6, <1>7, <1>8, <1>9, <1>10, <1>11 DEF UserDoes

(* The step of the invariant: restoring, the user, the timer, a new process. *)
LEMMA StoredStep ==
  ASSUME StoredIsTheWorkspace, [Next]_vars
  PROVE  StoredIsTheWorkspace'
<1>1. CASE Restores
  <2>1. CASE SchemasFail
    BY <2>1 DEF SchemasFail, StoredIsTheWorkspace
  <2>2. CASE BeginSqlite
    <3>1. UNCHANGED <<stored, saveTimer, workVars>>
      BY <2>2 DEF BeginSqlite, Unrestored
    <3> QED
      BY <3>1, SameSession DEF StoredIsTheWorkspace
  <2>3. CASE NothingToRestore
    BY <2>3, AutosaveFollows DEF NothingToRestore, Effects, Unrestored
  <2>4. CASE RestoreMysql
    BY <2>4, AutosaveFollows DEF RestoreMysql, Effects, Unrestored
  <2>5. CASE BeginRedis
    BY <2>5, AutosaveFollows DEF BeginRedis, Effects, Unrestored
  <2>6. CASE PasswordLoaded
    BY <2>6, AutosaveFollows DEF PasswordLoaded, Effects, Unrestored
  <2>7. CASE SchemasLoaded
    BY <2>7, AutosaveFollows DEF SchemasLoaded, RestoreWhenOpened, Effects, Unrestored
  <2>8. CASE RowsLoaded
    BY <2>8, AutosaveFollows DEF RowsLoaded, RestoreWhenOpened, Effects, Unrestored
  <2> QED
    BY <1>1, <2>1, <2>2, <2>3, <2>4, <2>5, <2>6, <2>7, <2>8 DEF Restores
<1>2. CASE UserDoes
  BY <1>2, UserIsFollowed, AutosaveFollows
<1>3. CASE SaveTimerFires
  <2>1. BuildSession' = BuildSession
    BY <1>3, SameSession DEF SaveTimerFires
  <2>2. saveTimer # NoSession /\ stored' = saveTimer /\ saveTimer' = NoSession
    BY <1>3 DEF SaveTimerFires
  <2> QED
    BY <2>1, <2>2 DEF StoredIsTheWorkspace
<1>4. CASE Relaunch \/ HardReset
  <2>1. active' = "none" /\ sqlite' = EmptySqlite
    BY <1>4 DEF Relaunch, HardReset, NewProcess
  <2> QED
    BY <2>1, NothingOpenThen DEF StoredIsTheWorkspace
<1>5. ASSUME NEW f \in there, FileGoes(f) PROVE StoredIsTheWorkspace'
  BY <1>5, SameSession DEF FileGoes, StoredIsTheWorkspace
<1>6. CASE UNCHANGED vars
  <2>1. UNCHANGED <<stored, saveTimer, workVars>>
    BY <1>6 DEF vars
  <2> QED
    BY <2>1, SameSession DEF StoredIsTheWorkspace
<1> QED
  BY <1>1, <1>2, <1>3, <1>4, <1>5, <1>6 DEF Next

(* Whatever is done, in whatever order, and however often the process ends:  *)
(* once the timer has fired, what is stored is the workspace on the page, or *)
(* nothing after a restore that failed (SessionService.debouncedSave,        *)
(* restore, clear).                                                          *)
THEOREM StoredFollows == Spec => []StoredIsTheWorkspace
<1>1. Init => StoredIsTheWorkspace
  BY NothingOpen DEF Init, StoredIsTheWorkspace
<1> QED
  BY <1>1, StoredStep, PTL DEF Spec

(***************************************************************************)
(* What the next launch reopens.                                           *)
(***************************************************************************)
(* v is session s as it was left, or an SQLite session that restoring has    *)
(* saved again, with what had come back of the pipeline by then.             *)
SavedAgain(v, s) ==
  /\ v \in Session /\ IsPersistedSession(v)
  /\ \/ v = s
     \/ /\ v.providerId = "sqlite" /\ s.providerId = "sqlite"
        /\ v.path = s.path /\ v.table = s.table /\ v.tab = s.tab

EmptyWorkspace ==
  /\ active = "none" /\ sqlite = EmptySqlite /\ mysql = EmptyMysql /\ redis = EmptyRedis
  /\ pipe = EmptyPipe /\ pendingRestore = NoRestore

(* Nothing is on the page and nobody has acted before the session is read. *)
PageInv ==
  restoring.at = "reading" => EmptyWorkspace /\ saveTimer = NoSession /\ ~acted

(* What is stored is the session that was left, as far as restoring keeps it. *)
StoredInv ==
  IsPersistedSession(left) =>
    /\ SavedAgain(stored, left)
    /\ since = 0 \/ (since = 1 /\ restoring.at = "reading") => stored = left
    /\ ~acted => since # 0

(* How far an undisturbed restore has come. *)
RestoreInv ==
  ~acted /\ IsPersistedSession(left) =>
    /\ saveTimer # NoSession => SavedAgain(saveTimer, left)
    /\ restoring.at \in {"schemas", "rows"} =>
         /\ SavedAgain(restoring.session, left)
         /\ restoring.session.providerId = "sqlite"
         /\ since = 1 => restoring.session = left
         /\ pipe = EmptyPipe /\ pendingRestore = NoRestore
    /\ restoring.at = "schemas" => EmptyWorkspace
    /\ restoring.at = "rows" =>
         /\ active = "sqlite"
         /\ sqlite = [path |-> left.path, table |-> left.table, tab |-> left.tab]
    /\ restoring.at = "password" =>
         /\ left.providerId = "redis"
         /\ active = "redis" /\ ~redis.session
         /\ redis.draft = [table |-> left.table, tab |-> left.tab]
    /\ Ready => RestoredAs(left)


(***************************************************************************)
(* Types.                                                                  *)
(***************************************************************************)
WorkType ==
  /\ active \in {"none", "sqlite", "mysql", "redis"}
  /\ sqlite \in [path : Files \cup {NoPath}, table : Tables \cup {NoTable}, tab : SqliteTabs]
  /\ mysql \in [session : BOOLEAN, table : Tables \cup {NoTable}, tab : MysqlTabs,
                draft : MysqlDraft \cup {NoDraft}, pending : Restore \cup {NoRestore}]
  /\ redis \in [session : BOOLEAN, key : Keys \cup {NoTable},
                draft : RedisDraft \cup {NoDraft}]
  /\ active = "sqlite" => HasAFile

(* The sessions are records with the fields their database gives them. *)
LEMMA FileSessionType ==
  ASSUME NEW id, NEW path \in Files, NEW table \in Tables \cup {NoTable},
         NEW tab \in SqliteTabs, NEW p \in Restore
  PROVE  SessionOf(id, path, table, tab, p.source, p.steps) \in FileSession({id})
BY DEF SessionOf, FileSession, Restore

LEMMA EmptyPipeType == EmptyPipe \in Restore
BY SessionAssumption DEF EmptyPipe, Restore

(* Whatever is on the page, the session of it is one of Quarry's. *)
LEMMA BuildType ==
  ASSUME WorkType', pipe' \in Restore
  PROVE  BuildSession' \in Session \cup {NoSession}
<1>1. CASE active' = "mysql"
  <2>1. BuildSession' = BuildMysqlSession'
    BY <1>1 DEF BuildSession
  <2> DEFINE p == Pipeline(pipe.source # NoSource /\ pipe.source.path = Connection)
  <2>2. p' \in Restore
    BY EmptyPipeType DEF Pipeline, EmptyPipe
  <2>3. mysql'.table \in Tables \cup {NoTable} /\ mysql'.tab \in MysqlTabs
    BY DEF WorkType
  <2>4. p'.source \in Source \cup {NoSource} /\ p'.steps \in Pipelines
    BY <2>2 DEF Restore
  <2>5. BuildMysqlSession' =
          IF ~mysql'.session THEN NoSession
          ELSE SessionOf("mysql", Connection, mysql'.table, mysql'.tab, p'.source, p'.steps)
    BY DEF BuildMysqlSession, SessionOf
  <2> HIDE DEF p
  <2>6. SessionOf("mysql", Connection, mysql'.table, mysql'.tab, p'.source, p'.steps)
          \in MysqlSession
    BY <2>3, <2>4 DEF SessionOf, MysqlSession
  <2> QED BY <2>1, <2>5, <2>6 DEF Session
<1>2. CASE active' = "redis"
  <2>1. BuildSession' = BuildRedisSession'
    BY <1>2 DEF BuildSession
  <2>2. redis'.key \in Keys \cup {NoTable}
    BY DEF WorkType
  <2>3. SessionOf("redis", Target, redis'.key, "browse", NoSource, <<>>) \in RedisSession
    BY <2>2 DEF SessionOf, RedisSession
  <2> QED BY <2>1, <2>3 DEF BuildRedisSession, Session, SessionOf
<1>3. CASE active' \notin {"mysql", "redis"}
  <2>1. BuildSession' = BuildSqliteSession'
    BY <1>3 DEF BuildSession
  <2> DEFINE p == Pipeline(pipe.source # NoSource /\ pipe.source.path # Connection)
  <2>2. p' \in Restore
    BY EmptyPipeType DEF Pipeline, EmptyPipe
  <2>3. /\ sqlite'.path \in Files \cup {NoPath} /\ sqlite'.table \in Tables \cup {NoTable}
        /\ sqlite'.tab \in SqliteTabs
    BY DEF WorkType
  <2>4. BuildSqliteSession' =
          IF sqlite'.path = NoPath THEN NoSession
          ELSE SessionOf("sqlite", sqlite'.path, sqlite'.table, sqlite'.tab,
                         p'.source, p'.steps)
    BY DEF BuildSqliteSession, SessionOf, HasAFile
  <2> HIDE DEF p
  <2> QED BY <2>1, <2>2, <2>3, <2>4, FileSessionType DEF Session
<1> QED BY <1>1, <1>2, <1>3

(* The builder is shown for a table of the database that is active. *)
LEMMA TargetType ==
  ASSUME WorkType'
  PROVE  BuilderTarget' \in Source \cup {NoSource}
<1>1. active' = "sqlite" => sqlite'.path \in Files
  BY DEF WorkType, HasAFile
<1>2. sqlite'.table \in Tables \cup {NoTable} /\ mysql'.table \in Tables \cup {NoTable}
  BY DEF WorkType
<1> QED BY <1>1, <1>2 DEF BuilderTarget, Source

(* A waiting pipeline is taken over whole, or goes on waiting. *)
LEMMA RestoreType ==
  ASSUME NEW pend \in Restore \cup {NoRestore}, NEW source, NEW steps \in Pipelines
  PROVE  /\ AfterRestore(pend, source, steps) \in Pipelines
         /\ RestOf(pend, source) \in Restore \cup {NoRestore}
BY DEF AfterRestore, RestOf, Waits, Restore

LEMMA OpenForTableType ==
  ASSUME NEW p \in Restore, NEW pend \in Restore \cup {NoRestore},
         OpenForTable(p, pend), WorkType'
  PROVE  pipe' \in Restore /\ pendingRestore' \in Restore \cup {NoRestore}
<1>1. BuilderTarget' \in Source \cup {NoSource}
  BY TargetType
<1> DEFINE source == IF BuilderTarget' = NoSource THEN p.source ELSE BuilderTarget'
           steps  == IF source = p.source THEN p.steps ELSE <<>>
<1>2. source \in Source \cup {NoSource} /\ steps \in Pipelines
  BY <1>1, SessionAssumption DEF Restore
<1>3. /\ pipe' = [source |-> source,
                  steps  |-> IF BuilderTarget' # NoSource
                             THEN AfterRestore(pend, source, steps) ELSE steps]
      /\ pendingRestore' = IF BuilderTarget' # NoSource THEN RestOf(pend, source) ELSE pend
  BY DEF OpenForTable
<1> HIDE DEF source, steps
<1>4. /\ AfterRestore(pend, source, steps) \in Pipelines
      /\ RestOf(pend, source) \in Restore \cup {NoRestore}
  BY <1>2, RestoreType
<1> QED BY <1>2, <1>3, <1>4 DEF Restore

(* What the effects behind an action leave has its type. *)
LEMMA EffectsType ==
  ASSUME NEW p \in Restore, NEW pend \in Restore \cup {NoRestore},
         Effects(p, pend), WorkType', saveTimer \in Session \cup {NoSession}
  PROVE  /\ pipe' \in Restore /\ pendingRestore' \in Restore \cup {NoRestore}
         /\ saveTimer' \in Session \cup {NoSession}
<1>1. pipe' \in Restore /\ pendingRestore' \in Restore \cup {NoRestore}
  BY OpenForTableType DEF Effects
<1>2. BuildSession' \in Session \cup {NoSession}
  BY <1>1, BuildType
<1> QED BY <1>1, <1>2 DEF Effects, Autosave, DebouncedSave

LEMMA RestoreWhenOpenedType ==
  ASSUME pipe \in Restore, NEW pend \in Restore \cup {NoRestore},
         RestoreWhenOpened(pend), WorkType', saveTimer \in Session \cup {NoSession}
  PROVE  /\ pipe' \in Restore /\ pendingRestore' \in Restore \cup {NoRestore}
         /\ saveTimer' \in Session \cup {NoSession}
<1> DEFINE steps == AfterRestore(pend, pipe.source, pipe.steps)
           p     == [pipe EXCEPT !.steps = steps]
           rest  == RestOf(pend, pipe.source)
<1>1. steps \in Pipelines /\ rest \in Restore \cup {NoRestore}
  BY RestoreType DEF Restore
<1>2. p \in Restore
  BY <1>1 DEF Restore
<1>3. Effects(p, rest)
  BY DEF RestoreWhenOpened
<1> HIDE DEF p, rest
<1> QED BY <1>1, <1>2, <1>3, EffectsType

(* The workspace keeps its type, and is the only thing an action of the user *)
(* or of the restore gives its effects.                                      *)
LEMMA EmptyWorkType ==
  ASSUME sqlite' = EmptySqlite, mysql' = EmptyMysql,
         redis' = EmptyRedis, active' = "none"
  PROVE  WorkType'
BY DEF WorkType, EmptySqlite, EmptyMysql, EmptyRedis, SqliteTabs, MysqlTabs

LEMMA DraftType ==
  /\ \A t \in Tables \cup {NoTable}, tab \in MysqlTabs : [table |-> t, tab |-> tab] \in MysqlDraft
  /\ \A k \in Keys \cup {NoTable} : [table |-> k, tab |-> "browse"] \in RedisDraft
BY DEF MysqlDraft, RedisDraft

(* What is accepted of the stored text is a session of its provider. *)
LEMMA NormalizedType ==
  ASSUME TypeOK, Normalized(stored) # NoSession
  PROVE  /\ Normalized(stored) \in Session
         /\ IsPersistedSession(Normalized(stored))
         /\ Normalized(stored).providerId = "sqlite" => Normalized(stored) \in FileSession({"sqlite"})
         /\ Normalized(stored).providerId = "mysql" =>
              stored = Normalized(stored) /\ stored \in MysqlSession
         /\ Normalized(stored).providerId = "redis" =>
              stored = Normalized(stored) /\ stored \in RedisSession
<1>1. stored \in Session \cup LegacySession \cup {NoSession, Garbage}
  BY DEF TypeOK
<1>2. CASE IsPersistedSession(stored)
  <2>. ~IsLegacyPersistedSession(stored)
    BY <1>2 DEF IsPersistedSession, IsLegacyPersistedSession
  <2>1. Normalized(stored) = stored
    BY <1>2 DEF Normalized
  <2>2. stored \notin LegacySession
    BY <1>2 DEF IsPersistedSession, LegacySession, FileSession
  <2>3. stored \in Session
    BY <1>1, <1>2, <2>2 DEF IsPersistedSession
  <2>4. /\ stored.providerId = "sqlite" => stored \in FileSession({"sqlite"})
        /\ stored.providerId = "mysql" => stored \in MysqlSession
        /\ stored.providerId = "redis" => stored \in RedisSession
    BY <2>3 DEF Session, FileSession, MysqlSession, RedisSession
  <2> QED BY <1>2, <2>1, <2>3, <2>4
<1>3. CASE ~IsPersistedSession(stored)
  <2>1. IsLegacyPersistedSession(stored) /\ Normalized(stored) = WithProvider(stored)
    BY <1>3 DEF Normalized
  <2>2. stored \notin Session
    BY <2>1 DEF IsLegacyPersistedSession, Session, FileSession, MysqlSession, RedisSession
  <2>3. stored \in LegacySession
    BY <1>1, <2>1, <2>2 DEF IsLegacyPersistedSession
  <2>4. /\ WithProvider(stored) \in FileSession({"sqlite"})
        /\ WithProvider(stored).providerId = "sqlite"
        /\ WithProvider(stored).steps = stored.steps
    BY <2>3 DEF WithProvider, LegacySession, FileSession
  <2>5. WithProvider(stored) \in Session
    BY <2>4 DEF Session
  <2>6. WithProvider(stored) \notin {NoSession, Garbage}
    BY <2>5, SessionAssumption
  <2> QED
    BY <2>1, <2>4, <2>5, <2>6 DEF IsPersistedSession, IsLegacyPersistedSession
<1> QED BY <1>2, <1>3

TypeInv == TypeOK /\ WorkType

(* The step of the types: restoring. *)
LEMMA RestoresType ==
  ASSUME TypeInv, Restores
  PROVE  TypeInv'
<1> USE DEF TypeInv
<1>1. CASE NothingToRestore
  <2>1. WorkType'
    BY <1>1 DEF NothingToRestore, WorkType, HasAFile
  <2>2. Effects(pipe, pendingRestore)
    BY <1>1 DEF NothingToRestore
  <2>3. /\ pipe' \in Restore /\ pendingRestore' \in Restore \cup {NoRestore}
        /\ saveTimer' \in Session \cup {NoSession}
    BY <2>1, <2>2, EffectsType DEF TypeOK
  <2> QED BY <1>1, <2>1, <2>3 DEF NothingToRestore, Unrestored, leftVars, countVars, TypeOK, WorkType
<1>2. CASE BeginSqlite
  <2>1. WorkType'
    BY <1>2 DEF BeginSqlite, workVars, WorkType, HasAFile
  <2>2. restoring' \in [at : {"schemas", "rows"}, session : FileSession({"sqlite"})]
    BY <1>2, NormalizedType DEF BeginSqlite
  <2> QED BY <1>2, <2>1, <2>2 DEF BeginSqlite, workVars, Unrestored, leftVars, countVars, TypeOK, WorkType
<1>3. CASE RestoreMysql
  <2>1. stored \in MysqlSession
    BY <1>3, NormalizedType DEF RestoreMysql
  <2>2. /\ stored.table \in Tables \cup {NoTable} /\ stored.tab \in MysqlTabs
        /\ RestoreOf(stored) \in Restore
    BY <2>1 DEF MysqlSession, RestoreOf, Restore
  <2>3. mysql' = [mysql EXCEPT !.draft = [table |-> stored.table, tab |-> stored.tab],
                               !.pending = RestoreOf(stored)]
    BY <1>3 DEF RestoreMysql
  <2>4. mysql' \in [session : BOOLEAN, table : Tables \cup {NoTable}, tab : MysqlTabs,
                    draft : MysqlDraft \cup {NoDraft}, pending : Restore \cup {NoRestore}]
    BY <2>2, <2>3, DraftType DEF WorkType
  <2>5. WorkType'
    BY <1>3, <2>4 DEF RestoreMysql, WorkType, HasAFile
  <2>6. Effects(pipe, pendingRestore)
    BY <1>3 DEF RestoreMysql
  <2>7. /\ pipe' \in Restore /\ pendingRestore' \in Restore \cup {NoRestore}
        /\ saveTimer' \in Session \cup {NoSession}
    BY <2>5, <2>6, EffectsType DEF TypeOK
  <2> QED BY <1>3, <2>5, <2>7 DEF RestoreMysql, Unrestored, leftVars, countVars, TypeOK, WorkType
<1>4. CASE BeginRedis
  <2>1. stored \in RedisSession
    BY <1>4, NormalizedType DEF BeginRedis
  <2>2. stored.table \in Keys \cup {NoTable} /\ stored.tab = "browse"
    BY <2>1 DEF RedisSession
  <2>3. redis' \in [session : BOOLEAN, key : Keys \cup {NoTable}, draft : RedisDraft \cup {NoDraft}]
    BY <1>4, <2>2, DraftType DEF BeginRedis, WorkType
  <2>4. WorkType'
    BY <1>4, <2>3 DEF BeginRedis, WorkType
  <2>5. Effects(pipe, pendingRestore)
    BY <1>4 DEF BeginRedis
  <2>6. /\ pipe' \in Restore /\ pendingRestore' \in Restore \cup {NoRestore}
        /\ saveTimer' \in Session \cup {NoSession}
    BY <2>4, <2>5, EffectsType DEF TypeOK
  <2>7. restoring' \in [at : {"password"}, session : RedisSession]
    BY <1>4, <2>1 DEF BeginRedis
  <2> QED BY <1>4, <2>4, <2>6, <2>7 DEF BeginRedis, Unrestored, leftVars, countVars, TypeOK, WorkType
<1>5. CASE PasswordLoaded
  <2>1. WorkType'
    BY <1>5 DEF PasswordLoaded, WorkType, HasAFile
  <2>2. Effects(pipe, pendingRestore)
    BY <1>5 DEF PasswordLoaded
  <2>3. /\ pipe' \in Restore /\ pendingRestore' \in Restore \cup {NoRestore}
        /\ saveTimer' \in Session \cup {NoSession}
    BY <2>1, <2>2, EffectsType DEF TypeOK
  <2> QED BY <1>5, <2>1, <2>3 DEF PasswordLoaded, Unrestored, leftVars, countVars, TypeOK, WorkType
<1>6. CASE SchemasLoaded
  <2> DEFINE s == restoring.session
  <2>1. restoring \in [at : {"schemas", "rows"}, session : FileSession({"sqlite"})]
    BY <1>6 DEF SchemasLoaded, TypeOK, Reading, Done
  <2>2. /\ s.path \in Files /\ s.table \in Tables \cup {NoTable} /\ s.tab \in SqliteTabs
        /\ RestoreOf(s) \in Restore
    BY <2>1 DEF FileSession, RestoreOf, Restore
  <2>3. /\ sqlite' = [path |-> s.path, tab |-> s.tab,
                      table |-> IF s.table # NoTable THEN s.table ELSE sqlite.table]
        /\ active' = "sqlite"
    BY <1>6 DEF SchemasLoaded
  <2>4. sqlite' \in [path : Files \cup {NoPath}, table : Tables \cup {NoTable}, tab : SqliteTabs]
    BY <2>2, <2>3 DEF WorkType
  <2>5. sqlite'.path # NoPath
    BY <2>2, <2>3, SessionAssumption
  <2>6. WorkType'
    BY <1>6, <2>3, <2>4, <2>5 DEF SchemasLoaded, WorkType, HasAFile
  <2>7. RememberPipeline(s) \in Restore \cup {NoRestore}
    BY <2>2 DEF RememberPipeline, TypeOK
  <2>8. Effects(pipe, pendingRestore) \/ RestoreWhenOpened(RememberPipeline(s))
    BY <1>6 DEF SchemasLoaded
  <2>9. /\ pipe' \in Restore /\ pendingRestore' \in Restore \cup {NoRestore}
        /\ saveTimer' \in Session \cup {NoSession}
    BY <2>6, <2>7, <2>8, EffectsType, RestoreWhenOpenedType DEF TypeOK
  <2>10. restoring' \in {Done} \cup [at : {"schemas", "rows"}, session : FileSession({"sqlite"})]
    BY <1>6, <2>1 DEF SchemasLoaded
  <2> QED BY <1>6, <2>6, <2>9, <2>10 DEF SchemasLoaded, Unrestored, leftVars, countVars, TypeOK, WorkType
<1>7. CASE SchemasFail
  <2>1. WorkType'
    BY <1>7 DEF SchemasFail, WorkType, HasAFile
  <2>2. pipe' \in Restore /\ pendingRestore' \in Restore \cup {NoRestore}
    BY <1>7, <2>1, OpenForTableType DEF SchemasFail, TypeOK
  <2> QED BY <1>7, <2>1, <2>2 DEF SchemasFail, countVars, TypeOK, WorkType
<1>8. CASE RowsLoaded
  <2> DEFINE s == restoring.session
  <2>1. restoring \in [at : {"schemas", "rows"}, session : FileSession({"sqlite"})]
    BY <1>8 DEF RowsLoaded, TypeOK, Reading, Done
  <2>2. RestoreOf(s) \in Restore
    BY <2>1 DEF FileSession, RestoreOf, Restore
  <2>3. RememberPipeline(s) \in Restore \cup {NoRestore}
    BY <2>2 DEF RememberPipeline, TypeOK
  <2>4. WorkType'
    BY <1>8 DEF RowsLoaded, WorkType, HasAFile
  <2>5. RestoreWhenOpened(RememberPipeline(s))
    BY <1>8 DEF RowsLoaded
  <2>6. /\ pipe' \in Restore /\ pendingRestore' \in Restore \cup {NoRestore}
        /\ saveTimer' \in Session \cup {NoSession}
    BY <2>3, <2>4, <2>5, RestoreWhenOpenedType DEF TypeOK
  <2> QED BY <1>8, <2>4, <2>6 DEF RowsLoaded, Unrestored, leftVars, countVars, TypeOK, WorkType
<1> QED BY <1>1, <1>2, <1>3, <1>4, <1>5, <1>6, <1>7, <1>8 DEF Restores

(* A user's action that gives the workspace its type and its effects. *)
LEMMA ActionType ==
  ASSUME TypeInv, UserActs, Elsewhere, WorkType', NEW p \in Restore,
         NEW pend \in Restore \cup {NoRestore}, Effects(p, pend)
  PROVE  TypeInv'
<1>1. /\ pipe' \in Restore /\ pendingRestore' \in Restore \cup {NoRestore}
      /\ saveTimer' \in Session \cup {NoSession}
  BY EffectsType DEF TypeInv, TypeOK
<1> QED BY <1>1 DEF TypeInv, TypeOK, WorkType, UserActs, Elsewhere

(* The step of the types: the user. *)
LEMMA UserType ==
  ASSUME TypeInv, UserDoes
  PROVE  TypeInv'
<1>0. pipe \in Restore /\ pendingRestore \in Restore \cup {NoRestore}
  BY DEF TypeInv, TypeOK
<1>1. ASSUME NEW f \in Files, OpenFile(f) PROVE TypeInv'
  <2>1. WorkType'
    BY <1>1, SessionAssumption DEF OpenFile, TypeInv, WorkType, HasAFile
  <2> QED BY <1>0, <1>1, <2>1, ActionType DEF OpenFile
<1>2. ASSUME NEW t \in Tables, SelectTable(t) PROVE TypeInv'
  <2>1. WorkType'
    BY <1>2 DEF SelectTable, TypeInv, WorkType, HasAFile
  <2> QED BY <1>0, <1>2, <2>1, ActionType DEF SelectTable
<1>3. ASSUME NEW t \in Tables, MysqlChange("table", t) PROVE TypeInv'
  <2>1. WorkType'
    BY <1>3 DEF MysqlChange, TypeInv, WorkType, HasAFile
  <2> QED BY <1>0, <1>3, <2>1, ActionType DEF MysqlChange
<1>4. ASSUME NEW tab \in {"browse", "query"}, SetActiveTab(tab) PROVE TypeInv'
  <2>1. WorkType'
    BY <1>4 DEF SetActiveTab, TypeInv, WorkType, HasAFile, SqliteTabs
  <2> QED BY <1>0, <1>4, <2>1, ActionType DEF SetActiveTab
<1>5. ASSUME NEW tab \in {"browse", "pipeline"}, MysqlChange("tab", tab) PROVE TypeInv'
  <2>1. WorkType'
    BY <1>5 DEF MysqlChange, TypeInv, WorkType, HasAFile, MysqlTabs
  <2> QED BY <1>0, <1>5, <2>1, ActionType DEF MysqlChange
<1>6. ASSUME NEW steps \in Pipelines, EditPipeline(steps) PROVE TypeInv'
  <2>1. WorkType'
    BY <1>6 DEF EditPipeline, TypeInv, WorkType, HasAFile
  <2> DEFINE p == [pipe EXCEPT !.steps = steps]
  <2>2. p \in Restore
    BY <1>0 DEF Restore
  <2>3. UserActs /\ Elsewhere /\ Effects(p, pendingRestore)
    BY <1>6 DEF EditPipeline
  <2> HIDE DEF p
  <2> QED BY <1>0, <2>1, <2>2, <2>3, ActionType
<1>7. ASSUME NEW k \in Keys, SelectKey(k) PROVE TypeInv'
  <2>1. WorkType'
    BY <1>7 DEF SelectKey, TypeInv, WorkType, HasAFile
  <2> QED BY <1>0, <1>7, <2>1, ActionType DEF SelectKey
<1>8. CASE SelectProfile
  <2>1. WorkType'
    BY <1>8, DraftType DEF SelectProfile, TypeInv, WorkType, HasAFile, MysqlTabs
  <2> QED BY <1>0, <1>8, <2>1, ActionType DEF SelectProfile
<1>9. CASE ConnectMysql
  <2>1. mysql.draft \in MysqlDraft /\ mysql.pending \in Restore \cup {NoRestore}
    BY <1>9 DEF ConnectMysql, TypeInv, WorkType
  <2>2. mysql.draft.table \in Tables \cup {NoTable} /\ mysql.draft.tab \in MysqlTabs
    BY <2>1 DEF MysqlDraft
  <2>3. /\ mysql' = [session |-> TRUE, table |-> mysql.draft.table, tab |-> mysql.draft.tab,
                     draft |-> mysql.draft, pending |-> NoRestore]
        /\ active' = "mysql" /\ UNCHANGED <<sqlite, redis>>
    BY <1>9 DEF ConnectMysql
  <2>4. WorkType'
    BY <2>1, <2>2, <2>3 DEF TypeInv, WorkType
  <2>5. PICK pend \in Restore \cup {NoRestore} : RestoreWhenOpened(pend)
    BY <1>0, <1>9, <2>1 DEF ConnectMysql
  <2>6. /\ pipe' \in Restore /\ pendingRestore' \in Restore \cup {NoRestore}
        /\ saveTimer' \in Session \cup {NoSession}
    BY <1>0, <2>4, <2>5, RestoreWhenOpenedType DEF TypeInv, TypeOK
  <2>7. UserActs /\ Elsewhere
    BY <1>9 DEF ConnectMysql
  <2> QED BY <2>4, <2>6, <2>7 DEF TypeInv, TypeOK, WorkType, UserActs, Elsewhere
<1>10. CASE SelectTarget
  <2>1. WorkType'
    BY <1>10, DraftType DEF SelectTarget, TypeInv, WorkType, HasAFile
  <2> QED BY <1>0, <1>10, <2>1, ActionType DEF SelectTarget
<1>11. CASE ConnectRedis
  <2>1. WorkType'
    BY <1>11 DEF ConnectRedis, TypeInv, WorkType, HasAFile
  <2> QED BY <1>0, <1>11, <2>1, ActionType DEF ConnectRedis
<1>12. CASE ShowHome
  <2>1. WorkType'
    BY <1>12 DEF ShowHome, TypeInv, WorkType, HasAFile, EmptyMysql, EmptyRedis, MysqlTabs
  <2> QED BY <1>0, <1>12, <2>1, EmptyPipeType, ActionType DEF ShowHome
<1> QED
  BY <1>1, <1>2, <1>3, <1>4, <1>5, <1>6, <1>7, <1>8, <1>9, <1>10, <1>11, <1>12 DEF UserDoes

LEMMA InitType == Init => TypeInv
<1> SUFFICES ASSUME Init PROVE TypeInv
  OBVIOUS
<1>1. WorkType
  BY DEF Init, WorkType, EmptySqlite, EmptyMysql, EmptyRedis, SqliteTabs, MysqlTabs
<1>2. pipe \in Restore
  BY EmptyPipeType DEF Init
<1> QED BY <1>1, <1>2, SessionAssumption DEF Init, TypeInv, TypeOK, WorkType

LEMMA TypeStep ==
  ASSUME TypeInv, [Next]_vars
  PROVE  TypeInv'
<1>1. CASE Restores
  BY <1>1, RestoresType
<1>2. CASE UserDoes
  BY <1>2, UserType
<1>3. CASE SaveTimerFires
  BY <1>3 DEF SaveTimerFires, workVars, countVars, TypeInv, TypeOK, WorkType, HasAFile
<1>4. CASE Relaunch \/ HardReset
  <2>1. NewProcess /\ stored' \in {stored, NoSession} /\ left' \in {left, NoSession}
        /\ since' \in {since + 1, 0}
    BY <1>4 DEF Relaunch, HardReset
  <2>2. WorkType'
    BY <2>1, EmptyWorkType DEF NewProcess
  <2>3. pipe' \in Restore
    BY <2>1, EmptyPipeType DEF NewProcess
  <2>4. since' \in Nat /\ launches' \in Nat /\ acts' \in Nat
    BY <2>1 DEF NewProcess, TypeInv, TypeOK
  <2>5. /\ restoring' = Reading /\ saveTimer' = NoSession /\ pendingRestore' = NoRestore
        /\ acted' = FALSE /\ there' = there
    BY <2>1 DEF NewProcess
  <2>6. /\ stored' \in Session \cup LegacySession \cup {NoSession, Garbage}
        /\ left' \in Session \cup {NoSession}
    BY <2>1 DEF TypeInv, TypeOK
  <2> QED BY <2>2, <2>3, <2>4, <2>5, <2>6 DEF TypeInv, TypeOK, WorkType
<1>5. ASSUME NEW f \in there, FileGoes(f) PROVE TypeInv'
  BY <1>5 DEF FileGoes, workVars, leftVars, countVars, TypeInv, TypeOK, WorkType, HasAFile
<1>6. CASE UNCHANGED vars
  BY <1>6 DEF vars, workVars, leftVars, countVars, TypeInv, TypeOK, WorkType, HasAFile
<1> QED
  BY <1>1, <1>2, <1>3, <1>4, <1>5, <1>6 DEF Next

(***************************************************************************)
(* What is stored while a session is restored is that session again.       *)
(***************************************************************************)
ReopenInv == PageInv /\ StoredInv /\ RestoreInv

Place(s) == [path |-> s.path, table |-> s.table, tab |-> s.tab]

(* The steps of a pipeline that came back were accepted with its session. *)
Accepted(steps) == \A k \in DOMAIN steps : IsPipelineStep(steps[k])

(* The session of a file that is open at its place is that session again. *)
LEMMA BuildsAgain ==
  ASSUME IsPersistedSession(left), left.providerId = "sqlite",
         active' = "sqlite", sqlite' = Place(left), WorkType',
         pipe' \in Restore, Accepted(pipe'.steps)
  PROVE  SavedAgain(BuildSession', left)
<1> DEFINE p == Pipeline(pipe.source # NoSource /\ pipe.source.path # Connection)
<1>1. sqlite'.path # NoPath
  BY DEF WorkType, HasAFile
<1>2. BuildSession' = SessionOf("sqlite", left.path, left.table, left.tab, p'.source, p'.steps)
  BY <1>1 DEF BuildSession, BuildSqliteSession, HasAFile, Place, SessionOf
<1>3. Accepted(p'.steps)
  BY DEF Pipeline, Accepted
<1> HIDE DEF p
<1>4. /\ BuildSession'.providerId = "sqlite" /\ BuildSession'.path = left.path
      /\ BuildSession'.table = left.table /\ BuildSession'.tab = left.tab
      /\ BuildSession'.steps = p'.steps
  BY <1>2 DEF SessionOf
<1>5. BuildSession' \in Session
  <2>1. p' \in Restore
    BY EmptyPipeType DEF p, Pipeline, EmptyPipe
  <2>2. /\ left.path \in Files /\ left.table \in Tables \cup {NoTable}
        /\ left.tab \in SqliteTabs
    BY <1>1 DEF WorkType, Place
  <2> QED BY <1>2, <2>1, <2>2, FileSessionType DEF Session
<1>6. BuildSession' \notin {NoSession, Garbage}
  BY <1>5, SessionAssumption
<1> QED BY <1>3, <1>4, <1>5, <1>6 DEF SavedAgain, IsPersistedSession, Accepted

(* What the timer is going to store stays that session again. *)
LEMMA SavesAgain ==
  ASSUME Autosave, saveTimer # NoSession => SavedAgain(saveTimer, left),
         BuildSession' # NoSession => SavedAgain(BuildSession', left)
  PROVE  saveTimer' # NoSession => SavedAgain(saveTimer', left)
BY DEF Autosave, DebouncedSave

(* Steps of the restore that nobody has disturbed. *)
Undisturbed == ~acted' /\ IsPersistedSession(left')

(* A session that is restored from an empty page: the server to connect to is *)
(* not connected, so nothing is saved.                                        *)
LEMMA SavesNothing ==
  ASSUME EmptyWorkspace, Autosave, sqlite' = sqlite, active' \in {"none", "redis"},
         redis'.session = redis.session
  PROVE  saveTimer' = saveTimer
BY DEF Autosave, EmptyWorkspace, EmptySqlite, EmptyRedis, BuildSession, BuildSqliteSession,
       BuildRedisSession, HasAFile

(* The pipeline of the session waits until the builder opens its table, and  *)
(* is the one on show then.                                                  *)
LEMMA PipelineComesBack ==
  ASSUME NEW s \in FileSession({"sqlite"}), Accepted(s.steps), TypeInv, WorkType',
         pipe = EmptyPipe, pendingRestore = NoRestore,
         RestoreWhenOpened(RememberPipeline(s))
  PROVE  /\ Accepted(pipe'.steps)
         /\ s.source # NoSource => \/ pendingRestore' = RestoreOf(s)
                                   \/ pipe' = RestoreOf(s)
<1> DEFINE pend == RememberPipeline(s)
           target == BuilderTarget'
<1>1. RestoreOf(s) \in Restore /\ RestoreOf(s).source = s.source /\ RestoreOf(s).steps = s.steps
  BY DEF RestoreOf, Restore, FileSession
<1>2. pend = IF s.source = NoSource THEN NoRestore ELSE RestoreOf(s)
  BY DEF RememberPipeline
<1>3. [EmptyPipe EXCEPT !.steps = AfterRestore(pend, NoSource, <<>>)] = EmptyPipe
      /\ RestOf(pend, NoSource) = pend
  BY DEF AfterRestore, RestOf, Waits, EmptyPipe
<1>4. EmptyPipe.source = NoSource /\ EmptyPipe.steps = <<>>
  BY DEF EmptyPipe
<1>5. OpenForTable(EmptyPipe, pend)
  BY <1>3, <1>4 DEF RestoreWhenOpened, Effects
<1>6. CASE target = NoSource
  <2>1. pipe' = [source |-> NoSource, steps |-> <<>>] /\ pendingRestore' = pend
    BY <1>4, <1>5, <1>6 DEF OpenForTable
  <2> QED BY <1>2, <2>1 DEF Accepted
<1>7. CASE target # NoSource
  <2>1. /\ pipe' = [source |-> target, steps |-> AfterRestore(pend, target, <<>>)]
        /\ pendingRestore' = RestOf(pend, target)
    BY <1>4, <1>5, <1>7 DEF OpenForTable
  <2>2. CASE Waits(pend, target)
    <3>1. pend = RestoreOf(s) /\ s.source = target
      BY <1>1, <1>2, <2>2 DEF Waits
    <3>2. AfterRestore(pend, target, <<>>) = s.steps
      BY <1>1, <2>2, <3>1 DEF AfterRestore
    <3> QED BY <2>1, <3>1, <3>2 DEF RestoreOf
  <2>3. CASE ~Waits(pend, target)
    <3>1. AfterRestore(pend, target, <<>>) = <<>> /\ RestOf(pend, target) = pend
      BY <2>3 DEF AfterRestore, RestOf
    <3> QED BY <1>2, <2>1, <3>1 DEF Accepted
  <2> QED BY <2>2, <2>3
<1> QED BY <1>6, <1>7

LEMMA RestoresReopens ==
  ASSUME TypeInv, ReopenInv, Restores, TypeInv'
  PROVE  ReopenInv'
<1>1. restoring'.at # "reading"
  <2>1. CASE SchemasLoaded
    BY <2>1 DEF SchemasLoaded, TypeInv, TypeOK, Reading, Done
  <2> QED BY <2>1 DEF Restores, NothingToRestore, BeginSqlite, RestoreMysql, BeginRedis,
                      PasswordLoaded, SchemasFail, RowsLoaded, Done
<1>2. PageInv'
  BY <1>1 DEF PageInv
<1>3. /\ since' = since /\ acted' = acted
      /\ (stored' = stored /\ left' = left) \/ left' = NoSession
  BY DEF Restores, NothingToRestore, BeginSqlite, RestoreMysql, BeginRedis, PasswordLoaded,
         SchemasLoaded, SchemasFail, RowsLoaded, Unrestored, leftVars
<1>4. StoredInv'
  BY <1>1, <1>3 DEF ReopenInv, StoredInv, IsPersistedSession
<1>5. ASSUME Undisturbed PROVE RestoreInv'
  <2>1. left' = left /\ stored' = stored /\ ~acted /\ IsPersistedSession(left)
    BY <1>3, <1>5 DEF Undisturbed, IsPersistedSession
  <2>2. SavedAgain(stored, left) /\ (since = 1 /\ restoring.at = "reading" => stored = left)
    BY <2>1 DEF ReopenInv, StoredInv
  <2>3. Normalized(stored) = stored /\ stored # NoSession /\ stored \in Session
    <3>1. IsPersistedSession(stored) /\ ~IsLegacyPersistedSession(stored)
      BY <2>2 DEF SavedAgain, IsPersistedSession, IsLegacyPersistedSession
    <3> QED BY <2>2, <3>1 DEF SavedAgain, Normalized, IsPersistedSession
  <2>4. CASE BeginSqlite
    <3>1. restoring' = [at |-> "schemas", session |-> stored] /\ stored.providerId = "sqlite"
      BY <2>3, <2>4 DEF BeginSqlite
    <3>2. EmptyWorkspace' /\ saveTimer' = NoSession
      BY <2>4 DEF BeginSqlite, ReopenInv, PageInv, EmptyWorkspace, workVars
    <3> QED BY <1>3, <2>1, <2>2, <2>4, <3>1, <3>2
            DEF RestoreInv, EmptyWorkspace, Ready, BeginSqlite
  <2>5. CASE RestoreMysql
    <3>1. EmptyWorkspace /\ saveTimer = NoSession
      BY <2>5 DEF RestoreMysql, ReopenInv, PageInv
    <3>2. saveTimer' = NoSession
      BY <2>5, <3>1, SavesNothing DEF RestoreMysql, Effects, EmptyWorkspace
    <3>3. stored = left /\ left.providerId = "mysql"
      BY <2>2, <2>3, <2>5 DEF RestoreMysql, SavedAgain
    <3>4. mysql'.draft = [table |-> left.table, tab |-> left.tab]
          /\ mysql'.pending = RestoreOf(left)
      BY <2>5, <3>3 DEF RestoreMysql, TypeInv, WorkType
    <3>5. RestoredAs(left)'
      BY <2>1, <3>3, <3>4 DEF RestoredAs
    <3>6. restoring'.at = "done"
      BY <2>5 DEF RestoreMysql, Done
    <3> QED BY <3>2, <3>5, <3>6 DEF RestoreInv
  <2>6. CASE BeginRedis
    <3>1. EmptyWorkspace /\ saveTimer = NoSession
      BY <2>6 DEF BeginRedis, ReopenInv, PageInv
    <3>2. stored = left /\ left.providerId = "redis"
      BY <2>2, <2>3, <2>6 DEF BeginRedis, SavedAgain
    <3>3. /\ redis'.draft = [table |-> left.table, tab |-> left.tab]
          /\ redis'.session = redis.session /\ active' = "redis" /\ sqlite' = sqlite
      BY <2>6, <3>2 DEF BeginRedis, TypeInv, WorkType
    <3>4. saveTimer' = NoSession
      BY <2>6, <3>1, <3>3, SavesNothing DEF BeginRedis, Effects
    <3>5. restoring'.at = "password" /\ ~redis'.session
      BY <2>6, <3>1, <3>3 DEF BeginRedis, EmptyWorkspace, EmptyRedis
    <3> QED BY <2>1, <3>2, <3>3, <3>4, <3>5 DEF RestoreInv, Ready
  <2>7. CASE PasswordLoaded
    <3>1. /\ left.providerId = "redis" /\ active = "redis" /\ ~redis.session
          /\ redis.draft = [table |-> left.table, tab |-> left.tab]
          /\ saveTimer # NoSession => SavedAgain(saveTimer, left)
      BY <2>1, <2>7 DEF PasswordLoaded, ReopenInv, RestoreInv
    <3>2. active' = active /\ redis' = redis /\ restoring'.at = "done" /\ Autosave
      BY <2>7 DEF PasswordLoaded, Effects, Done
    <3>3. saveTimer' = saveTimer
      BY <3>1, <3>2 DEF Autosave, BuildSession, BuildRedisSession
    <3>4. RestoredAs(left)'
      BY <2>1, <3>1, <3>2 DEF RestoredAs
    <3> QED BY <2>1, <3>1, <3>2, <3>3, <3>4 DEF RestoreInv
  <2>8. CASE SchemasLoaded \/ RowsLoaded
    <3> DEFINE s == restoring.session
    <3>1. restoring.at \in {"schemas", "rows"} /\ s \in FileSession({"sqlite"})
      BY <2>8 DEF SchemasLoaded, RowsLoaded, TypeInv, TypeOK, Reading, Done
    <3>2. /\ SavedAgain(s, left) /\ s.providerId = "sqlite" /\ (since = 1 => s = left)
          /\ pipe = EmptyPipe /\ pendingRestore = NoRestore
          /\ saveTimer # NoSession => SavedAgain(saveTimer, left)
      BY <2>1, <3>1 DEF ReopenInv, RestoreInv
    <3>3. Place(s) = Place(left) /\ left.providerId = "sqlite" /\ Accepted(s.steps)
      BY <3>2 DEF SavedAgain, IsPersistedSession, Accepted, Place
    <3>4. active' = "sqlite" /\ sqlite' = Place(left)
      <4>1. CASE SchemasLoaded
        <5>1. sqlite = EmptySqlite
          BY <2>1, <4>1 DEF SchemasLoaded, ReopenInv, RestoreInv, EmptyWorkspace
        <5> QED BY <3>3, <4>1, <5>1 DEF SchemasLoaded, EmptySqlite, Place
      <4>2. CASE RowsLoaded
        BY <2>1, <4>2 DEF RowsLoaded, ReopenInv, RestoreInv, Place
      <4> QED BY <2>8, <4>1, <4>2
    <3>5. WorkType' /\ pipe' \in Restore /\ Autosave
      BY <2>8 DEF TypeInv, TypeOK, SchemasLoaded, RowsLoaded, RestoreWhenOpened, Effects
    <3>6. ASSUME Accepted(pipe'.steps) PROVE saveTimer' # NoSession => SavedAgain(saveTimer', left)
      <4>1. SavedAgain(BuildSession', left)
        BY <2>1, <3>3, <3>4, <3>5, <3>6, BuildsAgain
      <4> QED BY <3>2, <3>5, <4>1, SavesAgain
    <3>7. CASE SchemasLoaded /\ s.table # NoTable
      <4>1. /\ restoring' = [restoring EXCEPT !.at = "rows"]
            /\ OpenForTable(pipe, pendingRestore)
        BY <3>7 DEF SchemasLoaded, Effects
      <4>2. restoring'.at = "rows" /\ restoring'.session = s
        BY <3>1, <4>1 DEF TypeInv, TypeOK, Reading, Done
      <4>3. BuilderTarget' = NoSource
        BY <4>2 DEF BuilderTarget, Ready
      <4>4. pipe' = EmptyPipe /\ pendingRestore' = NoRestore
        BY <3>2, <4>1, <4>3 DEF OpenForTable, EmptyPipe
      <4>5. Accepted(pipe'.steps)
        BY <4>4 DEF EmptyPipe, Accepted
      <4> QED BY <1>3, <2>1, <3>2, <3>4, <3>6, <4>2, <4>4, <4>5 DEF RestoreInv, Ready, Place
    <3>8. CASE ~(SchemasLoaded /\ s.table # NoTable)
      <4>1. restoring'.at = "done" /\ RestoreWhenOpened(RememberPipeline(s))
        BY <2>8, <3>8 DEF SchemasLoaded, RowsLoaded, Done
      <4>2. /\ Accepted(pipe'.steps)
            /\ s.source # NoSource => \/ pendingRestore' = RestoreOf(s)
                                      \/ pipe' = RestoreOf(s)
        BY <3>1, <3>2, <3>3, <3>5, <4>1, PipelineComesBack
      <4>3. RestoredAs(left)'
        BY <1>3, <2>1, <3>2, <3>3, <3>4, <4>2 DEF RestoredAs, PipelineIsBack, Place
      <4> QED BY <2>1, <3>6, <4>1, <4>2, <4>3 DEF RestoreInv
    <3> QED BY <3>7, <3>8
  <2>9. ~NothingToRestore /\ ~SchemasFail
    BY <1>5, <2>3 DEF NothingToRestore, SchemasFail, Undisturbed, IsPersistedSession
  <2> QED BY <2>4, <2>5, <2>6, <2>7, <2>8, <2>9 DEF Restores
<1> QED BY <1>2, <1>4, <1>5 DEF ReopenInv, RestoreInv, Undisturbed

(* The user, the timer, a new process.  Whoever acts has disturbed what was  *)
(* restored; the next launch starts with what is stored then.                *)
LEMMA ReopenStep ==
  ASSUME TypeInv, ReopenInv, [Next]_vars, TypeInv'
  PROVE  ReopenInv'
<1>1. CASE Restores
  BY <1>1, RestoresReopens
<1>2. CASE UserDoes
  <2>1. acted' = TRUE /\ UNCHANGED <<stored, restoring, left, since>> /\ restoring.at # "reading"
    BY <1>2 DEF UserDoes, OpenFile, SelectTable, MysqlChange, SetActiveTab, EditPipeline,
                SelectKey, SelectProfile, ConnectMysql, SelectTarget, ConnectRedis, ShowHome,
                UserActs, Elsewhere, Ready, BuilderTarget
  <2> QED BY <2>1 DEF ReopenInv, PageInv, StoredInv, RestoreInv
<1>3. CASE SaveTimerFires
  <2>1. /\ saveTimer # NoSession /\ stored' = saveTimer /\ saveTimer' = NoSession
        /\ UNCHANGED <<restoring, workVars, acted>>
        /\ acted => left' = saveTimer /\ since' = 0
        /\ ~acted => left' = left /\ since' = since
    BY <1>3 DEF SaveTimerFires
  <2>2. saveTimer \in Session
    BY <2>1 DEF TypeInv, TypeOK
  <2>3. restoring.at # "reading"
    BY <2>1 DEF ReopenInv, PageInv
  <2>4. StoredInv'
    <3>1. CASE acted
      BY <2>1, <2>2, <3>1 DEF StoredInv, SavedAgain
    <3>2. CASE ~acted
      BY <2>1, <2>3, <3>2 DEF ReopenInv, StoredInv, RestoreInv
    <3> QED BY <3>1, <3>2
  <2>5. RestoreInv'
    BY <2>1 DEF ReopenInv, RestoreInv, EmptyWorkspace, Ready, RestoredAs, PipelineIsBack, workVars
  <2> QED BY <2>1, <2>3, <2>4, <2>5 DEF ReopenInv, PageInv
<1>4. CASE Relaunch \/ HardReset
  <2>1. /\ restoring' = Reading /\ saveTimer' = NoSession /\ acted' = FALSE
        /\ EmptyWorkspace'
    BY <1>4 DEF Relaunch, HardReset, NewProcess, EmptyWorkspace
  <2>2. PageInv' /\ RestoreInv'
    BY <2>1 DEF PageInv, RestoreInv, Ready, Reading
  <2>3. StoredInv'
    <3>1. CASE Relaunch
      <4>1. since' = since + 1 /\ stored' = stored /\ left' = left /\ since \in Nat
        BY <3>1 DEF Relaunch, TypeInv, TypeOK
      <4> QED BY <4>1 DEF ReopenInv, StoredInv
    <3>2. CASE HardReset
      BY <3>2 DEF HardReset, StoredInv, IsPersistedSession
    <3> QED BY <1>4, <3>1, <3>2
  <2> QED BY <2>2, <2>3 DEF ReopenInv
<1>5. ASSUME NEW f \in there, FileGoes(f) PROVE ReopenInv'
  BY <1>5 DEF FileGoes, workVars, leftVars, ReopenInv, PageInv, StoredInv, RestoreInv,
              EmptyWorkspace, Ready, RestoredAs, PipelineIsBack
<1>6. CASE UNCHANGED vars
  BY <1>6 DEF vars, workVars, leftVars, ReopenInv, PageInv, StoredInv, RestoreInv,
              EmptyWorkspace, Ready, RestoredAs, PipelineIsBack
<1> QED
  BY <1>1, <1>2, <1>3, <1>4, <1>5, <1>6 DEF Next

LEMMA InitReopen == Init => ReopenInv
BY DEF Init, ReopenInv, PageInv, StoredInv, RestoreInv, EmptyWorkspace, IsPersistedSession

THEOREM Invariant == Spec => [](TypeInv /\ ReopenInv)
<1>1. Init => TypeInv /\ ReopenInv
  BY InitType, InitReopen
<1>2. TypeInv /\ ReopenInv /\ [Next]_vars => (TypeInv /\ ReopenInv)'
  BY TypeStep, ReopenStep
<1> QED BY <1>1, <1>2, PTL DEF Spec

(* What is stored, what is restored and what is on the page have their types *)
(* at every launch, whatever localStorage held at first                      *)
(* (isPersistedSession, normalizePersistedSession).                          *)
THEOREM TypesHold == Spec => []TypeOK
<1>1. TypeInv => TypeOK
  BY DEF TypeInv
<1> QED BY <1>1, Invariant, PTL

(* However many launches ago a session was left, and wherever the restores   *)
(* in between were cut off, its workspace and table come back, and at the    *)
(* next launch its pipeline (restore(), the autosave).                       *)
THEOREM SessionComesBack == Spec => []ReopensWhereItWasLeft
<1>1. ReopenInv => ReopensWhereItWasLeft
  BY DEF ReopenInv, RestoreInv, ReopensWhereItWasLeft
<1> QED BY <1>1, Invariant, PTL
=============================================================================
