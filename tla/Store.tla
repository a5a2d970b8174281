------------------------------- MODULE Store -------------------------------
(***************************************************************************)
(* The Store and Tx interfaces (internal/store/store.go): backend b picks  *)
(* the implementation, as Open does at boot.                               *)
(***************************************************************************)
EXTENDS PgStore, SqliteStore

\* Unique and foreign-key violations are conflicts; a failed CHECK is not.
IsConflict(err) == err = "unique"

storeGetProjectBySlug(b, db, slug) ==
    IF b = "postgres" THEN pgGetProjectBySlug(db, slug)
    ELSE sqliteGetProjectBySlug(db, slug)
storeListProjects(b, db) ==
    IF b = "postgres" THEN pgListProjects(db) ELSE sqliteListProjects(db)
storeGetEnvironmentBySlug(b, db, project, slug) ==
    IF b = "postgres" THEN pgGetEnvironmentBySlug(db, project, slug)
    ELSE sqliteGetEnvironmentBySlug(db, project, slug)
storeListEnvironmentsByProject(b, db, project) ==
    IF b = "postgres" THEN pgListEnvironmentsByProject(db, project)
    ELSE sqliteListEnvironmentsByProject(db, project)
storeGetFlagByKey(b, db, project, key) ==
    IF b = "postgres" THEN pgGetFlagByKey(db, project, key)
    ELSE sqliteGetFlagByKey(db, project, key)
storeListFlagsByProject(b, db, project) ==
    IF b = "postgres" THEN pgListFlagsByProject(db, project)
    ELSE sqliteListFlagsByProject(db, project)
storeGetLatestFlagVersion(b, db, flag) ==
    IF b = "postgres" THEN pgGetLatestFlagVersion(db, flag)
    ELSE sqliteGetLatestFlagVersion(db, flag)
storeListFlagVersions(b, db, flag) ==
    IF b = "postgres" THEN pgListFlagVersions(db, flag)
    ELSE sqliteListFlagVersions(db, flag)
storeGetSegmentByKey(b, db, project, key) ==
    IF b = "postgres" THEN pgGetSegmentByKey(db, project, key)
    ELSE sqliteGetSegmentByKey(db, project, key)
storeListSegmentsByProject(b, db, project) ==
    IF b = "postgres" THEN pgListSegmentsByProject(db, project)
    ELSE sqliteListSegmentsByProject(db, project)
storeGetSnapshotByID(b, db, project, id) ==
    IF b = "postgres" THEN pgGetSnapshotByID(db, project, id)
    ELSE sqliteGetSnapshotByID(db, project, id)
storeGetLatestSnapshot(b, db, project) ==
    IF b = "postgres" THEN pgGetLatestSnapshot(db, project)
    ELSE sqliteGetLatestSnapshot(db, project)
storeListSnapshotsByProject(b, db, project, limit) ==
    IF b = "postgres" THEN pgListSnapshotsByProject(db, project, limit)
    ELSE sqliteListSnapshotsByProject(db, project, limit)
storeListLatestFlagVersions(b, db, project) ==
    IF b = "postgres" THEN pgListLatestFlagVersions(db, project)
    ELSE sqliteListLatestFlagVersions(db, project)
storeListAuditEvents(b, db, p) ==
    IF b = "postgres" THEN pgListAuditEvents(db, p) ELSE sqliteListAuditEvents(db, p)
-----------------------------------------------------------------------------
storeCreateProject(b, db, slug, display_name, strategy) ==
    IF b = "postgres" THEN pgCreateProject(db, slug, display_name, strategy)
    ELSE sqliteCreateProject(db, slug, display_name, strategy)
storeCreateEnvironment(b, db, project, slug, name) ==
    IF b = "postgres" THEN pgCreateEnvironment(db, project, slug, name)
    ELSE sqliteCreateEnvironment(db, project, slug, name)
storeCreateFlag(b, db, p) ==
    IF b = "postgres" THEN pgCreateFlag(db, p) ELSE sqliteCreateFlag(db, p)
storePublishFlagVersion(b, db, p) ==
    IF b = "postgres" THEN pgPublishFlagVersion(db, p)
    ELSE sqlitePublishFlagVersion(db, p)
storeCreateSegment(b, db, p) ==
    IF b = "postgres" THEN pgCreateSegment(db, p) ELSE sqliteCreateSegment(db, p)
storeUpdateSegment(b, db, p) ==
    IF b = "postgres" THEN pgUpdateSegment(db, p) ELSE sqliteUpdateSegment(db, p)
storeCompileSnapshot(b, db, p) ==
    IF b = "postgres" THEN pgCompileSnapshot(db, p) ELSE sqliteCompileSnapshot(db, p)

\* The transaction around a write that comes to w.
storeWithAudit(b, db, ev, w, e) ==
    IF b = "postgres" THEN withAuditOnce(db, ev, w, e)
    ELSE runOnceTx(db, ev, w, e)
=============================================================================
