---------------------------- MODULE SqliteStore ----------------------------
(***************************************************************************)
(* The SQLite store (internal/store/sqlite_*.go).  It keeps the domain     *)
(* types of PgStore in text columns: ids as their canonical text, JSON as  *)
(* its bytes, times in whole milliseconds.  Its transactions take the      *)
(* writer lock first, and created_at is the time of the statement.         *)
(***************************************************************************)
EXTENDS Queries

\* Ticks of the clock in a millisecond.
TicksPerMilli == 2

-----------------------------------------------------------------------------
(* sqlite_convert.go, sqlite_audit.go: conversions *)

sqliteUUIDString(u) == Cell("text", u)
sqliteParseUUID(c) == c.value
sqliteParseNullUUID(c) == IF c = NULL THEN <<>> ELSE <<c.value>>
sqliteFromNullUUID(u) == IF u = <<>> THEN NULL ELSE sqliteUUIDString(u[1])
sqliteStringFromString(s) == IF s = "" THEN NULL ELSE Cell("text", s)
sqliteStringToString(c) == IF c = NULL THEN "" ELSE c.value
sqliteNullableString(s) == IF s = "" THEN NULL ELSE Cell("text", s)

\* The text of a time names its millisecond; texts are ordered as they are.
sqliteFormatTime(t) == Cell("text", t \div TicksPerMilli)
sqliteParseTime(c) == c.value * TicksPerMilli
sqliteNullableTime(t) == IF t = 0 THEN NULL ELSE sqliteFormatTime(t)

sqliteRawMessage(b) == Cell("text", IF b = <<>> THEN EmptyObject ELSE b[1])
sqliteRawMessageFrom(c) == <<c.value>>

sqliteProjectFromRow(r) == [r EXCEPT !.id = sqliteParseUUID(@)]

sqliteFlagFromRow(r) ==
    [r EXCEPT !.id = sqliteParseUUID(@), !.project_id = sqliteParseUUID(@),
              !.default_value = sqliteRawMessageFrom(@)]

sqliteFlagVersionFromRow(r) ==
    [r EXCEPT !.id = sqliteParseUUID(@), !.flag_id = sqliteParseUUID(@),
              !.source = sqliteRawMessageFrom(@), !.compiled = sqliteRawMessageFrom(@),
              !.source_text = sqliteStringToString(@)]

sqliteEnvironmentFromRow(r) ==
    [r EXCEPT !.id = sqliteParseUUID(@), !.project_id = sqliteParseUUID(@)]

sqliteSegmentFromRow(r) ==
    [r EXCEPT !.id = sqliteParseUUID(@), !.project_id = sqliteParseUUID(@),
              !.predicate = sqliteRawMessageFrom(@)]

sqliteSnapshotFromRow(r) ==
    [r EXCEPT !.id = sqliteParseUUID(@), !.project_id = sqliteParseUUID(@),
              !.environment_id = sqliteParseNullUUID(@),
              !.compiled = sqliteRawMessageFrom(@)]

sqliteAuditFromRow(r) ==
    [r EXCEPT !.id = sqliteParseUUID(@), !.project_id = sqliteParseNullUUID(@),
              !.flag_id = sqliteParseNullUUID(@), !.actor = sqliteStringToString(@),
              !.payload = sqliteRawMessageFrom(@), !.created_at = sqliteParseTime(@)]

sqliteLatestFlagVersionFromRow(r) ==
    [r EXCEPT !.flag_id = sqliteParseUUID(@), !.compiled = sqliteRawMessageFrom(@)]
-----------------------------------------------------------------------------
(* Reads *)

sqliteGetProjectBySlug(db, slug) == OneRow(sqlGetProjectBySlug(db, slug), sqliteProjectFromRow)
sqliteListProjects(db) == {sqliteProjectFromRow(r) : r \in sqlListProjects(db)}

sqliteGetEnvironmentBySlug(db, project, slug) ==
    OneRow(sqlGetEnvironmentBySlug(db, sqliteUUIDString(project), slug),
           sqliteEnvironmentFromRow)
sqliteListEnvironmentsByProject(db, project) ==
    {sqliteEnvironmentFromRow(r) :
        r \in sqlListEnvironmentsByProject(db, sqliteUUIDString(project))}

sqliteGetFlagByKey(db, project, key) ==
    OneRow(sqlGetFlagByKey(db, sqliteUUIDString(project), key), sqliteFlagFromRow)
sqliteListFlagsByProject(db, project) ==
    {sqliteFlagFromRow(r) : r \in sqlListFlagsByProject(db, sqliteUUIDString(project))}
sqliteGetLatestFlagVersion(db, flag) ==
    OneRow(sqlGetLatestFlagVersion(db, sqliteUUIDString(flag)), sqliteFlagVersionFromRow)
sqliteListFlagVersions(db, flag) ==
    LET rows == sqlListFlagVersions(db, sqliteUUIDString(flag))
    IN  [i \in DOMAIN rows |-> sqliteFlagVersionFromRow(rows[i])]

sqliteGetSegmentByKey(db, project, key) ==
    OneRow(sqlGetSegmentByKey(db, sqliteUUIDString(project), key), sqliteSegmentFromRow)
sqliteListSegmentsByProject(db, project) ==
    {sqliteSegmentFromRow(r) : r \in sqlListSegmentsByProject(db, sqliteUUIDString(project))}

sqliteGetSnapshotByID(db, project, id) ==
    OneRow(sqlGetSnapshotByID(db, sqliteUUIDString(project), sqliteUUIDString(id)),
           sqliteSnapshotFromRow)
sqliteGetLatestSnapshot(db, project) ==
    OneRow(sqlGetLatestSnapshot(db, sqliteUUIDString(project)), sqliteSnapshotFromRow)
sqliteListSnapshotsByProject(db, project, limit) ==
    LET rows == sqlListSnapshotsByProject(db, sqliteUUIDString(project), limit)
    IN  [i \in DOMAIN rows |-> sqliteSnapshotFromRow(rows[i])]
sqliteListLatestFlagVersions(db, project) ==
    {sqliteLatestFlagVersionFromRow(r) :
        r \in sqlListLatestFlagVersionsSqlite(db, sqliteUUIDString(project))}

sqliteNullableCursorID(p) ==
    IF p.cursor_ts = 0 THEN NULL ELSE sqliteUUIDString(p.cursor_id)

sqliteListAuditEvents(db, p) ==
    LET rows == sqlListAuditEventsByProject(db,
            [project_id |-> sqliteUUIDString(p.project_id), limit |-> p.limit,
             action |-> sqliteNullableString(p.action),
             actor |-> sqliteNullableString(p.actor),
             from |-> sqliteNullableTime(p.from), to |-> sqliteNullableTime(p.to),
             cursor_ts |-> sqliteNullableTime(p.cursor_ts),
             cursor_id |-> sqliteNullableCursorID(p)])
    IN  [i \in DOMAIN rows |-> sqliteAuditFromRow(rows[i])]
-----------------------------------------------------------------------------
(* Writes inside a transaction (sqlite_tx.go, sqlite_flags.go) *)

sqliteCreateProject(db, slug, display_name, strategy) ==
    Returning(sqlCreateProject(db,
        [id |-> sqliteUUIDString(<<slug>>), slug |-> slug, display_name |-> display_name,
         config_strategy |-> strategy]), sqliteProjectFromRow)

sqliteCreateEnvironment(db, project, slug, name) ==
    Returning(sqlCreateEnvironment(db,
        [id |-> sqliteUUIDString(project \o <<slug>>),
         project_id |-> sqliteUUIDString(project), slug |-> slug, name |-> name]),
        sqliteEnvironmentFromRow)

sqliteCreateFlag(db, p) ==
    Returning(sqlCreateFlag(db,
        [id |-> sqliteUUIDString(p.project_id \o <<p.key>>),
         project_id |-> sqliteUUIDString(p.project_id), key |-> p.key, name |-> p.name,
         description |-> p.description, value_type |-> p.value_type,
         default_value |-> sqliteRawMessage(p.default_value)]),
        sqliteFlagFromRow)

sqlitePublishFlagVersion(db, p) ==
    LET next == sqlNextFlagVersion(db, sqliteUUIDString(p.flag_id))
    IN  Returning(sqlCreateFlagVersion(db,
            [id |-> sqliteUUIDString(p.flag_id \o <<next>>),
             flag_id |-> sqliteUUIDString(p.flag_id), version |-> next, strategy |-> p.strategy,
             source |-> sqliteRawMessage(p.source), compiled |-> sqliteRawMessage(p.compiled),
             source_text |-> sqliteStringFromString(p.source_text)]),
            sqliteFlagVersionFromRow)

sqliteSegmentParams(p) ==
    [id |-> sqliteUUIDString(p.project_id \o <<p.key>>),
     project_id |-> sqliteUUIDString(p.project_id), key |-> p.key, name |-> p.name,
     description |-> p.description, predicate |-> sqliteRawMessage(p.predicate)]

sqliteCreateSegment(db, p) ==
    Returning(sqlCreateSegment(db, sqliteSegmentParams(p)), sqliteSegmentFromRow)

sqliteUpdateSegment(db, p) ==
    Returning(sqlUpdateSegment(db, sqliteSegmentParams(p)), sqliteSegmentFromRow)

sqliteCompileSnapshot(db, p) ==
    LET next == sqlNextSnapshotVersion(db, sqliteUUIDString(p.project_id))
    IN  Returning(sqlCreateSnapshot(db,
            [id |-> sqliteUUIDString(p.project_id \o <<next>>),
             project_id |-> sqliteUUIDString(p.project_id),
             environment_id |-> sqliteFromNullUUID(p.environment_id), version |-> next,
             compiled |-> sqliteRawMessage(p.compiled)]), sqliteSnapshotFromRow)

sqliteAuditInsertParams(p, e) ==
    [id |-> sqliteUUIDString(e.id), project_id |-> sqliteFromNullUUID(p.project_id),
     flag_id |-> sqliteFromNullUUID(p.flag_id), action |-> p.action,
     actor |-> sqliteStringFromString(p.actor),
     payload |-> sqliteRawMessage(p.payload)]

\* The transaction in which the callback came to w.  A write or an append
\* that fails rolls everything back.
runOnceTx(db, ev, w, e) ==
    LET End(a) ==
            IF w.err = "nil" /\ a.err = "nil" THEN [err |-> "nil", db |-> a.db, val |-> w.val]
            ELSE [err |-> IF w.err # "nil" THEN w.err ELSE a.err, db |-> db, val |-> <<>>]
    IN  End(sqlAppendAuditEvent(w.db, sqliteAuditInsertParams(ev, e), sqliteFormatTime(e.now)))
=============================================================================
