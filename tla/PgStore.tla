------------------------------ MODULE PgStore ------------------------------
(***************************************************************************)
(* The Postgres store (internal/store/pg_*.go): how the domain types       *)
(* become columns and back, the reads, and the writes a WithAudit callback *)
(* may issue.                                                              *)
(*                                                                         *)
(* Domain types: an id is a tuple of the row's natural key, <<>> being     *)
(* uuid.Nil; an optional id is <<>> or <<id>>; raw JSON bytes are <<>>     *)
(* (none) or <<document>>; a time is a natural number, 0 being the zero    *)
(* time.  e stands for what the environment gives a request: the new audit *)
(* id, the time its transaction starts and the time of its statements.     *)
(***************************************************************************)
EXTENDS Queries

-----------------------------------------------------------------------------
(* pg_convert.go, pg_audit.go: conversions *)

toUUID(c) == IF c = NULL THEN <<>> ELSE c.value
fromUUID(u) == Cell("uuid", u)
toNullUUID(c) == IF c = NULL THEN <<>> ELSE <<c.value>>
fromNullUUID(u) == IF u = <<>> THEN NULL ELSE Cell("uuid", u[1])
textFromString(s) == IF s = "" THEN NULL ELSE Cell("text", s)
textToString(c) == IF c = NULL THEN "" ELSE c.value
timestampFromTime(t) == IF t = 0 THEN NULL ELSE Cell("timestamptz", t)

projectFromRow(r) == [r EXCEPT !.id = toUUID(@)]

flagFromRow(r) == [r EXCEPT !.id = toUUID(@), !.project_id = toUUID(@)]

flagVersionFromRow(r) ==
    [r EXCEPT !.id = toUUID(@), !.flag_id = toUUID(@), !.source_text = textToString(@)]

environmentFromRow(r) == [r EXCEPT !.id = toUUID(@), !.project_id = toUUID(@)]

segmentFromRow(r) == [r EXCEPT !.id = toUUID(@), !.project_id = toUUID(@)]

snapshotFromRow(r) ==
    [r EXCEPT !.id = toUUID(@), !.project_id = toUUID(@), !.environment_id = toNullUUID(@)]

auditFromRow(r) ==
    [r EXCEPT !.id = toUUID(@), !.project_id = toNullUUID(@), !.flag_id = toNullUUID(@),
              !.actor = textToString(@), !.created_at = @.value]

latestFlagVersionFromRow(r) == [r EXCEPT !.flag_id = toUUID(@)]
-----------------------------------------------------------------------------
(* Reads *)

pgGetProjectBySlug(db, slug) == OneRow(sqlGetProjectBySlug(db, slug), projectFromRow)
pgListProjects(db) == {projectFromRow(r) : r \in sqlListProjects(db)}

pgGetEnvironmentBySlug(db, project, slug) ==
    OneRow(sqlGetEnvironmentBySlug(db, fromUUID(project), slug), environmentFromRow)
pgListEnvironmentsByProject(db, project) ==
    {environmentFromRow(r) : r \in sqlListEnvironmentsByProject(db, fromUUID(project))}

pgGetFlagByKey(db, project, key) ==
    OneRow(sqlGetFlagByKey(db, fromUUID(project), key), flagFromRow)
pgListFlagsByProject(db, project) ==
    {flagFromRow(r) : r \in sqlListFlagsByProject(db, fromUUID(project))}
pgGetLatestFlagVersion(db, flag) ==
    OneRow(sqlGetLatestFlagVersion(db, fromUUID(flag)), flagVersionFromRow)
pgListFlagVersions(db, flag) ==
    LET rows == sqlListFlagVersions(db, fromUUID(flag))
    IN  [i \in DOMAIN rows |-> flagVersionFromRow(rows[i])]

pgGetSegmentByKey(db, project, key) ==
    OneRow(sqlGetSegmentByKey(db, fromUUID(project), key), segmentFromRow)
pgListSegmentsByProject(db, project) ==
    {segmentFromRow(r) : r \in sqlListSegmentsByProject(db, fromUUID(project))}

pgGetSnapshotByID(db, project, id) ==
    OneRow(sqlGetSnapshotByID(db, fromUUID(project), fromUUID(id)), snapshotFromRow)
pgGetLatestSnapshot(db, project) ==
    OneRow(sqlGetLatestSnapshot(db, fromUUID(project)), snapshotFromRow)
pgListSnapshotsByProject(db, project, limit) ==
    LET rows == sqlListSnapshotsByProject(db, fromUUID(project), limit)
    IN  [i \in DOMAIN rows |-> snapshotFromRow(rows[i])]
pgListLatestFlagVersions(db, project) ==
    {latestFlagVersionFromRow(r) : r \in sqlListLatestFlagVersions(db, fromUUID(project))}

cursorIDParam(p) == IF p.cursor_ts = 0 THEN NULL ELSE fromUUID(p.cursor_id)

pgListAuditEvents(db, p) ==
    LET rows == sqlListAuditEventsByProject(db,
            [project_id |-> fromUUID(p.project_id), limit |-> p.limit,
             action |-> textFromString(p.action), actor |-> textFromString(p.actor),
             from |-> timestampFromTime(p.from), to |-> timestampFromTime(p.to),
             cursor_ts |-> timestampFromTime(p.cursor_ts), cursor_id |-> cursorIDParam(p)])
    IN  [i \in DOMAIN rows |-> auditFromRow(rows[i])]
-----------------------------------------------------------------------------
(* Writes inside a transaction (pg_tx.go, pg_flags.go) *)

pgCreateProject(db, slug, display_name, strategy) ==
    Returning(sqlCreateProject(db,
        [id |-> fromUUID(<<slug>>), slug |-> slug, display_name |-> display_name,
         config_strategy |-> strategy]), projectFromRow)

pgCreateEnvironment(db, project, slug, name) ==
    Returning(sqlCreateEnvironment(db,
        [id |-> fromUUID(project \o <<slug>>), project_id |-> fromUUID(project),
         slug |-> slug, name |-> name]), environmentFromRow)

pgCreateFlag(db, p) ==
    Returning(sqlCreateFlag(db,
        [id |-> fromUUID(p.project_id \o <<p.key>>), project_id |-> fromUUID(p.project_id),
         key |-> p.key, name |-> p.name, description |-> p.description,
         value_type |-> p.value_type, default_value |-> p.default_value]), flagFromRow)

pgPublishFlagVersion(db, p) ==
    LET next == sqlNextFlagVersion(db, fromUUID(p.flag_id))
    IN  Returning(sqlCreateFlagVersion(db,
            [id |-> fromUUID(p.flag_id \o <<next>>), flag_id |-> fromUUID(p.flag_id),
             version |-> next, strategy |-> p.strategy, source |-> p.source,
             compiled |-> p.compiled, source_text |-> textFromString(p.source_text)]),
            flagVersionFromRow)

pgSegmentParams(p) ==
    [id |-> fromUUID(p.project_id \o <<p.key>>), project_id |-> fromUUID(p.project_id),
     key |-> p.key, name |-> p.name, description |-> p.description,
     predicate |-> p.predicate]

pgCreateSegment(db, p) == Returning(sqlCreateSegment(db, pgSegmentParams(p)), segmentFromRow)

pgUpdateSegment(db, p) == Returning(sqlUpdateSegment(db, pgSegmentParams(p)), segmentFromRow)

pgCompileSnapshot(db, p) ==
    LET next == sqlNextSnapshotVersion(db, fromUUID(p.project_id))
    IN  Returning(sqlCreateSnapshot(db,
            [id |-> fromUUID(p.project_id \o <<next>>), project_id |-> fromUUID(p.project_id),
             environment_id |-> fromNullUUID(p.environment_id), version |-> next,
             compiled |-> p.compiled]), snapshotFromRow)

pgAuditInsertParams(p, e) ==
    [id |-> fromUUID(e.id), project_id |-> fromNullUUID(p.project_id),
     flag_id |-> fromNullUUID(p.flag_id), action |-> p.action,
     actor |-> textFromString(p.actor),
     payload |-> IF p.payload = <<>> THEN <<EmptyObject>> ELSE p.payload]

\* The transaction in which the callback came to w.  now() is its start.  A
\* write or an append that fails rolls everything back.
withAuditOnce(db, ev, w, e) ==
    LET End(a) ==
            IF w.err = "nil" /\ a.err = "nil" THEN [err |-> "nil", db |-> a.db, val |-> w.val]
            ELSE [err |-> IF w.err # "nil" THEN w.err ELSE a.err, db |-> db, val |-> <<>>]
    IN  End(sqlAppendAuditEvent(w.db, pgAuditInsertParams(ev, e), timestampFromTime(e.start)))
=============================================================================
