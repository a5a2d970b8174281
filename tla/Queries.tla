------------------------------ MODULE Queries ------------------------------
(***************************************************************************)
(* The tables and the queries that sqlc generates for them (internal/db).  *)
(*                                                                         *)
(* A database is a record of tables, a table is a set of rows.  Both       *)
(* backends run the same queries on rows whose columns are typed           *)
(* differently.                                                            *)
(*                                                                         *)
(* created_at is kept for audit events only.  Elsewhere it only orders     *)
(* lists, which are sets here.  No row is ever deleted, so that a foreign  *)
(* key, once looked up, resolves.                                          *)
(***************************************************************************)
EXTENDS Integers, Sequences, FiniteSets, Values

Empty == [projects |-> {}, environments |-> {}, flags |-> {}, versions |-> {},
          segments |-> {}, snapshots |-> {}, audit |-> {}]

\* What a statement that writes a row comes back with.
Wrote(db, row) == [err |-> "nil", db |-> db, row |-> <<row>>]
Refused(err, db) == [err |-> err, db |-> db, row |-> <<>>]

\* index: the columns of the table's unique index.
Insert(db, table, row, index) ==
    IF \E r \in db[table] : \A c \in index : r[c] = row[c] THEN Refused("unique", db)
    ELSE Wrote([db EXCEPT ![table] = @ \cup {row}], row)

\* ORDER BY ... DESC, for an order that is total on the rows: a row comes
\* after the rows above it.
RowsAbove(rows, Less(_, _)) == [r \in rows |-> Cardinality({q \in rows : Less(r, q)})]
Descending(rows, Less(_, _)) ==
    LET above == RowsAbove(rows, Less)
    IN  [i \in 1 .. Cardinality(rows) |-> CHOOSE r \in rows : above[r] = i - 1]

\* LIMIT n
Limit(s, n) == IF n < Len(s) THEN SubSeq(s, 1, n) ELSE s

ByVersion(x, y) == x.version < y.version
Newest(rows) == {r \in rows : \A q \in rows : q.version <= r.version}

\* COALESCE(MAX(version), 0) + 1
NextVersion(rows) ==
    IF rows = {} THEN 1 ELSE (CHOOSE r \in Newest(rows) : TRUE).version + 1
-----------------------------------------------------------------------------
(* projects.sql *)

sqlCreateProject(db, p) ==
    IF p.config_strategy \notin {"json", "cel", "typescript"} THEN Refused("check", db)
    ELSE Insert(db, "projects", p, {"slug"})

sqlGetProjectBySlug(db, slug) == {r \in db.projects : r.slug = slug}

sqlListProjects(db) == db.projects
-----------------------------------------------------------------------------
(* environments.sql *)

sqlCreateEnvironment(db, p) ==
    Insert(db, "environments", p, {"project_id", "slug"})

sqlGetEnvironmentBySlug(db, project, slug) ==
    {r \in db.environments : r.project_id = project /\ r.slug = slug}

sqlListEnvironmentsByProject(db, project) ==
    {r \in db.environments : r.project_id = project}
-----------------------------------------------------------------------------
(* flags.sql *)

sqlCreateFlag(db, p) ==
    IF p.value_type \notin {"boolean", "string", "number", "object"}
    THEN Refused("check", db)
    ELSE Insert(db, "flags", p, {"project_id", "key"})

sqlGetFlagByKey(db, project, key) ==
    {r \in db.flags : r.project_id = project /\ r.key = key}

sqlListFlagsByProject(db, project) == {r \in db.flags : r.project_id = project}

sqlNextFlagVersion(db, flag) == NextVersion({r \in db.versions : r.flag_id = flag})

sqlCreateFlagVersion(db, p) ==
    Insert(db, "versions", p, {"flag_id", "version"})

\* Mutant: the order is the wrong way round.
sqlGetLatestFlagVersionFirst(db, flag) ==
    {r \in db.versions : r.flag_id = flag /\ r.version = 1}

sqlGetLatestFlagVersion(db, flag) == Newest({r \in db.versions : r.flag_id = flag})

sqlListFlagVersions(db, flag) ==
    Descending({r \in db.versions : r.flag_id = flag}, ByVersion)
-----------------------------------------------------------------------------
(* segments.sql *)

sqlCreateSegment(db, p) ==
    Insert(db, "segments", p, {"project_id", "key"})

sqlGetSegmentByKey(db, project, key) ==
    {r \in db.segments : r.project_id = project /\ r.key = key}

sqlListSegmentsByProject(db, project) == {r \in db.segments : r.project_id = project}

sqlUpdateSegment(db, p) ==
    LET old == sqlGetSegmentByKey(db, p.project_id, p.key)
        Set(r) == [r EXCEPT !.name = p.name, !.description = p.description,
                            !.predicate = p.predicate]
    IN  IF old = {} THEN Refused("no_rows", db)
        ELSE Wrote([db EXCEPT !.segments = (@ \ old) \cup {Set(r) : r \in old}],
                   CHOOSE r \in {Set(q) : q \in old} : TRUE)
-----------------------------------------------------------------------------
(* snapshots.sql *)

sqlNextSnapshotVersion(db, project) ==
    NextVersion({r \in db.snapshots : r.project_id = project})

sqlCreateSnapshot(db, p) ==
    Insert(db, "snapshots", p, {"project_id", "version"})

sqlGetSnapshotByID(db, project, id) ==
    {r \in db.snapshots : r.project_id = project /\ r.id = id}

sqlGetLatestSnapshot(db, project) == Newest({r \in db.snapshots : r.project_id = project})

sqlListSnapshotsByProject(db, project, limit) ==
    Limit(Descending({r \in db.snapshots : r.project_id = project}, ByVersion), limit)

Joined(f, v) ==
    [flag_key |-> f.key, flag_id |-> v.flag_id, version |-> v.version,
     strategy |-> v.strategy, compiled |-> v.compiled]

\* Postgres: DISTINCT ON (flag_id) ... ORDER BY flag_id, version DESC.
sqlListLatestFlagVersions(db, project) ==
    UNION {{Joined(f, v) : v \in sqlGetLatestFlagVersion(db, f.id)} :
              f \in sqlListFlagsByProject(db, project)}

\* Mutant: the partition is numbered from its oldest version.
sqlListLatestFlagVersionsSqliteOldest(db, project) ==
    UNION {{Joined(f, v) : v \in {w \in db.versions : w.flag_id = f.id /\ w.version = 1}} :
              f \in sqlListFlagsByProject(db, project)}

\* SQLite: the first row of each partition by flag_id, by version DESC.
sqlListLatestFlagVersionsSqlite(db, project) ==
    LET rows == UNION {{Joined(f, v) : v \in {w \in db.versions : w.flag_id = f.id}} :
                          f \in sqlListFlagsByProject(db, project)}
        RowNumber(r) == Cardinality({q \in rows : q.flag_id = r.flag_id
                                                  /\ q.version >= r.version})
    IN  {r \in rows : RowNumber(r) = 1}
-----------------------------------------------------------------------------
(* audit.sql *)

\* created_at is the column's default, now().
sqlAppendAuditEvent(db, p, now) ==
    LET row == [id |-> p.id, project_id |-> p.project_id, flag_id |-> p.flag_id,
                action |-> p.action, actor |-> p.actor, payload |-> p.payload,
                created_at |-> now]
    IN  Insert(db, "audit", row, {"id"})

\* Canonical UUID texts are ordered as their bytes are.
Precedes(x, y) ==
    \/ x.created_at.value < y.created_at.value
    \/ x.created_at.value = y.created_at.value /\ x.id.value < y.id.value

\* Mutant: the lower bound is exclusive.
sqlListAuditEventsByProjectAfter(db, p) ==
    LET After(r) == \/ p.cursor_ts = NULL
                    \/ Precedes(r, [created_at |-> p.cursor_ts, id |-> p.cursor_id])
        Selected(r) ==
            /\ r.project_id = p.project_id
            /\ p.action = NULL \/ r.action = p.action.value
            /\ p.actor = NULL \/ (r.actor # NULL /\ r.actor.value = p.actor.value)
            /\ p.from = NULL \/ r.created_at.value > p.from.value
            /\ p.to = NULL \/ r.created_at.value < p.to.value
            /\ After(r)
    IN  Limit(Descending({r \in db.audit : Selected(r)}, Precedes), p.limit)

sqlListAuditEventsByProject(db, p) ==
    LET After(r) == \/ p.cursor_ts = NULL
                    \/ Precedes(r, [created_at |-> p.cursor_ts, id |-> p.cursor_id])
        Selected(r) ==
            /\ r.project_id = p.project_id
            /\ p.action = NULL \/ r.action = p.action.value
            /\ p.actor = NULL \/ (r.actor # NULL /\ r.actor.value = p.actor.value)
            /\ p.from = NULL \/ r.created_at.value >= p.from.value
            /\ p.to = NULL \/ r.created_at.value < p.to.value
            /\ After(r)
    IN  Limit(Descending({r \in db.audit : Selected(r)}, Precedes), p.limit)
-----------------------------------------------------------------------------
(* What a store answers with, of the rows a query comes back with *)

NotFound == [err |-> "not_found", val |-> <<>>]
Found(v) == [err |-> "nil", val |-> <<v>>]
OneRow(rows, FromRow(_)) ==
    IF rows = {} THEN NotFound ELSE Found(FromRow(CHOOSE r \in rows : TRUE))

\* A write inside the transaction: the row converted back, or the error.
Returning(w, FromRow(_)) ==
    [err |-> w.err, db |-> w.db,
     val |-> IF w.err = "nil" THEN <<FromRow(w.row[1])>> ELSE <<>>]
=============================================================================
