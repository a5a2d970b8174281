------------------------------ MODULE Contents ------------------------------
(***************************************************************************)
(* What the store promises, and how each backend keeps it.                 *)
(*                                                                         *)
(* The contents of a database, a, are tables of the objects that callers   *)
(* exchange with the Store interface; Rows(b, a) is how backend b keeps    *)
(* them, typed cells and all.  StoreContract says that on Rows(b, a) a     *)
(* read comes back with what the contents hold, and that a write leaves    *)
(* Rows(b, w.a), w being what the write comes to on the contents: the      *)
(* backends differ in how they keep things and, but for the precision of   *)
(* times, in nothing else.                                                 *)
(***************************************************************************)
EXTENDS Store, Integers, Sequences, FiniteSets

-----------------------------------------------------------------------------
(* What a store holds *)

\* What the CHECK constraints admit.
Strategies == {"json", "cel", "typescript"}
ValueTypes == {"boolean", "string", "number", "object"}

\* A column of one value, one that is a JSON object, one that may be empty.
Single(u) == u = <<u[1]>>
RawObject(raw) == Single(raw) /\ raw[1].type = "object"
OneOrNone(u) == u = <<>> \/ Single(u)

\* Records with these fields and no others.
Columns(x, names) == x = [c \in names |-> x[c]]

\* The columns of each table.
ProjectColumns == {"id", "slug", "display_name", "config_strategy"}
EnvironmentColumns == {"id", "project_id", "slug", "name"}
FlagColumns ==
    {"id", "project_id", "key", "name", "description", "value_type", "default_value"}
VersionColumns ==
    {"id", "flag_id", "version", "strategy", "source", "compiled", "source_text"}
SegmentColumns == {"id", "project_id", "key", "name", "description", "predicate"}
SnapshotColumns == {"id", "project_id", "environment_id", "version", "compiled"}
EventColumns ==
    {"id", "project_id", "flag_id", "action", "actor", "payload", "created_at"}

\* The objects of each table.
ProjectOK(p) ==
    /\ Columns(p, ProjectColumns)
    /\ p.id = <<p.slug>>
    /\ p.config_strategy \in Strategies
EnvironmentOK(n) == Columns(n, EnvironmentColumns)
FlagOK(f) ==
    /\ Columns(f, FlagColumns)
    /\ Single(f.project_id) /\ f.id = <<f.project_id[1], f.key>>
    /\ f.value_type \in ValueTypes
    /\ Single(f.default_value)
VersionOK(v) ==
    /\ Columns(v, VersionColumns)
    /\ v.version \in Nat \ {0}
    /\ v.strategy \in Strategies
    /\ RawObject(v.source) /\ RawObject(v.compiled)
SegmentOK(s) == Columns(s, SegmentColumns) /\ RawObject(s.predicate)
SnapshotOK(s) ==
    /\ Columns(s, SnapshotColumns)
    /\ Single(s.project_id) /\ s.id = <<s.project_id[1], s.version>>
    /\ OneOrNone(s.environment_id)
    /\ s.version \in Nat \ {0}
    /\ RawObject(s.compiled)
EventOK(b, v) ==
    /\ Columns(v, EventColumns)
    /\ v.id \in Nat
    /\ OneOrNone(v.project_id) /\ OneOrNone(v.flag_id)
    /\ RawObject(v.payload)
    /\ v.created_at \in Nat
    /\ b = "postgres" => v.created_at # 0
    /\ b # "postgres" => v.created_at % 2 = 0

\* No two rows agree on the columns of the unique index.
Unique(rows, index) == \A x, y \in rows : (\A c \in index : x[c] = y[c]) => x = y
-----------------------------------------------------------------------------
(* How backend b keeps it *)

\* How a value is kept in a column.
Id(b, u) == IF b = "postgres" THEN fromUUID(u) ELSE sqliteUUIDString(u)
OptionalId(b, u) ==
    IF b = "postgres" THEN fromNullUUID(u) ELSE sqliteFromNullUUID(u)
Text(b, s) ==
    IF b = "postgres" THEN textFromString(s) ELSE sqliteStringFromString(s)
Json(b, raw) == IF b = "postgres" THEN raw ELSE sqliteRawMessage(raw)
Time(b, t) ==
    IF b = "postgres" THEN timestampFromTime(t) ELSE sqliteFormatTime(t)

\* How an object is kept in its table.
ProjectRow(b, p) ==
    [id |-> Id(b, p.id), slug |-> p.slug, display_name |-> p.display_name,
     config_strategy |-> p.config_strategy]
EnvironmentRow(b, n) ==
    [id |-> Id(b, n.id), project_id |-> Id(b, n.project_id), slug |-> n.slug,
     name |-> n.name]
FlagRow(b, f) ==
    [id |-> Id(b, f.id), project_id |-> Id(b, f.project_id), key |-> f.key,
     name |-> f.name, description |-> f.description, value_type |-> f.value_type,
     default_value |-> Json(b, f.default_value)]
VersionRow(b, v) ==
    [id |-> Id(b, v.id), flag_id |-> Id(b, v.flag_id), version |-> v.version,
     strategy |-> v.strategy, source |-> Json(b, v.source),
     compiled |-> Json(b, v.compiled), source_text |-> Text(b, v.source_text)]
SegmentRow(b, s) ==
    [id |-> Id(b, s.id), project_id |-> Id(b, s.project_id), key |-> s.key,
     name |-> s.name, description |-> s.description, predicate |-> Json(b, s.predicate)]
SnapshotRow(b, s) ==
    [id |-> Id(b, s.id), project_id |-> Id(b, s.project_id),
     environment_id |-> OptionalId(b, s.environment_id), version |-> s.version,
     compiled |-> Json(b, s.compiled)]
EventRow(b, v) ==
    [id |-> Id(b, v.id), project_id |-> OptionalId(b, v.project_id),
     flag_id |-> OptionalId(b, v.flag_id), action |-> v.action,
     actor |-> Text(b, v.actor), payload |-> Json(b, v.payload),
     created_at |-> Time(b, v.created_at)]

\* The tables, their rows, and a database.
TableNames ==
    {"projects", "environments", "flags", "versions", "segments", "snapshots", "audit"}
Row(b, t, x) ==
    CASE t = "projects" -> ProjectRow(b, x)
      [] t = "environments" -> EnvironmentRow(b, x)
      [] t = "flags" -> FlagRow(b, x)
      [] t = "versions" -> VersionRow(b, x)
      [] t = "segments" -> SegmentRow(b, x)
      [] t = "snapshots" -> SnapshotRow(b, x)
      [] t = "audit" -> EventRow(b, x)
Rows(b, a) == [t \in TableNames |-> {Row(b, t, x) : x \in a[t]}]
-----------------------------------------------------------------------------
(* Sorting *)

\* R orders S strictly and totally.
Orders(R, S) ==
    /\ \A x \in S : <<x, x>> \notin R
    /\ \A x, y \in S : x = y \/ <<x, y>> \in R \/ <<y, x>> \in R
    /\ \A x, y, z \in S : <<x, y>> \in R /\ <<y, z>> \in R => <<x, z>> \in R

\* How many come after x in the order, and S in that order, last one first.
Above(S, R) == [x \in S |-> Cardinality({y \in S : <<x, y>> \in R})]
Sorted(S, R) ==
    [i \in 1 .. Cardinality(S) |-> CHOOSE x \in S : Above(S, R)[x] = i - 1]

\* The first n elements.
Cut(s, n) == IF n < Len(s) THEN SubSeq(s, 1, n) ELSE s
-----------------------------------------------------------------------------
(* Reads *)

\* The contents a database of backend b can have: every row as its constraints
\* and unique indexes demand.
ContentsOK(b, a) ==
    /\ Columns(a, TableNames)
    /\ \A p \in a.projects : ProjectOK(p)
    /\ \A n \in a.environments : EnvironmentOK(n)
    /\ \A f \in a.flags : FlagOK(f)
    /\ \A v \in a.versions : VersionOK(v)
    /\ \A s \in a.segments : SegmentOK(s)
    /\ \A s \in a.snapshots : SnapshotOK(s)
    /\ \A v \in a.audit : EventOK(b, v)
    /\ Unique(a.projects, {"slug"})
    /\ Unique(a.environments, {"project_id", "slug"})
    /\ Unique(a.flags, {"project_id", "key"})
    /\ Unique(a.versions, {"flag_id", "version"})
    /\ Unique(a.segments, {"project_id", "key"})
    /\ Unique(a.snapshots, {"project_id", "version"})
    /\ Unique(a.audit, {"id"})
    /\ IsFiniteSet(a.projects) /\ IsFiniteSet(a.environments) /\ IsFiniteSet(a.flags)
    /\ IsFiniteSet(a.versions) /\ IsFiniteSet(a.segments) /\ IsFiniteSet(a.snapshots)
    /\ IsFiniteSet(a.audit)

\* What a lookup of at most one row comes back with.
One(S) == IF S = {} THEN [err |-> "not_found", val |-> <<>>]
          ELSE [err |-> "nil", val |-> <<CHOOSE x \in S : TRUE>>]

\* The rows with the highest version.
Latest(S) == {x \in S : \A y \in S : y.version <= x.version}

\* The order of versions and of snapshots.
VersionOrder(S) == {p \in S \X S : p[1].version < p[2].version}
EventOrder(S) ==
    {p \in S \X S : \/ p[1].created_at < p[2].created_at
                    \/ p[1].created_at = p[2].created_at /\ p[1].id < p[2].id}

\* A query for audit events: "" and 0 leave a filter out.
QueryOK(p) ==
    /\ p.from \in Nat /\ p.to \in Nat /\ p.limit \in Nat
    /\ p.cursor_ts \in Nat

\* The events it selects; SQLite compares milliseconds.
Stamp(b, t) == IF b = "postgres" THEN t ELSE t \div 2
Selects(b, p, v) ==
    /\ v.project_id = <<p.project_id>>
    /\ p.action = "" \/ v.action = p.action
    /\ p.actor = "" \/ v.actor = p.actor
    /\ p.from = 0 \/ Stamp(b, v.created_at) >= Stamp(b, p.from)
    /\ p.to = 0 \/ Stamp(b, v.created_at) < Stamp(b, p.to)
    /\ \/ p.cursor_ts = 0
       \/ Stamp(b, v.created_at) < Stamp(b, p.cursor_ts)
       \/ Stamp(b, v.created_at) = Stamp(b, p.cursor_ts) /\ v.id < p.cursor_id

\* The newest version of each flag of the project.
Pair(f, v) ==
    [flag_key |-> f.key, flag_id |-> v.flag_id, version |-> v.version,
     strategy |-> v.strategy, compiled |-> v.compiled]
FlagsOf(a, project) == {f \in a.flags : f.project_id = project}
VersionsOf(a, flag) == {v \in a.versions : v.flag_id = flag}
SnapshotsOf(a, project) == {s \in a.snapshots : s.project_id = project}
EventsFor(b, a, p) == {v \in a.audit : Selects(b, p, v)}
LatestVersions(a, project) ==
    UNION {{Pair(f, v) : v \in Latest(VersionsOf(a, f.id))} :
              f \in FlagsOf(a, project)}
-----------------------------------------------------------------------------
(* Writes *)

\* The columns of the unique index of a table, and its rows.
Index(t) ==
    CASE t = "projects" -> {"slug"}
      [] t = "environments" -> {"project_id", "slug"}
      [] t = "flags" -> {"project_id", "key"}
      [] t = "versions" -> {"flag_id", "version"}
      [] t = "segments" -> {"project_id", "key"}
      [] t = "snapshots" -> {"project_id", "version"}
      [] t = "audit" -> {"id"}
OK(b, t, x) ==
    CASE t = "projects" -> ProjectOK(x)
      [] t = "environments" -> EnvironmentOK(x)
      [] t = "flags" -> FlagOK(x)
      [] t = "versions" -> VersionOK(x)
      [] t = "segments" -> SegmentOK(x)
      [] t = "snapshots" -> SnapshotOK(x)
      [] t = "audit" -> EventOK(b, x)

\* What a write comes to, on the contents and in the backend.
Refusal(a, err) == [err |-> err, a |-> a, val |-> <<>>]
Insertion(a, t, x) ==
    IF \E y \in a[t] : \A c \in Index(t) : y[c] = x[c] THEN Refusal(a, "unique")
    ELSE [err |-> "nil", a |-> [a EXCEPT ![t] = @ \cup {x}], val |-> <<x>>]
Kept(b, w) == [err |-> w.err, db |-> Rows(b, w.a), val |-> w.val]

\* What each creation comes to on the contents.
NewProject(a, slug, name, strategy) ==
    IF strategy \notin Strategies THEN Refusal(a, "check")
    ELSE Insertion(a, "projects", [id |-> <<slug>>, slug |-> slug, display_name |-> name,
                                   config_strategy |-> strategy])
NewEnvironment(a, project, slug, name) ==
    Insertion(a, "environments", [id |-> project \o <<slug>>, project_id |-> project,
                                  slug |-> slug, name |-> name])
NewFlag(a, p) ==
    IF p.value_type \notin ValueTypes THEN Refusal(a, "check")
    ELSE Insertion(a, "flags",
             [id |-> p.project_id \o <<p.key>>, project_id |-> p.project_id, key |-> p.key,
              name |-> p.name, description |-> p.description, value_type |-> p.value_type,
              default_value |-> p.default_value])
NewSegment(a, p) ==
    Insertion(a, "segments",
        [id |-> p.project_id \o <<p.key>>, project_id |-> p.project_id, key |-> p.key,
         name |-> p.name, description |-> p.description, predicate |-> p.predicate])

\* A write that came to w, which the backend keeps.
WriteOK(b, t, w) ==
    ContentsOK(b, w.a) /\ (w.err = "nil" => Single(w.val) /\ OK(b, t, w.val[1]))
Following(S) == IF S = {} THEN 1 ELSE (CHOOSE x \in Latest(S) : TRUE).version + 1

\* A new version of a flag, a new snapshot of a project.
NewVersion(a, p) ==
    LET n == Following(VersionsOf(a, p.flag_id))
    IN  Insertion(a, "versions",
            [id |-> p.flag_id \o <<n>>, flag_id |-> p.flag_id, version |-> n,
             strategy |-> p.strategy, source |-> p.source, compiled |-> p.compiled,
             source_text |-> p.source_text])
NewSnapshot(a, p) ==
    LET n == Following(SnapshotsOf(a, p.project_id))
    IN  Insertion(a, "snapshots",
            [id |-> p.project_id \o <<n>>, project_id |-> p.project_id,
             environment_id |-> p.environment_id, version |-> n, compiled |-> p.compiled])

\* An update of a segment: the row with the key, its new columns, the contents
\* with the one in place of the other.
Changed(s, p) ==
    [id |-> s.id, project_id |-> s.project_id, key |-> s.key, name |-> p.name,
     description |-> p.description, predicate |-> p.predicate]
SegmentsBy(a, project, key) == {s \in a.segments : s.project_id = project /\ s.key = key}
Replaced(a, s, n) == [a EXCEPT !.segments = (@ \ {s}) \cup {n}]
Replacement(a, s, n) == [err |-> "nil", a |-> Replaced(a, s, n), val |-> <<n>>]
ChangedSegment(a, p) ==
    LET old == SegmentsBy(a, p.project_id, p.key)
        s == CHOOSE s \in old : TRUE
    IN  IF old = {} THEN Refusal(a, "no_rows") ELSE Replacement(a, s, Changed(s, p))

\* What a request gives its audit event, and the event that comes of it.
EventInputOK(ev, e) ==
    /\ OneOrNone(ev.project_id) /\ OneOrNone(ev.flag_id)
    /\ ev.payload = <<>> \/ RawObject(ev.payload)
    /\ e.id \in Nat /\ e.start \in Nat \ {0} /\ e.now \in Nat
Instant(b, e) == IF b = "postgres" THEN e.start ELSE 2 * (e.now \div 2)
Payload(ev) == IF ev.payload = <<>> THEN <<EmptyObject>> ELSE ev.payload
AuditEvent(b, ev, e) ==
    [id |-> e.id, project_id |-> ev.project_id, flag_id |-> ev.flag_id, action |-> ev.action,
     actor |-> ev.actor, payload |-> Payload(ev), created_at |-> Instant(b, e)]

\* The write and its event, or neither.
Audited(b, a, ev, w, e) ==
    LET r == Insertion(w.a, "audit", AuditEvent(b, ev, e))
    IN  IF w.err = "nil" /\ r.err = "nil" THEN [err |-> "nil", a |-> r.a, val |-> w.val]
        ELSE Refusal(a, IF w.err # "nil" THEN w.err ELSE r.err)
-----------------------------------------------------------------------------
(* The contract *)

\* A lookup finds the one object there is, or none.
ReadsContents(b, a) ==
    /\ \A slug : storeGetProjectBySlug(b, Rows(b, a), slug)
                  = One({p \in a.projects : p.slug = slug})
    /\ \A project, slug : storeGetEnvironmentBySlug(b, Rows(b, a), project, slug)
          = One({n \in a.environments : n.project_id = project /\ n.slug = slug})
    /\ \A project, key : storeGetFlagByKey(b, Rows(b, a), project, key)
          = One({f \in a.flags : f.project_id = project /\ f.key = key})
    /\ \A project, key : storeGetSegmentByKey(b, Rows(b, a), project, key)
          = One({s \in a.segments : s.project_id = project /\ s.key = key})
    /\ \A project, id : storeGetSnapshotByID(b, Rows(b, a), project, id)
          = One({s \in a.snapshots : s.project_id = project /\ s.id = id})
    /\ \A flag : storeGetLatestFlagVersion(b, Rows(b, a), flag)
                  = One(Latest({v \in a.versions : v.flag_id = flag}))
    /\ \A project : storeGetLatestSnapshot(b, Rows(b, a), project)
                     = One(Latest({s \in a.snapshots : s.project_id = project}))

\* s lists the elements of S, each once, the highest first.
Arranges(s, S, R) ==
    /\ IsFiniteSet(S) /\ Orders(R, S)
    /\ s \in Seq(S) /\ Len(s) = Cardinality(S)
    /\ \A x \in S : \E i \in 1 .. Cardinality(S) : s[i] = x
    /\ \A i, j \in 1 .. Cardinality(S) : i < j => <<s[j], s[i]>> \in R

\* A list has all the objects asked for; versions, snapshots and events come
\* newest first, and no more of them than the limit.
ListsContents(b, a) ==
    /\ storeListProjects(b, Rows(b, a)) = a.projects
    /\ \A project : storeListEnvironmentsByProject(b, Rows(b, a), project)
                     = {n \in a.environments : n.project_id = project}
    /\ \A project : storeListFlagsByProject(b, Rows(b, a), project)
                     = {f \in a.flags : f.project_id = project}
    /\ \A project : storeListSegmentsByProject(b, Rows(b, a), project)
                     = {s \in a.segments : s.project_id = project}
    /\ \A project : storeListLatestFlagVersions(b, Rows(b, a), project)
                     = LatestVersions(a, project)
    /\ \A flag : LET V == VersionsOf(a, flag)
                      s == Sorted(V, VersionOrder(V))
                  IN  /\ Arranges(s, V, VersionOrder(V))
                      /\ storeListFlagVersions(b, Rows(b, a), flag) = s
    /\ \A project : \A limit \in Nat :
                  LET V == SnapshotsOf(a, project)
                      s == Sorted(V, VersionOrder(V))
                  IN  /\ Arranges(s, V, VersionOrder(V))
                      /\ storeListSnapshotsByProject(b, Rows(b, a), project, limit)
                           = Cut(s, limit)
    /\ \A p : QueryOK(p) =>
                  LET V == EventsFor(b, a, p)
                      s == Sorted(V, EventOrder(V))
                  IN  /\ Arranges(s, V, EventOrder(V))
                      /\ storeListAuditEvents(b, Rows(b, a), p) = Cut(s, p.limit)

\* A write to table t that came back with got does what w says.
ComesTo(got, b, t, w) == got = Kept(b, w) /\ WriteOK(b, t, w)

WritesContents(b, a) ==
    /\ \A slug, name, strategy :
          ComesTo(storeCreateProject(b, Rows(b, a), slug, name, strategy),
                  b, "projects", NewProject(a, slug, name, strategy))
    /\ \A project, slug, name :
          ComesTo(storeCreateEnvironment(b, Rows(b, a), project, slug, name),
                  b, "environments", NewEnvironment(a, project, slug, name))
    /\ \A p : Single(p.project_id) /\ Single(p.default_value) =>
          ComesTo(storeCreateFlag(b, Rows(b, a), p), b, "flags", NewFlag(a, p))
    /\ \A p : RawObject(p.predicate) =>
          ComesTo(storeCreateSegment(b, Rows(b, a), p), b, "segments", NewSegment(a, p))
    /\ \A p : RawObject(p.predicate) =>
          ComesTo(storeUpdateSegment(b, Rows(b, a), p), b, "segments", ChangedSegment(a, p))
    /\ \A p : p.strategy \in Strategies /\ RawObject(p.source) /\ RawObject(p.compiled) =>
          /\ ComesTo(storePublishFlagVersion(b, Rows(b, a), p), b, "versions", NewVersion(a, p))
          /\ NewVersion(a, p).err = "nil"
    /\ \A p : Single(p.project_id) /\ OneOrNone(p.environment_id) /\ RawObject(p.compiled) =>
          /\ ComesTo(storeCompileSnapshot(b, Rows(b, a), p), b, "snapshots", NewSnapshot(a, p))
          /\ NewSnapshot(a, p).err = "nil"
    /\ \A t, w, ev, e : WriteOK(b, t, w) /\ EventInputOK(ev, e) =>
          ComesTo(storeWithAudit(b, Rows(b, a), ev, Kept(b, w), e),
                  b, t, Audited(b, a, ev, w, e))

\* A database starts with nothing in it, and its log has a row for each event.
Nothing == [t \in TableNames |-> {}]
StartsEmpty(b) ==
    ContentsOK(b, Nothing) /\ Rows(b, Nothing) = Empty /\ Cardinality(Nothing.audit) = 0
KeepsLog(b, a) ==
    /\ Cardinality(Rows(b, a).audit) = Cardinality(a.audit)
    /\ Cardinality(a.audit) \in Nat

StoreContract ==
    /\ \A b : StartsEmpty(b)
    /\ \A b, a : ContentsOK(b, a) =>
                     /\ ReadsContents(b, a) /\ ListsContents(b, a)
                     /\ WritesContents(b, a) /\ KeepsLog(b, a)
=============================================================================
