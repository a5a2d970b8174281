----------------------------- MODULE StoreProofs -----------------------------
(***************************************************************************)
(* Both stores keep the contract of the store (module Contents).           *)
(*                                                                         *)
(* A lemma for each read and each write of the Store interface, on lemmas  *)
(* about columns, rows, orders and unique indexes.                         *)
(***************************************************************************)
EXTENDS Contents, FiniteSetTheorems, TLAPS

USE ZenonT(30)
-----------------------------------------------------------------------------
(* Finite sets *)

\* f takes different elements of S to different values, and takes S to all of T.
OneToOne(f, S) == \A x, y \in S : f[x] = f[y] => x = y
Onto(f, S, T) == \A t \in T : \E x \in S : f[x] = t

\* Taking an element away makes a set smaller by one.
LEMMA Removals ==
    ASSUME NEW S, IsFiniteSet(S), NEW x \in S
    PROVE  IsFiniteSet(S \ {x}) /\ Cardinality(S \ {x}) = Cardinality(S) - 1
BY FS_RemoveElement

\* There are n ranks.
LEMMA Intervals ==
    ASSUME NEW n \in Nat
    PROVE  IsFiniteSet(0 .. n - 1) /\ Cardinality(0 .. n - 1) = n
BY FS_Interval, SMT

\* Different ranks for as many rows as there are ranks are all the ranks.
LEMMA Injections ==
    ASSUME NEW S, NEW T, NEW f \in [S -> T], IsFiniteSet(T),
           OneToOne(f, S), Cardinality(S) = Cardinality(T)
    PROVE  \A t \in T : \E x \in S : f[x] = t
<1>1. f \in Injection(S, T)
  BY DEF OneToOne, Injection, IsInjective
<1>2. f \in Surjection(S, T)
  BY <1>1, FS_Injection
<1> QED BY <1>2 DEF Surjection

\* The rows of finitely many objects are finitely many, and as many as the
\* objects when different objects have different rows.
LEMMA Images ==
    ASSUME NEW S, NEW T, NEW f \in [S -> T], IsFiniteSet(S), Onto(f, S, T)
    PROVE  IsFiniteSet(T) /\ (OneToOne(f, S) => Cardinality(T) = Cardinality(S))
<1>1. f \in Surjection(S, T)
  BY DEF Onto, Surjection
<1>2. OneToOne(f, S) => f \in Injection(S, T)
  BY DEF OneToOne, Injection, IsInjective
<1> QED BY <1>1, <1>2, FS_Surjection

\* Places that number the elements of a set count them.
LEMMA Places ==
    ASSUME NEW n \in Nat, NEW I, NEW f \in [1 .. n -> I],
           Onto(f, 1 .. n, I), OneToOne(f, 1 .. n)
    PROVE  Cardinality(I) = n
<1>1. IsFiniteSet(1 .. n) /\ Cardinality(1 .. n) = n
  BY FS_Interval, SMT
<1> QED BY <1>1, Images
-----------------------------------------------------------------------------
(* Columns *)

\* A UUID is read back as it was written, and compares as the id does.
LEMMA IdColumn ==
    ASSUME NEW b, NEW u
    PROVE  /\ b = "postgres" => toUUID(Id(b, u)) = u
           /\ b # "postgres" => sqliteParseUUID(Id(b, u)) = u
           /\ Id(b, u).value = u
           /\ Id(b, u) # NULL
           /\ \A w : Id(b, u) = Id(b, w) <=> u = w
BY SMT DEF Id, toUUID, fromUUID, Cell, NULL, sqliteParseUUID, sqliteUUIDString

\* A nullable UUID is read back as it was written; only no id is NULL.
LEMMA OptionalIdColumn ==
    ASSUME NEW b, NEW u, OneOrNone(u)
    PROVE  /\ b = "postgres" => toNullUUID(OptionalId(b, u)) = u
           /\ b # "postgres" => sqliteParseNullUUID(OptionalId(b, u)) = u
           /\ OptionalId(b, u) = NULL <=> u = <<>>
           /\ \A w : OptionalId(b, u) = Id(b, w) <=> u = <<w>>
<1>1. CASE u = <<>>
  BY <1>1, SMT DEF OptionalId, Id, toNullUUID, fromNullUUID, fromUUID, Cell, NULL,
     sqliteParseNullUUID, sqliteFromNullUUID, sqliteUUIDString
<1>2. CASE Single(u)
  BY <1>2, SMT DEF Single, OptionalId, Id, toNullUUID, fromNullUUID, fromUUID, Cell,
     NULL, sqliteParseNullUUID, sqliteFromNullUUID, sqliteUUIDString
<1> QED BY <1>1, <1>2 DEF OneOrNone

\* A nullable text is read back as it was written; only "" is NULL.
LEMMA TextColumn ==
    ASSUME NEW b, NEW s
    PROVE  /\ b = "postgres" => textToString(Text(b, s)) = s
           /\ b # "postgres" => sqliteStringToString(Text(b, s)) = s
           /\ Text(b, s) = NULL <=> s = ""
           /\ s # "" => Text(b, s).value = s
<1>1. CASE s = ""
  <2>1. Text(b, s) = NULL
    BY <1>1 DEF Text, textFromString, sqliteStringFromString, NULL
  <2> QED BY <1>1, <2>1 DEF textToString, sqliteStringToString, NULL
<1>2. CASE s # ""
  <2>1. Text(b, s) = Cell("text", s)
    BY <1>2 DEF Text, textFromString, sqliteStringFromString, Cell
  <2>2. Cell("text", s).value = s /\ Cell("text", s) # NULL
    BY SMT DEF Cell, NULL
  <2> QED BY <1>2, <2>1, <2>2 DEF textToString, sqliteStringToString, NULL
<1> QED BY <1>1, <1>2

\* A JSON document is read back as it was written.
LEMMA JsonColumn ==
    ASSUME NEW b, NEW raw, Single(raw)
    PROVE  /\ b = "postgres" => Json(b, raw) = raw
           /\ b # "postgres" => sqliteRawMessageFrom(Json(b, raw)) = raw
BY SMT DEF Json, Single, sqliteRawMessage, sqliteRawMessageFrom, Cell

\* A time is read back as it was written, to the precision of the backend.
LEMMA TimeColumn ==
    ASSUME NEW b, NEW t \in Nat, b = "postgres" => t # 0, b # "postgres" => t % 2 = 0
    PROVE  /\ b = "postgres" => Time(b, t).value = t
           /\ b # "postgres" => Time(b, t).value = t \div 2
           /\ b # "postgres" => sqliteParseTime(Time(b, t)) = t
BY SMT DEF Time, timestampFromTime, Cell, NULL, sqliteParseTime, sqliteFormatTime,
   TicksPerMilli

\* projectFromRow and its SQLite twin convert a row back to the object it keeps.
LEMMA ProjectBack ==
    ASSUME NEW b, NEW p, ProjectOK(p)
    PROVE  /\ b = "postgres" => projectFromRow(ProjectRow(b, p)) = p
           /\ b # "postgres" => sqliteProjectFromRow(ProjectRow(b, p)) = p
<1>1. ASSUME NEW g, Columns(g, ProjectColumns),
             /\ g.id = p.id /\ g.slug = p.slug /\ g.display_name = p.display_name
             /\ g.config_strategy = p.config_strategy
      PROVE  g = p
  BY <1>1, SMT DEF Columns, ProjectColumns, ProjectOK
<1>2. CASE b = "postgres"
  <2> DEFINE g == projectFromRow(ProjectRow(b, p))
  <2>1. Columns(g, ProjectColumns)
    BY DEF ProjectRow, projectFromRow, Columns, ProjectColumns
  <2>2. /\ g.id = toUUID(Id(b, p.id)) /\ g.slug = p.slug
        /\ g.display_name = p.display_name /\ g.config_strategy = p.config_strategy
    BY SMT DEF ProjectRow, projectFromRow
  <2>3. toUUID(Id(b, p.id)) = p.id
    BY <1>2, IdColumn, SMT DEF ProjectOK
  <2> HIDE DEF g
  <2> QED BY <1>1, <1>2, <2>1, <2>2, <2>3 DEF g
<1>3. CASE b # "postgres"
  <2> DEFINE g == sqliteProjectFromRow(ProjectRow(b, p))
  <2>1. Columns(g, ProjectColumns)
    BY DEF ProjectRow, sqliteProjectFromRow, Columns, ProjectColumns
  <2>2. /\ g.id = sqliteParseUUID(Id(b, p.id)) /\ g.slug = p.slug
        /\ g.display_name = p.display_name /\ g.config_strategy = p.config_strategy
    BY SMT DEF ProjectRow, sqliteProjectFromRow
  <2>3. sqliteParseUUID(Id(b, p.id)) = p.id
    BY <1>3, IdColumn, SMT DEF ProjectOK
  <2> HIDE DEF g
  <2> QED BY <1>1, <1>3, <2>1, <2>2, <2>3 DEF g
<1> QED BY <1>2, <1>3

\* environmentFromRow and its SQLite twin convert a row back to the object it keeps.
LEMMA EnvironmentBack ==
    ASSUME NEW b, NEW n, EnvironmentOK(n)
    PROVE  /\ b = "postgres" => environmentFromRow(EnvironmentRow(b, n)) = n
           /\ b # "postgres" => sqliteEnvironmentFromRow(EnvironmentRow(b, n)) = n
<1>1. ASSUME NEW g, Columns(g, EnvironmentColumns),
             /\ g.id = n.id /\ g.project_id = n.project_id /\ g.slug = n.slug
             /\ g.name = n.name
      PROVE  g = n
  BY <1>1, SMT DEF Columns, EnvironmentColumns, EnvironmentOK
<1>2. CASE b = "postgres"
  <2> DEFINE g == environmentFromRow(EnvironmentRow(b, n))
  <2>1. Columns(g, EnvironmentColumns)
    BY DEF EnvironmentRow, environmentFromRow, Columns, EnvironmentColumns
  <2>2. /\ g.id = toUUID(Id(b, n.id))
        /\ g.project_id = toUUID(Id(b, n.project_id)) /\ g.slug = n.slug
        /\ g.name = n.name
    BY SMT DEF EnvironmentRow, environmentFromRow
  <2>3. /\ toUUID(Id(b, n.id)) = n.id
        /\ toUUID(Id(b, n.project_id)) = n.project_id
    BY <1>2, IdColumn, SMT DEF EnvironmentOK
  <2> HIDE DEF g
  <2> QED BY <1>1, <1>2, <2>1, <2>2, <2>3 DEF g
<1>3. CASE b # "postgres"
  <2> DEFINE g == sqliteEnvironmentFromRow(EnvironmentRow(b, n))
  <2>1. Columns(g, EnvironmentColumns)
    BY DEF EnvironmentRow, sqliteEnvironmentFromRow, Columns, EnvironmentColumns
  <2>2. /\ g.id = sqliteParseUUID(Id(b, n.id))
        /\ g.project_id = sqliteParseUUID(Id(b, n.project_id))
        /\ g.slug = n.slug /\ g.name = n.name
    BY SMT DEF EnvironmentRow, sqliteEnvironmentFromRow
  <2>3. /\ sqliteParseUUID(Id(b, n.id)) = n.id
        /\ sqliteParseUUID(Id(b, n.project_id)) = n.project_id
    BY <1>3, IdColumn, SMT DEF EnvironmentOK
  <2> HIDE DEF g
  <2> QED BY <1>1, <1>3, <2>1, <2>2, <2>3 DEF g
<1> QED BY <1>2, <1>3

\* flagFromRow and its SQLite twin convert a row back to the object it keeps.
LEMMA FlagBack ==
    ASSUME NEW b, NEW f, FlagOK(f)
    PROVE  /\ b = "postgres" => flagFromRow(FlagRow(b, f)) = f
           /\ b # "postgres" => sqliteFlagFromRow(FlagRow(b, f)) = f
<1>1. ASSUME NEW g, Columns(g, FlagColumns),
             /\ g.id = f.id /\ g.project_id = f.project_id /\ g.key = f.key
             /\ g.name = f.name /\ g.description = f.description
             /\ g.value_type = f.value_type /\ g.default_value = f.default_value
      PROVE  g = f
  BY <1>1, SMT DEF Columns, FlagColumns, FlagOK
<1>2. CASE b = "postgres"
  <2> DEFINE g == flagFromRow(FlagRow(b, f))
  <2>1. Columns(g, FlagColumns)
    BY DEF FlagRow, flagFromRow, Columns, FlagColumns
  <2>2. /\ g.id = toUUID(Id(b, f.id))
        /\ g.project_id = toUUID(Id(b, f.project_id)) /\ g.key = f.key
        /\ g.name = f.name /\ g.description = f.description
        /\ g.value_type = f.value_type /\ g.default_value = Json(b, f.default_value)
    BY SMT DEF FlagRow, flagFromRow
  <2>3. /\ toUUID(Id(b, f.id)) = f.id
        /\ toUUID(Id(b, f.project_id)) = f.project_id
        /\ Json(b, f.default_value) = f.default_value
    BY <1>2, IdColumn, JsonColumn, SMT DEF FlagOK
  <2> HIDE DEF g
  <2> QED BY <1>1, <1>2, <2>1, <2>2, <2>3 DEF g
<1>3. CASE b # "postgres"
  <2> DEFINE g == sqliteFlagFromRow(FlagRow(b, f))
  <2>1. Columns(g, FlagColumns)
    BY DEF FlagRow, sqliteFlagFromRow, Columns, FlagColumns
  <2>2. /\ g.id = sqliteParseUUID(Id(b, f.id))
        /\ g.project_id = sqliteParseUUID(Id(b, f.project_id))
        /\ g.key = f.key /\ g.name = f.name /\ g.description = f.description
        /\ g.value_type = f.value_type
        /\ g.default_value = sqliteRawMessageFrom(Json(b, f.default_value))
    BY SMT DEF FlagRow, sqliteFlagFromRow
  <2>3. /\ sqliteParseUUID(Id(b, f.id)) = f.id
        /\ sqliteParseUUID(Id(b, f.project_id)) = f.project_id
        /\ sqliteRawMessageFrom(Json(b, f.default_value)) = f.default_value
    BY <1>3, IdColumn, JsonColumn, SMT DEF FlagOK
  <2> HIDE DEF g
  <2> QED BY <1>1, <1>3, <2>1, <2>2, <2>3 DEF g
<1> QED BY <1>2, <1>3

\* flagVersionFromRow and its SQLite twin convert a row back to the object it keeps.
LEMMA VersionBack ==
    ASSUME NEW b, NEW v, VersionOK(v)
    PROVE  /\ b = "postgres" => flagVersionFromRow(VersionRow(b, v)) = v
           /\ b # "postgres" => sqliteFlagVersionFromRow(VersionRow(b, v)) = v
<1>1. ASSUME NEW g, Columns(g, VersionColumns),
             /\ g.id = v.id /\ g.flag_id = v.flag_id /\ g.version = v.version
             /\ g.strategy = v.strategy /\ g.source = v.source
             /\ g.compiled = v.compiled /\ g.source_text = v.source_text
      PROVE  g = v
  BY <1>1, SMT DEF Columns, VersionColumns, VersionOK
<1>2. CASE b = "postgres"
  <2> DEFINE g == flagVersionFromRow(VersionRow(b, v))
  <2>1. Columns(g, VersionColumns)
    BY DEF VersionRow, flagVersionFromRow, Columns, VersionColumns
  <2>2. /\ g.id = toUUID(Id(b, v.id)) /\ g.flag_id = toUUID(Id(b, v.flag_id))
        /\ g.version = v.version /\ g.strategy = v.strategy
        /\ g.source = Json(b, v.source) /\ g.compiled = Json(b, v.compiled)
        /\ g.source_text = textToString(Text(b, v.source_text))
    BY SMT DEF VersionRow, flagVersionFromRow
  <2>3. /\ toUUID(Id(b, v.id)) = v.id /\ toUUID(Id(b, v.flag_id)) = v.flag_id
        /\ Json(b, v.source) = v.source /\ Json(b, v.compiled) = v.compiled
    BY <1>2, IdColumn, JsonColumn, SMT DEF VersionOK, RawObject
  <2>4. textToString(Text(b, v.source_text)) = v.source_text
    BY <1>2, TextColumn
  <2> HIDE DEF g
  <2> QED BY <1>1, <1>2, <2>1, <2>2, <2>3, <2>4 DEF g
<1>3. CASE b # "postgres"
  <2> DEFINE g == sqliteFlagVersionFromRow(VersionRow(b, v))
  <2>1. Columns(g, VersionColumns)
    BY DEF VersionRow, sqliteFlagVersionFromRow, Columns, VersionColumns
  <2>2. /\ g.id = sqliteParseUUID(Id(b, v.id))
        /\ g.flag_id = sqliteParseUUID(Id(b, v.flag_id))
        /\ g.version = v.version /\ g.strategy = v.strategy
        /\ g.source = sqliteRawMessageFrom(Json(b, v.source))
        /\ g.compiled = sqliteRawMessageFrom(Json(b, v.compiled))
        /\ g.source_text = sqliteStringToString(Text(b, v.source_text))
    BY SMT DEF VersionRow, sqliteFlagVersionFromRow
  <2>3. /\ sqliteParseUUID(Id(b, v.id)) = v.id
        /\ sqliteParseUUID(Id(b, v.flag_id)) = v.flag_id
        /\ sqliteRawMessageFrom(Json(b, v.source)) = v.source
        /\ sqliteRawMessageFrom(Json(b, v.compiled)) = v.compiled
    BY <1>3, IdColumn, JsonColumn, SMT DEF VersionOK, RawObject
  <2>4. sqliteStringToString(Text(b, v.source_text)) = v.source_text
    BY <1>3, TextColumn
  <2> HIDE DEF g
  <2> QED BY <1>1, <1>3, <2>1, <2>2, <2>3, <2>4 DEF g
<1> QED BY <1>2, <1>3

\* segmentFromRow and its SQLite twin convert a row back to the object it keeps.
LEMMA SegmentBack ==
    ASSUME NEW b, NEW s, SegmentOK(s)
    PROVE  /\ b = "postgres" => segmentFromRow(SegmentRow(b, s)) = s
           /\ b # "postgres" => sqliteSegmentFromRow(SegmentRow(b, s)) = s
<1>1. ASSUME NEW g, Columns(g, SegmentColumns),
             /\ g.id = s.id /\ g.project_id = s.project_id /\ g.key = s.key
             /\ g.name = s.name /\ g.description = s.description
             /\ g.predicate = s.predicate
      PROVE  g = s
  BY <1>1, SMT DEF Columns, SegmentColumns, SegmentOK
<1>2. CASE b = "postgres"
  <2> DEFINE g == segmentFromRow(SegmentRow(b, s))
  <2>1. Columns(g, SegmentColumns)
    BY DEF SegmentRow, segmentFromRow, Columns, SegmentColumns
  <2>2. /\ g.id = toUUID(Id(b, s.id))
        /\ g.project_id = toUUID(Id(b, s.project_id)) /\ g.key = s.key
        /\ g.name = s.name /\ g.description = s.description
        /\ g.predicate = Json(b, s.predicate)
    BY SMT DEF SegmentRow, segmentFromRow
  <2>3. /\ toUUID(Id(b, s.id)) = s.id
        /\ toUUID(Id(b, s.project_id)) = s.project_id
        /\ Json(b, s.predicate) = s.predicate
    BY <1>2, IdColumn, JsonColumn, SMT DEF SegmentOK, RawObject
  <2> HIDE DEF g
  <2> QED BY <1>1, <1>2, <2>1, <2>2, <2>3 DEF g
<1>3. CASE b # "postgres"
  <2> DEFINE g == sqliteSegmentFromRow(SegmentRow(b, s))
  <2>1. Columns(g, SegmentColumns)
    BY DEF SegmentRow, sqliteSegmentFromRow, Columns, SegmentColumns
  <2>2. /\ g.id = sqliteParseUUID(Id(b, s.id))
        /\ g.project_id = sqliteParseUUID(Id(b, s.project_id))
        /\ g.key = s.key /\ g.name = s.name /\ g.description = s.description
        /\ g.predicate = sqliteRawMessageFrom(Json(b, s.predicate))
    BY SMT DEF SegmentRow, sqliteSegmentFromRow
  <2>3. /\ sqliteParseUUID(Id(b, s.id)) = s.id
        /\ sqliteParseUUID(Id(b, s.project_id)) = s.project_id
        /\ sqliteRawMessageFrom(Json(b, s.predicate)) = s.predicate
    BY <1>3, IdColumn, JsonColumn, SMT DEF SegmentOK, RawObject
  <2> HIDE DEF g
  <2> QED BY <1>1, <1>3, <2>1, <2>2, <2>3 DEF g
<1> QED BY <1>2, <1>3

\* snapshotFromRow and its SQLite twin convert a row back to the object it keeps.
LEMMA SnapshotBack ==
    ASSUME NEW b, NEW s, SnapshotOK(s)
    PROVE  /\ b = "postgres" => snapshotFromRow(SnapshotRow(b, s)) = s
           /\ b # "postgres" => sqliteSnapshotFromRow(SnapshotRow(b, s)) = s
<1>1. ASSUME NEW g, Columns(g, SnapshotColumns),
             /\ g.id = s.id /\ g.project_id = s.project_id
             /\ g.environment_id = s.environment_id /\ g.version = s.version
             /\ g.compiled = s.compiled
      PROVE  g = s
  BY <1>1, SMT DEF Columns, SnapshotColumns, SnapshotOK
<1>2. CASE b = "postgres"
  <2> DEFINE g == snapshotFromRow(SnapshotRow(b, s))
  <2>1. Columns(g, SnapshotColumns)
    BY DEF SnapshotRow, snapshotFromRow, Columns, SnapshotColumns
  <2>2. /\ g.id = toUUID(Id(b, s.id))
        /\ g.project_id = toUUID(Id(b, s.project_id))
        /\ g.environment_id = toNullUUID(OptionalId(b, s.environment_id))
        /\ g.version = s.version /\ g.compiled = Json(b, s.compiled)
    BY SMTT(30) DEF SnapshotRow, snapshotFromRow
  <2>3. /\ toUUID(Id(b, s.id)) = s.id
        /\ toUUID(Id(b, s.project_id)) = s.project_id
        /\ toNullUUID(OptionalId(b, s.environment_id)) = s.environment_id
        /\ Json(b, s.compiled) = s.compiled
    BY <1>2, IdColumn, OptionalIdColumn, JsonColumn, SMT DEF SnapshotOK, RawObject
  <2> HIDE DEF g
  <2> QED BY <1>1, <1>2, <2>1, <2>2, <2>3 DEF g
<1>3. CASE b # "postgres"
  <2> DEFINE g == sqliteSnapshotFromRow(SnapshotRow(b, s))
  <2>1. Columns(g, SnapshotColumns)
    BY DEF SnapshotRow, sqliteSnapshotFromRow, Columns, SnapshotColumns
  <2>2. /\ g.id = sqliteParseUUID(Id(b, s.id))
        /\ g.project_id = sqliteParseUUID(Id(b, s.project_id))
        /\ g.environment_id = sqliteParseNullUUID(OptionalId(b, s.environment_id))
        /\ g.version = s.version
        /\ g.compiled = sqliteRawMessageFrom(Json(b, s.compiled))
    BY SMTT(30) DEF SnapshotRow, sqliteSnapshotFromRow
  <2>3. /\ sqliteParseUUID(Id(b, s.id)) = s.id
        /\ sqliteParseUUID(Id(b, s.project_id)) = s.project_id
        /\ sqliteParseNullUUID(OptionalId(b, s.environment_id)) = s.environment_id
        /\ sqliteRawMessageFrom(Json(b, s.compiled)) = s.compiled
    BY <1>3, IdColumn, OptionalIdColumn, JsonColumn, SMT DEF SnapshotOK, RawObject
  <2> HIDE DEF g
  <2> QED BY <1>1, <1>3, <2>1, <2>2, <2>3 DEF g
<1> QED BY <1>2, <1>3

\* auditFromRow and its SQLite twin convert a row back to the object it keeps.
LEMMA EventBack ==
    ASSUME NEW b, NEW v, EventOK(b, v)
    PROVE  /\ b = "postgres" => auditFromRow(EventRow(b, v)) = v
           /\ b # "postgres" => sqliteAuditFromRow(EventRow(b, v)) = v
<1>1. ASSUME NEW g, Columns(g, EventColumns),
             /\ g.id = v.id /\ g.project_id = v.project_id /\ g.flag_id = v.flag_id
             /\ g.action = v.action /\ g.actor = v.actor /\ g.payload = v.payload
             /\ g.created_at = v.created_at
      PROVE  g = v
  BY <1>1, SMT DEF Columns, EventColumns, EventOK
<1>2. CASE b = "postgres"
  <2> DEFINE g == auditFromRow(EventRow(b, v))
  <2>1. Columns(g, EventColumns)
    BY DEF EventRow, auditFromRow, Columns, EventColumns
  <2>2. /\ g.id = toUUID(Id(b, v.id))
        /\ g.project_id = toNullUUID(OptionalId(b, v.project_id))
        /\ g.flag_id = toNullUUID(OptionalId(b, v.flag_id))
        /\ g.action = v.action /\ g.actor = textToString(Text(b, v.actor))
        /\ g.payload = Json(b, v.payload)
        /\ g.created_at = Time(b, v.created_at).value
    BY SMT DEF EventRow, auditFromRow
  <2>3. /\ toUUID(Id(b, v.id)) = v.id
        /\ toNullUUID(OptionalId(b, v.project_id)) = v.project_id
        /\ toNullUUID(OptionalId(b, v.flag_id)) = v.flag_id
        /\ Json(b, v.payload) = v.payload
        /\ Time(b, v.created_at).value = v.created_at
    BY <1>2, IdColumn, OptionalIdColumn, JsonColumn, TimeColumn, SMT DEF EventOK, RawObject
  <2>4. textToString(Text(b, v.actor)) = v.actor
    BY <1>2, TextColumn
  <2> HIDE DEF g
  <2> QED BY <1>1, <1>2, <2>1, <2>2, <2>3, <2>4 DEF g
<1>3. CASE b # "postgres"
  <2> DEFINE g == sqliteAuditFromRow(EventRow(b, v))
  <2>1. Columns(g, EventColumns)
    BY DEF EventRow, sqliteAuditFromRow, Columns, EventColumns
  <2>2. /\ g.id = sqliteParseUUID(Id(b, v.id))
        /\ g.project_id = sqliteParseNullUUID(OptionalId(b, v.project_id))
        /\ g.flag_id = sqliteParseNullUUID(OptionalId(b, v.flag_id))
        /\ g.action = v.action
        /\ g.actor = sqliteStringToString(Text(b, v.actor))
        /\ g.payload = sqliteRawMessageFrom(Json(b, v.payload))
        /\ g.created_at = sqliteParseTime(Time(b, v.created_at))
    BY SMT DEF EventRow, sqliteAuditFromRow
  <2>3. /\ sqliteParseUUID(Id(b, v.id)) = v.id
        /\ sqliteParseNullUUID(OptionalId(b, v.project_id)) = v.project_id
        /\ sqliteParseNullUUID(OptionalId(b, v.flag_id)) = v.flag_id
        /\ sqliteRawMessageFrom(Json(b, v.payload)) = v.payload
        /\ sqliteParseTime(Time(b, v.created_at)) = v.created_at
    BY <1>3, IdColumn, OptionalIdColumn, JsonColumn, TimeColumn, SMT DEF EventOK, RawObject
  <2>4. sqliteStringToString(Text(b, v.actor)) = v.actor
    BY <1>3, TextColumn
  <2> HIDE DEF g
  <2> QED BY <1>1, <1>3, <2>1, <2>2, <2>3, <2>4 DEF g
<1> QED BY <1>2, <1>3
-----------------------------------------------------------------------------
(* Sorting *)

\* In a finite total order, every rank is taken and by one element only.
LEMMA Ranks ==
    ASSUME NEW S, IsFiniteSet(S), NEW R, Orders(R, S)
    PROVE  /\ Cardinality(S) \in Nat
           /\ \A x \in S : Above(S, R)[x] \in 0 .. Cardinality(S) - 1
           /\ \A x, y \in S : <<x, y>> \in R => Above(S, R)[y] < Above(S, R)[x]
           /\ \A x, y \in S : Above(S, R)[x] = Above(S, R)[y] => x = y
           /\ \A i \in 1 .. Cardinality(S) : \E x \in S : Above(S, R)[x] = i - 1
<1> DEFINE n == Cardinality(S)
           Up(x) == {y \in S : <<x, y>> \in R}
           f == Above(S, R)
<1>1. n \in Nat
  BY FS_CardinalityType
<1>2. \A x \in S : f[x] = Cardinality(Up(x))
  BY DEF Above
<1>3. \A x \in S : IsFiniteSet(Up(x)) /\ Cardinality(Up(x)) \in Nat
  BY FS_Subset, FS_CardinalityType
<1>4. ASSUME NEW x \in S PROVE f[x] \in 0 .. n - 1
  <2>1. Up(x) \in SUBSET (S \ {x})
    BY DEF Orders
  <2>2. IsFiniteSet(S \ {x}) /\ Cardinality(S \ {x}) = n - 1
    BY Removals
  <2>3. Cardinality(Up(x)) <= Cardinality(S \ {x})
    BY <2>1, <2>2, FS_Subset
  <2> HIDE DEF f, n, Up
  <2> QED BY <1>1, <1>2, <1>3, <2>2, <2>3, SMT
<1>5. ASSUME NEW x \in S, NEW y \in S, <<x, y>> \in R PROVE f[y] < f[x]
  <2>1. Up(y) \in SUBSET (Up(x) \ {y})
    BY <1>5 DEF Orders
  <2>2. IsFiniteSet(Up(x) \ {y}) /\ Cardinality(Up(x) \ {y}) = Cardinality(Up(x)) - 1
    <3>1. y \in Up(x)
      BY <1>5
    <3> HIDE DEF Up
    <3> QED BY <1>3, <3>1, Removals
  <2>3. Cardinality(Up(y)) <= Cardinality(Up(x) \ {y})
    BY <2>1, <2>2, FS_Subset
  <2> HIDE DEF f, n, Up
  <2> QED BY <1>2, <1>3, <2>2, <2>3, SMT
<1>6. ASSUME NEW x \in S, NEW y \in S, f[x] = f[y] PROVE x = y
  <2> HIDE DEF f, n
  <2>1. f[x] \in Nat /\ f[y] \in Nat
    BY <1>1, <1>4, SMT
  <2>2. ~ (f[x] < f[y]) /\ ~ (f[y] < f[x])
    BY <1>6, <2>1, SMT
  <2> QED BY <1>5, <2>2 DEF Orders
<1>7. \A i \in 1 .. n : \E x \in S : f[x] = i - 1
  <2>1. f \in [S -> 0 .. n - 1]
    <3>1. f = [x \in S |-> Cardinality(Up(x))]
      BY DEF Above
    <3> QED BY <1>2, <1>4, <3>1
  <2>2. IsFiniteSet(0 .. n - 1) /\ Cardinality(0 .. n - 1) = n
    BY <1>1, Intervals
  <2>3. \A i \in 0 .. n - 1 : \E x \in S : f[x] = i
    <3> DEFINE T == 0 .. n - 1
    <3>1. f \in [S -> T] /\ IsFiniteSet(T) /\ Cardinality(S) = Cardinality(T)
      BY <2>1, <2>2
    <3> HIDE DEF f, n, T
    <3>2. OneToOne(f, S)
      BY <1>6 DEF OneToOne
    <3>3. \A t \in T : \E x \in S : f[x] = t
      BY <3>1, <3>2, Injections, SMT
    <3> QED BY <3>3 DEF T
  <2> HIDE DEF f, n
  <2>4. ASSUME NEW i \in 1 .. n PROVE i - 1 \in 0 .. n - 1
    BY <1>1, <2>4, SMT
  <2> QED BY <2>3, <2>4
<1> QED BY <1>1, <1>4, <1>5, <1>6, <1>7

\* Sorting a finite set lists each element once, in descending order.
LEMMA Sorts ==
    ASSUME NEW S, IsFiniteSet(S), NEW R, Orders(R, S)
    PROVE  Arranges(Sorted(S, R), S, R)
<1> DEFINE n == Cardinality(S)
           f == Above(S, R)
           s == Sorted(S, R)
<1>1. /\ n \in Nat
      /\ \A x \in S : f[x] \in 0 .. n - 1
      /\ \A x, y \in S : <<x, y>> \in R => f[y] < f[x]
      /\ \A x, y \in S : f[x] = f[y] => x = y
      /\ \A i \in 1 .. n : \E x \in S : f[x] = i - 1
  BY Ranks, SMT
<1>2. \A i \in 1 .. n : s[i] \in S /\ f[s[i]] = i - 1
  BY <1>1 DEF Sorted
<1>3. s \in [1 .. n -> S]
  BY <1>2 DEF Sorted
<1>4. ASSUME NEW x \in S PROVE \E i \in 1 .. n : s[i] = x
  <2>1. f[x] \in 0 .. n - 1
    BY <1>1
  <2> HIDE DEF f, s, n
  <2>2. f[x] + 1 \in 1 .. n /\ (f[x] + 1) - 1 = f[x]
    BY <1>1, <2>1, SMT
  <2>3. f[s[f[x] + 1]] = f[x] /\ s[f[x] + 1] \in S
    BY <1>2, <2>2
  <2>4. s[f[x] + 1] = x
    BY <1>1, <2>3
  <2> QED BY <2>2, <2>4
<1>5. ASSUME NEW i \in 1 .. n, NEW j \in 1 .. n, i < j PROVE <<s[j], s[i]>> \in R
  <2>1. f[s[i]] < f[s[j]] /\ s[i] \in S /\ s[j] \in S
    BY <1>1, <1>2, <1>5, SMT
  <2>2. <<s[i], s[j]>> \in R => f[s[j]] < f[s[i]]
    BY <1>1, <2>1
  <2>3. f[s[i]] \in 0 .. n - 1 /\ f[s[j]] \in 0 .. n - 1
    BY <1>1, <2>1
  <2>4. s[i] = s[j] \/ <<s[i], s[j]>> \in R \/ <<s[j], s[i]>> \in R
    BY <2>1 DEF Orders
  <2> HIDE DEF f, s, n
  <2> QED BY <1>1, <2>1, <2>2, <2>3, <2>4, SMT
<1>6. s \in Seq(S) /\ Len(s) = n
  <2> HIDE DEF s, n
  <2> QED BY <1>1, <1>3, SMT
<1> HIDE DEF s
<1>7. Arranges(s, S, R)
  BY <1>4, <1>5, <1>6 DEF Arranges
<1> QED BY <1>7 DEF s

\* h maps S, ordered by R, to T, ordered by Q, and g maps it back.
Corresponds(S, R, T, Q, h, g) ==
    /\ IsFiniteSet(S) /\ Orders(R, S)
    /\ \A x \in S : h[x] \in T /\ g[h[x]] = x
    /\ \A t \in T : \E x \in S : t = h[x]
    /\ \A x, y \in S : <<h[x], h[y]>> \in Q <=> <<x, y>> \in R

\* The rows of a list, converted by g.
Converted(rows, g) == [i \in DOMAIN rows |-> g[rows[i]]]

IsListOf(rows, T, g, x) ==
    (\A i \in DOMAIN rows : rows[i] \in T) /\ Converted(rows, g) = x

\* Sorting rows is sorting what they keep.
LEMMA SortedImage ==
    ASSUME NEW S, NEW R, NEW T, NEW Q, NEW h, NEW g, Corresponds(S, R, T, Q, h, g)
    PROVE  /\ IsFiniteSet(T) /\ Cardinality(T) = Cardinality(S)
           /\ Sorted(T, Q) = [i \in 1 .. Cardinality(S) |-> h[Sorted(S, R)[i]]]
<1> USE DEF Corresponds
<1>1. T = {h[x] : x \in S} /\ \A x, y \in S : h[x] = h[y] => x = y
  OBVIOUS
<1>2. ASSUME NEW V \in SUBSET S
      PROVE  /\ IsFiniteSet({h[x] : x \in V})
             /\ Cardinality({h[x] : x \in V}) = Cardinality(V)
  <2> DEFINE m == [x \in V |-> h[x]]
             W == {h[x] : x \in V}
  <2>1. m \in [V -> W] /\ OneToOne(m, V) /\ Onto(m, V, W)
    BY <1>1 DEF OneToOne, Onto
  <2>2. IsFiniteSet(V)
    BY FS_Subset
  <2> HIDE DEF m, W
  <2> QED BY <2>1, <2>2, Images DEF W
<1>3. IsFiniteSet(T) /\ Cardinality(T) = Cardinality(S)
  BY <1>1, <1>2
<1>4. ASSUME NEW x \in S PROVE Above(T, Q)[h[x]] = Above(S, R)[x]
  <2>1. {t \in T : <<h[x], t>> \in Q} = {h[y] : y \in {z \in S : <<x, z>> \in R}}
    <3>1. \A y \in S : h[y] \in T /\ (<<h[x], h[y]>> \in Q <=> <<x, y>> \in R)
      OBVIOUS
    <3>2. \A t \in T : \E y \in S : t = h[y]
      OBVIOUS
    <3> HIDE DEF Corresponds
    <3> QED BY <3>1, <3>2
  <2>2. {z \in S : <<x, z>> \in R} \in SUBSET S
    OBVIOUS
  <2> QED BY <1>2, <2>1, <2>2 DEF Above
<1>5. ASSUME NEW i \in 1 .. Cardinality(S)
      PROVE  (CHOOSE t \in T : Above(T, Q)[t] = i - 1)
               = h[CHOOSE x \in S : Above(S, R)[x] = i - 1]
  <2>1. /\ \A x, y \in S : Above(S, R)[x] = Above(S, R)[y] => x = y
        /\ \A j \in 1 .. Cardinality(S) : \E x \in S : Above(S, R)[x] = j - 1
    BY Ranks, SMT
  <2>2. PICK x \in S : Above(S, R)[x] = i - 1
    BY <2>1
  <2>3. (CHOOSE y \in S : Above(S, R)[y] = i - 1) = x
    BY <2>1, <2>2
  <2>4. h[x] \in T /\ Above(T, Q)[h[x]] = i - 1
    BY <1>4, <2>2
  <2>5. ASSUME NEW t \in T, Above(T, Q)[t] = i - 1 PROVE t = h[x]
    <3>1. PICK y \in S : t = h[y]
      BY <1>1
    <3>2. Above(S, R)[y] = Above(S, R)[x]
      BY <1>4, <2>2, <2>5, <3>1
    <3> QED BY <2>1, <3>1, <3>2
  <2>6. (CHOOSE t \in T : Above(T, Q)[t] = i - 1) = h[x]
    BY <2>4, <2>5
  <2> QED BY <2>3, <2>6
<1>6. ASSUME NEW i \in 1 .. Cardinality(S)
      PROVE  (CHOOSE t \in T : Above(T, Q)[t] = i - 1) = h[Sorted(S, R)[i]]
  <2>1. Sorted(S, R)[i] = CHOOSE x \in S : Above(S, R)[x] = i - 1
    BY DEF Sorted
  <2> QED BY <1>5, <2>1
<1>7. Sorted(T, Q) = [i \in 1 .. Cardinality(S) |-> CHOOSE t \in T : Above(T, Q)[t] = i - 1]
  BY <1>3 DEF Sorted
<1>8. Sorted(T, Q) = [i \in 1 .. Cardinality(S) |-> h[Sorted(S, R)[i]]]
  <2> DEFINE f == Sorted(T, Q)
             C == 1 .. Cardinality(S)
  <2>1. f = [i \in C |-> f[i]]
    BY <1>7
  <2>2. \A i \in C : f[i] = CHOOSE t \in T : Above(T, Q)[t] = i - 1
    BY <1>7
  <2>3. \A i \in C : f[i] = h[Sorted(S, R)[i]]
    BY <1>6, <2>2
  <2> HIDE DEF f, C
  <2> QED BY <2>1, <2>3 DEF f, C
<1> QED BY <1>3, <1>8

\* LIMIT keeps the first elements.
LEMMA CutElements ==
    ASSUME NEW S, NEW x \in Seq(S), NEW n \in Nat
    PROVE  /\ DOMAIN Cut(x, n) = 1 .. (IF n < Len(x) THEN n ELSE Len(x))
           /\ DOMAIN Cut(x, n) \subseteq 1 .. Len(x)
           /\ \A i \in DOMAIN Cut(x, n) : Cut(x, n)[i] = x[i]
           /\ Cut(x, n) = [i \in DOMAIN Cut(x, n) |-> x[i]]
BY SMT DEF Cut

\* The rows a query lists, with a LIMIT, convert to the list of what they keep.
LEMMA Listed ==
    ASSUME NEW S, NEW R, NEW T, NEW Q, NEW h, NEW g, Corresponds(S, R, T, Q, h, g),
           NEW n \in Nat
    PROVE  IsListOf(Cut(Sorted(T, Q), n), T, g, Cut(Sorted(S, R), n))
<1> DEFINE x == Sorted(S, R)
           y == Sorted(T, Q)
<1>1. y = [i \in 1 .. Cardinality(S) |-> h[x[i]]]
  BY SortedImage, SMT
<1>2. x \in Seq(S) /\ Len(x) = Cardinality(S) /\ Cardinality(S) \in Nat
  BY Sorts, FS_CardinalityType DEF Corresponds, Arranges
<1> HIDE DEF x, y
<1>3. y \in Seq(T) /\ Len(y) = Len(x) /\ \A i \in 1 .. Len(x) : x[i] \in S /\ y[i] = h[x[i]]
  BY <1>1, <1>2, SMT DEF Corresponds
<1>4. \A i \in 1 .. Len(x) : y[i] \in T /\ g[y[i]] = x[i]
  BY <1>3 DEF Corresponds
<1>5. /\ DOMAIN Cut(y, n) = DOMAIN Cut(x, n) /\ DOMAIN Cut(y, n) \subseteq 1 .. Len(x)
      /\ \A i \in DOMAIN Cut(y, n) : Cut(y, n)[i] = y[i]
      /\ Cut(x, n) = [i \in DOMAIN Cut(x, n) |-> x[i]]
  BY <1>2, <1>3, CutElements, SMT
<1>6. \A i \in DOMAIN Cut(y, n) : Cut(y, n)[i] \in T /\ g[Cut(y, n)[i]] = x[i]
  BY <1>4, <1>5
<1>7. Converted(Cut(y, n), g) = Cut(x, n)
  BY <1>5, <1>6 DEF Converted
<1> QED BY <1>6, <1>7 DEF x, y, IsListOf

\* The same without a LIMIT.
LEMMA ListedAll ==
    ASSUME NEW S, NEW R, NEW T, NEW Q, NEW h, NEW g, Corresponds(S, R, T, Q, h, g)
    PROVE  IsListOf(Sorted(T, Q), T, g, Sorted(S, R))
<1> DEFINE n == Cardinality(S)
<1>1. Sorted(T, Q) = [i \in 1 .. n |-> h[Sorted(S, R)[i]]]
  BY SortedImage, SMT
<1>2. Sorted(S, R) \in Seq(S) /\ Len(Sorted(S, R)) = n /\ n \in Nat
  BY Sorts, FS_CardinalityType DEF Corresponds, Arranges
<1> HIDE DEF n
<1>3. Sorted(T, Q) \in Seq(T) /\ Len(Sorted(T, Q)) = n
  BY <1>1, <1>2, SMT DEF Corresponds
<1>4. Cut(Sorted(T, Q), n) = Sorted(T, Q) /\ Cut(Sorted(S, R), n) = Sorted(S, R)
  BY <1>2, <1>3, SMT DEF Cut
<1>5. IsListOf(Cut(Sorted(T, Q), n), T, g, Cut(Sorted(S, R), n))
  BY <1>2, Listed
<1> QED BY <1>4, <1>5

\* The order of the audit log, of the rows and of the events they stand for.
Earlier(x, y) ==
    \/ x.created_at.value < y.created_at.value
    \/ x.created_at.value = y.created_at.value /\ x.id.value < y.id.value

RowOrder(T) == {p \in T \X T : Earlier(p[1], p[2])}

\* The rows a query with parameters q is about.
Chosen(r, q) ==
    /\ r.project_id = q.project_id
    /\ q.action = NULL \/ r.action = q.action.value
    /\ q.actor = NULL \/ (r.actor # NULL /\ r.actor.value = q.actor.value)
    /\ q.from = NULL \/ r.created_at.value >= q.from.value
    /\ q.to = NULL \/ r.created_at.value < q.to.value
    /\ \/ q.cursor_ts = NULL
       \/ r.created_at.value < q.cursor_ts.value
       \/ r.created_at.value = q.cursor_ts.value /\ r.id.value < q.cursor_id.value

OptionalTime(b, t) ==
    IF b = "postgres" THEN timestampFromTime(t) ELSE sqliteNullableTime(t)

Params(b, p) ==
    [project_id |-> Id(b, p.project_id), limit |-> p.limit, action |-> Text(b, p.action),
     actor |-> Text(b, p.actor), from |-> OptionalTime(b, p.from),
     to |-> OptionalTime(b, p.to), cursor_ts |-> OptionalTime(b, p.cursor_ts),
     cursor_id |-> IF p.cursor_ts = 0 THEN NULL ELSE Id(b, p.cursor_id)]

PairRow(b, f, v) ==
    [flag_key |-> f.key, flag_id |-> Id(b, v.flag_id), version |-> v.version,
     strategy |-> v.strategy, compiled |-> Json(b, v.compiled)]

PairColumns == {"flag_key", "flag_id", "version", "strategy", "compiled"}

AllPairs(b, a, F) ==
    UNION {{PairRow(b, f, v) : v \in VersionsOf(a, f.id)} : f \in F}

IsFirst(rows, r) ==
    Cardinality({q \in rows : q.flag_id = r.flag_id /\ q.version >= r.version}) = 1
-----------------------------------------------------------------------------
(* Reads *)

\* The tables of Rows(b, a).
LEMMA Tables ==
    ASSUME NEW b, NEW a
    PROVE  /\ Rows(b, a).projects = {ProjectRow(b, p) : p \in a.projects}
           /\ Rows(b, a).environments = {EnvironmentRow(b, n) : n \in a.environments}
           /\ Rows(b, a).flags = {FlagRow(b, f) : f \in a.flags}
           /\ Rows(b, a).versions = {VersionRow(b, v) : v \in a.versions}
           /\ Rows(b, a).segments = {SegmentRow(b, s) : s \in a.segments}
           /\ Rows(b, a).snapshots = {SnapshotRow(b, s) : s \in a.snapshots}
           /\ Rows(b, a).audit = {EventRow(b, v) : v \in a.audit}
BY DEF Rows, Row, TableNames

\* A lookup that meets one row.
LEMMA Singleton ==
    ASSUME NEW x
    PROVE  /\ {x} # {}
           /\ (CHOOSE y \in {x} : TRUE) = x
           /\ One({x}) = [err |-> "nil", val |-> <<x>>]
<1>1. {x} # {}
  OBVIOUS
<1>2. (CHOOSE y \in {x} : TRUE) = x
  OBVIOUS
<1> QED BY <1>1, <1>2 DEF One

\* GetProjectBySlug finds the row with the key, and nothing where there is none.
LEMMA ReadsProject ==
    ASSUME NEW b, NEW a, ContentsOK(b, a), NEW slug
    PROVE  storeGetProjectBySlug(b, Rows(b, a), slug)
             = One({p \in a.projects : p.slug = slug})
<1> DEFINE sel == {p \in a.projects : p.slug = slug}
           rows == {r \in Rows(b, a).projects : r.slug = slug}
<1>1. rows = {ProjectRow(b, p) : p \in sel}
  BY Tables, IdColumn, SMT DEF ProjectRow
<1>2. storeGetProjectBySlug(b, Rows(b, a), slug)
        = IF b = "postgres" THEN OneRow(rows, projectFromRow)
          ELSE OneRow(rows, sqliteProjectFromRow)
  BY DEF storeGetProjectBySlug, pgGetProjectBySlug, sqlGetProjectBySlug,
     sqliteGetProjectBySlug
<1> HIDE DEF rows
<1>3. CASE sel = {}
  <2>1. rows = {}
    BY <1>1, <1>3
  <2> QED BY <1>2, <1>3, <2>1 DEF One, OneRow, NotFound
<1>4. ASSUME NEW p \in sel
      PROVE  storeGetProjectBySlug(b, Rows(b, a), slug) = One(sel)
  <2>1. Unique(a.projects, {"slug"})
    BY DEF ContentsOK
  <2>2. sel = {p}
    BY <1>4, <2>1, SMT DEF Unique
  <2>3. rows = {ProjectRow(b, p)}
    BY <1>1, <2>2
  <2>4. ProjectOK(p)
    BY <1>4 DEF ContentsOK
  <2> HIDE DEF sel
  <2>5. CASE b = "postgres"
    <3>1. projectFromRow(ProjectRow(b, p)) = p
      BY <2>4, <2>5, ProjectBack
    <3> QED BY <1>2, <2>2, <2>3, <2>5, <3>1, Singleton DEF OneRow, Found
  <2>6. CASE b # "postgres"
    <3>1. sqliteProjectFromRow(ProjectRow(b, p)) = p
      BY <2>4, <2>6, ProjectBack
    <3> QED BY <1>2, <2>2, <2>3, <2>6, <3>1, Singleton DEF OneRow, Found
  <2> QED BY <2>5, <2>6
<1> QED BY <1>3, <1>4

\* GetEnvironmentBySlug finds the row with the key, and nothing where there is none.
LEMMA ReadsEnvironment ==
    ASSUME NEW b, NEW a, ContentsOK(b, a), NEW project, NEW slug
    PROVE  storeGetEnvironmentBySlug(b, Rows(b, a), project, slug)
             = One({n \in a.environments : n.project_id = project /\ n.slug = slug})
<1> DEFINE sel == {n \in a.environments : n.project_id = project /\ n.slug = slug}
           rows == {r \in Rows(b, a).environments : r.project_id = Id(b, project) /\ r.slug = slug}
<1>1. rows = {EnvironmentRow(b, n) : n \in sel}
  BY Tables, IdColumn, SMT DEF EnvironmentRow
<1>2. storeGetEnvironmentBySlug(b, Rows(b, a), project, slug)
        = IF b = "postgres" THEN OneRow(rows, environmentFromRow)
          ELSE OneRow(rows, sqliteEnvironmentFromRow)
  BY DEF storeGetEnvironmentBySlug, pgGetEnvironmentBySlug, sqlGetEnvironmentBySlug,
     sqliteGetEnvironmentBySlug, Id
<1> HIDE DEF rows
<1>3. CASE sel = {}
  <2>1. rows = {}
    BY <1>1, <1>3
  <2> QED BY <1>2, <1>3, <2>1 DEF One, OneRow, NotFound
<1>4. ASSUME NEW n \in sel
      PROVE  storeGetEnvironmentBySlug(b, Rows(b, a), project, slug) = One(sel)
  <2>1. Unique(a.environments, {"project_id", "slug"})
    BY DEF ContentsOK
  <2>2. sel = {n}
    BY <1>4, <2>1, SMT DEF Unique
  <2>3. rows = {EnvironmentRow(b, n)}
    BY <1>1, <2>2
  <2>4. EnvironmentOK(n)
    BY <1>4 DEF ContentsOK
  <2> HIDE DEF sel
  <2>5. CASE b = "postgres"
    <3>1. environmentFromRow(EnvironmentRow(b, n)) = n
      BY <2>4, <2>5, EnvironmentBack
    <3> QED BY <1>2, <2>2, <2>3, <2>5, <3>1, Singleton DEF OneRow, Found
  <2>6. CASE b # "postgres"
    <3>1. sqliteEnvironmentFromRow(EnvironmentRow(b, n)) = n
      BY <2>4, <2>6, EnvironmentBack
    <3> QED BY <1>2, <2>2, <2>3, <2>6, <3>1, Singleton DEF OneRow, Found
  <2> QED BY <2>5, <2>6
<1> QED BY <1>3, <1>4

\* GetFlagByKey finds the row with the key, and nothing where there is none.
LEMMA ReadsFlag ==
    ASSUME NEW b, NEW a, ContentsOK(b, a), NEW project, NEW key
    PROVE  storeGetFlagByKey(b, Rows(b, a), project, key)
             = One({f \in a.flags : f.project_id = project /\ f.key = key})
<1> DEFINE sel == {f \in a.flags : f.project_id = project /\ f.key = key}
           rows == {r \in Rows(b, a).flags : r.project_id = Id(b, project) /\ r.key = key}
<1>1. rows = {FlagRow(b, f) : f \in sel}
  BY Tables, IdColumn, SMT DEF FlagRow
<1>2. storeGetFlagByKey(b, Rows(b, a), project, key)
        = IF b = "postgres" THEN OneRow(rows, flagFromRow)
          ELSE OneRow(rows, sqliteFlagFromRow)
  BY DEF storeGetFlagByKey, pgGetFlagByKey, sqlGetFlagByKey, sqliteGetFlagByKey, Id
<1> HIDE DEF rows
<1>3. CASE sel = {}
  <2>1. rows = {}
    BY <1>1, <1>3
  <2> QED BY <1>2, <1>3, <2>1 DEF One, OneRow, NotFound
<1>4. ASSUME NEW f \in sel
      PROVE  storeGetFlagByKey(b, Rows(b, a), project, key) = One(sel)
  <2>1. Unique(a.flags, {"project_id", "key"})
    BY DEF ContentsOK
  <2>2. sel = {f}
    BY <1>4, <2>1, SMT DEF Unique
  <2>3. rows = {FlagRow(b, f)}
    BY <1>1, <2>2
  <2>4. FlagOK(f)
    BY <1>4 DEF ContentsOK
  <2> HIDE DEF sel
  <2>5. CASE b = "postgres"
    <3>1. flagFromRow(FlagRow(b, f)) = f
      BY <2>4, <2>5, FlagBack
    <3> QED BY <1>2, <2>2, <2>3, <2>5, <3>1, Singleton DEF OneRow, Found
  <2>6. CASE b # "postgres"
    <3>1. sqliteFlagFromRow(FlagRow(b, f)) = f
      BY <2>4, <2>6, FlagBack
    <3> QED BY <1>2, <2>2, <2>3, <2>6, <3>1, Singleton DEF OneRow, Found
  <2> QED BY <2>5, <2>6
<1> QED BY <1>3, <1>4

\* GetSegmentByKey finds the row with the key, and nothing where there is none.
LEMMA ReadsSegment ==
    ASSUME NEW b, NEW a, ContentsOK(b, a), NEW project, NEW key
    PROVE  storeGetSegmentByKey(b, Rows(b, a), project, key)
             = One({s \in a.segments : s.project_id = project /\ s.key = key})
<1> DEFINE sel == {s \in a.segments : s.project_id = project /\ s.key = key}
           rows == {r \in Rows(b, a).segments : r.project_id = Id(b, project) /\ r.key = key}
<1>1. rows = {SegmentRow(b, s) : s \in sel}
  BY Tables, IdColumn, SMT DEF SegmentRow
<1>2. storeGetSegmentByKey(b, Rows(b, a), project, key)
        = IF b = "postgres" THEN OneRow(rows, segmentFromRow)
          ELSE OneRow(rows, sqliteSegmentFromRow)
  BY DEF storeGetSegmentByKey, pgGetSegmentByKey, sqlGetSegmentByKey,
     sqliteGetSegmentByKey, Id
<1> HIDE DEF rows
<1>3. CASE sel = {}
  <2>1. rows = {}
    BY <1>1, <1>3
  <2> QED BY <1>2, <1>3, <2>1 DEF One, OneRow, NotFound
<1>4. ASSUME NEW s \in sel
      PROVE  storeGetSegmentByKey(b, Rows(b, a), project, key) = One(sel)
  <2>1. Unique(a.segments, {"project_id", "key"})
    BY DEF ContentsOK
  <2>2. sel = {s}
    BY <1>4, <2>1, SMT DEF Unique
  <2>3. rows = {SegmentRow(b, s)}
    BY <1>1, <2>2
  <2>4. SegmentOK(s)
    BY <1>4 DEF ContentsOK
  <2> HIDE DEF sel
  <2>5. CASE b = "postgres"
    <3>1. segmentFromRow(SegmentRow(b, s)) = s
      BY <2>4, <2>5, SegmentBack
    <3> QED BY <1>2, <2>2, <2>3, <2>5, <3>1, Singleton DEF OneRow, Found
  <2>6. CASE b # "postgres"
    <3>1. sqliteSegmentFromRow(SegmentRow(b, s)) = s
      BY <2>4, <2>6, SegmentBack
    <3> QED BY <1>2, <2>2, <2>3, <2>6, <3>1, Singleton DEF OneRow, Found
  <2> QED BY <2>5, <2>6
<1> QED BY <1>3, <1>4

\* GetSnapshotByID finds the row with the key, and nothing where there is none.
LEMMA ReadsSnapshot ==
    ASSUME NEW b, NEW a, ContentsOK(b, a), NEW project, NEW id
    PROVE  storeGetSnapshotByID(b, Rows(b, a), project, id)
             = One({s \in a.snapshots : s.project_id = project /\ s.id = id})
<1> DEFINE sel == {s \in a.snapshots : s.project_id = project /\ s.id = id}
           rows == {r \in Rows(b, a).snapshots : r.project_id = Id(b, project) /\ r.id = Id(b, id)}
<1>1. rows = {SnapshotRow(b, s) : s \in sel}
  BY Tables, IdColumn, SMT DEF SnapshotRow
<1>2. storeGetSnapshotByID(b, Rows(b, a), project, id)
        = IF b = "postgres" THEN OneRow(rows, snapshotFromRow)
          ELSE OneRow(rows, sqliteSnapshotFromRow)
  BY DEF storeGetSnapshotByID, pgGetSnapshotByID, sqlGetSnapshotByID,
     sqliteGetSnapshotByID, Id
<1> HIDE DEF rows
<1>3. CASE sel = {}
  <2>1. rows = {}
    BY <1>1, <1>3
  <2> QED BY <1>2, <1>3, <2>1 DEF One, OneRow, NotFound
<1>4. ASSUME NEW s \in sel
      PROVE  storeGetSnapshotByID(b, Rows(b, a), project, id) = One(sel)
  <2>1. Unique(a.snapshots, {"project_id", "version"}) /\ \A t \in sel : SnapshotOK(t)
    BY DEF ContentsOK
  <2>2. sel = {s}
    <3>1. ASSUME NEW t \in sel PROVE t.version = s.version
      BY <1>4, <2>1, <3>1, SMT DEF SnapshotOK
    <3> QED BY <1>4, <2>1, <3>1, SMT DEF Unique
  <2>3. rows = {SnapshotRow(b, s)}
    BY <1>1, <2>2
  <2>4. SnapshotOK(s)
    BY <1>4 DEF ContentsOK
  <2> HIDE DEF sel
  <2>5. CASE b = "postgres"
    <3>1. snapshotFromRow(SnapshotRow(b, s)) = s
      BY <2>4, <2>5, SnapshotBack
    <3> QED BY <1>2, <2>2, <2>3, <2>5, <3>1, Singleton DEF OneRow, Found
  <2>6. CASE b # "postgres"
    <3>1. sqliteSnapshotFromRow(SnapshotRow(b, s)) = s
      BY <2>4, <2>6, SnapshotBack
    <3> QED BY <1>2, <2>2, <2>3, <2>6, <3>1, Singleton DEF OneRow, Found
  <2> QED BY <2>5, <2>6
<1> QED BY <1>3, <1>4

\* GetLatestFlagVersion finds the version with the highest number.
LEMMA ReadsLatestVersion ==
    ASSUME NEW b, NEW a, ContentsOK(b, a), NEW flag
    PROVE  storeGetLatestFlagVersion(b, Rows(b, a), flag)
             = One(Latest({v \in a.versions : v.flag_id = flag}))
<1> DEFINE sel == Latest({v \in a.versions : v.flag_id = flag})
           rows == Latest({r \in Rows(b, a).versions : r.flag_id = Id(b, flag)})
<1>1. rows = {VersionRow(b, v) : v \in sel}
  <2> DEFINE S == {v \in a.versions : v.flag_id = flag}
  <2>1. {r \in Rows(b, a).versions : r.flag_id = Id(b, flag)} = {VersionRow(b, v) : v \in S}
    BY Tables, IdColumn, SMT DEF VersionRow
  <2>2. \A v : VersionRow(b, v).version = v.version
    BY SMT DEF VersionRow
  <2> QED BY <2>1, <2>2, SMT DEF Latest
<1>2. storeGetLatestFlagVersion(b, Rows(b, a), flag)
        = IF b = "postgres" THEN OneRow(rows, flagVersionFromRow)
          ELSE OneRow(rows, sqliteFlagVersionFromRow)
  BY DEF storeGetLatestFlagVersion, pgGetLatestFlagVersion, sqlGetLatestFlagVersion,
     sqliteGetLatestFlagVersion, Newest, Id, Latest
<1> HIDE DEF rows
<1>3. CASE sel = {}
  <2>1. rows = {}
    BY <1>1, <1>3
  <2> QED BY <1>2, <1>3, <2>1 DEF One, OneRow, NotFound
<1>4. ASSUME NEW v \in sel
      PROVE  storeGetLatestFlagVersion(b, Rows(b, a), flag) = One(sel)
  <2>1. Unique(a.versions, {"flag_id", "version"}) /\ \A x \in a.versions : VersionOK(x)
    BY DEF ContentsOK
  <2>2. sel = {v}
    <3>1. ASSUME NEW x \in sel PROVE x.version = v.version
      BY <1>4, <2>1, <3>1, SMT DEF Latest, VersionOK
    <3> QED BY <1>4, <2>1, <3>1, SMT DEF Unique, Latest
  <2>3. rows = {VersionRow(b, v)}
    BY <1>1, <2>2
  <2>4. VersionOK(v)
    BY <1>4 DEF ContentsOK, Latest
  <2> HIDE DEF sel
  <2>5. CASE b = "postgres"
    <3>1. flagVersionFromRow(VersionRow(b, v)) = v
      BY <2>4, <2>5, VersionBack
    <3> QED BY <1>2, <2>2, <2>3, <2>5, <3>1, Singleton DEF OneRow, Found
  <2>6. CASE b # "postgres"
    <3>1. sqliteFlagVersionFromRow(VersionRow(b, v)) = v
      BY <2>4, <2>6, VersionBack
    <3> QED BY <1>2, <2>2, <2>3, <2>6, <3>1, Singleton DEF OneRow, Found
  <2> QED BY <2>5, <2>6
<1> QED BY <1>3, <1>4

\* GetLatestSnapshot finds the snapshot with the highest number.
LEMMA ReadsLatestSnapshot ==
    ASSUME NEW b, NEW a, ContentsOK(b, a), NEW project
    PROVE  storeGetLatestSnapshot(b, Rows(b, a), project)
             = One(Latest({s \in a.snapshots : s.project_id = project}))
<1> DEFINE sel == Latest({s \in a.snapshots : s.project_id = project})
           rows == Latest({r \in Rows(b, a).snapshots : r.project_id = Id(b, project)})
<1>1. rows = {SnapshotRow(b, s) : s \in sel}
  <2> DEFINE S == {s \in a.snapshots : s.project_id = project}
  <2>1. {r \in Rows(b, a).snapshots : r.project_id = Id(b, project)} = {SnapshotRow(b, s) : s \in S}
    BY Tables, IdColumn, SMT DEF SnapshotRow
  <2>2. \A s : SnapshotRow(b, s).version = s.version
    BY SMTT(30) DEF SnapshotRow
  <2> QED BY <2>1, <2>2, SMT DEF Latest
<1>2. storeGetLatestSnapshot(b, Rows(b, a), project)
        = IF b = "postgres" THEN OneRow(rows, snapshotFromRow)
          ELSE OneRow(rows, sqliteSnapshotFromRow)
  BY DEF storeGetLatestSnapshot, pgGetLatestSnapshot, sqlGetLatestSnapshot,
     sqliteGetLatestSnapshot, Newest, Id, Latest
<1> HIDE DEF rows
<1>3. CASE sel = {}
  <2>1. rows = {}
    BY <1>1, <1>3
  <2> QED BY <1>2, <1>3, <2>1 DEF One, OneRow, NotFound
<1>4. ASSUME NEW s \in sel
      PROVE  storeGetLatestSnapshot(b, Rows(b, a), project) = One(sel)
  <2>1. Unique(a.snapshots, {"project_id", "version"}) /\ \A x \in a.snapshots : SnapshotOK(x)
    BY DEF ContentsOK
  <2>2. sel = {s}
    <3>1. ASSUME NEW x \in sel PROVE x.version = s.version
      BY <1>4, <2>1, <3>1, SMT DEF Latest, SnapshotOK
    <3> QED BY <1>4, <2>1, <3>1, SMT DEF Unique, Latest
  <2>3. rows = {SnapshotRow(b, s)}
    BY <1>1, <2>2
  <2>4. SnapshotOK(s)
    BY <1>4 DEF ContentsOK, Latest
  <2> HIDE DEF sel
  <2>5. CASE b = "postgres"
    <3>1. snapshotFromRow(SnapshotRow(b, s)) = s
      BY <2>4, <2>5, SnapshotBack
    <3> QED BY <1>2, <2>2, <2>3, <2>5, <3>1, Singleton DEF OneRow, Found
  <2>6. CASE b # "postgres"
    <3>1. sqliteSnapshotFromRow(SnapshotRow(b, s)) = s
      BY <2>4, <2>6, SnapshotBack
    <3> QED BY <1>2, <2>2, <2>3, <2>6, <3>1, Singleton DEF OneRow, Found
  <2> QED BY <2>5, <2>6
<1> QED BY <1>3, <1>4

\* ListProjects lists every project.
LEMMA ListsProjects ==
    ASSUME NEW b, NEW a, ContentsOK(b, a)
    PROVE  storeListProjects(b, Rows(b, a)) = a.projects
<1> DEFINE sel == a.projects
           rows == Rows(b, a).projects
<1>1. rows = {ProjectRow(b, p) : p \in sel}
  BY Tables, IdColumn, SMT DEF ProjectRow
<1>2. storeListProjects(b, Rows(b, a))
        = IF b = "postgres" THEN {projectFromRow(r) : r \in rows}
          ELSE {sqliteProjectFromRow(r) : r \in rows}
  BY DEF storeListProjects, pgListProjects, sqlListProjects, sqliteListProjects
<1>3. \A p \in sel : ProjectOK(p)
  BY DEF ContentsOK
<1> HIDE DEF rows, sel
<1>4. CASE b = "postgres"
  <2>1. \A p \in sel : projectFromRow(ProjectRow(b, p)) = p
    BY <1>3, <1>4, ProjectBack
  <2> QED BY <1>1, <1>2, <1>4, <2>1, SMT DEF sel
<1>5. CASE b # "postgres"
  <2>1. \A p \in sel : sqliteProjectFromRow(ProjectRow(b, p)) = p
    BY <1>3, <1>5, ProjectBack
  <2> QED BY <1>1, <1>2, <1>5, <2>1, SMT DEF sel
<1> QED BY <1>4, <1>5

\* ListEnvironmentsByProject lists the environments of the project.
LEMMA ListsEnvironments ==
    ASSUME NEW b, NEW a, ContentsOK(b, a), NEW project
    PROVE  storeListEnvironmentsByProject(b, Rows(b, a), project) = {n \in a.environments : n.project_id = project}
<1> DEFINE sel == {n \in a.environments : n.project_id = project}
           rows == {r \in Rows(b, a).environments : r.project_id = Id(b, project)}
<1>1. rows = {EnvironmentRow(b, n) : n \in sel}
  BY Tables, IdColumn, SMT DEF EnvironmentRow
<1>2. storeListEnvironmentsByProject(b, Rows(b, a), project)
        = IF b = "postgres" THEN {environmentFromRow(r) : r \in rows}
          ELSE {sqliteEnvironmentFromRow(r) : r \in rows}
  BY DEF storeListEnvironmentsByProject, pgListEnvironmentsByProject,
     sqlListEnvironmentsByProject, sqliteListEnvironmentsByProject, Id
<1>3. \A n \in sel : EnvironmentOK(n)
  BY DEF ContentsOK
<1> HIDE DEF rows, sel
<1>4. CASE b = "postgres"
  <2>1. \A n \in sel : environmentFromRow(EnvironmentRow(b, n)) = n
    BY <1>3, <1>4, EnvironmentBack
  <2> QED BY <1>1, <1>2, <1>4, <2>1, SMTT(30) DEF sel
<1>5. CASE b # "postgres"
  <2>1. \A n \in sel : sqliteEnvironmentFromRow(EnvironmentRow(b, n)) = n
    BY <1>3, <1>5, EnvironmentBack
  <2> QED BY <1>1, <1>2, <1>5, <2>1, SMT DEF sel
<1> QED BY <1>4, <1>5

\* ListFlagsByProject lists the flags of the project.
LEMMA ListsFlags ==
    ASSUME NEW b, NEW a, ContentsOK(b, a), NEW project
    PROVE  storeListFlagsByProject(b, Rows(b, a), project) = {f \in a.flags : f.project_id = project}
<1> DEFINE sel == {f \in a.flags : f.project_id = project}
           rows == {r \in Rows(b, a).flags : r.project_id = Id(b, project)}
<1>1. rows = {FlagRow(b, f) : f \in sel}
  BY Tables, IdColumn, SMT DEF FlagRow
<1>2. storeListFlagsByProject(b, Rows(b, a), project)
        = IF b = "postgres" THEN {flagFromRow(r) : r \in rows}
          ELSE {sqliteFlagFromRow(r) : r \in rows}
  BY DEF storeListFlagsByProject, pgListFlagsByProject, sqlListFlagsByProject,
     sqliteListFlagsByProject, Id
<1>3. \A f \in sel : FlagOK(f)
  BY DEF ContentsOK
<1> HIDE DEF rows, sel
<1>4. CASE b = "postgres"
  <2>1. \A f \in sel : flagFromRow(FlagRow(b, f)) = f
    BY <1>3, <1>4, FlagBack
  <2> QED BY <1>1, <1>2, <1>4, <2>1, SMTT(30) DEF sel
<1>5. CASE b # "postgres"
  <2>1. \A f \in sel : sqliteFlagFromRow(FlagRow(b, f)) = f
    BY <1>3, <1>5, FlagBack
  <2> QED BY <1>1, <1>2, <1>5, <2>1, SMT DEF sel
<1> QED BY <1>4, <1>5

\* ListSegmentsByProject lists the segments of the project.
LEMMA ListsSegments ==
    ASSUME NEW b, NEW a, ContentsOK(b, a), NEW project
    PROVE  storeListSegmentsByProject(b, Rows(b, a), project) = {s \in a.segments : s.project_id = project}
<1> DEFINE sel == {s \in a.segments : s.project_id = project}
           rows == {r \in Rows(b, a).segments : r.project_id = Id(b, project)}
<1>1. rows = {SegmentRow(b, s) : s \in sel}
  BY Tables, IdColumn, SMT DEF SegmentRow
<1>2. storeListSegmentsByProject(b, Rows(b, a), project)
        = IF b = "postgres" THEN {segmentFromRow(r) : r \in rows}
          ELSE {sqliteSegmentFromRow(r) : r \in rows}
  BY DEF storeListSegmentsByProject, pgListSegmentsByProject, sqlListSegmentsByProject,
     sqliteListSegmentsByProject, Id
<1>3. \A s \in sel : SegmentOK(s)
  BY DEF ContentsOK
<1> HIDE DEF rows, sel
<1>4. CASE b = "postgres"
  <2>1. \A s \in sel : segmentFromRow(SegmentRow(b, s)) = s
    BY <1>3, <1>4, SegmentBack
  <2> QED BY <1>1, <1>2, <1>4, <2>1, SMTT(30) DEF sel
<1>5. CASE b # "postgres"
  <2>1. \A s \in sel : sqliteSegmentFromRow(SegmentRow(b, s)) = s
    BY <1>3, <1>5, SegmentBack
  <2> QED BY <1>1, <1>2, <1>5, <2>1, SMT DEF sel
<1> QED BY <1>4, <1>5

\* ORDER BY version DESC sorts by version.
LEMMA VersionsDescend ==
    ASSUME NEW T
    PROVE  Descending(T, ByVersion) = Sorted(T, VersionOrder(T))
<1>1. ASSUME NEW x \in T
      PROVE  {y \in T : <<x, y>> \in VersionOrder(T)} = {y \in T : x.version < y.version}
  BY SMT DEF VersionOrder
<1>2. PICK above : above = [x \in T |-> Cardinality({y \in T : x.version < y.version})]
  OBVIOUS
<1>3. Above(T, VersionOrder(T)) = above
  BY <1>1, <1>2 DEF Above
<1>4. RowsAbove(T, ByVersion) = above
  BY <1>2 DEF RowsAbove, ByVersion
<1>5. PICK n : n = Cardinality(T)
  OBVIOUS
<1> DEFINE all == [i \in 1 .. n |-> CHOOSE r \in T : above[r] = i - 1]
<1>6. Sorted(T, VersionOrder(T)) = all
  BY ONLY <1>3, <1>5, SMT DEF Sorted
<1>7. Descending(T, ByVersion) = all
  BY ONLY <1>4, <1>5, SMT DEF Descending
<1> QED BY <1>6, <1>7

\* Version numbers that differ order the rows.
LEMMA VersionsOrdered ==
    ASSUME NEW S, \A x \in S : x.version \in Nat,
           \A x, y \in S : x.version = y.version => x = y
    PROVE  Orders(VersionOrder(S), S)
BY SMT DEF Orders, VersionOrder

\* ListFlagVersions lists the versions of the flag, newest first.
LEMMA ListsVersions ==
    ASSUME NEW b, NEW a, ContentsOK(b, a), NEW flag
    PROVE  LET V == VersionsOf(a, flag)
           IN  /\ IsFiniteSet(V) /\ Orders(VersionOrder(V), V)
               /\ storeListFlagVersions(b, Rows(b, a), flag)
                    = Sorted(V, VersionOrder(V))
<1> DEFINE V == {x \in a.versions : x.flag_id = flag}
           T == {r \in Rows(b, a).versions : r.flag_id = Id(b, flag)}
           h == [x \in V |-> VersionRow(b, x)]
           g == [r \in T |-> IF b = "postgres" THEN flagVersionFromRow(r) ELSE sqliteFlagVersionFromRow(r)]
           rows == Sorted(T, VersionOrder(T))
<1>1. V = VersionsOf(a, flag)
  BY DEF VersionsOf
<1>2. T = {VersionRow(b, x) : x \in V}
  BY Tables, IdColumn, SMT DEF VersionRow
<1>3. \A x \in V : VersionOK(x)
  BY DEF ContentsOK
<1>4. IsFiniteSet(V)
  BY FS_Subset DEF ContentsOK
<1>5. Orders(VersionOrder(V), V)
  <2>1. \A x \in V : x.version \in Nat
    BY <1>3 DEF VersionOK
  <2>2. Unique(a.versions, {"flag_id", "version"})
    BY DEF ContentsOK
  <2>3. \A x, y \in V : x.version = y.version => x = y
    BY <2>2, SMT DEF Unique
  <2> QED BY <2>1, <2>3, VersionsOrdered
<1>6. \A x \in V : h[x] \in T
  BY <1>2
<1>7. \A t \in T : \E x \in V : t = h[x]
  BY <1>2
<1>8. \A x \in V : g[h[x]] = x
  <2>1. CASE b = "postgres"
    BY <1>2, <1>3, <2>1, VersionBack
  <2>2. CASE b # "postgres"
    BY <1>2, <1>3, <2>2, VersionBack
  <2> QED BY <2>1, <2>2
<1>9. \A x, y \in V : <<h[x], h[y]>> \in VersionOrder(T) <=> <<x, y>> \in VersionOrder(V)
  <2>1. \A x \in V : VersionRow(b, x).version = x.version
    BY SMT DEF VersionRow
  <2>2. \A x \in V : h[x].version = x.version /\ h[x] \in T
    BY <1>2, <2>1
  <2> HIDE DEF h, T, V
  <2> QED BY <2>2, SMT DEF VersionOrder
<1>10. storeListFlagVersions(b, Rows(b, a), flag)
        = [i \in DOMAIN rows |-> IF b = "postgres" THEN flagVersionFromRow(rows[i])
                                 ELSE sqliteFlagVersionFromRow(rows[i])]
  BY VersionsDescend DEF storeListFlagVersions, pgListFlagVersions, sqlListFlagVersions,
     sqliteListFlagVersions, Id
<1> HIDE DEF h, T, V
<1>11. IsListOf(rows, T, g, Sorted(V, VersionOrder(V)))
  <2> HIDE DEF g
  <2>1. Corresponds(V, VersionOrder(V), T, VersionOrder(T), h, g)
    BY <1>4, <1>5, <1>6, <1>7, <1>8, <1>9 DEF Corresponds
  <2> QED BY <2>1, ListedAll
<1> HIDE DEF rows
<1>12. storeListFlagVersions(b, Rows(b, a), flag) = Converted(rows, g)
  BY <1>10, <1>11 DEF Converted, IsListOf
<1> QED BY <1>1, <1>4, <1>5, <1>11, <1>12 DEF IsListOf

\* ListSnapshotsByProject lists the newest snapshots of the project.
LEMMA ListsSnapshots ==
    ASSUME NEW b, NEW a, ContentsOK(b, a), NEW project, NEW limit \in Nat
    PROVE  LET V == SnapshotsOf(a, project)
           IN  /\ IsFiniteSet(V) /\ Orders(VersionOrder(V), V)
               /\ storeListSnapshotsByProject(b, Rows(b, a), project, limit)
                    = Cut(Sorted(V, VersionOrder(V)), limit)
<1> DEFINE V == {x \in a.snapshots : x.project_id = project}
           T == {r \in Rows(b, a).snapshots : r.project_id = Id(b, project)}
           h == [x \in V |-> SnapshotRow(b, x)]
           g == [r \in T |-> IF b = "postgres" THEN snapshotFromRow(r) ELSE sqliteSnapshotFromRow(r)]
           rows == Cut(Sorted(T, VersionOrder(T)), limit)
<1>1. V = SnapshotsOf(a, project)
  BY DEF SnapshotsOf
<1>2. T = {SnapshotRow(b, x) : x \in V}
  BY Tables, IdColumn, SMT DEF SnapshotRow
<1>3. \A x \in V : SnapshotOK(x)
  BY DEF ContentsOK
<1>4. IsFiniteSet(V)
  BY FS_Subset DEF ContentsOK
<1>5. Orders(VersionOrder(V), V)
  <2>1. \A x \in V : x.version \in Nat
    BY <1>3 DEF SnapshotOK
  <2>2. Unique(a.snapshots, {"project_id", "version"})
    BY DEF ContentsOK
  <2>3. \A x, y \in V : x.version = y.version => x = y
    BY <2>2, SMT DEF Unique
  <2> QED BY <2>1, <2>3, VersionsOrdered
<1>6. \A x \in V : h[x] \in T
  BY <1>2
<1>7. \A t \in T : \E x \in V : t = h[x]
  BY <1>2
<1>8. \A x \in V : g[h[x]] = x
  <2>1. CASE b = "postgres"
    BY <1>2, <1>3, <2>1, SnapshotBack
  <2>2. CASE b # "postgres"
    BY <1>2, <1>3, <2>2, SnapshotBack
  <2> QED BY <2>1, <2>2
<1>9. \A x, y \in V : <<h[x], h[y]>> \in VersionOrder(T) <=> <<x, y>> \in VersionOrder(V)
  <2>1. \A x \in V : SnapshotRow(b, x).version = x.version
    BY SMTT(30) DEF SnapshotRow
  <2>2. \A x \in V : h[x].version = x.version /\ h[x] \in T
    BY <1>2, <2>1
  <2> HIDE DEF h, T, V
  <2> QED BY <2>2, SMT DEF VersionOrder
<1>10. storeListSnapshotsByProject(b, Rows(b, a), project, limit)
        = [i \in DOMAIN rows |-> IF b = "postgres" THEN snapshotFromRow(rows[i])
                                 ELSE sqliteSnapshotFromRow(rows[i])]
  BY VersionsDescend DEF storeListSnapshotsByProject, pgListSnapshotsByProject,
     sqlListSnapshotsByProject, Limit, sqliteListSnapshotsByProject, Id, Cut
<1> HIDE DEF h, T, V
<1>11. IsListOf(rows, T, g, Cut(Sorted(V, VersionOrder(V)), limit))
  <2> HIDE DEF g
  <2>1. Corresponds(V, VersionOrder(V), T, VersionOrder(T), h, g)
    BY <1>4, <1>5, <1>6, <1>7, <1>8, <1>9 DEF Corresponds
  <2> QED BY <2>1, Listed
<1> HIDE DEF rows
<1>12. storeListSnapshotsByProject(b, Rows(b, a), project, limit) = Converted(rows, g)
  BY <1>10, <1>11 DEF Converted, IsListOf
<1> QED BY <1>1, <1>4, <1>5, <1>11, <1>12 DEF IsListOf

\* ORDER BY created_at DESC, id DESC sorts by time and id.
LEMMA EventsDescend ==
    ASSUME NEW T
    PROVE  Descending(T, Precedes) = Sorted(T, RowOrder(T))
<1>1. ASSUME NEW x \in T
      PROVE  {y \in T : <<x, y>> \in RowOrder(T)} = {y \in T : Earlier(x, y)}
  BY SMT DEF RowOrder
<1>2. PICK above : above = [x \in T |-> Cardinality({y \in T : Earlier(x, y)})]
  OBVIOUS
<1>3. Above(T, RowOrder(T)) = above
  BY <1>1, <1>2 DEF Above
<1>4. RowsAbove(T, Precedes) = above
  BY <1>2 DEF RowsAbove, Precedes, Earlier
<1>5. PICK n : n = Cardinality(T)
  OBVIOUS
<1> DEFINE all == [i \in 1 .. n |-> CHOOSE r \in T : above[r] = i - 1]
<1>6. Sorted(T, RowOrder(T)) = all
  BY ONLY <1>3, <1>5, SMT DEF Sorted
<1>7. Descending(T, Precedes) = all
  BY ONLY <1>4, <1>5, SMT DEF Descending
<1> QED BY <1>6, <1>7

\* The query for audit events, on rows.
LEMMA AuditQuery ==
    ASSUME NEW db, NEW q
    PROVE  LET T == {r \in db.audit : Chosen(r, q)}
           IN  sqlListAuditEventsByProject(db, q) = Cut(Sorted(T, RowOrder(T)), q.limit)
<1> DEFINE T == {r \in db.audit : Chosen(r, q)}
<1>1. /\ [created_at |-> q.cursor_ts, id |-> q.cursor_id].created_at = q.cursor_ts
      /\ [created_at |-> q.cursor_ts, id |-> q.cursor_id].id = q.cursor_id
  BY SMT
<1>2. sqlListAuditEventsByProject(db, q) = Limit(Descending(T, Precedes), q.limit)
  BY <1>1 DEF sqlListAuditEventsByProject, Precedes, Chosen, NULL
<1> HIDE DEF T
<1>3. Descending(T, Precedes) = Sorted(T, RowOrder(T))
  BY EventsDescend
<1> QED BY <1>2, <1>3 DEF Cut, Limit, T

\* A bound on the time is NULL when it is not given.
LEMMA OptionalTimeColumn ==
    ASSUME NEW b, NEW t \in Nat
    PROVE  /\ OptionalTime(b, t) = NULL <=> t = 0
           /\ t # 0 => OptionalTime(b, t).value = Stamp(b, t)
BY SMT DEF OptionalTime, Stamp, timestampFromTime, Cell, NULL, sqliteNullableTime,
   sqliteFormatTime, TicksPerMilli

\* The WHERE clause on the row selects what the query is for: filters that are
\* not given are NULL, and bounds are rounded as the times of the rows are.
LEMMA Selection ==
    ASSUME NEW b, NEW v, EventOK(b, v), NEW p, QueryOK(p)
    PROVE  Chosen(EventRow(b, v), Params(b, p)) <=> Selects(b, p, v)
<1> DEFINE r == EventRow(b, v)
           q == Params(b, p)
<1>1. /\ r.id = Id(b, v.id) /\ r.project_id = OptionalId(b, v.project_id)
      /\ r.action = v.action /\ r.actor = Text(b, v.actor)
      /\ r.created_at = Time(b, v.created_at)
  BY SMT DEF EventRow
<1>2. /\ q.project_id = Id(b, p.project_id) /\ q.action = Text(b, p.action)
      /\ q.actor = Text(b, p.actor) /\ q.from = OptionalTime(b, p.from)
      /\ q.to = OptionalTime(b, p.to) /\ q.cursor_ts = OptionalTime(b, p.cursor_ts)
      /\ q.cursor_id = IF p.cursor_ts = 0 THEN NULL ELSE Id(b, p.cursor_id)
  BY SMT DEF Params
<1> HIDE DEF r, q
<1>3. r.project_id = q.project_id <=> v.project_id = <<p.project_id>>
  <2>1. OneOrNone(v.project_id)
    BY DEF EventOK
  <2>2. OptionalId(b, v.project_id) = Id(b, p.project_id) <=> v.project_id = <<p.project_id>>
    BY <2>1, OptionalIdColumn
  <2> QED BY <1>1, <1>2, <2>2
<1>4. (q.action = NULL \/ r.action = q.action.value) <=> (p.action = "" \/ v.action = p.action)
  <2>1. Text(b, p.action) = NULL <=> p.action = ""
    BY TextColumn
  <2>2. p.action # "" => Text(b, p.action).value = p.action
    BY TextColumn
  <2> QED BY <1>1, <1>2, <2>1, <2>2
<1>5. (q.actor = NULL \/ (r.actor # NULL /\ r.actor.value = q.actor.value))
        <=> (p.actor = "" \/ v.actor = p.actor)
  <2>1. \A t : Text(b, t) = NULL <=> t = ""
    BY TextColumn
  <2>2. \A t : t # "" => Text(b, t).value = t
    BY TextColumn
  <2>3. CASE p.actor = ""
    BY <1>2, <2>1, <2>3
  <2>4. CASE p.actor # "" /\ v.actor = ""
    <3>1. q.actor # NULL
      BY <1>2, <2>1, <2>4
    <3>2. r.actor = NULL
      BY <1>1, <2>1, <2>4
    <3> QED BY <2>4, <3>1, <3>2
  <2>5. CASE p.actor # "" /\ v.actor # ""
    <3>1. q.actor # NULL /\ q.actor.value = p.actor
      BY <1>2, <2>1, <2>2, <2>5
    <3>2. r.actor # NULL /\ r.actor.value = v.actor
      BY <1>1, <2>1, <2>2, <2>5
    <3> QED BY <2>5, <3>1, <3>2
  <2> QED BY <2>3, <2>4, <2>5
<1>6. r.created_at.value = Stamp(b, v.created_at) /\ r.id.value = v.id
  BY <1>1, TimeColumn, IdColumn, SMTT(30) DEF EventOK, Stamp
<1>7. (q.from = NULL \/ r.created_at.value >= q.from.value)
        <=> (p.from = 0 \/ Stamp(b, v.created_at) >= Stamp(b, p.from))
  BY <1>2, <1>6, OptionalTimeColumn, SMT DEF QueryOK
<1>8. (q.to = NULL \/ r.created_at.value < q.to.value)
        <=> (p.to = 0 \/ Stamp(b, v.created_at) < Stamp(b, p.to))
  BY <1>2, <1>6, OptionalTimeColumn, SMT DEF QueryOK
<1>9. (\/ q.cursor_ts = NULL
       \/ r.created_at.value < q.cursor_ts.value
       \/ r.created_at.value = q.cursor_ts.value /\ r.id.value < q.cursor_id.value)
        <=> (\/ p.cursor_ts = 0
             \/ Stamp(b, v.created_at) < Stamp(b, p.cursor_ts)
             \/ Stamp(b, v.created_at) = Stamp(b, p.cursor_ts) /\ v.id < p.cursor_id)
  <2>1. CASE p.cursor_ts = 0
    BY <1>2, <2>1, OptionalTimeColumn DEF QueryOK
  <2>2. CASE p.cursor_ts # 0
    <3>1. q.cursor_id.value = p.cursor_id
      BY <1>2, <2>2, IdColumn, SMT
    <3>2. q.cursor_ts # NULL /\ q.cursor_ts.value = Stamp(b, p.cursor_ts)
      BY <1>2, <2>2, OptionalTimeColumn DEF QueryOK
    <3> QED BY <1>6, <2>2, <3>1, <3>2
  <2> QED BY <2>1, <2>2
<1> QED BY <1>3, <1>4, <1>5, <1>7, <1>8, <1>9 DEF Chosen, Selects, r, q

\* ListAuditEvents comes back with the events the query selects, newest first
\* and no more than the limit, on either backend (audit_store.go, sqlite_audit.go).
LEMMA ListsEvents ==
    ASSUME NEW b, NEW a, ContentsOK(b, a), NEW p, QueryOK(p)
    PROVE  LET V == EventsFor(b, a, p)
           IN  /\ IsFiniteSet(V) /\ Orders(EventOrder(V), V)
               /\ storeListAuditEvents(b, Rows(b, a), p)
                    = Cut(Sorted(V, EventOrder(V)), p.limit)
<1> DEFINE V == {x \in a.audit : Selects(b, p, x)}
           q == Params(b, p)
           T == {r \in Rows(b, a).audit : Chosen(r, q)}
           h == [x \in V |-> EventRow(b, x)]
           g == [r \in T |-> IF b = "postgres" THEN auditFromRow(r)
                             ELSE sqliteAuditFromRow(r)]
           rows == Cut(Sorted(T, RowOrder(T)), p.limit)
<1>1. \A x \in a.audit : EventOK(b, x)
  BY DEF ContentsOK
<1>2. V = EventsFor(b, a, p)
  BY DEF EventsFor
<1>3. T = {EventRow(b, x) : x \in V}
  <2>1. \A x \in a.audit : Chosen(EventRow(b, x), q) <=> Selects(b, p, x)
    BY <1>1, Selection
  <2> HIDE DEF q
  <2>2. Rows(b, a).audit = {EventRow(b, x) : x \in a.audit}
    BY Tables
  <2> QED BY <2>1, <2>2
<1>4. \A x \in V : EventOK(b, x)
  BY <1>1
<1>5. IsFiniteSet(V)
  BY FS_Subset DEF ContentsOK
<1>6. Orders(EventOrder(V), V)
  <2>1. \A x \in V : x.created_at \in Nat /\ x.id \in Nat
    BY <1>4 DEF EventOK
  <2>2. Unique(a.audit, {"id"})
    BY DEF ContentsOK
  <2>3. \A x, y \in V : x.id = y.id => x = y
    BY <2>2, SMT DEF Unique
  <2> HIDE DEF V
  <2> QED BY <2>1, <2>3, SMT DEF Orders, EventOrder
<1>7. \A x \in V : h[x] \in T
  BY <1>3
<1>8. \A t \in T : \E x \in V : t = h[x]
  BY <1>3
<1>9. \A x \in V : g[h[x]] = x
  <2>1. CASE b = "postgres"
    BY <1>3, <1>4, <2>1, EventBack
  <2>2. CASE b # "postgres"
    BY <1>3, <1>4, <2>2, EventBack
  <2> QED BY <2>1, <2>2
<1>10. \A x, y \in V : <<h[x], h[y]>> \in RowOrder(T) <=> <<x, y>> \in EventOrder(V)
  <2>1. \A x \in V : /\ EventRow(b, x).created_at = Time(b, x.created_at)
                     /\ EventRow(b, x).id = Id(b, x.id)
    BY SMTT(30) DEF EventRow
  <2>2. \A x \in V : h[x].created_at.value = Stamp(b, x.created_at) /\ h[x].id.value = x.id
    <3> SUFFICES ASSUME NEW x \in V
                 PROVE  h[x].created_at.value = Stamp(b, x.created_at) /\ h[x].id.value = x.id
      OBVIOUS
    <3>1. h[x].created_at = Time(b, x.created_at) /\ h[x].id = Id(b, x.id)
      BY <2>1
    <3>2. /\ x.created_at \in Nat
          /\ b = "postgres" => x.created_at # 0
          /\ b # "postgres" => x.created_at % 2 = 0
      BY <1>4 DEF EventOK
    <3>3. Time(b, x.created_at).value = Stamp(b, x.created_at)
      BY <3>2, TimeColumn DEF Stamp
    <3>4. Id(b, x.id).value = x.id
      BY IdColumn
    <3> HIDE DEF h, V
    <3> QED BY <3>1, <3>3, <3>4
  <2>3. ASSUME NEW x \in V, NEW y \in V
        PROVE  /\ Stamp(b, x.created_at) < Stamp(b, y.created_at) <=> x.created_at < y.created_at
               /\ Stamp(b, x.created_at) = Stamp(b, y.created_at) <=> x.created_at = y.created_at
    <3>1. EventOK(b, x) /\ EventOK(b, y)
      BY <1>4
    <3> QED BY <3>1, SMT DEF EventOK, Stamp
  <2> HIDE DEF h, T, V
  <2>4. \A x, y \in V : Earlier(h[x], h[y])
           <=> \/ x.created_at < y.created_at
               \/ x.created_at = y.created_at /\ x.id < y.id
    BY <2>2, <2>3, SMTT(30) DEF Earlier
  <2> QED BY <1>7, <2>4, SMTT(30) DEF RowOrder, EventOrder
<1>11. storeListAuditEvents(b, Rows(b, a), p)
        = [i \in DOMAIN rows |-> IF b = "postgres" THEN auditFromRow(rows[i])
                                 ELSE sqliteAuditFromRow(rows[i])]
  <2>1. q.limit = p.limit
    BY SMT DEF Params
  <2>2. rows = Cut(Sorted(T, RowOrder(T)), q.limit)
    BY <2>1
  <2>3. CASE b = "postgres"
    <3>1. q = [project_id |-> fromUUID(p.project_id), limit |-> p.limit,
               action |-> textFromString(p.action), actor |-> textFromString(p.actor),
               from |-> timestampFromTime(p.from), to |-> timestampFromTime(p.to),
               cursor_ts |-> timestampFromTime(p.cursor_ts),
               cursor_id |-> cursorIDParam(p)]
      BY <2>3 DEF Params, Id, Text, OptionalTime, cursorIDParam, NULL
    <3> HIDE DEF q, rows
    <3>2. sqlListAuditEventsByProject(Rows(b, a), q) = rows
      BY <2>2, AuditQuery
    <3> QED BY <2>3, <3>1, <3>2 DEF storeListAuditEvents, pgListAuditEvents
  <2>4. CASE b # "postgres"
    <3>1. q = [project_id |-> sqliteUUIDString(p.project_id), limit |-> p.limit,
               action |-> sqliteNullableString(p.action),
               actor |-> sqliteNullableString(p.actor),
               from |-> sqliteNullableTime(p.from),
               to |-> sqliteNullableTime(p.to),
               cursor_ts |-> sqliteNullableTime(p.cursor_ts),
               cursor_id |-> sqliteNullableCursorID(p)]
      BY <2>4 DEF Params, Id, Text, OptionalTime, sqliteNullableCursorID, NULL,
         sqliteStringFromString, sqliteNullableString
    <3> HIDE DEF q, rows
    <3>2. sqlListAuditEventsByProject(Rows(b, a), q) = rows
      BY <2>2, AuditQuery
    <3> QED BY <2>4, <3>1, <3>2 DEF storeListAuditEvents, sqliteListAuditEvents
  <2> QED BY <2>3, <2>4
<1> HIDE DEF h, T, V
<1>12. IsListOf(rows, T, g, Cut(Sorted(V, EventOrder(V)), p.limit))
  <2> HIDE DEF g
  <2>1. Corresponds(V, EventOrder(V), T, RowOrder(T), h, g)
    BY <1>5, <1>6, <1>7, <1>8, <1>9, <1>10 DEF Corresponds
  <2>2. p.limit \in Nat
    BY DEF QueryOK
  <2> QED BY <2>1, <2>2, Listed
<1> HIDE DEF rows
<1>13. storeListAuditEvents(b, Rows(b, a), p) = Converted(rows, g)
  BY <1>11, <1>12 DEF Converted, IsListOf
<1> QED BY <1>2, <1>5, <1>6, <1>12, <1>13 DEF IsListOf

\* A row of the query for the newest versions converts to the pair it keeps.
LEMMA LatestBack ==
    ASSUME NEW b, NEW f, NEW v, VersionOK(v)
    PROVE  /\ b = "postgres" => latestFlagVersionFromRow(PairRow(b, f, v)) = Pair(f, v)
           /\ b # "postgres"
                => sqliteLatestFlagVersionFromRow(PairRow(b, f, v)) = Pair(f, v)
<1>1. CASE b = "postgres"
  <2>1. toUUID(Id(b, v.flag_id)) = v.flag_id /\ Json(b, v.compiled) = v.compiled
    BY <1>1, IdColumn, JsonColumn, SMTT(30) DEF VersionOK, RawObject
  <2> DEFINE g == latestFlagVersionFromRow(PairRow(b, f, v))
  <2>2. Columns(g, PairColumns)
    BY DEF PairRow, latestFlagVersionFromRow, Columns, PairColumns
  <2>3. /\ g.flag_key = f.key /\ g.flag_id = toUUID(Id(b, v.flag_id))
        /\ g.version = v.version /\ g.strategy = v.strategy
        /\ g.compiled = Json(b, v.compiled)
    BY SMT DEF PairRow, latestFlagVersionFromRow
  <2> HIDE DEF g
  <2>4. g = Pair(f, v)
    BY <2>1, <2>2, <2>3, SMT DEF Columns, PairColumns, Pair
  <2> QED BY <1>1, <2>4 DEF g
<1>2. CASE b # "postgres"
  <2>1. /\ sqliteParseUUID(Id(b, v.flag_id)) = v.flag_id
        /\ sqliteRawMessageFrom(Json(b, v.compiled)) = v.compiled
    BY <1>2, IdColumn, JsonColumn, SMT DEF VersionOK, RawObject
  <2> DEFINE g == sqliteLatestFlagVersionFromRow(PairRow(b, f, v))
  <2>2. Columns(g, PairColumns)
    BY DEF PairRow, sqliteLatestFlagVersionFromRow, Columns, PairColumns
  <2>3. /\ g.flag_key = f.key /\ g.flag_id = sqliteParseUUID(Id(b, v.flag_id))
        /\ g.version = v.version /\ g.strategy = v.strategy
        /\ g.compiled = sqliteRawMessageFrom(Json(b, v.compiled))
    BY SMT DEF PairRow, sqliteLatestFlagVersionFromRow
  <2> HIDE DEF g
  <2>4. g = Pair(f, v)
    BY <2>1, <2>2, <2>3, SMTT(30) DEF Columns, PairColumns, Pair
  <2> QED BY <1>2, <2>4 DEF g
<1> QED BY <1>1, <1>2

\* The first row of a partition by flag is the newest version of the flag:
\* what ROW_NUMBER() OVER (PARTITION BY ...) = 1 selects.
LEMMA FirstOfPartition ==
    ASSUME NEW b, NEW a, ContentsOK(b, a), NEW f \in a.flags, NEW v \in VersionsOf(a, f.id),
           NEW F, F \subseteq a.flags, f \in F
    PROVE  IsFirst(AllPairs(b, a, F), PairRow(b, f, v)) <=> v \in Latest(VersionsOf(a, f.id))
<1> DEFINE rows == UNION {{PairRow(b, e, w) : w \in VersionsOf(a, e.id)} : e \in F}
           S == {q \in rows : /\ q.flag_id = PairRow(b, f, v).flag_id
                              /\ q.version >= PairRow(b, f, v).version}
           W == {w \in VersionsOf(a, f.id) : w.version >= v.version}
<1>1. \A e, w : /\ PairRow(b, e, w).flag_id = Id(b, w.flag_id)
                /\ PairRow(b, e, w).version = w.version
  BY SMT DEF PairRow
<1>2. \A w \in VersionsOf(a, f.id) : VersionOK(w) /\ w.version \in Nat /\ w.flag_id = f.id
  BY DEF ContentsOK, VersionsOf, VersionOK
<1>3. \A e \in F : e.id = f.id => e = f
  <2>1. FlagOK(f) /\ \A e \in F : FlagOK(e)
    BY DEF ContentsOK
  <2>2. Unique(a.flags, {"project_id", "key"})
    BY DEF ContentsOK
  <2> SUFFICES ASSUME NEW e \in F, e.id = f.id PROVE e = f
    OBVIOUS
  <2>3. e.id = <<e.project_id[1], e.key>> /\ f.id = <<f.project_id[1], f.key>>
    BY <2>1 DEF FlagOK
  <2>4. e.project_id[1] = f.project_id[1] /\ e.key = f.key
    <3>1. <<e.project_id[1], e.key>> = <<f.project_id[1], f.key>>
      BY <2>3
    <3> QED BY <3>1
  <2>5. e.project_id = f.project_id
    BY <2>1, <2>4 DEF FlagOK, Single
  <2> QED BY <2>2, <2>4, <2>5, SMT DEF Unique
<1>4. S = {PairRow(b, f, w) : w \in W}
  <2>1. \A e \in F : \A w \in VersionsOf(a, e.id) : w.flag_id = e.id
    BY DEF VersionsOf
  <2>2. \A e \in F : \A w \in VersionsOf(a, e.id) :
           PairRow(b, e, w).flag_id = PairRow(b, f, v).flag_id => e = f
    <3>1. \A w : Id(b, w.flag_id) = Id(b, v.flag_id) => w.flag_id = v.flag_id
      BY IdColumn, SMT
    <3> SUFFICES ASSUME NEW e \in F, NEW w \in VersionsOf(a, e.id),
                        PairRow(b, e, w).flag_id = PairRow(b, f, v).flag_id
                 PROVE  e = f
      OBVIOUS
    <3>2. Id(b, w.flag_id) = Id(b, v.flag_id)
      BY <1>1
    <3>3. w.flag_id = e.id /\ v.flag_id = f.id
      BY <1>2, <2>1
    <3> QED BY <1>3, <3>1, <3>2, <3>3
  <2>3. ASSUME NEW w \in W PROVE PairRow(b, f, w) \in S
    <3>1. PairRow(b, f, w) \in {PairRow(b, f, u) : u \in VersionsOf(a, f.id)}
      OBVIOUS
    <3>2. PairRow(b, f, w) \in rows
      BY <3>1
    <3>3. w.flag_id = v.flag_id
      BY <1>2
    <3> QED BY <1>1, <3>2, <3>3
  <2>4. ASSUME NEW q \in S PROVE \E w \in W : q = PairRow(b, f, w)
    <3>1. PICK e \in F : \E w \in VersionsOf(a, e.id) : q = PairRow(b, e, w)
      OBVIOUS
    <3>2. PICK w \in VersionsOf(a, e.id) : q = PairRow(b, e, w)
      BY <3>1
    <3>3. e = f
      BY <2>2, <3>2
    <3>4. w \in W
      BY <1>1, <3>2, <3>3
    <3> QED BY <3>2, <3>3, <3>4
  <2> HIDE DEF S, W
  <2> QED BY <2>3, <2>4
<1>5. v \in W
  BY <1>2, SMT
<1>6. IsFiniteSet(S)
  <2>1. IsFiniteSet(W)
    BY FS_Subset DEF ContentsOK, VersionsOf
  <2> DEFINE g == [w \in W |-> PairRow(b, f, w)]
  <2>2. g \in [W -> S] /\ Onto(g, W, S)
    BY <1>4 DEF Onto
  <2> HIDE DEF g
  <2> QED BY <2>1, <2>2, Images
<1>7. Cardinality(S) = 1 <=> \E x : S = {x}
  BY <1>6, FS_Singleton
<1>8. ASSUME NEW x, S = {x}, NEW w \in VersionsOf(a, f.id) PROVE w.version <= v.version
  <2>1. CASE w \in W
    <3>1. PairRow(b, f, w) = PairRow(b, f, v)
      BY <1>4, <1>5, <1>8, <2>1
    <3>2. w.version = v.version
      BY <1>1, <3>1
    <3> QED BY <1>2, <3>2, SMT
  <2>2. CASE w \notin W
    BY <1>2, <2>2, SMT
  <2> QED BY <2>1, <2>2
<1>9. ASSUME \A w \in VersionsOf(a, f.id) : w.version <= v.version
      PROVE  S = {PairRow(b, f, v)}
  <2>1. Unique(a.versions, {"flag_id", "version"})
    BY DEF ContentsOK
  <2>2. \A w \in W : w.version = v.version
    BY <1>2, <1>9, SMT
  <2>3. \A w \in W : w = v
    BY <1>2, <2>1, <2>2, SMT DEF Unique, VersionsOf
  <2> QED BY <1>4, <1>5, <2>3
<1>10. Cardinality(S) = 1 <=> v \in Latest(VersionsOf(a, f.id))
  BY <1>7, <1>8, <1>9 DEF Latest
<1> QED BY <1>10 DEF IsFirst, AllPairs

\* ListLatestFlagVersions comes back with the newest version of each flag of
\* the project that has one: DISTINCT ON in Postgres and ROW_NUMBER() in SQLite
\* select the same rows.
LEMMA ListsLatest ==
    ASSUME NEW b, NEW a, ContentsOK(b, a), NEW project
    PROVE  storeListLatestFlagVersions(b, Rows(b, a), project) = LatestVersions(a, project)
<1> DEFINE F == FlagsOf(a, project)
           V(f) == VersionsOf(a, f.id)
           rows == UNION {{PairRow(b, f, v) : v \in Latest(V(f))} : f \in F}
<1>1. \A f \in F : \A v \in V(f) : VersionOK(v)
  BY DEF ContentsOK, VersionsOf
<1>2. {r \in Rows(b, a).flags : r.project_id = Id(b, project)} = {FlagRow(b, f) : f \in F}
  BY Tables, IdColumn, SMTT(30) DEF FlagRow, FlagsOf
<1>3. ASSUME NEW f
      PROVE  {r \in Rows(b, a).versions : r.flag_id = FlagRow(b, f).id}
               = {VersionRow(b, v) : v \in V(f)}
  <2>1. FlagRow(b, f).id = Id(b, f.id) /\ \A v : VersionRow(b, v).flag_id = Id(b, v.flag_id)
    BY SMT DEF FlagRow, VersionRow
  <2>2. Rows(b, a).versions = {VersionRow(b, v) : v \in a.versions}
    BY Tables
  <2>3. \A v : Id(b, v.flag_id) = Id(b, f.id) <=> v.flag_id = f.id
    BY IdColumn, SMT
  <2> QED BY <2>1, <2>2, <2>3, SMT DEF VersionsOf
<1>4. ASSUME NEW f, NEW v
      PROVE  /\ Joined(FlagRow(b, f), VersionRow(b, v)) = PairRow(b, f, v)
             /\ Joined(FlagRow(b, f), VersionRow(b, v)) = PairRow(b, f, v)
  <2>1. /\ FlagRow(b, f).key = f.key /\ VersionRow(b, v).flag_id = Id(b, v.flag_id)
        /\ VersionRow(b, v).version = v.version /\ VersionRow(b, v).strategy = v.strategy
        /\ VersionRow(b, v).compiled = Json(b, v.compiled)
    BY SMTT(30) DEF FlagRow, VersionRow
  <2> QED BY <2>1 DEF Joined, PairRow
<1>5. LatestVersions(a, project) = UNION {{Pair(f, v) : v \in Latest(V(f))} : f \in F}
  BY DEF LatestVersions
<1>6. CASE b = "postgres"
  <2> DEFINE G(id) == sqlGetLatestFlagVersion(Rows(b, a), id)
             R == {FlagRow(b, f) : f \in F}
             all == UNION {{Joined(r, w) : w \in G(r.id)} : r \in R}
  <2>1. sqlListLatestFlagVersions(Rows(b, a), Id(b, project)) = all
    BY <1>2 DEF sqlListLatestFlagVersions, sqlListFlagsByProject
  <2>2. \A f : G(FlagRow(b, f).id) = {VersionRow(b, v) : v \in Latest(V(f))}
    <3> SUFFICES ASSUME NEW f PROVE G(FlagRow(b, f).id) = {VersionRow(b, v) : v \in Latest(V(f))}
      OBVIOUS
    <3>1. G(FlagRow(b, f).id)
            = Latest({r \in Rows(b, a).versions : r.flag_id = FlagRow(b, f).id})
      BY DEF sqlGetLatestFlagVersion, Newest, Latest
    <3>2. \A v : VersionRow(b, v).version = v.version
      BY SMT DEF VersionRow
    <3> HIDE DEF V
    <3>3. Latest({VersionRow(b, v) : v \in V(f)}) = {VersionRow(b, v) : v \in Latest(V(f))}
      BY <3>2, SMT DEF Latest
    <3> QED BY <1>3, <3>1, <3>3
  <2> HIDE DEF F, V, G
  <2>3. all = rows
    <3>1. ASSUME NEW x \in all PROVE x \in rows
      <4>1. PICK r \in R : \E w \in G(r.id) : x = Joined(r, w)
        OBVIOUS
      <4>2. PICK w \in G(r.id) : x = Joined(r, w)
        BY <4>1
      <4>3. PICK f \in F : r = FlagRow(b, f)
        OBVIOUS
      <4>4. PICK v \in Latest(V(f)) : w = VersionRow(b, v)
        BY <2>2, <4>3
      <4>5. x = PairRow(b, f, v)
        BY <1>4, <4>2, <4>3, <4>4
      <4>6. x \in {PairRow(b, f, u) : u \in Latest(V(f))}
        BY <4>5
      <4> QED BY <4>6
    <3>2. ASSUME NEW x \in rows PROVE x \in all
      <4>1. PICK f \in F : \E v \in Latest(V(f)) : x = PairRow(b, f, v)
        OBVIOUS
      <4>2. PICK v \in Latest(V(f)) : x = PairRow(b, f, v)
        BY <4>1
      <4>3. VersionRow(b, v) \in G(FlagRow(b, f).id) /\ FlagRow(b, f) \in R
        BY <2>2
      <4>4. x = Joined(FlagRow(b, f), VersionRow(b, v))
        BY <1>4, <4>2
      <4>5. x \in {Joined(FlagRow(b, f), w) : w \in G(FlagRow(b, f).id)}
        BY <4>3, <4>4
      <4>6. \E r \in R : x \in {Joined(r, w) : w \in G(r.id)}
        BY <4>3, <4>5
      <4> QED BY <4>6
    <3> QED BY <3>1, <3>2
  <2>4. storeListLatestFlagVersions(b, Rows(b, a), project)
          = {latestFlagVersionFromRow(r) : r \in rows}
    BY <1>6, <2>1, <2>3 DEF storeListLatestFlagVersions, pgListLatestFlagVersions, Id
  <2>5. \A f \in F : \A v \in Latest(V(f)) :
           latestFlagVersionFromRow(PairRow(b, f, v)) = Pair(f, v)
    BY <1>1, <1>6, LatestBack DEF Latest
  <2> QED BY <1>5, <2>4, <2>5, SMT
<1>7. CASE b # "postgres"
  <2> DEFINE all == AllPairs(b, a, F)
             R == {FlagRow(b, f) : f \in F}
             G(id) == {w \in Rows(b, a).versions : w.flag_id = id}
             joined == UNION {{Joined(r, w) : w \in G(r.id)} : r \in R}
  <2>1. sqlListFlagsByProject(Rows(b, a), Id(b, project)) = R
    BY <1>2 DEF sqlListFlagsByProject
  <2>2. joined = all
    <3>1. \A f : G(FlagRow(b, f).id) = {VersionRow(b, v) : v \in V(f)}
      BY <1>3
    <3>2. all = UNION {{PairRow(b, f, v) : v \in V(f)} : f \in F}
      BY DEF AllPairs
    <3> HIDE DEF F, V, G
    <3>3. ASSUME NEW x \in joined PROVE x \in all
      <4>1. PICK r \in R : \E w \in G(r.id) : x = Joined(r, w)
        OBVIOUS
      <4>2. PICK w \in G(r.id) : x = Joined(r, w)
        BY <4>1
      <4>3. PICK f \in F : r = FlagRow(b, f)
        OBVIOUS
      <4>4. PICK v \in V(f) : w = VersionRow(b, v)
        BY <3>1, <4>3
      <4>5. x = PairRow(b, f, v)
        BY <1>4, <4>2, <4>3, <4>4
      <4>6. x \in {PairRow(b, f, u) : u \in V(f)}
        BY <4>5
      <4>7. x \in UNION {{PairRow(b, e, u) : u \in V(e)} : e \in F}
        BY <4>6
      <4> QED BY <3>2, <4>7
    <3>4. ASSUME NEW x \in all PROVE x \in joined
      <4>1. PICK f \in F : \E v \in V(f) : x = PairRow(b, f, v)
        BY <3>2
      <4>2. PICK v \in V(f) : x = PairRow(b, f, v)
        BY <4>1
      <4>3. VersionRow(b, v) \in G(FlagRow(b, f).id) /\ FlagRow(b, f) \in R
        BY <3>1
      <4>4. x = Joined(FlagRow(b, f), VersionRow(b, v))
        BY <1>4, <4>2
      <4>5. x \in {Joined(FlagRow(b, f), w) : w \in G(FlagRow(b, f).id)}
        BY <4>3, <4>4
      <4> QED BY <4>3, <4>5
    <3> QED BY <3>3, <3>4
  <2>3. sqlListLatestFlagVersionsSqlite(Rows(b, a), Id(b, project))
          = {r \in all : IsFirst(all, r)}
    <3> HIDE DEF all, R
    <3> QED BY <2>1, <2>2 DEF sqlListLatestFlagVersionsSqlite, IsFirst
  <2>4. ASSUME NEW f \in F, NEW v \in V(f)
        PROVE  IsFirst(all, PairRow(b, f, v)) <=> v \in Latest(V(f))
    <3>1. F \subseteq a.flags /\ f \in a.flags
      BY DEF FlagsOf
    <3> QED BY <3>1, FirstOfPartition
  <2>5. \A f : Latest(V(f)) \subseteq V(f)
    BY DEF Latest
  <2> HIDE DEF F, V
  <2>6. sqlListLatestFlagVersionsSqlite(Rows(b, a), Id(b, project)) = rows
    <3>1. all = UNION {{PairRow(b, f, v) : v \in V(f)} : f \in F}
      BY DEF AllPairs, V
    <3> HIDE DEF all
    <3> QED BY <2>3, <2>4, <2>5, <3>1, SMTT(30)
  <2>7. storeListLatestFlagVersions(b, Rows(b, a), project)
          = {sqliteLatestFlagVersionFromRow(r) : r \in rows}
    BY <1>7, <2>6 DEF storeListLatestFlagVersions, sqliteListLatestFlagVersions, Id
  <2>8. \A f \in F : \A v \in Latest(V(f)) :
           sqliteLatestFlagVersionFromRow(PairRow(b, f, v)) = Pair(f, v)
    BY <1>1, <1>7, LatestBack DEF Latest
  <2> QED BY <1>5, <2>7, <2>8, SMT
<1> QED BY <1>6, <1>7

\* Rows that a unique index cannot hold both of.
SameKey(t, x, y) == \A c \in Index(t) : x[c] = y[c]

Inserted(b, w, row) ==
    [err |-> w.err, db |-> Rows(b, w.a), row |-> IF w.err = "nil" THEN <<row>> ELSE <<>>]
-----------------------------------------------------------------------------
(* Writes *)

\* ContentsOK, table by table.
LEMMA ByTable ==
    ASSUME NEW b, NEW a
    PROVE  ContentsOK(b, a)
             <=> /\ Columns(a, TableNames)
                 /\ \A t \in TableNames : /\ \A x \in a[t] : OK(b, t, x)
                                          /\ Unique(a[t], Index(t))
                                          /\ IsFiniteSet(a[t])
BY DEF ContentsOK, TableNames, OK, Index

\* An INSERT that respects the index leaves contents a database can have.
LEMMA InsertionOK ==
    ASSUME NEW b, NEW a, ContentsOK(b, a), NEW t \in TableNames, NEW x, OK(b, t, x)
    PROVE  ContentsOK(b, Insertion(a, t, x).a)
<1>1. CASE \E y \in a[t] : \A c \in Index(t) : y[c] = x[c]
  <2>1. Insertion(a, t, x).a = a
    BY <1>1, SMT DEF Insertion, Refusal
  <2> QED BY <2>1
<1>2. CASE ~ \E y \in a[t] : \A c \in Index(t) : y[c] = x[c]
  <2> DEFINE n == Insertion(a, t, x).a
  <2>1. n = [a EXCEPT ![t] = @ \cup {x}]
    BY <1>2, SMT DEF Insertion
  <2>2. a = [u \in TableNames |-> a[u]]
    BY DEF ContentsOK, Columns
  <2> HIDE DEF n
  <2>3. n = [u \in TableNames |-> n[u]] /\ n[t] = a[t] \cup {x}
        /\ \A u \in TableNames \ {t} : n[u] = a[u]
    BY <2>1, <2>2
  <2>4. \A u \in TableNames : /\ \A y \in a[u] : OK(b, u, y)
                              /\ Unique(a[u], Index(u))
                              /\ IsFiniteSet(a[u])
    BY ByTable
  <2>5. ASSUME NEW u \in TableNames
        PROVE  /\ \A y \in n[u] : OK(b, u, y)
               /\ Unique(n[u], Index(u))
               /\ IsFiniteSet(n[u])
    <3>1. CASE u # t
      BY <2>3, <2>4, <3>1
    <3>2. CASE u = t
      <4>1. \A y \in n[u] : OK(b, u, y)
        BY <2>3, <2>4, <3>2
      <4>2. Unique(n[u], Index(u))
        <5> SUFFICES ASSUME NEW p \in n[u], NEW q \in n[u], \A c \in Index(u) : p[c] = q[c]
                     PROVE  p = q
          BY DEF Unique
        <5>1. CASE p \in a[t] /\ q \in a[t]
          BY <2>4, <3>2, <5>1 DEF Unique
        <5>2. CASE p \in a[t] /\ q = x
          BY <1>2, <3>2, <5>2
        <5>3. CASE p = x /\ q \in a[t]
          <6>1. \A c \in Index(t) : q[c] = x[c]
            BY <3>2, <5>3
          <6> QED BY <1>2, <5>3, <6>1
        <5> QED BY <2>3, <3>2, <5>1, <5>2, <5>3
      <4>3. IsFiniteSet(n[u])
        <5>1. IsFiniteSet(a[t] \cup {x})
          BY <2>4, FS_AddElement
        <5> QED BY <2>3, <3>2, <5>1
      <4> QED BY <4>1, <4>2, <4>3
    <3> QED BY <3>1, <3>2
  <2> QED BY <2>3, <2>5, ByTable DEF Columns, n
<1> QED BY <1>1, <1>2

\* The unique index on the rows is the one on what they keep.
LEMMA RowIndex ==
    ASSUME NEW b, NEW t \in TableNames, NEW x, NEW y
    PROVE  SameKey(t, Row(b, t, x), Row(b, t, y)) <=> SameKey(t, x, y)
<1> USE DEF SameKey
<1>1. \A u, w : Id(b, u) = Id(b, w) <=> u = w
  BY IdColumn, SMT
<1>2. CASE t = "projects"
  <2>1. \A z : ProjectRow(b, z).slug = z.slug
    BY SMT DEF ProjectRow
  <2> QED BY <1>2, <2>1 DEF Index, Row
<1>3. CASE t = "environments"
  <2>1. \A z : EnvironmentRow(b, z).project_id = Id(b, z.project_id) /\ EnvironmentRow(b, z).slug = z.slug
    BY SMT DEF EnvironmentRow
  <2>2. /\ Index(t) = {"project_id", "slug"}
        /\ Row(b, t, x) = EnvironmentRow(b, x) /\ Row(b, t, y) = EnvironmentRow(b, y)
    BY <1>3 DEF Index, Row
  <2> QED BY <1>1, <2>1, <2>2, SMT
<1>4. CASE t = "flags"
  <2>1. \A z : FlagRow(b, z).project_id = Id(b, z.project_id) /\ FlagRow(b, z).key = z.key
    BY SMT DEF FlagRow
  <2>2. /\ Index(t) = {"project_id", "key"}
        /\ Row(b, t, x) = FlagRow(b, x) /\ Row(b, t, y) = FlagRow(b, y)
    BY <1>4 DEF Index, Row
  <2> QED BY <1>1, <2>1, <2>2, SMTT(30)
<1>5. CASE t = "versions"
  <2>1. \A z : VersionRow(b, z).flag_id = Id(b, z.flag_id) /\ VersionRow(b, z).version = z.version
    BY SMT DEF VersionRow
  <2>2. /\ Index(t) = {"flag_id", "version"}
        /\ Row(b, t, x) = VersionRow(b, x) /\ Row(b, t, y) = VersionRow(b, y)
    BY <1>5 DEF Index, Row
  <2> QED BY <1>1, <2>1, <2>2, SMT
<1>6. CASE t = "segments"
  <2>1. \A z : SegmentRow(b, z).project_id = Id(b, z.project_id) /\ SegmentRow(b, z).key = z.key
    BY SMT DEF SegmentRow
  <2>2. /\ Index(t) = {"project_id", "key"}
        /\ Row(b, t, x) = SegmentRow(b, x) /\ Row(b, t, y) = SegmentRow(b, y)
    BY <1>6 DEF Index, Row
  <2> QED BY <1>1, <2>1, <2>2, SMTT(30)
<1>7. CASE t = "snapshots"
  <2>1. \A z : SnapshotRow(b, z).project_id = Id(b, z.project_id) /\ SnapshotRow(b, z).version = z.version
    BY SMTT(30) DEF SnapshotRow
  <2>2. /\ Index(t) = {"project_id", "version"}
        /\ Row(b, t, x) = SnapshotRow(b, x) /\ Row(b, t, y) = SnapshotRow(b, y)
    BY <1>7 DEF Index, Row
  <2> QED BY <1>1, <2>1, <2>2, SMT
<1>8. CASE t = "audit"
  <2>1. \A z : EventRow(b, z).id = Id(b, z.id)
    BY SMT DEF EventRow
  <2>2. /\ Index(t) = {"id"}
        /\ Row(b, t, x) = EventRow(b, x) /\ Row(b, t, y) = EventRow(b, y)
    BY <1>8 DEF Index, Row
  <2> QED BY <1>1, <2>1, <2>2, SMTT(30)
<1> QED BY <1>2, <1>3, <1>4, <1>5, <1>6, <1>7, <1>8 DEF TableNames

\* An INSERT on the rows is the insertion into the contents.
LEMMA Inserts ==
    ASSUME NEW b, NEW a, ContentsOK(b, a), NEW t \in TableNames, NEW x
    PROVE  LET w == Insertion(a, t, x)
               row == Row(b, t, x)
           IN  /\ Insert(Rows(b, a), t, row, Index(t)) = Inserted(b, w, row)
               /\ Insert(Rows(b, a), t, row, Index(t)) = Inserted(b, w, row)
<1> DEFINE w == Insertion(a, t, x)
           row == Row(b, t, x)
           d == Rows(b, a)
<1>1. d[t] = {Row(b, t, y) : y \in a[t]} /\ d = [u \in TableNames |-> d[u]]
  BY DEF Rows
<1>2. (\E r \in d[t] : \A c \in Index(t) : r[c] = row[c])
        <=> \E y \in a[t] : \A c \in Index(t) : y[c] = x[c]
  <2>1. (\E r \in d[t] : \A c \in Index(t) : r[c] = row[c])
        <=> \E y \in a[t] : \A c \in Index(t) : Row(b, t, y)[c] = row[c]
    <3> HIDE DEF d, row
    <3> QED BY <1>1
  <2>2. \A y \in a[t] : (\A c \in Index(t) : Row(b, t, y)[c] = row[c])
                            <=> \A c \in Index(t) : y[c] = x[c]
    <3>1. \A y \in a[t] : SameKey(t, Row(b, t, y), row) <=> SameKey(t, y, x)
      BY RowIndex
    <3> HIDE DEF row
    <3> QED BY <3>1 DEF SameKey
  <2> QED BY <2>1, <2>2
<1>3. CASE \E y \in a[t] : \A c \in Index(t) : y[c] = x[c]
  <2>1. w.err = "unique" /\ w.a = a
    BY <1>3, SMT DEF Insertion, Refusal
  <2>2. Inserted(b, w, row) = [err |-> "unique", db |-> d, row |-> <<>>]
    BY <2>1 DEF Inserted
  <2> HIDE DEF d, w, row
  <2> QED BY <1>2, <1>3, <2>2 DEF Insert, Refused, w, row, d
<1>4. CASE ~ \E y \in a[t] : \A c \in Index(t) : y[c] = x[c]
  <2>1. w.err = "nil" /\ w.a = [a EXCEPT ![t] = @ \cup {x}]
    BY <1>4, SMT DEF Insertion
  <2>2. a = [u \in TableNames |-> a[u]]
    BY DEF ContentsOK, Columns
  <2> HIDE DEF w
  <2>3. w.a[t] = a[t] \cup {x} /\ \A u \in TableNames \ {t} : w.a[u] = a[u]
    BY <2>1, <2>2
  <2>4. ASSUME NEW u \in TableNames
        PROVE  {Row(b, u, y) : y \in w.a[u]} = IF u = t THEN d[t] \cup {row} ELSE d[u]
    <3>1. CASE u = t
      BY <1>1, <2>3, <3>1
    <3>2. CASE u # t
      BY <2>3, <3>2 DEF Rows
    <3> QED BY <3>1, <3>2
  <2> HIDE DEF d, row
  <2>5. Rows(b, w.a) = [d EXCEPT ![t] = @ \cup {row}]
    BY <1>1, <2>4 DEF Rows
  <2>6. Inserted(b, w, row) = [err |-> "nil", db |-> [d EXCEPT ![t] = @ \cup {row}], row |-> <<row>>]
    BY <2>1, <2>5 DEF Inserted
  <2> QED BY <1>2, <1>4, <2>6 DEF Insert, Wrote, w, row, d
<1> QED BY <1>3, <1>4

\* An insertion leaves contents a database can have, and what it returns.
LEMMA InsertionComes ==
    ASSUME NEW b, NEW a, ContentsOK(b, a), NEW t \in TableNames, NEW x, OK(b, t, x)
    PROVE  WriteOK(b, t, Insertion(a, t, x))
<1>1. ContentsOK(b, Insertion(a, t, x).a)
  BY InsertionOK
<1>2. Insertion(a, t, x).err = "nil" => Insertion(a, t, x).val = <<x>>
  BY SMT DEF Insertion, Refusal
<1>3. <<x>>[1] = x
  BY SMT
<1>4. Single(<<x>>)
  BY <1>3 DEF Single
<1> QED BY <1>1, <1>2, <1>3, <1>4 DEF WriteOK

\* So does a refusal, which changes nothing.
LEMMA RefusalComes ==
    ASSUME NEW b, NEW a, ContentsOK(b, a), NEW t, NEW err, err # "nil"
    PROVE  WriteOK(b, t, Refusal(a, err))
<1>1. Refusal(a, err).err = err /\ Refusal(a, err).a = a
  BY SMT DEF Refusal
<1> QED BY <1>1 DEF WriteOK

\* CreateProject does on the rows what NewProject does on the contents.
LEMMA CreatesProject ==
    ASSUME NEW b, NEW a, ContentsOK(b, a), NEW slug, NEW name, NEW strategy
    PROVE  LET w == NewProject(a, slug, name, strategy)
           IN  /\ storeCreateProject(b, Rows(b, a), slug, name, strategy) = Kept(b, w)
               /\ WriteOK(b, "projects", w)
<1> DEFINE x == [id |-> <<slug>>, slug |-> slug, display_name |-> name,
                 config_strategy |-> strategy]
           w == Insertion(a, "projects", x)
           row == ProjectRow(b, x)
<1>1. /\ "projects" \in TableNames /\ Index("projects") = {"slug"}
      /\ Row(b, "projects", x) = row /\ (OK(b, "projects", x) <=> ProjectOK(x))
  BY DEF TableNames, Index, Row, OK
<1>2. CASE strategy \notin Strategies
  <2>1. NewProject(a, slug, name, strategy) = Refusal(a, "check")
    BY <1>2 DEF NewProject
  <2>2. /\ Refusal(a, "check").err = "check" /\ Refusal(a, "check").a = a
        /\ Refusal(a, "check").val = <<>>
    BY SMT DEF Refusal
  <2>3. storeCreateProject(b, Rows(b, a), slug, name, strategy) = Kept(b, Refusal(a, "check"))
    <3> DEFINE d == Rows(b, a)
    <3> HIDE DEF d
    <3>1. ASSUME NEW r, r.config_strategy = strategy
          PROVE  /\ sqlCreateProject(d, r) = [err |-> "check", db |-> d, row |-> <<>>]
                 /\ sqlCreateProject(d, r) = [err |-> "check", db |-> d, row |-> <<>>]
      BY <1>2, <3>1 DEF sqlCreateProject, Refused, Strategies
    <3>2. storeCreateProject(b, d, slug, name, strategy) = [err |-> "check", db |-> d, val |-> <<>>]
      BY <3>1, SMT DEF storeCreateProject, pgCreateProject, Returning,
         sqliteCreateProject
    <3> QED BY <2>2, <3>2 DEF Kept, d
  <2> QED BY <2>1, <2>3, RefusalComes
<1>3. CASE strategy \in Strategies
  <2>1. NewProject(a, slug, name, strategy) = w
    BY <1>3 DEF NewProject
  <2>2. ProjectOK(x)
    BY <1>3, SMT DEF ProjectOK, Columns, ProjectColumns
  <2>3. /\ b = "postgres" => projectFromRow(row) = x
        /\ b # "postgres" => sqliteProjectFromRow(row) = x
    <3> HIDE DEF x
    <3> QED BY <2>2, ProjectBack
  <2>4. /\ b = "postgres" => row = [id |-> fromUUID(<<slug>>), slug |-> slug,
                                    display_name |-> name, config_strategy |-> strategy]
        /\ b # "postgres" => row = [id |-> sqliteUUIDString(<<slug>>), slug |-> slug,
                                    display_name |-> name, config_strategy |-> strategy]
    BY SMT DEF ProjectRow, Id
  <2>5. row.config_strategy = strategy
    BY SMT DEF ProjectRow
  <2> HIDE DEF x, row
  <2>6. /\ Insert(Rows(b, a), "projects", row, {"slug"}) = Inserted(b, w, row)
        /\ Insert(Rows(b, a), "projects", row, {"slug"}) = Inserted(b, w, row)
    BY <1>1, Inserts
  <2>7. w.val = IF w.err = "nil" THEN <<x>> ELSE <<>>
    BY SMT DEF Insertion, Refusal
  <2> HIDE DEF w
  <2>8. storeCreateProject(b, Rows(b, a), slug, name, strategy) = Kept(b, w)
    <3>1. /\ Inserted(b, w, row).err = w.err /\ Inserted(b, w, row).db = Rows(b, w.a)
          /\ w.err = "nil" => Inserted(b, w, row).row[1] = row
      BY SMT DEF Inserted
    <3>2. CASE b = "postgres"
      <4>1. storeCreateProject(b, Rows(b, a), slug, name, strategy)
              = Returning(Inserted(b, w, row), projectFromRow)
        BY <1>3, <2>4, <2>5, <2>6, <3>2 DEF storeCreateProject, pgCreateProject,
           sqlCreateProject, Strategies
      <4> QED BY <2>3, <2>7, <3>1, <3>2, <4>1 DEF Returning, Kept
    <3>3. CASE b # "postgres"
      <4>1. storeCreateProject(b, Rows(b, a), slug, name, strategy)
              = Returning(Inserted(b, w, row), sqliteProjectFromRow)
        BY <1>3, <2>4, <2>5, <2>6, <3>3 DEF storeCreateProject, sqliteCreateProject,
           sqlCreateProject, Strategies
      <4> QED BY <2>3, <2>7, <3>1, <3>3, <4>1 DEF Returning, Kept
    <3> QED BY <3>2, <3>3
  <2>9. WriteOK(b, "projects", w)
    BY <1>1, <2>2, InsertionComes DEF w
  <2> QED BY <2>1, <2>8, <2>9
<1> QED BY <1>2, <1>3

\* An id made of two parts.
LEMMA Appended ==
    ASSUME NEW u, Single(u), NEW k
    PROVE  u \o <<k>> = <<u[1], k>>
<1>1. ASSUME NEW m PROVE <<m>> \o <<k>> = <<m, k>>
  <2> DEFINE S == {m, k}
             c == <<m>> \o <<k>>
  <2>1. <<m>> \in Seq(S) /\ <<k>> \in Seq(S) /\ <<m, k>> \in Seq(S)
    BY SMT
  <2>2. Len(<<m>>) = 1 /\ Len(<<k>>) = 1 /\ <<m>>[1] = m /\ <<k>>[1] = k
    BY SMT
  <2>3. c \in Seq(S) /\ Len(c) = 2 /\ c[1] = m /\ c[2] = k
    BY <2>1, <2>2, SMT
  <2> HIDE DEF S, c
  <2>4. Len(<<m, k>>) = 2 /\ <<m, k>>[1] = m /\ <<m, k>>[2] = k
    BY SMT
  <2>5. ASSUME NEW i \in 1 .. 2 PROVE c[i] = <<m, k>>[i]
    <3>1. i = 1 \/ i = 2
      BY SMT
    <3> QED BY <2>3, <2>4, <3>1
  <2>6. c = <<m, k>>
    BY <2>1, <2>3, <2>4, <2>5, SMTT(30)
  <2> QED BY <2>6 DEF c
<1> QED BY <1>1 DEF Single

\* CreateEnvironment does on the rows what NewEnvironment does on the contents.
LEMMA CreatesEnvironment ==
    ASSUME NEW b, NEW a, ContentsOK(b, a), NEW project, NEW slug, NEW name
    PROVE  LET w == NewEnvironment(a, project, slug, name)
           IN  /\ storeCreateEnvironment(b, Rows(b, a), project, slug, name) = Kept(b, w)
               /\ WriteOK(b, "environments", w)
<1> DEFINE x == [id |-> project \o <<slug>>, project_id |-> project, slug |-> slug,
                 name |-> name]
           w == Insertion(a, "environments", x)
           row == EnvironmentRow(b, x)
<1>1. /\ "environments" \in TableNames /\ Index("environments") = {"project_id", "slug"}
      /\ Row(b, "environments", x) = row /\ (OK(b, "environments", x) <=> EnvironmentOK(x))
  BY DEF TableNames, Index, Row, OK
<1>2. NewEnvironment(a, project, slug, name) = w
  BY Zenon DEF NewEnvironment
<1>3. EnvironmentOK(x)
  BY SMT DEF EnvironmentOK, Columns, EnvironmentColumns
<1>4. /\ b = "postgres" => environmentFromRow(row) = x
      /\ b # "postgres" => sqliteEnvironmentFromRow(row) = x
  <2> HIDE DEF x
  <2> QED BY <1>3, EnvironmentBack
<1>5. /\ b = "postgres" => row = [id |-> fromUUID(project \o <<slug>>),
                                    project_id |-> fromUUID(project), slug |-> slug,
                                    name |-> name]
      /\ b # "postgres" => row = [id |-> sqliteUUIDString(project \o <<slug>>),
                                    project_id |-> sqliteUUIDString(project),
                                    slug |-> slug, name |-> name]
  BY SMT DEF EnvironmentRow, Id
<1> HIDE DEF x, row
<1>6. /\ Insert(Rows(b, a), "environments", row, {"project_id", "slug"}) = Inserted(b, w, row)
      /\ Insert(Rows(b, a), "environments", row, {"project_id", "slug"}) = Inserted(b, w, row)
  BY <1>1, Inserts
<1>7. w.val = IF w.err = "nil" THEN <<x>> ELSE <<>>
  BY SMT DEF Insertion, Refusal
<1> HIDE DEF w
<1>8. storeCreateEnvironment(b, Rows(b, a), project, slug, name) = Kept(b, w)
  <2>1. /\ Inserted(b, w, row).err = w.err /\ Inserted(b, w, row).db = Rows(b, w.a)
        /\ w.err = "nil" => Inserted(b, w, row).row[1] = row
    BY SMT DEF Inserted
  <2>2. CASE b = "postgres"
    <3>1. storeCreateEnvironment(b, Rows(b, a), project, slug, name)
            = Returning(Inserted(b, w, row), environmentFromRow)
      BY <1>5, <1>6, <2>2 DEF storeCreateEnvironment, pgCreateEnvironment,
         sqlCreateEnvironment
    <3> QED BY <1>4, <1>7, <2>1, <2>2, <3>1 DEF Returning, Kept
  <2>3. CASE b # "postgres"
    <3>1. storeCreateEnvironment(b, Rows(b, a), project, slug, name)
            = Returning(Inserted(b, w, row), sqliteEnvironmentFromRow)
      BY <1>5, <1>6, <2>3 DEF storeCreateEnvironment, sqliteCreateEnvironment,
         sqlCreateEnvironment
    <3> QED BY <1>4, <1>7, <2>1, <2>3, <3>1 DEF Returning, Kept
  <2> QED BY <2>2, <2>3
<1>9. WriteOK(b, "environments", w)
  BY <1>1, <1>3, InsertionComes DEF w
<1> QED BY <1>2, <1>8, <1>9

\* CreateFlag does on the rows what NewFlag does on the contents.
LEMMA CreatesFlag ==
    ASSUME NEW b, NEW a, ContentsOK(b, a), NEW p,
           Single(p.project_id), Single(p.default_value)
    PROVE  LET w == NewFlag(a, p)
           IN  /\ storeCreateFlag(b, Rows(b, a), p) = Kept(b, w)
               /\ WriteOK(b, "flags", w)
<1> DEFINE x == [id |-> p.project_id \o <<p.key>>, project_id |-> p.project_id,
                 key |-> p.key, name |-> p.name, description |-> p.description,
                 value_type |-> p.value_type, default_value |-> p.default_value]
           w == Insertion(a, "flags", x)
           row == FlagRow(b, x)
<1>1. /\ "flags" \in TableNames /\ Index("flags") = {"project_id", "key"}
      /\ Row(b, "flags", x) = row /\ (OK(b, "flags", x) <=> FlagOK(x))
  BY DEF TableNames, Index, Row, OK
<1>2. CASE p.value_type \notin ValueTypes
  <2>1. NewFlag(a, p) = Refusal(a, "check")
    BY <1>2 DEF NewFlag
  <2>2. /\ Refusal(a, "check").err = "check" /\ Refusal(a, "check").a = a
        /\ Refusal(a, "check").val = <<>>
    BY SMT DEF Refusal
  <2>3. storeCreateFlag(b, Rows(b, a), p) = Kept(b, Refusal(a, "check"))
    <3> DEFINE d == Rows(b, a)
    <3> HIDE DEF d
    <3>1. ASSUME NEW r, r.value_type = p.value_type
          PROVE  sqlCreateFlag(d, r) = [err |-> "check", db |-> d, row |-> <<>>]
      BY <1>2, <3>1 DEF sqlCreateFlag, Refused, ValueTypes
    <3>2. storeCreateFlag(b, d, p) = [err |-> "check", db |-> d, val |-> <<>>]
      <4> DEFINE rp == [id |-> fromUUID(p.project_id \o <<p.key>>),
                        project_id |-> fromUUID(p.project_id), key |-> p.key, name |-> p.name,
                        description |-> p.description, value_type |-> p.value_type,
                        default_value |-> p.default_value]
                 rs == [id |-> sqliteUUIDString(p.project_id \o <<p.key>>),
                        project_id |-> sqliteUUIDString(p.project_id), key |-> p.key,
                        name |-> p.name, description |-> p.description,
                        value_type |-> p.value_type,
                        default_value |-> sqliteRawMessage(p.default_value)]
                 no == [err |-> "check", db |-> d, row |-> <<>>]
      <4>1. /\ b = "postgres" => storeCreateFlag(b, d, p) = Returning(sqlCreateFlag(d, rp), flagFromRow)
            /\ b # "postgres" =>
                   storeCreateFlag(b, d, p) = Returning(sqlCreateFlag(d, rs), sqliteFlagFromRow)
        BY Zenon DEF storeCreateFlag, pgCreateFlag, sqliteCreateFlag
      <4>2. rp.value_type = p.value_type /\ rs.value_type = p.value_type
        OBVIOUS
      <4> HIDE DEF rp, rs
      <4>3. sqlCreateFlag(d, rp) = no /\ sqlCreateFlag(d, rs) = no
        BY <3>1, <4>2
      <4>4. Returning(no, flagFromRow) = [err |-> "check", db |-> d, val |-> <<>>]
        BY SMTT(30) DEF Returning
      <4>5. Returning(no, sqliteFlagFromRow) = [err |-> "check", db |-> d, val |-> <<>>]
        BY SMTT(30) DEF Returning
      <4> HIDE DEF no
      <4> QED BY <4>1, <4>3, <4>4, <4>5
    <3> QED BY <2>2, <3>2 DEF Kept, d
  <2> QED BY <2>1, <2>3, RefusalComes
<1>3. CASE p.value_type \in ValueTypes
  <2>1. NewFlag(a, p) = w
    BY <1>3, Zenon DEF NewFlag
  <2>2. FlagOK(x)
    <3>1. /\ x.id = p.project_id \o <<p.key>> /\ x.project_id = p.project_id
          /\ x.key = p.key /\ x.value_type = p.value_type
          /\ x.default_value = p.default_value
      BY SMT
    <3>2. Columns(x, FlagColumns)
      BY DEF Columns, FlagColumns
    <3>3. p.project_id \o <<p.key>> = <<p.project_id[1], p.key>>
      BY Appended
    <3> HIDE DEF x
    <3> QED BY <1>3, <3>1, <3>2, <3>3 DEF FlagOK
  <2>3. /\ b = "postgres" => flagFromRow(row) = x
        /\ b # "postgres" => sqliteFlagFromRow(row) = x
    <3> HIDE DEF x
    <3> QED BY <2>2, FlagBack
  <2>4. /\ b = "postgres" => row = [id |-> fromUUID(p.project_id \o <<p.key>>),
                                      project_id |-> fromUUID(p.project_id),
                                      key |-> p.key, name |-> p.name,
                                      description |-> p.description,
                                      value_type |-> p.value_type,
                                      default_value |-> p.default_value]
        /\ b # "postgres" => row = [id |-> sqliteUUIDString(p.project_id \o <<p.key>>),
                                      project_id |-> sqliteUUIDString(p.project_id),
                                      key |-> p.key, name |-> p.name,
                                      description |-> p.description,
                                      value_type |-> p.value_type,
                                      default_value |-> sqliteRawMessage(p.default_value)]
    <3>1. /\ x.id = p.project_id \o <<p.key>> /\ x.project_id = p.project_id
          /\ x.key = p.key /\ x.name = p.name /\ x.description = p.description
          /\ x.value_type = p.value_type /\ x.default_value = p.default_value
      BY SMTT(30)
    <3> HIDE DEF x
    <3> QED BY <3>1 DEF FlagRow, Id, Json
  <2>5. row.value_type = p.value_type
    BY SMT DEF FlagRow
  <2> HIDE DEF x, row
  <2>6. /\ Insert(Rows(b, a), "flags", row, {"project_id", "key"}) = Inserted(b, w, row)
        /\ Insert(Rows(b, a), "flags", row, {"project_id", "key"}) = Inserted(b, w, row)
    BY <1>1, Inserts
  <2>7. w.val = IF w.err = "nil" THEN <<x>> ELSE <<>>
    BY SMT DEF Insertion, Refusal
  <2> HIDE DEF w
  <2>8. storeCreateFlag(b, Rows(b, a), p) = Kept(b, w)
    <3>1. /\ Inserted(b, w, row).err = w.err /\ Inserted(b, w, row).db = Rows(b, w.a)
          /\ w.err = "nil" => Inserted(b, w, row).row[1] = row
      BY SMT DEF Inserted
    <3>2. CASE b = "postgres"
      <4>1. storeCreateFlag(b, Rows(b, a), p)
              = Returning(Inserted(b, w, row), flagFromRow)
        BY <1>3, <2>4, <2>5, <2>6, <3>2 DEF storeCreateFlag, pgCreateFlag, sqlCreateFlag,
           ValueTypes
      <4> QED BY <2>3, <2>7, <3>1, <3>2, <4>1 DEF Returning, Kept
    <3>3. CASE b # "postgres"
      <4>1. storeCreateFlag(b, Rows(b, a), p)
              = Returning(Inserted(b, w, row), sqliteFlagFromRow)
        BY <1>3, <2>4, <2>5, <2>6, <3>3 DEF storeCreateFlag, sqliteCreateFlag,
           sqlCreateFlag, ValueTypes
      <4> QED BY <2>3, <2>7, <3>1, <3>3, <4>1 DEF Returning, Kept
    <3> QED BY <3>2, <3>3
  <2>9. WriteOK(b, "flags", w)
    BY <1>1, <2>2, InsertionComes DEF w
  <2> QED BY <2>1, <2>8, <2>9
<1> QED BY <1>2, <1>3

\* CreateSegment does on the rows what NewSegment does on the contents.
LEMMA CreatesSegment ==
    ASSUME NEW b, NEW a, ContentsOK(b, a), NEW p, RawObject(p.predicate)
    PROVE  LET w == NewSegment(a, p)
           IN  /\ storeCreateSegment(b, Rows(b, a), p) = Kept(b, w)
               /\ WriteOK(b, "segments", w)
<1> DEFINE x == [id |-> p.project_id \o <<p.key>>, project_id |-> p.project_id,
                 key |-> p.key, name |-> p.name, description |-> p.description,
                 predicate |-> p.predicate]
           w == Insertion(a, "segments", x)
           row == SegmentRow(b, x)
<1>1. /\ "segments" \in TableNames /\ Index("segments") = {"project_id", "key"}
      /\ Row(b, "segments", x) = row /\ (OK(b, "segments", x) <=> SegmentOK(x))
  BY DEF TableNames, Index, Row, OK
<1>2. NewSegment(a, p) = w
  BY Zenon DEF NewSegment
<1>3. SegmentOK(x)
  <2>1. x.predicate = p.predicate
    BY SMT
  <2>2. Columns(x, SegmentColumns)
    BY DEF Columns, SegmentColumns
  <2> HIDE DEF x
  <2> QED BY <2>1, <2>2 DEF SegmentOK
<1>4. /\ b = "postgres" => segmentFromRow(row) = x
      /\ b # "postgres" => sqliteSegmentFromRow(row) = x
  <2> HIDE DEF x
  <2> QED BY <1>3, SegmentBack
<1>5. /\ b = "postgres" => row = [id |-> fromUUID(p.project_id \o <<p.key>>),
                                    project_id |-> fromUUID(p.project_id),
                                    key |-> p.key, name |-> p.name,
                                    description |-> p.description,
                                    predicate |-> p.predicate]
      /\ b # "postgres" => row = [
                                    id |-> sqliteUUIDString(p.project_id \o <<p.key>>),
                                    project_id |-> sqliteUUIDString(p.project_id),
                                    key |-> p.key, name |-> p.name,
                                    description |-> p.description,
                                    predicate |-> sqliteRawMessage(p.predicate)]
  BY SMT DEF SegmentRow, Id, Json
<1> HIDE DEF x, row
<1>6. /\ Insert(Rows(b, a), "segments", row, {"project_id", "key"}) = Inserted(b, w, row)
      /\ Insert(Rows(b, a), "segments", row, {"project_id", "key"}) = Inserted(b, w, row)
  BY <1>1, Inserts
<1>7. w.val = IF w.err = "nil" THEN <<x>> ELSE <<>>
  BY SMT DEF Insertion, Refusal
<1> HIDE DEF w
<1>8. storeCreateSegment(b, Rows(b, a), p) = Kept(b, w)
  <2>1. /\ Inserted(b, w, row).err = w.err /\ Inserted(b, w, row).db = Rows(b, w.a)
        /\ w.err = "nil" => Inserted(b, w, row).row[1] = row
    BY SMT DEF Inserted
  <2>2. CASE b = "postgres"
    <3>1. storeCreateSegment(b, Rows(b, a), p)
            = Returning(Inserted(b, w, row), segmentFromRow)
      BY <1>5, <1>6, <2>2 DEF storeCreateSegment, pgCreateSegment, sqlCreateSegment,
         pgSegmentParams
    <3> QED BY <1>4, <1>7, <2>1, <2>2, <3>1 DEF Returning, Kept
  <2>3. CASE b # "postgres"
    <3>1. storeCreateSegment(b, Rows(b, a), p)
            = Returning(Inserted(b, w, row), sqliteSegmentFromRow)
      BY <1>5, <1>6, <2>3 DEF storeCreateSegment, sqliteCreateSegment,
         sqlCreateSegment, sqliteSegmentParams
    <3> QED BY <1>4, <1>7, <2>1, <2>3, <3>1 DEF Returning, Kept
  <2> QED BY <2>2, <2>3
<1>9. WriteOK(b, "segments", w)
  BY <1>1, <1>3, InsertionComes DEF w
<1> QED BY <1>2, <1>8, <1>9

\* Rows of one flag or of one project: no two have the same version number.
Numbered(S) ==
    /\ IsFiniteSet(S)
    /\ \A x \in S : x.version \in Nat
    /\ \A x, y \in S : x.version = y.version => x = y

Renders(S, T, h) ==
    /\ \A x \in S : h[x] \in T /\ h[x].version = x.version
    /\ \A t \in T : \E x \in S : t = h[x]

\* Rows numbered apart have one with the highest number.
LEMMA HasLatest ==
    ASSUME NEW S, Numbered(S), S # {}
    PROVE  \E m \in S : Latest(S) = {m}
<1> DEFINE R == VersionOrder(S)
           n == Cardinality(S)
           f == Above(S, R)
<1>1. Orders(R, S)
  BY VersionsOrdered DEF Numbered
<1>2. /\ n \in Nat
      /\ \A x \in S : f[x] \in 0 .. n - 1
      /\ \A x, y \in S : <<x, y>> \in R => f[y] < f[x]
      /\ \A i \in 1 .. n : \E x \in S : f[x] = i - 1
  <2>1. IsFiniteSet(S)
    BY DEF Numbered
  <2> HIDE DEF R
  <2> QED BY <1>1, <2>1, Ranks, SMT
<1> HIDE DEF f, n
<1>3. 1 \in 1 .. n
  <2>1. PICK x \in S : TRUE
    OBVIOUS
  <2> QED BY <1>2, <2>1, SMT
<1>4. PICK m \in S : f[m] = 0
  <2>1. PICK m \in S : f[m] = 1 - 1
    BY <1>2, <1>3
  <2> QED BY <2>1, SMT
<1>5. ASSUME NEW x \in S PROVE x.version <= m.version
  <2>1. <<m, x>> \notin R
    <3> HIDE DEF R
    <3>1. ~ (f[x] < f[m])
      BY <1>2, <1>4, SMT
    <3> QED BY <1>2, <3>1
  <2>2. ~ (m.version < x.version)
    BY <2>1, SMT DEF VersionOrder
  <2>3. x.version \in Nat /\ m.version \in Nat
    BY DEF Numbered
  <2> QED BY <2>2, <2>3, SMTT(30)
<1>6. ASSUME NEW x \in Latest(S) PROVE x = m
  <2>1. x \in S /\ m.version <= x.version /\ x.version <= m.version
    BY <1>5 DEF Latest
  <2>2. x.version \in Nat /\ m.version \in Nat
    BY <2>1 DEF Numbered
  <2>3. x.version = m.version
    BY <2>1, <2>2, SMTT(30)
  <2> QED BY <2>1, <2>3 DEF Numbered
<1> QED BY <1>5, <1>6 DEF Latest

\* MAX(version) + 1 on the rows is the next number of what they keep.
LEMMA NextNumber ==
    ASSUME NEW S, Numbered(S), NEW T, NEW h, Renders(S, T, h)
    PROVE  /\ Following(S) \in Nat \ {0}
           /\ \A x \in S : x.version # Following(S)
           /\ NextVersion(T) = Following(S)
<1>1. CASE S = {}
  <2>1. T = {}
    BY <1>1 DEF Renders
  <2>2. Following(S) = 1 /\ 1 \in Nat \ {0}
    BY <1>1, SMT DEF Following
  <2> QED BY <1>1, <2>1, <2>2 DEF NextVersion
<1>2. CASE S # {}
  <2>1. PICK m \in S : Latest(S) = {m}
    BY <1>2, HasLatest
  <2>2. Following(S) = m.version + 1
    BY <1>2, <2>1, Singleton DEF Following
  <2>3. \A x \in S : x.version \in Nat /\ x.version <= m.version
    BY <2>1 DEF Latest, Numbered
  <2>4. Following(S) \in Nat \ {0} /\ \A x \in S : x.version # Following(S)
    BY <2>2, <2>3, SMTT(30)
  <2>5. Latest(T) = {h[m]}
    <3>1. ASSUME NEW t \in T PROVE t.version <= h[m].version
      <4>1. PICK x \in S : t = h[x]
        BY DEF Renders
      <4>2. t.version = x.version /\ h[m].version = m.version
        BY <4>1 DEF Renders
      <4> QED BY <2>3, <4>2
    <3>2. ASSUME NEW t \in Latest(T) PROVE t = h[m]
      <4>1. PICK x \in S : t = h[x]
        BY DEF Renders, Latest
      <4>2. t.version = x.version /\ h[m].version = m.version /\ h[m] \in T
        BY <4>1 DEF Renders
      <4>3. m.version <= x.version
        BY <4>2 DEF Latest
      <4>4. x.version = m.version
        BY <2>3, <4>3, SMT
      <4> QED BY <4>1, <4>4 DEF Numbered
    <3>3. h[m] \in T
      BY DEF Renders
    <3> QED BY <3>1, <3>2, <3>3 DEF Latest
  <2>6. h[m].version = m.version /\ T # {}
    BY DEF Renders
  <2>7. Newest(T) = Latest(T)
    BY DEF Newest, Latest
  <2>8. (CHOOSE r \in {h[m]} : TRUE) = h[m]
    BY Singleton
  <2>9. NextVersion(T) = (CHOOSE r \in {h[m]} : TRUE).version + 1
    BY <2>5, <2>6, <2>7 DEF NextVersion
  <2> QED BY <2>2, <2>4, <2>6, <2>8, <2>9
<1> QED BY <1>1, <1>2

\* PublishFlagVersion inserts the version after the newest one on either
\* backend: its number is free, so a publication never conflicts.
LEMMA PublishesVersion ==
    ASSUME NEW b, NEW a, ContentsOK(b, a), NEW p, p.strategy \in Strategies,
           RawObject(p.source), RawObject(p.compiled)
    PROVE  LET w == NewVersion(a, p)
           IN  /\ storePublishFlagVersion(b, Rows(b, a), p) = Kept(b, w)
               /\ WriteOK(b, "versions", w)
               /\ w.err = "nil"
<1> DEFINE V == VersionsOf(a, p.flag_id)
           n == Following(V)
<1>1. /\ n \in Nat \ {0}
      /\ \A y \in V : y.version # n
      /\ b = "postgres" => sqlNextFlagVersion(Rows(b, a), fromUUID(p.flag_id)) = n
      /\ b # "postgres" => sqlNextFlagVersion(Rows(b, a), sqliteUUIDString(p.flag_id)) = n
  <2> DEFINE T == {r \in Rows(b, a).versions : r.flag_id = Id(b, p.flag_id)}
             h == [y \in V |-> VersionRow(b, y)]
  <2>1. Numbered(V)
    <3>1. IsFiniteSet(V)
      BY FS_Subset DEF ContentsOK, VersionsOf
    <3>2. \A y \in V : y.version \in Nat
      BY DEF ContentsOK, VersionsOf, VersionOK
    <3>3. Unique(a.versions, {"flag_id", "version"})
      BY DEF ContentsOK
    <3>4. \A y, z \in V : y.version = z.version => y = z
      BY <3>3, SMTT(30) DEF Unique, VersionsOf
    <3> HIDE DEF V
    <3> QED BY <3>1, <3>2, <3>4 DEF Numbered
  <2>2. T = {VersionRow(b, y) : y \in V}
    <3>1. \A y : VersionRow(b, y).flag_id = Id(b, y.flag_id)
      BY SMT DEF VersionRow
    <3>2. Rows(b, a).versions = {VersionRow(b, y) : y \in a.versions}
      BY Tables
    <3>3. \A y : Id(b, y.flag_id) = Id(b, p.flag_id) <=> y.flag_id = p.flag_id
      BY IdColumn
    <3> QED BY <3>1, <3>2, <3>3, SMTT(30) DEF VersionsOf
  <2>3. \A y : VersionRow(b, y).version = y.version
    BY SMT DEF VersionRow
  <2>4. Renders(V, T, h)
    <3> HIDE DEF V, T
    <3> QED BY <2>2, <2>3 DEF Renders
  <2>5. /\ b = "postgres" => sqlNextFlagVersion(Rows(b, a), fromUUID(p.flag_id)) = NextVersion(T)
        /\ b # "postgres" => sqlNextFlagVersion(Rows(b, a), sqliteUUIDString(p.flag_id))
                               = NextVersion(T)
    BY DEF sqlNextFlagVersion, Id
  <2> HIDE DEF V, T, h
  <2> QED BY <2>1, <2>4, <2>5, NextNumber
<1> DEFINE x == [id |-> p.flag_id \o <<n>>, flag_id |-> p.flag_id, version |-> n,
                 strategy |-> p.strategy, source |-> p.source, compiled |-> p.compiled,
                 source_text |-> p.source_text]
           w == Insertion(a, "versions", x)
           row == VersionRow(b, x)
<1>2. /\ "versions" \in TableNames /\ Index("versions") = {"flag_id", "version"}
      /\ Row(b, "versions", x) = row /\ (OK(b, "versions", x) <=> VersionOK(x))
  BY DEF TableNames, Index, Row, OK
<1>3. NewVersion(a, p) = w
  BY Zenon DEF NewVersion
<1> HIDE DEF n
<1>4. VersionOK(x)
  <2>1. /\ x.version = n /\ x.strategy = p.strategy /\ x.source = p.source
        /\ x.compiled = p.compiled
    BY SMTT(30)
  <2>2. Columns(x, VersionColumns)
    BY DEF Columns, VersionColumns
  <2> HIDE DEF x
  <2> QED BY <1>1, <2>1, <2>2 DEF VersionOK
<1>5. /\ b = "postgres" => flagVersionFromRow(row) = x
      /\ b # "postgres" => sqliteFlagVersionFromRow(row) = x
  <2> HIDE DEF x
  <2> QED BY <1>4, VersionBack
<1>6. /\ b = "postgres" => row = [id |-> fromUUID(p.flag_id \o <<n>>),
                                    flag_id |-> fromUUID(p.flag_id), version |-> n,
                                    strategy |-> p.strategy, source |-> p.source,
                                    compiled |-> p.compiled,
                                    source_text |-> textFromString(p.source_text)]
      /\ b # "postgres" => row = [id |-> sqliteUUIDString(p.flag_id \o <<n>>),
                                    flag_id |-> sqliteUUIDString(p.flag_id),
                                    version |-> n, strategy |-> p.strategy,
                                    source |-> sqliteRawMessage(p.source),
                                    compiled |-> sqliteRawMessage(p.compiled),
                                    source_text |-> sqliteStringFromString(p.source_text)]
  <2>1. /\ x.id = p.flag_id \o <<n>> /\ x.flag_id = p.flag_id /\ x.version = n
        /\ x.strategy = p.strategy /\ x.source = p.source /\ x.compiled = p.compiled
        /\ x.source_text = p.source_text
    BY SMTT(30)
  <2> HIDE DEF x
  <2> QED BY <2>1 DEF VersionRow, Id, Json, Text
<1>7. w.err = "nil"
  <2>1. x.flag_id = p.flag_id /\ x.version = n
    BY SMT
  <2>2. Index("versions") = {"flag_id", "version"}
    BY DEF Index
  <2> HIDE DEF x
  <2>3. ~ \E y \in a["versions"] : \A c \in Index("versions") : y[c] = x[c]
    <3> SUFFICES ASSUME NEW y \in a.versions, y.flag_id = p.flag_id, y.version = n PROVE FALSE
      BY <2>1, <2>2
    <3>1. y \in V
      BY DEF VersionsOf
    <3> QED BY <1>1, <3>1
  <2> QED BY <2>3, SMTT(30) DEF Insertion
<1> HIDE DEF x, row
<1>8. /\ Insert(Rows(b, a), "versions", row, {"flag_id", "version"}) = Inserted(b, w, row)
      /\ Insert(Rows(b, a), "versions", row, {"flag_id", "version"}) = Inserted(b, w, row)
  BY <1>2, Inserts
<1>9. w.val = IF w.err = "nil" THEN <<x>> ELSE <<>>
  BY SMT DEF Insertion, Refusal
<1> HIDE DEF w
<1>10. storePublishFlagVersion(b, Rows(b, a), p) = Kept(b, w)
  <2>1. /\ Inserted(b, w, row).err = w.err /\ Inserted(b, w, row).db = Rows(b, w.a)
        /\ w.err = "nil" => Inserted(b, w, row).row[1] = row
    BY SMT DEF Inserted
  <2>2. CASE b = "postgres"
    <3>1. storePublishFlagVersion(b, Rows(b, a), p)
            = Returning(Inserted(b, w, row), flagVersionFromRow)
      BY <1>1, <1>6, <1>8, <2>2 DEF storePublishFlagVersion, pgPublishFlagVersion,
         sqlCreateFlagVersion
    <3> QED BY <1>5, <1>9, <2>1, <2>2, <3>1 DEF Returning, Kept
  <2>3. CASE b # "postgres"
    <3>1. storePublishFlagVersion(b, Rows(b, a), p)
            = Returning(Inserted(b, w, row), sqliteFlagVersionFromRow)
      BY <1>1, <1>6, <1>8, <2>3 DEF storePublishFlagVersion, sqlitePublishFlagVersion,
         sqlCreateFlagVersion
    <3> QED BY <1>5, <1>9, <2>1, <2>3, <3>1 DEF Returning, Kept
  <2> QED BY <2>2, <2>3
<1>11. WriteOK(b, "versions", w)
  BY <1>2, <1>4, InsertionComes DEF w
<1> QED BY <1>3, <1>7, <1>10, <1>11

\* CompileSnapshot inserts the snapshot after the newest one on either backend:
\* its number is free, so it never conflicts.
LEMMA CompilesSnapshot ==
    ASSUME NEW b, NEW a, ContentsOK(b, a), NEW p, Single(p.project_id),
           OneOrNone(p.environment_id), RawObject(p.compiled)
    PROVE  LET w == NewSnapshot(a, p)
           IN  /\ storeCompileSnapshot(b, Rows(b, a), p) = Kept(b, w)
               /\ WriteOK(b, "snapshots", w)
               /\ w.err = "nil"
<1> DEFINE V == SnapshotsOf(a, p.project_id)
           n == Following(V)
<1>1. /\ n \in Nat \ {0}
      /\ \A y \in V : y.version # n
      /\ b = "postgres" => sqlNextSnapshotVersion(Rows(b, a), fromUUID(p.project_id)) = n
      /\ b # "postgres" => sqlNextSnapshotVersion(Rows(b, a), sqliteUUIDString(p.project_id)) = n
  <2> DEFINE T == {r \in Rows(b, a).snapshots : r.project_id = Id(b, p.project_id)}
             h == [y \in V |-> SnapshotRow(b, y)]
  <2>1. Numbered(V)
    <3>1. IsFiniteSet(V)
      BY FS_Subset DEF ContentsOK, SnapshotsOf
    <3>2. \A y \in V : y.version \in Nat
      BY DEF ContentsOK, SnapshotsOf, SnapshotOK
    <3>3. Unique(a.snapshots, {"project_id", "version"})
      BY DEF ContentsOK
    <3>4. \A y, z \in V : y.version = z.version => y = z
      BY <3>3, SMTT(30) DEF Unique, SnapshotsOf
    <3> HIDE DEF V
    <3> QED BY <3>1, <3>2, <3>4 DEF Numbered
  <2>2. T = {SnapshotRow(b, y) : y \in V}
    <3>1. \A y : SnapshotRow(b, y).project_id = Id(b, y.project_id)
      BY SMTT(30) DEF SnapshotRow
    <3>2. Rows(b, a).snapshots = {SnapshotRow(b, y) : y \in a.snapshots}
      BY Tables
    <3>3. \A y : Id(b, y.project_id) = Id(b, p.project_id) <=> y.project_id = p.project_id
      BY IdColumn
    <3> QED BY <3>1, <3>2, <3>3, SMTT(30) DEF SnapshotsOf
  <2>3. \A y : SnapshotRow(b, y).version = y.version
    BY SMTT(30) DEF SnapshotRow
  <2>4. Renders(V, T, h)
    <3> HIDE DEF V, T
    <3> QED BY <2>2, <2>3 DEF Renders
  <2>5. /\ b = "postgres" => sqlNextSnapshotVersion(Rows(b, a), fromUUID(p.project_id)) = NextVersion(T)
        /\ b # "postgres" => sqlNextSnapshotVersion(Rows(b, a), sqliteUUIDString(p.project_id))
                               = NextVersion(T)
    BY DEF sqlNextSnapshotVersion, Id
  <2> HIDE DEF V, T, h
  <2> QED BY <2>1, <2>4, <2>5, NextNumber
<1> DEFINE x == [id |-> p.project_id \o <<n>>, project_id |-> p.project_id,
                 environment_id |-> p.environment_id, version |-> n,
                 compiled |-> p.compiled]
           w == Insertion(a, "snapshots", x)
           row == SnapshotRow(b, x)
<1>2. /\ "snapshots" \in TableNames /\ Index("snapshots") = {"project_id", "version"}
      /\ Row(b, "snapshots", x) = row /\ (OK(b, "snapshots", x) <=> SnapshotOK(x))
  BY DEF TableNames, Index, Row, OK
<1>3. NewSnapshot(a, p) = w
  BY Zenon DEF NewSnapshot
<1>4. SnapshotOK(x)
  <2>1. /\ x.id = p.project_id \o <<n>> /\ x.project_id = p.project_id
        /\ x.environment_id = p.environment_id /\ x.version = n
        /\ x.compiled = p.compiled
    BY SMT
  <2>2. Columns(x, SnapshotColumns)
    BY DEF Columns, SnapshotColumns
  <2>3. p.project_id \o <<n>> = <<p.project_id[1], n>>
    BY Appended
  <2> HIDE DEF x, n
  <2> QED BY <1>1, <2>1, <2>2, <2>3 DEF SnapshotOK
<1>5. /\ b = "postgres" => snapshotFromRow(row) = x
      /\ b # "postgres" => sqliteSnapshotFromRow(row) = x
  <2> HIDE DEF x
  <2> QED BY <1>4, SnapshotBack
<1>6. /\ b = "postgres" => row = [id |-> fromUUID(p.project_id \o <<n>>),
                                    project_id |-> fromUUID(p.project_id),
                                    environment_id |-> fromNullUUID(p.environment_id),
                                    version |-> n, compiled |-> p.compiled]
      /\ b # "postgres" => row = [
                                    id |-> sqliteUUIDString(p.project_id \o <<n>>),
                                    project_id |-> sqliteUUIDString(p.project_id),
                                    environment_id |-> sqliteFromNullUUID(p.environment_id),
                                    version |-> n,
                                    compiled |-> sqliteRawMessage(p.compiled)]
  BY SMTT(30) DEF SnapshotRow, Id, Json, OptionalId
<1>7. w.err = "nil"
  <2>1. x.project_id = p.project_id /\ x.version = n
    BY SMT
  <2>2. Index("snapshots") = {"project_id", "version"}
    BY DEF Index
  <2> HIDE DEF x, n
  <2>3. ~ \E y \in a["snapshots"] : \A c \in Index("snapshots") : y[c] = x[c]
    <3> SUFFICES ASSUME NEW y \in a.snapshots, y.project_id = p.project_id, y.version = n PROVE FALSE
      BY <2>1, <2>2
    <3>1. y \in V
      BY DEF SnapshotsOf
    <3> QED BY <1>1, <3>1
  <2> QED BY <2>3, SMT DEF Insertion
<1> HIDE DEF x, row, n
<1>8. /\ Insert(Rows(b, a), "snapshots", row, {"project_id", "version"}) = Inserted(b, w, row)
      /\ Insert(Rows(b, a), "snapshots", row, {"project_id", "version"}) = Inserted(b, w, row)
  BY <1>2, Inserts
<1>9. w.val = IF w.err = "nil" THEN <<x>> ELSE <<>>
  BY SMT DEF Insertion, Refusal
<1> HIDE DEF w
<1>10. storeCompileSnapshot(b, Rows(b, a), p) = Kept(b, w)
  <2>1. /\ Inserted(b, w, row).err = w.err /\ Inserted(b, w, row).db = Rows(b, w.a)
        /\ w.err = "nil" => Inserted(b, w, row).row[1] = row
    BY SMT DEF Inserted
  <2>2. CASE b = "postgres"
    <3>1. storeCompileSnapshot(b, Rows(b, a), p)
            = Returning(Inserted(b, w, row), snapshotFromRow)
      BY <1>1, <1>6, <1>8, <2>2 DEF storeCompileSnapshot, pgCompileSnapshot,
         sqlCreateSnapshot
    <3> QED BY <1>5, <1>9, <2>1, <2>2, <3>1 DEF Returning, Kept
  <2>3. CASE b # "postgres"
    <3>1. storeCompileSnapshot(b, Rows(b, a), p)
            = Returning(Inserted(b, w, row), sqliteSnapshotFromRow)
      BY <1>1, <1>6, <1>8, <2>3 DEF storeCompileSnapshot, sqliteCompileSnapshot,
         sqlCreateSnapshot
    <3> QED BY <1>5, <1>9, <2>1, <2>3, <3>1 DEF Returning, Kept
  <2> QED BY <2>2, <2>3
<1>11. WriteOK(b, "snapshots", w)
  BY <1>2, <1>4, InsertionComes DEF w
<1> QED BY <1>3, <1>7, <1>10, <1>11

\* What UPDATE ... SET changes in a row.
SetColumns(r, q) ==
    [r EXCEPT !.name = q.name, !.description = q.description, !.predicate = q.predicate]

\* The UPDATE on a table: no row with the key, or the one row there is.
LEMMA SegmentQuery ==
    ASSUME NEW d, NEW q
    PROVE  LET old == {r \in d.segments : r.project_id = q.project_id /\ r.key = q.key}
               none == [err |-> "no_rows", db |-> d, row |-> <<>>]
           IN  /\ old = {} => sqlUpdateSegment(d, q) = none
               /\ \A r : old = {r} =>
                    LET new == [err |-> "nil",
                                db |-> [d EXCEPT !.segments = (@ \ {r}) \cup {SetColumns(r, q)}],
                                row |-> <<SetColumns(r, q)>>]
                    IN  sqlUpdateSegment(d, q) = new
<1> DEFINE old == {r \in d.segments : r.project_id = q.project_id /\ r.key = q.key}
<1>1. CASE old = {}
  BY <1>1 DEF sqlUpdateSegment, sqlGetSegmentByKey, Refused
<1>2. ASSUME NEW r, old = {r}
      PROVE  LET new == [err |-> "nil",
                         db |-> [d EXCEPT !.segments = (@ \ {r}) \cup {SetColumns(r, q)}],
                         row |-> <<SetColumns(r, q)>>]
             IN  sqlUpdateSegment(d, q) = new
  <2>1. {SetColumns(y, q) : y \in {r}} = {SetColumns(r, q)} /\ {r} # {}
    OBVIOUS
  <2>2. (CHOOSE y \in {SetColumns(r, q)} : TRUE) = SetColumns(r, q)
    BY Singleton
  <2>3. LET set == {SetColumns(y, q) : y \in old}
            new == [err |-> "nil", db |-> [d EXCEPT !.segments = (@ \ old) \cup set],
                    row |-> <<CHOOSE y \in set : TRUE>>]
        IN  sqlUpdateSegment(d, q) = new
    <3>1. old # {}
      BY <1>2
    <3> QED BY <3>1 DEF sqlUpdateSegment, sqlGetSegmentByKey, Wrote, SetColumns
  <2> HIDE DEF old
  <2> QED BY <1>2, <2>1, <2>2, <2>3
<1> QED BY <1>1, <1>2

\* Replacing a segment by one with the same key leaves contents a database can have.
LEMMA ReplacementOK ==
    ASSUME NEW b, NEW a, ContentsOK(b, a), NEW s \in a.segments, NEW n, SegmentOK(n),
           n.project_id = s.project_id, n.key = s.key
    PROVE  /\ ContentsOK(b, Replaced(a, s, n))
           /\ Rows(b, Replaced(a, s, n))
                = [Rows(b, a) EXCEPT !.segments = (@ \ {SegmentRow(b, s)}) \cup {SegmentRow(b, n)}]
<1> DEFINE c == Replaced(a, s, n)
           d == Rows(b, a)
<1>1. a = [u \in TableNames |-> a[u]] /\ "segments" \in TableNames
  BY DEF ContentsOK, Columns, TableNames
<1>2. /\ c = [u \in TableNames |-> c[u]] /\ c.segments = (a.segments \ {s}) \cup {n}
      /\ \A u \in TableNames \ {"segments"} : c[u] = a[u]
  BY <1>1 DEF Replaced
<1> HIDE DEF c
<1>3. \A u \in TableNames : /\ \A y \in a[u] : OK(b, u, y)
                            /\ Unique(a[u], Index(u))
                            /\ IsFiniteSet(a[u])
  BY ByTable
<1>4. \A y \in a.segments : SegmentOK(y)
  BY DEF ContentsOK
<1>5. Unique(a.segments, {"project_id", "key"}) /\ IsFiniteSet(a.segments)
  BY DEF ContentsOK
<1>6. ContentsOK(b, c)
  <2>1. \A y \in c.segments : SegmentOK(y)
    BY <1>2, <1>4
  <2>2. Unique(c.segments, {"project_id", "key"})
    <3> SUFFICES ASSUME NEW y \in c.segments, NEW z \in c.segments, y.project_id = z.project_id, y.key = z.key
                 PROVE  y = z
      BY DEF Unique
    <3>1. \A u, v \in a.segments : u.project_id = v.project_id /\ u.key = v.key => u = v
      BY <1>5 DEF Unique
    <3> QED BY <1>2, <3>1
  <2>3. IsFiniteSet(c.segments)
    <3>1. IsFiniteSet(a.segments \ {s})
      BY <1>5, FS_Subset
    <3>2. IsFiniteSet((a.segments \ {s}) \cup {n})
      BY <3>1, FS_AddElement
    <3> QED BY <1>2, <3>2
  <2>4. ASSUME NEW u \in TableNames
        PROVE  /\ \A y \in c[u] : OK(b, u, y)
               /\ Unique(c[u], Index(u))
               /\ IsFiniteSet(c[u])
    <3>1. CASE u = "segments"
      BY <2>1, <2>2, <2>3, <3>1 DEF OK, Index
    <3>2. CASE u # "segments"
      BY <1>2, <1>3, <3>2
    <3> QED BY <3>1, <3>2
  <2> QED BY <1>2, <2>4, ByTable DEF Columns
<1>7. Rows(b, c) = [d EXCEPT !.segments = (@ \ {SegmentRow(b, s)}) \cup {SegmentRow(b, n)}]
  <2>1. \A y \in a.segments : SegmentRow(b, y) = SegmentRow(b, s) => y = s
    <3> SUFFICES ASSUME NEW y \in a.segments, SegmentRow(b, y) = SegmentRow(b, s) PROVE y = s
      OBVIOUS
    <3>1. SegmentOK(y) /\ SegmentOK(s)
      BY <1>4
    <3>2. CASE b = "postgres"
      <4>1. segmentFromRow(SegmentRow(b, y)) = y
        BY <3>1, <3>2, SegmentBack
      <4>2. segmentFromRow(SegmentRow(b, s)) = s
        BY <3>1, <3>2, SegmentBack
      <4> QED BY <4>1, <4>2
    <3>3. CASE b # "postgres"
      <4>1. sqliteSegmentFromRow(SegmentRow(b, y)) = y
        BY <3>1, <3>3, SegmentBack
      <4>2. sqliteSegmentFromRow(SegmentRow(b, s)) = s
        BY <3>1, <3>3, SegmentBack
      <4> QED BY <4>1, <4>2
    <3> QED BY <3>2, <3>3
  <2>2. d = [u \in TableNames |-> d[u]] /\ d.segments = {SegmentRow(b, y) : y \in a.segments}
    BY Tables DEF Rows
  <2>3. ASSUME NEW u \in TableNames
        PROVE  {Row(b, u, y) : y \in c[u]}
                 = IF u = "segments" THEN (d.segments \ {SegmentRow(b, s)}) \cup {SegmentRow(b, n)} ELSE d[u]
    <3>1. CASE u = "segments"
      <4>1. {Row(b, u, y) : y \in c[u]} = {SegmentRow(b, y) : y \in (a.segments \ {s}) \cup {n}}
        BY <1>2, <3>1 DEF Row
      <4>2. {SegmentRow(b, y) : y \in (a.segments \ {s}) \cup {n}}
              = (d.segments \ {SegmentRow(b, s)}) \cup {SegmentRow(b, n)}
        <5> HIDE DEF d
        <5> QED BY <2>1, <2>2
      <4> QED BY <3>1, <4>1, <4>2
    <3>2. CASE u # "segments"
      BY <1>2, <3>2 DEF Rows
    <3> QED BY <3>1, <3>2
  <2> HIDE DEF d
  <2> QED BY <1>1, <2>2, <2>3 DEF Rows
<1> QED BY <1>6, <1>7 DEF c

\* UpdateSegment does on the rows what ChangedSegment does on the contents.
LEMMA UpdatesSegment ==
    ASSUME NEW b, NEW a, ContentsOK(b, a), NEW p, RawObject(p.predicate)
    PROVE  LET w == ChangedSegment(a, p)
           IN  /\ storeUpdateSegment(b, Rows(b, a), p) = Kept(b, w)
               /\ WriteOK(b, "segments", w)
<1> DEFINE sel == SegmentsBy(a, p.project_id, p.key)
           d == Rows(b, a)
           q == IF b = "postgres" THEN pgSegmentParams(p) ELSE sqliteSegmentParams(p)
           rows == {r \in d.segments : r.project_id = q.project_id /\ r.key = q.key}
<1>1. /\ q.project_id = Id(b, p.project_id) /\ q.key = p.key /\ q.name = p.name
      /\ q.description = p.description /\ q.predicate = Json(b, p.predicate)
  BY SMTT(30) DEF pgSegmentParams, sqliteSegmentParams, Id, Json
<1> HIDE DEF q
<1>2. rows = {SegmentRow(b, s) : s \in sel}
  <2>1. d.segments = {SegmentRow(b, s) : s \in a.segments}
    BY Tables
  <2>2. \A s : SegmentRow(b, s).project_id = Id(b, s.project_id) /\ SegmentRow(b, s).key = s.key
    BY SMTT(30) DEF SegmentRow
  <2>3. \A v, w : Id(b, v) = Id(b, w) <=> v = w
    BY IdColumn
  <2> HIDE DEF d
  <2>4. \A s : /\ SegmentRow(b, s).project_id = q.project_id
               /\ SegmentRow(b, s).key = q.key
              <=> s.project_id = p.project_id /\ s.key = p.key
    <3> TAKE s
    <3>1. SegmentRow(b, s).project_id = Id(b, s.project_id) /\ SegmentRow(b, s).key = s.key
      BY <2>2
    <3>2. Id(b, s.project_id) = Id(b, p.project_id) <=> s.project_id = p.project_id
      BY <2>3
    <3> QED BY <1>1, <3>1, <3>2
  <2>5. \A s : s \in sel <=> s \in a.segments /\ s.project_id = p.project_id /\ s.key = p.key
    BY DEF SegmentsBy
  <2> HIDE DEF sel
  <2>6. ASSUME NEW r \in rows PROVE r \in {SegmentRow(b, s) : s \in sel}
    BY <2>1, <2>4, <2>5, <2>6
  <2>7. ASSUME NEW s \in sel PROVE SegmentRow(b, s) \in rows
    BY <2>1, <2>4, <2>5, <2>7
  <2> HIDE DEF rows
  <2> QED BY <2>6, <2>7
<1> HIDE DEF d
<1>3. /\ b = "postgres" => storeUpdateSegment(b, d, p) = Returning(sqlUpdateSegment(d, q), segmentFromRow)
      /\ b # "postgres" => storeUpdateSegment(b, d, p)
                             = Returning(sqlUpdateSegment(d, q), sqliteSegmentFromRow)
  BY DEF storeUpdateSegment, pgUpdateSegment, sqliteUpdateSegment, q
<1>4. CASE sel = {}
  <2> DEFINE none == [err |-> "no_rows", db |-> d, row |-> <<>>]
  <2>1. ChangedSegment(a, p) = Refusal(a, "no_rows")
    BY <1>4 DEF ChangedSegment
  <2>2. rows = {}
    BY <1>2, <1>4
  <2>3. sqlUpdateSegment(d, q) = none
    BY <2>2, SegmentQuery
  <2>4. storeUpdateSegment(b, d, p) = [err |-> "no_rows", db |-> d, val |-> <<>>]
    <3>1. none.err = "no_rows" /\ none.db = d /\ "no_rows" # "nil"
      BY SMT
    <3> HIDE DEF none
    <3>2. CASE b = "postgres"
      BY <1>3, <2>3, <3>1, <3>2 DEF Returning
    <3>3. CASE b # "postgres"
      BY <1>3, <2>3, <3>1, <3>3 DEF Returning
    <3> QED BY <3>2, <3>3
  <2>5. /\ Refusal(a, "no_rows").err = "no_rows" /\ Refusal(a, "no_rows").a = a
        /\ Refusal(a, "no_rows").val = <<>>
    BY SMT DEF Refusal
  <2> QED BY <2>1, <2>4, <2>5, RefusalComes DEF Kept, d
<1>5. ASSUME NEW s \in sel
      PROVE  /\ storeUpdateSegment(b, d, p) = Kept(b, ChangedSegment(a, p))
             /\ WriteOK(b, "segments", ChangedSegment(a, p))
  <2> DEFINE n == Changed(s, p)
             w == Replacement(a, s, n)
             r == SegmentRow(b, s)
             row == SegmentRow(b, n)
  <2>1. s \in a.segments /\ s.project_id = p.project_id /\ s.key = p.key
    BY DEF SegmentsBy
  <2>2. sel = {s}
    <3>1. Unique(a.segments, {"project_id", "key"})
      BY DEF ContentsOK
    <3> QED BY <1>5, <3>1, SMT DEF Unique, SegmentsBy
  <2>3. ChangedSegment(a, p) = w
    <3>1. (CHOOSE x \in {s} : TRUE) = s
      BY Singleton
    <3> QED BY <2>2, <3>1 DEF ChangedSegment
  <2>4. /\ n.id = s.id /\ n.project_id = s.project_id /\ n.key = s.key /\ n.name = p.name
        /\ n.description = p.description /\ n.predicate = p.predicate
    BY SMT DEF Changed
  <2>5. SegmentOK(n)
    <3>1. Columns(n, SegmentColumns)
      BY DEF Columns, SegmentColumns, Changed
    <3> HIDE DEF n
    <3> QED BY <2>4, <3>1 DEF SegmentOK
  <2> HIDE DEF n
  <2>6. /\ ContentsOK(b, Replaced(a, s, n))
        /\ Rows(b, Replaced(a, s, n)) = [d EXCEPT !.segments = (@ \ {r}) \cup {row}]
    BY <2>1, <2>4, <2>5, ReplacementOK, SMT DEF d
  <2>7. w.err = "nil" /\ w.a = Replaced(a, s, n) /\ w.val = <<n>>
    BY SMT DEF Replacement
  <2>8. SetColumns(r, q) = row
    <3> DEFINE g == SetColumns(r, q)
    <3>1. Columns(g, SegmentColumns) /\ Columns(row, SegmentColumns)
      BY DEF SetColumns, SegmentRow, Columns, SegmentColumns
    <3>2. /\ g.id = r.id /\ g.project_id = r.project_id /\ g.key = r.key /\ g.name = q.name
          /\ g.description = q.description /\ g.predicate = q.predicate
      BY SMTT(30) DEF SetColumns, SegmentRow
    <3>3. /\ r.id = Id(b, s.id) /\ r.project_id = Id(b, s.project_id) /\ r.key = s.key
          /\ row.id = Id(b, n.id) /\ row.project_id = Id(b, n.project_id) /\ row.key = n.key
          /\ row.name = n.name /\ row.description = n.description
          /\ row.predicate = Json(b, n.predicate)
      BY SMTT(30) DEF SegmentRow
    <3> HIDE DEF g, r, row
    <3>4. /\ g.id = row.id /\ g.project_id = row.project_id /\ g.key = row.key
          /\ g.name = row.name /\ g.description = row.description /\ g.predicate = row.predicate
      BY <1>1, <2>4, <3>2, <3>3
    <3>5. g = row
      BY <3>1, <3>4, SMT DEF Columns, SegmentColumns
    <3> QED BY <3>5 DEF g
  <2>9. rows = {r}
    BY <1>2, <2>2
  <2> DEFINE new == [err |-> "nil", db |-> [d EXCEPT !.segments = (@ \ {r}) \cup {row}],
                     row |-> <<row>>]
  <2>10. sqlUpdateSegment(d, q) = new
    <3>1. LET out == [err |-> "nil",
                      db |-> [d EXCEPT !.segments = (@ \ {r}) \cup {SetColumns(r, q)}],
                      row |-> <<SetColumns(r, q)>>]
          IN  sqlUpdateSegment(d, q) = out
      <4> HIDE DEF r
      <4> QED BY <2>9, SegmentQuery
    <3> HIDE DEF r, row
    <3> QED BY <2>8, <3>1
  <2>11. new.err = "nil" /\ new.db = Rows(b, w.a) /\ new.row[1] = row
    <3> HIDE DEF row, r, w
    <3>1. new.err = "nil" /\ new.db = [d EXCEPT !.segments = (@ \ {r}) \cup {row}] /\ new.row[1] = row
      BY SMT
    <3> QED BY <2>6, <2>7, <3>1
  <2>12. /\ b = "postgres" => segmentFromRow(row) = n
         /\ b # "postgres" => sqliteSegmentFromRow(row) = n
    BY <2>5, SegmentBack
  <2> HIDE DEF new, row, r, w
  <2>13. storeUpdateSegment(b, d, p) = Kept(b, w)
    <3>1. CASE b = "postgres"
      BY <1>3, <2>7, <2>10, <2>11, <2>12, <3>1 DEF Returning, Kept
    <3>2. CASE b # "postgres"
      BY <1>3, <2>7, <2>10, <2>11, <2>12, <3>2 DEF Returning, Kept
    <3> QED BY <3>1, <3>2
  <2>14. WriteOK(b, "segments", w)
    <3>1. <<n>>[1] = n
      BY SMT
    <3>2. Single(<<n>>)
      BY <3>1 DEF Single
    <3>3. OK(b, "segments", n)
      BY <2>5 DEF OK
    <3> QED BY <2>6, <2>7, <3>1, <3>2, <3>3 DEF WriteOK
  <2> QED BY <2>3, <2>13, <2>14
<1> QED BY <1>4, <1>5 DEF d
-----------------------------------------------------------------------------
(* The audit event of a write *)

\* The event that is appended is one the table can hold.
LEMMA AuditEventOK ==
    ASSUME NEW b, NEW ev, NEW e, EventInputOK(ev, e)
    PROVE  EventOK(b, AuditEvent(b, ev, e))
<1> DEFINE x == AuditEvent(b, ev, e)
<1>1. /\ x.id = e.id /\ x.project_id = ev.project_id /\ x.flag_id = ev.flag_id
      /\ x.payload = Payload(ev) /\ x.created_at = Instant(b, e)
  BY SMT DEF AuditEvent
<1>2. Columns(x, EventColumns)
  BY DEF AuditEvent, Columns, EventColumns
<1>3. RawObject(Payload(ev))
  <2>1. CASE ev.payload = <<>>
    <3>1. Payload(ev) = <<EmptyObject>>
      BY <2>1 DEF Payload
    <3>2. <<EmptyObject>>[1] = EmptyObject
      BY SMT
    <3>3. EmptyObject.type = "object"
      BY SMT DEF EmptyObject, Object
    <3> QED BY <3>1, <3>2, <3>3 DEF RawObject, Single
  <2>2. CASE ev.payload # <<>>
    BY <2>2 DEF Payload, EventInputOK
  <2> QED BY <2>1, <2>2
<1>4. /\ Instant(b, e) \in Nat
      /\ b = "postgres" => Instant(b, e) # 0
      /\ b # "postgres" => Instant(b, e) % 2 = 0
  BY SMT DEF Instant, EventInputOK
<1>5. OneOrNone(ev.project_id) /\ OneOrNone(ev.flag_id) /\ e.id \in Nat
  BY DEF EventInputOK
<1> HIDE DEF x
<1>6. EventOK(b, x)
  BY <1>1, <1>2, <1>3, <1>4, <1>5 DEF EventOK
<1> QED BY <1>6 DEF x

\* AppendAuditEvent inserts the event.
LEMMA Appends ==
    ASSUME NEW b, NEW a, ContentsOK(b, a), NEW ev, NEW e, EventInputOK(ev, e)
    PROVE  LET x == AuditEvent(b, ev, e)
               new == Inserted(b, Insertion(a, "audit", x), EventRow(b, x))
           IN  /\ b = "postgres" => sqlAppendAuditEvent(Rows(b, a), pgAuditInsertParams(ev, e),
                                        timestampFromTime(e.start)) = new
               /\ b # "postgres" => sqlAppendAuditEvent(Rows(b, a), sqliteAuditInsertParams(ev, e),
                                        sqliteFormatTime(e.now)) = new
<1> DEFINE x == AuditEvent(b, ev, e)
           row == EventRow(b, x)
           w == Insertion(a, "audit", x)
<1>1. /\ x.id = e.id /\ x.project_id = ev.project_id /\ x.flag_id = ev.flag_id
      /\ x.action = ev.action /\ x.actor = ev.actor
      /\ x.payload = Payload(ev) /\ x.created_at = Instant(b, e)
  BY SMT DEF AuditEvent
<1>2. /\ "audit" \in TableNames /\ Index("audit") = {"id"} /\ Row(b, "audit", x) = row
  BY DEF TableNames, Index, Row
<1> HIDE DEF x
<1>3. row = [id |-> Id(b, e.id), project_id |-> OptionalId(b, ev.project_id),
             flag_id |-> OptionalId(b, ev.flag_id), action |-> ev.action,
             actor |-> Text(b, ev.actor), payload |-> Json(b, Payload(ev)),
             created_at |-> Time(b, Instant(b, e))]
  BY <1>1 DEF EventRow
<1> HIDE DEF row
<1>4. /\ Insert(Rows(b, a), "audit", row, {"id"}) = Inserted(b, w, row)
      /\ Insert(Rows(b, a), "audit", row, {"id"}) = Inserted(b, w, row)
  BY <1>2, Inserts
<1> HIDE DEF w
<1>5. CASE b = "postgres"
  <2> DEFINE q == pgAuditInsertParams(ev, e)
             now == timestampFromTime(e.start)
             kept == [id |-> q.id, project_id |-> q.project_id, flag_id |-> q.flag_id,
                      action |-> q.action, actor |-> q.actor, payload |-> q.payload,
                      created_at |-> now]
  <2>1. sqlAppendAuditEvent(Rows(b, a), q, now) = Insert(Rows(b, a), "audit", kept, {"id"})
    BY DEF sqlAppendAuditEvent
  <2>2. /\ q.id = Id(b, e.id) /\ q.project_id = OptionalId(b, ev.project_id)
        /\ q.flag_id = OptionalId(b, ev.flag_id) /\ q.action = ev.action
        /\ q.payload = Json(b, Payload(ev))
    <3>1. /\ q.id = fromUUID(e.id) /\ q.project_id = fromNullUUID(ev.project_id)
          /\ q.flag_id = fromNullUUID(ev.flag_id) /\ q.action = ev.action
      BY SMTT(30) DEF pgAuditInsertParams
    <3>2. q.payload = IF ev.payload = <<>> THEN <<EmptyObject>> ELSE ev.payload
      BY SMTT(30) DEF pgAuditInsertParams
    <3> HIDE DEF q
    <3> QED BY <1>5, <3>1, <3>2 DEF Id, OptionalId, Json, Payload
  <2>3. q.actor = Text(b, ev.actor)
    <3>1. q.actor = textFromString(ev.actor)
      BY SMT DEF pgAuditInsertParams
    <3> QED BY <1>5, <3>1 DEF Text
  <2>4. now = Time(b, Instant(b, e))
    BY <1>5 DEF Time, Instant
  <2>5. kept = row
    <3> HIDE DEF q, now
    <3> QED BY <1>3, <2>2, <2>3, <2>4
  <2> QED BY <1>4, <1>5, <2>1, <2>5 DEF x, row, w
<1>6. CASE b # "postgres"
  <2> DEFINE q == sqliteAuditInsertParams(ev, e)
             now == sqliteFormatTime(e.now)
             kept == [id |-> q.id, project_id |-> q.project_id, flag_id |-> q.flag_id,
                      action |-> q.action, actor |-> q.actor, payload |-> q.payload,
                      created_at |-> now]
  <2>1. sqlAppendAuditEvent(Rows(b, a), q, now)
          = Insert(Rows(b, a), "audit", kept, {"id"})
    BY DEF sqlAppendAuditEvent
  <2>2. /\ q.id = Id(b, e.id) /\ q.project_id = OptionalId(b, ev.project_id)
        /\ q.flag_id = OptionalId(b, ev.flag_id) /\ q.action = ev.action
        /\ q.payload = sqliteRawMessage(ev.payload)
    BY <1>6, SMTT(30) DEF sqliteAuditInsertParams, Id, OptionalId
  <2>3. q.actor = Text(b, ev.actor)
    <3>1. q.actor = sqliteStringFromString(ev.actor)
      BY SMT DEF sqliteAuditInsertParams
    <3> QED BY <1>6, <3>1 DEF Text
  <2>4. now = Time(b, Instant(b, e))
    <3>1. e.now \in Nat
      BY DEF EventInputOK
    <3>2. (2 * (e.now \div 2)) \div 2 = e.now \div 2
      BY <3>1, SMT
    <3> QED BY <1>6, <3>2 DEF Time, Instant, sqliteFormatTime, TicksPerMilli
  <2>5. sqliteRawMessage(ev.payload) = Json(b, Payload(ev))
    <3>1. CASE ev.payload = <<>>
      <4>1. <<EmptyObject>>[1] = EmptyObject /\ <<EmptyObject>> # <<>>
        BY SMT
      <4>2. EmptyObject = EmptyObject
        BY DEF EmptyObject, Object
      <4> QED BY <1>6, <3>1, <4>1, <4>2 DEF Payload, Json, sqliteRawMessage
    <3>2. CASE ev.payload # <<>>
      BY <1>6, <3>2 DEF Payload, Json
    <3> QED BY <3>1, <3>2
  <2>6. kept = row
    <3> HIDE DEF q, now
    <3> QED BY <1>3, <2>2, <2>3, <2>4, <2>5
  <2> QED BY <1>4, <1>6, <2>1, <2>6 DEF x, row, w
<1> QED BY <1>5, <1>6

\* WithAudit is atomic on either backend: it keeps the write and its event, or,
\* when either fails, neither (withAuditOnce, runOnceTx).
LEMMA WithAudit ==
    ASSUME NEW b, NEW a, ContentsOK(b, a), NEW t, NEW w, WriteOK(b, t, w),
           NEW ev, NEW e, EventInputOK(ev, e)
    PROVE  LET z == Audited(b, a, ev, w, e)
           IN  /\ storeWithAudit(b, Rows(b, a), ev, Kept(b, w), e) = Kept(b, z)
               /\ WriteOK(b, t, z)
<1> DEFINE x == AuditEvent(b, ev, e)
           r == Insertion(w.a, "audit", x)
           in == Inserted(b, r, EventRow(b, x))
           k == Kept(b, w)
           z == Audited(b, a, ev, w, e)
           err == IF w.err # "nil" THEN w.err ELSE r.err
           done == [err |-> "nil", a |-> r.a, val |-> w.val]
<1>1. ContentsOK(b, w.a)
  BY DEF WriteOK
<1>2. k.err = w.err /\ k.db = Rows(b, w.a) /\ k.val = w.val
  BY SMT DEF Kept
<1>3. in.err = r.err /\ in.db = Rows(b, r.a)
  BY SMT DEF Inserted
<1>4. ContentsOK(b, r.a)
  <2>1. OK(b, "audit", x) /\ "audit" \in TableNames
    BY AuditEventOK DEF OK, TableNames
  <2> HIDE DEF x
  <2> QED BY <1>1, <2>1, InsertionOK
<1>5. /\ b = "postgres" => sqlAppendAuditEvent(Rows(b, w.a), pgAuditInsertParams(ev, e),
                               timestampFromTime(e.start)) = in
      /\ b # "postgres" => sqlAppendAuditEvent(Rows(b, w.a), sqliteAuditInsertParams(ev, e),
                               sqliteFormatTime(e.now)) = in
  BY <1>1, Appends
<1> HIDE DEF x, r, in, k
<1>6. storeWithAudit(b, Rows(b, a), ev, k, e)
        = IF w.err = "nil" /\ r.err = "nil" THEN [err |-> "nil", db |-> Rows(b, r.a), val |-> w.val]
          ELSE [err |-> err, db |-> Rows(b, a), val |-> <<>>]
  <2>1. CASE b = "postgres"
    BY <1>2, <1>3, <1>5, <2>1 DEF storeWithAudit, withAuditOnce
  <2>2. CASE b # "postgres"
    BY <1>2, <1>3, <1>5, <2>2 DEF storeWithAudit, runOnceTx
  <2> QED BY <2>1, <2>2
<1>7. CASE w.err = "nil" /\ r.err = "nil"
  <2>1. z = done
    BY <1>7 DEF Audited, r, x
  <2>2. done.err = "nil" /\ done.a = r.a /\ done.val = w.val
    BY SMT
  <2> HIDE DEF done, z
  <2>3. storeWithAudit(b, Rows(b, a), ev, k, e) = Kept(b, z)
    BY <1>6, <1>7, <2>1, <2>2 DEF Kept
  <2>4. WriteOK(b, t, z)
    BY <1>4, <1>7, <2>1, <2>2 DEF WriteOK
  <2> QED BY <2>3, <2>4 DEF k, z
<1>8. CASE ~ (w.err = "nil" /\ r.err = "nil")
  <2>1. z = Refusal(a, err)
    BY <1>8 DEF Audited, r, x
  <2>2. err # "nil"
    BY <1>8
  <2> HIDE DEF err, z
  <2>3. Refusal(a, err).err = err /\ Refusal(a, err).a = a /\ Refusal(a, err).val = <<>>
    BY SMT DEF Refusal
  <2>4. storeWithAudit(b, Rows(b, a), ev, k, e) = Kept(b, z)
    BY <1>6, <1>8, <2>1, <2>3 DEF Kept
  <2>5. WriteOK(b, t, z)
    BY <2>1, <2>2, RefusalComes
  <2> QED BY <2>4, <2>5 DEF k, z
<1> QED BY <1>7, <1>8
-----------------------------------------------------------------------------
(* The contract *)

\* An empty database holds nothing.
LEMMA KeepsNothing ==
    ASSUME NEW b
    PROVE  StartsEmpty(b)
<1>1. /\ Nothing.projects = {} /\ Nothing.environments = {} /\ Nothing.flags = {}
      /\ Nothing.versions = {} /\ Nothing.segments = {} /\ Nothing.snapshots = {}
      /\ Nothing.audit = {}
  BY DEF Nothing, TableNames
<1>2. Columns(Nothing, TableNames)
  BY DEF Columns, Nothing
<1>3. Rows(b, Nothing) = Empty
  <2>1. Empty = [t \in TableNames |-> {}]
    BY SMT DEF Empty, TableNames
  <2>2. \A t \in TableNames : {Row(b, t, x) : x \in Nothing[t]} = {}
    BY DEF Nothing
  <2> QED BY <2>1, <2>2, SMT DEF Rows
<1>4. ContentsOK(b, Nothing) /\ Cardinality(Nothing.audit) = 0
  <2>1. IsFiniteSet({}) /\ Cardinality({}) = 0
    BY FS_EmptySet
  <2> QED BY <1>1, <1>2, <2>1 DEF ContentsOK, Unique
<1> QED BY <1>3, <1>4 DEF StartsEmpty

\* The log has one row for each event.
LEMMA LogSize ==
    ASSUME NEW b, NEW a, ContentsOK(b, a)
    PROVE  KeepsLog(b, a)
<1> DEFINE log == {EventRow(b, v) : v \in a.audit}
           f == [v \in a.audit |-> EventRow(b, v)]
<1>1. Rows(b, a).audit = log
  BY Tables
<1>2. IsFiniteSet(a.audit)
  BY DEF ContentsOK
<1>3. f \in [a.audit -> log] /\ OneToOne(f, a.audit) /\ Onto(f, a.audit, log)
  <2>1. \A v \in a.audit : f[v] = EventRow(b, v)
    OBVIOUS
  <2>2. ASSUME NEW v \in a.audit, NEW w \in a.audit, f[v] = f[w]
        PROVE  v = w
    <3>1. EventRow(b, v).id = Id(b, v.id) /\ EventRow(b, w).id = Id(b, w.id)
      BY SMT DEF EventRow
    <3>2. Id(b, v.id) = Id(b, w.id)
      BY <2>1, <2>2, <3>1
    <3>3. v.id = w.id
      BY <3>2, IdColumn, SMT
    <3> QED BY <3>3 DEF ContentsOK, Unique
  <2>3. f \in [a.audit -> log] /\ Onto(f, a.audit, log)
    BY DEF Onto
  <2> HIDE DEF f, log
  <2> QED BY <2>2, <2>3 DEF OneToOne
<1>4. Cardinality(log) = Cardinality(a.audit)
  <2> HIDE DEF f, log
  <2> QED BY <1>2, <1>3, Images
<1> QED BY <1>1, <1>2, <1>4, FS_CardinalityType DEF KeepsLog

\* Both stores keep the contract: every lookup, list and write of either
\* backend does on its rows what the contract says of the contents.
THEOREM StoresKeepContract == StoreContract
<1>1. ASSUME NEW b, NEW a, ContentsOK(b, a) PROVE ReadsContents(b, a)
  <2>1. \A slug : storeGetProjectBySlug(b, Rows(b, a), slug)
                  = One({p \in a.projects : p.slug = slug})
    BY <1>1, ReadsProject, SMT
  <2>2. \A project, slug : storeGetEnvironmentBySlug(b, Rows(b, a), project, slug)
          = One({n \in a.environments : n.project_id = project /\ n.slug = slug})
    BY <1>1, ReadsEnvironment, SMT
  <2>3. \A project, key : storeGetFlagByKey(b, Rows(b, a), project, key)
          = One({f \in a.flags : f.project_id = project /\ f.key = key})
    BY <1>1, ReadsFlag, SMT
  <2>4. \A project, key : storeGetSegmentByKey(b, Rows(b, a), project, key)
          = One({s \in a.segments : s.project_id = project /\ s.key = key})
    BY <1>1, ReadsSegment, SMT
  <2>5. \A project, id : storeGetSnapshotByID(b, Rows(b, a), project, id)
          = One({s \in a.snapshots : s.project_id = project /\ s.id = id})
    BY <1>1, ReadsSnapshot, SMT
  <2>6. \A flag : storeGetLatestFlagVersion(b, Rows(b, a), flag)
                  = One(Latest({v \in a.versions : v.flag_id = flag}))
    BY <1>1, ReadsLatestVersion, SMT
  <2>7. \A project : storeGetLatestSnapshot(b, Rows(b, a), project)
                     = One(Latest({s \in a.snapshots : s.project_id = project}))
    BY <1>1, ReadsLatestSnapshot, SMT
  <2> QED BY <2>1, <2>2, <2>3, <2>4, <2>5, <2>6, <2>7 DEF ReadsContents
<1>2. ASSUME NEW b, NEW a, ContentsOK(b, a) PROVE ListsContents(b, a)
  <2>1. /\ storeListProjects(b, Rows(b, a)) = a.projects
        /\ \A project : storeListEnvironmentsByProject(b, Rows(b, a), project)
                         = {n \in a.environments : n.project_id = project}
    BY <1>2, ListsProjects, ListsEnvironments, SMT
  <2>2. \A project : storeListFlagsByProject(b, Rows(b, a), project)
                     = {f \in a.flags : f.project_id = project}
    BY <1>2, ListsFlags
  <2>3. \A project : storeListSegmentsByProject(b, Rows(b, a), project)
                     = {s \in a.segments : s.project_id = project}
    BY <1>2, ListsSegments
  <2>4. \A project : storeListLatestFlagVersions(b, Rows(b, a), project)
                     = LatestVersions(a, project)
    BY <1>2, ListsLatest
  <2>5. ASSUME NEW flag
        PROVE  LET V == VersionsOf(a, flag)
                   s == Sorted(V, VersionOrder(V))
               IN  /\ Arranges(s, V, VersionOrder(V))
                   /\ storeListFlagVersions(b, Rows(b, a), flag) = s
    <3> DEFINE V == VersionsOf(a, flag)
               s == Sorted(V, VersionOrder(V))
    <3>1. /\ IsFiniteSet(V) /\ Orders(VersionOrder(V), V)
          /\ storeListFlagVersions(b, Rows(b, a), flag) = s
      BY <1>2, ListsVersions
    <3> HIDE DEF V
    <3>2. Arranges(s, V, VersionOrder(V))
      BY <3>1, Sorts
    <3> QED BY <3>1, <3>2 DEF V
  <2>6. ASSUME NEW project, NEW limit \in Nat
        PROVE  LET V == SnapshotsOf(a, project)
                   s == Sorted(V, VersionOrder(V))
               IN  /\ Arranges(s, V, VersionOrder(V))
                   /\ storeListSnapshotsByProject(b, Rows(b, a), project, limit) = Cut(s, limit)
    <3> DEFINE V == SnapshotsOf(a, project)
               s == Sorted(V, VersionOrder(V))
    <3>1. /\ IsFiniteSet(V) /\ Orders(VersionOrder(V), V)
          /\ storeListSnapshotsByProject(b, Rows(b, a), project, limit) = Cut(s, limit)
      BY <1>2, ListsSnapshots
    <3> HIDE DEF V
    <3>2. Arranges(s, V, VersionOrder(V))
      BY <3>1, Sorts
    <3> QED BY <3>1, <3>2 DEF V
  <2>7. ASSUME NEW p, QueryOK(p)
        PROVE  LET V == EventsFor(b, a, p)
                   s == Sorted(V, EventOrder(V))
               IN  /\ Arranges(s, V, EventOrder(V))
                   /\ storeListAuditEvents(b, Rows(b, a), p) = Cut(s, p.limit)
    <3> DEFINE V == EventsFor(b, a, p)
               s == Sorted(V, EventOrder(V))
    <3>1. /\ IsFiniteSet(V) /\ Orders(EventOrder(V), V)
          /\ storeListAuditEvents(b, Rows(b, a), p) = Cut(s, p.limit)
      BY <1>2, <2>7, ListsEvents
    <3> HIDE DEF V
    <3>2. Arranges(s, V, EventOrder(V))
      BY <3>1, Sorts
    <3> QED BY <3>1, <3>2 DEF V
  <2> QED BY <2>1, <2>2, <2>3, <2>4, <2>5, <2>6, <2>7 DEF ListsContents
<1>3. ASSUME NEW b, NEW a, ContentsOK(b, a) PROVE WritesContents(b, a)
  <2>1. \A slug, name, strategy :
          ComesTo(storeCreateProject(b, Rows(b, a), slug, name, strategy),
                  b, "projects", NewProject(a, slug, name, strategy))
    BY <1>3, CreatesProject DEF ComesTo
  <2>2. \A project, slug, name :
          ComesTo(storeCreateEnvironment(b, Rows(b, a), project, slug, name),
                  b, "environments", NewEnvironment(a, project, slug, name))
    BY <1>3, CreatesEnvironment DEF ComesTo
  <2>3. \A p : Single(p.project_id) /\ Single(p.default_value) =>
          ComesTo(storeCreateFlag(b, Rows(b, a), p), b, "flags", NewFlag(a, p))
    BY <1>3, CreatesFlag DEF ComesTo
  <2>4. \A p : RawObject(p.predicate) =>
          ComesTo(storeCreateSegment(b, Rows(b, a), p), b, "segments", NewSegment(a, p))
    BY <1>3, CreatesSegment DEF ComesTo
  <2>5. \A p : RawObject(p.predicate) =>
          ComesTo(storeUpdateSegment(b, Rows(b, a), p), b, "segments", ChangedSegment(a, p))
    BY <1>3, UpdatesSegment DEF ComesTo
  <2>6. \A p : p.strategy \in Strategies /\ RawObject(p.source) /\ RawObject(p.compiled) =>
          /\ ComesTo(storePublishFlagVersion(b, Rows(b, a), p), b, "versions", NewVersion(a, p))
          /\ NewVersion(a, p).err = "nil"
    BY <1>3, PublishesVersion DEF ComesTo
  <2>7. \A p : Single(p.project_id) /\ OneOrNone(p.environment_id) /\ RawObject(p.compiled) =>
          /\ ComesTo(storeCompileSnapshot(b, Rows(b, a), p), b, "snapshots", NewSnapshot(a, p))
          /\ NewSnapshot(a, p).err = "nil"
    BY <1>3, CompilesSnapshot DEF ComesTo
  <2>8. \A t, w, ev, e : WriteOK(b, t, w) /\ EventInputOK(ev, e) =>
          ComesTo(storeWithAudit(b, Rows(b, a), ev, Kept(b, w), e),
                  b, t, Audited(b, a, ev, w, e))
    BY <1>3, WithAudit DEF ComesTo
  <2> QED BY <2>1, <2>2, <2>3, <2>4, <2>5, <2>6, <2>7, <2>8 DEF WritesContents
<1> QED BY <1>1, <1>2, <1>3, KeepsNothing, LogSize DEF StoreContract
=============================================================================
