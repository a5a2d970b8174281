----------------------------- MODULE ReadProofs -----------------------------
(***************************************************************************)
(* REST and Connect answer every read alike, the MCP tools show what REST  *)
(* answers, backends whose contents no request tells apart are read alike, *)
(* and a list of audit events shows the newest.                            *)
(*                                                                         *)
(* A handler is compared with what the API promises of the request: a      *)
(* Reply, defined on the contents of the store and not on its rows         *)
(* (apiGetProject, ...).  Answered says that both surfaces give that       *)
(* reply, each in its own way; what the store answers on its rows is taken *)
(* from StoreContract.                                                     *)
(***************************************************************************)
EXTENDS Answers, Contents, TLAPS

\* Most leaves are first-order; the ones with arithmetic or records cite SMT.
USE ZenonT(30)
-----------------------------------------------------------------------------
(* Answers *)

\* What a request comes to on contents a: an HTTP status, a body and the
\* contents it leaves behind.
Reply(status, body, a) == [status |-> status, body |-> body, a |-> a]

\* Both surfaces give reply y on backend b, each in its own way.
Answered(b, y, rest, rpc) ==
    /\ rest = [status |-> y.status, body |-> y.body, db |-> Rows(b, y.a)]
    /\ rpc = [status |-> Code(y.status), body |-> Content(y.body), db |-> Rows(b, y.a)]
    /\ ContentsOK(b, y.a)

\* Surfaces that give the same reply match, in the sense of SurfacesAgree.
LEMMA Matching ==
    ASSUME NEW b, NEW y, NEW rest, NEW rpc, Answered(b, y, rest, rpc)
    PROVE  Matches(rest, rpc)
<1>1. rest.db = Rows(b, y.a) /\ rest.status = y.status /\ rest.body = y.body
  BY SMT DEF Answered
<1>2. rpc.db = Rows(b, y.a) /\ rpc.status = Code(y.status) /\ rpc.body = Content(y.body)
  BY SMT DEF Answered
<1> QED BY <1>1, <1>2 DEF Matches

\* An object both surfaces show: writeJSON on one side, NewResponse on the other.
LEMMA Objects ==
    ASSUME NEW b, NEW a, ContentsOK(b, a), NEW x, NEW y, NEW s \in {200, 201},
           x = y, "next_cursor" \notin DOMAIN x
    PROVE  Answered(b, Reply(s, <<x>>, a), writeJSON(s, x, Rows(b, a)),
                    NewResponse(y, Rows(b, a)))
<1> DEFINE r == Reply(s, <<x>>, a)
<1>1. r.status = s /\ r.body = <<x>> /\ r.a = a
  BY SMT DEF Reply
<1>2. <<x>>[1] = x /\ <<x>> # <<>>
  BY SMT
<1>3. Code(s) = "ok"
  BY SMT DEF Code
<1>4. Content(<<x>>) = <<x>>
  BY <1>2 DEF Content
<1> HIDE DEF r
<1>5. Answered(b, r, writeJSON(s, x, Rows(b, a)), NewResponse(y, Rows(b, a)))
  BY <1>1, <1>3, <1>4 DEF Answered, writeJSON, NewResponse
<1> QED BY <1>5 DEF r

\* An error that the surfaces tell apart alike.
Refuses(status, code) ==
    <<status, code>> \in {<<400, "invalid_argument">>, <<404, "not_found">>,
                          <<409, "already_exists">>,
                          <<422, "invalid_argument">>, <<500, "internal">>}

\* An error the two surfaces report with corresponding codes.
LEMMA Errors ==
    ASSUME NEW b, NEW a, ContentsOK(b, a), NEW s, NEW c, Refuses(s, c)
    PROVE  Answered(b, Reply(s, <<>>, a), writeError(s, Rows(b, a)), NewError(c, Rows(b, a)))
<1> DEFINE r == Reply(s, <<>>, a)
<1>1. r.status = s /\ r.body = <<>> /\ r.a = a
  BY SMT DEF Reply
<1>2. Code(s) = c
  BY SMT DEF Code, Refuses
<1>3. Content(<<>>) = <<>>
  BY DEF Content
<1> HIDE DEF r
<1>4. Answered(b, r, writeError(s, Rows(b, a)), NewError(c, Rows(b, a)))
  BY <1>1, <1>2, <1>3 DEF Answered, writeError, NewError
<1> QED BY <1>4 DEF r

\* A malformed request: 400 over REST, invalid_argument over Connect.
LEMMA BadRequests ==
    ASSUME NEW b, NEW a, ContentsOK(b, a)
    PROVE  Answered(b, Reply(400, <<>>, a), badRequest(Rows(b, a)), rpcBadRequest(Rows(b, a)))
<1>1. Refuses(400, "invalid_argument")
  BY SMT DEF Refuses
<1> QED BY <1>1, Errors DEF badRequest, rpcBadRequest

\* A row that is not there: 404 over REST, not_found over Connect.
LEMMA Missing ==
    ASSUME NEW b, NEW a, ContentsOK(b, a)
    PROVE  Answered(b, Reply(404, <<>>, a), notFoundOrError("not_found", Rows(b, a)),
                    connectError("not_found", Rows(b, a)))
<1> DEFINE d == Rows(b, a)
<1>1. Refuses(404, "not_found")
  BY SMT DEF Refuses
<1>2. notFoundOrError("not_found", d) = writeError(404, d)
  BY DEF notFoundOrError
<1>3. connectError("not_found", d) = NewError("not_found", d)
  BY DEF connectError, IsConflict
<1> QED BY <1>1, <1>2, <1>3, Errors

\* The outcome of a transaction, x being its value.
ErrorStatus(err) == CASE err = "not_found" -> 404 [] err = "unique" -> 409 [] OTHER -> 500
Outcome(w, status, x) ==
    Reply(IF w.err = "nil" THEN status ELSE ErrorStatus(w.err),
          IF w.err = "nil" THEN <<x>> ELSE <<>>, w.a)

\* What the surfaces make of the outcome t of a transaction.
RestAnswer(t, status, x, d) ==
    IF t.err = "nil" THEN writeJSON(status, x, t.db) ELSE writeStoreErr(t.err, d)
RpcAnswer(t, x, d) == IF t.err = "nil" THEN NewResponse(x, t.db) ELSE connectError(t.err, d)

\* The surfaces report the store's error as status s and code c.
Fails(err, d, s, c) ==
    /\ Refuses(s, c) /\ s = ErrorStatus(err)
    /\ writeStoreErr(err, d) = writeError(s, d) /\ connectError(err, d) = NewError(c, d)

\* notFoundOrError and connectError report any error of the store alike.
LEMMA StoreErrors ==
    ASSUME NEW d, NEW err, err # "nil"
    PROVE  \E s, c : Fails(err, d, s, c)
<1>1. CASE err = "not_found"
  <2>1. Refuses(404, "not_found")
    BY SMT DEF Refuses
  <2>2. /\ writeStoreErr(err, d) = writeError(404, d)
        /\ connectError(err, d) = NewError("not_found", d)
    BY <1>1 DEF writeStoreErr, connectError, IsConflict
  <2>3. 404 = ErrorStatus(err)
    BY <1>1 DEF ErrorStatus
  <2> QED BY <2>1, <2>2, <2>3 DEF Fails
<1>2. CASE err = "unique"
  <2>1. Refuses(409, "already_exists")
    BY SMT DEF Refuses
  <2>2. /\ writeStoreErr(err, d) = writeError(409, d)
        /\ connectError(err, d) = NewError("already_exists", d)
    BY <1>2 DEF writeStoreErr, connectError, IsConflict
  <2>3. 409 = ErrorStatus(err)
    BY <1>2 DEF ErrorStatus
  <2> QED BY <2>1, <2>2, <2>3 DEF Fails
<1>3. CASE err \notin {"not_found", "unique"}
  <2>1. Refuses(500, "internal")
    BY SMT DEF Refuses
  <2>2. /\ writeStoreErr(err, d) = writeError(500, d)
        /\ connectError(err, d) = NewError("internal", d)
    BY <1>3 DEF writeStoreErr, connectError, IsConflict
  <2>3. 500 = ErrorStatus(err)
    BY <1>3 DEF ErrorStatus
  <2> QED BY <2>1, <2>2, <2>3 DEF Fails
<1> QED BY <1>1, <1>2, <1>3

\* Both surfaces answer a write with what became of it.
LEMMA Outcomes ==
    ASSUME NEW b, NEW a, ContentsOK(b, a), NEW w, ContentsOK(b, w.a), w.err # "nil" => w.a = a,
           NEW s \in {200, 201}, NEW x, NEW y,
           w.err = "nil" => x = y /\ "next_cursor" \notin DOMAIN x
    PROVE  Answered(b, Outcome(w, s, x), RestAnswer(Kept(b, w), s, x, Rows(b, a)),
                    RpcAnswer(Kept(b, w), y, Rows(b, a)))
<1> DEFINE t == Kept(b, w)
           d == Rows(b, a)
<1>1. t.err = w.err /\ t.db = Rows(b, w.a)
  BY SMT DEF Kept
<1> HIDE DEF t
<1>2. CASE w.err = "nil"
  <2>1. /\ RestAnswer(t, s, x, d) = writeJSON(s, x, Rows(b, w.a))
        /\ RpcAnswer(t, y, d) = NewResponse(y, Rows(b, w.a))
    BY <1>1, <1>2 DEF RestAnswer, RpcAnswer
  <2>2. Outcome(w, s, x) = Reply(s, <<x>>, w.a)
    BY <1>2 DEF Outcome
  <2>3. Answered(b, Reply(s, <<x>>, w.a), writeJSON(s, x, Rows(b, w.a)),
                 NewResponse(y, Rows(b, w.a)))
    BY <1>2, Objects, SMT
  <2> QED BY <2>1, <2>2, <2>3 DEF t
<1>3. CASE w.err # "nil"
  <2>1. PICK k, c : Fails(w.err, d, k, c)
    BY <1>3, StoreErrors, SMT
  <2>2. RestAnswer(t, s, x, d) = writeError(k, d) /\ RpcAnswer(t, y, d) = NewError(c, d)
    BY <1>1, <1>3, <2>1 DEF RestAnswer, RpcAnswer, Fails
  <2>3. Outcome(w, s, x) = Reply(k, <<>>, a)
    BY <1>3, <2>1 DEF Outcome, Fails
  <2>4. Answered(b, Reply(k, <<>>, a), writeError(k, d), NewError(c, d))
    <3>1. Refuses(k, c)
      BY <2>1 DEF Fails
    <3> QED BY <3>1, Errors, SMT
  <2> QED BY <2>2, <2>3, <2>4 DEF t
<1> QED BY <1>2, <1>3
-----------------------------------------------------------------------------
(* Objects *)

\* Stored JSON objects read the same as a struct and as a plain value.
LEMMA StructShape ==
    ASSUME NEW raw, RawObject(raw)
    PROVE  jsonRawToStruct(raw) = rawToAny(raw)
<1>1. raw # <<>>
  <2>1. ASSUME NEW x PROVE <<x>> # <<>>
    BY SMT
  <2> QED BY <2>1 DEF RawObject, Single
<1> QED BY <1>1 DEF RawObject, jsonRawToStruct, rawToAny

\* A project looks the same over REST and over Connect.
LEMMA ProjectShape ==
    ASSUME NEW p, ProjectOK(p)
    PROVE  projectToAPI(p) = projectToProto(p) /\ "next_cursor" \notin DOMAIN projectToAPI(p)
<1> DEFINE g == projectToAPI(p)
           h == projectToProto(p)
<1>1. Columns(p, ProjectColumns)
  BY DEF ProjectOK
<1>2. Columns(g, ProjectColumns) /\ Columns(h, ProjectColumns)
  BY <1>1 DEF projectToAPI, projectToProto, Columns, ProjectColumns
<1>3. /\ g.id = p.id /\ g.slug = p.slug /\ g.display_name = p.display_name
      /\ g.config_strategy = p.config_strategy
  BY <1>1, SMT DEF projectToAPI, Columns, ProjectColumns
<1>4. /\ h.id = p.id /\ h.slug = p.slug /\ h.display_name = p.display_name
      /\ h.config_strategy = protoStrategy(p.config_strategy)
  BY <1>1, SMT DEF projectToProto, Columns, ProjectColumns
<1>5. protoStrategy(p.config_strategy) = p.config_strategy
  BY DEF ProjectOK, protoStrategy, Strategies
<1> HIDE DEF g, h
<1>6. /\ g.id = h.id /\ g.slug = h.slug /\ g.display_name = h.display_name
      /\ g.config_strategy = h.config_strategy
  BY <1>3, <1>4, <1>5
<1>7. g = h
  BY <1>2, <1>6, SMT DEF Columns, ProjectColumns
<1>8. "next_cursor" \notin DOMAIN g
  BY <1>2 DEF Columns, ProjectColumns
<1> QED BY <1>7, <1>8 DEF g, h

\* So does an environment.
LEMMA EnvironmentShape ==
    ASSUME NEW n, EnvironmentOK(n)
    PROVE  /\ environmentToAPI(n) = environmentToProto(n)
           /\ "next_cursor" \notin DOMAIN environmentToAPI(n)
<1> DEFINE g == environmentToAPI(n)
           h == environmentToProto(n)
<1>1. Columns(n, EnvironmentColumns)
  BY DEF EnvironmentOK
<1>2. Columns(g, EnvironmentColumns) /\ Columns(h, EnvironmentColumns)
  BY <1>1 DEF environmentToAPI, environmentToProto, Columns, EnvironmentColumns
<1>3. /\ g.id = n.id /\ g.project_id = n.project_id /\ g.slug = n.slug /\ g.name = n.name
  BY <1>1, SMT DEF environmentToAPI, Columns, EnvironmentColumns
<1>4. /\ h.id = n.id /\ h.project_id = n.project_id /\ h.slug = n.slug /\ h.name = n.name
  BY <1>1, SMT DEF environmentToProto, Columns, EnvironmentColumns
<1> HIDE DEF g, h
<1>5. /\ g.id = h.id /\ g.project_id = h.project_id /\ g.slug = h.slug /\ g.name = h.name
  BY <1>3, <1>4
<1>6. g = h
  BY <1>2, <1>5, SMT DEF Columns, EnvironmentColumns
<1>7. "next_cursor" \notin DOMAIN g
  BY <1>2 DEF Columns, EnvironmentColumns
<1> QED BY <1>6, <1>7 DEF g, h

\* So does a flag: its value type survives the enum of the wire format.
LEMMA FlagShape ==
    ASSUME NEW f, FlagOK(f)
    PROVE  flagToAPI(f) = flagToProto(f) /\ "next_cursor" \notin DOMAIN flagToAPI(f)
<1> DEFINE g == flagToAPI(f)
           h == flagToProto(f)
<1>1. Columns(f, FlagColumns)
  BY DEF FlagOK
<1>2. Columns(g, FlagColumns) /\ Columns(h, FlagColumns)
  BY <1>1 DEF flagToAPI, flagToProto, Columns, FlagColumns
<1>3. /\ g.id = f.id /\ g.project_id = f.project_id /\ g.key = f.key /\ g.name = f.name
      /\ g.description = f.description /\ g.value_type = f.value_type
      /\ g.default_value = rawToAny(f.default_value)
  BY <1>1, SMT DEF flagToAPI, Columns, FlagColumns
<1>4. /\ h.id = f.id /\ h.project_id = f.project_id /\ h.key = f.key /\ h.name = f.name
      /\ h.description = f.description /\ h.value_type = protoValueType(f.value_type)
      /\ h.default_value = jsonRawToValue(f.default_value)
  BY <1>1, SMT DEF flagToProto, Columns, FlagColumns
<1>5. protoValueType(f.value_type) = f.value_type
  BY DEF FlagOK, protoValueType, ValueTypes
<1>6. jsonRawToValue(f.default_value) = rawToAny(f.default_value)
  BY DEF jsonRawToValue, rawToAny
<1> HIDE DEF g, h
<1>7. /\ g.id = h.id /\ g.project_id = h.project_id /\ g.key = h.key /\ g.name = h.name
      /\ g.description = h.description /\ g.value_type = h.value_type
      /\ g.default_value = h.default_value
  BY <1>3, <1>4, <1>5, <1>6
<1>8. g = h
  BY <1>2, <1>7, SMT DEF Columns, FlagColumns
<1>9. "next_cursor" \notin DOMAIN g
  BY <1>2 DEF Columns, FlagColumns
<1> QED BY <1>8, <1>9 DEF g, h

\* So does a version, with its strategy, source and compiled rules.
LEMMA VersionShape ==
    ASSUME NEW v, VersionOK(v)
    PROVE  /\ flagVersionToAPI(v) = flagVersionToProto(v)
           /\ "next_cursor" \notin DOMAIN flagVersionToAPI(v)
<1> DEFINE g == flagVersionToAPI(v)
           h == flagVersionToProto(v)
<1>1. Columns(v, VersionColumns)
  BY DEF VersionOK
<1>2. Columns(g, VersionColumns) /\ Columns(h, VersionColumns)
  BY <1>1 DEF flagVersionToAPI, flagVersionToProto, Columns, VersionColumns
<1>3. /\ g.id = v.id /\ g.flag_id = v.flag_id /\ g.version = v.version
      /\ g.strategy = v.strategy /\ g.source = rawToAny(v.source)
      /\ g.compiled = rawToAny(v.compiled) /\ g.source_text = Optional(v.source_text, "")
  BY <1>1, SMT DEF flagVersionToAPI, Columns, VersionColumns
<1>4. /\ h.id = v.id /\ h.flag_id = v.flag_id /\ h.version = v.version
      /\ h.strategy = protoStrategy(v.strategy) /\ h.source = jsonRawToStruct(v.source)
      /\ h.compiled = jsonRawToStruct(v.compiled)
      /\ h.source_text = Optional(v.source_text, "")
  BY <1>1, SMT DEF flagVersionToProto, Columns, VersionColumns
<1>5. protoStrategy(v.strategy) = v.strategy
  BY DEF VersionOK, protoStrategy, Strategies
<1>6. jsonRawToStruct(v.source) = rawToAny(v.source)
  <2>1. RawObject(v.source)
    BY DEF VersionOK
  <2> QED BY <2>1, StructShape
<1>7. jsonRawToStruct(v.compiled) = rawToAny(v.compiled)
  <2>1. RawObject(v.compiled)
    BY DEF VersionOK
  <2> QED BY <2>1, StructShape
<1> HIDE DEF g, h
<1>8. /\ g.id = h.id /\ g.flag_id = h.flag_id /\ g.version = h.version
      /\ g.strategy = h.strategy /\ g.source = h.source /\ g.compiled = h.compiled
      /\ g.source_text = h.source_text
  BY <1>3, <1>4, <1>5, <1>6, <1>7
<1>9. g = h
  BY <1>2, <1>8, SMT DEF Columns, VersionColumns
<1>10. "next_cursor" \notin DOMAIN g
  BY <1>2 DEF Columns, VersionColumns
<1> QED BY <1>9, <1>10 DEF g, h

\* So does a segment, with its predicate.
LEMMA SegmentShape ==
    ASSUME NEW s, SegmentOK(s)
    PROVE  segmentToAPI(s) = segmentToProto(s) /\ "next_cursor" \notin DOMAIN segmentToAPI(s)
<1> DEFINE g == segmentToAPI(s)
           h == segmentToProto(s)
<1>1. Columns(s, SegmentColumns)
  BY DEF SegmentOK
<1>2. Columns(g, SegmentColumns) /\ Columns(h, SegmentColumns)
  BY <1>1 DEF segmentToAPI, segmentToProto, Columns, SegmentColumns
<1>3. /\ g.id = s.id /\ g.project_id = s.project_id /\ g.key = s.key /\ g.name = s.name
      /\ g.description = s.description /\ g.predicate = rawToAny(s.predicate)
  BY <1>1, SMT DEF segmentToAPI, Columns, SegmentColumns
<1>4. /\ h.id = s.id /\ h.project_id = s.project_id /\ h.key = s.key /\ h.name = s.name
      /\ h.description = s.description /\ h.predicate = jsonRawToStruct(s.predicate)
  BY <1>1, SMT DEF segmentToProto, Columns, SegmentColumns
<1>5. jsonRawToStruct(s.predicate) = rawToAny(s.predicate)
  <2>1. RawObject(s.predicate)
    BY DEF SegmentOK
  <2> QED BY <2>1, StructShape
<1> HIDE DEF g, h
<1>6. /\ g.id = h.id /\ g.project_id = h.project_id /\ g.key = h.key /\ g.name = h.name
      /\ g.description = h.description /\ g.predicate = h.predicate
  BY <1>3, <1>4, <1>5
<1>7. g = h
  BY <1>2, <1>6, SMT DEF Columns, SegmentColumns
<1>8. "next_cursor" \notin DOMAIN g
  BY <1>2 DEF Columns, SegmentColumns
<1> QED BY <1>7, <1>8 DEF g, h

\* So does a snapshot, with its bundle.
LEMMA SnapshotShape ==
    ASSUME NEW s, SnapshotOK(s)
    PROVE  snapshotToAPI(s) = snapshotToProto(s) /\ "next_cursor" \notin DOMAIN snapshotToAPI(s)
<1> DEFINE g == snapshotToAPI(s)
           h == snapshotToProto(s)
<1>1. Columns(s, SnapshotColumns)
  BY DEF SnapshotOK
<1>2. Columns(g, SnapshotColumns) /\ Columns(h, SnapshotColumns)
  BY <1>1 DEF snapshotToAPI, snapshotToProto, Columns, SnapshotColumns
<1>3. /\ g.id = s.id /\ g.project_id = s.project_id /\ g.environment_id = s.environment_id
      /\ g.version = s.version /\ g.compiled = rawToAny(s.compiled)
  BY <1>1, SMT DEF snapshotToAPI, Columns, SnapshotColumns
<1>4. /\ h.id = s.id /\ h.project_id = s.project_id /\ h.environment_id = s.environment_id
      /\ h.version = s.version /\ h.compiled = jsonRawToStruct(s.compiled)
  BY <1>1, SMT DEF snapshotToProto, Columns, SnapshotColumns
<1>5. jsonRawToStruct(s.compiled) = rawToAny(s.compiled)
  <2>1. RawObject(s.compiled)
    BY DEF SnapshotOK
  <2> QED BY <2>1, StructShape
<1> HIDE DEF g, h
<1>6. /\ g.id = h.id /\ g.project_id = h.project_id /\ g.environment_id = h.environment_id
      /\ g.version = h.version /\ g.compiled = h.compiled
  BY <1>3, <1>4, <1>5
<1>7. g = h
  BY <1>2, <1>6, SMT DEF Columns, SnapshotColumns
<1>8. "next_cursor" \notin DOMAIN g
  BY <1>2 DEF Columns, SnapshotColumns
<1> QED BY <1>7, <1>8 DEF g, h

\* So does an audit event, whose optional ids are empty strings over Connect.
LEMMA EventShape ==
    ASSUME NEW b, NEW v, EventOK(b, v)
    PROVE  /\ auditEventToAPI(v) = auditEventToProto(v)
           /\ "next_cursor" \notin DOMAIN auditEventToAPI(v)
<1> DEFINE g == auditEventToAPI(v)
           h == auditEventToProto(v)
<1>1. Columns(v, EventColumns)
  BY DEF EventOK
<1>2. Columns(g, EventColumns) /\ Columns(h, EventColumns)
  BY <1>1 DEF auditEventToAPI, auditEventToProto, Columns, EventColumns
<1>3. /\ g.id = v.id /\ g.project_id = v.project_id /\ g.flag_id = v.flag_id
      /\ g.action = v.action /\ g.created_at = v.created_at
      /\ g.actor = Optional(v.actor, "") /\ g.payload = rawToAny(v.payload)
  BY <1>1, SMT DEF auditEventToAPI, Columns, EventColumns
<1>4. /\ h.id = v.id /\ h.project_id = v.project_id /\ h.flag_id = v.flag_id
      /\ h.action = v.action /\ h.created_at = v.created_at
      /\ h.actor = Optional(v.actor, "") /\ h.payload = jsonRawToStruct(v.payload)
  BY <1>1, SMT DEF auditEventToProto, Columns, EventColumns
<1>5. jsonRawToStruct(v.payload) = rawToAny(v.payload)
  <2>1. RawObject(v.payload)
    BY DEF EventOK
  <2> QED BY <2>1, StructShape
<1> HIDE DEF g, h
<1>6. /\ g.id = h.id /\ g.project_id = h.project_id /\ g.flag_id = h.flag_id
      /\ g.action = h.action /\ g.created_at = h.created_at /\ g.actor = h.actor
      /\ g.payload = h.payload
  BY <1>3, <1>4, <1>5
<1>7. g = h
  BY <1>2, <1>6, SMT DEF Columns, EventColumns
<1>8. "next_cursor" \notin DOMAIN g
  BY <1>2 DEF Columns, EventColumns
<1> QED BY <1>7, <1>8 DEF g, h
-----------------------------------------------------------------------------
(* Lookups *)

\* What a lookup in S comes back with.
IsLookup(found, S) ==
    \/ found.err = "not_found" /\ found.val = <<>> /\ S = {}
    \/ found.err = "nil" /\ Single(found.val) /\ found.val[1] \in S

\* One answers with an element of the set, or not_found when there is none.
LEMMA Lookups ==
    ASSUME NEW S
    PROVE  IsLookup(One(S), S)
<1>1. CASE S = {}
  <2>1. One(S) = [err |-> "not_found", val |-> <<>>]
    BY <1>1 DEF One
  <2>2. One(S).err = "not_found" /\ One(S).val = <<>>
    BY <2>1, SMT
  <2> QED BY <1>1, <2>2 DEF IsLookup
<1>2. CASE S # {}
  <2>1. PICK x : x = CHOOSE y \in S : TRUE
    OBVIOUS
  <2>2. x \in S
    BY <1>2, <2>1
  <2>3. One(S) = [err |-> "nil", val |-> <<x>>]
    BY <1>2, <2>1 DEF One
  <2>4. One(S).err = "nil" /\ One(S).val = <<x>> /\ <<x>>[1] = x
    BY <2>3, SMT
  <2> QED BY <2>2, <2>4 DEF IsLookup, Single
<1> QED BY <1>1, <1>2

\* A lookup in table t of backend b.
FoundIn(b, t, found) ==
    \/ found.err = "not_found" /\ found.val = <<>>
    \/ found.err = "nil" /\ Single(found.val) /\ OK(b, t, found.val[1])

\* The lookups the handlers make.
ProjectBy(a, slug) == One({p \in a.projects : p.slug = slug})
EnvironmentBy(a, project, slug) ==
  One({n \in a.environments : n.project_id = project /\ n.slug = slug})
FlagBy(a, project, key) == One({f \in a.flags : f.project_id = project /\ f.key = key})
VersionBy(a, flag) == One(Latest({v \in a.versions : v.flag_id = flag}))
SegmentBy(a, project, key) == One({s \in a.segments : s.project_id = project /\ s.key = key})
SnapshotBy(a, project, id) == One({s \in a.snapshots : s.project_id = project /\ s.id = id})
LatestSnapshotBy(a, project) == One(Latest({s \in a.snapshots : s.project_id = project}))

\* GetProjectBySlug finds a well-formed project or none.
LEMMA FindsProject ==
    ASSUME StoreContract, NEW b, NEW a, ContentsOK(b, a), NEW slug
    PROVE  /\ storeGetProjectBySlug(b, Rows(b, a), slug) = ProjectBy(a, slug)
           /\ FoundIn(b, "projects", ProjectBy(a, slug))
<1> DEFINE found == ProjectBy(a, slug)
           S == {p \in a.projects : p.slug = slug}
<1>1. storeGetProjectBySlug(b, Rows(b, a), slug) = found
  BY SMT DEF StoreContract, ReadsContents, ProjectBy
<1>2. found = One(S) /\ S \subseteq a.projects
  BY DEF ProjectBy, Latest
<1> HIDE DEF found, S
<1>3. IsLookup(found, S)
  BY <1>2, Lookups
<1>4. \A x \in S : OK(b, "projects", x)
  BY <1>2 DEF ContentsOK, OK
<1>5. FoundIn(b, "projects", found)
  BY <1>3, <1>4 DEF IsLookup, FoundIn
<1> QED BY <1>1, <1>5 DEF found

\* GetEnvironmentBySlug finds a well-formed environment or none.
LEMMA FindsEnvironment ==
    ASSUME StoreContract, NEW b, NEW a, ContentsOK(b, a), NEW project, NEW slug
    PROVE  /\ storeGetEnvironmentBySlug(b, Rows(b, a), project, slug)
                = EnvironmentBy(a, project, slug)
           /\ FoundIn(b, "environments", EnvironmentBy(a, project, slug))
<1> DEFINE found == EnvironmentBy(a, project, slug)
           S == {n \in a.environments : n.project_id = project /\ n.slug = slug}
<1>1. storeGetEnvironmentBySlug(b, Rows(b, a), project, slug) = found
  BY SMT DEF StoreContract, ReadsContents, EnvironmentBy
<1>2. found = One(S) /\ S \subseteq a.environments
  BY DEF EnvironmentBy, Latest
<1> HIDE DEF found, S
<1>3. IsLookup(found, S)
  BY <1>2, Lookups
<1>4. \A x \in S : OK(b, "environments", x)
  BY <1>2 DEF ContentsOK, OK
<1>5. FoundIn(b, "environments", found)
  BY <1>3, <1>4 DEF IsLookup, FoundIn
<1> QED BY <1>1, <1>5 DEF found

\* GetFlagByKey finds a well-formed flag or none.
LEMMA FindsFlag ==
    ASSUME StoreContract, NEW b, NEW a, ContentsOK(b, a), NEW project, NEW key
    PROVE  /\ storeGetFlagByKey(b, Rows(b, a), project, key) = FlagBy(a, project, key)
           /\ FoundIn(b, "flags", FlagBy(a, project, key))
<1> DEFINE found == FlagBy(a, project, key)
           S == {f \in a.flags : f.project_id = project /\ f.key = key}
<1>1. storeGetFlagByKey(b, Rows(b, a), project, key) = found
  BY SMT DEF StoreContract, ReadsContents, FlagBy
<1>2. found = One(S) /\ S \subseteq a.flags
  BY DEF FlagBy, Latest
<1> HIDE DEF found, S
<1>3. IsLookup(found, S)
  BY <1>2, Lookups
<1>4. \A x \in S : OK(b, "flags", x)
  BY <1>2 DEF ContentsOK, OK
<1>5. FoundIn(b, "flags", found)
  BY <1>3, <1>4 DEF IsLookup, FoundIn
<1> QED BY <1>1, <1>5 DEF found

\* GetLatestFlagVersion finds a well-formed version or none.
LEMMA FindsVersion ==
    ASSUME StoreContract, NEW b, NEW a, ContentsOK(b, a), NEW flag
    PROVE  /\ storeGetLatestFlagVersion(b, Rows(b, a), flag) = VersionBy(a, flag)
           /\ FoundIn(b, "versions", VersionBy(a, flag))
<1> DEFINE found == VersionBy(a, flag)
           S == Latest({v \in a.versions : v.flag_id = flag})
<1>1. storeGetLatestFlagVersion(b, Rows(b, a), flag) = found
  BY SMT DEF StoreContract, ReadsContents, VersionBy
<1>2. found = One(S) /\ S \subseteq a.versions
  BY DEF VersionBy, Latest
<1> HIDE DEF found, S
<1>3. IsLookup(found, S)
  BY <1>2, Lookups
<1>4. \A x \in S : OK(b, "versions", x)
  BY <1>2 DEF ContentsOK, OK
<1>5. FoundIn(b, "versions", found)
  BY <1>3, <1>4 DEF IsLookup, FoundIn
<1> QED BY <1>1, <1>5 DEF found

\* GetSegmentByKey finds a well-formed segment or none.
LEMMA FindsSegment ==
    ASSUME StoreContract, NEW b, NEW a, ContentsOK(b, a), NEW project, NEW key
    PROVE  /\ storeGetSegmentByKey(b, Rows(b, a), project, key) = SegmentBy(a, project, key)
           /\ FoundIn(b, "segments", SegmentBy(a, project, key))
<1> DEFINE found == SegmentBy(a, project, key)
           S == {s \in a.segments : s.project_id = project /\ s.key = key}
<1>1. storeGetSegmentByKey(b, Rows(b, a), project, key) = found
  BY SMT DEF StoreContract, ReadsContents, SegmentBy
<1>2. found = One(S) /\ S \subseteq a.segments
  BY DEF SegmentBy, Latest
<1> HIDE DEF found, S
<1>3. IsLookup(found, S)
  BY <1>2, Lookups
<1>4. \A x \in S : OK(b, "segments", x)
  BY <1>2 DEF ContentsOK, OK
<1>5. FoundIn(b, "segments", found)
  BY <1>3, <1>4 DEF IsLookup, FoundIn
<1> QED BY <1>1, <1>5 DEF found

\* GetSnapshotByID finds a well-formed snapshot or none.
LEMMA FindsSnapshot ==
    ASSUME StoreContract, NEW b, NEW a, ContentsOK(b, a), NEW project, NEW id
    PROVE  /\ storeGetSnapshotByID(b, Rows(b, a), project, id) = SnapshotBy(a, project, id)
           /\ FoundIn(b, "snapshots", SnapshotBy(a, project, id))
<1> DEFINE found == SnapshotBy(a, project, id)
           S == {s \in a.snapshots : s.project_id = project /\ s.id = id}
<1>1. storeGetSnapshotByID(b, Rows(b, a), project, id) = found
  BY SMT DEF StoreContract, ReadsContents, SnapshotBy
<1>2. found = One(S) /\ S \subseteq a.snapshots
  BY DEF SnapshotBy, Latest
<1> HIDE DEF found, S
<1>3. IsLookup(found, S)
  BY <1>2, Lookups
<1>4. \A x \in S : OK(b, "snapshots", x)
  BY <1>2 DEF ContentsOK, OK
<1>5. FoundIn(b, "snapshots", found)
  BY <1>3, <1>4 DEF IsLookup, FoundIn
<1> QED BY <1>1, <1>5 DEF found

\* GetLatestSnapshot finds a well-formed snapshot or none.
LEMMA FindsLatestSnapshot ==
    ASSUME StoreContract, NEW b, NEW a, ContentsOK(b, a), NEW project
    PROVE  /\ storeGetLatestSnapshot(b, Rows(b, a), project) = LatestSnapshotBy(a, project)
           /\ FoundIn(b, "snapshots", LatestSnapshotBy(a, project))
<1> DEFINE found == LatestSnapshotBy(a, project)
           S == Latest({s \in a.snapshots : s.project_id = project})
<1>1. storeGetLatestSnapshot(b, Rows(b, a), project) = found
  BY SMT DEF StoreContract, ReadsContents, LatestSnapshotBy
<1>2. found = One(S) /\ S \subseteq a.snapshots
  BY DEF LatestSnapshotBy, Latest
<1> HIDE DEF found, S
<1>3. IsLookup(found, S)
  BY <1>2, Lookups
<1>4. \A x \in S : OK(b, "snapshots", x)
  BY <1>2 DEF ContentsOK, OK
<1>5. FoundIn(b, "snapshots", found)
  BY <1>3, <1>4 DEF IsLookup, FoundIn
<1> QED BY <1>1, <1>5 DEF found

-----------------------------------------------------------------------------
(* Requests *)

\* A request about something that has to be found first.
Sought(found, a, Then(_)) ==
    IF found.err = "nil" THEN Then(found.val[1]) ELSE Reply(404, <<>>, a)
ForProject(a, r, Then(_)) == Sought(ProjectBy(a, r.slug), a, Then)
ForFlag(a, r, Then(_, _)) ==
    ForProject(a, r, LAMBDA p : Sought(FlagBy(a, p.id, r.key), a, LAMBDA f : Then(p, f)))

\* The replies of a read.
Show(x, a) == Reply(200, <<x>>, a)
Refuse(status, a) == Reply(status, <<>>, a)

\* Newest first.
VersionList(a, flag) == Sorted(VersionsOf(a, flag), VersionOrder(VersionsOf(a, flag)))
SnapshotList(a, project, limit) ==
    Cut(Sorted(SnapshotsOf(a, project), VersionOrder(SnapshotsOf(a, project))), limit)

\* What the API promises: the requests on contents a.
apiListProjects(a, r) == Show([items |-> {projectToAPI(p) : p \in a.projects}], a)
apiGetProject(a, r) == ForProject(a, r, LAMBDA p : Show(projectToAPI(p), a))
apiListEnvironments(a, r) ==
    ForProject(a, r, LAMBDA p :
        Show([items |-> {environmentToAPI(n) :
                            n \in {m \in a.environments : m.project_id = p.id}}], a))
apiGetEnvironment(a, r) ==
    ForProject(a, r, LAMBDA p :
        Sought(EnvironmentBy(a, p.id, r.environment), a,
               LAMBDA n : Show(environmentToAPI(n), a)))
apiListFlags(a, r) ==
    ForProject(a, r, LAMBDA p :
        Show([items |-> {flagToAPI(f) : f \in {g \in a.flags : g.project_id = p.id}}], a))
apiGetFlag(a, r) ==
    ForFlag(a, r, LAMBDA p, f :
        Show([flag |-> flagToAPI(f),
              latest_version |-> Each(VersionBy(a, f.id).val, flagVersionToAPI)], a))
apiListFlagVersions(a, r) ==
    ForFlag(a, r, LAMBDA p, f :
        Show([items |-> Each(VersionList(a, f.id), flagVersionToAPI)], a))
apiListSegments(a, r) ==
    ForProject(a, r, LAMBDA p :
        Show([items |-> {segmentToAPI(s) : s \in {q \in a.segments : q.project_id = p.id}}], a))
apiGetSegment(a, r) ==
    ForProject(a, r, LAMBDA p :
        Sought(SegmentBy(a, p.id, r.key), a, LAMBDA s : Show(segmentToAPI(s), a)))
LimitOr(n, default) == IF n = 0 THEN default ELSE n
apiListSnapshots(a, r) ==
    ForProject(a, r, LAMBDA p :
        Show([items |-> Each(SnapshotList(a, p.id, LimitOr(r.limit, 50)), snapshotToAPI)], a))
apiGetLatestSnapshot(a, r) ==
    ForProject(a, r, LAMBDA p :
        Sought(LatestSnapshotBy(a, p.id), a, LAMBDA s : Show(snapshotToAPI(s), a)))
apiGetSnapshot(a, r) ==
    IF r.id = <<>> THEN Refuse(400, a)
    ELSE ForProject(a, r, LAMBDA p :
             Sought(SnapshotBy(a, p.id, r.id), a, LAMBDA s : Show(snapshotToAPI(s), a)))

\* The flag's newest rules, compiled again before they are evaluated.
apiLoad(a, r) ==
    ForFlag(a, r, LAMBDA p, f :
        Sought(VersionBy(a, f.id), a, LAMBDA v :
            LET c == Compile(v.strategy, [json |-> v.compiled[1]])
            IN  IF c.err # "nil" THEN Refuse(500, a)
                ELSE Show([compiled |-> c.val[1], version |-> v.version], a)))
WhenLoaded(loaded, Then(_)) == IF loaded.body = <<>> THEN loaded ELSE Then(loaded.body[1])
apiEvaluate(a, r) ==
    WhenLoaded(apiLoad(a, r), LAMBDA l :
        Show(decisionToAPI(Evaluate(l.compiled, r.context, l.version)), a))
apiEvaluateWithTrace(a, r) ==
    WhenLoaded(apiLoad(a, r), LAMBDA l :
        LET t == EvaluateWithTrace(l.compiled, r.context, l.version)
        IN  Show([decision |-> decisionToAPI(t.decision), trace |-> traceToAPI(t.trace)], a))

\* GET /projects/{slug} and GetProject answer alike.
LEMMA GetsProject ==
    ASSUME StoreContract, NEW b, NEW a, ContentsOK(b, a), NEW r
    PROVE  Answered(b, apiGetProject(a, r), GetProject(b, Rows(b, a), r),
                    rpcGetProject(b, Rows(b, a), r))
<1> DEFINE d == Rows(b, a)
           found == ProjectBy(a, r.slug)
           p == found.val[1]
<1>1. storeGetProjectBySlug(b, d, r.slug) = found
  BY FindsProject
<1>2. FoundIn(b, "projects", found)
  BY FindsProject
<1> HIDE DEF d, found
<1>3. CASE found.err # "nil"
  <2>1. found.err = "not_found"
    BY <1>2, <1>3 DEF FoundIn
  <2>2. /\ GetProject(b, d, r) = notFoundOrError("not_found", d)
        /\ rpcGetProject(b, d, r) = connectError("not_found", d)
        /\ apiGetProject(a, r) = Reply(404, <<>>, a)
    BY <1>1, <1>3, <2>1, SMT DEF GetProject, InProject, OrNotFound, rpcGetProject, rpcInProject,
       OrError,
      apiGetProject, ForProject, Sought, found
  <2> QED BY <2>2, Missing DEF d
<1>4. CASE found.err = "nil"
  <2>1. ProjectOK(p)
    BY <1>2, <1>4 DEF FoundIn, OK
  <2>2. /\ GetProject(b, d, r) = writeJSON(200, projectToAPI(p), d)
        /\ rpcGetProject(b, d, r) = NewResponse(projectToProto(p), d)
        /\ apiGetProject(a, r) = Reply(200, <<projectToAPI(p)>>, a)
    BY <1>1, <1>4, SMT DEF GetProject, InProject, OrNotFound, rpcGetProject, rpcInProject,
       OrError,
      apiGetProject, ForProject, Sought, found, Show
  <2>3. projectToAPI(p) = projectToProto(p) /\ "next_cursor" \notin DOMAIN projectToAPI(p)
    BY <2>1, ProjectShape
  <2> HIDE DEF p
  <2>4. Answered(b, Reply(200, <<projectToAPI(p)>>, a),
                 writeJSON(200, projectToAPI(p), Rows(b, a)),
                 NewResponse(projectToProto(p), Rows(b, a)))
    BY <2>3, Objects, SMT
  <2> QED BY <2>2, <2>4 DEF d
<1> QED BY <1>3, <1>4

\* A list both surfaces show.
LEMMA Items ==
    ASSUME NEW b, NEW a, ContentsOK(b, a), NEW g, NEW h, g = h
    PROVE  Answered(b, Reply(200, <<[items |-> g]>>, a),
                    writeJSON(200, [items |-> g], Rows(b, a)),
                    NewResponse([items |-> h], Rows(b, a)))
<1>1. "next_cursor" \notin DOMAIN [items |-> g]
  OBVIOUS
<1>2. [items |-> g] = [items |-> h]
  OBVIOUS
<1> QED BY <1>1, <1>2, Objects, SMT

\* GET /projects and ListProjects answer alike.
LEMMA ListsTheProjects ==
    ASSUME StoreContract, NEW b, NEW a, ContentsOK(b, a), NEW r
    PROVE  Answered(b, apiListProjects(a, r),
                    ListProjects(b, Rows(b, a), r),
                    rpcListProjects(b, Rows(b, a), r))
<1> DEFINE d == Rows(b, a)
<1> DEFINE L == storeListProjects(b, d)
           S == a.projects
           g == {projectToAPI(p) : p \in S}
           h == {projectToProto(p) : p \in S}
<1>1. L = S
  BY DEF StoreContract, ListsContents
<1>2. \A p \in S : ProjectOK(p)
  BY DEF ContentsOK
<1>3. g = h
  <2> HIDE DEF S
  <2>1. \A p \in S : projectToAPI(p) = projectToProto(p)
    BY <1>2, ProjectShape
  <2> QED BY <2>1
<1>4. /\ ListProjects(b, d, r) = writeJSON(200, [items |-> g], d)
      /\ rpcListProjects(b, d, r) = NewResponse([items |-> h], d)
      /\ apiListProjects(a, r) = Reply(200, <<[items |-> g]>>, a)
  <2> HIDE DEF d
  <2> QED BY <1>1, SMT DEF ListProjects, rpcListProjects, apiListProjects, OrNotFound, OrError,
       Sought, Show
<1> HIDE DEF g, h
<1>5. Answered(b, Reply(200, <<[items |-> g]>>, a), writeJSON(200, [items |-> g], Rows(b, a)),
               NewResponse([items |-> h], Rows(b, a)))
  BY <1>3, Items
<1> QED BY <1>4, <1>5

\* GET /projects/{slug}/environments and ListEnvironments answer alike.
LEMMA ListsTheEnvironments ==
    ASSUME StoreContract, NEW b, NEW a, ContentsOK(b, a), NEW r
    PROVE  Answered(b, apiListEnvironments(a, r),
                    ListEnvironments(b, Rows(b, a), r),
                    rpcListEnvironments(b, Rows(b, a), r))
<1> DEFINE d == Rows(b, a)
<1> DEFINE found == ProjectBy(a, r.slug)
           p == found.val[1]
<1>1. storeGetProjectBySlug(b, d, r.slug) = found
  BY FindsProject
<1>2. FoundIn(b, "projects", found)
  BY FindsProject
<1> HIDE DEF found
<1>3. CASE found.err # "nil"
  <2>1. found.err = "not_found"
    BY <1>2, <1>3 DEF FoundIn
  <2>2. /\ ListEnvironments(b, d, r) = notFoundOrError("not_found", d)
        /\ rpcListEnvironments(b, d, r) = connectError("not_found", d)
        /\ apiListEnvironments(a, r) = Reply(404, <<>>, a)
    <3> HIDE DEF d
    <3> QED BY <1>1, <1>3, <2>1, SMT DEF ListEnvironments, rpcListEnvironments,
         apiListEnvironments, InProject, rpcInProject, ForProject, OrNotFound, OrError, Sought,
         found
  <2> QED BY <2>2, Missing
<1>4. CASE found.err = "nil"
  <2>1. ProjectOK(p)
    BY <1>2, <1>4 DEF FoundIn, OK
  <2> DEFINE L == storeListEnvironmentsByProject(b, d, p.id)
             S == {m \in a.environments : m.project_id = p.id}
             g == {environmentToAPI(n) : n \in S}
             h == {environmentToProto(n) : n \in S}
  <2>2. L = S
    BY SMT DEF StoreContract, ListsContents
  <2>3. \A n \in S : EnvironmentOK(n)
    BY DEF ContentsOK
  <2>4. g = h
    <3> HIDE DEF S
    <3>1. \A n \in S : environmentToAPI(n) = environmentToProto(n)
      BY <2>3, EnvironmentShape
    <3> QED BY <3>1
  <2>5. /\ ListEnvironments(b, d, r) = writeJSON(200, [items |-> g], d)
        /\ rpcListEnvironments(b, d, r) = NewResponse([items |-> h], d)
        /\ apiListEnvironments(a, r) = Reply(200, <<[items |-> g]>>, a)
    <3> HIDE DEF d
    <3> QED BY <1>1, <1>4, <2>2, SMT DEF ListEnvironments, rpcListEnvironments,
         apiListEnvironments, InProject, rpcInProject, ForProject, OrNotFound, OrError, Sought,
         found, Show
  <2> HIDE DEF g, h
  <2>6. Answered(b, Reply(200, <<[items |-> g]>>, a), writeJSON(200, [items |-> g], Rows(b, a)),
                 NewResponse([items |-> h], Rows(b, a)))
    BY <2>4, Items
  <2> QED BY <2>5, <2>6
<1> QED BY <1>3, <1>4

\* GET of one environment and GetEnvironment answer alike.
LEMMA GetsEnvironment ==
    ASSUME StoreContract, NEW b, NEW a, ContentsOK(b, a), NEW r
    PROVE  Answered(b, apiGetEnvironment(a, r),
                    GetEnvironment(b, Rows(b, a), r),
                    rpcGetEnvironment(b, Rows(b, a), r))
<1> DEFINE d == Rows(b, a)
<1> DEFINE found == ProjectBy(a, r.slug)
           p == found.val[1]
<1>1. storeGetProjectBySlug(b, d, r.slug) = found
  BY FindsProject
<1>2. FoundIn(b, "projects", found)
  BY FindsProject
<1> HIDE DEF found
<1>3. CASE found.err # "nil"
  <2>1. found.err = "not_found"
    BY <1>2, <1>3 DEF FoundIn
  <2>2. /\ GetEnvironment(b, d, r) = notFoundOrError("not_found", d)
        /\ rpcGetEnvironment(b, d, r) = connectError("not_found", d)
        /\ apiGetEnvironment(a, r) = Reply(404, <<>>, a)
    <3> HIDE DEF d
    <3> QED BY <1>1, <1>3, <2>1, SMT DEF GetEnvironment, rpcGetEnvironment, apiGetEnvironment,
         InProject, rpcInProject, ForProject, OrNotFound, OrError, Sought, found
  <2> QED BY <2>2, Missing
<1>4. CASE found.err = "nil"
  <2>1. ProjectOK(p)
    BY <1>2, <1>4 DEF FoundIn, OK
  <2> DEFINE found2 == EnvironmentBy(a, p.id, r.environment)
             n == found2.val[1]
  <2>2. storeGetEnvironmentBySlug(b, d, p.id, r.environment) = found2
    BY FindsEnvironment
  <2>3. FoundIn(b, "environments", found2)
    BY FindsEnvironment
  <2> HIDE DEF found2
  <2>4. CASE found2.err # "nil"
    <3>1. found2.err = "not_found"
      BY <2>3, <2>4 DEF FoundIn
    <3>2. /\ GetEnvironment(b, d, r) = notFoundOrError("not_found", d)
          /\ rpcGetEnvironment(b, d, r) = connectError("not_found", d)
          /\ apiGetEnvironment(a, r) = Reply(404, <<>>, a)
      <4> HIDE DEF d
      <4> QED BY <1>1, <1>4, <2>2, <2>4, <3>1, SMT DEF GetEnvironment, rpcGetEnvironment,
           apiGetEnvironment, InProject, rpcInProject, ForProject, OrNotFound, OrError, Sought,
           found, found2
    <3> QED BY <3>2, Missing
  <2>5. CASE found2.err = "nil"
    <3>1. EnvironmentOK(n)
      BY <2>3, <2>5 DEF FoundIn, OK
    <3>2. /\ GetEnvironment(b, d, r) = writeJSON(200, environmentToAPI(n), d)
          /\ rpcGetEnvironment(b, d, r) = NewResponse(environmentToProto(n), d)
          /\ apiGetEnvironment(a, r) = Reply(200, <<environmentToAPI(n)>>, a)
      <4> HIDE DEF d
      <4> QED BY <1>1, <1>4, <2>2, <2>5, SMTT(30) DEF GetEnvironment, rpcGetEnvironment,
           apiGetEnvironment, InProject, rpcInProject, ForProject, OrNotFound, OrError, Sought,
           found, found2, Show
    <3>3. /\ environmentToAPI(n) = environmentToProto(n)
          /\ "next_cursor" \notin DOMAIN environmentToAPI(n)
      BY <3>1, EnvironmentShape
    <3> HIDE DEF n
    <3>4. Answered(b, Reply(200, <<environmentToAPI(n)>>, a),
                   writeJSON(200, environmentToAPI(n), Rows(b, a)),
                   NewResponse(environmentToProto(n), Rows(b, a)))
      BY <3>3, Objects, SMT
    <3> QED BY <3>2, <3>4
  <2> QED BY <2>4, <2>5
<1> QED BY <1>3, <1>4

\* GET /projects/{slug}/flags and ListFlags answer alike.
LEMMA ListsTheFlags ==
    ASSUME StoreContract, NEW b, NEW a, ContentsOK(b, a), NEW r
    PROVE  Answered(b, apiListFlags(a, r),
                    ListFlags(b, Rows(b, a), r),
                    rpcListFlags(b, Rows(b, a), r))
<1> DEFINE d == Rows(b, a)
<1> DEFINE found == ProjectBy(a, r.slug)
           p == found.val[1]
<1>1. storeGetProjectBySlug(b, d, r.slug) = found
  BY FindsProject
<1>2. FoundIn(b, "projects", found)
  BY FindsProject
<1> HIDE DEF found
<1>3. CASE found.err # "nil"
  <2>1. found.err = "not_found"
    BY <1>2, <1>3 DEF FoundIn
  <2>2. /\ ListFlags(b, d, r) = notFoundOrError("not_found", d)
        /\ rpcListFlags(b, d, r) = connectError("not_found", d)
        /\ apiListFlags(a, r) = Reply(404, <<>>, a)
    <3> HIDE DEF d
    <3> QED BY <1>1, <1>3, <2>1, SMT DEF ListFlags, rpcListFlags, apiListFlags, InProject,
         rpcInProject, ForProject, OrNotFound, OrError, Sought, found
  <2> QED BY <2>2, Missing
<1>4. CASE found.err = "nil"
  <2>1. ProjectOK(p)
    BY <1>2, <1>4 DEF FoundIn, OK
  <2> DEFINE L == storeListFlagsByProject(b, d, p.id)
             S == {m \in a.flags : m.project_id = p.id}
             g == {flagToAPI(f) : f \in S}
             h == {flagToProto(f) : f \in S}
  <2>2. L = S
    BY SMT DEF StoreContract, ListsContents
  <2>3. \A f \in S : FlagOK(f)
    BY DEF ContentsOK
  <2>4. g = h
    <3> HIDE DEF S
    <3>1. \A f \in S : flagToAPI(f) = flagToProto(f)
      BY <2>3, FlagShape
    <3> QED BY <3>1
  <2>5. /\ ListFlags(b, d, r) = writeJSON(200, [items |-> g], d)
        /\ rpcListFlags(b, d, r) = NewResponse([items |-> h], d)
        /\ apiListFlags(a, r) = Reply(200, <<[items |-> g]>>, a)
    <3> HIDE DEF d
    <3> QED BY <1>1, <1>4, <2>2, SMT DEF ListFlags, rpcListFlags, apiListFlags, InProject,
         rpcInProject, ForProject, OrNotFound, OrError, Sought, found, Show
  <2> HIDE DEF g, h
  <2>6. Answered(b, Reply(200, <<[items |-> g]>>, a), writeJSON(200, [items |-> g], Rows(b, a)),
                 NewResponse([items |-> h], Rows(b, a)))
    BY <2>4, Items
  <2> QED BY <2>5, <2>6
<1> QED BY <1>3, <1>4

\* GET /projects/{slug}/segments and ListSegments answer alike.
LEMMA ListsTheSegments ==
    ASSUME StoreContract, NEW b, NEW a, ContentsOK(b, a), NEW r
    PROVE  Answered(b, apiListSegments(a, r),
                    ListSegments(b, Rows(b, a), r),
                    rpcListSegments(b, Rows(b, a), r))
<1> DEFINE d == Rows(b, a)
<1> DEFINE found == ProjectBy(a, r.slug)
           p == found.val[1]
<1>1. storeGetProjectBySlug(b, d, r.slug) = found
  BY FindsProject
<1>2. FoundIn(b, "projects", found)
  BY FindsProject
<1> HIDE DEF found
<1>3. CASE found.err # "nil"
  <2>1. found.err = "not_found"
    BY <1>2, <1>3 DEF FoundIn
  <2>2. /\ ListSegments(b, d, r) = notFoundOrError("not_found", d)
        /\ rpcListSegments(b, d, r) = connectError("not_found", d)
        /\ apiListSegments(a, r) = Reply(404, <<>>, a)
    <3> HIDE DEF d
    <3> QED BY <1>1, <1>3, <2>1, SMT DEF ListSegments, rpcListSegments, apiListSegments,
         InProject, rpcInProject, ForProject, OrNotFound, OrError, Sought, found
  <2> QED BY <2>2, Missing
<1>4. CASE found.err = "nil"
  <2>1. ProjectOK(p)
    BY <1>2, <1>4 DEF FoundIn, OK
  <2> DEFINE L == storeListSegmentsByProject(b, d, p.id)
             S == {m \in a.segments : m.project_id = p.id}
             g == {segmentToAPI(s) : s \in S}
             h == {segmentToProto(s) : s \in S}
  <2>2. L = S
    BY SMT DEF StoreContract, ListsContents
  <2>3. \A s \in S : SegmentOK(s)
    BY DEF ContentsOK
  <2>4. g = h
    <3> HIDE DEF S
    <3>1. \A s \in S : segmentToAPI(s) = segmentToProto(s)
      BY <2>3, SegmentShape
    <3> QED BY <3>1
  <2>5. /\ ListSegments(b, d, r) = writeJSON(200, [items |-> g], d)
        /\ rpcListSegments(b, d, r) = NewResponse([items |-> h], d)
        /\ apiListSegments(a, r) = Reply(200, <<[items |-> g]>>, a)
    <3> HIDE DEF d
    <3> QED BY <1>1, <1>4, <2>2, SMT DEF ListSegments, rpcListSegments, apiListSegments,
         InProject, rpcInProject, ForProject, OrNotFound, OrError, Sought, found, Show
  <2> HIDE DEF g, h
  <2>6. Answered(b, Reply(200, <<[items |-> g]>>, a), writeJSON(200, [items |-> g], Rows(b, a)),
                 NewResponse([items |-> h], Rows(b, a)))
    BY <2>4, Items
  <2> QED BY <2>5, <2>6
<1> QED BY <1>3, <1>4

\* GET of one segment and GetSegment answer alike.
LEMMA GetsSegment ==
    ASSUME StoreContract, NEW b, NEW a, ContentsOK(b, a), NEW r
    PROVE  Answered(b, apiGetSegment(a, r),
                    GetSegment(b, Rows(b, a), r),
                    rpcGetSegment(b, Rows(b, a), r))
<1> DEFINE d == Rows(b, a)
<1> DEFINE found == ProjectBy(a, r.slug)
           p == found.val[1]
<1>1. storeGetProjectBySlug(b, d, r.slug) = found
  BY FindsProject
<1>2. FoundIn(b, "projects", found)
  BY FindsProject
<1> HIDE DEF found
<1>3. CASE found.err # "nil"
  <2>1. found.err = "not_found"
    BY <1>2, <1>3 DEF FoundIn
  <2>2. /\ GetSegment(b, d, r) = notFoundOrError("not_found", d)
        /\ rpcGetSegment(b, d, r) = connectError("not_found", d)
        /\ apiGetSegment(a, r) = Reply(404, <<>>, a)
    <3> HIDE DEF d
    <3> QED BY <1>1, <1>3, <2>1, SMT DEF GetSegment, rpcGetSegment, apiGetSegment, InProject,
         rpcInProject, ForProject, OrNotFound, OrError, Sought, found
  <2> QED BY <2>2, Missing
<1>4. CASE found.err = "nil"
  <2>1. ProjectOK(p)
    BY <1>2, <1>4 DEF FoundIn, OK
  <2> DEFINE found2 == SegmentBy(a, p.id, r.key)
             s == found2.val[1]
  <2>2. storeGetSegmentByKey(b, d, p.id, r.key) = found2
    BY FindsSegment
  <2>3. FoundIn(b, "segments", found2)
    BY FindsSegment
  <2> HIDE DEF found2
  <2>4. CASE found2.err # "nil"
    <3>1. found2.err = "not_found"
      BY <2>3, <2>4 DEF FoundIn
    <3>2. /\ GetSegment(b, d, r) = notFoundOrError("not_found", d)
          /\ rpcGetSegment(b, d, r) = connectError("not_found", d)
          /\ apiGetSegment(a, r) = Reply(404, <<>>, a)
      <4> HIDE DEF d
      <4> QED BY <1>1, <1>4, <2>2, <2>4, <3>1, SMTT(30) DEF GetSegment, rpcGetSegment,
           apiGetSegment, InProject, rpcInProject, ForProject, OrNotFound, OrError, Sought,
           found, found2
    <3> QED BY <3>2, Missing
  <2>5. CASE found2.err = "nil"
    <3>1. SegmentOK(s)
      BY <2>3, <2>5 DEF FoundIn, OK
    <3>2. /\ GetSegment(b, d, r) = writeJSON(200, segmentToAPI(s), d)
          /\ rpcGetSegment(b, d, r) = NewResponse(segmentToProto(s), d)
          /\ apiGetSegment(a, r) = Reply(200, <<segmentToAPI(s)>>, a)
      <4> HIDE DEF d
      <4> QED BY <1>1, <1>4, <2>2, <2>5, SMTT(90) DEF GetSegment, rpcGetSegment, apiGetSegment,
           InProject, rpcInProject, ForProject, OrNotFound, OrError, Sought, found, found2, Show
    <3>3. segmentToAPI(s) = segmentToProto(s) /\ "next_cursor" \notin DOMAIN segmentToAPI(s)
      BY <3>1, SegmentShape
    <3> HIDE DEF s
    <3>4. Answered(b, Reply(200, <<segmentToAPI(s)>>, a),
                   writeJSON(200, segmentToAPI(s), Rows(b, a)),
                   NewResponse(segmentToProto(s), Rows(b, a)))
      BY <3>3, Objects, SMT
    <3> QED BY <3>2, <3>4
  <2> QED BY <2>4, <2>5
<1> QED BY <1>3, <1>4

\* GET of the latest snapshot and GetLatestSnapshot answer alike.
LEMMA GetsLatestSnapshot ==
    ASSUME StoreContract, NEW b, NEW a, ContentsOK(b, a), NEW r
    PROVE  Answered(b, apiGetLatestSnapshot(a, r),
                    GetLatestSnapshot(b, Rows(b, a), r),
                    rpcGetLatestSnapshot(b, Rows(b, a), r))
<1> DEFINE d == Rows(b, a)
<1> DEFINE found == ProjectBy(a, r.slug)
           p == found.val[1]
<1>1. storeGetProjectBySlug(b, d, r.slug) = found
  BY FindsProject
<1>2. FoundIn(b, "projects", found)
  BY FindsProject
<1> HIDE DEF found
<1>3. CASE found.err # "nil"
  <2>1. found.err = "not_found"
    BY <1>2, <1>3 DEF FoundIn
  <2>2. /\ GetLatestSnapshot(b, d, r) = notFoundOrError("not_found", d)
        /\ rpcGetLatestSnapshot(b, d, r) = connectError("not_found", d)
        /\ apiGetLatestSnapshot(a, r) = Reply(404, <<>>, a)
    <3> HIDE DEF d
    <3> QED BY <1>1, <1>3, <2>1, SMT DEF GetLatestSnapshot, rpcGetLatestSnapshot,
         apiGetLatestSnapshot, InProject, rpcInProject, ForProject, OrNotFound, OrError, Sought,
         found
  <2> QED BY <2>2, Missing
<1>4. CASE found.err = "nil"
  <2>1. ProjectOK(p)
    BY <1>2, <1>4 DEF FoundIn, OK
  <2> DEFINE found2 == LatestSnapshotBy(a, p.id)
             s == found2.val[1]
  <2>2. storeGetLatestSnapshot(b, d, p.id) = found2
    BY FindsLatestSnapshot
  <2>3. FoundIn(b, "snapshots", found2)
    BY FindsLatestSnapshot
  <2> HIDE DEF found2
  <2>4. CASE found2.err # "nil"
    <3>1. found2.err = "not_found"
      BY <2>3, <2>4 DEF FoundIn
    <3>2. /\ GetLatestSnapshot(b, d, r) = notFoundOrError("not_found", d)
          /\ rpcGetLatestSnapshot(b, d, r) = connectError("not_found", d)
          /\ apiGetLatestSnapshot(a, r) = Reply(404, <<>>, a)
      <4> HIDE DEF d
      <4> QED BY <1>1, <1>4, <2>2, <2>4, <3>1, SMTT(30) DEF GetLatestSnapshot,
           rpcGetLatestSnapshot, apiGetLatestSnapshot, InProject, rpcInProject, ForProject,
           OrNotFound, OrError, Sought, found, found2
    <3> QED BY <3>2, Missing
  <2>5. CASE found2.err = "nil"
    <3>1. SnapshotOK(s)
      BY <2>3, <2>5 DEF FoundIn, OK
    <3>2. /\ GetLatestSnapshot(b, d, r) = writeJSON(200, snapshotToAPI(s), d)
          /\ rpcGetLatestSnapshot(b, d, r) = NewResponse(snapshotToProto(s), d)
          /\ apiGetLatestSnapshot(a, r) = Reply(200, <<snapshotToAPI(s)>>, a)
      <4> HIDE DEF d
      <4> QED BY <1>1, <1>4, <2>2, <2>5, SMTT(30) DEF GetLatestSnapshot, rpcGetLatestSnapshot,
           apiGetLatestSnapshot, InProject, rpcInProject, ForProject, OrNotFound, OrError,
           Sought, found, found2, Show
    <3>3. snapshotToAPI(s) = snapshotToProto(s) /\ "next_cursor" \notin DOMAIN snapshotToAPI(s)
      BY <3>1, SnapshotShape
    <3> HIDE DEF s
    <3>4. Answered(b, Reply(200, <<snapshotToAPI(s)>>, a),
                   writeJSON(200, snapshotToAPI(s), Rows(b, a)),
                   NewResponse(snapshotToProto(s), Rows(b, a)))
      BY <3>3, Objects, SMT
    <3> QED BY <3>2, <3>4
  <2> QED BY <2>4, <2>5
<1> QED BY <1>3, <1>4

\* GET of one snapshot and GetSnapshot answer alike, given an id.
LEMMA GetsSnapshot ==
    ASSUME StoreContract, NEW b, NEW a, ContentsOK(b, a), NEW r, r.id # <<>>
    PROVE  Answered(b, apiGetSnapshot(a, r),
                    GetSnapshot(b, Rows(b, a), r),
                    rpcGetSnapshot(b, Rows(b, a), r))
<1> DEFINE d == Rows(b, a)
<1> DEFINE found == ProjectBy(a, r.slug)
           p == found.val[1]
<1>1. storeGetProjectBySlug(b, d, r.slug) = found
  BY FindsProject
<1>2. FoundIn(b, "projects", found)
  BY FindsProject
<1> HIDE DEF found
<1>3. CASE found.err # "nil"
  <2>1. found.err = "not_found"
    BY <1>2, <1>3 DEF FoundIn
  <2>2. /\ GetSnapshot(b, d, r) = notFoundOrError("not_found", d)
        /\ rpcGetSnapshot(b, d, r) = connectError("not_found", d)
        /\ apiGetSnapshot(a, r) = Reply(404, <<>>, a)
    <3> HIDE DEF d
    <3> QED BY <1>1, <1>3, <2>1, SMTT(30) DEF GetSnapshot, rpcGetSnapshot, apiGetSnapshot,
         InProject, rpcInProject, ForProject, OrNotFound, OrError, Sought, found
  <2> QED BY <2>2, Missing
<1>4. CASE found.err = "nil"
  <2>1. ProjectOK(p)
    BY <1>2, <1>4 DEF FoundIn, OK
  <2> DEFINE found2 == SnapshotBy(a, p.id, r.id)
             s == found2.val[1]
  <2>2. storeGetSnapshotByID(b, d, p.id, r.id) = found2
    BY FindsSnapshot
  <2>3. FoundIn(b, "snapshots", found2)
    BY FindsSnapshot
  <2> HIDE DEF found2
  <2>4. CASE found2.err # "nil"
    <3>1. found2.err = "not_found"
      BY <2>3, <2>4 DEF FoundIn
    <3>2. /\ GetSnapshot(b, d, r) = notFoundOrError("not_found", d)
          /\ rpcGetSnapshot(b, d, r) = connectError("not_found", d)
          /\ apiGetSnapshot(a, r) = Reply(404, <<>>, a)
      <4> HIDE DEF d
      <4> QED BY <1>1, <1>4, <2>2, <2>4, <3>1, SMTT(30) DEF GetSnapshot, rpcGetSnapshot,
           apiGetSnapshot, InProject, rpcInProject, ForProject, OrNotFound, OrError, Sought,
           found, found2
    <3> QED BY <3>2, Missing
  <2>5. CASE found2.err = "nil"
    <3>1. SnapshotOK(s)
      BY <2>3, <2>5 DEF FoundIn, OK
    <3>2. /\ GetSnapshot(b, d, r) = writeJSON(200, snapshotToAPI(s), d)
          /\ rpcGetSnapshot(b, d, r) = NewResponse(snapshotToProto(s), d)
          /\ apiGetSnapshot(a, r) = Reply(200, <<snapshotToAPI(s)>>, a)
      <4> HIDE DEF d
      <4> QED BY <1>1, <1>4, <2>2, <2>5, SMTT(30) DEF GetSnapshot, rpcGetSnapshot,
           apiGetSnapshot, InProject, rpcInProject, ForProject, OrNotFound, OrError, Sought,
           found, found2, Show
    <3>3. snapshotToAPI(s) = snapshotToProto(s) /\ "next_cursor" \notin DOMAIN snapshotToAPI(s)
      BY <3>1, SnapshotShape
    <3> HIDE DEF s
    <3>4. Answered(b, Reply(200, <<snapshotToAPI(s)>>, a),
                   writeJSON(200, snapshotToAPI(s), Rows(b, a)),
                   NewResponse(snapshotToProto(s), Rows(b, a)))
      BY <3>3, Objects, SMT
    <3> QED BY <3>2, <3>4
  <2> QED BY <2>4, <2>5
<1> QED BY <1>3, <1>4

\* A trace looks the same over both surfaces.
LEMMA TraceShape ==
    ASSUME NEW t
    PROVE  traceToAPI(t) = traceToProto(t)
BY DEF traceToAPI, traceToProto, traceNodeToAPI, traceNodeToProto

\* So does a decision: its reason survives the enum of the wire format.
LEMMA DecisionShape ==
    ASSUME NEW c, NEW x, NEW n, x.reason \in Reasons
    PROVE  LET g == decisionToAPI(Evaluate(c, x, n))
           IN  g = decisionToProto(Evaluate(c, x, n)) /\ "next_cursor" \notin DOMAIN g
<1> DEFINE u == Evaluate(c, x, n)
           g == decisionToAPI(u)
           h == decisionToProto(u)
           names == {"value", "reason", "rule_id", "version"}
<1>1. Columns(u, names) /\ u.reason = x.reason
  BY SMT DEF Columns, Evaluate
<1> HIDE DEF u
<1>2. Columns(g, names) /\ Columns(h, names)
  BY <1>1 DEF Columns, decisionToAPI, decisionToProto
<1>3. /\ g.value = u.value /\ g.reason = u.reason /\ g.version = u.version
      /\ g.rule_id = Optional(u.rule_id, "")
  BY <1>1, SMT DEF Columns, decisionToAPI
<1>4. /\ /\ h.value = u.value
         /\ h.reason = decisionReasonToProto(u.reason)
         /\ h.version = u.version
      /\ h.rule_id = Optional(u.rule_id, "")
  BY <1>1, SMT DEF Columns, decisionToProto
<1>5. decisionReasonToProto(u.reason) = u.reason
  BY <1>1 DEF decisionReasonToProto, Reasons
<1> HIDE DEF g, h
<1>6. g.value = h.value /\ g.reason = h.reason /\ g.rule_id = h.rule_id /\ g.version = h.version
  BY <1>3, <1>4, <1>5
<1>7. g = h
  BY <1>2, <1>6 DEF Columns
<1>8. "next_cursor" \notin DOMAIN g
  BY <1>2 DEF Columns
<1> QED BY <1>7, <1>8 DEF u, g, h

\* Without an id both refuse the request, provided the project exists.
LEMMA GetsNoSnapshot ==
    ASSUME StoreContract, NEW b, NEW a, ContentsOK(b, a), NEW r, r.id = <<>>,
           ProjectBy(a, r.slug).err = "nil"
    PROVE  Answered(b, apiGetSnapshot(a, r), GetSnapshot(b, Rows(b, a), r),
                    rpcGetSnapshot(b, Rows(b, a), r))
<1> DEFINE d == Rows(b, a)
<1>1. storeGetProjectBySlug(b, d, r.slug) = ProjectBy(a, r.slug)
  BY FindsProject
<1>2. /\ GetSnapshot(b, d, r) = badRequest(d)
      /\ rpcGetSnapshot(b, d, r) = rpcBadRequest(d)
      /\ apiGetSnapshot(a, r) = Reply(400, <<>>, a)
  <2> HIDE DEF d
  <2> QED BY <1>1, SMT DEF GetSnapshot, rpcGetSnapshot, rpcInProject, OrError, apiGetSnapshot,
       Refuse
<1> QED BY <1>2, BadRequests

\* What a list in order, cut at a limit, is made of.
LEMMA SortedElements ==
    ASSUME NEW S, NEW R, Arranges(Sorted(S, R), S, R), NEW n \in Nat
    PROVE  /\ \A i \in DOMAIN Sorted(S, R) : Sorted(S, R)[i] \in S
           /\ \A i \in DOMAIN Cut(Sorted(S, R), n) : Cut(Sorted(S, R), n)[i] \in S
<1> DEFINE L == Sorted(S, R)
<1>1. L \in Seq(S)
  BY DEF Arranges
<1> HIDE DEF L
<1>2. \A i \in DOMAIN L : L[i] \in S
  BY <1>1, SMT
<1>3. \A i \in DOMAIN Cut(L, n) : Cut(L, n)[i] = L[i] /\ i \in DOMAIN L
  BY <1>1, SMT DEF Cut
<1> QED BY <1>2, <1>3 DEF L

\* ListFlagVersions lists well-formed versions.
LEMMA VersionLists ==
    ASSUME StoreContract, NEW b, NEW a, ContentsOK(b, a), NEW flag
    PROVE  /\ storeListFlagVersions(b, Rows(b, a), flag) = VersionList(a, flag)
           /\ \A i \in DOMAIN VersionList(a, flag) : VersionOK(VersionList(a, flag)[i])
<1> DEFINE S == VersionsOf(a, flag)
<1>1. /\ Arranges(Sorted(S, VersionOrder(S)), S, VersionOrder(S))
      /\ storeListFlagVersions(b, Rows(b, a), flag) = Sorted(S, VersionOrder(S))
  BY DEF StoreContract, ListsContents
<1>2. \A x \in S : VersionOK(x)
  BY DEF ContentsOK, VersionsOf
<1> HIDE DEF S
<1>3. \A i \in DOMAIN Sorted(S, VersionOrder(S)) : Sorted(S, VersionOrder(S))[i] \in S
  BY <1>1, SortedElements, 0 \in Nat
<1> QED BY <1>1, <1>2, <1>3 DEF VersionList, S

\* ListSnapshotsByProject lists well-formed snapshots.
LEMMA SnapshotLists ==
    ASSUME StoreContract, NEW b, NEW a, ContentsOK(b, a), NEW project, NEW limit \in Nat
    PROVE  /\ storeListSnapshotsByProject(b, Rows(b, a), project, limit)
                = SnapshotList(a, project, limit)
           /\ \A i \in DOMAIN SnapshotList(a, project, limit) :
                SnapshotOK(SnapshotList(a, project, limit)[i])
<1> DEFINE S == SnapshotsOf(a, project)
           L == Cut(Sorted(S, VersionOrder(S)), limit)
<1>1. /\ Arranges(Sorted(S, VersionOrder(S)), S, VersionOrder(S))
      /\ storeListSnapshotsByProject(b, Rows(b, a), project, limit) = L
  <2>1. ListsContents(b, a)
    BY DEF StoreContract
  <2> QED BY <2>1, SMTT(30) DEF ListsContents
<1>2. \A x \in S : SnapshotOK(x)
  BY DEF ContentsOK, SnapshotsOf
<1> HIDE DEF S
<1>3. \A i \in DOMAIN L : L[i] \in S
  BY <1>1, SortedElements
<1> QED BY <1>1, <1>2, <1>3 DEF SnapshotList, S

\* GET of a flag's versions and ListFlagVersions answer alike.
LEMMA ListsTheVersions ==
    ASSUME StoreContract, NEW b, NEW a, ContentsOK(b, a), NEW r
    PROVE  Answered(b, apiListFlagVersions(a, r),
                    ListFlagVersions(b, Rows(b, a), r),
                    rpcListFlagVersions(b, Rows(b, a), r))
<1> DEFINE d == Rows(b, a)
<1> DEFINE found == ProjectBy(a, r.slug)
           p == found.val[1]
<1>1. storeGetProjectBySlug(b, d, r.slug) = found
  BY FindsProject
<1>2. FoundIn(b, "projects", found)
  BY FindsProject
<1> HIDE DEF found
<1>3. CASE found.err # "nil"
  <2>1. found.err = "not_found"
    BY <1>2, <1>3 DEF FoundIn
  <2>2. /\ ListFlagVersions(b, d, r) = notFoundOrError("not_found", d)
        /\ rpcListFlagVersions(b, d, r) = connectError("not_found", d)
        /\ apiListFlagVersions(a, r) = Reply(404, <<>>, a)
    <3> HIDE DEF d
    <3> QED BY <1>1, <1>3, <2>1, SMT DEF ListFlagVersions, rpcListFlagVersions,
         apiListFlagVersions, InProject, rpcInProject, ForProject, OrNotFound, OrError, Sought,
         OfFlag, rpcOfFlag, ForFlag, found
  <2> QED BY <2>2, Missing
<1>4. CASE found.err = "nil"
  <2>1. ProjectOK(p)
    BY <1>2, <1>4 DEF FoundIn, OK
  <2> DEFINE found2 == FlagBy(a, p.id, r.key)
             f == found2.val[1]
  <2>2. storeGetFlagByKey(b, d, p.id, r.key) = found2
    BY FindsFlag
  <2>3. FoundIn(b, "flags", found2)
    BY FindsFlag
  <2> HIDE DEF found2
  <2>4. CASE found2.err # "nil"
    <3>1. found2.err = "not_found"
      BY <2>3, <2>4 DEF FoundIn
    <3>2. ListFlagVersions(b, d, r) = notFoundOrError("not_found", d)
      <4> HIDE DEF d
      <4> QED BY <1>1, <1>4, <2>2, <2>4, <3>1, SMTT(30) DEF ListFlagVersions, InProject,
           OrNotFound, Sought, OfFlag, found, found2
    <3>3. rpcListFlagVersions(b, d, r) = connectError("not_found", d)
      <4> HIDE DEF d
      <4> QED BY <1>1, <1>4, <2>2, <2>4, <3>1, SMTT(30) DEF rpcListFlagVersions, rpcInProject,
           OrError, Sought, rpcOfFlag, found, found2
    <3>4. apiListFlagVersions(a, r) = Reply(404, <<>>, a)
      <4> HIDE DEF d
      <4> QED BY <1>1, <1>4, <2>2, <2>4, <3>1, SMTT(30) DEF apiListFlagVersions, ForProject,
           Sought, ForFlag, found, found2
    <3> QED BY <3>2, <3>3, <3>4, Missing
  <2>5. CASE found2.err = "nil"
    <3>1. FlagOK(f)
      BY <2>3, <2>5 DEF FoundIn, OK
    <3> DEFINE L == VersionList(a, f.id)
               g == [i \in DOMAIN L |-> flagVersionToAPI(L[i])]
               h == [i \in DOMAIN L |-> flagVersionToProto(L[i])]
    <3>2. storeListFlagVersions(b, d, f.id) = L
      BY VersionLists
    <3>3. \A i \in DOMAIN L : VersionOK(L[i])
      BY VersionLists
    <3> HIDE DEF L
    <3>4. g = h
      <4>1. \A i \in DOMAIN L : flagVersionToAPI(L[i]) = flagVersionToProto(L[i])
        BY <3>3, VersionShape
      <4> QED BY <4>1
    <3>5. ListFlagVersions(b, d, r) = writeJSON(200, [items |-> g], d)
      <4> HIDE DEF d
      <4>1. ListFlagVersions(b, d, r)
              = writeJSON(200, [items |-> Each(storeListFlagVersions(b, d, f.id),
                                               flagVersionToAPI)], d)
        BY <1>1, <1>4, <2>2, <2>5 DEF ListFlagVersions, OfFlag, InProject, OrNotFound
      <4> HIDE DEF f
      <4>2. Each(storeListFlagVersions(b, d, f.id), flagVersionToAPI) = g
        BY <3>2 DEF Each
      <4> QED BY <4>1, <4>2
    <3>6. rpcListFlagVersions(b, d, r) = NewResponse([items |-> h], d)
      <4> HIDE DEF d
      <4>1. rpcListFlagVersions(b, d, r)
              = NewResponse([items |-> Each(storeListFlagVersions(b, d, f.id),
                                            flagVersionToProto)], d)
        BY <1>1, <1>4, <2>2, <2>5 DEF rpcListFlagVersions, rpcOfFlag, rpcInProject, OrError
      <4> HIDE DEF f
      <4>2. Each(storeListFlagVersions(b, d, f.id), flagVersionToProto) = h
        BY <3>2 DEF Each
      <4> QED BY <4>1, <4>2
    <3>7. apiListFlagVersions(a, r) = Reply(200, <<[items |-> g]>>, a)
      <4> HIDE DEF d
      <4> QED BY <1>4, <2>5 DEF apiListFlagVersions, ForProject, Sought, ForFlag, Show, L,
           found, found2, Each
    <3> HIDE DEF g, h
    <3>8. Answered(b, Reply(200, <<[items |-> g]>>, a),
                   writeJSON(200, [items |-> g], Rows(b, a)),
                   NewResponse([items |-> h], Rows(b, a)))
      BY <3>4, Items
    <3> QED BY <3>5, <3>6, <3>7, <3>8
  <2> QED BY <2>4, <2>5
<1> QED BY <1>3, <1>4

\* GET of a project's snapshots and ListSnapshots answer alike.
LEMMA ListsTheSnapshots ==
    ASSUME StoreContract, NEW b, NEW a, ContentsOK(b, a), NEW r, r.limit \in Nat
    PROVE  Answered(b, apiListSnapshots(a, r),
                    ListSnapshots(b, Rows(b, a), r),
                    rpcListSnapshots(b, Rows(b, a), r))
<1> DEFINE d == Rows(b, a)
<1> DEFINE found == ProjectBy(a, r.slug)
           p == found.val[1]
<1>1. storeGetProjectBySlug(b, d, r.slug) = found
  BY FindsProject
<1>2. FoundIn(b, "projects", found)
  BY FindsProject
<1> HIDE DEF found
<1>3. CASE found.err # "nil"
  <2>1. found.err = "not_found"
    BY <1>2, <1>3 DEF FoundIn
  <2>2. /\ ListSnapshots(b, d, r) = notFoundOrError("not_found", d)
        /\ rpcListSnapshots(b, d, r) = connectError("not_found", d)
        /\ apiListSnapshots(a, r) = Reply(404, <<>>, a)
    <3> HIDE DEF d
    <3> QED BY <1>1, <1>3, <2>1, SMT DEF ListSnapshots, rpcListSnapshots, apiListSnapshots,
         InProject, rpcInProject, ForProject, OrNotFound, OrError, Sought, found
  <2> QED BY <2>2, Missing
<1>4. CASE found.err = "nil"
  <2>1. ProjectOK(p)
    BY <1>2, <1>4 DEF FoundIn, OK
  <2> DEFINE limit == LimitOr(r.limit, 50)
  <2>2. /\ limit \in Nat
        /\ limit = IF r.limit = 0 THEN 50 ELSE r.limit
        /\ limit = IF r.limit <= 0 THEN 50 ELSE r.limit
    BY SMT DEF LimitOr
  <2> HIDE DEF limit
  <2> DEFINE L == SnapshotList(a, p.id, limit)
             g == [i \in DOMAIN L |-> snapshotToAPI(L[i])]
             h == [i \in DOMAIN L |-> snapshotToProto(L[i])]
  <2>3. storeListSnapshotsByProject(b, d, p.id, limit) = L
    BY <2>2, SnapshotLists
  <2>4. \A i \in DOMAIN L : SnapshotOK(L[i])
    BY <2>2, SnapshotLists
  <2> HIDE DEF L
  <2>5. g = h
    <3>1. \A i \in DOMAIN L : snapshotToAPI(L[i]) = snapshotToProto(L[i])
      BY <2>4, SnapshotShape
    <3> QED BY <3>1
  <2>6. ListSnapshots(b, d, r) = writeJSON(200, [items |-> g], d)
    <3> HIDE DEF d
    <3> QED BY <1>1, <1>4, <2>3, <2>2, SMT DEF ListSnapshots, InProject, OrNotFound, found, Each
  <2>7. rpcListSnapshots(b, d, r) = NewResponse([items |-> h], d)
    <3> HIDE DEF d
    <3> QED BY <1>1, <1>4, <2>3, <2>2, SMT DEF rpcListSnapshots, rpcInProject, OrError, found,
         Each
  <2>8. apiListSnapshots(a, r) = Reply(200, <<[items |-> g]>>, a)
    <3> HIDE DEF d
    <3> QED BY <1>1, <1>4, <2>3, <2>2, SMT DEF apiListSnapshots, ForProject, Sought, Show, L,
         limit, found, Each
  <2> HIDE DEF g, h
  <2>9. Answered(b, Reply(200, <<[items |-> g]>>, a), writeJSON(200, [items |-> g], Rows(b, a)),
                 NewResponse([items |-> h], Rows(b, a)))
    BY <2>5, Items
  <2> QED BY <2>6, <2>7, <2>8, <2>9
<1> QED BY <1>3, <1>4

\* The version found, if any, is well-formed.
LEMMA FoundElements ==
    ASSUME NEW b, NEW found, FoundIn(b, "versions", found)
    PROVE  \A i \in DOMAIN found.val : VersionOK(found.val[i])
<1>1. CASE found.val = <<>>
  BY <1>1, SMT
<1>2. CASE found.err = "nil" /\ Single(found.val) /\ OK(b, "versions", found.val[1])
  <2>1. VersionOK(found.val[1])
    BY <1>2 DEF OK
  <2>2. DOMAIN found.val = {1}
    <3>1. PICK x : found.val = <<x>>
      BY <1>2 DEF Single
    <3> QED BY <3>1, SMT
  <2> QED BY <2>1, <2>2
<1> QED BY <1>1, <1>2 DEF FoundIn

\* GET of one flag, with its latest version, and GetFlag answer alike.
LEMMA GetsFlag ==
    ASSUME StoreContract, NEW b, NEW a, ContentsOK(b, a), NEW r
    PROVE  Answered(b, apiGetFlag(a, r),
                    GetFlag(b, Rows(b, a), r),
                    rpcGetFlag(b, Rows(b, a), r))
<1> DEFINE d == Rows(b, a)
<1> DEFINE found == ProjectBy(a, r.slug)
           p == found.val[1]
<1>1. storeGetProjectBySlug(b, d, r.slug) = found
  BY FindsProject
<1>2. FoundIn(b, "projects", found)
  BY FindsProject
<1> HIDE DEF found
<1>3. CASE found.err # "nil"
  <2>1. found.err = "not_found"
    BY <1>2, <1>3 DEF FoundIn
  <2>2. /\ GetFlag(b, d, r) = notFoundOrError("not_found", d)
        /\ rpcGetFlag(b, d, r) = connectError("not_found", d)
        /\ apiGetFlag(a, r) = Reply(404, <<>>, a)
    <3> HIDE DEF d
    <3>1. GetFlag(b, d, r) = notFoundOrError("not_found", d)
      BY <1>1, <2>1 DEF GetFlag, OfFlag, InProject, OrNotFound
    <3>2. rpcGetFlag(b, d, r) = connectError("not_found", d)
      BY <1>1, <2>1 DEF rpcGetFlag, rpcOfFlag, rpcInProject, OrError
    <3>3. apiGetFlag(a, r) = Reply(404, <<>>, a)
      BY <1>3 DEF apiGetFlag, ForFlag, ForProject, Sought, found
    <3> QED BY <3>1, <3>2, <3>3
  <2> QED BY <2>2, Missing
<1>4. CASE found.err = "nil"
  <2>1. ProjectOK(p)
    BY <1>2, <1>4 DEF FoundIn, OK
  <2> DEFINE found2 == FlagBy(a, p.id, r.key)
             f == found2.val[1]
  <2>2. storeGetFlagByKey(b, d, p.id, r.key) = found2
    BY FindsFlag
  <2>3. FoundIn(b, "flags", found2)
    BY FindsFlag
  <2> HIDE DEF found2
  <2>4. CASE found2.err # "nil"
    <3>1. found2.err = "not_found"
      BY <2>3, <2>4 DEF FoundIn
    <3>2. /\ GetFlag(b, d, r) = notFoundOrError("not_found", d)
          /\ rpcGetFlag(b, d, r) = connectError("not_found", d)
          /\ apiGetFlag(a, r) = Reply(404, <<>>, a)
      <4> HIDE DEF d
      <4>1. GetFlag(b, d, r) = notFoundOrError("not_found", d)
        BY <1>1, <1>4, <2>2, <3>1 DEF GetFlag, OfFlag, InProject, OrNotFound, found, found2
      <4>2. rpcGetFlag(b, d, r) = connectError("not_found", d)
        BY <1>1, <1>4, <2>2, <3>1 DEF rpcGetFlag, rpcOfFlag, rpcInProject, OrError, found, found2
      <4>3. apiGetFlag(a, r) = Reply(404, <<>>, a)
        BY <1>4, <2>4 DEF apiGetFlag, ForFlag, ForProject, Sought, found, found2
      <4> QED BY <4>1, <4>2, <4>3
    <3> QED BY <3>2, Missing
  <2>5. CASE found2.err = "nil"
    <3>1. FlagOK(f)
      BY <2>3, <2>5 DEF FoundIn, OK
    <3> DEFINE latest == VersionBy(a, f.id)
               u == storeGetLatestFlagVersion(b, d, f.id)
               g == [i \in DOMAIN u.val |-> flagVersionToAPI(u.val[i])]
               h == [i \in DOMAIN u.val |-> flagVersionToProto(u.val[i])]
               k == [i \in DOMAIN latest.val |-> flagVersionToAPI(latest.val[i])]
    <3>2. u = latest
      BY FindsVersion
    <3>3. FoundIn(b, "versions", latest)
      BY FindsVersion
    <3>4. u.err \in {"nil", "not_found"}
      <4> HIDE DEF u, latest
      <4> QED BY <3>2, <3>3 DEF FoundIn
    <3>5. g = h /\ g = k
      <4> HIDE DEF u, latest
      <4>1. \A i \in DOMAIN u.val : VersionOK(u.val[i])
        BY <3>2, <3>3, FoundElements
      <4>2. \A i \in DOMAIN u.val : flagVersionToAPI(u.val[i]) = flagVersionToProto(u.val[i])
        BY <4>1, VersionShape
      <4> QED BY <3>2, <4>2
    <3>6. GetFlag(b, d, r) = writeJSON(200, [flag |-> flagToAPI(f), latest_version |-> g], d)
      <4> HIDE DEF d
      <4> DEFINE p0 == storeGetProjectBySlug(b, d, r.slug).val[1]
      <4>1. storeGetProjectBySlug(b, d, r.slug).err = "nil" /\ p0 = p
        BY <1>1, <1>4
      <4> DEFINE f0 == storeGetFlagByKey(b, d, p0.id, r.key).val[1]
      <4>2. storeGetFlagByKey(b, d, p0.id, r.key).err = "nil" /\ f0 = f
        <5> HIDE DEF p0
        <5> QED BY <2>2, <2>5, <4>1
      <4>3. storeGetLatestFlagVersion(b, d, f0.id).err \in {"nil", "not_found"}
        <5> HIDE DEF p0, f0
        <5> QED BY <4>2, <3>4
      <4>4. GetFlag(b, d, r)
              = writeJSON(
                    200,
                    [flag |-> flagToAPI(f0),
                     latest_version |->
                       [i \in DOMAIN storeGetLatestFlagVersion(b, d, f0.id).val |->
                                flagVersionToAPI(storeGetLatestFlagVersion(b, d,
                                                                           f0.id).val[i])]],
                    d)
        BY <4>1, <4>2, <4>3 DEF GetFlag, InProject, OrNotFound, OfFlag, Each
      <4> HIDE DEF p0, f0
      <4> QED BY <4>1, <4>2, <4>4
    <3>7. rpcGetFlag(b, d, r) = NewResponse([flag |-> flagToProto(f), latest_version |-> h], d)
      <4> HIDE DEF d
      <4> DEFINE p0 == storeGetProjectBySlug(b, d, r.slug).val[1]
      <4>1. storeGetProjectBySlug(b, d, r.slug).err = "nil" /\ p0 = p
        BY <1>1, <1>4
      <4> DEFINE f0 == storeGetFlagByKey(b, d, p0.id, r.key).val[1]
      <4>2. storeGetFlagByKey(b, d, p0.id, r.key).err = "nil" /\ f0 = f
        <5> HIDE DEF p0
        <5> QED BY <2>2, <2>5, <4>1
      <4>3. storeGetLatestFlagVersion(b, d, f0.id).err \in {"nil", "not_found"}
        <5> HIDE DEF p0, f0
        <5> QED BY <4>2, <3>4
      <4>4. rpcGetFlag(b, d, r)
              = NewResponse([flag |-> flagToProto(f0),
                             latest_version |->
                               [i \in DOMAIN storeGetLatestFlagVersion(b, d, f0.id).val |->
                                        flagVersionToProto(storeGetLatestFlagVersion(
                                                               b, d, f0.id).val[i])]],
                            d)
        BY <4>1, <4>2, <4>3 DEF rpcGetFlag, rpcInProject, OrError, rpcOfFlag, Each
      <4> HIDE DEF p0, f0
      <4> QED BY <4>1, <4>2, <4>4
    <3>8. apiGetFlag(a, r) = Reply(200, <<[flag |-> flagToAPI(f), latest_version |-> k]>>, a)
      BY <1>4, <2>5 DEF apiGetFlag, ForProject, Sought, ForFlag, found, found2, Show, Each
    <3>9. flagToAPI(f) = flagToProto(f)
      BY <3>1, FlagShape
    <3> DEFINE x == [flag |-> flagToAPI(f), latest_version |-> g]
               y == [flag |-> flagToProto(f), latest_version |-> h]
    <3>10. x = y /\ "next_cursor" \notin DOMAIN x
      <4> HIDE DEF g, h, f
      <4> QED BY <3>5, <3>9
    <3>11. apiGetFlag(a, r) = Reply(200, <<x>>, a)
      <4> HIDE DEF g, h, k, f
      <4> QED BY <3>5, <3>8
    <3> HIDE DEF x, y
    <3>12. Answered(b, Reply(200, <<x>>, a), writeJSON(200, x, Rows(b, a)),
                    NewResponse(y, Rows(b, a)))
      BY <3>10, Objects, SMT
    <3> QED BY <3>6, <3>7, <3>11, <3>12 DEF x, y
  <2> QED BY <2>4, <2>5
<1> QED BY <1>3, <1>4

\* loadEvaluation and its Connect twin find the same rules or fail alike.
LEMMA Loads ==
    ASSUME StoreContract, NEW b, NEW a, ContentsOK(b, a), NEW r
    PROVE  Answered(b, apiLoad(a, r),
                    loadEvaluation(b, Rows(b, a), r),
                    rpcLoadEvaluation(b, Rows(b, a), r))
<1> DEFINE d == Rows(b, a)
<1> DEFINE found == ProjectBy(a, r.slug)
           p == found.val[1]
<1>1. storeGetProjectBySlug(b, d, r.slug) = found
  BY FindsProject
<1>2. FoundIn(b, "projects", found)
  BY FindsProject
<1> HIDE DEF found
<1>3. CASE found.err # "nil"
  <2>1. found.err = "not_found"
    BY <1>2, <1>3 DEF FoundIn
  <2>2. /\ loadEvaluation(b, d, r) = notFoundOrError("not_found", d)
        /\ rpcLoadEvaluation(b, d, r) = connectError("not_found", d)
        /\ apiLoad(a, r) = Reply(404, <<>>, a)
    <3> HIDE DEF d
    <3>1. loadEvaluation(b, d, r) = notFoundOrError("not_found", d)
      BY <1>1, <1>3, <2>1 DEF loadEvaluation, OfFlag, InProject, OrNotFound
    <3>2. rpcLoadEvaluation(b, d, r) = connectError("not_found", d)
      BY <1>1, <1>3, <2>1 DEF rpcLoadEvaluation, rpcOfFlag, rpcInProject, OrError
    <3>3. apiLoad(a, r) = Reply(404, <<>>, a)
      BY <1>3 DEF apiLoad, ForFlag, ForProject, Sought, Refuse, found
    <3> QED BY <3>1, <3>2, <3>3
  <2> QED BY <2>2, Missing
<1>4. CASE found.err = "nil"
  <2>1. ProjectOK(p)
    BY <1>2, <1>4 DEF FoundIn, OK
  <2> DEFINE found2 == FlagBy(a, p.id, r.key)
             f == found2.val[1]
  <2>2. storeGetFlagByKey(b, d, p.id, r.key) = found2
    BY FindsFlag
  <2>3. FoundIn(b, "flags", found2)
    BY FindsFlag
  <2> HIDE DEF found2
  <2>4. CASE found2.err # "nil"
    <3>1. found2.err = "not_found"
      BY <2>3, <2>4 DEF FoundIn
    <3>2. /\ loadEvaluation(b, d, r) = notFoundOrError("not_found", d)
          /\ rpcLoadEvaluation(b, d, r) = connectError("not_found", d)
          /\ apiLoad(a, r) = Reply(404, <<>>, a)
      <4> HIDE DEF d
      <4>1. loadEvaluation(b, d, r) = notFoundOrError("not_found", d)
        BY <1>1, <1>4, <2>2, <2>4, <3>1 DEF loadEvaluation, OfFlag, InProject, OrNotFound
      <4>2. rpcLoadEvaluation(b, d, r) = connectError("not_found", d)
        BY <1>1, <1>4, <2>2, <2>4, <3>1 DEF rpcLoadEvaluation, rpcOfFlag, rpcInProject, OrError
      <4>3. apiLoad(a, r) = Reply(404, <<>>, a)
        BY <1>4, <2>4 DEF apiLoad, ForFlag, ForProject, Sought, Refuse, found, found2
      <4> QED BY <4>1, <4>2, <4>3
    <3> QED BY <3>2, Missing
  <2>5. CASE found2.err = "nil"
    <3>1. FlagOK(f)
      BY <2>3, <2>5 DEF FoundIn, OK
    <3> DEFINE latest == VersionBy(a, f.id)
               u == storeGetLatestFlagVersion(b, d, f.id)
    <3>2. u = latest
      BY FindsVersion
    <3>3. FoundIn(b, "versions", latest)
      BY FindsVersion
    <3>4. CASE latest.err # "nil"
      <4>1. u.err # "nil" /\ u.err = "not_found"
        <5> HIDE DEF u, latest
        <5> QED BY <3>2, <3>3, <3>4 DEF FoundIn
      <4>2. loadEvaluation(b, d, r) = notFoundOrError(u.err, d)
        <5> HIDE DEF d
        <5> DEFINE p0 == storeGetProjectBySlug(b, d, r.slug).val[1]
        <5>1. storeGetProjectBySlug(b, d, r.slug).err = "nil" /\ p0 = p
          BY <1>1, <1>4
        <5> DEFINE f0 == storeGetFlagByKey(b, d, p0.id, r.key).val[1]
        <5>2. storeGetFlagByKey(b, d, p0.id, r.key).err = "nil" /\ f0 = f
          <6> HIDE DEF p0
          <6> QED BY <2>2, <2>5, <5>1
        <5>3. storeGetLatestFlagVersion(b, d, f0.id).err # "nil"
          <6> HIDE DEF p0, f0
          <6> QED BY <5>2, <4>1
        <5>4. loadEvaluation(b, d, r)
                = notFoundOrError(storeGetLatestFlagVersion(b, d, f0.id).err, d)
          BY <5>1, <5>2, <5>3 DEF loadEvaluation, InProject, OrNotFound, OfFlag
        <5> HIDE DEF p0, f0
        <5> QED BY <5>1, <5>2, <5>4
      <4>3. rpcLoadEvaluation(b, d, r) = connectError(u.err, d)
        <5> HIDE DEF d
        <5> DEFINE p0 == storeGetProjectBySlug(b, d, r.slug).val[1]
        <5>1. storeGetProjectBySlug(b, d, r.slug).err = "nil" /\ p0 = p
          BY <1>1, <1>4
        <5> DEFINE f0 == storeGetFlagByKey(b, d, p0.id, r.key).val[1]
        <5>2. storeGetFlagByKey(b, d, p0.id, r.key).err = "nil" /\ f0 = f
          <6> HIDE DEF p0
          <6> QED BY <2>2, <2>5, <5>1
        <5>3. storeGetLatestFlagVersion(b, d, f0.id).err # "nil"
          <6> HIDE DEF p0, f0
          <6> QED BY <5>2, <4>1
        <5>4. rpcLoadEvaluation(b, d, r)
                = connectError(storeGetLatestFlagVersion(b, d, f0.id).err, d)
          BY <5>1, <5>2, <5>3 DEF rpcLoadEvaluation, rpcInProject, OrError, rpcOfFlag
        <5> HIDE DEF p0, f0
        <5> QED BY <5>1, <5>2, <5>4
      <4>4. apiLoad(a, r) = Reply(404, <<>>, a)
        BY <1>4, <2>5, <3>4 DEF apiLoad, ForProject, Sought, ForFlag, found, found2, Show,
           Refuse
      <4>5. /\ loadEvaluation(b, d, r) = notFoundOrError("not_found", d)
            /\ rpcLoadEvaluation(b, d, r) = connectError("not_found", d)
        <5> HIDE DEF u
        <5> QED BY <4>1, <4>2, <4>3
      <4> QED BY <4>4, <4>5, Missing
    <3>5. CASE latest.err = "nil"
      <4> DEFINE v == latest.val[1]
               c == Compile(v.strategy, [json |-> v.compiled[1]])
               l == [compiled |-> c.val[1], version |-> v.version]
               w == u.val[1]
               e == Compile(w.strategy, [json |-> w.compiled[1]])
               m == [compiled |-> e.val[1], version |-> w.version]
      <4>1. u.err = "nil" /\ e = c /\ m = l
        <5> HIDE DEF u, latest
        <5> QED BY <3>2, <3>5
      <4>2. CASE c.err # "nil"
        <5>1. u.err = "nil" /\ e.err # "nil"
          <6> HIDE DEF u, c, e, l, m
          <6> QED BY <4>1, <4>2
        <5>2. loadEvaluation(b, d, r) = writeError(500, d)
          <6> HIDE DEF d
          <6> DEFINE p0 == storeGetProjectBySlug(b, d, r.slug).val[1]
          <6>1. storeGetProjectBySlug(b, d, r.slug).err = "nil" /\ p0 = p
            BY <1>1, <1>4
          <6> DEFINE f0 == storeGetFlagByKey(b, d, p0.id, r.key).val[1]
          <6>2. storeGetFlagByKey(b, d, p0.id, r.key).err = "nil" /\ f0 = f
            <7> HIDE DEF p0
            <7> QED BY <2>2, <2>5, <6>1
          <6>3. /\ storeGetLatestFlagVersion(b, d, f0.id).err = "nil"
                /\ Compile(storeGetLatestFlagVersion(b, d, f0.id).val[1].strategy,
                           [json |-> storeGetLatestFlagVersion(b, d,
                                                               f0.id).val[1].compiled[1]]).err
                     # "nil"
            <7> HIDE DEF p0, f0
            <7> QED BY <6>2, <5>1
          <6>4. loadEvaluation(b, d, r) = writeError(500, d)
            BY <6>1, <6>2, <6>3 DEF loadEvaluation, InProject, OrNotFound, OfFlag
          <6> HIDE DEF p0, f0
          <6> QED BY <6>1, <6>2, <6>4
        <5>3. rpcLoadEvaluation(b, d, r) = NewError("internal", d)
          <6> HIDE DEF d
          <6> DEFINE p0 == storeGetProjectBySlug(b, d, r.slug).val[1]
          <6>1. storeGetProjectBySlug(b, d, r.slug).err = "nil" /\ p0 = p
            BY <1>1, <1>4
          <6> DEFINE f0 == storeGetFlagByKey(b, d, p0.id, r.key).val[1]
          <6>2. storeGetFlagByKey(b, d, p0.id, r.key).err = "nil" /\ f0 = f
            <7> HIDE DEF p0
            <7> QED BY <2>2, <2>5, <6>1
          <6>3. /\ storeGetLatestFlagVersion(b, d, f0.id).err = "nil"
                /\ Compile(storeGetLatestFlagVersion(b, d, f0.id).val[1].strategy,
                           [json |-> storeGetLatestFlagVersion(b, d,
                                                               f0.id).val[1].compiled[1]]).err
                     # "nil"
            <7> HIDE DEF p0, f0
            <7> QED BY <6>2, <5>1
          <6>4. rpcLoadEvaluation(b, d, r) = NewError("internal", d)
            BY <6>1, <6>2, <6>3 DEF rpcLoadEvaluation, rpcInProject, OrError, rpcOfFlag
          <6> HIDE DEF p0, f0
          <6> QED BY <6>1, <6>2, <6>4
        <5>4. apiLoad(a, r) = Reply(500, <<>>, a)
          BY <1>4, <2>5, <3>5, <4>2 DEF apiLoad, ForProject, Sought, ForFlag, found, found2,
             Show, Refuse
        <5>5. Refuses(500, "internal")
          BY SMT DEF Refuses
        <5>6. Answered(b, Reply(500, <<>>, a), writeError(500, d), NewError("internal", d))
          BY <5>5, Errors, SMT
        <5> QED BY <5>2, <5>3, <5>4, <5>6
      <4>3. CASE c.err = "nil"
        <5>1. u.err = "nil" /\ ~(e.err # "nil")
          <6> HIDE DEF u, c, e, l, m
          <6> QED BY <4>1, <4>3
        <5>2. loadEvaluation(b, d, r) = writeJSON(200, m, d)
          <6> HIDE DEF d
          <6> DEFINE p0 == storeGetProjectBySlug(b, d, r.slug).val[1]
          <6>1. storeGetProjectBySlug(b, d, r.slug).err = "nil" /\ p0 = p
            BY <1>1, <1>4
          <6> DEFINE f0 == storeGetFlagByKey(b, d, p0.id, r.key).val[1]
          <6>2. storeGetFlagByKey(b, d, p0.id, r.key).err = "nil" /\ f0 = f
            <7> HIDE DEF p0
            <7> QED BY <2>2, <2>5, <6>1
          <6>3. /\ storeGetLatestFlagVersion(b, d, f0.id).err = "nil"
                /\ ~(Compile(storeGetLatestFlagVersion(b, d, f0.id).val[1].strategy,
                             [json |-> storeGetLatestFlagVersion(b, d,
                                                                 f0.id).val[1].compiled[1]]).err
                       # "nil")
            <7> HIDE DEF p0, f0
            <7> QED BY <6>2, <5>1
          <6>4. loadEvaluation(b, d, r)
                  = writeJSON(200,
                              [compiled |->
                                 Compile(storeGetLatestFlagVersion(b, d, f0.id).val[1].strategy,
                                         [json |-> storeGetLatestFlagVersion(
                                                       b, d, f0.id).val[1].compiled[1]]).val[1],
                               version |-> storeGetLatestFlagVersion(b, d,
                                                                     f0.id).val[1].version],
                              d)
            BY <6>1, <6>2, <6>3 DEF loadEvaluation, InProject, OrNotFound, OfFlag
          <6> HIDE DEF p0, f0
          <6> QED BY <6>1, <6>2, <6>4
        <5>3. rpcLoadEvaluation(b, d, r) = NewResponse(m, d)
          <6> HIDE DEF d
          <6> DEFINE p0 == storeGetProjectBySlug(b, d, r.slug).val[1]
          <6>1. storeGetProjectBySlug(b, d, r.slug).err = "nil" /\ p0 = p
            BY <1>1, <1>4
          <6> DEFINE f0 == storeGetFlagByKey(b, d, p0.id, r.key).val[1]
          <6>2. storeGetFlagByKey(b, d, p0.id, r.key).err = "nil" /\ f0 = f
            <7> HIDE DEF p0
            <7> QED BY <2>2, <2>5, <6>1
          <6>3. /\ storeGetLatestFlagVersion(b, d, f0.id).err = "nil"
                /\ ~(Compile(storeGetLatestFlagVersion(b, d, f0.id).val[1].strategy,
                             [json |-> storeGetLatestFlagVersion(b, d,
                                                                 f0.id).val[1].compiled[1]]).err
                       # "nil")
            <7> HIDE DEF p0, f0
            <7> QED BY <6>2, <5>1
          <6>4. rpcLoadEvaluation(b, d, r)
                  = NewResponse([compiled |->
                                   Compile(storeGetLatestFlagVersion(b, d,
                                                                     f0.id).val[1].strategy,
                                           [json |-> storeGetLatestFlagVersion(
                                                         b, d,
                                                         f0.id).val[1].compiled[1]]).val[1],
                                 version |-> storeGetLatestFlagVersion(b, d,
                                                                       f0.id).val[1].version],
                                d)
            BY <6>1, <6>2, <6>3 DEF rpcLoadEvaluation, rpcInProject, OrError, rpcOfFlag
          <6> HIDE DEF p0, f0
          <6> QED BY <6>1, <6>2, <6>4
        <5>4. apiLoad(a, r) = Reply(200, <<l>>, a)
          BY <1>4, <2>5, <3>5, <4>3 DEF apiLoad, ForProject, Sought, ForFlag, found, found2,
             Show, Refuse
        <5>5. "next_cursor" \notin DOMAIN m
          <6> HIDE DEF e, w
          <6> QED OBVIOUS
        <5> HIDE DEF l, m
        <5>6. Answered(b, Reply(200, <<m>>, a), writeJSON(200, m, d), NewResponse(m, d))
          BY <5>5, Objects, SMT
        <5> QED BY <4>1, <5>2, <5>3, <5>4, <5>6
      <4> QED BY <4>2, <4>3
    <3> QED BY <3>4, <3>5
  <2> QED BY <2>4, <2>5
<1> QED BY <1>3, <1>4

\* What loading a flag comes to.
IsLoad(a, y) ==
    \/ y = Reply(404, <<>>, a) \/ y = Reply(500, <<>>, a)
    \/ \E l : y = Reply(200, <<l>>, a) /\ "next_cursor" \notin DOMAIN l

\* Loading fails with 404 or 500 or comes back with rules.
LEMMA LoadForm ==
    ASSUME NEW a, NEW r
    PROVE  IsLoad(a, apiLoad(a, r))
<1> DEFINE p == ProjectBy(a, r.slug).val[1]
           f == FlagBy(a, p.id, r.key).val[1]
           v == VersionBy(a, f.id).val[1]
           c == Compile(v.strategy, [json |-> v.compiled[1]])
           l == [compiled |-> c.val[1], version |-> v.version]
<1>1. \/ apiLoad(a, r) = Reply(404, <<>>, a) \/ apiLoad(a, r) = Reply(500, <<>>, a)
      \/ apiLoad(a, r) = Reply(200, <<l>>, a)
  BY DEF apiLoad, ForFlag, ForProject, Sought, Refuse, Show
<1>2. "next_cursor" \notin DOMAIN l
  <2> HIDE DEF c, v
  <2> QED OBVIOUS
<1> HIDE DEF l
<1> QED BY <1>1, <1>2 DEF IsLoad

\* What loading comes to on the surfaces: an answer, or the rules l.
LoadsRules(b, a, y, rest, rpc, l) ==
    /\ y = Reply(200, <<l>>, a)
    /\ rest.body # <<>> /\ rest.body[1] = l /\ rpc.body # <<>> /\ rpc.body[1] = l
    /\ y.body # <<>> /\ y.body[1] = l

\* Both surfaces have loaded the rules, or both have answered with an error.
LEMMA LoadsOrAnswers ==
    ASSUME NEW b, NEW a, NEW y, NEW rest, NEW rpc, Answered(b, y, rest, rpc), IsLoad(a, y)
    PROVE  \/ rest.body = <<>> /\ rpc.body = <<>> /\ y.body = <<>>
           \/ \E l : LoadsRules(b, a, y, rest, rpc, l)
<1>1. rest.body = y.body /\ rpc.body = Content(y.body)
  BY SMT DEF Answered
<1>2. Content(<<>>) = <<>>
  BY DEF Content
<1>3. CASE y = Reply(404, <<>>, a) \/ y = Reply(500, <<>>, a)
  <2>1. y.body = <<>>
    BY <1>3, SMT DEF Reply
  <2> QED BY <1>1, <1>2, <2>1
<1>4. ASSUME NEW l, y = Reply(200, <<l>>, a), "next_cursor" \notin DOMAIN l
      PROVE  LoadsRules(b, a, y, rest, rpc, l)
  <2>1. y.body = <<l>> /\ <<l>> # <<>> /\ <<l>>[1] = l
    BY <1>4, SMT DEF Reply
  <2>2. Content(<<l>>) = <<l>>
    BY <1>4, <2>1 DEF Content
  <2>3. rest.body = <<l>> /\ rpc.body = <<l>>
    BY <1>1, <2>1, <2>2
  <2> QED BY <1>4, <2>1, <2>3 DEF LoadsRules
<1> QED BY <1>3, <1>4 DEF IsLoad

\* POST :evaluate and Evaluate answer alike.
LEMMA Evaluates ==
    ASSUME StoreContract, NEW b, NEW a, ContentsOK(b, a), NEW r, r.context.reason \in Reasons
    PROVE  Answered(b, apiEvaluate(a, r), EvaluateFlag(b, Rows(b, a), r),
                    rpcEvaluate(b, Rows(b, a), r))
<1> DEFINE d == Rows(b, a)
           y == apiLoad(a, r)
           rest == loadEvaluation(b, d, r)
           rpc == rpcLoadEvaluation(b, d, r)
<1>1. Answered(b, y, rest, rpc) /\ IsLoad(a, y)
  BY Loads, LoadForm
<1>2. \/ rest.body = <<>> /\ rpc.body = <<>> /\ y.body = <<>>
      \/ \E l : LoadsRules(b, a, y, rest, rpc, l)
  <2> HIDE DEF y, rest, rpc
  <2> QED BY <1>1, LoadsOrAnswers
<1>3. CASE rest.body = <<>> /\ rpc.body = <<>> /\ y.body = <<>>
  <2>1. EvaluateFlag(b, d, r) = rest
    BY <1>3 DEF EvaluateFlag, OrLoadError
  <2>2. rpcEvaluate(b, d, r) = rpc
    BY <1>3 DEF rpcEvaluate, rpcOrLoadError
  <2>3. apiEvaluate(a, r) = y
    BY <1>3 DEF apiEvaluate, WhenLoaded
  <2> QED BY <1>1, <2>1, <2>2, <2>3
<1>4. ASSUME NEW l, LoadsRules(b, a, y, rest, rpc, l)
      PROVE  Answered(b, apiEvaluate(a, r), EvaluateFlag(b, d, r), rpcEvaluate(b, d, r))
  <2> DEFINE g == decisionToAPI(Evaluate(l.compiled, r.context, l.version))
             h == decisionToProto(Evaluate(l.compiled, r.context, l.version))
  <2>1. EvaluateFlag(b, d, r) = writeJSON(200, g, d)
    <3>1. rest.body # <<>> /\ rest.body[1] = l
      BY <1>4 DEF LoadsRules
    <3>2. EvaluateFlag(b, d, r)
            = writeJSON(200,
                        decisionToAPI(Evaluate(rest.body[1].compiled, r.context,
                                               rest.body[1].version)),
                        d)
      BY <3>1 DEF EvaluateFlag, OrLoadError
    <3> HIDE DEF rest
    <3> QED BY <3>1, <3>2
  <2>2. rpcEvaluate(b, d, r) = NewResponse(h, d)
    <3>1. rpc.body # <<>> /\ rpc.body[1] = l
      BY <1>4 DEF LoadsRules
    <3>2. rpcEvaluate(b, d, r)
            = NewResponse(decisionToProto(Evaluate(rpc.body[1].compiled, r.context,
                                                   rpc.body[1].version)),
                          d)
      BY <3>1 DEF rpcEvaluate, rpcOrLoadError
    <3> HIDE DEF rpc
    <3> QED BY <3>1, <3>2
  <2>3. apiEvaluate(a, r) = Reply(200, <<g>>, a)
    <3>1. y.body # <<>> /\ y.body[1] = l
      BY <1>4 DEF LoadsRules
    <3>2. apiEvaluate(a, r)
            = Reply(200,
                    <<decisionToAPI(Evaluate(y.body[1].compiled, r.context, y.body[1].version))>>,
                    a)
      BY <3>1 DEF apiEvaluate, WhenLoaded, Show
    <3> HIDE DEF y
    <3> QED BY <3>1, <3>2
  <2>4. g = h /\ "next_cursor" \notin DOMAIN g
    BY DecisionShape
  <2> HIDE DEF g, h
  <2>5. Answered(b, Reply(200, <<g>>, a), writeJSON(200, g, d), NewResponse(h, d))
    BY <2>4, Objects, SMT
  <2> QED BY <2>1, <2>2, <2>3, <2>5
<1> QED BY <1>2, <1>3, <1>4

\* POST :evaluate-with-trace and EvaluateWithTrace answer alike.
LEMMA EvaluatesWithTrace ==
    ASSUME StoreContract, NEW b, NEW a, ContentsOK(b, a), NEW r, r.context.reason \in Reasons
    PROVE  Answered(b, apiEvaluateWithTrace(a, r), EvaluateFlagWithTrace(b, Rows(b, a), r),
                    rpcEvaluateWithTrace(b, Rows(b, a), r))
<1> DEFINE d == Rows(b, a)
           y == apiLoad(a, r)
           rest == loadEvaluation(b, d, r)
           rpc == rpcLoadEvaluation(b, d, r)
<1>1. Answered(b, y, rest, rpc) /\ IsLoad(a, y)
  BY Loads, LoadForm
<1>2. \/ rest.body = <<>> /\ rpc.body = <<>> /\ y.body = <<>>
      \/ \E l : LoadsRules(b, a, y, rest, rpc, l)
  <2> HIDE DEF y, rest, rpc
  <2> QED BY <1>1, LoadsOrAnswers
<1>3. CASE rest.body = <<>> /\ rpc.body = <<>> /\ y.body = <<>>
  <2>1. EvaluateFlagWithTrace(b, d, r) = rest
    BY <1>3 DEF EvaluateFlagWithTrace, OrLoadError
  <2>2. rpcEvaluateWithTrace(b, d, r) = rpc
    BY <1>3 DEF rpcEvaluateWithTrace, rpcOrLoadError
  <2>3. apiEvaluateWithTrace(a, r) = y
    BY <1>3 DEF apiEvaluateWithTrace, WhenLoaded
  <2> QED BY <1>1, <2>1, <2>2, <2>3
<1>4. ASSUME NEW l, LoadsRules(b, a, y, rest, rpc, l)
      PROVE  Answered(b, apiEvaluateWithTrace(a, r), EvaluateFlagWithTrace(b, d, r),
                      rpcEvaluateWithTrace(b, d, r))
  <2> DEFINE g == [decision |-> decisionToAPI(EvaluateWithTrace(l.compiled, r.context,
                                                                l.version).decision),
                   trace |-> traceToAPI(EvaluateWithTrace(l.compiled, r.context,
                                                          l.version).trace)]
             h == [decision |-> decisionToProto(EvaluateWithTrace(l.compiled, r.context,
                                                                  l.version).decision),
                   trace |-> traceToProto(EvaluateWithTrace(l.compiled, r.context,
                                                            l.version).trace)]
  <2>1. EvaluateFlagWithTrace(b, d, r) = writeJSON(200, g, d)
    <3>1. rest.body # <<>> /\ rest.body[1] = l
      BY <1>4 DEF LoadsRules
    <3>2. EvaluateFlagWithTrace(b, d, r)
            = writeJSON(200,
                        [decision |-> decisionToAPI(EvaluateWithTrace(
                                                        rest.body[1].compiled, r.context,
                                                        rest.body[1].version).decision),
                         trace |-> traceToAPI(EvaluateWithTrace(rest.body[1].compiled,
                                                                r.context,
                                                                rest.body[1].version).trace)],
                        d)
      BY <3>1 DEF EvaluateFlagWithTrace, OrLoadError
    <3> HIDE DEF rest
    <3> QED BY <3>1, <3>2
  <2>2. rpcEvaluateWithTrace(b, d, r) = NewResponse(h, d)
    <3>1. rpc.body # <<>> /\ rpc.body[1] = l
      BY <1>4 DEF LoadsRules
    <3>2. rpcEvaluateWithTrace(b, d, r)
            = NewResponse(
                  [decision |-> decisionToProto(
                                    EvaluateWithTrace(rpc.body[1].compiled, r.context,
                                                      rpc.body[1].version).decision),
                   trace |-> traceToProto(EvaluateWithTrace(rpc.body[1].compiled, r.context,
                                                            rpc.body[1].version).trace)],
                  d)
      BY <3>1 DEF rpcEvaluateWithTrace, rpcOrLoadError
    <3> HIDE DEF rpc
    <3> QED BY <3>1, <3>2
  <2>3. apiEvaluateWithTrace(a, r) = Reply(200, <<g>>, a)
    <3>1. y.body # <<>> /\ y.body[1] = l
      BY <1>4 DEF LoadsRules
    <3>2. apiEvaluateWithTrace(a, r)
            = Reply(200,
                    <<[decision |-> decisionToAPI(EvaluateWithTrace(y.body[1].compiled, r.context,
                                                                  y.body[1].version).decision),
                       trace |-> traceToAPI(EvaluateWithTrace(y.body[1].compiled, r.context,
                                                            y.body[1].version).trace)]>>,
                    a)
      BY <3>1 DEF apiEvaluateWithTrace, WhenLoaded, Show
    <3> HIDE DEF y
    <3> QED BY <3>1, <3>2
  <2>4. g = h /\ "next_cursor" \notin DOMAIN g
    <3> DEFINE t == EvaluateWithTrace(l.compiled, r.context, l.version)
    <3>1. t.decision = Evaluate(l.compiled, r.context, l.version)
      BY SMT DEF EvaluateWithTrace
    <3> HIDE DEF t
    <3>2. decisionToAPI(t.decision) = decisionToProto(t.decision)
      BY <3>1, DecisionShape
    <3>3. traceToAPI(t.trace) = traceToProto(t.trace)
      BY TraceShape
    <3>4. [decision |-> decisionToAPI(t.decision), trace |-> traceToAPI(t.trace)]
            = [decision |-> decisionToProto(t.decision), trace |-> traceToProto(t.trace)]
      BY <3>2, <3>3
    <3>5. "next_cursor" \notin DOMAIN [decision |-> decisionToAPI(t.decision),
                                       trace |-> traceToAPI(t.trace)]
      OBVIOUS
    <3> QED BY <3>4, <3>5 DEF t
  <2> HIDE DEF g, h
  <2>5. Answered(b, Reply(200, <<g>>, a), writeJSON(200, g, d), NewResponse(h, d))
    BY <2>4, Objects, SMT
  <2> QED BY <2>1, <2>2, <2>3, <2>5
<1> QED BY <1>2, <1>3, <1>4

-----------------------------------------------------------------------------
(* The audit log *)

\* A request for a page: where it begins, what it selects, how much it takes.
CursorOf(r) == IF r.cursor = <<>> THEN [ts |-> 0, id |-> <<>>] ELSE r.cursor[1]
CursorOK(r) ==
    r.cursor # <<>> => {"ts", "id"} \subseteq DOMAIN r.cursor[1] /\ r.cursor[1].ts \in Nat
PageLimit(r) == LimitOr(r.limit, DefaultLimit)
LogQuery(p, r) ==
    [project_id |-> p.id, action |-> r.action, actor |-> r.actor_filter, from |-> r.from,
     to |-> r.to, cursor_ts |-> CursorOf(r).ts, cursor_id |-> CursorOf(r).id,
     limit |-> PageLimit(r) + 1]
PageOK(r) == r.limit \in Nat /\ r.from \in Nat /\ r.to \in Nat /\ CursorOK(r)

\* The events selected, newest first, and their first page.
EventList(b, a, q) == Sorted(EventsFor(b, a, q), EventOrder(EventsFor(b, a, q)))
APIEvents(s) == [i \in DOMAIN s |-> auditEventToAPI(s[i])]
ProtoEvents(s) == [i \in DOMAIN s |-> auditEventToProto(s[i])]
LogPage(log, limit) ==
    IF Len(log) <= limit THEN [items |-> APIEvents(log), next_cursor |-> <<>>]
    ELSE [items |-> APIEvents(Cut(log, limit)),
          next_cursor |-> <<encodeAuditCursor(log[limit].created_at, log[limit].id)>>]
apiListAuditEvents(b, a, r) ==
    ForProject(a, r, LAMBDA p : Show(LogPage(EventList(b, a, LogQuery(p, r)), PageLimit(r)), a))

\* rows is log, cut one after the page.
IsWindow(log, rows, limit) ==
    /\ Len(rows) <= limit <=> Len(log) <= limit
    /\ Len(log) <= limit => rows = log /\ Cut(log, limit) = log
    /\ ~(Len(log) <= limit)
         => SubSeq(rows, 1, limit) = Cut(log, limit) /\ rows[limit] = log[limit]
    /\ Len(rows) > limit <=> ~(Len(log) <= limit)

\* One row more than the limit tells whether there is another page.
LEMMA Windows ==
    ASSUME NEW S, NEW log \in Seq(S), NEW limit \in Nat \ {0}
    PROVE  IsWindow(log, Cut(log, limit + 1), limit)
<1> DEFINE rows == Cut(log, limit + 1)
<1>1. CASE Len(log) <= limit
  <2>1. rows = log /\ Cut(log, limit) = log
    BY <1>1, SMT DEF Cut
  <2> HIDE DEF rows
  <2>2. ~(Len(log) > limit)
    BY <1>1, SMT
  <2>3. IsWindow(log, rows, limit)
    BY <1>1, <2>1, <2>2 DEF IsWindow
  <2> QED BY <2>3 DEF rows
<1>2. CASE ~(Len(log) <= limit)
  <2>1. Len(log) \in Nat /\ limit < Len(log)
    BY <1>2, SMT
  <2>2. rows \in Seq(S) /\ Len(rows) = limit + 1 /\ \A i \in 1 .. (limit + 1) : rows[i] = log[i]
    BY <2>1, SMT DEF Cut
  <2>3. Cut(log, limit) = SubSeq(log, 1, limit)
    BY <2>1, SMT DEF Cut
  <2> HIDE DEF rows
  <2>4. SubSeq(rows, 1, limit) = SubSeq(log, 1, limit)
    <3>1. SubSeq(rows, 1, limit) = [i \in 1 .. limit |-> rows[i]]
      BY <2>2, SMT
    <3>2. SubSeq(log, 1, limit) = [i \in 1 .. limit |-> log[i]]
      BY <2>1, SMT
    <3>3. \A i \in 1 .. limit : rows[i] = log[i]
      BY <2>2, SMT
    <3> QED BY <3>1, <3>2, <3>3
  <2>5. rows[limit] = log[limit] /\ ~(Len(rows) <= limit) /\ Len(rows) > limit
    BY <2>2, SMT
  <2>6. IsWindow(log, rows, limit)
    BY <1>2, <2>3, <2>4, <2>5 DEF IsWindow
  <2> QED BY <2>6 DEF rows
<1> QED BY <1>1, <1>2

\* What the store reads of the log for a page.
Reading(b, a, p, r, rows) ==
    LET log == EventList(b, a, LogQuery(p, r))
    IN  /\ IsWindow(log, rows, PageLimit(r))
        /\ \A i \in DOMAIN log : EventOK(b, log[i])
        /\ \A i \in DOMAIN Cut(log, PageLimit(r)) : EventOK(b, Cut(log, PageLimit(r))[i])

\* ListAuditEvents, asked for one event more than the page holds, tells what
\* the page needs.
LEMMA ReadsLog ==
    ASSUME StoreContract, NEW b, NEW a, ContentsOK(b, a), NEW p, NEW r, PageOK(r)
    PROVE  Reading(b, a, p, r, storeListAuditEvents(b, Rows(b, a), LogQuery(p, r)))
<1> DEFINE q == LogQuery(p, r)
           n == PageLimit(r)
           V == EventsFor(b, a, q)
           log == Sorted(V, EventOrder(V))
<1>1. n \in Nat \ {0}
  BY LimitAssumption, SMT DEF PageOK, PageLimit, LimitOr
<1>2. CursorOf(r).ts \in Nat
  <2>1. CASE r.cursor = <<>>
    <3>1. CursorOf(r) = [ts |-> 0, id |-> <<>>]
      BY <2>1 DEF CursorOf
    <3> QED BY <3>1, SMT
  <2>2. CASE r.cursor # <<>>
    BY <2>2 DEF PageOK, CursorOK, CursorOf
  <2> QED BY <2>1, <2>2
<1>3. QueryOK(q) /\ q.limit = n + 1
  <2>1. /\ q.from = r.from /\ q.to = r.to /\ q.cursor_ts = CursorOf(r).ts /\ q.limit = n + 1
    BY SMT DEF LogQuery
  <2> HIDE DEF q, n
  <2>2. n + 1 \in Nat
    BY <1>1, SMT
  <2> QED BY <1>2, <2>1, <2>2 DEF QueryOK, PageOK
<1> HIDE DEF q, n
<1>4. /\ Arranges(log, V, EventOrder(V))
      /\ storeListAuditEvents(b, Rows(b, a), q) = Cut(log, q.limit)
  BY <1>3 DEF StoreContract, ListsContents
<1>5. \A x \in V : EventOK(b, x)
  BY DEF EventsFor, ContentsOK
<1> HIDE DEF V
<1>6. log \in Seq(V)
  BY <1>4 DEF Arranges
<1>7. /\ \A i \in DOMAIN log : EventOK(b, log[i])
      /\ \A i \in DOMAIN Cut(log, n) : EventOK(b, Cut(log, n)[i])
  BY <1>1, <1>4, <1>5, SortedElements
<1> HIDE DEF log
<1>8. IsWindow(log, Cut(log, n + 1), n)
  BY <1>1, <1>6, Windows
<1>9. IsWindow(log, storeListAuditEvents(b, Rows(b, a), q), n)
  BY <1>3, <1>4, <1>8
<1> QED BY <1>7, <1>9 DEF Reading, EventList, log, V, q, n

\* The page GET /projects/{slug}/audit shows.
LEMMA RestLists ==
    ASSUME StoreContract, NEW b, NEW a, ContentsOK(b, a), NEW r, PageOK(r),
           NEW p, ProjectBy(a, r.slug).err = "nil", p = ProjectBy(a, r.slug).val[1]
    PROVE  ListAuditEvents(b, Rows(b, a), r)
             = writeJSON(200, LogPage(EventList(b, a, LogQuery(p, r)), PageLimit(r)),
                         Rows(b, a))
<1> DEFINE d == Rows(b, a)
           limit == IF r.limit = 0 THEN DefaultLimit ELSE r.limit
           cursor == IF r.cursor = <<>>
                     THEN [err |-> "nil", val |-> <<[ts |-> 0, id |-> <<>>]>>]
                     ELSE decodeAuditCursor(r.cursor[1])
           found == storeGetProjectBySlug(b, d, r.slug)
           p0 == found.val[1]
           q0 == [project_id |-> p0.id, action |-> r.action, actor |-> r.actor_filter,
                  from |-> r.from, to |-> r.to, cursor_ts |-> cursor.val[1].ts,
                  cursor_id |-> cursor.val[1].id, limit |-> limit + 1]
           rows == storeListAuditEvents(b, d, q0)
           log == EventList(b, a, LogQuery(p, r))
           more == [items |-> APIEvents(SubSeq(rows, 1, limit)),
                    next_cursor |->
                      <<encodeAuditCursor(rows[limit].created_at, rows[limit].id)>>]
<1>1. found.err = "nil" /\ p0 = p
  BY FindsProject
<1>2. ListAuditEvents(b, d, r) =
        IF cursor.err # "nil" THEN badRequest(d)
        ELSE IF Len(rows) <= limit
        THEN writeJSON(200, [items |-> APIEvents(rows), next_cursor |-> <<>>], d)
        ELSE writeJSON(200, more, d)
  <2> HIDE DEF d
  <2> QED BY <1>1 DEF ListAuditEvents, InProject, OrNotFound, Each, APIEvents
<1> HIDE DEF found, more
<1>3. cursor.err = "nil" /\ cursor.val[1] = CursorOf(r)
  <2>1. CASE r.cursor = <<>>
    <3>1. cursor = [err |-> "nil", val |-> <<[ts |-> 0, id |-> <<>>]>>]
      BY <2>1
    <3> HIDE DEF cursor
    <3>2. cursor.err = "nil" /\ cursor.val[1] = [ts |-> 0, id |-> <<>>]
      BY <3>1, SMT
    <3> QED BY <2>1, <3>2 DEF CursorOf
  <2>2. CASE r.cursor # <<>>
    <3> DEFINE c == r.cursor[1]
    <3>1. cursor = [err |-> "nil", val |-> <<c>>]
      BY <2>2 DEF PageOK, CursorOK, decodeAuditCursor
    <3> HIDE DEF cursor, c
    <3>2. cursor.err = "nil" /\ cursor.val[1] = c
      BY <3>1, SMT
    <3> QED BY <2>2, <3>2 DEF CursorOf, c
  <2> QED BY <2>1, <2>2
<1>4. limit = PageLimit(r)
  BY DEF PageLimit, LimitOr
<1> HIDE DEF cursor, limit, p0
<1>5. q0 = LogQuery(p, r)
  BY <1>1, <1>3, <1>4 DEF LogQuery
<1> HIDE DEF q0
<1>6. Reading(b, a, p, r, rows)
  BY <1>5, ReadsLog
<1>7. IsWindow(log, rows, limit)
  BY <1>4, <1>6 DEF Reading
<1> HIDE DEF log, rows, d
<1>8. CASE Len(log) <= limit
  <2>1. Len(rows) <= limit /\ rows = log
    BY <1>7, <1>8 DEF IsWindow
  <2>2. LogPage(log, limit) = [items |-> APIEvents(rows), next_cursor |-> <<>>]
    BY <1>8, <2>1 DEF LogPage
  <2> QED BY <1>2, <1>3, <1>4, <2>1, <2>2 DEF d, log
<1>9. CASE ~(Len(log) <= limit)
  <2>1. /\ ~(Len(rows) <= limit)
        /\ SubSeq(rows, 1, limit) = Cut(log, limit) /\ rows[limit] = log[limit]
    BY <1>7, <1>9 DEF IsWindow
  <2>2. LogPage(log, limit) = more
    BY <1>9, <2>1 DEF LogPage, more
  <2> QED BY <1>2, <1>3, <1>4, <2>1, <2>2 DEF d, log
<1> QED BY <1>8, <1>9

\* The page ListAuditEvents shows over Connect, which takes no cursor.
LEMMA RpcLists ==
    ASSUME StoreContract, NEW b, NEW a, ContentsOK(b, a), NEW r, PageOK(r), r.cursor = <<>>,
           NEW p, ProjectBy(a, r.slug).err = "nil", p = ProjectBy(a, r.slug).val[1]
    PROVE  rpcListAuditEvents(b, Rows(b, a), r)
             = NewResponse([items |-> ProtoEvents(Cut(EventList(b, a, LogQuery(p, r)),
                                                      PageLimit(r)))],
                           Rows(b, a))
<1> DEFINE d == Rows(b, a)
           limit == IF r.limit <= 0 THEN DefaultLimit ELSE r.limit
           found == storeGetProjectBySlug(b, d, r.slug)
           p0 == found.val[1]
           q0 == [project_id |-> p0.id, action |-> r.action, actor |-> r.actor_filter,
                  from |-> r.from, to |-> r.to, cursor_ts |-> 0, cursor_id |-> <<>>,
                  limit |-> limit + 1]
           rows == storeListAuditEvents(b, d, q0)
           page == IF Len(rows) > limit THEN SubSeq(rows, 1, limit) ELSE rows
           log == EventList(b, a, LogQuery(p, r))
<1>1. found.err = "nil" /\ p0 = p
  BY FindsProject
<1>2. rpcListAuditEvents(b, d, r) = NewResponse([items |-> ProtoEvents(page)], d)
  <2> HIDE DEF d
  <2> QED BY <1>1 DEF rpcListAuditEvents, rpcInProject, OrError, Each, ProtoEvents
<1> HIDE DEF found
<1>3. CursorOf(r).ts = 0 /\ CursorOf(r).id = <<>>
  <2>1. CursorOf(r) = [ts |-> 0, id |-> <<>>]
    BY DEF CursorOf
  <2> QED BY <2>1, SMT
<1>4. limit = PageLimit(r)
  BY SMT DEF PageLimit, LimitOr, PageOK
<1> HIDE DEF limit, p0
<1>5. q0 = LogQuery(p, r)
  BY <1>1, <1>3, <1>4 DEF LogQuery
<1> HIDE DEF q0
<1>6. Reading(b, a, p, r, rows)
  BY <1>5, ReadsLog
<1>7. IsWindow(log, rows, limit)
  BY <1>4, <1>6 DEF Reading
<1> HIDE DEF log, rows, d
<1>8. page = Cut(log, limit)
  BY <1>7 DEF IsWindow
<1> QED BY <1>2, <1>4, <1>8 DEF d, log

\* GET /projects/{slug}/audit and ListAuditEvents answer alike.
LEMMA ListsTheLog ==
    ASSUME StoreContract, NEW b, NEW a, ContentsOK(b, a), NEW r, PageOK(r), r.cursor = <<>>
    PROVE  Answered(b, apiListAuditEvents(b, a, r),
                    ListAuditEvents(b, Rows(b, a), r),
                    rpcListAuditEvents(b, Rows(b, a), r))
<1> DEFINE d == Rows(b, a)
           found == ProjectBy(a, r.slug)
           p == found.val[1]
<1>1. storeGetProjectBySlug(b, d, r.slug) = found
  BY FindsProject
<1>2. FoundIn(b, "projects", found)
  BY FindsProject
<1>3. CASE found.err # "nil"
  <2>1. found.err = "not_found"
    BY <1>2, <1>3 DEF FoundIn
  <2>2. /\ ListAuditEvents(b, d, r) = notFoundOrError("not_found", d)
        /\ rpcListAuditEvents(b, d, r) = connectError("not_found", d)
        /\ apiListAuditEvents(b, a, r) = Reply(404, <<>>, a)
    <3> HIDE DEF d, found
    <3>1. ListAuditEvents(b, d, r) = notFoundOrError("not_found", d)
      BY <1>1, <1>3, <2>1 DEF ListAuditEvents, InProject, OrNotFound
    <3>2. rpcListAuditEvents(b, d, r) = connectError("not_found", d)
      BY <1>1, <1>3, <2>1 DEF rpcListAuditEvents, rpcInProject, OrError
    <3>3. apiListAuditEvents(b, a, r) = Reply(404, <<>>, a)
      BY <1>3 DEF apiListAuditEvents, ForProject, Sought, Refuse, found
    <3> QED BY <3>1, <3>2, <3>3
  <2> QED BY <2>2, Missing
<1>4. CASE found.err = "nil"
  <2> DEFINE n == PageLimit(r)
             log == EventList(b, a, LogQuery(p, r))
             x == LogPage(log, n)
             cut == Cut(log, n)
             y == [items |-> ProtoEvents(cut)]
             z == Reply(200, <<x>>, a)
  <2>1. ListAuditEvents(b, d, r) = writeJSON(200, x, d)
    BY <1>4, RestLists
  <2>2. rpcListAuditEvents(b, d, r) = NewResponse(y, d)
    BY <1>4, RpcLists
  <2>3. apiListAuditEvents(b, a, r) = z
    <3> HIDE DEF log, n, x
    <3>1. apiListAuditEvents(b, a, r)
            = Show(LogPage(EventList(b, a, LogQuery(p, r)), PageLimit(r)), a)
      <4> HIDE DEF found
      <4> QED BY <1>4, SMT DEF apiListAuditEvents, ForProject, Sought, found
    <3> QED BY <3>1 DEF Show, x, n, log
  <2>4. Reading(b, a, p, r, storeListAuditEvents(b, d, LogQuery(p, r)))
    BY ReadsLog
  <2>5. /\ \A i \in DOMAIN cut : EventOK(b, cut[i])
        /\ Len(log) <= n => cut = log
    BY <2>4 DEF Reading, IsWindow
  <2> HIDE DEF log, n, cut, p, found, d
  <2>6. APIEvents(cut) = ProtoEvents(cut)
    <3>1. \A i \in DOMAIN cut : auditEventToAPI(cut[i]) = auditEventToProto(cut[i])
      BY <2>5, EventShape
    <3> QED BY <3>1 DEF APIEvents, ProtoEvents
  <2>7. "next_cursor" \in DOMAIN x /\ x.items = APIEvents(cut)
    <3>1. CASE Len(log) <= n
      <4>1. x = [items |-> APIEvents(cut), next_cursor |-> <<>>]
        BY <2>5, <3>1 DEF LogPage
      <4> HIDE DEF x
      <4> QED BY <4>1, SMT
    <3>2. CASE ~(Len(log) <= n)
      <4> DEFINE c == <<encodeAuditCursor(log[n].created_at, log[n].id)>>
      <4>1. x = [items |-> APIEvents(cut), next_cursor |-> c]
        BY <3>2 DEF LogPage, cut
      <4> HIDE DEF x, c
      <4> QED BY <4>1, SMT
    <3> QED BY <3>1, <3>2
  <2> HIDE DEF x
  <2>8. Content(<<x>>) = <<y>>
    <3>1. <<x>>[1] = x /\ <<x>> # <<>>
      BY SMT
    <3> QED BY <2>6, <2>7, <3>1 DEF Content
  <2>9. z.status = 200 /\ z.body = <<x>> /\ z.a = a /\ Code(200) = "ok"
    BY SMT DEF Reply, Code
  <2> HIDE DEF y, z
  <2>10. Answered(b, z, writeJSON(200, x, d), NewResponse(y, d))
    BY <2>8, <2>9 DEF Answered, writeJSON, NewResponse, d
  <2> QED BY <2>1, <2>2, <2>3, <2>10 DEF d
<1> QED BY <1>3, <1>4

-----------------------------------------------------------------------------
(* Tools *)

\* A reply is an object and a success, or nothing and an error.
Proper(y) ==
    \/ y.status \in {400, 404, 409, 422, 500} /\ y.body = <<>>
    \/ y.status \in {200, 201} /\ Single(y.body)

\* What a tool makes of a call's answer, when it shows it as it is.
Relayed(reply) == Relay(reply, LAMBDA m : m)

\* A tool that shows the answer as it is tells what REST tells.
TellsAlike(tool, rest) ==
    /\ tool.is_error <=> rest.body = <<>>
    /\ ~tool.is_error => tool.content = Content(rest.body)

\* Objects, 404 and 500 are proper replies.
LEMMA Proprieties ==
    ASSUME NEW a
    PROVE  /\ \A x : Proper(Show(x, a))
           /\ Proper(Reply(404, <<>>, a)) /\ Proper(Reply(500, <<>>, a))
<1>1. ASSUME NEW x PROVE Proper(Show(x, a))
  <2> DEFINE y == Show(x, a)
  <2>1. y.status = 200 /\ y.body = <<x>> /\ <<x>>[1] = x
    BY SMT DEF Show, Reply
  <2> HIDE DEF y
  <2>2. Proper(y)
    BY <2>1, SMT DEF Proper, Single
  <2> QED BY <2>2 DEF y
<1>2. ASSUME NEW s \in {404, 500} PROVE Proper(Reply(s, <<>>, a))
  <2> DEFINE y == Reply(s, <<>>, a)
  <2>1. y.status = s /\ y.body = <<>>
    BY SMT DEF Reply
  <2> HIDE DEF y
  <2>2. Proper(y)
    BY <1>2, <2>1 DEF Proper
  <2> QED BY <2>2 DEF y
<1> QED BY <1>1, <1>2

\* The reads the tools make are answered with an object or with an error.
LEMMA ProperReads ==
    ASSUME NEW b, NEW a, NEW r
    PROVE  /\ /\ Proper(apiListProjects(a, r))
              /\ Proper(apiListFlags(a, r))
              /\ Proper(apiGetFlag(a, r))
           /\ Proper(apiListAuditEvents(b, a, r)) /\ Proper(apiEvaluateWithTrace(a, r))
<1>1. Proper(apiListProjects(a, r))
  BY Proprieties DEF apiListProjects
<1>2. Proper(apiListFlags(a, r))
  BY Proprieties DEF apiListFlags, ForProject, Sought
<1>3. Proper(apiGetFlag(a, r))
  BY Proprieties DEF apiGetFlag, ForFlag, ForProject, Sought
<1>4. Proper(apiListAuditEvents(b, a, r))
  BY Proprieties DEF apiListAuditEvents, ForProject, Sought
<1>5. Proper(apiEvaluateWithTrace(a, r))
  <2> DEFINE l == apiLoad(a, r)
  <2>1. IsLoad(a, l)
    BY LoadForm
  <2> HIDE DEF l
  <2>2. Proper(l)
    <3>1. CASE l = Reply(404, <<>>, a) \/ l = Reply(500, <<>>, a)
      <4>1. Proper(Reply(404, <<>>, a)) /\ Proper(Reply(500, <<>>, a))
        BY Proprieties
      <4> QED BY <3>1, <4>1, SMT
    <3>2. CASE \E x : l = Reply(200, <<x>>, a) /\ "next_cursor" \notin DOMAIN x
      <4>1. PICK x : l = Reply(200, <<x>>, a)
        BY <3>2
      <4>2. l = Show(x, a)
        BY <4>1 DEF Show
      <4> QED BY <4>2, Proprieties
    <3> QED BY <2>1, <3>1, <3>2 DEF IsLoad
  <2>3. apiEvaluateWithTrace(a, r) = l \/ \E x : apiEvaluateWithTrace(a, r) = Show(x, a)
    BY DEF apiEvaluateWithTrace, WhenLoaded, l
  <2> QED BY <2>2, <2>3, Proprieties
<1> QED BY <1>1, <1>2, <1>3, <1>4, <1>5

\* A tool that relays a Connect answer tells what REST answers.
LEMMA Relays ==
    ASSUME NEW b, NEW y, NEW rest, NEW rpc, Answered(b, y, rest, rpc), Proper(y)
    PROVE  /\ TellsAlike(Relayed(rpc), rest)
           /\ rpc.status = "ok" <=> rest.body # <<>>
<1>1. /\ rest.body = y.body /\ rpc.body = Content(y.body) /\ rpc.status = Code(y.status)
  BY SMT DEF Answered
<1>2. CASE y.status \in {400, 404, 409, 422, 500} /\ y.body = <<>>
  <2>1. Code(y.status) # "ok"
    BY <1>2, SMT DEF Code
  <2>2. Relayed(rpc) = connectErrToToolResult(rpc.status)
    BY <1>1, <2>1 DEF Relayed, Relay
  <2>3. connectErrToToolResult(rpc.status).is_error = TRUE
    BY SMT DEF connectErrToToolResult, toolError
  <2> QED BY <1>1, <1>2, <2>1, <2>2, <2>3 DEF TellsAlike
<1>3. CASE y.status \in {200, 201} /\ Single(y.body)
  <2>1. Code(y.status) = "ok"
    BY <1>3, SMT DEF Code
  <2>2. Relayed(rpc) = marshalProto(rpc.body[1])
    BY <1>1, <2>1 DEF Relayed, Relay
  <2>3. /\ marshalProto(rpc.body[1]).is_error = FALSE
        /\ marshalProto(rpc.body[1]).content = <<rpc.body[1]>>
    BY SMT DEF marshalProto
  <2>4. y.body # <<>>
    BY <1>3, SMT DEF Single
  <2>5. Content(y.body) = <<Content(y.body)[1]>>
    <3>1. CASE "next_cursor" \in DOMAIN y.body[1]
      <4> DEFINE x == [items |-> y.body[1].items]
      <4>1. Content(y.body) = <<x>>
        BY <2>4, <3>1 DEF Content
      <4> HIDE DEF x
      <4>2. <<x>>[1] = x
        BY SMT
      <4> QED BY <4>1, <4>2
    <3>2. CASE "next_cursor" \notin DOMAIN y.body[1]
      <4>1. Content(y.body) = y.body
        BY <3>2 DEF Content
      <4> QED BY <1>3, <4>1 DEF Single
    <3> QED BY <3>1, <3>2
  <2> QED BY <1>1, <2>1, <2>2, <2>3, <2>4, <2>5 DEF TellsAlike
<1> QED BY <1>2, <1>3 DEF Proper

\* Each tool tells what REST answers to the request it amounts to.
LEMMA ToolsTell ==
    ASSUME StoreContract, NEW b, NEW a, ContentsOK(b, a), NEW in, Callable(in),
           FirstPage(in), NEW e
    PROVE  Tells(in, Register(b, Rows(b, a), in), restRoutes(b, Rows(b, a), AsRest(in), e))
<1> DEFINE d == Rows(b, a)
           q == AsRest(in)
<1> HIDE DEF d
<1>1. CASE in.tool = "list_projects"
  <2>1. q.op = "ListProjects"
    BY <1>1, SMT DEF AsRest
  <2> HIDE DEF q
  <2>2. Register(b, d, in) = Relayed(rpcListProjects(b, d, in))
    BY <1>1 DEF Register, listProjects, Relayed
  <2>3. restRoutes(b, d, q, e) = ListProjects(b, d, q)
    BY <2>1 DEF restRoutes
  <2>4. ListProjects(b, d, q) = ListProjects(b, d, in)
    BY DEF ListProjects
  <2>5. Answered(b, apiListProjects(a, in), ListProjects(b, d, in), rpcListProjects(b, d, in))
    BY ListsTheProjects, SMT DEF d
  <2>6. TellsAlike(Relayed(rpcListProjects(b, d, in)), ListProjects(b, d, in))
    BY <2>5, ProperReads, Relays
  <2> QED BY <1>1, <2>2, <2>3, <2>4, <2>6 DEF Tells, TellsAlike, q, d
<1>2. CASE in.tool = "list_flags"
  <2> DEFINE m == [slug |-> in.project_slug]
  <2>1. q.op = "ListFlags" /\ q.slug = m.slug
    BY <1>2, SMT DEF AsRest
  <2> HIDE DEF q
  <2>2. Register(b, d, in) = Relayed(rpcListFlags(b, d, m))
    BY <1>2 DEF Register, listFlags, Relayed
  <2> HIDE DEF m
  <2>3. restRoutes(b, d, q, e) = ListFlags(b, d, q)
    BY <2>1 DEF restRoutes
  <2>4. rpcListFlags(b, d, m) = rpcListFlags(b, d, q)
    BY <2>1 DEF rpcListFlags, rpcInProject
  <2>5. Answered(b, apiListFlags(a, q), ListFlags(b, d, q), rpcListFlags(b, d, q))
    BY ListsTheFlags, SMT DEF d
  <2>6. TellsAlike(Relayed(rpcListFlags(b, d, q)), ListFlags(b, d, q))
    BY <2>5, ProperReads, Relays
  <2> QED BY <1>2, <2>2, <2>3, <2>4, <2>6 DEF Tells, TellsAlike, q, d
<1>3. CASE in.tool = "search_audit_log"
  <2> DEFINE m == [slug |-> in.project_slug, limit |-> normalizeLimit(in.limit),
                   action |-> in.action,
                   actor_filter |-> in.actor, from |-> in.from, to |-> in.to,
                   cursor |-> in.cursor]
  <2>1. /\ /\ q.op = "ListAuditEvents"
           /\ q.slug = m.slug
           /\ q.limit = m.limit
           /\ q.action = m.action
        /\ q.actor_filter = m.actor_filter /\ q.from = m.from /\ q.to = m.to
        /\ q.cursor = <<>>
    <3> DEFINE z == Listing(in.project_slug, normalizeLimit(in.limit), in.cursor)
    <3>1. q = [z EXCEPT !.action = in.action, !.actor_filter = in.actor,
                        !.from = in.from, !.to = in.to]
      BY <1>3 DEF AsRest
    <3>2. /\ DOMAIN z = {"op", "slug", "limit", "cursor", "action", "actor_filter", "from",
                         "to"}
          /\ z.op = "ListAuditEvents" /\ z.slug = in.project_slug
          /\ z.limit = normalizeLimit(in.limit) /\ z.cursor = in.cursor
      BY SMT DEF Listing
    <3> HIDE DEF z, q
    <3>3. /\ q.op = z.op /\ q.slug = z.slug /\ q.limit = z.limit /\ q.cursor = z.cursor
          /\ /\ q.action = in.action
             /\ q.actor_filter = in.actor
             /\ q.from = in.from
             /\ q.to = in.to
      BY <3>1, <3>2, SMT
    <3>4. /\ m.slug = in.project_slug /\ m.limit = normalizeLimit(in.limit)
          /\ /\ m.action = in.action
             /\ m.actor_filter = in.actor
             /\ m.from = in.from
             /\ m.to = in.to
      BY SMT
    <3> HIDE DEF m
    <3> QED BY <1>3, <3>2, <3>3, <3>4 DEF FirstPage
  <2>2. m.limit = normalizeLimit(in.limit) /\ m.from = in.from /\ m.to = in.to
    OBVIOUS
  <2>3. in.limit \in Int /\ in.from \in Nat /\ in.to \in Nat
    BY <1>3 DEF Callable
  <2> HIDE DEF q
  <2>4. Register(b, d, in) = Relayed(rpcListAuditEvents(b, d, m))
    <3>1. ~(in.from < 0 \/ in.to < 0)
      BY <2>3, SMT
    <3> QED BY <1>3, <3>1 DEF Register, searchAuditLog, Relayed
  <2> HIDE DEF m
  <2>5. restRoutes(b, d, q, e) = ListAuditEvents(b, d, q)
    BY <2>1 DEF restRoutes
  <2>6. rpcListAuditEvents(b, d, m) = rpcListAuditEvents(b, d, q)
    <3> DEFINE F(slug, n, action, actor, from, to) ==
                 OrError(storeGetProjectBySlug(b, d, slug), d, LAMBDA p :
                     LET limit == IF n <= 0 THEN DefaultLimit ELSE n
                         rows == storeListAuditEvents(b, d,
                             [project_id |-> p.id, action |-> action, actor |-> actor,
                              from |-> from, to |-> to, cursor_ts |-> 0, cursor_id |-> <<>>,
                              limit |-> limit + 1])
                         page == IF Len(rows) > limit THEN SubSeq(rows, 1, limit) ELSE rows
                     IN  NewResponse([items |-> Each(page, auditEventToProto)], d))
    <3>1. rpcListAuditEvents(b, d, m)
            = F(m.slug, m.limit, m.action, m.actor_filter, m.from, m.to)
      BY DEF rpcListAuditEvents, rpcInProject
    <3>2. rpcListAuditEvents(b, d, q)
            = F(q.slug, q.limit, q.action, q.actor_filter, q.from, q.to)
      BY DEF rpcListAuditEvents, rpcInProject
    <3> HIDE DEF F
    <3> QED BY <2>1, <3>1, <3>2
  <2>7. PageOK(q)
    <3>1. normalizeLimit(in.limit) \in Nat
      BY <2>3, SMT DEF normalizeLimit
    <3> QED BY <2>1, <2>2, <2>3, <3>1 DEF PageOK, CursorOK
  <2>8. Answered(b, apiListAuditEvents(b, a, q), ListAuditEvents(b, d, q),
                 rpcListAuditEvents(b, d, q))
    BY <2>1, <2>7, ListsTheLog, SMT DEF d
  <2>9. TellsAlike(Relayed(rpcListAuditEvents(b, d, q)), ListAuditEvents(b, d, q))
    BY <2>8, ProperReads, Relays
  <2> QED BY <1>3, <2>4, <2>5, <2>6, <2>9 DEF Tells, TellsAlike, q, d
<1>4. CASE in.tool = "explain_evaluation"
  <2> DEFINE m == [slug |-> in.project_slug, key |-> in.flag_key, context |-> in.context]
  <2>1. q.op = "EvaluateWithTrace" /\ q.slug = m.slug /\ q.key = m.key /\ q.context = m.context
    BY <1>4, SMT DEF AsRest
  <2>2. q.context.reason \in Reasons
    <3>1. m.context = in.context
      OBVIOUS
    <3> HIDE DEF q, m
    <3> QED BY <1>4, <2>1, <3>1 DEF Callable
  <2> HIDE DEF q
  <2>3. Register(b, d, in) = Relayed(rpcEvaluateWithTrace(b, d, m))
    BY <1>4 DEF Register, explainEvaluation, Relayed
  <2> HIDE DEF m
  <2>4. restRoutes(b, d, q, e) = EvaluateFlagWithTrace(b, d, q)
    BY <2>1 DEF restRoutes
  <2>5. rpcEvaluateWithTrace(b, d, m) = rpcEvaluateWithTrace(b, d, q)
    <3> DEFINE F(slug, key) ==
                 OrError(storeGetProjectBySlug(b, d, slug), d, LAMBDA p :
                     OrError(storeGetFlagByKey(b, d, p.id, key), d, LAMBDA f :
                         OrError(storeGetLatestFlagVersion(b, d, f.id), d, LAMBDA v :
                             LET compiled == Compile(v.strategy, [json |-> v.compiled[1]])
                             IN  IF compiled.err # "nil" THEN NewError("internal", d)
                                 ELSE NewResponse([compiled |-> compiled.val[1],
                                                   version |-> v.version], d))))
               G(load, context) ==
                 IF load.body = <<>> THEN load
                 ELSE LET t == EvaluateWithTrace(load.body[1].compiled, context, load.body[1].version)
                      IN  NewResponse([decision |-> decisionToProto(t.decision),
                                       trace |-> traceToProto(t.trace)], d)
    <3>1. ASSUME NEW r
          PROVE  rpcLoadEvaluation(b, d, r) = F(r.slug, r.key)
      BY DEF rpcLoadEvaluation, rpcOfFlag, rpcInProject
    <3>2. ASSUME NEW r
          PROVE  rpcEvaluateWithTrace(b, d, r) = G(rpcLoadEvaluation(b, d, r), r.context)
      BY DEF rpcEvaluateWithTrace, rpcOrLoadError
    <3> HIDE DEF F, G
    <3>3. rpcLoadEvaluation(b, d, m) = rpcLoadEvaluation(b, d, q)
      BY <2>1, <3>1
    <3> QED BY <2>1, <3>2, <3>3
  <2>6. Answered(b, apiEvaluateWithTrace(a, q), EvaluateFlagWithTrace(b, d, q),
                 rpcEvaluateWithTrace(b, d, q))
    BY <2>2, EvaluatesWithTrace, SMT DEF d
  <2>7. TellsAlike(Relayed(rpcEvaluateWithTrace(b, d, q)), EvaluateFlagWithTrace(b, d, q))
    BY <2>6, ProperReads, Relays
  <2> QED BY <1>4, <2>3, <2>4, <2>5, <2>7 DEF Tells, TellsAlike, q, d
<1>5. CASE in.tool = "get_flag"
  <2> DEFINE m == [slug |-> in.project_slug, key |-> in.flag_key]
             Noted(g) == [flag |-> g.flag, published_version |-> g.latest_version,
                          note |-> g.latest_version = <<>>]
  <2>1. q.op = "GetFlag" /\ q.slug = m.slug /\ q.key = m.key
    BY <1>5, SMT DEF AsRest
  <2> HIDE DEF q
  <2>2. Register(b, d, in) = Relay(rpcGetFlag(b, d, m), Noted)
    BY <1>5 DEF Register, getFlag
  <2> HIDE DEF m
  <2>3. restRoutes(b, d, q, e) = GetFlag(b, d, q)
    BY <2>1 DEF restRoutes
  <2>4. rpcGetFlag(b, d, m) = rpcGetFlag(b, d, q)
    <3> DEFINE F(slug, key) ==
                 OrError(storeGetProjectBySlug(b, d, slug), d, LAMBDA p :
                     OrError(storeGetFlagByKey(b, d, p.id, key), d, LAMBDA f :
                         LET latest == storeGetLatestFlagVersion(b, d, f.id)
                         IN  IF latest.err \notin {"nil", "not_found"}
                             THEN connectError(latest.err, d)
                             ELSE NewResponse([flag |-> flagToProto(f), latest_version |->
                                                   Each(latest.val, flagVersionToProto)], d)))
    <3>1. ASSUME NEW r
          PROVE  rpcGetFlag(b, d, r) = F(r.slug, r.key)
      BY DEF rpcGetFlag, rpcOfFlag, rpcInProject
    <3> HIDE DEF F
    <3> QED BY <2>1, <3>1
  <2> DEFINE rest == GetFlag(b, d, q)
             rpc == rpcGetFlag(b, d, q)
             y == apiGetFlag(a, q)
  <2>5. Answered(b, y, rest, rpc)
    BY GetsFlag, SMT DEF d
  <2>6. Proper(y)
    BY ProperReads
  <2>7. y.body # <<>> => "next_cursor" \notin DOMAIN y.body[1]
    <3> DEFINE p == ProjectBy(a, q.slug).val[1]
               f == FlagBy(a, p.id, q.key).val[1]
               x == [flag |-> flagToAPI(f),
                     latest_version |-> Each(VersionBy(a, f.id).val, flagVersionToAPI)]
    <3>1. y = Reply(404, <<>>, a) \/ y = Reply(200, <<x>>, a)
      BY DEF apiGetFlag, ForFlag, ForProject, Sought, Show
    <3>2. "next_cursor" \notin DOMAIN x
      <4> HIDE DEF f
      <4> QED OBVIOUS
    <3> HIDE DEF x, y
    <3>3. Reply(404, <<>>, a).body = <<>> /\ Reply(200, <<x>>, a).body = <<x>> /\ <<x>>[1] = x
      BY SMT DEF Reply
    <3> QED BY <3>1, <3>2, <3>3
  <2> HIDE DEF y, rest, rpc
  <2>8. rest.body = y.body /\ rpc.body = Content(y.body)
    BY <2>5, SMT DEF Answered
  <2>9. rpc.body = rest.body
    BY <2>7, <2>8 DEF Content
  <2>10. rpc.status = "ok" <=> rest.body # <<>>
    BY <2>5, <2>6, Relays
  <2>11. CASE rest.body = <<>>
    <3> DEFINE t == connectErrToToolResult(rpc.status)
    <3>1. Relay(rpc, Noted) = t
      BY <2>10, <2>11 DEF Relay
    <3>2. t.is_error = TRUE
      BY SMT DEF connectErrToToolResult, toolError
    <3> HIDE DEF t
    <3> QED BY <1>5, <2>2, <2>3, <2>4, <2>11, <3>1, <3>2 DEF Tells, rest, rpc, q, d
  <2>12. CASE rest.body # <<>>
    <3> DEFINE g == rest.body[1]
               c == Noted(g)
               t == marshalProto(c)
    <3>1. Relay(rpc, Noted) = t
      BY <2>9, <2>10, <2>12 DEF Relay
    <3>2. /\ c.flag = g.flag /\ c.published_version = g.latest_version
          /\ c.note = (g.latest_version = <<>>)
      <4> HIDE DEF g
      <4> QED OBVIOUS
    <3> HIDE DEF c
    <3>3. t.is_error = FALSE /\ t.content[1] = c
      BY SMT DEF marshalProto
    <3> HIDE DEF t
    <3>4. /\ t.content[1].flag = g.flag /\ t.content[1].published_version = g.latest_version
          /\ t.content[1].note <=> g.latest_version = <<>>
      BY <3>2, <3>3
    <3> QED BY <1>5, <2>2, <2>3, <2>4, <2>12, <3>1, <3>3, <3>4 DEF Tells, rest, rpc, q, d
  <2> QED BY <2>11, <2>12
<1> QED BY <1>1, <1>2, <1>3, <1>4, <1>5 DEF Callable, d
-----------------------------------------------------------------------------
(* What the backends have in common *)

\* The tables of objects, all but the log.
Shapes == {"projects", "environments", "flags", "versions", "segments", "snapshots"}

\* What two backends are expected to agree on of an event: its time only up to
\* the millisecond, or, when their clocks were read at different times, not.
Seen(v, timed) == [v EXCEPT !.created_at = IF timed THEN 2 * (@ \div 2) ELSE 0]

\* Contents that no request can tell apart, but for the times of events.
Twins(a, c, timed) ==
    /\ Columns(a, TableNames) /\ Columns(c, TableNames)
    /\ \A t \in Shapes : a[t] = c[t]
    /\ \A v \in a.audit \cup c.audit : Columns(v, EventColumns)
    /\ {Seen(v, timed) : v \in a.audit} = {Seen(v, timed) : v \in c.audit}
Same(y, z, timed) == y.status = z.status /\ y.body = z.body /\ Twins(y.a, z.a, timed)

\* Replies that leave the contents alone.
LEMMA SameReplies ==
    ASSUME NEW a, NEW c, NEW timed, Twins(a, c, timed), NEW s, NEW x
    PROVE  Same(Reply(s, x, a), Reply(s, x, c), timed)
<1> DEFINE y == Reply(s, x, a)
           z == Reply(s, x, c)
<1>1. /\ y.status = s /\ y.body = x /\ y.a = a
      /\ z.status = s /\ z.body = x /\ z.a = c
  BY SMT DEF Reply
<1> HIDE DEF y, z
<1>2. Same(y, z, timed)
  BY <1>1 DEF Same
<1> QED BY <1>2 DEF y, z

\* The lookups and lists of twins.
LEMMA SameLookups ==
    ASSUME NEW a, NEW c, NEW timed, Twins(a, c, timed)
    PROVE  /\ a.projects = c.projects /\ a.environments = c.environments
           /\ a.flags = c.flags /\ a.versions = c.versions
           /\ a.segments = c.segments /\ a.snapshots = c.snapshots
           /\ \A s : ProjectBy(a, s) = ProjectBy(c, s)
           /\ \A p, s : EnvironmentBy(a, p, s) = EnvironmentBy(c, p, s)
           /\ \A p, k : FlagBy(a, p, k) = FlagBy(c, p, k)
           /\ \A f : VersionBy(a, f) = VersionBy(c, f)
           /\ \A f : VersionList(a, f) = VersionList(c, f)
           /\ \A p, k : SegmentBy(a, p, k) = SegmentBy(c, p, k)
           /\ \A p, i : SnapshotBy(a, p, i) = SnapshotBy(c, p, i)
           /\ \A p : LatestSnapshotBy(a, p) = LatestSnapshotBy(c, p)
           /\ \A p, n : SnapshotList(a, p, n) = SnapshotList(c, p, n)
           /\ \A p : LatestVersions(a, p) = LatestVersions(c, p)
<1>1. /\ a.projects = c.projects /\ a.environments = c.environments
      /\ a.flags = c.flags /\ a.versions = c.versions
      /\ a.segments = c.segments /\ a.snapshots = c.snapshots
  BY DEF Twins, Shapes
<1>2. /\ \A f : VersionsOf(a, f) = VersionsOf(c, f)
      /\ \A p : SnapshotsOf(a, p) = SnapshotsOf(c, p)
      /\ \A p : FlagsOf(a, p) = FlagsOf(c, p)
  BY <1>1 DEF VersionsOf, SnapshotsOf, FlagsOf
<1>3. /\ \A f : VersionList(a, f) = VersionList(c, f)
      /\ \A p, n : SnapshotList(a, p, n) = SnapshotList(c, p, n)
  BY <1>2 DEF VersionList, SnapshotList
<1>4. \A p : LatestVersions(a, p) = LatestVersions(c, p)
  <2> DEFINE F(versions, flags, p) ==
                 UNION {{Pair(f, v) : v \in Latest({w \in versions : w.flag_id = f.id})} :
                           f \in {g \in flags : g.project_id = p}}
  <2>1. \A z, p : LatestVersions(z, p) = F(z.versions, z.flags, p)
    BY DEF LatestVersions, VersionsOf, FlagsOf
  <2> HIDE DEF F
  <2> QED BY <1>1, <2>1
<1>5. /\ \A s : ProjectBy(a, s) = ProjectBy(c, s)
      /\ \A p, s : EnvironmentBy(a, p, s) = EnvironmentBy(c, p, s)
      /\ \A p, k : FlagBy(a, p, k) = FlagBy(c, p, k)
      /\ \A f : VersionBy(a, f) = VersionBy(c, f)
      /\ \A p, k : SegmentBy(a, p, k) = SegmentBy(c, p, k)
      /\ \A p, i : SnapshotBy(a, p, i) = SnapshotBy(c, p, i)
      /\ \A p : LatestSnapshotBy(a, p) = LatestSnapshotBy(c, p)
  BY <1>1 DEF ProjectBy, EnvironmentBy, FlagBy, VersionBy, SegmentBy, SnapshotBy,
     LatestSnapshotBy
<1> QED BY <1>1, <1>3, <1>4, <1>5

\* What is shown of an object that has been looked up.
IfFound(g, x, z) == IF g.err = "nil" THEN Show(x, z) ELSE Reply(404, <<>>, z)
LEMMA SameFound ==
    ASSUME NEW a, NEW c, NEW timed, Twins(a, c, timed), NEW g, NEW x
    PROVE  Same(IfFound(g, x, a), IfFound(g, x, c), timed)
<1>1. \A s, u : Same(Reply(s, u, a), Reply(s, u, c), timed)
  BY SameReplies
<1>2. CASE g.err = "nil"
  <2>1. IfFound(g, x, a) = Reply(200, <<x>>, a) /\ IfFound(g, x, c) = Reply(200, <<x>>, c)
    BY <1>2 DEF IfFound, Show
  <2> QED BY <1>1, <2>1
<1>3. CASE g.err # "nil"
  <2>1. IfFound(g, x, a) = Reply(404, <<>>, a) /\ IfFound(g, x, c) = Reply(404, <<>>, c)
    BY <1>3 DEF IfFound
  <2> QED BY <1>1, <2>1
<1> QED BY <1>2, <1>3

\* A read answers the same on twins.
LEMMA SameReads ==
    ASSUME NEW a, NEW c, NEW timed, Twins(a, c, timed), NEW r
    PROVE  /\ Same(apiListProjects(a, r), apiListProjects(c, r), timed)
           /\ Same(apiGetProject(a, r), apiGetProject(c, r), timed)
           /\ Same(apiListEnvironments(a, r), apiListEnvironments(c, r), timed)
           /\ Same(apiGetEnvironment(a, r), apiGetEnvironment(c, r), timed)
           /\ Same(apiListFlags(a, r), apiListFlags(c, r), timed)
           /\ Same(apiGetFlag(a, r), apiGetFlag(c, r), timed)
           /\ Same(apiListFlagVersions(a, r), apiListFlagVersions(c, r), timed)
           /\ Same(apiListSegments(a, r), apiListSegments(c, r), timed)
           /\ Same(apiGetSegment(a, r), apiGetSegment(c, r), timed)
           /\ Same(apiListSnapshots(a, r), apiListSnapshots(c, r), timed)
           /\ Same(apiGetLatestSnapshot(a, r), apiGetLatestSnapshot(c, r), timed)
           /\ Same(apiGetSnapshot(a, r), apiGetSnapshot(c, r), timed)
           /\ Same(apiLoad(a, r), apiLoad(c, r), timed)
<1>1. \A s, x : Same(Reply(s, x, a), Reply(s, x, c), timed)
  BY SameReplies
<1>2. /\ a.projects = c.projects /\ a.environments = c.environments
      /\ a.flags = c.flags /\ a.segments = c.segments
  BY SameLookups
<1>3. Same(apiListProjects(a, r), apiListProjects(c, r), timed)
  BY <1>1, <1>2, SMTT(30) DEF apiListProjects, Show
<1>4. \A s : ProjectBy(a, s) = ProjectBy(c, s)
  BY SameLookups
<1>5. \A p, k : FlagBy(a, p, k) = FlagBy(c, p, k)
  BY SameLookups
<1>6. Same(apiGetProject(a, r), apiGetProject(c, r), timed)
  BY <1>1, <1>4, SMTT(30) DEF apiGetProject, ForProject, Sought, Show
<1>7. Same(apiListEnvironments(a, r), apiListEnvironments(c, r), timed)
  <2> DEFINE F(rows, found, z) ==
                 Sought(found, z, LAMBDA p :
                     Show([items |-> {environmentToAPI(n) :
                                        n \in {m \in rows : m.project_id = p.id}}],
                          z))
  <2>1. \A z : apiListEnvironments(z, r) = F(z.environments, ProjectBy(z, r.slug), z)
    BY DEF apiListEnvironments, ForProject
  <2>2. \A rows, found : Same(F(rows, found, a), F(rows, found, c), timed)
    BY <1>1 DEF Sought, Show
  <2> HIDE DEF F
  <2> QED BY <1>2, <1>4, <2>1, <2>2
<1>8. Same(apiGetEnvironment(a, r), apiGetEnvironment(c, r), timed)
  <2> DEFINE g(z, p) == EnvironmentBy(z, p.id, r.environment)
             L(z, p) == IfFound(g(z, p), environmentToAPI(g(z, p).val[1]), z)
             S(z, f) == IF f.err = "nil" THEN L(z, f.val[1]) ELSE Reply(404, <<>>, z)
  <2>1. \A z : apiGetEnvironment(z, r) = S(z, ProjectBy(z, r.slug))
    BY DEF apiGetEnvironment, ForProject, Sought, IfFound
  <2>2. \A p : Same(L(a, p), L(c, p), timed)
    <3>1. \A p : g(a, p) = g(c, p)
      BY SameLookups, SMTT(30)
    <3> HIDE DEF g
    <3> QED BY <3>1, SameFound
  <2> HIDE DEF L
  <2>3. \A f : Same(S(a, f), S(c, f), timed)
    BY <1>1, <2>2
  <2> HIDE DEF S
  <2> QED BY <1>4, <2>1, <2>3
<1>9. Same(apiListFlags(a, r), apiListFlags(c, r), timed)
  <2> DEFINE F(rows, found, z) ==
                 Sought(found, z, LAMBDA p :
                     Show([items |-> {flagToAPI(f) : f \in {g \in rows : g.project_id = p.id}}],
                          z))
  <2>1. \A z : apiListFlags(z, r) = F(z.flags, ProjectBy(z, r.slug), z)
    BY DEF apiListFlags, ForProject
  <2>2. \A rows, found : Same(F(rows, found, a), F(rows, found, c), timed)
    BY <1>1 DEF Sought, Show
  <2> HIDE DEF F
  <2> QED BY <1>2, <1>4, <2>1, <2>2
<1>10. /\ Same(apiGetFlag(a, r), apiGetFlag(c, r), timed)
       /\ Same(apiLoad(a, r), apiLoad(c, r), timed)
  <2> DEFINE found(z) == FlagBy(z, ProjectBy(z, r.slug).val[1].id, r.key)
             latest(z) == VersionBy(z, found(z).val[1].id)
             F(z, p, f, v) ==
                 IF p.err = "nil"
                 THEN IF f.err = "nil"
                      THEN Show([flag |-> flagToAPI(f.val[1]),
                                 latest_version |-> Each(v.val, flagVersionToAPI)], z)
                      ELSE Reply(404, <<>>, z)
                 ELSE Reply(404, <<>>, z)
             k(v) == Compile(v.val[1].strategy, [json |-> v.val[1].compiled[1]])
             G(z, p, f, v) ==
                 IF p.err = "nil"
                 THEN IF f.err = "nil"
                      THEN IF v.err = "nil"
                           THEN IF k(v).err # "nil" THEN Refuse(500, z)
                                ELSE Show([compiled |-> k(v).val[1],
                                           version |-> v.val[1].version], z)
                           ELSE Reply(404, <<>>, z)
                      ELSE Reply(404, <<>>, z)
                 ELSE Reply(404, <<>>, z)
  <2>1. \A z : apiGetFlag(z, r) = F(z, ProjectBy(z, r.slug), found(z), latest(z))
    BY DEF apiGetFlag, ForFlag, ForProject, Sought
  <2>2. \A z : apiLoad(z, r) = G(z, ProjectBy(z, r.slug), found(z), latest(z))
    BY DEF apiLoad, ForFlag, ForProject, Sought
  <2>3. \A p, f, v : Same(F(a, p, f, v), F(c, p, f, v), timed)
    <3> SUFFICES ASSUME NEW p, NEW f, NEW v
                 PROVE  Same(F(a, p, f, v), F(c, p, f, v), timed)
      OBVIOUS
    <3> DEFINE x == [flag |-> flagToAPI(f.val[1]),
                     latest_version |-> Each(v.val, flagVersionToAPI)]
    <3>1. CASE p.err = "nil"
      <4>1. \A z : F(z, p, f, v) = IfFound(f, x, z)
        BY <3>1 DEF IfFound
      <4> HIDE DEF x, F
      <4> QED BY <4>1, SameFound
    <3>2. CASE p.err # "nil"
      <4>1. F(a, p, f, v) = Reply(404, <<>>, a) /\ F(c, p, f, v) = Reply(404, <<>>, c)
        BY <3>2
      <4> HIDE DEF F
      <4> QED BY <1>1, <4>1
    <3> QED BY <3>1, <3>2
  <2>4. \A p, f, v : Same(G(a, p, f, v), G(c, p, f, v), timed)
    <3> SUFFICES ASSUME NEW p, NEW f, NEW v
                 PROVE  Same(G(a, p, f, v), G(c, p, f, v), timed)
      OBVIOUS
    <3> HIDE DEF k
    <3> QED BY <1>1, SMTT(30) DEF Show, Refuse
  <2>5. found(a) = found(c)
    BY <1>4, <1>5
  <2>6. latest(a) = latest(c)
    <3>1. \A f : VersionBy(a, f) = VersionBy(c, f)
      BY SameLookups, SMTT(30)
    <3> HIDE DEF found
    <3> QED BY <2>5, <3>1
  <2> HIDE DEF F, G, found, latest
  <2> QED BY <1>4, <2>1, <2>2, <2>3, <2>4, <2>5, <2>6
<1>11. Same(apiListFlagVersions(a, r), apiListFlagVersions(c, r), timed)
  <2> DEFINE found(z) == FlagBy(z, ProjectBy(z, r.slug).val[1].id, r.key)
             list(z) == VersionList(z, found(z).val[1].id)
             F(z, p, f, v) ==
                 IF p.err = "nil"
                 THEN IF f.err = "nil" THEN Show([items |-> Each(v, flagVersionToAPI)], z)
                      ELSE Reply(404, <<>>, z)
                 ELSE Reply(404, <<>>, z)
  <2>1. \A z : apiListFlagVersions(z, r) = F(z, ProjectBy(z, r.slug), found(z), list(z))
    BY DEF apiListFlagVersions, ForFlag, ForProject, Sought
  <2>2. ASSUME NEW p, NEW f, NEW v PROVE Same(F(a, p, f, v), F(c, p, f, v), timed)
    <3> DEFINE x == [items |-> Each(v, flagVersionToAPI)]
    <3>1. CASE p.err = "nil"
      <4>1. F(a, p, f, v) = IfFound(f, x, a) /\ F(c, p, f, v) = IfFound(f, x, c)
        BY <3>1 DEF IfFound
      <4> HIDE DEF x, F
      <4> QED BY <4>1, SameFound
    <3>2. CASE p.err # "nil"
      <4>1. F(a, p, f, v) = Reply(404, <<>>, a) /\ F(c, p, f, v) = Reply(404, <<>>, c)
        BY <3>2
      <4> HIDE DEF F
      <4> QED BY <1>1, <4>1
    <3> QED BY <3>1, <3>2
  <2>3. found(a) = found(c)
    BY <1>4, <1>5
  <2>4. list(a) = list(c)
    <3>1. \A f : VersionList(a, f) = VersionList(c, f)
      BY SameLookups, SMTT(30)
    <3> HIDE DEF found
    <3> QED BY <2>3, <3>1
  <2> HIDE DEF F, found, list
  <2> QED BY <1>4, <2>1, <2>2, <2>3, <2>4
<1>12. Same(apiListSegments(a, r), apiListSegments(c, r), timed)
  <2> DEFINE F(rows, found, z) ==
                 Sought(found, z, LAMBDA p :
                     Show([items |-> {segmentToAPI(s) :
                                        s \in {q \in rows : q.project_id = p.id}}],
                          z))
  <2>1. \A z : apiListSegments(z, r) = F(z.segments, ProjectBy(z, r.slug), z)
    BY DEF apiListSegments, ForProject
  <2>2. \A rows, found : Same(F(rows, found, a), F(rows, found, c), timed)
    BY <1>1 DEF Sought, Show
  <2> HIDE DEF F
  <2> QED BY <1>2, <1>4, <2>1, <2>2
<1>13. Same(apiGetSegment(a, r), apiGetSegment(c, r), timed)
  <2> DEFINE g(z, p) == SegmentBy(z, p.id, r.key)
             L(z, p) == IfFound(g(z, p), segmentToAPI(g(z, p).val[1]), z)
             S(z, f) == IF f.err = "nil" THEN L(z, f.val[1]) ELSE Reply(404, <<>>, z)
  <2>1. \A z : apiGetSegment(z, r) = S(z, ProjectBy(z, r.slug))
    BY DEF apiGetSegment, ForProject, Sought, IfFound
  <2>2. \A p : Same(L(a, p), L(c, p), timed)
    <3>1. \A p : g(a, p) = g(c, p)
      BY SameLookups, SMTT(30)
    <3> HIDE DEF g
    <3> QED BY <3>1, SameFound
  <2> HIDE DEF L
  <2>3. \A f : Same(S(a, f), S(c, f), timed)
    BY <1>1, <2>2
  <2> HIDE DEF S
  <2> QED BY <1>4, <2>1, <2>3
<1>14. Same(apiListSnapshots(a, r), apiListSnapshots(c, r), timed)
  <2> DEFINE g(z, p) == SnapshotList(z, p.id, LimitOr(r.limit, 50))
             L(z, p) == Reply(200, <<[items |-> Each(g(z, p), snapshotToAPI)]>>, z)
             S(z, f) == IF f.err = "nil" THEN L(z, f.val[1]) ELSE Reply(404, <<>>, z)
  <2>1. \A z : apiListSnapshots(z, r) = S(z, ProjectBy(z, r.slug))
    BY DEF apiListSnapshots, ForProject, Sought, Show
  <2>2. \A p : Same(L(a, p), L(c, p), timed)
    <3>1. \A p : g(a, p) = g(c, p)
      BY SameLookups, SMTT(30)
    <3> HIDE DEF g
    <3> QED BY <1>1, <3>1
  <2> HIDE DEF L
  <2>3. \A f : Same(S(a, f), S(c, f), timed)
    BY <1>1, <2>2
  <2> HIDE DEF S
  <2> QED BY <1>4, <2>1, <2>3
<1>15. Same(apiGetLatestSnapshot(a, r), apiGetLatestSnapshot(c, r), timed)
  <2> DEFINE g(z, p) == LatestSnapshotBy(z, p.id)
             L(z, p) == IfFound(g(z, p), snapshotToAPI(g(z, p).val[1]), z)
             S(z, f) == IF f.err = "nil" THEN L(z, f.val[1]) ELSE Reply(404, <<>>, z)
  <2>1. \A z : apiGetLatestSnapshot(z, r) = S(z, ProjectBy(z, r.slug))
    BY DEF apiGetLatestSnapshot, ForProject, Sought, IfFound
  <2>2. \A p : Same(L(a, p), L(c, p), timed)
    <3>1. \A p : g(a, p) = g(c, p)
      BY SameLookups, SMTT(30)
    <3> HIDE DEF g
    <3> QED BY <3>1, SameFound
  <2> HIDE DEF L
  <2>3. \A f : Same(S(a, f), S(c, f), timed)
    BY <1>1, <2>2
  <2> HIDE DEF S
  <2> QED BY <1>4, <2>1, <2>3
<1>16. Same(apiGetSnapshot(a, r), apiGetSnapshot(c, r), timed)
  <2> DEFINE g(z, p) == SnapshotBy(z, p.id, r.id)
             L(z, p) == IfFound(g(z, p), snapshotToAPI(g(z, p).val[1]), z)
             S(z, f) == IF f.err = "nil" THEN L(z, f.val[1]) ELSE Reply(404, <<>>, z)
  <2>1. \A z : apiGetSnapshot(z, r)
                 = IF r.id = <<>> THEN Reply(400, <<>>, z) ELSE S(z, ProjectBy(z, r.slug))
    BY DEF apiGetSnapshot, ForProject, Sought, IfFound, Refuse
  <2>2. \A p : Same(L(a, p), L(c, p), timed)
    <3>1. \A p : g(a, p) = g(c, p)
      BY SameLookups, SMTT(30)
    <3> HIDE DEF g
    <3> QED BY <3>1, SameFound
  <2> HIDE DEF L
  <2>3. \A f : Same(S(a, f), S(c, f), timed)
    BY <1>1, <2>2
  <2> HIDE DEF S
  <2>4. CASE r.id = <<>>
    <3>1. /\ apiGetSnapshot(a, r) = Reply(400, <<>>, a)
          /\ apiGetSnapshot(c, r) = Reply(400, <<>>, c)
      BY <2>1, <2>4
    <3>2. Same(Reply(400, <<>>, a), Reply(400, <<>>, c), timed)
      BY <1>1
    <3> QED BY <3>1, <3>2
  <2>5. CASE r.id # <<>>
    <3>1. \A z : apiGetSnapshot(z, r) = S(z, ProjectBy(z, r.slug))
      BY <2>1, <2>5
    <3> QED BY <1>4, <2>3, <3>1
  <2> QED BY <2>4, <2>5
<1> QED BY <1>3, <1>6, <1>7, <1>8, <1>9, <1>10, <1>11, <1>12, <1>13, <1>14, <1>15, <1>16

\* So does an evaluation.
LEMMA SameEvaluations ==
    ASSUME NEW a, NEW c, NEW timed, Twins(a, c, timed), NEW r
    PROVE  /\ Same(apiEvaluate(a, r), apiEvaluate(c, r), timed)
           /\ Same(apiEvaluateWithTrace(a, r), apiEvaluateWithTrace(c, r), timed)
<1> DEFINE y == apiLoad(a, r)
           z == apiLoad(c, r)
           t(l) == EvaluateWithTrace(l.compiled, r.context, l.version)
           F(l, d) == Show(decisionToAPI(Evaluate(l.compiled, r.context, l.version)), d)
           G(l, d) == Show([decision |-> decisionToAPI(t(l).decision),
                            trace |-> traceToAPI(t(l).trace)], d)
<1>1. Same(y, z, timed)
  BY SameReads
<1>2. \A s, x : Same(Reply(s, x, a), Reply(s, x, c), timed)
  BY SameReplies
<1>3. \A l : Same(F(l, a), F(l, c), timed) /\ Same(G(l, a), G(l, c), timed)
  BY <1>2 DEF Show
<1>4. /\ apiEvaluate(a, r) = IF y.body = <<>> THEN y ELSE F(y.body[1], a)
      /\ apiEvaluate(c, r) = IF z.body = <<>> THEN z ELSE F(z.body[1], c)
  BY DEF apiEvaluate, WhenLoaded
<1>5. /\ apiEvaluateWithTrace(a, r) = IF y.body = <<>> THEN y ELSE G(y.body[1], a)
      /\ apiEvaluateWithTrace(c, r) = IF z.body = <<>> THEN z ELSE G(z.body[1], c)
  BY DEF apiEvaluateWithTrace, WhenLoaded
<1>6. y.body = z.body
  BY <1>1 DEF Same
<1> HIDE DEF y, z, F, G
<1> QED BY <1>1, <1>3, <1>4, <1>5, <1>6

-----------------------------------------------------------------------------
(* The audit log *)

\* A request for events by the millisecond, from the newest on.
ByMillisecond(q) ==
    /\ q.cursor_ts = 0
    /\ q.from \in Nat /\ q.to \in Nat /\ q.from % 2 = 0 /\ q.to % 2 = 0

\* Postgres compares times and SQLite milliseconds: the same for such a request.
LEMMA SameSelection ==
    ASSUME NEW v, EventOK("postgres", v), NEW w, EventOK("sqlite", w),
           Seen(v, TRUE) = Seen(w, TRUE), NEW q, ByMillisecond(q)
    PROVE  Selects("postgres", q, v) <=> Selects("sqlite", q, w)
<1>1. /\ v.project_id = w.project_id /\ v.action = w.action /\ v.actor = w.actor
      /\ 2 * (v.created_at \div 2) = 2 * (w.created_at \div 2)
  <2> DEFINE g == Seen(v, TRUE)
             h == Seen(w, TRUE)
  <2>1. Columns(v, EventColumns) /\ Columns(w, EventColumns)
    BY DEF EventOK
  <2>2. /\ g.project_id = v.project_id /\ g.action = v.action /\ g.actor = v.actor
        /\ g.created_at = 2 * (v.created_at \div 2)
    BY <2>1, SMT DEF Seen, Columns, EventColumns
  <2>3. /\ h.project_id = w.project_id /\ h.action = w.action /\ h.actor = w.actor
        /\ h.created_at = 2 * (w.created_at \div 2)
    BY <2>1, SMT DEF Seen, Columns, EventColumns
  <2>4. g = h
    OBVIOUS
  <2> HIDE DEF g, h
  <2> QED BY <2>2, <2>3, <2>4
<1> DEFINE s == v.created_at
           t == w.created_at
           f == q.from
           u == q.to
<1>2. s \in Nat /\ t \in Nat /\ f \in Nat /\ u \in Nat /\ f % 2 = 0 /\ u % 2 = 0
  BY DEF EventOK, ByMillisecond
<1>3. (s >= f <=> t \div 2 >= f \div 2) /\ (s < u <=> t \div 2 < u \div 2)
  <2>1. 2 * (s \div 2) = 2 * (t \div 2)
    BY <1>1
  <2> HIDE DEF s, t, f, u
  <2> QED BY <1>2, <2>1, SMT
<1>4. /\ Stamp("postgres", s) = s /\ Stamp("postgres", f) = f /\ Stamp("postgres", u) = u
      /\ Stamp("sqlite", t) = t \div 2 /\ Stamp("sqlite", f) = f \div 2
      /\ Stamp("sqlite", u) = u \div 2
  BY SMT DEF Stamp
<1>5. /\ Stamp("postgres", s) >= Stamp("postgres", f)
           <=> Stamp("sqlite", t) >= Stamp("sqlite", f)
      /\ Stamp("postgres", s) < Stamp("postgres", u) <=> Stamp("sqlite", t) < Stamp("sqlite", u)
  BY <1>3, <1>4
<1>6. q.cursor_ts = 0
  BY DEF ByMillisecond
<1> QED BY <1>1, <1>5, <1>6, Zenon DEF Selects

\* Twins have the same events to select.
LEMMA SameSelections ==
    ASSUME NEW a, NEW c, ContentsOK("postgres", a), ContentsOK("sqlite", c), Twins(a, c, TRUE),
           NEW q, ByMillisecond(q)
    PROVE  {Seen(v, TRUE) : v \in EventsFor("postgres", a, q)}
             = {Seen(v, TRUE) : v \in EventsFor("sqlite", c, q)}
<1> DEFINE A == {Seen(v, TRUE) : v \in a.audit}
           C == {Seen(v, TRUE) : v \in c.audit}
<1>1. A = C
  BY DEF Twins
<1>2. /\ \A v \in a.audit : EventOK("postgres", v)
      /\ \A v \in c.audit : EventOK("sqlite", v)
  BY DEF ContentsOK
<1>3. \A v \in a.audit, w \in c.audit :
          Seen(v, TRUE) = Seen(w, TRUE)
            => (Selects("postgres", q, v) <=> Selects("sqlite", q, w))
  BY <1>2, SameSelection
<1>4. ASSUME NEW v \in EventsFor("postgres", a, q)
      PROVE  \E w \in EventsFor("sqlite", c, q) : Seen(w, TRUE) = Seen(v, TRUE)
  <2>1. v \in a.audit /\ Selects("postgres", q, v)
    BY DEF EventsFor
  <2>2. Seen(v, TRUE) \in A
    BY <2>1
  <2>3. Seen(v, TRUE) \in C
    BY <1>1, <2>2
  <2>4. PICK w \in c.audit : Seen(v, TRUE) = Seen(w, TRUE)
    BY <2>3
  <2>5. Selects("sqlite", q, w)
    BY <1>3, <2>1, <2>4
  <2> QED BY <2>4, <2>5 DEF EventsFor
<1>5. ASSUME NEW w \in EventsFor("sqlite", c, q)
      PROVE  \E v \in EventsFor("postgres", a, q) : Seen(v, TRUE) = Seen(w, TRUE)
  <2>1. w \in c.audit /\ Selects("sqlite", q, w)
    BY DEF EventsFor
  <2>2. Seen(w, TRUE) \in C
    BY <2>1
  <2>3. Seen(w, TRUE) \in A
    BY <1>1, <2>2
  <2>4. PICK v \in a.audit : Seen(w, TRUE) = Seen(v, TRUE)
    BY <2>3
  <2>5. Selects("postgres", q, v)
    BY <1>3, <2>1, <2>4
  <2> QED BY <2>4, <2>5 DEF EventsFor
<1> DEFINE P == EventsFor("postgres", a, q)
           Q == EventsFor("sqlite", c, q)
<1> HIDE DEF P, Q
<1>6. \A v \in P : Seen(v, TRUE) \in {Seen(w, TRUE) : w \in Q}
  BY <1>4 DEF P, Q
<1>7. \A w \in Q : Seen(w, TRUE) \in {Seen(v, TRUE) : v \in P}
  BY <1>5 DEF P, Q
<1>8. {Seen(v, TRUE) : v \in P} = {Seen(w, TRUE) : w \in Q}
  BY <1>6, <1>7
<1> QED BY <1>8 DEF P, Q

\* An event, as it is shown, with its time in whole milliseconds.
Rounded(x) == [x EXCEPT !.created_at = (@ \div 2) * 2]
LEMMA SeenRounded ==
    ASSUME NEW v, Columns(v, EventColumns), v.created_at \in Nat
    PROVE  Rounded(auditEventToAPI(v)) = auditEventToAPI(Seen(v, TRUE))
<1> DEFINE x == auditEventToAPI(v)
           y == Rounded(x)
           s == Seen(v, TRUE)
           z == auditEventToAPI(s)
<1>1. Columns(x, EventColumns)
  BY DEF auditEventToAPI, Columns, EventColumns
<1>2. /\ x.id = v.id /\ x.project_id = v.project_id
      /\ x.flag_id = v.flag_id /\ x.action = v.action /\ x.actor = Optional(v.actor, "")
      /\ x.payload = rawToAny(v.payload) /\ x.created_at = v.created_at
  BY SMT DEF auditEventToAPI, Columns, EventColumns
<1>3. Columns(s, EventColumns)
  BY DEF Seen, Columns, EventColumns
<1>4. /\ s.id = v.id /\ s.project_id = v.project_id
      /\ s.flag_id = v.flag_id /\ s.action = v.action /\ s.actor = v.actor
      /\ s.payload = v.payload /\ s.created_at = 2 * (v.created_at \div 2)
  BY SMT DEF Seen, Columns, EventColumns
<1> HIDE DEF x, s
<1>5. Columns(y, EventColumns)
  BY <1>1 DEF Rounded, Columns, EventColumns
<1>6. /\ y.id = x.id /\ y.project_id = x.project_id
      /\ y.flag_id = x.flag_id /\ y.action = x.action /\ y.actor = x.actor
      /\ y.payload = x.payload /\ y.created_at = (x.created_at \div 2) * 2
  BY <1>1, SMT DEF Rounded, Columns, EventColumns
<1>7. Columns(z, EventColumns)
  BY <1>3 DEF auditEventToAPI, Columns, EventColumns
<1>8. /\ z.id = s.id /\ z.project_id = s.project_id
      /\ z.flag_id = s.flag_id /\ z.action = s.action /\ z.actor = Optional(s.actor, "")
      /\ z.payload = rawToAny(s.payload) /\ z.created_at = s.created_at
  BY <1>3, SMT DEF auditEventToAPI, Columns, EventColumns
<1> HIDE DEF y, z
<1>9. y.created_at = z.created_at
  <2>1. \A t \in Nat : (t \div 2) * 2 = 2 * (t \div 2)
    BY SMT
  <2>2. y.created_at = (v.created_at \div 2) * 2 /\ z.created_at = 2 * (v.created_at \div 2)
    BY <1>2, <1>4, <1>6, <1>8
  <2> QED BY <2>1, <2>2
<1>10. /\ y.id = z.id /\ y.project_id = z.project_id /\ y.flag_id = z.flag_id
      /\ y.action = z.action /\ y.actor = z.actor /\ y.payload = z.payload
  BY <1>2, <1>4, <1>6, <1>8
<1>11. y = z
  BY <1>5, <1>7, <1>9, <1>10, SMT DEF Columns, EventColumns
<1> QED BY <1>11 DEF y, z, x, s

\* A log that fits on a page.
Short(a) == \A S \in SUBSET a.audit : Cardinality(S) <= DefaultLimit
ItemsOf(x) == {x.items[i] : i \in DOMAIN x.items}

\* log has the events V, newest first.
LogOf(b, log, V) ==
    /\ Arranges(log, V, EventOrder(V))
    /\ \A v \in V : Columns(v, EventColumns) /\ v.created_at \in Nat /\ v.id \in Nat

\* A list without a limit is cut at the default one.
LEMMA LogArranged ==
    ASSUME StoreContract, NEW b, NEW a, ContentsOK(b, a), NEW p, NEW r,
           r.limit = 0, r.cursor = <<>>, r.from \in Nat, r.to \in Nat
    PROVE  /\ PageLimit(r) = DefaultLimit /\ DefaultLimit \in Nat \ {0}
           /\ LogOf(b, EventList(b, a, LogQuery(p, r)), EventsFor(b, a, LogQuery(p, r)))
<1> DEFINE q == LogQuery(p, r)
           n == PageLimit(r)
           V == EventsFor(b, a, q)
<1>1. n = DefaultLimit /\ DefaultLimit \in Nat \ {0}
  BY LimitAssumption, SMT DEF PageLimit, LimitOr
<1>2. CursorOf(r).ts = 0
  BY SMT DEF CursorOf
<1>3. QueryOK(q)
  <2>1. /\ q.from = r.from /\ q.to = r.to /\ q.cursor_ts = CursorOf(r).ts /\ q.limit = n + 1
    BY SMT DEF LogQuery
  <2> HIDE DEF q, n
  <2>2. n + 1 \in Nat /\ CursorOf(r).ts \in Nat
    BY <1>1, <1>2, SMT
  <2> QED BY <2>1, <2>2 DEF QueryOK
<1> HIDE DEF q, n
<1>4. Arranges(EventList(b, a, q), V, EventOrder(V))
  BY <1>3 DEF StoreContract, ListsContents, EventList
<1>5. \A v \in V : Columns(v, EventColumns) /\ v.created_at \in Nat /\ v.id \in Nat
  <2>1. \A v \in V : v \in a.audit
    BY DEF EventsFor
  <2>2. \A v \in a.audit : EventOK(b, v)
    BY DEF ContentsOK, OK, TableNames
  <2>3. \A v : EventOK(b, v)
               => Columns(v, EventColumns) /\ v.created_at \in Nat /\ v.id \in Nat
    BY DEF EventOK
  <2> QED BY <2>1, <2>2, <2>3
<1> QED BY <1>1, <1>4, <1>5 DEF LogOf, n, V, q

\* Without a limit, the page has all there is of a short log.
LEMMA WholeLog ==
    ASSUME StoreContract, NEW b, NEW a, ContentsOK(b, a), Short(a), NEW p, NEW r,
           r.limit = 0, r.cursor = <<>>, r.from \in Nat, r.to \in Nat
    PROVE  LET x == LogPage(EventList(b, a, LogQuery(p, r)), PageLimit(r))
           IN  /\ ItemsOf(x) = {auditEventToAPI(v) : v \in EventsFor(b, a, LogQuery(p, r))}
               /\ x = [items |-> x.items, next_cursor |-> <<>>]
<1> DEFINE q == LogQuery(p, r)
           V == EventsFor(b, a, q)
           log == EventList(b, a, q)
           x == LogPage(log, PageLimit(r))
           y == [items |-> APIEvents(log), next_cursor |-> <<>>]
<1>1. /\ PageLimit(r) = DefaultLimit /\ DefaultLimit \in Nat
      /\ Arranges(log, V, EventOrder(V))
  BY LogArranged DEF LogOf
<1> HIDE DEF q
<1>2. Cardinality(V) <= DefaultLimit
  BY DEF Short, EventsFor
<1> HIDE DEF V
<1>3. /\ log \in Seq(V) /\ Len(log) = Cardinality(V)
      /\ \A v \in V : \E i \in 1 .. Cardinality(V) : log[i] = v
  BY <1>1 DEF Arranges
<1> HIDE DEF log
<1>4. DOMAIN log = 1 .. Cardinality(V) /\ \A i \in DOMAIN log : log[i] \in V
  BY <1>3, SMT
<1>5. x = y
  BY <1>1, <1>2, <1>3 DEF LogPage
<1>6. y.items = APIEvents(log) /\ y = [items |-> y.items, next_cursor |-> <<>>]
  BY SMT
<1> HIDE DEF x, y
<1>7. ItemsOf(x) = {auditEventToAPI(v) : v \in V}
  <2>1. /\ DOMAIN APIEvents(log) = DOMAIN log
        /\ \A i \in DOMAIN log : APIEvents(log)[i] = auditEventToAPI(log[i])
    BY DEF APIEvents
  <2>2. ItemsOf(x) = {APIEvents(log)[i] : i \in DOMAIN log}
    BY <1>5, <1>6, <2>1 DEF ItemsOf
  <2>3. ItemsOf(x) = {auditEventToAPI(log[i]) : i \in DOMAIN log}
    BY <2>1, <2>2
  <2>4. \A v \in V : auditEventToAPI(v) \in {auditEventToAPI(log[i]) : i \in DOMAIN log}
    <3>1. \A v \in V : \E i \in DOMAIN log : log[i] = v
      BY <1>3, <1>4
    <3> QED BY <3>1
  <2>5. \A i \in DOMAIN log : auditEventToAPI(log[i]) \in {auditEventToAPI(v) : v \in V}
    BY <1>4
  <2>6. {auditEventToAPI(log[i]) : i \in DOMAIN log} = {auditEventToAPI(v) : v \in V}
    BY <2>4, <2>5
  <2> QED BY <2>3, <2>6
<1> QED BY <1>5, <1>6, <1>7 DEF x, log, V, q

\* The places 1 .. n number the elements of I.
Numbers(f, n, I) ==
    /\ f \in [1 .. n -> I]
    /\ \A y \in I : \E i \in 1 .. n : f[i] = y
    /\ \A i, j \in 1 .. n : f[i] = f[j] => i = j
Filled(I) == \E f : Numbers(f, DefaultLimit, I)

\* The list I shows events of V, and leaves one out only when it is full of
\* events that are no older.
KeepsNewest(I, V) ==
    /\ I \subseteq {auditEventToAPI(v) : v \in V}
    /\ \A v \in V : \/ auditEventToAPI(v) \in I
                    \/ /\ Filled(I)
                       /\ \A y \in I : y.created_at >= v.created_at

\* What the API tells of an event has the event's id and time.
LEMMA ToldEvent ==
    ASSUME NEW v, Columns(v, EventColumns)
    PROVE  auditEventToAPI(v).id = v.id /\ auditEventToAPI(v).created_at = v.created_at
BY SMT DEF auditEventToAPI, Columns, EventColumns

\* The first events of a log, as many as a list may show, are its newest.
LEMMA CutKeepsNewest ==
    ASSUME NEW b, NEW V, NEW log, LogOf(b, log, V), DefaultLimit \in Nat \ {0},
           NEW page, page = Cut(log, DefaultLimit)
    PROVE  KeepsNewest({auditEventToAPI(page[i]) : i \in DOMAIN page}, V)
<1> DEFINE N == Cardinality(V)
           n == DefaultLimit
           A(v) == auditEventToAPI(v)
           I == {A(page[i]) : i \in DOMAIN page}
           R == EventOrder(V)
<1>1. /\ log \in Seq(V) /\ Len(log) = N /\ N \in Nat
      /\ \A v \in V : \E i \in 1 .. N : log[i] = v
      /\ \A i, j \in 1 .. N : i < j => <<log[j], log[i]>> \in R
  <2>1. /\ log \in Seq(V) /\ Len(log) = N
        /\ \A v \in V : \E i \in 1 .. N : log[i] = v
        /\ \A i, j \in 1 .. N : i < j => <<log[j], log[i]>> \in R
    BY DEF LogOf, Arranges
  <2>2. Len(log) \in Nat
    BY <2>1, SMT
  <2> QED BY <2>1, <2>2
<1>2. \A v \in V : /\ v.created_at \in Nat /\ v.id \in Nat
                   /\ A(v).id = v.id /\ A(v).created_at = v.created_at
  BY ToldEvent DEF LogOf
<1>3. \A u, v \in V : <<u, v>> \in R
          => u.created_at <= v.created_at /\ ~(u.created_at = v.created_at /\ u.id = v.id)
  <2> SUFFICES ASSUME NEW u \in V, NEW v \in V, <<u, v>> \in R
               PROVE  /\ u.created_at <= v.created_at
                      /\ ~(u.created_at = v.created_at /\ u.id = v.id)
    OBVIOUS
  <2>1. \/ u.created_at < v.created_at
        \/ u.created_at = v.created_at /\ u.id < v.id
    BY DEF EventOrder
  <2>2. u.created_at \in Nat /\ v.created_at \in Nat /\ u.id \in Nat /\ v.id \in Nat
    BY <1>2
  <2> QED BY <2>1, <2>2, SMT
<1> HIDE DEF N, A, R
<1>4. /\ DOMAIN log = 1 .. N /\ \A i \in 1 .. N : log[i] \in V
  BY <1>1, SMT
<1>5. CASE N <= n
  <2>1. page = log
    BY <1>1, <1>5, SMT DEF Cut
  <2>2. I = {A(log[i]) : i \in 1 .. N}
    BY <1>4, <2>1
  <2>3. I \subseteq {A(v) : v \in V} /\ \A v \in V : A(v) \in I
    BY <1>1, <1>4, <2>2
  <2> QED BY <2>3 DEF KeepsNewest, A
<1>6. CASE ~(N <= n)
  <2>1. n \in 1 .. N /\ 1 .. n \subseteq 1 .. N
    BY <1>1, <1>6, SMT
  <2>2. DOMAIN page = 1 .. n /\ \A i \in 1 .. n : page[i] = log[i]
    <3>1. page = SubSeq(log, 1, n)
      BY <1>1, <1>6, SMT DEF Cut
    <3> QED BY <1>1, <2>1, <3>1, SMT
  <2>3. I = {A(log[i]) : i \in 1 .. n}
    BY <2>2
  <2>4. I \subseteq {A(v) : v \in V}
    BY <1>4, <2>1, <2>3
  <2>5. Filled(I)
    <3> DEFINE f == [i \in 1 .. n |-> A(log[i])]
    <3>1. f \in [1 .. n -> I] /\ \A y \in I : \E i \in 1 .. n : f[i] = y
      BY <2>3
    <3>2. ASSUME NEW i \in 1 .. n, NEW j \in 1 .. n, i < j PROVE f[i] # f[j]
      <4>1. /\ log[i] \in V /\ log[j] \in V /\ <<log[j], log[i]>> \in R
        BY <1>1, <1>4, <2>1, <3>2
      <4>2. ~(log[j].created_at = log[i].created_at /\ log[j].id = log[i].id)
        BY <1>3, <4>1
      <4>3. /\ A(log[j]).created_at = log[j].created_at /\ A(log[j]).id = log[j].id
            /\ A(log[i]).created_at = log[i].created_at /\ A(log[i]).id = log[i].id
        BY <1>2, <4>1
      <4> QED BY <4>2, <4>3
    <3> HIDE DEF f, I
    <3>3. \A i, j \in 1 .. n : f[i] = f[j] => i = j
      <4>1. \A i, j \in 1 .. n : i = j \/ i < j \/ j < i
        BY <2>1, SMT
      <4> QED BY <3>2, <4>1
    <3> QED BY <3>1, <3>3 DEF Filled, Numbers
  <2>6. ASSUME NEW v \in V, A(v) \notin I, NEW y \in I PROVE y.created_at >= v.created_at
    <3>1. PICK i \in 1 .. n : y = A(log[i])
      BY <2>3
    <3>2. PICK j \in 1 .. N : log[j] = v
      BY <1>1
    <3>3. j \notin 1 .. n
      BY <2>3, <2>6, <3>2
    <3>4. i \in 1 .. N /\ i < j
      BY <1>1, <2>1, <3>2, <3>3, SMT
    <3>5. log[i] \in V /\ <<v, log[i]>> \in R
      BY <1>1, <1>4, <3>2, <3>4
    <3>6. /\ v.created_at \in Nat /\ y.created_at \in Nat /\ v.created_at <= y.created_at
      BY <1>2, <1>3, <3>1, <3>5
    <3> QED BY <3>6, SMT
  <2> HIDE DEF I
  <2> QED BY <2>4, <2>5, <2>6 DEF KeepsNewest, A, I
<1> QED BY <1>1, <1>5, <1>6

\* Without a limit, the page has the newest events of any log.
LEMMA NewestPage ==
    ASSUME StoreContract, NEW b, NEW a, ContentsOK(b, a), NEW p, NEW r,
           r.limit = 0, r.cursor = <<>>, r.from \in Nat, r.to \in Nat
    PROVE  LET x == LogPage(EventList(b, a, LogQuery(p, r)), PageLimit(r))
           IN  /\ KeepsNewest(ItemsOf(x), EventsFor(b, a, LogQuery(p, r)))
               /\ "next_cursor" \in DOMAIN x
<1> DEFINE q == LogQuery(p, r)
           V == EventsFor(b, a, q)
           log == EventList(b, a, q)
           x == LogPage(log, PageLimit(r))
           page == Cut(log, DefaultLimit)
<1>1. /\ PageLimit(r) = DefaultLimit /\ DefaultLimit \in Nat \ {0} /\ LogOf(b, log, V)
  BY LogArranged
<1>2. KeepsNewest({auditEventToAPI(page[i]) : i \in DOMAIN page}, V)
  <2> HIDE DEF log, V
  <2> QED BY <1>1, CutKeepsNewest
<1>3. log \in Seq(V)
  BY <1>1 DEF LogOf, Arranges
<1> HIDE DEF log, V
<1>4. x.items = APIEvents(page) /\ "next_cursor" \in DOMAIN x
  <2>1. CASE Len(log) <= DefaultLimit
    <3>1. page = log
      BY <1>1, <1>3, <2>1, SMT DEF Cut
    <3>2. x = [items |-> APIEvents(log), next_cursor |-> <<>>]
      BY <1>1, <2>1 DEF LogPage
    <3> HIDE DEF x, page
    <3> QED BY <3>1, <3>2, SMT
  <2>2. CASE ~(Len(log) <= DefaultLimit)
    <3> DEFINE c == <<encodeAuditCursor(log[DefaultLimit].created_at, log[DefaultLimit].id)>>
    <3> HIDE DEF c
    <3>1. x = [items |-> APIEvents(page), next_cursor |-> c]
      BY <1>1, <2>2 DEF LogPage, c
    <3> HIDE DEF x, page
    <3> QED BY <3>1, SMT
  <2> QED BY <2>1, <2>2
<1> HIDE DEF x, page
<1>5. ItemsOf(x) = {auditEventToAPI(page[i]) : i \in DOMAIN page}
  BY <1>4 DEF ItemsOf, APIEvents
<1> QED BY <1>2, <1>4, <1>5 DEF x, log, V, q

\* The events selected, in whole milliseconds, and a list that shows them.
SeenFor(b, a, q) == {Seen(v, TRUE) : v \in EventsFor(b, a, q)}
Reports(x, S) ==
    /\ Coarse(<<x>>) = {auditEventToAPI(s) : s \in S}
    /\ Coarse(Content(<<x>>)) = Coarse(<<x>>)

\* What a whole list of events shows in whole milliseconds.
LEMMA CoarseLog ==
    ASSUME StoreContract, NEW b, NEW a, ContentsOK(b, a), Short(a), NEW p, NEW r,
           r.limit = 0, r.cursor = <<>>, r.from \in Nat, r.to \in Nat
    PROVE  Reports(LogPage(EventList(b, a, LogQuery(p, r)), PageLimit(r)),
                   SeenFor(b, a, LogQuery(p, r)))
<1> DEFINE x == LogPage(EventList(b, a, LogQuery(p, r)), PageLimit(r))
           V == EventsFor(b, a, LogQuery(p, r))
           I == ItemsOf(x)
           Milli(y) == [y EXCEPT !.created_at = Millisecond(@)]
<1>1. I = {auditEventToAPI(v) : v \in V} /\ x = [items |-> x.items, next_cursor |-> <<>>]
  BY WholeLog
<1>2. \A v \in V : Columns(v, EventColumns) /\ v.created_at \in Nat
  <2>1. \A v \in V : v \in a.audit
    BY DEF EventsFor
  <2>2. \A v \in a.audit : EventOK(b, v)
    BY DEF ContentsOK, OK, TableNames
  <2>3. \A v : EventOK(b, v) => Columns(v, EventColumns) /\ v.created_at \in Nat
    BY DEF EventOK
  <2> QED BY <2>1, <2>2, <2>3
<1> HIDE DEF V
<1>3. \A y : Milli(y) = Rounded(y)
  BY DEF Millisecond, TicksPerMilli, Rounded
<1>4. \A v \in V : Milli(auditEventToAPI(v)) = auditEventToAPI(Seen(v, TRUE))
  BY <1>2, <1>3, SeenRounded
<1>5. <<x>> # <<>> /\ <<x>>[1] = x
  <2> HIDE DEF x
  <2> QED BY SMT
<1>6. Coarse(<<x>>) = {Milli(y) : y \in I}
  <2> HIDE DEF x
  <2>1. Coarse(<<x>>) = {Milli(x.items[i]) : i \in DOMAIN x.items}
    BY <1>5 DEF Coarse
  <2> QED BY <2>1 DEF ItemsOf
<1>7. Coarse(Content(<<x>>)) = {Milli(y) : y \in I}
  <2> DEFINE z == [items |-> x.items]
  <2>1. z.items = x.items
    OBVIOUS
  <2>2. "next_cursor" \in DOMAIN x
    <3> HIDE DEF x
    <3> QED BY <1>1, SMT
  <2>3. Content(<<x>>) = <<z>>
    <3> HIDE DEF x
    <3> QED BY <1>5, <2>2 DEF Content
  <2>4. <<z>> # <<>> /\ <<z>>[1] = z
    <3> HIDE DEF z
    <3> QED BY SMT
  <2> HIDE DEF z, x
  <2>5. Coarse(<<z>>) = {Milli(z.items[i]) : i \in DOMAIN z.items}
    BY <2>4 DEF Coarse
  <2>6. Coarse(<<x>>) = {Milli(x.items[i]) : i \in DOMAIN x.items}
    BY <1>5 DEF Coarse
  <2>7. Coarse(<<z>>) = Coarse(<<x>>)
    BY <2>1, <2>5, <2>6
  <2> QED BY <1>6, <2>3, <2>7
<1> HIDE DEF x, Milli, I
<1>8. {Milli(y) : y \in I} = {auditEventToAPI(s) : s \in {Seen(v, TRUE) : v \in V}}
  <2>1. {Milli(y) : y \in I} = {Milli(auditEventToAPI(v)) : v \in V}
    BY <1>1
  <2>2. {Milli(auditEventToAPI(v)) : v \in V} = {auditEventToAPI(Seen(v, TRUE)) : v \in V}
    BY <1>4
  <2> QED BY <2>1, <2>2
<1>9. Coarse(<<x>>) = {auditEventToAPI(s) : s \in SeenFor(b, a, LogQuery(p, r))}
  BY <1>6, <1>8 DEF SeenFor, V
<1> QED BY <1>6, <1>7, <1>9 DEF Reports, x

\* The events of a project.
ProjectLog(a, p) == {v \in a.audit : v.project_id = <<p.id>>}

\* The request q lists, without a limit, events of the project that include v.
Lists(b, p, slug, v, q) ==
    /\ Selects(b, LogQuery(p, q), v)
    /\ q.limit = 0 /\ q.cursor = <<>> /\ q.from \in Nat /\ q.to \in Nat
    /\ q.op = "ListAuditEvents" /\ q.slug = slug

\* The search for an event, by the millisecond it says it happened in, its action and
\* its actor, is such a request.
LEMMA SearchFinds ==
    ASSUME NEW b, NEW v, EventOK(b, v), NEW p, v.project_id = <<p.id>>, NEW slug
    PROVE  Lists(b, p, slug, v, SearchFor(slug, auditEventToAPI(v)))
<1> DEFINE x == auditEventToAPI(v)
           r == SearchFor(slug, x)
           q == LogQuery(p, r)
           t == v.created_at
           u == (t \div 2) * 2
<1>1. Columns(v, EventColumns) /\ t \in Nat
  BY DEF EventOK
<1>2. x.action = v.action /\ x.actor = Optional(v.actor, "") /\ x.created_at = v.created_at
  BY <1>1, SMT DEF auditEventToAPI, Columns, EventColumns
<1> HIDE DEF x
<1>3. /\ r.op = "ListAuditEvents" /\ r.slug = slug /\ r.limit = 0 /\ r.cursor = <<>>
      /\ r.action = x.action /\ r.actor_filter = (IF x.actor = <<>> THEN "" ELSE x.actor[1])
      /\ r.from = (x.created_at \div 2) * 2 /\ r.to = (x.created_at \div 2) * 2 + 2
  BY SMT DEF SearchFor, Listing, Millisecond, TicksPerMilli
<1> HIDE DEF r
<1>4. r.actor_filter = v.actor
  <2>1. CASE v.actor = ""
    <3>1. x.actor = <<>>
      BY <1>2, <2>1 DEF Optional
    <3> QED BY <1>3, <2>1, <3>1
  <2>2. CASE v.actor # ""
    <3>1. x.actor = <<v.actor>>
      BY <1>2, <2>2 DEF Optional
    <3>2. x.actor # <<>> /\ x.actor[1] = v.actor
      BY <3>1, SMT
    <3> QED BY <1>3, <3>2
  <2> QED BY <2>1, <2>2
<1>5. /\ q.project_id = p.id /\ q.action = r.action /\ q.actor = r.actor_filter
      /\ q.from = r.from /\ q.to = r.to /\ q.cursor_ts = CursorOf(r).ts
  BY SMT DEF LogQuery
<1>6. CursorOf(r).ts = 0
  <2>1. CursorOf(r) = [ts |-> 0, id |-> <<>>]
    BY <1>3 DEF CursorOf
  <2> QED BY <2>1, SMT
<1> HIDE DEF q
<1>7. q.action = v.action /\ q.actor = v.actor /\ q.from = u /\ q.to = u + 2 /\ q.cursor_ts = 0
  BY <1>2, <1>3, <1>4, <1>5, <1>6
<1>8. /\ u \in Nat /\ u + 2 \in Nat /\ t >= u /\ t < u + 2
      /\ t \div 2 >= u \div 2 /\ t \div 2 < (u + 2) \div 2
  <2> HIDE DEF t
  <2> QED BY <1>1, SMT
<1>9. Stamp(b, t) >= Stamp(b, u) /\ Stamp(b, t) < Stamp(b, u + 2)
  <2> HIDE DEF t, u
  <2> QED BY <1>8 DEF Stamp
<1>10. Selects(b, q, v)
  <2> HIDE DEF u
  <2> QED BY <1>5, <1>7, <1>9 DEF Selects
<1>11. r.from = u /\ r.to = u + 2
  BY <1>2, <1>3
<1>12. Lists(b, p, slug, v, r)
  <2> HIDE DEF u
  <2> QED BY <1>3, <1>8, <1>10, <1>11 DEF Lists, q
<1> QED BY <1>12 DEF r, x

\* So is the request for the whole log.
LEMMA ListingFinds ==
    ASSUME NEW b, NEW v, NEW p, v.project_id = <<p.id>>, NEW slug
    PROVE  Lists(b, p, slug, v, Listing(slug, 0, <<>>))
<1> DEFINE r == Listing(slug, 0, <<>>)
           q == LogQuery(p, r)
<1>1. /\ r.action = "" /\ r.actor_filter = "" /\ r.from = 0 /\ r.to = 0 /\ r.cursor = <<>>
      /\ r.op = "ListAuditEvents" /\ r.slug = slug /\ r.limit = 0
  BY SMT DEF Listing
<1> HIDE DEF r
<1>2. CursorOf(r).ts = 0
  <2>1. CursorOf(r) = [ts |-> 0, id |-> <<>>]
    BY <1>1 DEF CursorOf
  <2> QED BY <2>1, SMT
<1>3. /\ q.project_id = p.id /\ q.action = r.action /\ q.actor = r.actor_filter
      /\ q.from = r.from /\ q.to = r.to /\ q.cursor_ts = CursorOf(r).ts
  BY SMT DEF LogQuery
<1> HIDE DEF q
<1>4. Selects(b, q, v)
  BY <1>1, <1>2, <1>3 DEF Selects
<1>5. 0 \in Nat
  BY SMT
<1> QED BY <1>1, <1>4, <1>5 DEF Lists, q, r
=============================================================================
