-------------------------------- MODULE Rest --------------------------------
(***************************************************************************)
(* The REST surface (internal/server/handlers).  A handler takes the       *)
(* backend, the database, the request and its environment, and comes back  *)
(* with a status, a body (<<>> when it answers with an error) and the      *)
(* database.  A handler is one step here: ControlPlane models how requests *)
(* interleave between their statements.  Requests are the ones whose body  *)
(* decodes; an optional field of a body is <<>> or <<value>>.              *)
(***************************************************************************)
EXTENDS Integers, Sequences, FiniteSets, Store, Config

writeJSON(status, body, db) == [status |-> status, body |-> <<body>>, db |-> db]
writeError(status, db) == [status |-> status, body |-> <<>>, db |-> db]
badRequest(db) == writeError(400, db)

notFoundOrError(err, db) == writeError(IF err = "not_found" THEN 404 ELSE 500, db)

writeStoreErr(err, db) ==
    writeError(CASE err = "not_found" -> 404
                 [] IsConflict(err) -> 409
                 [] OTHER -> 500, db)

\* A lookup that fails answers the request.
OrNotFound(found, db, Then(_)) ==
    IF found.err = "nil" THEN Then(found.val[1]) ELSE notFoundOrError(found.err, db)
InProject(b, db, r, Then(_)) == OrNotFound(storeGetProjectBySlug(b, db, r.slug), db, Then)
OfFlag(b, db, r, Then(_, _)) ==
    InProject(b, db, r, LAMBDA p :
        OrNotFound(storeGetFlagByKey(b, db, p.id, r.key), db, LAMBDA f : Then(p, f)))

Event(project, flag, action, r, payload) ==
    [project_id |-> project, flag_id |-> flag, action |-> action,
     actor |-> r.actor, payload |-> <<Object(payload)>>]

\* WithAudit around a write that comes to w, and the answer that follows.
Write(b, db, ev, w, status, ToAPI(_), e) ==
    LET Answer(t) == IF t.err = "nil" THEN writeJSON(status, ToAPI(t.val[1]), t.db)
                     ELSE writeStoreErr(t.err, db)
    IN  Answer(storeWithAudit(b, db, ev, w, e))
-----------------------------------------------------------------------------
(* convert.go *)

rawToAny(raw) == IF raw = <<>> THEN JsonNull ELSE raw[1]

projectToAPI(p) ==
    [id |-> p.id, slug |-> p.slug, display_name |-> p.display_name,
     config_strategy |-> p.config_strategy]
environmentToAPI(n) ==
    [id |-> n.id, project_id |-> n.project_id, slug |-> n.slug, name |-> n.name]
flagToAPI(f) == [f EXCEPT !.default_value = rawToAny(@)]
flagVersionToAPI(v) ==
    [v EXCEPT !.source = rawToAny(@), !.compiled = rawToAny(@),
              !.source_text = Optional(@, "")]
segmentToAPI(s) == [s EXCEPT !.predicate = rawToAny(@)]
snapshotToAPI(s) == [s EXCEPT !.compiled = rawToAny(@)]
auditEventToAPI(a) == [a EXCEPT !.payload = rawToAny(@), !.actor = Optional(@, "")]
decisionToAPI(d) == [d EXCEPT !.rule_id = Optional(@, "")]

traceNodeToAPI[n \in TraceNode] ==
    [kind |-> n.kind, result |-> n.result, attr |-> Optional(n.attr, ""),
     attr_value |-> n.attr_value, expected |-> n.expected,
     expected_values |-> Optional(n.expected_values, <<>>),
     pattern |-> Optional(n.pattern, ""), salt |-> Optional(n.salt, ""),
     percent |-> Optional(n.percent, 0), bucket |-> Optional(n.bucket, 0),
     source |-> Optional(n.source, ""),
     children |-> Optional(Each(n.children, LAMBDA c : traceNodeToAPI[c]), <<>>)]

traceToAPI(t) ==
    [evaluated_rules |->
        Each(t.evaluated_rules, LAMBDA u :
            [u EXCEPT !.predicate = traceNodeToAPI[@], !.error = Optional(@, "")]),
     default_used |-> t.default_used,
     matched_rule_id |-> Optional(t.matched_rule_id, "")]
-----------------------------------------------------------------------------
(* projects.go, environments.go *)

ListProjects(b, db, r) ==
    writeJSON(200, [items |-> {projectToAPI(p) : p \in storeListProjects(b, db)}], db)

GetProject(b, db, r) ==
    InProject(b, db, r, LAMBDA p : writeJSON(200, projectToAPI(p), db))

CreateProject(b, db, r, e) ==
    IF ~Valid(r.strategy) THEN badRequest(db)
    ELSE Write(b, db, Event(<<>>, <<>>, "create_project", r, [slug |-> r.slug]),
               storeCreateProject(b, db, r.slug, r.name, r.strategy),
               201, projectToAPI, e)

ListEnvironments(b, db, r) ==
    InProject(b, db, r, LAMBDA p :
        writeJSON(200, [items |-> {environmentToAPI(n) :
                            n \in storeListEnvironmentsByProject(b, db, p.id)}], db))

GetEnvironment(b, db, r) ==
    InProject(b, db, r, LAMBDA p :
        OrNotFound(storeGetEnvironmentBySlug(b, db, p.id, r.environment), db,
                   LAMBDA n : writeJSON(200, environmentToAPI(n), db)))

CreateEnvironment(b, db, r, e) ==
    InProject(b, db, r, LAMBDA p :
        Write(b, db, Event(<<p.id>>, <<>>, "create_environment", r,
                           [slug |-> r.environment]),
              storeCreateEnvironment(b, db, p.id, r.environment, r.name),
              201, environmentToAPI, e))
-----------------------------------------------------------------------------
(* flags.go, segment_resolver.go *)

ListFlags(b, db, r) ==
    InProject(b, db, r, LAMBDA p :
        writeJSON(200, [items |-> {flagToAPI(f) :
                            f \in storeListFlagsByProject(b, db, p.id)}], db))

CreateFlag(b, db, r, e) ==
    InProject(b, db, r, LAMBDA p :
        Write(b, db, Event(<<p.id>>, <<>>, "create_flag", r, [key |-> r.key]),
              storeCreateFlag(b, db,
                  [project_id |-> p.id, key |-> r.key, name |-> r.name,
                   description |-> r.description, value_type |-> r.value_type,
                   default_value |-> <<r.default_value>>]),
              201, flagToAPI, e))

GetFlag(b, db, r) ==
    OfFlag(b, db, r, LAMBDA p, f :
        LET latest == storeGetLatestFlagVersion(b, db, f.id)
        IN  IF latest.err \notin {"nil", "not_found"} THEN writeError(500, db)
            ELSE writeJSON(200, [flag |-> flagToAPI(f), latest_version |->
                                     Each(latest.val, flagVersionToAPI)], db))

ResolveSegment(b, db, project, key) ==
    LET s == storeGetSegmentByKey(b, db, project, key)
    IN  [err |-> s.err, val |-> IF s.err = "nil" THEN <<s.val[1].predicate[1]>> ELSE <<>>]

resolveSegmentRefs(b, db, project, input) ==
    ResolveSegments(input, ResolveSegment(b, db, project, SegmentOf(input)))

PublishFlagVersion(b, db, r, e) ==
    OfFlag(b, db, r, LAMBDA p, f :
        LET fromText == r.strategy = "typescript" /\ r.source_text # ""
            sourceRaw == <<r.source>>
            input == IF fromText THEN [text |-> r.source_text] ELSE [json |-> r.source]
            resolved == resolveSegmentRefs(b, db, p.id, input)
            compiled == Compile(r.strategy, resolved.val[1])
            published == storePublishFlagVersion(b, db,
                [flag_id |-> f.id, strategy |-> r.strategy,
                 source |-> IF fromText THEN compiled.val ELSE sourceRaw,
                 compiled |-> compiled.val, source_text |-> r.source_text])
        IN  CASE ~Valid(r.strategy) -> badRequest(db)
              [] Valid(r.strategy) /\ resolved.err # "nil" -> badRequest(db)
              [] OTHER ->
                 IF compiled.err # "nil" THEN writeError(422, db)
                 ELSE Write(b, db, Event(<<p.id>>, <<f.id>>, "publish_version", r,
                                         [strategy |-> r.strategy, flag_key |-> f.key]),
                            published, 200, flagVersionToAPI, e))

ListFlagVersions(b, db, r) ==
    OfFlag(b, db, r, LAMBDA p, f :
        writeJSON(200, [items |-> Each(storeListFlagVersions(b, db, f.id),
                                       flagVersionToAPI)], db))
-----------------------------------------------------------------------------
(* segments.go *)

normalizePredicate(d) ==
    IF d = JsonNull \/ PredicateKind(d) = "segment" \/ ~ValidatePredicate(d)
    THEN [err |-> "invalid", val |-> <<>>]
    ELSE [err |-> "nil", val |-> <<d>>]

ListSegments(b, db, r) ==
    InProject(b, db, r, LAMBDA p :
        writeJSON(200, [items |-> {segmentToAPI(s) :
                            s \in storeListSegmentsByProject(b, db, p.id)}], db))

GetSegment(b, db, r) ==
    InProject(b, db, r, LAMBDA p :
        OrNotFound(storeGetSegmentByKey(b, db, p.id, r.key), db,
                   LAMBDA s : writeJSON(200, segmentToAPI(s), db)))

SegmentParams(p, r, predicate) ==
    [project_id |-> p.id, key |-> r.key, name |-> r.name,
     description |-> r.description, predicate |-> predicate]

CreateSegment(b, db, r, e) ==
    InProject(b, db, r, LAMBDA p :
        LET predicate == normalizePredicate(r.predicate)
        IN  IF predicate.err # "nil" THEN badRequest(db)
            ELSE Write(b, db, Event(<<p.id>>, <<>>, "create_segment", r, [key |-> r.key]),
                       storeCreateSegment(b, db, SegmentParams(p, r, predicate.val)),
                       201, segmentToAPI, e))

UpdateSegment(b, db, r, e) ==
    InProject(b, db, r, LAMBDA p :
        LET predicate == normalizePredicate(r.predicate)
        IN  IF predicate.err # "nil" THEN badRequest(db)
            ELSE Write(b, db, Event(<<p.id>>, <<>>, "update_segment", r, [key |-> r.key]),
                       storeUpdateSegment(b, db, SegmentParams(p, r, predicate.val)),
                       200, segmentToAPI, e))
-----------------------------------------------------------------------------
(* snapshots.go *)

\* r.limit = 0: the parameter is absent.
ListSnapshots(b, db, r) ==
    InProject(b, db, r, LAMBDA p :
        LET limit == IF r.limit = 0 THEN 50 ELSE r.limit
        IN  writeJSON(200, [items |-> Each(storeListSnapshotsByProject(b, db, p.id, limit),
                                           snapshotToAPI)], db))

GetLatestSnapshot(b, db, r) ==
    InProject(b, db, r, LAMBDA p :
        OrNotFound(storeGetLatestSnapshot(b, db, p.id), db,
                   LAMBDA s : writeJSON(200, snapshotToAPI(s), db)))

\* The generated router binds the id before the handler runs; <<>> is a
\* text that is no UUID.
GetSnapshot(b, db, r) ==
    IF r.id = <<>> THEN badRequest(db)
    ELSE InProject(b, db, r, LAMBDA p :
             OrNotFound(storeGetSnapshotByID(b, db, p.id, r.id), db,
                        LAMBDA s : writeJSON(200, snapshotToAPI(s), db)))

compileBundle(b, db, project) ==
    LET latest == storeListLatestFlagVersions(b, db, project)
    IN  [flags |-> [k \in {l.flag_key : l \in latest} |->
                       (CHOOSE l \in latest : l.flag_key = k).compiled[1]]]

\* r.environment = "": no environment is selected.
CompileSnapshot(b, db, r, e) ==
    InProject(b, db, r, LAMBDA p :
        LET env == storeGetEnvironmentBySlug(b, db, p.id, r.environment)
            bundle == compileBundle(b, db, p.id)
            snapshot == storeCompileSnapshot(b, db,
                [project_id |-> p.id,
                 environment_id |-> IF r.environment = "" THEN <<>> ELSE <<env.val[1].id>>,
                 compiled |-> <<Object(bundle)>>])
        IN  IF r.environment # "" /\ env.err # "nil"
            THEN IF env.err = "not_found" THEN badRequest(db) ELSE writeError(500, db)
            ELSE Write(b, db, Event(<<p.id>>, <<>>, "compile_snapshot", r,
                                    [flag_count |-> Cardinality(DOMAIN bundle.flags)]),
                       snapshot, 201, snapshotToAPI, e))
-----------------------------------------------------------------------------
(* audit.go *)

\* The text of a cursor carries the time in full.
encodeAuditCursor(ts, id) == [ts |-> ts, id |-> id]
decodeAuditCursor(c) ==
    IF {"ts", "id"} \subseteq DOMAIN c THEN [err |-> "nil", val |-> <<c>>]
    ELSE [err |-> "invalid", val |-> <<>>]

\* Mutant: the cursor names the first event of the next page.
ListAuditEventsSkips(b, db, r) ==
    InProject(b, db, r, LAMBDA p :
        LET from == IF r.cursor = <<>> THEN [ts |-> 0, id |-> <<>>] ELSE r.cursor[1]
            rows == storeListAuditEvents(b, db,
                [project_id |-> p.id, action |-> "", actor |-> "", from |-> 0, to |-> 0,
                 cursor_ts |-> from.ts, cursor_id |-> from.id, limit |-> r.limit + 1])
        IN  IF Len(rows) <= r.limit
            THEN writeJSON(200, [items |-> Each(rows, auditEventToAPI),
                                 next_cursor |-> <<>>], db)
            ELSE writeJSON(200,
                [items |-> Each(SubSeq(rows, 1, r.limit), auditEventToAPI),
                 next_cursor |-> <<encodeAuditCursor(rows[r.limit + 1].created_at,
                                                     rows[r.limit + 1].id)>>], db))

\* r.limit = 0: the parameter is absent.
ListAuditEvents(b, db, r) ==
    InProject(b, db, r, LAMBDA p :
        LET limit == IF r.limit = 0 THEN DefaultLimit ELSE r.limit
            cursor == IF r.cursor = <<>>
                      THEN [err |-> "nil", val |-> <<[ts |-> 0, id |-> <<>>]>>]
                      ELSE decodeAuditCursor(r.cursor[1])
            rows == storeListAuditEvents(b, db,
                [project_id |-> p.id, action |-> r.action, actor |-> r.actor_filter,
                 from |-> r.from, to |-> r.to, cursor_ts |-> cursor.val[1].ts,
                 cursor_id |-> cursor.val[1].id, limit |-> limit + 1])
        IN  IF cursor.err # "nil" THEN badRequest(db)
            ELSE IF Len(rows) <= limit
            THEN writeJSON(200, [items |-> Each(rows, auditEventToAPI),
                                 next_cursor |-> <<>>], db)
            ELSE writeJSON(200,
                [items |-> Each(SubSeq(rows, 1, limit), auditEventToAPI),
                 next_cursor |-> <<encodeAuditCursor(rows[limit].created_at,
                                                     rows[limit].id)>>], db))
-----------------------------------------------------------------------------
(* evaluate.go *)

\* The compiled tree and its version, or the error that answers the request.
loadEvaluation(b, db, r) ==
    OfFlag(b, db, r, LAMBDA p, f :
        OrNotFound(storeGetLatestFlagVersion(b, db, f.id), db, LAMBDA v :
            LET compiled == Compile(v.strategy, [json |-> v.compiled[1]])
            IN  IF compiled.err # "nil" THEN writeError(500, db)
                ELSE writeJSON(200, [compiled |-> compiled.val[1], version |-> v.version], db)))

OrLoadError(loaded, Then(_)) == IF loaded.body = <<>> THEN loaded ELSE Then(loaded.body[1])

EvaluateFlag(b, db, r) ==
    OrLoadError(loadEvaluation(b, db, r), LAMBDA l :
        writeJSON(200, decisionToAPI(Evaluate(l.compiled, r.context, l.version)), db))

EvaluateFlagWithTrace(b, db, r) ==
    OrLoadError(loadEvaluation(b, db, r), LAMBDA l :
        LET t == EvaluateWithTrace(l.compiled, r.context, l.version)
        IN  writeJSON(200, [decision |-> decisionToAPI(t.decision),
                            trace |-> traceToAPI(t.trace)], db))
-----------------------------------------------------------------------------
(* server.go *)

restRoutes(b, db, r, e) ==
    CASE r.op = "ListProjects" -> ListProjects(b, db, r)
      [] r.op = "GetProject" -> GetProject(b, db, r)
      [] r.op = "CreateProject" -> CreateProject(b, db, r, e)
      [] r.op = "ListEnvironments" -> ListEnvironments(b, db, r)
      [] r.op = "GetEnvironment" -> GetEnvironment(b, db, r)
      [] r.op = "CreateEnvironment" -> CreateEnvironment(b, db, r, e)
      [] r.op = "ListFlags" -> ListFlags(b, db, r)
      [] r.op = "GetFlag" -> GetFlag(b, db, r)
      [] r.op = "CreateFlag" -> CreateFlag(b, db, r, e)
      [] r.op = "PublishFlagVersion" -> PublishFlagVersion(b, db, r, e)
      [] r.op = "ListFlagVersions" -> ListFlagVersions(b, db, r)
      [] r.op = "ListSegments" -> ListSegments(b, db, r)
      [] r.op = "GetSegment" -> GetSegment(b, db, r)
      [] r.op = "CreateSegment" -> CreateSegment(b, db, r, e)
      [] r.op = "UpdateSegment" -> UpdateSegment(b, db, r, e)
      [] r.op = "ListSnapshots" -> ListSnapshots(b, db, r)
      [] r.op = "GetLatestSnapshot" -> GetLatestSnapshot(b, db, r)
      [] r.op = "GetSnapshot" -> GetSnapshot(b, db, r)
      [] r.op = "CompileSnapshot" -> CompileSnapshot(b, db, r, e)
      [] r.op = "ListAuditEvents" -> ListAuditEvents(b, db, r)
      [] r.op = "Evaluate" -> EvaluateFlag(b, db, r)
      [] r.op = "EvaluateWithTrace" -> EvaluateFlagWithTrace(b, db, r)
=============================================================================
