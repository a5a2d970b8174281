-------------------------------- MODULE Rpc --------------------------------
(***************************************************************************)
(* The Connect surface (internal/server/rpc): the handlers of Rest once    *)
(* more, on protobuf messages.  The status of a reply is its Connect code. *)
(* An enum value is named by the text it stands for, UNSPECIFIED by "";    *)
(* a nil Struct or Value is read as JSON null; on the wire an empty string *)
(* is no string.                                                           *)
(***************************************************************************)
EXTENDS Integers, Sequences, FiniteSets, Store, Config

NewResponse(msg, db) == [status |-> "ok", body |-> <<msg>>, db |-> db]
NewError(code, db) == [status |-> code, body |-> <<>>, db |-> db]
rpcBadRequest(db) == NewError("invalid_argument", db)

connectError(err, db) ==
    NewError(CASE err = "not_found" -> "not_found"
               [] IsConflict(err) -> "already_exists"
               [] OTHER -> "internal", db)

\* A lookup that fails answers the request.
OrError(found, db, Then(_)) ==
    IF found.err = "nil" THEN Then(found.val[1]) ELSE connectError(found.err, db)
rpcInProject(b, db, r, Then(_)) == OrError(storeGetProjectBySlug(b, db, r.slug), db, Then)
rpcOfFlag(b, db, r, Then(_, _)) ==
    rpcInProject(b, db, r, LAMBDA p :
        OrError(storeGetFlagByKey(b, db, p.id, r.key), db, LAMBDA f : Then(p, f)))

rpcEvent(project, flag, action, r, payload) ==
    [project_id |-> project, flag_id |-> flag, action |-> action,
     actor |-> r.actor, payload |-> <<Object(payload)>>]

\* WithAudit around a write that comes to w, and the answer that follows.
rpcWrite(b, db, ev, w, ToProto(_), e) ==
    LET Answer(t) == IF t.err = "nil" THEN NewResponse(ToProto(t.val[1]), t.db)
                     ELSE connectError(t.err, db)
    IN  Answer(storeWithAudit(b, db, ev, w, e))
-----------------------------------------------------------------------------
(* convert.go *)

\* What an enum does with a text it has no value for.
protoStrategy(s) == IF s \in {"json", "cel", "typescript"} THEN s ELSE ""
strategyFromProto(s) == IF s \in {"json", "cel", "typescript"} THEN s ELSE ""
protoValueType(t) == IF t \in {"boolean", "string", "number", "object"} THEN t ELSE ""
valueTypeFromProto(t) == IF t \in {"boolean", "string", "number", "object"} THEN t ELSE ""

decisionReasonToProto(t) ==
    IF t \in {"default", "rule_matched", "rollout_in_bucket", "rollout_out_of_bucket",
              "type_mismatch", "error"} THEN t ELSE ""

jsonRawToStruct(raw) ==
    IF raw = <<>> \/ raw[1].type # "object" THEN JsonNull ELSE raw[1]
jsonRawToValue(raw) == IF raw = <<>> THEN JsonNull ELSE raw[1]
structToJSONRaw(s) == IF s = JsonNull THEN <<EmptyObject>> ELSE <<s>>

projectToProto(p) ==
    [id |-> p.id, slug |-> p.slug, display_name |-> p.display_name,
     config_strategy |-> protoStrategy(p.config_strategy)]
environmentToProto(n) ==
    [id |-> n.id, project_id |-> n.project_id, slug |-> n.slug, name |-> n.name]
flagToProto(f) ==
    [f EXCEPT !.value_type = protoValueType(@), !.default_value = jsonRawToValue(@)]
flagVersionToProto(v) ==
    [v EXCEPT !.strategy = protoStrategy(@), !.source = jsonRawToStruct(@),
              !.compiled = jsonRawToStruct(@), !.source_text = Optional(@, "")]
segmentToProto(s) == [s EXCEPT !.predicate = jsonRawToStruct(@)]
snapshotToProto(s) == [s EXCEPT !.compiled = jsonRawToStruct(@)]
auditEventToProto(a) ==
    [a EXCEPT !.payload = jsonRawToStruct(@), !.actor = Optional(@, "")]
decisionToProto(d) ==
    [d EXCEPT !.reason = decisionReasonToProto(@), !.rule_id = Optional(@, "")]

traceNodeToProto[n \in TraceNode] ==
    [kind |-> n.kind, result |-> n.result, attr |-> Optional(n.attr, ""),
     attr_value |-> n.attr_value, expected |-> n.expected,
     expected_values |-> Optional(n.expected_values, <<>>),
     pattern |-> Optional(n.pattern, ""), salt |-> Optional(n.salt, ""),
     percent |-> Optional(n.percent, 0), bucket |-> Optional(n.bucket, 0),
     source |-> Optional(n.source, ""),
     children |-> Optional(Each(n.children, LAMBDA c : traceNodeToProto[c]), <<>>)]

traceToProto(t) ==
    [evaluated_rules |->
        Each(t.evaluated_rules, LAMBDA u :
            [u EXCEPT !.predicate = traceNodeToProto[@], !.error = Optional(@, "")]),
     default_used |-> t.default_used,
     matched_rule_id |-> Optional(t.matched_rule_id, "")]
-----------------------------------------------------------------------------
(* projects.go, environments.go *)

rpcListProjects(b, db, r) ==
    NewResponse([items |-> {projectToProto(p) : p \in storeListProjects(b, db)}], db)

rpcGetProject(b, db, r) ==
    rpcInProject(b, db, r, LAMBDA p : NewResponse(projectToProto(p), db))

rpcCreateProject(b, db, r, e) ==
    LET strategy == strategyFromProto(protoStrategy(r.strategy))
    IN  IF ~Valid(strategy) THEN rpcBadRequest(db)
        ELSE rpcWrite(b, db, rpcEvent(<<>>, <<>>, "create_project", r, [slug |-> r.slug]),
                   storeCreateProject(b, db, r.slug, r.name, strategy),
                   projectToProto, e)

rpcListEnvironments(b, db, r) ==
    rpcInProject(b, db, r, LAMBDA p :
        NewResponse([items |-> {environmentToProto(n) :
                            n \in storeListEnvironmentsByProject(b, db, p.id)}], db))

rpcGetEnvironment(b, db, r) ==
    rpcInProject(b, db, r, LAMBDA p :
        OrError(storeGetEnvironmentBySlug(b, db, p.id, r.environment), db,
                   LAMBDA n : NewResponse(environmentToProto(n), db)))

rpcCreateEnvironment(b, db, r, e) ==
    rpcInProject(b, db, r, LAMBDA p :
        rpcWrite(b, db, rpcEvent(<<p.id>>, <<>>, "create_environment", r,
                           [slug |-> r.environment]),
              storeCreateEnvironment(b, db, p.id, r.environment, r.name),
              environmentToProto, e))
-----------------------------------------------------------------------------
(* flags.go, segment_resolver.go *)

rpcListFlags(b, db, r) ==
    rpcInProject(b, db, r, LAMBDA p :
        NewResponse([items |-> {flagToProto(f) :
                            f \in storeListFlagsByProject(b, db, p.id)}], db))

rpcCreateFlag(b, db, r, e) ==
    rpcInProject(b, db, r, LAMBDA p :
        rpcWrite(b, db, rpcEvent(<<p.id>>, <<>>, "create_flag", r, [key |-> r.key]),
              storeCreateFlag(b, db,
                  [project_id |-> p.id, key |-> r.key, name |-> r.name,
                   description |-> r.description,
                   value_type |-> valueTypeFromProto(protoValueType(r.value_type)),
                   default_value |-> <<r.default_value>>]),
              flagToProto, e))

rpcGetFlag(b, db, r) ==
    rpcOfFlag(b, db, r, LAMBDA p, f :
        LET latest == storeGetLatestFlagVersion(b, db, f.id)
        IN  IF latest.err \notin {"nil", "not_found"} THEN connectError(latest.err, db)
            ELSE NewResponse([flag |-> flagToProto(f), latest_version |->
                                  Each(latest.val, flagVersionToProto)], db))

rpcResolveSegment(b, db, project, key) ==
    LET s == storeGetSegmentByKey(b, db, project, key)
    IN  [err |-> s.err, val |-> IF s.err = "nil" THEN <<s.val[1].predicate[1]>> ELSE <<>>]

rpcResolveSegmentRefs(b, db, project, input) ==
    ResolveSegments(input, rpcResolveSegment(b, db, project, SegmentOf(input)))

rpcPublishFlagVersion(b, db, r, e) ==
    rpcOfFlag(b, db, r, LAMBDA p, f :
        LET strategy == strategyFromProto(protoStrategy(r.strategy))
            fromText == strategy = "typescript" /\ r.source_text # ""
            sourceRaw == structToJSONRaw(r.source)
            input == IF fromText THEN [text |-> r.source_text] ELSE [json |-> sourceRaw[1]]
            resolved == rpcResolveSegmentRefs(b, db, p.id, input)
            compiled == Compile(strategy, resolved.val[1])
            published == storePublishFlagVersion(b, db,
                [flag_id |-> f.id, strategy |-> strategy,
                 source |-> IF fromText THEN compiled.val ELSE sourceRaw,
                 compiled |-> compiled.val, source_text |-> r.source_text])
        IN  CASE ~Valid(strategy) -> rpcBadRequest(db)
              [] Valid(strategy) /\ resolved.err # "nil" -> rpcBadRequest(db)
              [] OTHER ->
                 IF compiled.err # "nil" THEN NewError("invalid_argument", db)
                 ELSE rpcWrite(b, db, rpcEvent(<<p.id>>, <<f.id>>, "publish_version", r,
                                         [strategy |-> strategy, flag_key |-> f.key]),
                            published, flagVersionToProto, e))

rpcListFlagVersions(b, db, r) ==
    rpcOfFlag(b, db, r, LAMBDA p, f :
        NewResponse([items |-> Each(storeListFlagVersions(b, db, f.id),
                                    flagVersionToProto)], db))
-----------------------------------------------------------------------------
(* segments.go *)

\* A nil Struct reads as an empty map.
normalizePredicateBytes(s) ==
    LET d == structToJSONRaw(s)[1]
    IN  IF PredicateKind(d) = "segment" \/ ~ValidatePredicate(d)
        THEN [err |-> "invalid", val |-> <<>>]
        ELSE [err |-> "nil", val |-> <<d>>]

rpcListSegments(b, db, r) ==
    rpcInProject(b, db, r, LAMBDA p :
        NewResponse([items |-> {segmentToProto(s) :
                            s \in storeListSegmentsByProject(b, db, p.id)}], db))

rpcGetSegment(b, db, r) ==
    rpcInProject(b, db, r, LAMBDA p :
        OrError(storeGetSegmentByKey(b, db, p.id, r.key), db,
                   LAMBDA s : NewResponse(segmentToProto(s), db)))

rpcSegmentParams(p, r, predicate) ==
    [project_id |-> p.id, key |-> r.key, name |-> r.name,
     description |-> r.description, predicate |-> predicate]

rpcCreateSegment(b, db, r, e) ==
    rpcInProject(b, db, r, LAMBDA p :
        LET predicate == normalizePredicateBytes(r.predicate)
        IN  IF predicate.err # "nil" THEN rpcBadRequest(db)
            ELSE rpcWrite(b, db, rpcEvent(<<p.id>>, <<>>, "create_segment", r, [key |-> r.key]),
                       storeCreateSegment(b, db, rpcSegmentParams(p, r, predicate.val)),
                       segmentToProto, e))

rpcUpdateSegment(b, db, r, e) ==
    rpcInProject(b, db, r, LAMBDA p :
        LET predicate == normalizePredicateBytes(r.predicate)
        IN  IF predicate.err # "nil" THEN rpcBadRequest(db)
            ELSE rpcWrite(b, db, rpcEvent(<<p.id>>, <<>>, "update_segment", r, [key |-> r.key]),
                       storeUpdateSegment(b, db, rpcSegmentParams(p, r, predicate.val)),
                       segmentToProto, e))
-----------------------------------------------------------------------------
(* snapshots.go *)

rpcListSnapshots(b, db, r) ==
    rpcInProject(b, db, r, LAMBDA p :
        LET limit == IF r.limit <= 0 THEN 50 ELSE r.limit
        IN  NewResponse([items |-> Each(storeListSnapshotsByProject(b, db, p.id, limit),
                                           snapshotToProto)], db))

rpcGetLatestSnapshot(b, db, r) ==
    rpcInProject(b, db, r, LAMBDA p :
        OrError(storeGetLatestSnapshot(b, db, p.id), db,
                   LAMBDA s : NewResponse(snapshotToProto(s), db)))

\* The id is parsed after the project is found.
rpcGetSnapshot(b, db, r) ==
    rpcInProject(b, db, r, LAMBDA p :
        IF r.id = <<>> THEN rpcBadRequest(db)
        ELSE OrError(storeGetSnapshotByID(b, db, p.id, r.id), db,
                     LAMBDA s : NewResponse(snapshotToProto(s), db)))

rpcCompileBundle(b, db, project) ==
    LET latest == storeListLatestFlagVersions(b, db, project)
    IN  [flags |-> [k \in {l.flag_key : l \in latest} |->
                       (CHOOSE l \in latest : l.flag_key = k).compiled[1]]]

\* r.environment = "": no environment is selected.
rpcCompileSnapshot(b, db, r, e) ==
    rpcInProject(b, db, r, LAMBDA p :
        LET env == storeGetEnvironmentBySlug(b, db, p.id, r.environment)
            bundle == rpcCompileBundle(b, db, p.id)
            snapshot == storeCompileSnapshot(b, db,
                [project_id |-> p.id,
                 environment_id |-> IF r.environment = "" THEN <<>> ELSE <<env.val[1].id>>,
                 compiled |-> <<Object(bundle)>>])
        IN  IF r.environment # "" /\ env.err # "nil"
            THEN IF env.err = "not_found" THEN rpcBadRequest(db) ELSE connectError(env.err, db)
            ELSE rpcWrite(b, db, rpcEvent(<<p.id>>, <<>>, "compile_snapshot", r,
                                    [flag_count |-> Cardinality(DOMAIN bundle.flags)]),
                       snapshot, snapshotToProto, e))
-----------------------------------------------------------------------------
(* audit.go *)

\* Mutant: the filter on the actor is not passed on.
rpcListAuditEventsAnyActor(b, db, r) ==
    rpcInProject(b, db, r, LAMBDA p :
        LET limit == IF r.limit <= 0 THEN DefaultLimit ELSE r.limit
            rows == storeListAuditEvents(b, db,
                [project_id |-> p.id, action |-> r.action, actor |-> "",
                 from |-> r.from, to |-> r.to, cursor_ts |-> 0, cursor_id |-> <<>>,
                 limit |-> limit + 1])
            page == IF Len(rows) > limit THEN SubSeq(rows, 1, limit) ELSE rows
        IN  NewResponse([items |-> Each(page, auditEventToProto)], db))

\* The cursor of the request is not read, and no cursor is answered.
rpcListAuditEvents(b, db, r) ==
    rpcInProject(b, db, r, LAMBDA p :
        LET limit == IF r.limit <= 0 THEN DefaultLimit ELSE r.limit
            rows == storeListAuditEvents(b, db,
                [project_id |-> p.id, action |-> r.action, actor |-> r.actor_filter,
                 from |-> r.from, to |-> r.to, cursor_ts |-> 0, cursor_id |-> <<>>,
                 limit |-> limit + 1])
            page == IF Len(rows) > limit THEN SubSeq(rows, 1, limit) ELSE rows
        IN  NewResponse([items |-> Each(page, auditEventToProto)], db))
-----------------------------------------------------------------------------
(* evaluation.go *)

\* The compiled tree and its version, or the error that answers the request.
rpcLoadEvaluation(b, db, r) ==
    rpcOfFlag(b, db, r, LAMBDA p, f :
        OrError(storeGetLatestFlagVersion(b, db, f.id), db, LAMBDA v :
            LET compiled == Compile(v.strategy, [json |-> v.compiled[1]])
            IN  IF compiled.err # "nil" THEN NewError("internal", db)
                ELSE NewResponse([compiled |-> compiled.val[1], version |-> v.version], db)))

rpcOrLoadError(loaded, Then(_)) == IF loaded.body = <<>> THEN loaded ELSE Then(loaded.body[1])

rpcEvaluate(b, db, r) ==
    rpcOrLoadError(rpcLoadEvaluation(b, db, r), LAMBDA l :
        NewResponse(decisionToProto(Evaluate(l.compiled, r.context, l.version)), db))

rpcEvaluateWithTrace(b, db, r) ==
    rpcOrLoadError(rpcLoadEvaluation(b, db, r), LAMBDA l :
        LET t == EvaluateWithTrace(l.compiled, r.context, l.version)
        IN  NewResponse([decision |-> decisionToProto(t.decision),
                         trace |-> traceToProto(t.trace)], db))
-----------------------------------------------------------------------------
(* server.go *)

Mount(b, db, r, e) ==
    CASE r.op = "ListProjects" -> rpcListProjects(b, db, r)
      [] r.op = "GetProject" -> rpcGetProject(b, db, r)
      [] r.op = "CreateProject" -> rpcCreateProject(b, db, r, e)
      [] r.op = "ListEnvironments" -> rpcListEnvironments(b, db, r)
      [] r.op = "GetEnvironment" -> rpcGetEnvironment(b, db, r)
      [] r.op = "CreateEnvironment" -> rpcCreateEnvironment(b, db, r, e)
      [] r.op = "ListFlags" -> rpcListFlags(b, db, r)
      [] r.op = "GetFlag" -> rpcGetFlag(b, db, r)
      [] r.op = "CreateFlag" -> rpcCreateFlag(b, db, r, e)
      [] r.op = "PublishFlagVersion" -> rpcPublishFlagVersion(b, db, r, e)
      [] r.op = "ListFlagVersions" -> rpcListFlagVersions(b, db, r)
      [] r.op = "ListSegments" -> rpcListSegments(b, db, r)
      [] r.op = "GetSegment" -> rpcGetSegment(b, db, r)
      [] r.op = "CreateSegment" -> rpcCreateSegment(b, db, r, e)
      [] r.op = "UpdateSegment" -> rpcUpdateSegment(b, db, r, e)
      [] r.op = "ListSnapshots" -> rpcListSnapshots(b, db, r)
      [] r.op = "GetLatestSnapshot" -> rpcGetLatestSnapshot(b, db, r)
      [] r.op = "GetSnapshot" -> rpcGetSnapshot(b, db, r)
      [] r.op = "CompileSnapshot" -> rpcCompileSnapshot(b, db, r, e)
      [] r.op = "ListAuditEvents" -> rpcListAuditEvents(b, db, r)
      [] r.op = "Evaluate" -> rpcEvaluate(b, db, r)
      [] r.op = "EvaluateWithTrace" -> rpcEvaluateWithTrace(b, db, r)
=============================================================================
