---------------------------- MODULE WriteProofs -----------------------------
(***************************************************************************)
(* REST and Connect answer every write alike and leave the same rows       *)
(* behind: those of the contents that the API promises. Backends whose     *)
(* contents no request tells apart answer alike and stay so, through       *)
(* either surface.                                                         *)
(***************************************************************************)
EXTENDS ReadProofs

USE ZenonT(30)
-----------------------------------------------------------------------------
(* Writes *)

\* What a row of table t is shown as.
ToAPI(t, x) ==
    CASE t = "projects" -> projectToAPI(x)
      [] t = "environments" -> environmentToAPI(x)
      [] t = "flags" -> flagToAPI(x)
      [] t = "versions" -> flagVersionToAPI(x)
      [] t = "segments" -> segmentToAPI(x)
      [] t = "snapshots" -> snapshotToAPI(x)
ToProto(t, x) ==
    CASE t = "projects" -> projectToProto(x)
      [] t = "environments" -> environmentToProto(x)
      [] t = "flags" -> flagToProto(x)
      [] t = "versions" -> flagVersionToProto(x)
      [] t = "segments" -> segmentToProto(x)
      [] t = "snapshots" -> snapshotToProto(x)

\* A write of table t that comes to w, with its event, and what the surfaces
\* answer when the store's write comes to v.
apiWrite(b, a, t, ev, w, status, e) ==
    LET z == Audited(b, a, ev, w, e)
    IN  Outcome(z, status, ToAPI(t, z.val[1]))
RestWrite(b, d, t, ev, v, status, e) ==
    LET k == storeWithAudit(b, d, ev, v, e)
    IN  RestAnswer(k, status, ToAPI(t, k.val[1]), d)
RpcWrite(b, d, t, ev, v, e) ==
    LET k == storeWithAudit(b, d, ev, v, e)
    IN  RpcAnswer(k, ToProto(t, k.val[1]), d)

\* What the store may add to a write: an id, and the times of the transaction.
EnvironOK(e) == e.id \in Nat /\ e.start \in Nat \ {0} /\ e.now \in Nat \ {0}

\* An object looks the same over both surfaces, whatever its table.
LEMMA RowShape ==
    ASSUME NEW b, NEW t \in Shapes, NEW x, OK(b, t, x)
    PROVE  ToAPI(t, x) = ToProto(t, x) /\ "next_cursor" \notin DOMAIN ToAPI(t, x)
<1>1. CASE t = "projects"
  <2>1. ToAPI(t, x) = projectToAPI(x) /\ ToProto(t, x) = projectToProto(x) /\ ProjectOK(x)
    BY <1>1 DEF ToAPI, ToProto, OK
  <2> QED BY <2>1, ProjectShape
<1>2. CASE t = "environments"
  <2>1. /\ ToAPI(t, x) = environmentToAPI(x)
        /\ ToProto(t, x) = environmentToProto(x)
        /\ EnvironmentOK(x)
    BY <1>2 DEF ToAPI, ToProto, OK
  <2> QED BY <2>1, EnvironmentShape
<1>3. CASE t = "flags"
  <2>1. ToAPI(t, x) = flagToAPI(x) /\ ToProto(t, x) = flagToProto(x) /\ FlagOK(x)
    BY <1>3 DEF ToAPI, ToProto, OK
  <2> QED BY <2>1, FlagShape
<1>4. CASE t = "versions"
  <2>1. /\ ToAPI(t, x) = flagVersionToAPI(x)
        /\ ToProto(t, x) = flagVersionToProto(x)
        /\ VersionOK(x)
    BY <1>4 DEF ToAPI, ToProto, OK
  <2> QED BY <2>1, VersionShape
<1>5. CASE t = "segments"
  <2>1. ToAPI(t, x) = segmentToAPI(x) /\ ToProto(t, x) = segmentToProto(x) /\ SegmentOK(x)
    BY <1>5 DEF ToAPI, ToProto, OK
  <2> QED BY <2>1, SegmentShape
<1>6. CASE t = "snapshots"
  <2>1. ToAPI(t, x) = snapshotToAPI(x) /\ ToProto(t, x) = snapshotToProto(x) /\ SnapshotOK(x)
    BY <1>6 DEF ToAPI, ToProto, OK
  <2> QED BY <2>1, SnapshotShape
<1> QED BY <1>1, <1>2, <1>3, <1>4, <1>5, <1>6 DEF Shapes

\* v is what the store's write of table t comes to, with status s and event ev.
WriteInput(b, t, w, v, ev, e, s) ==
    /\ t \in Shapes /\ s \in {200, 201}
    /\ WriteOK(b, t, w) /\ v = Kept(b, w)
    /\ EventInputOK(ev, e)

\* A write that the store makes with its audit event is answered alike.
LEMMA Writes ==
    ASSUME StoreContract, NEW b, NEW a, ContentsOK(b, a), NEW t, NEW w, NEW v, NEW ev, NEW e,
           NEW s,
           WriteInput(b, t, w, v, ev, e, s)
    PROVE  Answered(b, apiWrite(b, a, t, ev, w, s, e), RestWrite(b, Rows(b, a), t, ev, v, s, e),
                    RpcWrite(b, Rows(b, a), t, ev, v, e))
<1> DEFINE z == Audited(b, a, ev, w, e)
           d == Rows(b, a)
           k == storeWithAudit(b, d, ev, v, e)
           x == ToAPI(t, z.val[1])
           y == ToProto(t, z.val[1])
<1>1. k = Kept(b, z) /\ WriteOK(b, t, z)
  <2>1. /\ storeWithAudit(b, d, ev, Kept(b, w), e) = Kept(b, z)
        /\ WriteOK(b, t, z)
    BY DEF StoreContract, WritesContents, ComesTo, WriteInput
  <2> HIDE DEF z
  <2> QED BY <2>1 DEF WriteInput
<1>2. z.err # "nil" => z.a = a
  BY SMT DEF Audited, Refusal
<1>3. k.val = z.val
  <2> HIDE DEF k, z
  <2> QED BY <1>1, SMT DEF Kept
<1>4. /\ apiWrite(b, a, t, ev, w, s, e) = Outcome(z, s, x)
      /\ RestWrite(b, d, t, ev, v, s, e) = RestAnswer(k, s, ToAPI(t, k.val[1]), d)
      /\ RpcWrite(b, d, t, ev, v, e) = RpcAnswer(k, ToProto(t, k.val[1]), d)
  BY DEF apiWrite, RestWrite, RpcWrite
<1> HIDE DEF k, z
<1>5. z.err = "nil" => x = y /\ "next_cursor" \notin DOMAIN x
  <2> DEFINE u == z.val[1]
  <2>1. z.err = "nil" => OK(b, t, u)
    BY <1>1 DEF WriteOK
  <2> HIDE DEF u
  <2>2. OK(b, t, u) => ToAPI(t, u) = ToProto(t, u) /\ "next_cursor" \notin DOMAIN ToAPI(t, u)
    BY RowShape DEF WriteInput
  <2> QED BY <2>1, <2>2 DEF u
<1>6. ContentsOK(b, z.a)
  BY <1>1 DEF WriteOK
<1> HIDE DEF x, y, d
<1>7. Answered(b, Outcome(z, s, x), RestAnswer(Kept(b, z), s, x, Rows(b, a)),
               RpcAnswer(Kept(b, z), y, Rows(b, a)))
  BY <1>2, <1>5, <1>6, Outcomes, SMT DEF WriteInput
<1> QED BY <1>1, <1>3, <1>4, <1>7 DEF x, y, d

\* Sequences of at most one element.
LEMMA Singles ==
    ASSUME NEW x
    PROVE  Single(<<x>>) /\ OneOrNone(<<x>>) /\ OneOrNone(<<>>) /\ <<x>>[1] = x
<1>1. <<x>>[1] = x
  BY SMT
<1> QED BY <1>1 DEF Single, OneOrNone

\* An encoded object is a raw JSON object.
LEMMA Objecting ==
    ASSUME NEW x
    PROVE  RawObject(<<Object(x)>>)
<1>1. Object(x).type = "object"
  BY SMT DEF Object
<1> QED BY <1>1, Singles DEF RawObject

\* Both surfaces record the same event, one the log can hold.
LEMMA Eventful ==
    ASSUME NEW project, NEW flag, OneOrNone(project), OneOrNone(flag), NEW action, NEW r,
           NEW payload, NEW e, EnvironOK(e)
    PROVE  /\ EventInputOK(Event(project, flag, action, r, payload), e)
           /\ rpcEvent(project, flag, action, r, payload)
                = Event(project, flag, action, r, payload)
<1> DEFINE ev == Event(project, flag, action, r, payload)
           o == Object(payload)
<1>1. ev.project_id = project /\ ev.flag_id = flag /\ ev.payload = <<o>>
  <2> HIDE DEF o
  <2>1. ev = [project_id |-> project, flag_id |-> flag, action |-> action, actor |-> r.actor,
              payload |-> <<o>>]
    BY DEF Event, o
  <2> HIDE DEF ev
  <2> QED BY <2>1, SMT
<1>2. RawObject(<<o>>)
  BY Objecting
<1> HIDE DEF ev, o
<1>3. EventInputOK(ev, e)
  BY <1>1, <1>2 DEF EventInputOK, EnvironOK
<1> QED BY <1>3 DEF ev, Event, rpcEvent

\* The writes.
apiCreateProject(b, a, r, e) ==
    IF ~Valid(r.strategy) THEN Refuse(400, a)
    ELSE apiWrite(b, a, "projects", Event(<<>>, <<>>, "create_project", r, [slug |-> r.slug]),
                  NewProject(a, r.slug, r.name, r.strategy), 201, e)
apiCreateEnvironment(b, a, r, e) ==
    ForProject(a, r, LAMBDA p :
        apiWrite(b, a, "environments",
                 Event(<<p.id>>, <<>>, "create_environment", r, [slug |-> r.environment]),
                 NewEnvironment(a, p.id, r.environment, r.name), 201, e))
FlagParams(p, r, type) ==
    [project_id |-> p.id, key |-> r.key, name |-> r.name, description |-> r.description,
     value_type |-> type, default_value |-> <<r.default_value>>]
apiCreateFlag(b, a, r, e) ==
    ForProject(a, r, LAMBDA p :
        apiWrite(b, a, "flags", Event(<<p.id>>, <<>>, "create_flag", r, [key |-> r.key]),
                 NewFlag(a, FlagParams(p, r, r.value_type)), 201, e))

\* POST /projects and CreateProject answer alike and leave the same rows.
LEMMA CreatesTheProject ==
    ASSUME StoreContract, NEW b, NEW a, ContentsOK(b, a), NEW r, NEW e, EnvironOK(e)
    PROVE  Answered(b, apiCreateProject(b, a, r, e),
                    CreateProject(b, Rows(b, a), r, e),
                    rpcCreateProject(b, Rows(b, a), r, e))
<1> DEFINE d == Rows(b, a)
           ev == Event(<<>>, <<>>, "create_project", r, [slug |-> r.slug])
           w == NewProject(a, r.slug, r.name, r.strategy)
           v == storeCreateProject(b, d, r.slug, r.name, r.strategy)
           strategy == strategyFromProto(protoStrategy(r.strategy))
<1>1. CASE ~Valid(r.strategy)
  <2>1. ~Valid(strategy)
    BY <1>1 DEF Valid, strategyFromProto, protoStrategy
  <2>2. /\ CreateProject(b, d, r, e) = badRequest(d)
        /\ rpcCreateProject(b, d, r, e) = rpcBadRequest(d)
        /\ apiCreateProject(b, a, r, e) = Reply(400, <<>>, a)
    BY <1>1, <2>1 DEF CreateProject, rpcCreateProject, apiCreateProject, Refuse
  <2> QED BY <2>2, BadRequests
<1>2. CASE Valid(r.strategy)
  <2>1. strategy = r.strategy
    BY <1>2 DEF Valid, strategyFromProto, protoStrategy
  <2>2. CreateProject(b, d, r, e) = RestWrite(b, d, "projects", ev, v, 201, e)
    <3> HIDE DEF d
    <3> QED BY <1>2 DEF CreateProject, Write, RestWrite, RestAnswer, ToAPI
  <2>3. rpcCreateProject(b, d, r, e) = RpcWrite(b, d, "projects", ev, v, e)
    <3>1. rpcEvent(<<>>, <<>>, "create_project", r, [slug |-> r.slug]) = ev
      BY DEF Event, rpcEvent
    <3> HIDE DEF d, ev
    <3> QED BY <1>2, <2>1, <3>1 DEF rpcCreateProject, rpcWrite, RpcWrite, RpcAnswer, ToProto
  <2>4. apiCreateProject(b, a, r, e) = apiWrite(b, a, "projects", ev, w, 201, e)
    BY <1>2 DEF apiCreateProject
  <2>5. v = Kept(b, w) /\ WriteOK(b, "projects", w)
    BY DEF StoreContract, WritesContents, ComesTo
  <2>6. EventInputOK(ev, e)
    BY Singles, Eventful
  <2> HIDE DEF ev, w, v
  <2>7. WriteInput(b, "projects", w, v, ev, e, 201)
    BY <2>5, <2>6 DEF WriteInput, Shapes
  <2>8. Answered(b, apiWrite(b, a, "projects", ev, w, 201, e),
                 RestWrite(b, Rows(b, a), "projects", ev, v, 201, e),
                 RpcWrite(b, Rows(b, a), "projects", ev, v, e))
    BY <2>7, Writes
  <2> QED BY <2>2, <2>3, <2>4, <2>8
<1> QED BY <1>1, <1>2

\* So do POST /projects/{slug}/environments and CreateEnvironment.
LEMMA CreatesTheEnvironment ==
    ASSUME StoreContract, NEW b, NEW a, ContentsOK(b, a), NEW r, NEW e, EnvironOK(e)
    PROVE  Answered(b, apiCreateEnvironment(b, a, r, e),
                    CreateEnvironment(b, Rows(b, a), r, e),
                    rpcCreateEnvironment(b, Rows(b, a), r, e))
<1> DEFINE d == Rows(b, a)
<1> DEFINE found == ProjectBy(a, r.slug)
           p == found.val[1]
<1>1. storeGetProjectBySlug(b, d, r.slug) = found
  BY FindsProject
<1>2. FoundIn(b, "projects", found)
  BY FindsProject
<1> HIDE DEF found
<1>3. CASE found.err # "nil"
  <2>1. found.err = "not_found"
    BY <1>2, <1>3 DEF FoundIn
  <2>2. /\ CreateEnvironment(b, d, r, e) = notFoundOrError("not_found", d)
        /\ rpcCreateEnvironment(b, d, r, e) = connectError("not_found", d)
        /\ apiCreateEnvironment(b, a, r, e) = Reply(404, <<>>, a)
    <3> HIDE DEF d
    <3> QED BY <1>1, <1>3, <2>1, SMT DEF CreateEnvironment, rpcCreateEnvironment,
         apiCreateEnvironment, InProject, rpcInProject, ForProject, OrNotFound, OrError, Sought,
         found
  <2> QED BY <2>2, Missing
<1>4. CASE found.err = "nil"
  <2>1. ProjectOK(p)
    BY <1>2, <1>4 DEF FoundIn, OK
  <2> DEFINE ev == Event(<<p.id>>, <<>>, "create_environment", r, [slug |-> r.environment])
             w == NewEnvironment(a, p.id, r.environment, r.name)
             v == storeCreateEnvironment(b, d, p.id, r.environment, r.name)
  <2>2. CreateEnvironment(b, d, r, e)
          = RestWrite(b, d, "environments",
                      Event(<<p.id>>, <<>>, "create_environment", r, [slug |-> r.environment]),
                      storeCreateEnvironment(b, d, p.id, r.environment, r.name), 201, e)
    <3> HIDE DEF d
    <3> DEFINE p0 == storeGetProjectBySlug(b, d, r.slug).val[1]
    <3>1. storeGetProjectBySlug(b, d, r.slug).err = "nil" /\ p0 = p
      BY <1>1, <1>4
    <3>2. CreateEnvironment(b, d, r, e)
            = RestWrite(b, d, "environments",
                        Event(<<p0.id>>, <<>>, "create_environment", r,
                              [slug |-> r.environment]),
                        storeCreateEnvironment(b, d, p0.id, r.environment, r.name), 201, e)
      BY <3>1 DEF CreateEnvironment, InProject, OrNotFound, Write, RestWrite, RestAnswer, ToAPI
    <3> HIDE DEF p0
    <3> QED BY <3>1, <3>2
  <2>3. rpcCreateEnvironment(b, d, r, e)
          = RpcWrite(b, d, "environments",
                     rpcEvent(<<p.id>>, <<>>, "create_environment", r,
                              [slug |-> r.environment]),
                     storeCreateEnvironment(b, d, p.id, r.environment, r.name), e)
    <3> HIDE DEF d
    <3> DEFINE p0 == storeGetProjectBySlug(b, d, r.slug).val[1]
    <3>1. storeGetProjectBySlug(b, d, r.slug).err = "nil" /\ p0 = p
      BY <1>1, <1>4
    <3>2. rpcCreateEnvironment(b, d, r, e)
            = RpcWrite(b, d, "environments",
                       rpcEvent(<<p0.id>>, <<>>, "create_environment", r,
                                [slug |-> r.environment]),
                       storeCreateEnvironment(b, d, p0.id, r.environment, r.name), e)
      BY <3>1 DEF rpcCreateEnvironment, rpcInProject, OrError, rpcWrite, RpcWrite, RpcAnswer,
         ToProto
    <3> HIDE DEF p0
    <3> QED BY <3>1, <3>2
  <2>4. apiCreateEnvironment(b, a, r, e) = apiWrite(b, a, "environments", ev, w, 201, e)
    BY <1>4 DEF apiCreateEnvironment, ForProject, Sought, found
  <2>5. v = Kept(b, w) /\ WriteOK(b, "environments", w)
    BY DEF StoreContract, WritesContents, ComesTo
  <2>6. /\ EventInputOK(ev, e)
        /\ rpcEvent(<<p.id>>, <<>>, "create_environment", r, [slug |-> r.environment]) = ev
    <3>1. OneOrNone(<<p.id>>) /\ OneOrNone(<<>>)
      BY Singles
    <3> QED BY <3>1, Eventful
  <2>7. storeCreateEnvironment(b, d, p.id, r.environment, r.name) = v
    BY DEF v
  <2> HIDE DEF ev, w, v
  <2>8. WriteInput(b, "environments", w, v, ev, e, 201)
    BY <2>5, <2>6 DEF WriteInput, Shapes
  <2>9. Answered(b, apiWrite(b, a, "environments", ev, w, 201, e),
                  RestWrite(b, Rows(b, a), "environments", ev, v, 201, e),
                  RpcWrite(b, Rows(b, a), "environments", ev, v, e))
    BY <2>8, Writes
  <2> QED BY <2>2, <2>3, <2>4, <2>5, <2>6, <2>7, <2>9 DEF ev, v
<1> QED BY <1>3, <1>4

\* So do POST /projects/{slug}/flags and CreateFlag.
LEMMA CreatesTheFlag ==
    ASSUME StoreContract, NEW b, NEW a, ContentsOK(b, a), NEW r, NEW e, EnvironOK(e)
    PROVE  Answered(b, apiCreateFlag(b, a, r, e),
                    CreateFlag(b, Rows(b, a), r, e),
                    rpcCreateFlag(b, Rows(b, a), r, e))
<1> DEFINE d == Rows(b, a)
<1> DEFINE found == ProjectBy(a, r.slug)
           p == found.val[1]
<1>1. storeGetProjectBySlug(b, d, r.slug) = found
  BY FindsProject
<1>2. FoundIn(b, "projects", found)
  BY FindsProject
<1> HIDE DEF found
<1>3. CASE found.err # "nil"
  <2>1. found.err = "not_found"
    BY <1>2, <1>3 DEF FoundIn
  <2>2. /\ CreateFlag(b, d, r, e) = notFoundOrError("not_found", d)
        /\ rpcCreateFlag(b, d, r, e) = connectError("not_found", d)
        /\ apiCreateFlag(b, a, r, e) = Reply(404, <<>>, a)
    <3> HIDE DEF d
    <3> QED BY <1>1, <1>3, <2>1, SMT DEF CreateFlag, rpcCreateFlag, apiCreateFlag, InProject,
         rpcInProject, ForProject, OrNotFound, OrError, Sought, found
  <2> QED BY <2>2, Missing
<1>4. CASE found.err = "nil"
  <2>1. ProjectOK(p)
    BY <1>2, <1>4 DEF FoundIn, OK
  <2> DEFINE q == FlagParams(p, r, r.value_type)
             q2 == FlagParams(p, r, valueTypeFromProto(protoValueType(r.value_type)))
  <2>2. /\ Single(q.project_id) /\ Single(q.default_value)
         /\ Single(q2.project_id) /\ Single(q2.default_value)
    <3>1. /\ q.project_id = p.id /\ q.default_value = <<r.default_value>>
            /\ q2.project_id = p.id /\ q2.default_value = <<r.default_value>>
      BY SMT DEF FlagParams
    <3>2. p.id = <<p.slug>>
      BY <2>1 DEF ProjectOK
    <3> QED BY <3>1, <3>2, Singles
  <2>3. NewFlag(a, q2) = NewFlag(a, q)
    <3>1. CASE r.value_type \in ValueTypes
      BY <3>1 DEF ValueTypes, valueTypeFromProto, protoValueType
    <3>2. CASE r.value_type \notin ValueTypes
      <4>1. q.value_type \notin ValueTypes /\ q2.value_type \notin ValueTypes
        BY <3>2, SMT DEF ValueTypes, valueTypeFromProto, protoValueType, FlagParams
      <4> QED BY <4>1 DEF NewFlag
    <3> QED BY <3>1, <3>2
  <2> DEFINE ev == Event(<<p.id>>, <<>>, "create_flag", r, [key |-> r.key])
             w == NewFlag(a, FlagParams(p, r, r.value_type))
             v == storeCreateFlag(b, d, FlagParams(p, r, r.value_type))
  <2>4. CreateFlag(b, d, r, e)
          = RestWrite(b, d, "flags", Event(<<p.id>>, <<>>, "create_flag", r, [key |-> r.key]),
                      storeCreateFlag(b, d, FlagParams(p, r, r.value_type)), 201, e)
    <3> HIDE DEF d
    <3> DEFINE p0 == storeGetProjectBySlug(b, d, r.slug).val[1]
    <3>1. storeGetProjectBySlug(b, d, r.slug).err = "nil" /\ p0 = p
      BY <1>1, <1>4
    <3>2. CreateFlag(b, d, r, e)
            = RestWrite(b, d, "flags",
                        Event(<<p0.id>>, <<>>, "create_flag", r, [key |-> r.key]),
                        storeCreateFlag(b, d, FlagParams(p0, r, r.value_type)), 201, e)
      BY <3>1 DEF CreateFlag, InProject, OrNotFound, Write, RestWrite, RestAnswer, ToAPI,
         FlagParams
    <3> HIDE DEF p0
    <3> QED BY <3>1, <3>2
  <2>5. rpcCreateFlag(b, d, r, e)
          = RpcWrite(b, d, "flags", rpcEvent(<<p.id>>, <<>>, "create_flag", r, [key |-> r.key]),
                     storeCreateFlag(b, d,
                                     FlagParams(
                                         p, r,
                                         valueTypeFromProto(protoValueType(r.value_type)))),
                     e)
    <3> HIDE DEF d
    <3> DEFINE p0 == storeGetProjectBySlug(b, d, r.slug).val[1]
    <3>1. storeGetProjectBySlug(b, d, r.slug).err = "nil" /\ p0 = p
      BY <1>1, <1>4
    <3>2. rpcCreateFlag(b, d, r, e)
            = RpcWrite(b, d, "flags",
                       rpcEvent(<<p0.id>>, <<>>, "create_flag", r, [key |-> r.key]),
                       storeCreateFlag(b, d,
                                       FlagParams(p0, r,
                                                  valueTypeFromProto(protoValueType(
                                                                         r.value_type)))),
                       e)
      BY <3>1 DEF rpcCreateFlag, rpcInProject, OrError, rpcWrite, RpcWrite, RpcAnswer, ToProto,
         FlagParams
    <3> HIDE DEF p0
    <3> QED BY <3>1, <3>2
  <2>6. apiCreateFlag(b, a, r, e) = apiWrite(b, a, "flags", ev, w, 201, e)
    BY <1>4 DEF apiCreateFlag, ForProject, Sought, found
  <2>7. v = Kept(b, w) /\ WriteOK(b, "flags", w)
    BY <2>2 DEF StoreContract, WritesContents, ComesTo
  <2>8. EventInputOK(ev, e) /\ rpcEvent(<<p.id>>, <<>>, "create_flag", r, [key |-> r.key]) = ev
    <3>1. OneOrNone(<<p.id>>) /\ OneOrNone(<<>>)
      BY Singles
    <3> QED BY <3>1, Eventful
  <2>9. storeCreateFlag(b, d,
                        FlagParams(p, r, valueTypeFromProto(protoValueType(r.value_type))))
          = Kept(b, w)
    <3>1. storeCreateFlag(b, d, q2) = Kept(b, NewFlag(a, q2))
      BY <2>2 DEF StoreContract, WritesContents, ComesTo
    <3> QED BY <2>3, <3>1
  <2> HIDE DEF ev, w, v
  <2>10. WriteInput(b, "flags", w, v, ev, e, 201)
    BY <2>7, <2>8 DEF WriteInput, Shapes
  <2>11. Answered(b, apiWrite(b, a, "flags", ev, w, 201, e),
                  RestWrite(b, Rows(b, a), "flags", ev, v, 201, e),
                  RpcWrite(b, Rows(b, a), "flags", ev, v, e))
    BY <2>10, Writes
  <2> QED BY <2>4, <2>5, <2>6, <2>7, <2>8, <2>9, <2>11 DEF ev, v
<1> QED BY <1>3, <1>4

\* The writes of a segment, which normalise its predicate first.
apiCreateSegment(b, a, r, e) ==
    ForProject(a, r, LAMBDA p :
        IF normalizePredicate(r.predicate).err # "nil" THEN Refuse(400, a)
        ELSE apiWrite(b, a, "segments", Event(<<p.id>>, <<>>, "create_segment", r, [key |-> r.key]),
                      NewSegment(a, SegmentParams(p, r, normalizePredicate(r.predicate).val)),
                      201, e))
apiUpdateSegment(b, a, r, e) ==
    ForProject(a, r, LAMBDA p :
        IF normalizePredicate(r.predicate).err # "nil" THEN Refuse(400, a)
        ELSE apiWrite(b, a, "segments", Event(<<p.id>>, <<>>, "update_segment", r, [key |-> r.key]),
                      ChangedSegment(a,
                                     SegmentParams(p, r, normalizePredicate(r.predicate).val)),
                      200, e))

\* The two normalisations of a predicate agree on structs and on null.
LEMMA PredicateForm ==
    ASSUME NEW d, StructOrNull(d)
    PROVE  /\ normalizePredicateBytes(d) = normalizePredicate(d)
           /\ normalizePredicate(d).err = "nil" => RawObject(normalizePredicate(d).val)
<1>1. CASE d = JsonNull
  <2>1. structToJSONRaw(d)[1] = EmptyObject
    <3>1. structToJSONRaw(d) = <<EmptyObject>>
      BY <1>1 DEF structToJSONRaw
    <3> QED BY <3>1, Singles
  <2>2. ~ValidatePredicate(EmptyObject)
    BY SMT DEF ValidatePredicate, PredicateKind, EmptyObject, Object
  <2>3. normalizePredicateBytes(d) = [err |-> "invalid", val |-> <<>>]
    BY <2>1, <2>2 DEF normalizePredicateBytes
  <2>4. normalizePredicate(d) = [err |-> "invalid", val |-> <<>>]
    BY <1>1 DEF normalizePredicate
  <2>5. normalizePredicate(d).err # "nil"
    BY <2>4, SMT
  <2> QED BY <2>3, <2>4, <2>5
<1>2. CASE d # JsonNull
  <2>1. structToJSONRaw(d)[1] = d
    <3>1. structToJSONRaw(d) = <<d>>
      BY <1>2 DEF structToJSONRaw
    <3> QED BY <3>1, Singles
  <2>2. normalizePredicateBytes(d) = normalizePredicate(d)
    BY <1>2, <2>1 DEF normalizePredicateBytes, normalizePredicate
  <2>3. normalizePredicate(d).err = "nil" => normalizePredicate(d).val = <<d>>
    <3>1. normalizePredicate(d)
            \in {[err |-> "invalid", val |-> <<>>], [err |-> "nil", val |-> <<d>>]}
      BY DEF normalizePredicate
    <3> DEFINE x == normalizePredicate(d)
    <3> HIDE DEF x
    <3>2. x \in {[err |-> "invalid", val |-> <<>>], [err |-> "nil", val |-> <<d>>]}
      BY <3>1 DEF x
    <3>3. x.err = "nil" => x.val = <<d>>
      BY <3>2, SMT
    <3> QED BY <3>3 DEF x
  <2>4. RawObject(<<d>>)
    BY <1>2, Singles DEF StructOrNull, RawObject
  <2> QED BY <2>2, <2>3, <2>4
<1> QED BY <1>1, <1>2

\* POST /projects/{slug}/segments and CreateSegment answer alike and leave the
\* same rows.
LEMMA CreatesTheSegment ==
    ASSUME StoreContract, NEW b, NEW a, ContentsOK(b, a), NEW r, StructOrNull(r.predicate),
           NEW e, EnvironOK(e)
    PROVE  Answered(b, apiCreateSegment(b, a, r, e),
                    CreateSegment(b, Rows(b, a), r, e),
                    rpcCreateSegment(b, Rows(b, a), r, e))
<1> DEFINE d == Rows(b, a)
<1> DEFINE found == ProjectBy(a, r.slug)
           p == found.val[1]
<1>1. storeGetProjectBySlug(b, d, r.slug) = found
  BY FindsProject
<1>2. FoundIn(b, "projects", found)
  BY FindsProject
<1> HIDE DEF found
<1>3. CASE found.err # "nil"
  <2>1. found.err = "not_found"
    BY <1>2, <1>3 DEF FoundIn
  <2>2. /\ CreateSegment(b, d, r, e) = notFoundOrError("not_found", d)
        /\ rpcCreateSegment(b, d, r, e) = connectError("not_found", d)
        /\ apiCreateSegment(b, a, r, e) = Reply(404, <<>>, a)
    <3> HIDE DEF d
    <3> QED BY <1>1, <1>3, <2>1, SMT DEF CreateSegment, rpcCreateSegment, apiCreateSegment,
         InProject, rpcInProject, ForProject, OrNotFound, OrError, Sought, found
  <2> QED BY <2>2, Missing
<1>4. CASE found.err = "nil"
  <2>1. ProjectOK(p)
    BY <1>2, <1>4 DEF FoundIn, OK
  <2>2. normalizePredicateBytes(r.predicate) = normalizePredicate(r.predicate)
    BY PredicateForm
  <2>3. CASE normalizePredicate(r.predicate).err # "nil"
    <3>1. CreateSegment(b, d, r, e) = badRequest(d)
      <4> HIDE DEF d
      <4> DEFINE p0 == storeGetProjectBySlug(b, d, r.slug).val[1]
      <4>1. storeGetProjectBySlug(b, d, r.slug).err = "nil" /\ p0 = p
        BY <2>3, <2>2, <1>1, <1>4
      <4>2. CreateSegment(b, d, r, e) = badRequest(d)
        BY <2>3, <2>2, <4>1 DEF CreateSegment, InProject, OrNotFound
      <4> HIDE DEF p0
      <4> QED BY <2>3, <2>2, <4>1, <4>2
    <3>2. rpcCreateSegment(b, d, r, e) = rpcBadRequest(d)
      <4> HIDE DEF d
      <4> DEFINE p0 == storeGetProjectBySlug(b, d, r.slug).val[1]
      <4>1. storeGetProjectBySlug(b, d, r.slug).err = "nil" /\ p0 = p
        BY <2>3, <2>2, <1>1, <1>4
      <4>2. rpcCreateSegment(b, d, r, e) = rpcBadRequest(d)
        BY <2>3, <2>2, <4>1 DEF rpcCreateSegment, rpcInProject, OrError
      <4> HIDE DEF p0
      <4> QED BY <2>3, <2>2, <4>1, <4>2
    <3>3. apiCreateSegment(b, a, r, e) = Reply(400, <<>>, a)
      BY <1>4, <2>3 DEF apiCreateSegment, ForProject, Sought, found, Refuse
    <3> QED BY <3>1, <3>2, <3>3, BadRequests
  <2>4. CASE normalizePredicate(r.predicate).err = "nil"
    <3> DEFINE q == SegmentParams(p, r, normalizePredicate(r.predicate).val)
    <3>1. RawObject(q.predicate)
      <4>1. q.predicate = normalizePredicate(r.predicate).val
        BY SMT DEF SegmentParams
      <4> QED BY <2>4, <2>2, <4>1, PredicateForm
    <3>2. rpcSegmentParams(p, r, normalizePredicateBytes(r.predicate).val) = q
      BY PredicateForm DEF SegmentParams, rpcSegmentParams
    <3> DEFINE ev == Event(<<p.id>>, <<>>, "create_segment", r, [key |-> r.key])
               w == NewSegment(a, SegmentParams(p, r, normalizePredicate(r.predicate).val))
               v == storeCreateSegment(b, d,
                                       SegmentParams(p, r, normalizePredicate(r.predicate).val))
    <3>3. CreateSegment(b, d, r, e)
            = RestWrite(b, d, "segments",
                        Event(<<p.id>>, <<>>, "create_segment", r, [key |-> r.key]),
                        storeCreateSegment(b, d,
                                           SegmentParams(p, r,
                                                         normalizePredicate(r.predicate).val)),
                        201, e)
      <4> HIDE DEF d
      <4> DEFINE p0 == storeGetProjectBySlug(b, d, r.slug).val[1]
      <4>1. storeGetProjectBySlug(b, d, r.slug).err = "nil" /\ p0 = p
        BY <2>4, <2>2, <1>1, <1>4
      <4>2. CreateSegment(b, d, r, e)
              = RestWrite(b, d, "segments",
                          Event(<<p0.id>>, <<>>, "create_segment", r, [key |-> r.key]),
                          storeCreateSegment(
                              b, d, SegmentParams(p0, r, normalizePredicate(r.predicate).val)),
                          201, e)
        BY <2>4, <2>2, <4>1 DEF CreateSegment, InProject, OrNotFound, Write, RestWrite,
           RestAnswer, ToAPI
      <4> HIDE DEF p0
      <4> QED BY <2>4, <2>2, <4>1, <4>2
    <3>4. rpcCreateSegment(b, d, r, e)
            = RpcWrite(b, d, "segments",
                       rpcEvent(<<p.id>>, <<>>, "create_segment", r, [key |-> r.key]),
                       storeCreateSegment(b, d,
                                          rpcSegmentParams(p, r,
                                                           normalizePredicateBytes(
                                                               r.predicate).val)),
                       e)
      <4> HIDE DEF d
      <4> DEFINE p0 == storeGetProjectBySlug(b, d, r.slug).val[1]
      <4>1. storeGetProjectBySlug(b, d, r.slug).err = "nil" /\ p0 = p
        BY <2>4, <2>2, <1>1, <1>4
      <4>2. rpcCreateSegment(b, d, r, e)
              = RpcWrite(b, d, "segments",
                         rpcEvent(<<p0.id>>, <<>>, "create_segment", r, [key |-> r.key]),
                         storeCreateSegment(b, d,
                                            rpcSegmentParams(p0, r,
                                                             normalizePredicateBytes(
                                                                 r.predicate).val)),
                         e)
        BY <2>4, <2>2, <4>1 DEF rpcCreateSegment, rpcInProject, OrError, rpcWrite, RpcWrite,
           RpcAnswer, ToProto
      <4> HIDE DEF p0
      <4> QED BY <2>4, <2>2, <4>1, <4>2
    <3>5. apiCreateSegment(b, a, r, e) = apiWrite(b, a, "segments", ev, w, 201, e)
      BY <1>4, <2>4 DEF apiCreateSegment, ForProject, Sought, found
    <3>6. v = Kept(b, w) /\ WriteOK(b, "segments", w)
      BY <3>1 DEF StoreContract, WritesContents, ComesTo
    <3>7. /\ EventInputOK(ev, e)
          /\ rpcEvent(<<p.id>>, <<>>, "create_segment", r, [key |-> r.key]) = ev
      <4>1. OneOrNone(<<p.id>>) /\ OneOrNone(<<>>)
        BY Singles
      <4> QED BY <4>1, Eventful
    <3>8. storeCreateSegment(b, d,
                             rpcSegmentParams(p, r, normalizePredicateBytes(r.predicate).val))
            = Kept(b, w)
      BY <3>6, <3>2
    <3> HIDE DEF ev, w, v
    <3>9. WriteInput(b, "segments", w, v, ev, e, 201)
      BY <3>6, <3>7 DEF WriteInput, Shapes
    <3>10. Answered(b, apiWrite(b, a, "segments", ev, w, 201, e),
                    RestWrite(b, Rows(b, a), "segments", ev, v, 201, e),
                    RpcWrite(b, Rows(b, a), "segments", ev, v, e))
      BY <3>9, Writes
    <3> QED BY <3>3, <3>4, <3>5, <3>6, <3>7, <3>8, <3>10 DEF ev, v
  <2> QED BY <2>4, <2>3
<1> QED BY <1>3, <1>4

\* So do PUT of a segment and UpdateSegment.
LEMMA UpdatesTheSegment ==
    ASSUME StoreContract, NEW b, NEW a, ContentsOK(b, a), NEW r, StructOrNull(r.predicate),
           NEW e, EnvironOK(e)
    PROVE  Answered(b, apiUpdateSegment(b, a, r, e),
                    UpdateSegment(b, Rows(b, a), r, e),
                    rpcUpdateSegment(b, Rows(b, a), r, e))
<1> DEFINE d == Rows(b, a)
<1> DEFINE found == ProjectBy(a, r.slug)
           p == found.val[1]
<1>1. storeGetProjectBySlug(b, d, r.slug) = found
  BY FindsProject
<1>2. FoundIn(b, "projects", found)
  BY FindsProject
<1> HIDE DEF found
<1>3. CASE found.err # "nil"
  <2>1. found.err = "not_found"
    BY <1>2, <1>3 DEF FoundIn
  <2>2. /\ UpdateSegment(b, d, r, e) = notFoundOrError("not_found", d)
        /\ rpcUpdateSegment(b, d, r, e) = connectError("not_found", d)
        /\ apiUpdateSegment(b, a, r, e) = Reply(404, <<>>, a)
    <3> HIDE DEF d
    <3> QED BY <1>1, <1>3, <2>1, SMTT(30) DEF UpdateSegment, rpcUpdateSegment, apiUpdateSegment,
         InProject, rpcInProject, ForProject, OrNotFound, OrError, Sought, found
  <2> QED BY <2>2, Missing
<1>4. CASE found.err = "nil"
  <2>1. ProjectOK(p)
    BY <1>2, <1>4 DEF FoundIn, OK
  <2>2. normalizePredicateBytes(r.predicate) = normalizePredicate(r.predicate)
    BY PredicateForm
  <2>3. CASE normalizePredicate(r.predicate).err # "nil"
    <3>1. UpdateSegment(b, d, r, e) = badRequest(d)
      <4> HIDE DEF d
      <4> DEFINE p0 == storeGetProjectBySlug(b, d, r.slug).val[1]
      <4>1. storeGetProjectBySlug(b, d, r.slug).err = "nil" /\ p0 = p
        BY <2>3, <2>2, <1>1, <1>4
      <4>2. UpdateSegment(b, d, r, e) = badRequest(d)
        BY <2>3, <2>2, <4>1 DEF UpdateSegment, InProject, OrNotFound
      <4> HIDE DEF p0
      <4> QED BY <2>3, <2>2, <4>1, <4>2
    <3>2. rpcUpdateSegment(b, d, r, e) = rpcBadRequest(d)
      <4> HIDE DEF d
      <4> DEFINE p0 == storeGetProjectBySlug(b, d, r.slug).val[1]
      <4>1. storeGetProjectBySlug(b, d, r.slug).err = "nil" /\ p0 = p
        BY <2>3, <2>2, <1>1, <1>4
      <4>2. rpcUpdateSegment(b, d, r, e) = rpcBadRequest(d)
        BY <2>3, <2>2, <4>1 DEF rpcUpdateSegment, rpcInProject, OrError
      <4> HIDE DEF p0
      <4> QED BY <2>3, <2>2, <4>1, <4>2
    <3>3. apiUpdateSegment(b, a, r, e) = Reply(400, <<>>, a)
      BY <1>4, <2>3 DEF apiUpdateSegment, ForProject, Sought, found, Refuse
    <3> QED BY <3>1, <3>2, <3>3, BadRequests
  <2>4. CASE normalizePredicate(r.predicate).err = "nil"
    <3> DEFINE q == SegmentParams(p, r, normalizePredicate(r.predicate).val)
    <3>1. RawObject(q.predicate)
      <4>1. q.predicate = normalizePredicate(r.predicate).val
        BY SMT DEF SegmentParams
      <4> QED BY <2>4, <2>2, <4>1, PredicateForm
    <3>2. rpcSegmentParams(p, r, normalizePredicateBytes(r.predicate).val) = q
      BY PredicateForm DEF SegmentParams, rpcSegmentParams
    <3> DEFINE ev == Event(<<p.id>>, <<>>, "update_segment", r, [key |-> r.key])
               w == ChangedSegment(a, SegmentParams(p, r, normalizePredicate(r.predicate).val))
               v == storeUpdateSegment(b, d,
                                       SegmentParams(p, r, normalizePredicate(r.predicate).val))
    <3>3. UpdateSegment(b, d, r, e)
            = RestWrite(b, d, "segments",
                        Event(<<p.id>>, <<>>, "update_segment", r, [key |-> r.key]),
                        storeUpdateSegment(b, d,
                                           SegmentParams(p, r,
                                                         normalizePredicate(r.predicate).val)),
                        200, e)
      <4> HIDE DEF d
      <4> DEFINE p0 == storeGetProjectBySlug(b, d, r.slug).val[1]
      <4>1. storeGetProjectBySlug(b, d, r.slug).err = "nil" /\ p0 = p
        BY <2>4, <2>2, <1>1, <1>4
      <4>2. UpdateSegment(b, d, r, e)
              = RestWrite(b, d, "segments",
                          Event(<<p0.id>>, <<>>, "update_segment", r, [key |-> r.key]),
                          storeUpdateSegment(
                              b, d, SegmentParams(p0, r, normalizePredicate(r.predicate).val)),
                          200, e)
        BY <2>4, <2>2, <4>1 DEF UpdateSegment, InProject, OrNotFound, Write, RestWrite,
           RestAnswer, ToAPI
      <4> HIDE DEF p0
      <4> QED BY <2>4, <2>2, <4>1, <4>2
    <3>4. rpcUpdateSegment(b, d, r, e)
            = RpcWrite(b, d, "segments",
                       rpcEvent(<<p.id>>, <<>>, "update_segment", r, [key |-> r.key]),
                       storeUpdateSegment(b, d,
                                          rpcSegmentParams(p, r,
                                                           normalizePredicateBytes(
                                                               r.predicate).val)),
                       e)
      <4> HIDE DEF d
      <4> DEFINE p0 == storeGetProjectBySlug(b, d, r.slug).val[1]
      <4>1. storeGetProjectBySlug(b, d, r.slug).err = "nil" /\ p0 = p
        BY <2>4, <2>2, <1>1, <1>4
      <4>2. rpcUpdateSegment(b, d, r, e)
              = RpcWrite(b, d, "segments",
                         rpcEvent(<<p0.id>>, <<>>, "update_segment", r, [key |-> r.key]),
                         storeUpdateSegment(b, d,
                                            rpcSegmentParams(p0, r,
                                                             normalizePredicateBytes(
                                                                 r.predicate).val)),
                         e)
        BY <2>4, <2>2, <4>1 DEF rpcUpdateSegment, rpcInProject, OrError, rpcWrite, RpcWrite,
           RpcAnswer, ToProto
      <4> HIDE DEF p0
      <4> QED BY <2>4, <2>2, <4>1, <4>2
    <3>5. apiUpdateSegment(b, a, r, e) = apiWrite(b, a, "segments", ev, w, 200, e)
      BY <1>4, <2>4 DEF apiUpdateSegment, ForProject, Sought, found
    <3>6. v = Kept(b, w) /\ WriteOK(b, "segments", w)
      BY <3>1 DEF StoreContract, WritesContents, ComesTo
    <3>7. /\ EventInputOK(ev, e)
          /\ rpcEvent(<<p.id>>, <<>>, "update_segment", r, [key |-> r.key]) = ev
      <4>1. OneOrNone(<<p.id>>) /\ OneOrNone(<<>>)
        BY Singles
      <4> QED BY <4>1, Eventful
    <3>8. storeUpdateSegment(b, d,
                             rpcSegmentParams(p, r, normalizePredicateBytes(r.predicate).val))
            = Kept(b, w)
      BY <3>6, <3>2
    <3> HIDE DEF ev, w, v
    <3>9. WriteInput(b, "segments", w, v, ev, e, 200)
      BY <3>6, <3>7 DEF WriteInput, Shapes
    <3>10. Answered(b, apiWrite(b, a, "segments", ev, w, 200, e),
                    RestWrite(b, Rows(b, a), "segments", ev, v, 200, e),
                    RpcWrite(b, Rows(b, a), "segments", ev, v, e))
      BY <3>9, Writes
    <3> QED BY <3>3, <3>4, <3>5, <3>6, <3>7, <3>8, <3>10 DEF ev, v
  <2> QED BY <2>4, <2>3
<1> QED BY <1>3, <1>4

\* What is published: the input of the compilation, with its segments put in
\* their places, and the version it makes.
FromText(strategy, r) == strategy = "typescript" /\ r.source_text # ""
PublishInput(strategy, r, source) ==
    IF FromText(strategy, r) THEN [text |-> r.source_text] ELSE [json |-> source]
PublishParams(f, strategy, r, raw, compiled) ==
    [flag_id |-> f.id, strategy |-> strategy,
     source |-> IF FromText(strategy, r) THEN compiled ELSE raw,
     compiled |-> compiled, source_text |-> r.source_text]
PublishEvent(p, f, strategy, r) ==
    Event(<<p.id>>, <<f.id>>, "publish_version", r, [strategy |-> strategy, flag_key |-> f.key])
SegmentFor(a, project, key) ==
    LET s == SegmentBy(a, project, key)
    IN  [err |-> s.err, val |-> IF s.err = "nil" THEN <<s.val[1].predicate[1]>> ELSE <<>>]
Resolution(a, project, input) ==
  ResolveSegments(input, SegmentFor(a, project, SegmentOf(input)))

apiPublish(b, a, p, f, r, e) ==
    LET res == Resolution(a, p.id, PublishInput(r.strategy, r, r.source))
        compiled == Compile(r.strategy, res.val[1])
    IN  IF ~Valid(r.strategy) \/ res.err # "nil" THEN Refuse(400, a)
        ELSE IF compiled.err # "nil" THEN Refuse(422, a)
        ELSE apiWrite(b, a, "versions", PublishEvent(p, f, r.strategy, r),
                      NewVersion(a,
                                 PublishParams(f, r.strategy, r, <<r.source>>, compiled.val)),
                      200, e)
apiPublishFlagVersion(b, a, r, e) ==
    ForFlag(a, r, LAMBDA p, f : apiPublish(b, a, p, f, r, e))

\* The same, as each surface does it.
RestPublish(b, d, p, f, r, e) ==
    LET res == resolveSegmentRefs(b, d, p.id, PublishInput(r.strategy, r, r.source))
        compiled == Compile(r.strategy, res.val[1])
    IN  CASE ~Valid(r.strategy) -> badRequest(d)
          [] Valid(r.strategy) /\ res.err # "nil" -> badRequest(d)
          [] OTHER ->
             IF compiled.err # "nil" THEN writeError(422, d)
             ELSE RestWrite(b, d, "versions", PublishEvent(p, f, r.strategy, r),
                            storePublishFlagVersion(b, d,
                                PublishParams(f, r.strategy, r, <<r.source>>, compiled.val)),
                            200, e)
RpcPublish(b, d, p, f, r, strategy, raw, e) ==
    LET res == rpcResolveSegmentRefs(b, d, p.id, PublishInput(strategy, r, raw[1]))
        compiled == Compile(strategy, res.val[1])
    IN  CASE ~Valid(strategy) -> rpcBadRequest(d)
          [] Valid(strategy) /\ res.err # "nil" -> rpcBadRequest(d)
          [] OTHER ->
             IF compiled.err # "nil" THEN NewError("invalid_argument", d)
             ELSE RpcWrite(b, d, "versions", PublishEvent(p, f, strategy, r),
                           storePublishFlagVersion(b, d,
                               PublishParams(f, strategy, r, raw, compiled.val)), e)

\* Both surfaces resolve the segments a source refers to against the same rows.
LEMMA Resolves ==
    ASSUME StoreContract, NEW b, NEW a, ContentsOK(b, a), NEW project, NEW input
    PROVE  /\ resolveSegmentRefs(b, Rows(b, a), project, input) = Resolution(a, project, input)
           /\ rpcResolveSegmentRefs(b, Rows(b, a), project, input)
                = Resolution(a, project, input)
<1> DEFINE key == SegmentOf(input)
           d == Rows(b, a)
<1> HIDE DEF key
<1>1. storeGetSegmentByKey(b, d, project, key) = SegmentBy(a, project, key)
  BY FindsSegment
<1> HIDE DEF d
<1>2. ResolveSegment(b, d, project, key) = SegmentFor(a, project, key)
  BY <1>1 DEF ResolveSegment, SegmentFor
<1>3. rpcResolveSegment(b, d, project, key) = SegmentFor(a, project, key)
  BY <1>1 DEF rpcResolveSegment, SegmentFor
<1> QED BY <1>2, <1>3 DEF resolveSegmentRefs, rpcResolveSegmentRefs, Resolution, key, d

\* What compiles is stored as a JSON object.
LEMMA Compiled ==
    ASSUME NEW strategy, NEW input, Compile(strategy, input).err = "nil"
    PROVE  RawObject(Compile(strategy, input).val)
<1> DEFINE tree == IF "text" \in DOMAIN input THEN Tree(input.text, "") ELSE input.json
           ok == Valid(strategy) /\ IsTree(tree) /\ tree.val.rules \in {"valid", "other"}
           x == Compile(strategy, input)
<1>1. x = IF ok THEN [err |-> "nil", val |-> <<tree>>] ELSE [err |-> "compile", val |-> <<>>]
  BY DEF Compile
<1>2. ok => tree.type = "object"
  BY DEF IsTree
<1> HIDE DEF tree, ok, x
<1>3. x.err = "nil"
  BY DEF x
<1>4. ok /\ x.val = <<tree>>
  BY <1>1, <1>3, SMT
<1>5. RawObject(x.val)
  BY <1>2, <1>4, Singles DEF RawObject
<1> QED BY <1>5 DEF x

\* What is not a tree refers to no segment and does not compile.
LEMMA NoTree ==
    ASSUME NEW d, ~IsTree(d), NEW input, input = [json |-> d], NEW strategy, NEW a, NEW project
    PROVE  LET res == Resolution(a, project, input)
           IN  res.err = "nil" /\ Compile(strategy, res.val[1]).err # "nil"
<1> DEFINE res == Resolution(a, project, input)
<1>1. "text" \notin DOMAIN input /\ input.json = d
  BY SMT
<1>2. res = [err |-> "nil", val |-> <<input>>]
  BY <1>1 DEF Resolution, ResolveSegments
<1> HIDE DEF res
<1>3. res.err = "nil" /\ res.val[1] = input
  BY <1>2, SMT
<1>4. Compile(strategy, input) = [err |-> "compile", val |-> <<>>]
  BY <1>1 DEF Compile
<1>5. Compile(strategy, input).err # "nil"
  BY <1>4, SMT
<1> QED BY <1>3, <1>5 DEF res

\* Neither null nor the empty object is a tree.
LEMMA EmptySources ==
    ~IsTree(JsonNull) /\ ~IsTree(EmptyObject)
BY SMT DEF IsTree, JsonNull, EmptyObject, Object

\* The source as each surface reads it.
SameSource(strategy, r) == FromText(strategy, r) \/ r.source # JsonNull

\* Once the flag is found, both surfaces resolve, compile and store the source
\* alike, or refuse it alike.
LEMMA PublishesAlike ==
    ASSUME StoreContract, NEW b, NEW a, ContentsOK(b, a), NEW r, StructOrNull(r.source), NEW e,
           EnvironOK(e),
           NEW p, NEW f, NEW strategy, strategy = strategyFromProto(protoStrategy(r.strategy)),
           NEW raw, raw = structToJSONRaw(r.source)
    PROVE  Answered(b, apiPublish(b, a, p, f, r, e), RestPublish(b, Rows(b, a), p, f, r, e),
                    RpcPublish(b, Rows(b, a), p, f, r, strategy, raw, e))
<1> DEFINE d == Rows(b, a)
           in == PublishInput(r.strategy, r, r.source)
           in2 == PublishInput(strategy, r, raw[1])
           res == Resolution(a, p.id, in)
           res2 == Resolution(a, p.id, in2)
           compiled == Compile(r.strategy, res.val[1])
           compiled2 == Compile(strategy, res2.val[1])
           ev == PublishEvent(p, f, r.strategy, r)
           ev2 == PublishEvent(p, f, strategy, r)
           q == PublishParams(f, r.strategy, r, <<r.source>>, compiled.val)
           q2 == PublishParams(f, strategy, r, raw, compiled2.val)
<1>1. /\ resolveSegmentRefs(b, d, p.id, in) = res
      /\ rpcResolveSegmentRefs(b, d, p.id, in2) = res2
  <2> HIDE DEF in, in2, d
  <2>1. \A i : /\ resolveSegmentRefs(b, Rows(b, a), p.id, i) = Resolution(a, p.id, i)
               /\ rpcResolveSegmentRefs(b, Rows(b, a), p.id, i) = Resolution(a, p.id, i)
    BY Resolves
  <2> QED BY <2>1 DEF d
<1>2. apiPublish(b, a, p, f, r, e) =
        IF ~Valid(r.strategy) \/ res.err # "nil" THEN Refuse(400, a)
        ELSE IF compiled.err # "nil" THEN Refuse(422, a)
        ELSE apiWrite(b, a, "versions", ev, NewVersion(a, q), 200, e)
  BY DEF apiPublish
<1>3. RestPublish(b, d, p, f, r, e) =
        CASE ~Valid(r.strategy) -> badRequest(d)
          [] Valid(r.strategy) /\ res.err # "nil" -> badRequest(d)
          [] OTHER -> IF compiled.err # "nil" THEN writeError(422, d)
                      ELSE RestWrite(b, d, "versions", ev, storePublishFlagVersion(b, d, q), 200, e)
  <2> HIDE DEF res, d
  <2> QED BY <1>1 DEF RestPublish
<1>4. RpcPublish(b, d, p, f, r, strategy, raw, e) =
        CASE ~Valid(strategy) -> rpcBadRequest(d)
          [] Valid(strategy) /\ res2.err # "nil" -> rpcBadRequest(d)
          [] OTHER -> IF compiled2.err # "nil" THEN NewError("invalid_argument", d)
                      ELSE RpcWrite(b, d, "versions", ev2, storePublishFlagVersion(b, d, q2), e)
  <2> HIDE DEF res2, d
  <2> QED BY <1>1 DEF RpcPublish
<1>5. Valid(r.strategy) <=> Valid(strategy)
  BY DEF Valid, strategyFromProto, protoStrategy
<1>6. Valid(r.strategy) => strategy = r.strategy
  BY DEF Valid, strategyFromProto, protoStrategy
<1>7. CASE ~Valid(r.strategy)
  <2> HIDE DEF res, res2, compiled, compiled2, d, q, q2, ev, ev2
  <2>1. /\ RestPublish(b, d, p, f, r, e) = badRequest(d)
        /\ RpcPublish(b, d, p, f, r, strategy, raw, e) = rpcBadRequest(d)
        /\ apiPublish(b, a, p, f, r, e) = Reply(400, <<>>, a)
    BY <1>2, <1>3, <1>4, <1>5, <1>7 DEF Refuse
  <2> QED BY <2>1, BadRequests DEF d
<1>8. CASE Valid(r.strategy) /\ ~SameSource(r.strategy, r)
  <2>1. raw[1] = EmptyObject /\ r.source = JsonNull
    <3>1. raw = <<EmptyObject>> /\ r.source = JsonNull
      BY <1>8 DEF structToJSONRaw, SameSource
    <3> QED BY <3>1, Singles
  <2>2. in = [json |-> JsonNull] /\ in2 = [json |-> EmptyObject]
    <3>1. ~FromText(r.strategy, r) /\ strategy = r.strategy
      BY <1>6, <1>8 DEF SameSource
    <3> HIDE DEF EmptyObject, JsonNull
    <3> QED BY <2>1, <3>1 DEF PublishInput
  <2>3. /\ res.err = "nil" /\ compiled.err # "nil"
        /\ res2.err = "nil" /\ compiled2.err # "nil"
    <3> HIDE DEF in, in2, EmptyObject, JsonNull
    <3> QED BY <2>2, EmptySources, NoTree
  <2> HIDE DEF res, res2, compiled, compiled2, d, q, q2, ev, ev2
  <2>4. /\ RestPublish(b, d, p, f, r, e) = writeError(422, d)
        /\ RpcPublish(b, d, p, f, r, strategy, raw, e) = NewError("invalid_argument", d)
        /\ apiPublish(b, a, p, f, r, e) = Reply(422, <<>>, a)
    BY <1>2, <1>3, <1>4, <1>5, <1>8, <2>3 DEF Refuse
  <2>5. Refuses(422, "invalid_argument")
    BY SMT DEF Refuses
  <2>6. Answered(b, Reply(422, <<>>, a), writeError(422, Rows(b, a)),
                 NewError("invalid_argument", Rows(b, a)))
    BY <2>5, Errors
  <2> QED BY <2>4, <2>6 DEF d
<1>9. CASE Valid(r.strategy) /\ SameSource(r.strategy, r)
  <2>1. /\ strategy = r.strategy
        /\ (FromText(strategy, r) \/ (raw = <<r.source>> /\ raw[1] = r.source))
    <3>1. r.source # JsonNull => raw = <<r.source>>
      BY DEF structToJSONRaw
    <3>2. <<r.source>>[1] = r.source
      BY Singles
    <3> QED BY <1>6, <1>9, <3>1, <3>2 DEF SameSource
  <2>2. in2 = in
    BY <2>1 DEF PublishInput
  <2>3. res2 = res /\ compiled2 = compiled /\ ev2 = ev
    <3> HIDE DEF in, in2
    <3> QED BY <2>1, <2>2
  <2>4. q2 = q
    <3> HIDE DEF compiled, compiled2
    <3> QED BY <2>1, <2>3 DEF PublishParams
  <2>5. CASE res.err # "nil"
    <3> HIDE DEF res, res2, compiled, compiled2, d, q, q2, ev, ev2
    <3>1. /\ RestPublish(b, d, p, f, r, e) = badRequest(d)
          /\ RpcPublish(b, d, p, f, r, strategy, raw, e) = rpcBadRequest(d)
          /\ apiPublish(b, a, p, f, r, e) = Reply(400, <<>>, a)
      BY <1>2, <1>3, <1>4, <1>5, <1>9, <2>3, <2>5 DEF Refuse
    <3> QED BY <3>1, BadRequests DEF d
  <2>6. CASE res.err = "nil" /\ compiled.err # "nil"
    <3> HIDE DEF res, res2, compiled, compiled2, d, q, q2, ev, ev2
    <3>1. /\ RestPublish(b, d, p, f, r, e) = writeError(422, d)
          /\ RpcPublish(b, d, p, f, r, strategy, raw, e) = NewError("invalid_argument", d)
          /\ apiPublish(b, a, p, f, r, e) = Reply(422, <<>>, a)
      BY <1>2, <1>3, <1>4, <1>5, <1>9, <2>3, <2>6 DEF Refuse
    <3>2. Refuses(422, "invalid_argument")
      BY SMT DEF Refuses
    <3>3. Answered(b, Reply(422, <<>>, a), writeError(422, Rows(b, a)),
                   NewError("invalid_argument", Rows(b, a)))
      BY <3>2, Errors
    <3> QED BY <3>1, <3>3 DEF d
  <2>7. CASE res.err = "nil" /\ compiled.err = "nil"
    <3> DEFINE w == NewVersion(a, q)
               v == storePublishFlagVersion(b, d, q)
    <3>1. /\ RestPublish(b, d, p, f, r, e) = RestWrite(b, d, "versions", ev, v, 200, e)
          /\ RpcPublish(b, d, p, f, r, strategy, raw, e) = RpcWrite(b, d, "versions", ev, v, e)
          /\ apiPublish(b, a, p, f, r, e) = apiWrite(b, a, "versions", ev, w, 200, e)
      <4> HIDE DEF res, res2, compiled, compiled2, d, q, q2, ev, ev2
      <4> QED BY <1>2, <1>3, <1>4, <1>5, <1>9, <2>3, <2>4, <2>7
    <3>2. RawObject(compiled.val)
      <4> DEFINE x == res.val[1]
      <4> HIDE DEF x
      <4>1. Compile(r.strategy, x).err = "nil"
        BY <2>7 DEF x
      <4>2. RawObject(Compile(r.strategy, x).val)
        BY <4>1, Compiled
      <4> QED BY <4>2 DEF x
    <3>3. ~FromText(r.strategy, r) => RawObject(<<r.source>>)
      BY <1>9, Singles DEF SameSource, StructOrNull, RawObject
    <3>4. RawObject(q.source) /\ RawObject(q.compiled) /\ q.strategy \in Strategies
      <4> DEFINE raws == <<r.source>>
                 s == IF FromText(r.strategy, r) THEN compiled.val ELSE raws
      <4>1. RawObject(s)
        BY <3>2, <3>3
      <4> HIDE DEF raws, compiled
      <4>2. q = [flag_id |-> f.id, strategy |-> r.strategy, source |-> s,
                 compiled |-> compiled.val,
                 source_text |-> r.source_text]
        BY DEF PublishParams, raws
      <4> HIDE DEF q, s
      <4>3. q.source = s /\ q.compiled = compiled.val /\ q.strategy = r.strategy
        BY <4>2, SMT
      <4> QED BY <1>9, <3>2, <4>1, <4>3 DEF Valid, Strategies
    <3>5. EventInputOK(ev, e)
      <4>1. OneOrNone(<<p.id>>) /\ OneOrNone(<<f.id>>)
        BY Singles
      <4> QED BY <4>1, Eventful DEF PublishEvent
    <3> HIDE DEF q, ev
    <3>6. v = Kept(b, w) /\ WriteOK(b, "versions", w)
      BY <3>4 DEF StoreContract, WritesContents, ComesTo
    <3> HIDE DEF v, w
    <3>7. WriteInput(b, "versions", w, v, ev, e, 200)
      BY <3>5, <3>6 DEF WriteInput, Shapes
    <3>8. Answered(b, apiWrite(b, a, "versions", ev, w, 200, e),
                   RestWrite(b, Rows(b, a), "versions", ev, v, 200, e),
                   RpcWrite(b, Rows(b, a), "versions", ev, v, e))
      BY <3>7, Writes
    <3> QED BY <3>1, <3>8
  <2> QED BY <2>5, <2>6, <2>7
<1> QED BY <1>7, <1>8, <1>9

\* POST of a version and PublishFlagVersion answer alike and leave the same
\* rows.
LEMMA PublishesTheVersion ==
    ASSUME StoreContract, NEW b, NEW a, ContentsOK(b, a), NEW r, StructOrNull(r.source), NEW e,
           EnvironOK(e)
    PROVE  Answered(b, apiPublishFlagVersion(b, a, r, e),
                    PublishFlagVersion(b, Rows(b, a), r, e),
                    rpcPublishFlagVersion(b, Rows(b, a), r, e))
<1> DEFINE d == Rows(b, a)
<1> DEFINE found == ProjectBy(a, r.slug)
           p == found.val[1]
<1>1. storeGetProjectBySlug(b, d, r.slug) = found
  BY FindsProject
<1>2. FoundIn(b, "projects", found)
  BY FindsProject
<1> HIDE DEF found
<1>3. CASE found.err # "nil"
  <2>1. found.err = "not_found"
    BY <1>2, <1>3 DEF FoundIn
  <2>2. /\ PublishFlagVersion(b, d, r, e) = notFoundOrError("not_found", d)
        /\ rpcPublishFlagVersion(b, d, r, e) = connectError("not_found", d)
        /\ apiPublishFlagVersion(b, a, r, e) = Reply(404, <<>>, a)
    <3> HIDE DEF d
    <3> QED BY <1>1, <1>3, <2>1, SMT DEF PublishFlagVersion, rpcPublishFlagVersion,
         apiPublishFlagVersion, InProject, rpcInProject, ForProject, OrNotFound, OrError,
         Sought, OfFlag, rpcOfFlag, ForFlag, found
  <2> QED BY <2>2, Missing
<1>4. CASE found.err = "nil"
  <2>1. ProjectOK(p)
    BY <1>2, <1>4 DEF FoundIn, OK
  <2> DEFINE found2 == FlagBy(a, p.id, r.key)
             f == found2.val[1]
  <2>2. storeGetFlagByKey(b, d, p.id, r.key) = found2
    BY FindsFlag
  <2>3. FoundIn(b, "flags", found2)
    BY FindsFlag
  <2> HIDE DEF found2
  <2>4. CASE found2.err # "nil"
    <3>1. found2.err = "not_found"
      BY <2>3, <2>4 DEF FoundIn
    <3>2. /\ PublishFlagVersion(b, d, r, e) = notFoundOrError("not_found", d)
          /\ rpcPublishFlagVersion(b, d, r, e) = connectError("not_found", d)
          /\ apiPublishFlagVersion(b, a, r, e) = Reply(404, <<>>, a)
      <4> HIDE DEF d
      <4>1. PublishFlagVersion(b, d, r, e) = notFoundOrError("not_found", d)
        BY <1>1, <1>4, <2>2, <2>4, <3>1 DEF PublishFlagVersion, OfFlag, InProject, OrNotFound
      <4>2. rpcPublishFlagVersion(b, d, r, e) = connectError("not_found", d)
        BY <1>1, <1>4, <2>2, <2>4, <3>1 DEF rpcPublishFlagVersion, rpcOfFlag, rpcInProject,
           OrError
      <4>3. apiPublishFlagVersion(b, a, r, e) = Reply(404, <<>>, a)
        BY <1>4, <2>4 DEF apiPublishFlagVersion, ForFlag, ForProject, Sought, Refuse, found,
           found2
      <4> QED BY <4>1, <4>2, <4>3
    <3> QED BY <3>2, Missing
  <2>5. CASE found2.err = "nil"
    <3>1. FlagOK(f)
      BY <2>3, <2>5 DEF FoundIn, OK
    <3> DEFINE strategy == strategyFromProto(protoStrategy(r.strategy))
               raw == structToJSONRaw(r.source)
    <3>2. PublishFlagVersion(b, d, r, e) = RestPublish(b, d, p, f, r, e)
      <4> HIDE DEF d
      <4> DEFINE p0 == storeGetProjectBySlug(b, d, r.slug).val[1]
      <4>1. storeGetProjectBySlug(b, d, r.slug).err = "nil" /\ p0 = p
        BY <1>1, <1>4
      <4> DEFINE f0 == storeGetFlagByKey(b, d, p0.id, r.key).val[1]
      <4>2. storeGetFlagByKey(b, d, p0.id, r.key).err = "nil" /\ f0 = f
        <5> HIDE DEF p0
        <5> QED BY <2>2, <2>5, <4>1
      <4>3. PublishFlagVersion(b, d, r, e) = RestPublish(b, d, p0, f0, r, e)
        BY <4>1, <4>2, ZenonT(90) DEF PublishFlagVersion, InProject, OrNotFound, OfFlag, Write,
           RestPublish, RestWrite, RestAnswer, ToAPI, PublishInput, PublishParams, PublishEvent,
           FromText
      <4> HIDE DEF p0, f0
      <4> QED BY <4>1, <4>2, <4>3
    <3>3. rpcPublishFlagVersion(b, d, r, e) = RpcPublish(b, d, p, f, r, strategy, raw, e)
      <4> HIDE DEF d
      <4> DEFINE p0 == storeGetProjectBySlug(b, d, r.slug).val[1]
      <4>1. storeGetProjectBySlug(b, d, r.slug).err = "nil" /\ p0 = p
        BY <1>1, <1>4
      <4> DEFINE f0 == storeGetFlagByKey(b, d, p0.id, r.key).val[1]
      <4>2. storeGetFlagByKey(b, d, p0.id, r.key).err = "nil" /\ f0 = f
        <5> HIDE DEF p0
        <5> QED BY <2>2, <2>5, <4>1
      <4>3. rpcPublishFlagVersion(b, d, r, e) = RpcPublish(b, d, p0, f0, r, strategy, raw, e)
        BY <4>1, <4>2 DEF rpcPublishFlagVersion, rpcInProject, OrError, rpcOfFlag, rpcWrite,
           RpcPublish, RpcWrite, RpcAnswer, ToProto, PublishInput, PublishParams, PublishEvent,
           FromText, Event, rpcEvent
      <4> HIDE DEF p0, f0
      <4> QED BY <4>1, <4>2, <4>3
    <3>4. apiPublishFlagVersion(b, a, r, e) = apiPublish(b, a, p, f, r, e)
      BY <1>4, <2>5 DEF apiPublishFlagVersion, ForProject, Sought, ForFlag, found, found2
    <3> HIDE DEF strategy, raw, p, f
    <3>5. Answered(b, apiPublish(b, a, p, f, r, e), RestPublish(b, Rows(b, a), p, f, r, e),
                   RpcPublish(b, Rows(b, a), p, f, r, strategy, raw, e))
      BY PublishesAlike DEF strategy, raw
    <3> QED BY <3>2, <3>3, <3>4, <3>5
  <2> QED BY <2>4, <2>5
<1> QED BY <1>3, <1>4

\* What is compiled: the newest version of each flag, for an environment or
\* for none.
BundleOf(latest) ==
    [flags |-> [k \in {l.flag_key : l \in latest} |->
                   (CHOOSE l \in latest : l.flag_key = k).compiled[1]]]
SnapshotParams(p, r, env, bundle) ==
    [project_id |-> p.id, environment_id |-> IF r.environment = "" THEN <<>> ELSE <<env.val[1].id>>,
     compiled |-> <<Object(bundle)>>]
SnapshotEvent(p, r, bundle) ==
    Event(<<p.id>>, <<>>, "compile_snapshot", r,
          [flag_count |-> Cardinality(DOMAIN bundle.flags)])

apiCompile(b, a, p, r, e) ==
    LET env == EnvironmentBy(a, p.id, r.environment)
        bundle == BundleOf(LatestVersions(a, p.id))
    IN  IF r.environment # "" /\ env.err # "nil" THEN Refuse(400, a)
        ELSE apiWrite(b, a, "snapshots", SnapshotEvent(p, r, bundle),
                      NewSnapshot(a, SnapshotParams(p, r, env, bundle)), 201, e)
apiCompileSnapshot(b, a, r, e) == ForProject(a, r, LAMBDA p : apiCompile(b, a, p, r, e))

\* The same, as each surface does it.
RestCompile(b, d, p, r, env, bundle, e) ==
    IF r.environment # "" /\ env.err # "nil"
    THEN IF env.err = "not_found" THEN badRequest(d) ELSE writeError(500, d)
    ELSE RestWrite(b, d, "snapshots", SnapshotEvent(p, r, bundle),
                   storeCompileSnapshot(b, d, SnapshotParams(p, r, env, bundle)), 201, e)
RpcCompile(b, d, p, r, env, bundle, e) ==
    IF r.environment # "" /\ env.err # "nil"
    THEN IF env.err = "not_found" THEN rpcBadRequest(d) ELSE connectError(env.err, d)
    ELSE RpcWrite(b, d, "snapshots", SnapshotEvent(p, r, bundle),
                  storeCompileSnapshot(b, d, SnapshotParams(p, r, env, bundle)), e)

\* Once the project is found, both surfaces bundle and store its flags alike.
LEMMA CompilesAlike ==
    ASSUME StoreContract, NEW b, NEW a, ContentsOK(b, a), NEW r, NEW e, EnvironOK(e), NEW p,
           ProjectOK(p),
           NEW env, env = EnvironmentBy(a, p.id, r.environment),
           NEW bundle, bundle = BundleOf(LatestVersions(a, p.id))
    PROVE  Answered(b, apiCompile(b, a, p, r, e),
                    RestCompile(b, Rows(b, a), p, r, env, bundle, e),
                    RpcCompile(b, Rows(b, a), p, r, env, bundle, e))
<1> DEFINE d == Rows(b, a)
           q == SnapshotParams(p, r, env, bundle)
           ev == SnapshotEvent(p, r, bundle)
           w == NewSnapshot(a, q)
           v == storeCompileSnapshot(b, d, q)
<1>1. FoundIn(b, "environments", env)
  BY FindsEnvironment
<1>2. CASE r.environment # "" /\ env.err # "nil"
  <2>1. env.err = "not_found"
    BY <1>1, <1>2 DEF FoundIn
  <2>2. /\ RestCompile(b, d, p, r, env, bundle, e) = badRequest(d)
        /\ RpcCompile(b, d, p, r, env, bundle, e) = rpcBadRequest(d)
        /\ apiCompile(b, a, p, r, e) = Reply(400, <<>>, a)
    BY <1>2, <2>1 DEF RestCompile, RpcCompile, apiCompile, Refuse
  <2> QED BY <2>2, BadRequests
<1>3. CASE ~(r.environment # "" /\ env.err # "nil")
  <2>1. /\ RestCompile(b, d, p, r, env, bundle, e) = RestWrite(b, d, "snapshots", ev, v, 201, e)
        /\ RpcCompile(b, d, p, r, env, bundle, e) = RpcWrite(b, d, "snapshots", ev, v, e)
        /\ apiCompile(b, a, p, r, e) = apiWrite(b, a, "snapshots", ev, w, 201, e)
    BY <1>3 DEF RestCompile, RpcCompile, apiCompile
  <2>2. EventInputOK(ev, e)
    <3>1. OneOrNone(<<p.id>>) /\ OneOrNone(<<>>)
      BY Singles
    <3> QED BY <3>1, Eventful DEF SnapshotEvent
  <2>3. Single(q.project_id) /\ OneOrNone(q.environment_id) /\ RawObject(q.compiled)
    <3> DEFINE o == Object(bundle)
               n == IF r.environment = "" THEN <<>> ELSE <<env.val[1].id>>
    <3>1. RawObject(<<o>>)
      BY Objecting
    <3>2. OneOrNone(n)
      BY Singles
    <3>3. Single(p.id)
      BY Singles DEF ProjectOK
    <3> HIDE DEF o, n
    <3>4. q = [project_id |-> p.id, environment_id |-> n, compiled |-> <<o>>]
      BY DEF SnapshotParams, o, n
    <3> HIDE DEF q
    <3>5. q.project_id = p.id /\ q.environment_id = n /\ q.compiled = <<o>>
      BY <3>4, SMT
    <3> QED BY <3>1, <3>2, <3>3, <3>5
  <2> HIDE DEF q, ev
  <2>4. v = Kept(b, w) /\ WriteOK(b, "snapshots", w)
    BY <2>3 DEF StoreContract, WritesContents, ComesTo
  <2> HIDE DEF v, w
  <2>5. WriteInput(b, "snapshots", w, v, ev, e, 201)
    BY <2>2, <2>4 DEF WriteInput, Shapes
  <2>6. Answered(b, apiWrite(b, a, "snapshots", ev, w, 201, e),
                 RestWrite(b, Rows(b, a), "snapshots", ev, v, 201, e),
                 RpcWrite(b, Rows(b, a), "snapshots", ev, v, e))
    BY <2>5, Writes
  <2> QED BY <2>1, <2>6
<1> QED BY <1>2, <1>3

\* POST of a snapshot and CompileSnapshot answer alike and leave the same rows.
LEMMA CompilesTheSnapshot ==
    ASSUME StoreContract, NEW b, NEW a, ContentsOK(b, a), NEW r, NEW e, EnvironOK(e)
    PROVE  Answered(b, apiCompileSnapshot(b, a, r, e),
                    CompileSnapshot(b, Rows(b, a), r, e),
                    rpcCompileSnapshot(b, Rows(b, a), r, e))
<1> DEFINE d == Rows(b, a)
<1> DEFINE found == ProjectBy(a, r.slug)
           p == found.val[1]
<1>1. storeGetProjectBySlug(b, d, r.slug) = found
  BY FindsProject
<1>2. FoundIn(b, "projects", found)
  BY FindsProject
<1> HIDE DEF found
<1>3. CASE found.err # "nil"
  <2>1. found.err = "not_found"
    BY <1>2, <1>3 DEF FoundIn
  <2>2. /\ CompileSnapshot(b, d, r, e) = notFoundOrError("not_found", d)
        /\ rpcCompileSnapshot(b, d, r, e) = connectError("not_found", d)
        /\ apiCompileSnapshot(b, a, r, e) = Reply(404, <<>>, a)
    <3> HIDE DEF d
    <3>1. CompileSnapshot(b, d, r, e) = notFoundOrError("not_found", d)
      BY <1>1, <1>3, <2>1 DEF CompileSnapshot, InProject, OrNotFound
    <3>2. rpcCompileSnapshot(b, d, r, e) = connectError("not_found", d)
      BY <1>1, <1>3, <2>1 DEF rpcCompileSnapshot, rpcInProject, OrError
    <3>3. apiCompileSnapshot(b, a, r, e) = Reply(404, <<>>, a)
      BY <1>3 DEF apiCompileSnapshot, ForProject, Sought, Refuse, found
    <3> QED BY <3>1, <3>2, <3>3
  <2> QED BY <2>2, Missing
<1>4. CASE found.err = "nil"
  <2>1. ProjectOK(p)
    BY <1>2, <1>4 DEF FoundIn, OK
  <2> DEFINE env == EnvironmentBy(a, p.id, r.environment)
             bundle == BundleOf(LatestVersions(a, p.id))
  <2>2. CompileSnapshot(b, d, r, e)
          = RestCompile(b, d, p, r, storeGetEnvironmentBySlug(b, d, p.id, r.environment),
                        compileBundle(b, d, p.id), e)
    <3> HIDE DEF d
    <3> DEFINE p0 == storeGetProjectBySlug(b, d, r.slug).val[1]
    <3>1. storeGetProjectBySlug(b, d, r.slug).err = "nil" /\ p0 = p
      BY <1>1, <1>4
    <3>2. CompileSnapshot(b, d, r, e)
            = RestCompile(b, d, p0, r, storeGetEnvironmentBySlug(b, d, p0.id, r.environment),
                          compileBundle(b, d, p0.id), e)
      BY <3>1 DEF CompileSnapshot, InProject, OrNotFound, Write, RestCompile, RestWrite,
         RestAnswer, ToAPI, SnapshotParams, SnapshotEvent
    <3> HIDE DEF p0
    <3> QED BY <3>1, <3>2
  <2>3. rpcCompileSnapshot(b, d, r, e)
          = RpcCompile(b, d, p, r, storeGetEnvironmentBySlug(b, d, p.id, r.environment),
                       rpcCompileBundle(b, d, p.id), e)
    <3> HIDE DEF d
    <3> DEFINE p0 == storeGetProjectBySlug(b, d, r.slug).val[1]
    <3>1. storeGetProjectBySlug(b, d, r.slug).err = "nil" /\ p0 = p
      BY <1>1, <1>4
    <3>2. rpcCompileSnapshot(b, d, r, e)
            = RpcCompile(b, d, p0, r, storeGetEnvironmentBySlug(b, d, p0.id, r.environment),
                         rpcCompileBundle(b, d, p0.id), e)
      BY <3>1 DEF rpcCompileSnapshot, rpcInProject, OrError, rpcWrite, RpcCompile, RpcWrite,
         RpcAnswer, ToProto, SnapshotParams, SnapshotEvent, Event, rpcEvent
    <3> HIDE DEF p0
    <3> QED BY <3>1, <3>2
  <2>4. apiCompileSnapshot(b, a, r, e) = apiCompile(b, a, p, r, e)
    BY <1>4 DEF apiCompileSnapshot, ForProject, Sought, found
  <2>5. storeGetEnvironmentBySlug(b, d, p.id, r.environment) = env
    BY FindsEnvironment
  <2>6. compileBundle(b, d, p.id) = bundle /\ rpcCompileBundle(b, d, p.id) = bundle
    <3> DEFINE latest == LatestVersions(a, p.id)
    <3>1. storeListLatestFlagVersions(b, d, p.id) = latest
      BY DEF StoreContract, ListsContents
    <3>2. compileBundle(b, d, p.id) = BundleOf(storeListLatestFlagVersions(b, d, p.id))
      <4> HIDE DEF d, p
      <4> QED BY DEF compileBundle, BundleOf
    <3>3. rpcCompileBundle(b, d, p.id) = BundleOf(storeListLatestFlagVersions(b, d, p.id))
      <4> HIDE DEF d, p
      <4> QED BY DEF rpcCompileBundle, BundleOf
    <3> QED BY <3>1, <3>2, <3>3
  <2> HIDE DEF env, bundle, p
  <2>7. Answered(b, apiCompile(b, a, p, r, e), RestCompile(b, Rows(b, a), p, r, env, bundle, e),
                 RpcCompile(b, Rows(b, a), p, r, env, bundle, e))
    BY <2>1, CompilesAlike DEF env, bundle
  <2> QED BY <2>2, <2>3, <2>4, <2>5, <2>6, <2>7
<1> QED BY <1>3, <1>4
-----------------------------------------------------------------------------
(* The API *)

\* What the API promises of a request on contents a.
Api(b, a, r, e) ==
    CASE r.op = "ListProjects" -> apiListProjects(a, r)
      [] r.op = "GetProject" -> apiGetProject(a, r)
      [] r.op = "CreateProject" -> apiCreateProject(b, a, r, e)
      [] r.op = "ListEnvironments" -> apiListEnvironments(a, r)
      [] r.op = "GetEnvironment" -> apiGetEnvironment(a, r)
      [] r.op = "CreateEnvironment" -> apiCreateEnvironment(b, a, r, e)
      [] r.op = "ListFlags" -> apiListFlags(a, r)
      [] r.op = "GetFlag" -> apiGetFlag(a, r)
      [] r.op = "CreateFlag" -> apiCreateFlag(b, a, r, e)
      [] r.op = "PublishFlagVersion" -> apiPublishFlagVersion(b, a, r, e)
      [] r.op = "ListFlagVersions" -> apiListFlagVersions(a, r)
      [] r.op = "ListSegments" -> apiListSegments(a, r)
      [] r.op = "GetSegment" -> apiGetSegment(a, r)
      [] r.op = "CreateSegment" -> apiCreateSegment(b, a, r, e)
      [] r.op = "UpdateSegment" -> apiUpdateSegment(b, a, r, e)
      [] r.op = "ListSnapshots" -> apiListSnapshots(a, r)
      [] r.op = "GetLatestSnapshot" -> apiGetLatestSnapshot(a, r)
      [] r.op = "GetSnapshot" -> apiGetSnapshot(a, r)
      [] r.op = "CompileSnapshot" -> apiCompileSnapshot(b, a, r, e)
      [] r.op = "ListAuditEvents" -> apiListAuditEvents(b, a, r)
      [] r.op = "Evaluate" -> apiEvaluate(a, r)
      [] r.op = "EvaluateWithTrace" -> apiEvaluateWithTrace(a, r)

\* The requests that both surfaces answer alike: REST refuses a malformed
\* snapshot id before it looks the project up, and only REST reads a cursor.
Common(a, r) ==
    /\ r.op = "GetSnapshot" /\ r.id = <<>> => ProjectBy(a, r.slug).err = "nil"
    /\ r.op = "ListAuditEvents" => r.cursor = <<>>

\* restRoutes and Mount hand a request to the handlers of its operation, and
\* both handlers do what the API promises of it.
LEMMA Handles ==
    ASSUME StoreContract, NEW b, NEW a, ContentsOK(b, a), NEW r, Askable(r), Common(a, r),
           NEW e, EnvironOK(e)
    PROVE  Answered(b, Api(b, a, r, e), restRoutes(b, Rows(b, a), r, e),
                    Mount(b, Rows(b, a), r, e))
<1> DEFINE d == Rows(b, a)
<1> HIDE DEF d
<1>1. CASE r.op = "ListProjects"
  <2>1. /\ restRoutes(b, d, r, e) = ListProjects(b, d, r)
        /\ Mount(b, d, r, e) = rpcListProjects(b, d, r)
        /\ Api(b, a, r, e) = apiListProjects(a, r)
    BY <1>1 DEF restRoutes, Mount, Api
  <2> QED BY <2>1, ListsTheProjects, SMTT(30) DEF d
<1>2. CASE r.op = "GetProject"
  <2>1. /\ restRoutes(b, d, r, e) = GetProject(b, d, r)
        /\ Mount(b, d, r, e) = rpcGetProject(b, d, r)
        /\ Api(b, a, r, e) = apiGetProject(a, r)
    BY <1>2 DEF restRoutes, Mount, Api
  <2> QED BY <2>1, GetsProject, SMTT(30) DEF d
<1>3. CASE r.op = "CreateProject"
  <2>1. /\ restRoutes(b, d, r, e) = CreateProject(b, d, r, e)
        /\ Mount(b, d, r, e) = rpcCreateProject(b, d, r, e)
        /\ Api(b, a, r, e) = apiCreateProject(b, a, r, e)
    BY <1>3 DEF restRoutes, Mount, Api
  <2> QED BY <2>1, CreatesTheProject, SMTT(30) DEF d
<1>4. CASE r.op = "ListEnvironments"
  <2>1. /\ restRoutes(b, d, r, e) = ListEnvironments(b, d, r)
        /\ Mount(b, d, r, e) = rpcListEnvironments(b, d, r)
        /\ Api(b, a, r, e) = apiListEnvironments(a, r)
    BY <1>4 DEF restRoutes, Mount, Api
  <2> QED BY <2>1, ListsTheEnvironments, SMTT(30) DEF d
<1>5. CASE r.op = "GetEnvironment"
  <2>1. /\ restRoutes(b, d, r, e) = GetEnvironment(b, d, r)
        /\ Mount(b, d, r, e) = rpcGetEnvironment(b, d, r)
        /\ Api(b, a, r, e) = apiGetEnvironment(a, r)
    BY <1>5 DEF restRoutes, Mount, Api
  <2> QED BY <2>1, GetsEnvironment, SMTT(30) DEF d
<1>6. CASE r.op = "CreateEnvironment"
  <2>1. /\ restRoutes(b, d, r, e) = CreateEnvironment(b, d, r, e)
        /\ Mount(b, d, r, e) = rpcCreateEnvironment(b, d, r, e)
        /\ Api(b, a, r, e) = apiCreateEnvironment(b, a, r, e)
    BY <1>6 DEF restRoutes, Mount, Api
  <2> QED BY <2>1, CreatesTheEnvironment, SMTT(30) DEF d
<1>7. CASE r.op = "ListFlags"
  <2>1. /\ restRoutes(b, d, r, e) = ListFlags(b, d, r)
        /\ Mount(b, d, r, e) = rpcListFlags(b, d, r)
        /\ Api(b, a, r, e) = apiListFlags(a, r)
    BY <1>7 DEF restRoutes, Mount, Api
  <2> QED BY <2>1, ListsTheFlags, SMTT(30) DEF d
<1>8. CASE r.op = "GetFlag"
  <2>1. /\ restRoutes(b, d, r, e) = GetFlag(b, d, r)
        /\ Mount(b, d, r, e) = rpcGetFlag(b, d, r)
        /\ Api(b, a, r, e) = apiGetFlag(a, r)
    BY <1>8 DEF restRoutes, Mount, Api
  <2> QED BY <2>1, GetsFlag, SMTT(30) DEF d
<1>9. CASE r.op = "CreateFlag"
  <2>1. /\ restRoutes(b, d, r, e) = CreateFlag(b, d, r, e)
        /\ Mount(b, d, r, e) = rpcCreateFlag(b, d, r, e)
        /\ Api(b, a, r, e) = apiCreateFlag(b, a, r, e)
    BY <1>9 DEF restRoutes, Mount, Api
  <2> QED BY <2>1, CreatesTheFlag, SMTT(30) DEF d
<1>10. CASE r.op = "PublishFlagVersion"
  <2>1. /\ restRoutes(b, d, r, e) = PublishFlagVersion(b, d, r, e)
        /\ Mount(b, d, r, e) = rpcPublishFlagVersion(b, d, r, e)
        /\ Api(b, a, r, e) = apiPublishFlagVersion(b, a, r, e)
    BY <1>10 DEF restRoutes, Mount, Api
  <2>2. StructOrNull(r.source)
    BY <1>10 DEF Askable
  <2> QED BY <2>1, <2>2, PublishesTheVersion, SMTT(30) DEF d
<1>11. CASE r.op = "ListFlagVersions"
  <2>1. /\ restRoutes(b, d, r, e) = ListFlagVersions(b, d, r)
        /\ Mount(b, d, r, e) = rpcListFlagVersions(b, d, r)
        /\ Api(b, a, r, e) = apiListFlagVersions(a, r)
    BY <1>11 DEF restRoutes, Mount, Api
  <2> QED BY <2>1, ListsTheVersions, SMTT(30) DEF d
<1>12. CASE r.op = "ListSegments"
  <2>1. /\ restRoutes(b, d, r, e) = ListSegments(b, d, r)
        /\ Mount(b, d, r, e) = rpcListSegments(b, d, r)
        /\ Api(b, a, r, e) = apiListSegments(a, r)
    BY <1>12 DEF restRoutes, Mount, Api
  <2> QED BY <2>1, ListsTheSegments, SMTT(30) DEF d
<1>13. CASE r.op = "GetSegment"
  <2>1. /\ restRoutes(b, d, r, e) = GetSegment(b, d, r)
        /\ Mount(b, d, r, e) = rpcGetSegment(b, d, r)
        /\ Api(b, a, r, e) = apiGetSegment(a, r)
    BY <1>13 DEF restRoutes, Mount, Api
  <2> QED BY <2>1, GetsSegment, SMTT(30) DEF d
<1>14. CASE r.op = "CreateSegment"
  <2>1. /\ restRoutes(b, d, r, e) = CreateSegment(b, d, r, e)
        /\ Mount(b, d, r, e) = rpcCreateSegment(b, d, r, e)
        /\ Api(b, a, r, e) = apiCreateSegment(b, a, r, e)
    BY <1>14 DEF restRoutes, Mount, Api
  <2>2. StructOrNull(r.predicate)
    BY <1>14 DEF Askable
  <2> QED BY <2>1, <2>2, CreatesTheSegment, SMTT(30) DEF d
<1>15. CASE r.op = "UpdateSegment"
  <2>1. /\ restRoutes(b, d, r, e) = UpdateSegment(b, d, r, e)
        /\ Mount(b, d, r, e) = rpcUpdateSegment(b, d, r, e)
        /\ Api(b, a, r, e) = apiUpdateSegment(b, a, r, e)
    BY <1>15 DEF restRoutes, Mount, Api
  <2>2. StructOrNull(r.predicate)
    BY <1>15 DEF Askable
  <2> QED BY <2>1, <2>2, UpdatesTheSegment, SMTT(30) DEF d
<1>16. CASE r.op = "ListSnapshots"
  <2>1. /\ restRoutes(b, d, r, e) = ListSnapshots(b, d, r)
        /\ Mount(b, d, r, e) = rpcListSnapshots(b, d, r)
        /\ Api(b, a, r, e) = apiListSnapshots(a, r)
    BY <1>16 DEF restRoutes, Mount, Api
  <2>2. r.limit \in Nat
    BY <1>16 DEF Askable
  <2> QED BY <2>1, <2>2, ListsTheSnapshots, SMTT(30) DEF d
<1>17. CASE r.op = "GetLatestSnapshot"
  <2>1. /\ restRoutes(b, d, r, e) = GetLatestSnapshot(b, d, r)
        /\ Mount(b, d, r, e) = rpcGetLatestSnapshot(b, d, r)
        /\ Api(b, a, r, e) = apiGetLatestSnapshot(a, r)
    BY <1>17 DEF restRoutes, Mount, Api
  <2> QED BY <2>1, GetsLatestSnapshot, SMTT(30) DEF d
<1>18. CASE r.op = "GetSnapshot"
  <2>1. /\ restRoutes(b, d, r, e) = GetSnapshot(b, d, r)
        /\ Mount(b, d, r, e) = rpcGetSnapshot(b, d, r)
        /\ Api(b, a, r, e) = apiGetSnapshot(a, r)
    BY <1>18 DEF restRoutes, Mount, Api
  <2>2. CASE r.id = <<>>
    <3>1. ProjectBy(a, r.slug).err = "nil"
      BY <1>18, <2>2 DEF Common
    <3> QED BY <2>1, <2>2, <3>1, GetsNoSnapshot, SMTT(30) DEF d
  <2>3. CASE r.id # <<>>
    BY <2>1, <2>3, GetsSnapshot, SMTT(30) DEF d
  <2> QED BY <2>2, <2>3
<1>19. CASE r.op = "CompileSnapshot"
  <2>1. /\ restRoutes(b, d, r, e) = CompileSnapshot(b, d, r, e)
        /\ Mount(b, d, r, e) = rpcCompileSnapshot(b, d, r, e)
        /\ Api(b, a, r, e) = apiCompileSnapshot(b, a, r, e)
    BY <1>19 DEF restRoutes, Mount, Api
  <2> QED BY <2>1, CompilesTheSnapshot, SMTT(30) DEF d
<1>20. CASE r.op = "ListAuditEvents"
  <2>1. /\ restRoutes(b, d, r, e) = ListAuditEvents(b, d, r)
        /\ Mount(b, d, r, e) = rpcListAuditEvents(b, d, r)
        /\ Api(b, a, r, e) = apiListAuditEvents(b, a, r)
    BY <1>20 DEF restRoutes, Mount, Api
  <2>2. PageOK(r) /\ r.cursor = <<>>
    BY <1>20 DEF Askable, Common, PageOK, CursorOK
  <2> QED BY <2>1, <2>2, ListsTheLog, SMTT(30) DEF d
<1>21. CASE r.op = "Evaluate"
  <2>1. /\ restRoutes(b, d, r, e) = EvaluateFlag(b, d, r)
        /\ Mount(b, d, r, e) = rpcEvaluate(b, d, r)
        /\ Api(b, a, r, e) = apiEvaluate(a, r)
    BY <1>21 DEF restRoutes, Mount, Api
  <2>2. r.context.reason \in Reasons
    BY <1>21 DEF Askable
  <2> QED BY <2>1, <2>2, Evaluates, SMTT(30) DEF d
<1>22. CASE r.op = "EvaluateWithTrace"
  <2>1. /\ restRoutes(b, d, r, e) = EvaluateFlagWithTrace(b, d, r)
        /\ Mount(b, d, r, e) = rpcEvaluateWithTrace(b, d, r)
        /\ Api(b, a, r, e) = apiEvaluateWithTrace(a, r)
    BY <1>22 DEF restRoutes, Mount, Api
  <2>2. r.context.reason \in Reasons
    BY <1>22 DEF Askable
  <2> QED BY <2>1, <2>2, EvaluatesWithTrace, SMTT(30) DEF d
<1> QED BY <1>1, <1>2, <1>3, <1>4, <1>5, <1>6, <1>7, <1>8, <1>9, <1>10, <1>11, <1>12, <1>13,
     <1>14, <1>15, <1>16, <1>17, <1>18, <1>19, <1>20, <1>21, <1>22 DEF Askable, d
-----------------------------------------------------------------------------
(* The backends *)

\* Writes that come to the same on twins: what is inserted, and what is left.
SameWrite(w, u, timed) == w.err = u.err /\ w.val = u.val /\ Twins(w.a, u.a, timed)

\* A refusal leaves the contents alone.
LEMMA SameRefusals ==
    ASSUME NEW a, NEW c, NEW timed, Twins(a, c, timed), NEW err
    PROVE  SameWrite(Refusal(a, err), Refusal(c, err), timed)
<1> DEFINE w == Refusal(a, err)
           u == Refusal(c, err)
<1>1. w.err = err /\ w.a = a /\ w.val = <<>> /\ u.err = err /\ u.a = c /\ u.val = <<>>
  BY SMT DEF Refusal
<1> HIDE DEF w, u
<1>2. SameWrite(w, u, timed)
  BY <1>1 DEF SameWrite
<1> QED BY <1>2 DEF w, u

\* A row that takes the place of another, or of none.
LEMMA SameTables ==
    ASSUME NEW a, NEW c, NEW timed, Twins(a, c, timed), NEW t \in Shapes, NEW S
    PROVE  Twins([a EXCEPT ![t] = S], [c EXCEPT ![t] = S], timed)
<1> DEFINE x == [a EXCEPT ![t] = S]
           y == [c EXCEPT ![t] = S]
<1>1. Columns(a, TableNames) /\ Columns(c, TableNames) /\ t \in TableNames /\ t # "audit"
  BY DEF Twins, Shapes, TableNames
<1>2. /\ Columns(x, TableNames) /\ x[t] = S
      /\ \A n \in TableNames : n # t => x[n] = a[n]
  BY <1>1 DEF Columns
<1>3. /\ Columns(y, TableNames) /\ y[t] = S
      /\ \A n \in TableNames : n # t => y[n] = c[n]
  BY <1>1 DEF Columns
<1>4. x.audit = a.audit /\ y.audit = c.audit
  BY <1>1, <1>2, <1>3 DEF TableNames
<1> HIDE DEF x, y
<1>5. \A n \in Shapes : x[n] = y[n]
  BY <1>2, <1>3 DEF Twins, Shapes, TableNames
<1>6. Twins(x, y, timed)
  BY <1>2, <1>3, <1>4, <1>5 DEF Twins
<1> QED BY <1>6 DEF x, y

LEMMA SameInsertions ==
    ASSUME NEW a, NEW c, NEW timed, Twins(a, c, timed), NEW t \in Shapes, NEW x
    PROVE  SameWrite(Insertion(a, t, x), Insertion(c, t, x), timed)
<1>1. a[t] = c[t]
  BY DEF Twins
<1>2. CASE \E y \in a[t] : \A n \in Index(t) : y[n] = x[n]
  <2>1. Insertion(a, t, x) = Refusal(a, "unique") /\ Insertion(c, t, x) = Refusal(c, "unique")
    BY <1>1, <1>2 DEF Insertion
  <2> QED BY <2>1, SameRefusals
<1>3. CASE ~\E y \in a[t] : \A n \in Index(t) : y[n] = x[n]
  <2> DEFINE m == [a EXCEPT ![t] = a[t] \cup {x}]
             n == [c EXCEPT ![t] = a[t] \cup {x}]
  <2>1. /\ Insertion(a, t, x) = [err |-> "nil", a |-> m, val |-> <<x>>]
        /\ Insertion(c, t, x) = [err |-> "nil", a |-> n, val |-> <<x>>]
    BY <1>1, <1>3 DEF Insertion
  <2>2. Twins(m, n, timed)
    BY SameTables
  <2> HIDE DEF m, n
  <2> DEFINE w == Insertion(a, t, x)
             u == Insertion(c, t, x)
  <2>3. /\ w.err = "nil" /\ w.a = m /\ w.val = <<x>>
        /\ u.err = "nil" /\ u.a = n /\ u.val = <<x>>
    BY <2>1, SMT
  <2> HIDE DEF w, u
  <2>4. SameWrite(w, u, timed)
    BY <2>2, <2>3 DEF SameWrite
  <2> QED BY <2>4 DEF w, u
<1> QED BY <1>2, <1>3

\* What each creation comes to.
LEMMA SameCreations ==
    ASSUME NEW a, NEW c, NEW timed, Twins(a, c, timed)
    PROVE  /\ \A slug, name, strategy :
                 SameWrite(NewProject(a, slug, name, strategy),
                           NewProject(c, slug, name, strategy), timed)
           /\ \A project, slug, name :
                 SameWrite(NewEnvironment(a, project, slug, name),
                           NewEnvironment(c, project, slug, name), timed)
           /\ \A p : SameWrite(NewFlag(a, p), NewFlag(c, p), timed)
           /\ \A p : SameWrite(NewSegment(a, p), NewSegment(c, p), timed)
           /\ \A p : SameWrite(NewVersion(a, p), NewVersion(c, p), timed)
           /\ \A p : SameWrite(NewSnapshot(a, p), NewSnapshot(c, p), timed)
<1>1. \A t \in Shapes : \A x : SameWrite(Insertion(a, t, x), Insertion(c, t, x), timed)
  BY SameInsertions
<1>2. \A err : SameWrite(Refusal(a, err), Refusal(c, err), timed)
  BY SameRefusals
<1>3. ASSUME NEW slug, NEW name, NEW strategy
      PROVE  SameWrite(NewProject(a, slug, name, strategy),
                       NewProject(c, slug, name, strategy), timed)
  BY <1>1, <1>2 DEF NewProject, Shapes
<1>4. ASSUME NEW project, NEW slug, NEW name
      PROVE  SameWrite(NewEnvironment(a, project, slug, name),
                       NewEnvironment(c, project, slug, name), timed)
  BY <1>1 DEF NewEnvironment, Shapes
<1>5. ASSUME NEW p PROVE SameWrite(NewFlag(a, p), NewFlag(c, p), timed)
  BY <1>1, <1>2 DEF NewFlag, Shapes
<1>6. ASSUME NEW p PROVE SameWrite(NewSegment(a, p), NewSegment(c, p), timed)
  BY <1>1 DEF NewSegment, Shapes
<1>7. ASSUME NEW p PROVE SameWrite(NewVersion(a, p), NewVersion(c, p), timed)
  <2> DEFINE n == Following(VersionsOf(a, p.flag_id))
  <2>1. Following(VersionsOf(c, p.flag_id)) = n
    BY DEF Twins, Shapes, VersionsOf
  <2> HIDE DEF n
  <2>2. Following(VersionsOf(a, p.flag_id)) = n
    BY DEF n
  <2> QED BY <1>1, <2>1, <2>2 DEF NewVersion, Shapes
<1>8. ASSUME NEW p PROVE SameWrite(NewSnapshot(a, p), NewSnapshot(c, p), timed)
  <2> DEFINE n == Following(SnapshotsOf(a, p.project_id))
  <2>1. Following(SnapshotsOf(c, p.project_id)) = n
    BY DEF Twins, Shapes, SnapshotsOf
  <2> HIDE DEF n
  <2>2. Following(SnapshotsOf(a, p.project_id)) = n
    BY DEF n
  <2> QED BY <1>1, <2>1, <2>2 DEF NewSnapshot, Shapes
<1> QED BY <1>3, <1>4, <1>5, <1>6, <1>7, <1>8

\* And what a change of a segment comes to.
LEMMA SameChanges ==
    ASSUME NEW a, NEW c, NEW timed, Twins(a, c, timed), NEW p
    PROVE  SameWrite(ChangedSegment(a, p), ChangedSegment(c, p), timed)
<1> DEFINE old == SegmentsBy(a, p.project_id, p.key)
           s == CHOOSE s \in old : TRUE
           S == (a.segments \ {s}) \cup {Changed(s, p)}
           m == [a EXCEPT !.segments = S]
           n == [c EXCEPT !.segments = S]
<1>1. a.segments = c.segments
  BY DEF Twins, Shapes
<1>2. SegmentsBy(c, p.project_id, p.key) = old
  BY <1>1 DEF SegmentsBy
<1>3. CASE old = {}
  <2>1. /\ ChangedSegment(a, p) = Refusal(a, "no_rows")
        /\ ChangedSegment(c, p) = Refusal(c, "no_rows")
    BY <1>2, <1>3 DEF ChangedSegment
  <2> QED BY <2>1, SameRefusals
<1>4. CASE old # {}
  <2> DEFINE w == ChangedSegment(a, p)
             u == ChangedSegment(c, p)
  <2>1. w = Replacement(a, s, Changed(s, p))
    BY <1>4 DEF ChangedSegment
  <2>2. u = Replacement(c, s, Changed(s, p))
    <3> HIDE DEF old
    <3> QED BY <1>2, <1>4 DEF ChangedSegment
  <2>3. Replaced(a, s, Changed(s, p)) = m /\ Replaced(c, s, Changed(s, p)) = n
    <3> HIDE DEF s
    <3> QED BY <1>1 DEF Replaced
  <2>4. Twins(m, n, timed)
    <3> HIDE DEF S
    <3> QED BY SameTables DEF Shapes
  <2> HIDE DEF m, n, s
  <2>5. /\ w.err = "nil" /\ w.a = m /\ w.val = <<Changed(s, p)>>
        /\ u.err = "nil" /\ u.a = n /\ u.val = <<Changed(s, p)>>
    BY <2>1, <2>2, <2>3, SMT DEF Replacement
  <2> HIDE DEF w, u
  <2>6. SameWrite(w, u, timed)
    BY <2>4, <2>5 DEF SameWrite
  <2> QED BY <2>6 DEF w, u
<1> QED BY <1>3, <1>4

\* The times of a transaction: the backends' clocks are read at the same time,
\* if times are compared.
Clocked(e, timed) == e.start \in Nat /\ e.now \in Nat /\ (timed => e.start = e.now)

\* Adding an event's id to the image of a log.
LEMMA SeenAgain ==
    ASSUME NEW timed, NEW S, NEW x
    PROVE  {Seen(v, timed) : v \in S \cup {x}}
             = {Seen(v, timed) : v \in S} \cup {Seen(x, timed)}
OBVIOUS

\* The event of a request is seen alike.
LEMMA SameEvents ==
    ASSUME NEW timed, NEW ev, NEW e, Clocked(e, timed)
    PROVE  /\ Seen(AuditEvent("postgres", ev, e), timed)
                = Seen(AuditEvent("sqlite", ev, e), timed)
           /\ Columns(AuditEvent("postgres", ev, e), EventColumns)
           /\ Columns(AuditEvent("sqlite", ev, e), EventColumns)
           /\ AuditEvent("postgres", ev, e).id = e.id
           /\ AuditEvent("sqlite", ev, e).id = e.id
<1> DEFINE x == AuditEvent("postgres", ev, e)
           y == AuditEvent("sqlite", ev, e)
           g == Seen(x, timed)
           h == Seen(y, timed)
<1>1. Columns(x, EventColumns) /\ Columns(y, EventColumns)
  BY SMT DEF AuditEvent, Columns, EventColumns
<1>2. /\ x.id = y.id /\ x.project_id = y.project_id /\ x.flag_id = y.flag_id
      /\ x.action = y.action /\ x.actor = y.actor /\ x.payload = y.payload
      /\ x.created_at = e.start /\ y.created_at = 2 * (e.now \div 2)
      /\ x.id = e.id
  BY SMT DEF AuditEvent, Instant
<1> HIDE DEF x, y
<1>3. /\ Columns(g, EventColumns) /\ Columns(h, EventColumns)
      /\ g.id = x.id /\ g.project_id = x.project_id /\ g.flag_id = x.flag_id
      /\ g.action = x.action /\ g.actor = x.actor /\ g.payload = x.payload
      /\ h.id = y.id /\ h.project_id = y.project_id /\ h.flag_id = y.flag_id
      /\ h.action = y.action /\ h.actor = y.actor /\ h.payload = y.payload
      /\ g.created_at = IF timed THEN 2 * (x.created_at \div 2) ELSE 0
      /\ h.created_at = IF timed THEN 2 * (y.created_at \div 2) ELSE 0
  BY <1>1, SMT DEF Seen, Columns, EventColumns
<1> HIDE DEF g, h
<1>4. g.created_at = h.created_at
  BY <1>2, <1>3, SMT DEF Clocked
<1>5. g = h
  BY <1>2, <1>3, <1>4, SMT DEF Columns, EventColumns
<1> QED BY <1>1, <1>2, <1>5 DEF x, y, g, h

\* An id is taken in both logs or in neither.
Logged(a, i) == \E v \in a.audit : v.id = i
LEMMA SameIds ==
    ASSUME NEW a, NEW c, NEW timed, Twins(a, c, timed), NEW i
    PROVE  Logged(a, i) <=> Logged(c, i)
<1>1. \A v \in a.audit \cup c.audit : Seen(v, timed).id = v.id
  <2> SUFFICES ASSUME NEW v \in a.audit \cup c.audit
               PROVE  Seen(v, timed).id = v.id
    OBVIOUS
  <2>1. Columns(v, EventColumns)
    BY DEF Twins
  <2> QED BY <2>1, SMT DEF Seen, Columns, EventColumns
<1>2. {Seen(v, timed) : v \in a.audit} = {Seen(v, timed) : v \in c.audit}
  BY DEF Twins
<1>3. ASSUME NEW v \in a.audit PROVE \E w \in c.audit : w.id = v.id
  <2>1. Seen(v, timed) \in {Seen(w, timed) : w \in a.audit}
    OBVIOUS
  <2>2. Seen(v, timed) \in {Seen(w, timed) : w \in c.audit}
    BY <1>2, <2>1
  <2>3. PICK w \in c.audit : Seen(v, timed) = Seen(w, timed)
    BY <2>2
  <2> QED BY <1>1, <2>3
<1>4. ASSUME NEW v \in c.audit PROVE \E w \in a.audit : w.id = v.id
  <2>1. Seen(v, timed) \in {Seen(w, timed) : w \in c.audit}
    OBVIOUS
  <2>2. Seen(v, timed) \in {Seen(w, timed) : w \in a.audit}
    BY <1>2, <2>1
  <2>3. PICK w \in a.audit : Seen(v, timed) = Seen(w, timed)
    BY <2>2
  <2> QED BY <1>1, <2>3
<1> QED BY <1>3, <1>4 DEF Logged

\* An event is added to both logs or to neither.
LEMMA SameLogs ==
    ASSUME NEW a, NEW c, NEW timed, Twins(a, c, timed), NEW ev, NEW e, Clocked(e, timed)
    PROVE  LET x == Insertion(a, "audit", AuditEvent("postgres", ev, e))
               y == Insertion(c, "audit", AuditEvent("sqlite", ev, e))
           IN  x.err = y.err /\ Twins(x.a, y.a, timed)
<1> DEFINE v == AuditEvent("postgres", ev, e)
           w == AuditEvent("sqlite", ev, e)
<1>1. /\ Seen(v, timed) = Seen(w, timed)
      /\ Columns(v, EventColumns) /\ Columns(w, EventColumns)
      /\ v.id = e.id /\ w.id = e.id
  <2>1. Seen(v, timed) = Seen(w, timed)
    BY SameEvents
  <2>2. Columns(v, EventColumns) /\ Columns(w, EventColumns)
    BY SameEvents
  <2>3. v.id = e.id /\ w.id = e.id
    BY SMT DEF AuditEvent
  <2> HIDE DEF v, w
  <2> QED BY <2>1, <2>2, <2>3
<1> HIDE DEF v, w
<1> DEFINE x == Insertion(a, "audit", v)
           y == Insertion(c, "audit", w)
           taken(d, q) == \E z \in d.audit : \A k \in Index("audit") : z[k] = q[k]
<1>2. \A d, q : taken(d, q) <=> Logged(d, q.id)
  <2>1. Index("audit") = {"id"}
    BY SMT DEF Index
  <2> QED BY <2>1 DEF Logged
<1>3. \A d, q : Insertion(d, "audit", q)
                 = IF taken(d, q) THEN Refusal(d, "unique")
                   ELSE [err |-> "nil", a |-> [d EXCEPT !.audit = @ \cup {q}], val |-> <<q>>]
  BY DEF Insertion
<1>4. /\ taken(a, v) <=> Logged(a, e.id)
      /\ taken(c, w) <=> Logged(c, e.id)
  <2> HIDE DEF taken
  <2>1. taken(a, v) <=> Logged(a, e.id)
    BY <1>1, <1>2
  <2>2. taken(c, w) <=> Logged(c, e.id)
    BY <1>1, <1>2
  <2> QED BY <2>1, <2>2
<1> HIDE DEF taken
<1>5. CASE Logged(a, e.id)
  <2>1. Logged(c, e.id)
    BY <1>5, SameIds
  <2>2. taken(a, v) /\ taken(c, w)
    BY <1>5, <1>4, <2>1
  <2>3. x = Refusal(a, "unique") /\ y = Refusal(c, "unique")
    BY <1>3, <2>2
  <2>4. x.err = "unique" /\ x.a = a /\ y.err = "unique" /\ y.a = c
    BY <2>3, SMT DEF Refusal
  <2> HIDE DEF x, y
  <2>5. x.err = y.err /\ Twins(x.a, y.a, timed)
    BY <2>4
  <2> QED BY <2>5 DEF x, y, v, w
<1>6. CASE ~Logged(a, e.id)
  <2>1. ~Logged(c, e.id)
    BY <1>6, SameIds
  <2> DEFINE m == [a EXCEPT !.audit = @ \cup {v}]
             n == [c EXCEPT !.audit = @ \cup {w}]
  <2>2. ~taken(a, v) /\ ~taken(c, w)
    BY <1>6, <1>4, <2>1
  <2>3. /\ x = [err |-> "nil", a |-> m, val |-> <<v>>]
        /\ y = [err |-> "nil", a |-> n, val |-> <<w>>]
    BY <1>3, <2>2
  <2>4. Columns(a, TableNames) /\ Columns(c, TableNames)
    BY DEF Twins
  <2>5. /\ Columns(m, TableNames) /\ m.audit = a.audit \cup {v}
        /\ \A t \in Shapes : m[t] = a[t]
    BY <2>4 DEF Columns, TableNames, Shapes
  <2>6. /\ Columns(n, TableNames) /\ n.audit = c.audit \cup {w}
        /\ \A t \in Shapes : n[t] = c[t]
    BY <2>4 DEF Columns, TableNames, Shapes
  <2> HIDE DEF m, n
  <2>7. /\ {Seen(z, timed) : z \in a.audit \cup {v}}
             = {Seen(z, timed) : z \in a.audit} \cup {Seen(v, timed)}
        /\ {Seen(z, timed) : z \in c.audit \cup {w}}
             = {Seen(z, timed) : z \in c.audit} \cup {Seen(w, timed)}
    BY SeenAgain
  <2>8. {Seen(z, timed) : z \in m.audit} = {Seen(z, timed) : z \in n.audit}
    BY <1>1, <2>5, <2>6, <2>7 DEF Twins
  <2>9. \A z \in m.audit \cup n.audit : Columns(z, EventColumns)
    BY <1>1, <2>5, <2>6 DEF Twins
  <2>10. \A t \in Shapes : m[t] = n[t]
    BY <2>5, <2>6 DEF Twins
  <2>11. Twins(m, n, timed)
    BY <2>5, <2>6, <2>8, <2>9, <2>10 DEF Twins
  <2>12. x.err = "nil" /\ x.a = m /\ y.err = "nil" /\ y.a = n
    BY <2>3, SMT
  <2> HIDE DEF x, y
  <2>13. x.err = y.err /\ Twins(x.a, y.a, timed)
    BY <2>11, <2>12
  <2> QED BY <2>13 DEF x, y, v, w
<1> QED BY <1>5, <1>6

\* A write and its event come to the same.
LEMMA SameAudits ==
    ASSUME NEW a, NEW c, NEW timed, Twins(a, c, timed), NEW w, NEW u, SameWrite(w, u, timed),
           NEW ev, NEW e, Clocked(e, timed)
    PROVE  SameWrite(Audited("postgres", a, ev, w, e), Audited("sqlite", c, ev, u, e), timed)
<1> DEFINE x == Insertion(w.a, "audit", AuditEvent("postgres", ev, e))
           y == Insertion(u.a, "audit", AuditEvent("sqlite", ev, e))
<1>1. w.err = u.err /\ w.val = u.val /\ Twins(w.a, u.a, timed)
  BY DEF SameWrite
<1>2. x.err = y.err /\ Twins(x.a, y.a, timed)
  BY <1>1, SameLogs
<1> DEFINE g == Audited("postgres", a, ev, w, e)
           h == Audited("sqlite", c, ev, u, e)
           error == IF w.err # "nil" THEN w.err ELSE x.err
<1>3. /\ g = IF w.err = "nil" /\ x.err = "nil" THEN [err |-> "nil", a |-> x.a, val |-> w.val]
             ELSE Refusal(a, IF w.err # "nil" THEN w.err ELSE x.err)
      /\ h = IF u.err = "nil" /\ y.err = "nil" THEN [err |-> "nil", a |-> y.a, val |-> u.val]
             ELSE Refusal(c, IF u.err # "nil" THEN u.err ELSE y.err)
  BY DEF Audited
<1> HIDE DEF x, y
<1>4. CASE w.err = "nil" /\ x.err = "nil"
  <2>1. /\ g.err = "nil" /\ g.a = x.a /\ g.val = w.val
        /\ h.err = "nil" /\ h.a = y.a /\ h.val = u.val
    BY <1>1, <1>2, <1>3, <1>4, SMT
  <2> HIDE DEF g, h
  <2>2. SameWrite(g, h, timed)
    BY <1>1, <1>2, <2>1 DEF SameWrite
  <2> QED BY <2>2 DEF g, h
<1>5. CASE ~(w.err = "nil" /\ x.err = "nil")
  <2>1. g = Refusal(a, error) /\ h = Refusal(c, error)
    BY <1>1, <1>2, <1>3, <1>5
  <2> HIDE DEF g, h, error
  <2>2. SameWrite(g, h, timed)
    BY <2>1, SameRefusals
  <2> QED BY <2>2 DEF g, h
<1> QED BY <1>4, <1>5

\* So do the replies to it.
LEMMA SameOutcomes ==
    ASSUME NEW a, NEW c, NEW timed, Twins(a, c, timed), NEW w, NEW u, SameWrite(w, u, timed),
           NEW ev, NEW e, Clocked(e, timed), NEW t, NEW s
    PROVE  Same(apiWrite("postgres", a, t, ev, w, s, e),
                apiWrite("sqlite", c, t, ev, u, s, e), timed)
<1> DEFINE x == Audited("postgres", a, ev, w, e)
           y == Audited("sqlite", c, ev, u, e)
           g == Outcome(x, s, ToAPI(t, x.val[1]))
           h == Outcome(y, s, ToAPI(t, y.val[1]))
<1>1. SameWrite(x, y, timed)
  BY SameAudits
<1> HIDE DEF x, y
<1>2. x.err = y.err /\ x.val = y.val /\ Twins(x.a, y.a, timed)
  BY <1>1 DEF SameWrite
<1>3. /\ g.status = (IF x.err = "nil" THEN s ELSE ErrorStatus(x.err))
      /\ g.body = (IF x.err = "nil" THEN <<ToAPI(t, x.val[1])>> ELSE <<>>) /\ g.a = x.a
      /\ h.status = (IF y.err = "nil" THEN s ELSE ErrorStatus(y.err))
      /\ h.body = (IF y.err = "nil" THEN <<ToAPI(t, y.val[1])>> ELSE <<>>) /\ h.a = y.a
  BY SMT DEF Outcome, Reply
<1> HIDE DEF g, h
<1>4. Same(g, h, timed)
  BY <1>2, <1>3 DEF Same
<1> QED BY <1>4 DEF g, h, x, y, apiWrite

\* Every write of the interface comes to the same.
LEMMA SameWrites ==
    ASSUME NEW a, NEW c, NEW timed, Twins(a, c, timed), NEW r, NEW e, Clocked(e, timed)
    PROVE  /\ Same(apiCreateProject("postgres", a, r, e), apiCreateProject("sqlite", c, r, e),
                   timed)
           /\ Same(apiCreateEnvironment("postgres", a, r, e),
                   apiCreateEnvironment("sqlite", c, r, e), timed)
           /\ Same(apiCreateFlag("postgres", a, r, e), apiCreateFlag("sqlite", c, r, e), timed)
           /\ Same(apiCreateSegment("postgres", a, r, e), apiCreateSegment("sqlite", c, r, e),
                   timed)
           /\ Same(apiUpdateSegment("postgres", a, r, e), apiUpdateSegment("sqlite", c, r, e),
                   timed)
           /\ Same(apiPublishFlagVersion("postgres", a, r, e),
                   apiPublishFlagVersion("sqlite", c, r, e), timed)
           /\ Same(apiCompileSnapshot("postgres", a, r, e),
                   apiCompileSnapshot("sqlite", c, r, e), timed)
<1>1. \A s : Same(Refuse(s, a), Refuse(s, c), timed)
  BY SameReplies DEF Refuse
<1>2. \A t, ev, w, u, s :
          SameWrite(w, u, timed)
          => Same(apiWrite("postgres", a, t, ev, w, s, e),
                  apiWrite("sqlite", c, t, ev, u, s, e), timed)
  BY SameOutcomes
<1>3. \A s : ProjectBy(a, s) = ProjectBy(c, s)
  BY SameLookups
<1>4. \A p, k : FlagBy(a, p, k) = FlagBy(c, p, k)
  BY SameLookups
<1>5. Same(Reply(404, <<>>, a), Reply(404, <<>>, c), timed)
  BY SameReplies
<1>6. Same(apiCreateProject("postgres", a, r, e), apiCreateProject("sqlite", c, r, e), timed)
  <2>1. SameWrite(NewProject(a, r.slug, r.name, r.strategy),
                  NewProject(c, r.slug, r.name, r.strategy), timed)
    BY SameCreations
  <2> QED BY <1>1, <1>2, <2>1 DEF apiCreateProject
<1>7. Same(apiCreateEnvironment("postgres", a, r, e), apiCreateEnvironment("sqlite", c, r, e),
           timed)
  <2> DEFINE X(b, z, p) == apiWrite(b, z, "environments",
                                 Event(<<p.id>>, <<>>, "create_environment", r,
                                       [slug |-> r.environment]),
                                 NewEnvironment(z, p.id, r.environment, r.name), 201, e)
             S(b, z, f) == IF f.err = "nil" THEN X(b, z, f.val[1]) ELSE Reply(404, <<>>, z)
  <2>1. \A b, z : apiCreateEnvironment(b, z, r, e) = S(b, z, ProjectBy(z, r.slug))
    BY DEF apiCreateEnvironment, ForProject, Sought
  <2>2. ASSUME NEW p PROVE Same(X("postgres", a, p), X("sqlite", c, p), timed)
    <3>1. SameWrite(NewEnvironment(a, p.id, r.environment, r.name),
                    NewEnvironment(c, p.id, r.environment, r.name), timed)
      BY SameCreations
    <3> QED BY <1>2, <3>1
  <2> HIDE DEF X
  <2>3. \A f : Same(S("postgres", a, f), S("sqlite", c, f), timed)
    BY <1>5, <2>2
  <2> HIDE DEF S
  <2> QED BY <1>3, <2>1, <2>3
<1>8. Same(apiCreateFlag("postgres", a, r, e), apiCreateFlag("sqlite", c, r, e), timed)
  <2> DEFINE X(b, z, p) == apiWrite(b, z, "flags",
                                    Event(<<p.id>>, <<>>, "create_flag", r, [key |-> r.key]),
                                    NewFlag(z, FlagParams(p, r, r.value_type)), 201, e)
             S(b, z, f) == IF f.err = "nil" THEN X(b, z, f.val[1]) ELSE Reply(404, <<>>, z)
  <2>1. \A b, z : apiCreateFlag(b, z, r, e) = S(b, z, ProjectBy(z, r.slug))
    BY DEF apiCreateFlag, ForProject, Sought
  <2>2. ASSUME NEW p PROVE Same(X("postgres", a, p), X("sqlite", c, p), timed)
    <3>1. SameWrite(NewFlag(a, FlagParams(p, r, r.value_type)),
                    NewFlag(c, FlagParams(p, r, r.value_type)), timed)
      BY SameCreations
    <3> QED BY <1>2, <3>1
  <2> HIDE DEF X
  <2>3. \A f : Same(S("postgres", a, f), S("sqlite", c, f), timed)
    BY <1>5, <2>2
  <2> HIDE DEF S
  <2> QED BY <1>3, <2>1, <2>3
<1>9. Same(apiCreateSegment("postgres", a, r, e), apiCreateSegment("sqlite", c, r, e), timed)
  <2> DEFINE n == normalizePredicate(r.predicate)
             X(b, z, p) ==
               IF n.err # "nil" THEN Refuse(400, z)
               ELSE apiWrite(b, z, "segments",
                             Event(<<p.id>>, <<>>, "create_segment", r, [key |-> r.key]),
                             NewSegment(z, SegmentParams(p, r, n.val)), 201, e)
             S(b, z, f) == IF f.err = "nil" THEN X(b, z, f.val[1]) ELSE Reply(404, <<>>, z)
  <2>1. \A b, z : apiCreateSegment(b, z, r, e) = S(b, z, ProjectBy(z, r.slug))
    BY DEF apiCreateSegment, ForProject, Sought
  <2>2. ASSUME NEW p PROVE Same(X("postgres", a, p), X("sqlite", c, p), timed)
    <3>1. SameWrite(NewSegment(a, SegmentParams(p, r, n.val)),
                    NewSegment(c, SegmentParams(p, r, n.val)), timed)
      BY SameCreations
    <3> QED BY <1>1, <1>2, <3>1
  <2> HIDE DEF X
  <2>3. \A f : Same(S("postgres", a, f), S("sqlite", c, f), timed)
    BY <1>5, <2>2
  <2> HIDE DEF S
  <2> QED BY <1>3, <2>1, <2>3
<1>10. Same(apiUpdateSegment("postgres", a, r, e), apiUpdateSegment("sqlite", c, r, e), timed)
  <2> DEFINE n == normalizePredicate(r.predicate)
             X(b, z, p) ==
               IF n.err # "nil" THEN Refuse(400, z)
               ELSE apiWrite(b, z, "segments",
                             Event(<<p.id>>, <<>>, "update_segment", r, [key |-> r.key]),
                             ChangedSegment(z, SegmentParams(p, r, n.val)), 200, e)
             S(b, z, f) == IF f.err = "nil" THEN X(b, z, f.val[1]) ELSE Reply(404, <<>>, z)
  <2>1. \A b, z : apiUpdateSegment(b, z, r, e) = S(b, z, ProjectBy(z, r.slug))
    BY DEF apiUpdateSegment, ForProject, Sought
  <2>2. ASSUME NEW p PROVE Same(X("postgres", a, p), X("sqlite", c, p), timed)
    <3>1. SameWrite(ChangedSegment(a, SegmentParams(p, r, n.val)),
                    ChangedSegment(c, SegmentParams(p, r, n.val)), timed)
      BY SameChanges
    <3> QED BY <1>1, <1>2, <3>1
  <2> HIDE DEF X
  <2>3. \A f : Same(S("postgres", a, f), S("sqlite", c, f), timed)
    BY <1>5, <2>2
  <2> HIDE DEF S
  <2> QED BY <1>3, <2>1, <2>3
<1>11. Same(apiPublishFlagVersion("postgres", a, r, e),
            apiPublishFlagVersion("sqlite", c, r, e), timed)
  <2> DEFINE T(b, z, p, g) == IF g.err = "nil" THEN apiPublish(b, z, p, g.val[1], r, e)
                              ELSE Reply(404, <<>>, z)
             X(b, z, p) == T(b, z, p, FlagBy(z, p.id, r.key))
             S(b, z, f) == IF f.err = "nil" THEN X(b, z, f.val[1]) ELSE Reply(404, <<>>, z)
  <2>1. \A b, z : apiPublishFlagVersion(b, z, r, e) = S(b, z, ProjectBy(z, r.slug))
    BY DEF apiPublishFlagVersion, ForFlag, ForProject, Sought
  <2>2. ASSUME NEW p, NEW f
        PROVE  Same(apiPublish("postgres", a, p, f, r, e), apiPublish("sqlite", c, p, f, r, e),
                    timed)
    <3> DEFINE N(z, x) == NewVersion(z, PublishParams(f, r.strategy, r, <<r.source>>, x))
               P(b, z, res) ==
                 LET compiled == Compile(r.strategy, res.val[1])
                 IN  IF ~Valid(r.strategy) \/ res.err # "nil" THEN Refuse(400, z)
                     ELSE IF compiled.err # "nil" THEN Refuse(422, z)
                     ELSE apiWrite(b, z, "versions", PublishEvent(p, f, r.strategy, r),
                                   N(z, compiled.val), 200, e)
    <3>1. \A b, z : apiPublish(b, z, p, f, r, e)
                      = P(b, z, Resolution(z, p.id, PublishInput(r.strategy, r, r.source)))
      BY DEF apiPublish
    <3>2. \A i : Resolution(a, p.id, i) = Resolution(c, p.id, i)
      <4>1. \A q, k : SegmentBy(a, q, k) = SegmentBy(c, q, k)
        BY SameLookups
      <4>2. \A k : SegmentFor(a, p.id, k) = SegmentFor(c, p.id, k)
        BY <4>1 DEF SegmentFor
      <4> QED BY <4>2 DEF Resolution
    <3>3. \A x : SameWrite(N(a, x), N(c, x), timed)
      BY SameCreations
    <3> HIDE DEF N
    <3>4. \A res : Same(P("postgres", a, res), P("sqlite", c, res), timed)
      BY <1>1, <1>2, <3>3
    <3> HIDE DEF P
    <3> QED BY <3>1, <3>2, <3>4
  <2>3. \A p, g : Same(T("postgres", a, p, g), T("sqlite", c, p, g), timed)
    BY <1>5, <2>2
  <2> HIDE DEF T
  <2>4. \A p : Same(X("postgres", a, p), X("sqlite", c, p), timed)
    BY <1>4, <2>3
  <2> HIDE DEF X
  <2>5. \A f : Same(S("postgres", a, f), S("sqlite", c, f), timed)
    BY <1>5, <2>4
  <2> HIDE DEF S
  <2> QED BY <1>3, <2>1, <2>5
<1>12. Same(apiCompileSnapshot("postgres", a, r, e), apiCompileSnapshot("sqlite", c, r, e),
            timed)
  <2> DEFINE X(b, z, p) == apiCompile(b, z, p, r, e)
             S(b, z, f) == IF f.err = "nil" THEN X(b, z, f.val[1]) ELSE Reply(404, <<>>, z)
  <2>1. \A b, z : apiCompileSnapshot(b, z, r, e) = S(b, z, ProjectBy(z, r.slug))
    BY DEF apiCompileSnapshot, ForProject, Sought
  <2>2. ASSUME NEW p PROVE Same(X("postgres", a, p), X("sqlite", c, p), timed)
    <3> DEFINE N(z, env, u) == NewSnapshot(z, SnapshotParams(p, r, env, u))
               P(b, z, env, u) ==
                 IF r.environment # "" /\ env.err # "nil" THEN Refuse(400, z)
                 ELSE apiWrite(b, z, "snapshots", SnapshotEvent(p, r, u), N(z, env, u), 201, e)
    <3>1. \A b, z : apiCompile(b, z, p, r, e)
                      = P(b, z, EnvironmentBy(z, p.id, r.environment),
                          BundleOf(LatestVersions(z, p.id)))
      BY DEF apiCompile
    <3>2. /\ EnvironmentBy(a, p.id, r.environment) = EnvironmentBy(c, p.id, r.environment)
          /\ LatestVersions(a, p.id) = LatestVersions(c, p.id)
      <4>1. \A q, k : EnvironmentBy(a, q, k) = EnvironmentBy(c, q, k)
        BY SameLookups
      <4>2. \A q : LatestVersions(a, q) = LatestVersions(c, q)
        BY SameLookups
      <4> QED BY <4>1, <4>2
    <3>3. \A env, u : SameWrite(N(a, env, u), N(c, env, u), timed)
      BY SameCreations
    <3> HIDE DEF N
    <3>4. \A env, u : Same(P("postgres", a, env, u), P("sqlite", c, env, u), timed)
      BY <1>1, <1>2, <3>3
    <3> HIDE DEF P
    <3> QED BY <3>1, <3>2, <3>4
  <2> HIDE DEF X
  <2>3. \A f : Same(S("postgres", a, f), S("sqlite", c, f), timed)
    BY <1>5, <2>2
  <2> HIDE DEF S
  <2> QED BY <1>3, <2>1, <2>3
<1> QED BY <1>6, <1>7, <1>8, <1>9, <1>10, <1>11, <1>12

\* So does every request but the search of the log.
LEMMA SameAnswers ==
    ASSUME NEW a, NEW c, NEW timed, Twins(a, c, timed), NEW r, NEW e, Clocked(e, timed),
           Askable(r), r.op # "ListAuditEvents"
    PROVE  Same(Api("postgres", a, r, e), Api("sqlite", c, r, e), timed)
<1>1. CASE r.op = "ListProjects"
  <2>1. /\ Api("postgres", a, r, e) = apiListProjects(a, r)
        /\ Api("sqlite", c, r, e) = apiListProjects(c, r)
    BY <1>1 DEF Api
  <2> QED BY <2>1, SameReads
<1>2. CASE r.op = "GetProject"
  <2>1. /\ Api("postgres", a, r, e) = apiGetProject(a, r)
        /\ Api("sqlite", c, r, e) = apiGetProject(c, r)
    BY <1>2 DEF Api
  <2> QED BY <2>1, SameReads
<1>3. CASE r.op = "ListEnvironments"
  <2>1. /\ Api("postgres", a, r, e) = apiListEnvironments(a, r)
        /\ Api("sqlite", c, r, e) = apiListEnvironments(c, r)
    BY <1>3 DEF Api
  <2> QED BY <2>1, SameReads
<1>4. CASE r.op = "GetEnvironment"
  <2>1. /\ Api("postgres", a, r, e) = apiGetEnvironment(a, r)
        /\ Api("sqlite", c, r, e) = apiGetEnvironment(c, r)
    BY <1>4 DEF Api
  <2> QED BY <2>1, SameReads
<1>5. CASE r.op = "ListFlags"
  <2>1. /\ Api("postgres", a, r, e) = apiListFlags(a, r)
        /\ Api("sqlite", c, r, e) = apiListFlags(c, r)
    BY <1>5 DEF Api
  <2> QED BY <2>1, SameReads
<1>6. CASE r.op = "GetFlag"
  <2>1. /\ Api("postgres", a, r, e) = apiGetFlag(a, r)
        /\ Api("sqlite", c, r, e) = apiGetFlag(c, r)
    BY <1>6 DEF Api
  <2> QED BY <2>1, SameReads
<1>7. CASE r.op = "ListFlagVersions"
  <2>1. /\ Api("postgres", a, r, e) = apiListFlagVersions(a, r)
        /\ Api("sqlite", c, r, e) = apiListFlagVersions(c, r)
    BY <1>7 DEF Api
  <2> QED BY <2>1, SameReads
<1>8. CASE r.op = "ListSegments"
  <2>1. /\ Api("postgres", a, r, e) = apiListSegments(a, r)
        /\ Api("sqlite", c, r, e) = apiListSegments(c, r)
    BY <1>8 DEF Api
  <2> QED BY <2>1, SameReads
<1>9. CASE r.op = "GetSegment"
  <2>1. /\ Api("postgres", a, r, e) = apiGetSegment(a, r)
        /\ Api("sqlite", c, r, e) = apiGetSegment(c, r)
    BY <1>9 DEF Api
  <2> QED BY <2>1, SameReads
<1>10. CASE r.op = "ListSnapshots"
  <2>1. /\ Api("postgres", a, r, e) = apiListSnapshots(a, r)
        /\ Api("sqlite", c, r, e) = apiListSnapshots(c, r)
    BY <1>10 DEF Api
  <2> QED BY <2>1, SameReads
<1>11. CASE r.op = "GetLatestSnapshot"
  <2>1. /\ Api("postgres", a, r, e) = apiGetLatestSnapshot(a, r)
        /\ Api("sqlite", c, r, e) = apiGetLatestSnapshot(c, r)
    BY <1>11 DEF Api
  <2> QED BY <2>1, SameReads
<1>12. CASE r.op = "GetSnapshot"
  <2>1. /\ Api("postgres", a, r, e) = apiGetSnapshot(a, r)
        /\ Api("sqlite", c, r, e) = apiGetSnapshot(c, r)
    BY <1>12 DEF Api
  <2> QED BY <2>1, SameReads
<1>13. CASE r.op = "CreateProject"
  <2>1. /\ Api("postgres", a, r, e) = apiCreateProject("postgres", a, r, e)
        /\ Api("sqlite", c, r, e) = apiCreateProject("sqlite", c, r, e)
    BY <1>13 DEF Api
  <2> QED BY <2>1, SameWrites
<1>14. CASE r.op = "CreateEnvironment"
  <2>1. /\ Api("postgres", a, r, e) = apiCreateEnvironment("postgres", a, r, e)
        /\ Api("sqlite", c, r, e) = apiCreateEnvironment("sqlite", c, r, e)
    BY <1>14 DEF Api
  <2> QED BY <2>1, SameWrites
<1>15. CASE r.op = "CreateFlag"
  <2>1. /\ Api("postgres", a, r, e) = apiCreateFlag("postgres", a, r, e)
        /\ Api("sqlite", c, r, e) = apiCreateFlag("sqlite", c, r, e)
    BY <1>15 DEF Api
  <2> QED BY <2>1, SameWrites
<1>16. CASE r.op = "PublishFlagVersion"
  <2>1. /\ Api("postgres", a, r, e) = apiPublishFlagVersion("postgres", a, r, e)
        /\ Api("sqlite", c, r, e) = apiPublishFlagVersion("sqlite", c, r, e)
    BY <1>16 DEF Api
  <2> QED BY <2>1, SameWrites
<1>17. CASE r.op = "CreateSegment"
  <2>1. /\ Api("postgres", a, r, e) = apiCreateSegment("postgres", a, r, e)
        /\ Api("sqlite", c, r, e) = apiCreateSegment("sqlite", c, r, e)
    BY <1>17 DEF Api
  <2> QED BY <2>1, SameWrites
<1>18. CASE r.op = "UpdateSegment"
  <2>1. /\ Api("postgres", a, r, e) = apiUpdateSegment("postgres", a, r, e)
        /\ Api("sqlite", c, r, e) = apiUpdateSegment("sqlite", c, r, e)
    BY <1>18 DEF Api
  <2> QED BY <2>1, SameWrites
<1>19. CASE r.op = "CompileSnapshot"
  <2>1. /\ Api("postgres", a, r, e) = apiCompileSnapshot("postgres", a, r, e)
        /\ Api("sqlite", c, r, e) = apiCompileSnapshot("sqlite", c, r, e)
    BY <1>19 DEF Api
  <2> QED BY <2>1, SameWrites
<1>20. CASE r.op = "Evaluate"
  <2>1. /\ Api("postgres", a, r, e) = apiEvaluate(a, r)
        /\ Api("sqlite", c, r, e) = apiEvaluate(c, r)
    BY <1>20 DEF Api
  <2> QED BY <2>1, SameEvaluations
<1>21. CASE r.op = "EvaluateWithTrace"
  <2>1. /\ Api("postgres", a, r, e) = apiEvaluateWithTrace(a, r)
        /\ Api("sqlite", c, r, e) = apiEvaluateWithTrace(c, r)
    BY <1>21 DEF Api
  <2> QED BY <2>1, SameEvaluations
<1> QED BY <1>1, <1>2, <1>3, <1>4, <1>5, <1>6, <1>7, <1>8, <1>9, <1>10, <1>11, <1>12, <1>13,
     <1>14, <1>15, <1>16, <1>17, <1>18, <1>19, <1>20, <1>21 DEF Askable
-----------------------------------------------------------------------------
(* Either surface *)

\* Whichever surface is asked, the database keeps what the API promises.
LEMMA HandlesEither ==
    ASSUME StoreContract, NEW b, NEW a, ContentsOK(b, a), NEW r, Askable(r), Common(a, r),
           NEW e, EnvironOK(e),
           NEW surface
    PROVE  /\ ContentsOK(b, Api(b, a, r, e).a)
           /\ Handle(surface, b, Rows(b, a), r, e).db = Rows(b, Api(b, a, r, e).a)
<1> DEFINE y == Api(b, a, r, e)
           d == Rows(b, a)
<1>1. Answered(b, y, restRoutes(b, d, r, e), Mount(b, d, r, e))
  BY Handles, SMT
<1> HIDE DEF y, d
<1>2. /\ restRoutes(b, d, r, e).db = Rows(b, y.a) /\ Mount(b, d, r, e).db = Rows(b, y.a)
      /\ ContentsOK(b, y.a)
  BY <1>1, SMT DEF Answered
<1> QED BY <1>2 DEF Handle, y, d

\* What the surfaces answer, in terms of the API's reply.
LEMMA AnswersEither ==
    ASSUME StoreContract, NEW b, NEW a, ContentsOK(b, a), NEW r, Askable(r), Common(a, r),
           NEW e, EnvironOK(e)
    PROVE  LET y == Api(b, a, r, e)
               g == Handle("rest", b, Rows(b, a), r, e)
               h == Handle("rpc", b, Rows(b, a), r, e)
           IN  /\ g.status = y.status /\ g.body = y.body
               /\ h.status = Code(y.status) /\ h.body = Content(y.body)
<1> DEFINE y == Api(b, a, r, e)
           d == Rows(b, a)
           g == restRoutes(b, d, r, e)
           h == Mount(b, d, r, e)
<1>1. Answered(b, y, g, h)
  BY Handles, SMT
<1> HIDE DEF y, d, g, h
<1>2. /\ g.status = y.status /\ g.body = y.body
      /\ h.status = Code(y.status) /\ h.body = Content(y.body)
  BY <1>1, SMT DEF Answered
<1> QED BY <1>2 DEF Handle, y, d, g, h

\* A malformed snapshot id and an unknown project: each surface refuses the one
\* it looks at first (getSnapshot, SnapshotServer.GetSnapshot).
LEMMA RefusesSnapshot ==
    ASSUME StoreContract, NEW b, NEW a, ContentsOK(b, a), NEW r, r.op = "GetSnapshot",
           r.id = <<>>, ProjectBy(a, r.slug).err # "nil", NEW e
    PROVE  LET g == Handle("rest", b, Rows(b, a), r, e)
               h == Handle("rpc", b, Rows(b, a), r, e)
           IN  /\ g.status = 400 /\ g.body = <<>>
               /\ h.status = "not_found" /\ h.body = <<>>
<1> DEFINE d == Rows(b, a)
           found == ProjectBy(a, r.slug)
<1>1. storeGetProjectBySlug(b, d, r.slug) = found /\ FoundIn(b, "projects", found)
  BY FindsProject
<1> HIDE DEF d
<1>2. found.err = "not_found"
  BY <1>1 DEF FoundIn
<1> HIDE DEF found
<1>3. Handle("rest", b, d, r, e) = badRequest(d)
  <2>1. restRoutes(b, d, r, e) = GetSnapshot(b, d, r)
    BY DEF restRoutes
  <2>2. GetSnapshot(b, d, r) = badRequest(d)
    BY DEF GetSnapshot
  <2> QED BY <2>1, <2>2 DEF Handle
<1>4. Handle("rpc", b, d, r, e) = connectError("not_found", d)
  <2>1. Mount(b, d, r, e) = rpcGetSnapshot(b, d, r)
    BY DEF Mount
  <2>2. rpcGetSnapshot(b, d, r) = connectError("not_found", d)
    BY <1>1, <1>2 DEF rpcGetSnapshot, rpcInProject, OrError
  <2> QED BY <2>1, <2>2 DEF Handle
<1>5. badRequest(d).status = 400 /\ badRequest(d).body = <<>>
  BY SMT DEF badRequest, writeError
<1>6. /\ connectError("not_found", d).status = "not_found"
      /\ connectError("not_found", d).body = <<>>
  BY SMT DEF connectError, NewError, IsConflict
<1> QED BY <1>3, <1>4, <1>5, <1>6, SMT DEF d

\* Replies with the same content, and replies that list the same events.
SameReply(g, h) == g.status = h.status /\ g.body = h.body
SameLog(g, h) == g.status = h.status /\ Coarse(g.body) = Coarse(h.body)

\* Twins answer every request but those for the log alike.
LEMMA BackendsAnswerAlike ==
    ASSUME StoreContract, NEW a, NEW c, ContentsOK("postgres", a), ContentsOK("sqlite", c),
           NEW timed, Twins(a, c, timed), NEW r, Askable(r), r.op # "ListAuditEvents",
           NEW e, EnvironOK(e), Clocked(e, timed), NEW surface \in Surface
    PROVE  SameReply(Handle(surface, "postgres", Rows("postgres", a), r, e),
                     Handle(surface, "sqlite", Rows("sqlite", c), r, e))
<1> DEFINE G(s) == Handle(s, "postgres", Rows("postgres", a), r, e)
           H(s) == Handle(s, "sqlite", Rows("sqlite", c), r, e)
           y == Api("postgres", a, r, e)
           z == Api("sqlite", c, r, e)
<1> HIDE DEF G, H, y, z
<1>1. CASE r.op = "GetSnapshot" /\ r.id = <<>> /\ ProjectBy(a, r.slug).err # "nil"
  <2>1. ProjectBy(c, r.slug).err # "nil"
    <3>1. \A s : ProjectBy(a, s) = ProjectBy(c, s)
      BY SameLookups
    <3> QED BY <1>1, <3>1
  <2>2. /\ G("rest").status = 400 /\ G("rest").body = <<>>
        /\ G("rpc").status = "not_found" /\ G("rpc").body = <<>>
    <3>1. r.op = "GetSnapshot" /\ r.id = <<>> /\ ProjectBy(a, r.slug).err # "nil"
      BY <1>1
    <3>2. LET g == Handle("rest", "postgres", Rows("postgres", a), r, e)
              h == Handle("rpc", "postgres", Rows("postgres", a), r, e)
          IN  g.status = 400 /\ g.body = <<>> /\ h.status = "not_found" /\ h.body = <<>>
      BY <3>1, RefusesSnapshot, SMT
    <3> QED BY <3>2 DEF G
  <2>3. /\ H("rest").status = 400 /\ H("rest").body = <<>>
        /\ H("rpc").status = "not_found" /\ H("rpc").body = <<>>
    <3>1. r.op = "GetSnapshot" /\ r.id = <<>>
      BY <1>1
    <3>2. LET g == Handle("rest", "sqlite", Rows("sqlite", c), r, e)
              h == Handle("rpc", "sqlite", Rows("sqlite", c), r, e)
          IN  g.status = 400 /\ g.body = <<>> /\ h.status = "not_found" /\ h.body = <<>>
      BY <2>1, <3>1, RefusesSnapshot, SMT
    <3> QED BY <3>2 DEF H
  <2>4. /\ G("rest").status = H("rest").status /\ G("rest").body = H("rest").body
        /\ G("rpc").status = H("rpc").status /\ G("rpc").body = H("rpc").body
    BY <2>2, <2>3
  <2>5. G(surface).status = H(surface).status /\ G(surface).body = H(surface).body
    BY <2>4 DEF Surface
  <2> QED BY <2>5 DEF G, H, SameReply
<1>2. CASE ~(r.op = "GetSnapshot" /\ r.id = <<>> /\ ProjectBy(a, r.slug).err # "nil")
  <2>1. ProjectBy(a, r.slug) = ProjectBy(c, r.slug)
    <3>1. \A s : ProjectBy(a, s) = ProjectBy(c, s)
      BY SameLookups
    <3> QED BY <3>1
  <2>2. Common(a, r) /\ Common(c, r)
    <3>1. r.op = "GetSnapshot" /\ r.id = <<>> => ProjectBy(a, r.slug).err = "nil"
      BY <1>2
    <3>2. r.op = "GetSnapshot" /\ r.id = <<>> => ProjectBy(c, r.slug).err = "nil"
      BY <2>1, <3>1
    <3>3. r.op = "ListAuditEvents" => r.cursor = <<>>
      OBVIOUS
    <3> QED BY <3>1, <3>2, <3>3 DEF Common
  <2>3. y.status = z.status /\ y.body = z.body
    <3>1. Same(y, z, timed)
      BY SameAnswers DEF y, z
    <3> QED BY <3>1 DEF Same
  <2>4. /\ G("rest").status = y.status /\ G("rest").body = y.body
        /\ G("rpc").status = Code(y.status) /\ G("rpc").body = Content(y.body)
    BY <2>2, AnswersEither DEF y, G
  <2>5. /\ H("rest").status = z.status /\ H("rest").body = z.body
        /\ H("rpc").status = Code(z.status) /\ H("rpc").body = Content(z.body)
    BY <2>2, AnswersEither DEF z, H
  <2>6. G(surface).status = H(surface).status /\ G(surface).body = H(surface).body
    BY <2>3, <2>4, <2>5 DEF Surface
  <2> QED BY <2>6 DEF G, H, SameReply
<1> QED BY <1>1, <1>2

\* The logs of twins show the same events, millisecond by millisecond.
LEMMA LogsAlike ==
    ASSUME StoreContract, NEW a, NEW c, ContentsOK("postgres", a), ContentsOK("sqlite", c),
           Twins(a, c, TRUE), Short(a), Short(c), NEW r, Askable(r),
           r.op = "ListAuditEvents", Whole(r), NEW e, EnvironOK(e), NEW surface \in Surface
    PROVE  SameLog(Handle(surface, "postgres", Rows("postgres", a), r, e),
                   Handle(surface, "sqlite", Rows("sqlite", c), r, e))
<1> DEFINE G(s) == Handle(s, "postgres", Rows("postgres", a), r, e)
           H(s) == Handle(s, "sqlite", Rows("sqlite", c), r, e)
           y == Api("postgres", a, r, e)
           z == Api("sqlite", c, r, e)
           found == ProjectBy(a, r.slug)
           p == found.val[1]
           X == LogPage(EventList("postgres", a, LogQuery(p, r)), PageLimit(r))
           Z == LogPage(EventList("sqlite", c, LogQuery(p, r)), PageLimit(r))
<1> HIDE DEF G, H, y, z, found, X, Z
<1>1. r.limit = 0 /\ r.cursor = <<>> /\ r.from \in Nat /\ r.to \in Nat
      /\ r.from % 2 = 0 /\ r.to % 2 = 0
  BY DEF Whole, Askable, TicksPerMilli
<1>2. Common(a, r) /\ Common(c, r)
  BY <1>1 DEF Common
<1>3. /\ G("rest").status = y.status /\ G("rest").body = y.body
      /\ G("rpc").status = Code(y.status) /\ G("rpc").body = Content(y.body)
  BY <1>2, AnswersEither DEF y, G
<1>4. /\ H("rest").status = z.status /\ H("rest").body = z.body
      /\ H("rpc").status = Code(z.status) /\ H("rpc").body = Content(z.body)
  BY <1>2, AnswersEither DEF z, H
<1>5. ProjectBy(c, r.slug) = found
  <2>1. \A s : ProjectBy(a, s) = ProjectBy(c, s)
    BY SameLookups
  <2> QED BY <2>1 DEF found
<1>6. y = apiListAuditEvents("postgres", a, r) /\ z = apiListAuditEvents("sqlite", c, r)
  BY DEF y, z, Api
<1>7. CASE found.err # "nil"
  <2>1. y = Reply(404, <<>>, a) /\ z = Reply(404, <<>>, c)
    BY <1>5, <1>6, <1>7 DEF apiListAuditEvents, ForProject, Sought, found
  <2>2. y.status = z.status /\ y.body = <<>> /\ z.body = <<>>
    BY <2>1, SMT DEF Reply
  <2>3. /\ G("rest").status = H("rest").status /\ G("rest").body = H("rest").body
        /\ G("rpc").status = H("rpc").status /\ G("rpc").body = H("rpc").body
    BY <1>3, <1>4, <2>2
  <2>4. G(surface).status = H(surface).status /\ G(surface).body = H(surface).body
    BY <2>3 DEF Surface
  <2> QED BY <2>4 DEF G, H, SameLog
<1>8. CASE found.err = "nil"
  <2>1. y = Reply(200, <<X>>, a) /\ z = Reply(200, <<Z>>, c)
    BY <1>5, <1>6, <1>8 DEF apiListAuditEvents, ForProject, Sought, Show, found, X, Z
  <2>2. y.status = z.status /\ y.body = <<X>> /\ z.body = <<Z>>
    BY <2>1, SMT DEF Reply
  <2> DEFINE q == LogQuery(p, r)
             S == SeenFor("postgres", a, q)
             T == SeenFor("sqlite", c, q)
  <2>3. S = T
    <3>1. ByMillisecond(q)
      BY <1>1, SMT DEF LogQuery, ByMillisecond, CursorOf
    <3> HIDE DEF q
    <3> QED BY <3>1, SameSelections DEF SeenFor
  <2>4. Reports(X, S)
    <3> HIDE DEF p
    <3> QED BY <1>1, CoarseLog DEF X
  <2>5. Reports(Z, T)
    <3> HIDE DEF p
    <3> QED BY <1>1, CoarseLog DEF Z
  <2> HIDE DEF S, T
  <2>6. Coarse(<<X>>) = Coarse(<<Z>>) /\ Coarse(Content(<<X>>)) = Coarse(Content(<<Z>>))
    BY <2>3, <2>4, <2>5 DEF Reports
  <2>7. /\ G("rest").status = H("rest").status
        /\ Coarse(G("rest").body) = Coarse(H("rest").body)
        /\ G("rpc").status = H("rpc").status /\ Coarse(G("rpc").body) = Coarse(H("rpc").body)
    BY <1>3, <1>4, <2>2, <2>6
  <2>8. /\ G(surface).status = H(surface).status
        /\ Coarse(G(surface).body) = Coarse(H(surface).body)
    BY <2>7 DEF Surface
  <2> QED BY <2>8 DEF G, H, SameLog
<1> QED BY <1>7, <1>8

\* A project's row is found where its object is.
LEMMA KnownProject ==
    ASSUME NEW b, NEW a, ContentsOK(b, a), NEW slug, NEW row \in Rows(b, a).projects,
           row.slug = slug
    PROVE  ProjectBy(a, slug).err = "nil"
<1>1. PICK p \in a.projects : row = Row(b, "projects", p)
  BY DEF Rows, TableNames
<1>2. row.slug = p.slug
  BY <1>1, SMT DEF Row, ProjectRow
<1> DEFINE S == {q \in a.projects : q.slug = slug}
<1>3. S # {}
  BY <1>1, <1>2
<1>4. One(S) = [err |-> "nil", val |-> <<CHOOSE x \in S : TRUE>>]
  BY <1>3 DEF One
<1>5. One(S).err = "nil"
  BY <1>4, SMT
<1> QED BY <1>5 DEF ProjectBy

\* The answer g lists the newest of the events S.
ShowsEvents(g, S) == KeepsNewest(ItemsOf(g.body[1]), S)

\* A list without a limit has the newest of the events selected, on either
\* surface.
LEMMA ListsNewestEvents ==
    ASSUME StoreContract, NEW b, NEW a, ContentsOK(b, a), NEW r,
           r.op = "ListAuditEvents", r.limit = 0, r.cursor = <<>>, r.from \in Nat, r.to \in Nat,
           ProjectBy(a, r.slug).err = "nil", NEW e, EnvironOK(e), NEW surface \in Surface
    PROVE  ShowsEvents(Handle(surface, b, Rows(b, a), r, e),
                       EventsFor(b, a, LogQuery(ProjectBy(a, r.slug).val[1], r)))
<1> DEFINE found == ProjectBy(a, r.slug)
           p == found.val[1]
           x == LogPage(EventList(b, a, LogQuery(p, r)), PageLimit(r))
           y == Api(b, a, r, e)
           G(s) == Handle(s, b, Rows(b, a), r, e)
           V == EventsFor(b, a, LogQuery(p, r))
<1> HIDE DEF found, x, y, G, V
<1>1. Askable(r)
  <2>1. r.limit \in Nat
    BY SMT
  <2> QED BY <2>1 DEF Askable
<1>2. Common(a, r)
  BY DEF Common
<1>3. /\ G("rest").body = y.body /\ G("rpc").body = Content(y.body)
  BY <1>1, <1>2, AnswersEither DEF y, G
<1>4. y = Reply(200, <<x>>, a)
  <2>1. y = apiListAuditEvents(b, a, r)
    BY DEF y, Api
  <2>2. found.err = "nil"
    BY DEF found
  <2> QED BY <2>1, <2>2 DEF apiListAuditEvents, ForProject, Sought, Show, found, x
<1>5. y.body = <<x>> /\ <<x>> # <<>> /\ <<x>>[1] = x
  BY <1>4, SMT DEF Reply
<1>6. KeepsNewest(ItemsOf(x), V) /\ "next_cursor" \in DOMAIN x
  <2> HIDE DEF p
  <2> QED BY NewestPage DEF x, V
<1>7. Content(<<x>>)[1].items = x.items
  <2> DEFINE z == [items |-> x.items]
  <2>1. z.items = x.items
    OBVIOUS
  <2>2. Content(<<x>>) = <<z>>
    BY <1>5, <1>6 DEF Content
  <2>3. <<z>>[1] = z
    <3> HIDE DEF z
    <3> QED BY SMT
  <2> HIDE DEF z
  <2> QED BY <2>1, <2>2, <2>3
<1>8. G("rest").body[1].items = x.items /\ G("rpc").body[1].items = x.items
  BY <1>3, <1>5, <1>7
<1>9. G(surface).body[1].items = x.items
  BY <1>8 DEF Surface
<1>10. ShowsEvents(G(surface), V)
  BY <1>6, <1>9 DEF ShowsEvents, ItemsOf
<1> QED BY <1>10 DEF G, V, found

\* A project's row is the row of the project found under its slug.
LEMMA ProjectOfRow ==
    ASSUME StoreContract, NEW b, NEW a, ContentsOK(b, a), NEW row \in Rows(b, a).projects
    PROVE  /\ ProjectBy(a, row.slug).err = "nil"
           /\ ProjectBy(a, row.slug).val[1].id = <<row.slug>>
<1> DEFINE slug == row.slug
           S == {q \in a.projects : q.slug = slug}
           found == ProjectBy(a, slug)
           c == CHOOSE x \in S : TRUE
<1>1. found.err = "nil"
  BY KnownProject
<1>2. S # {}
  <2>1. PICK p \in a.projects : row = Row(b, "projects", p)
    BY DEF Rows, TableNames
  <2>2. row.slug = p.slug
    BY <2>1, SMT DEF Row, ProjectRow
  <2> QED BY <2>1, <2>2
<1>3. c \in S
  BY <1>2
<1>4. found = [err |-> "nil", val |-> <<c>>]
  BY <1>2 DEF ProjectBy, One
<1>5. c \in a.projects /\ c.slug = slug
  BY <1>3
<1> HIDE DEF c, S
<1>6. found.val[1] = c
  <2> HIDE DEF found
  <2> QED BY <1>4, SMT
<1>7. ProjectOK(c)
  BY <1>5 DEF ContentsOK, OK, TableNames
<1>8. c.id = <<slug>>
  BY <1>5, <1>7 DEF ProjectOK
<1> QED BY <1>1, <1>6, <1>8
=============================================================================
