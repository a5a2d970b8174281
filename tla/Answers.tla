------------------------------ MODULE Answers ------------------------------
(***************************************************************************)
(* What the API surfaces and the tools can be asked, and when their        *)
(* answers agree.                                                          *)
(***************************************************************************)
EXTENDS Integers, Sequences, FiniteSets, Rest, Mcp

\* A request and what it meets, through either surface.
Surface == {"rest", "rpc"}
Handle(surface, b, d, r, e) ==
    IF surface = "rest" THEN restRoutes(b, d, r, e) ELSE Mount(b, d, r, e)

\* The requests that both surfaces can be asked.  A source or a predicate
\* that is neither null nor an object has no Struct to be sent as.  A limit
\* of 0 is one that is not given.
Reasons == {"default", "rule_matched", "rollout_in_bucket", "rollout_out_of_bucket",
            "type_mismatch", "error"}
StructOrNull(d) == d = JsonNull \/ d.type = "object"
Askable(r) ==
    /\ r.op \in {"ListProjects", "GetProject", "CreateProject", "ListEnvironments",
                 "GetEnvironment", "CreateEnvironment", "ListFlags", "GetFlag", "CreateFlag",
                 "PublishFlagVersion", "ListFlagVersions", "ListSegments", "GetSegment",
                 "CreateSegment", "UpdateSegment", "ListSnapshots", "GetLatestSnapshot",
                 "GetSnapshot", "CompileSnapshot", "ListAuditEvents", "Evaluate",
                 "EvaluateWithTrace"}
    /\ r.op = "PublishFlagVersion" => StructOrNull(r.source)
    /\ r.op \in {"CreateSegment", "UpdateSegment"} => StructOrNull(r.predicate)
    /\ r.op \in {"ListSnapshots", "ListAuditEvents"} => r.limit \in Nat
    /\ r.op = "ListAuditEvents" => r.from \in Nat /\ r.to \in Nat
    /\ r.op \in {"Evaluate", "EvaluateWithTrace"} => r.context.reason \in Reasons

\* The requests that write.
Writing == {"CreateProject", "CreateEnvironment", "CreateFlag", "PublishFlagVersion",
            "CreateSegment", "UpdateSegment", "CompileSnapshot"}

\* The calls of the tools.
Callable(in) ==
    /\ in.tool \in {"list_projects", "list_flags", "get_flag", "search_audit_log",
                    "explain_evaluation"}
    /\ in.tool = "search_audit_log" => in.limit \in Int /\ in.from \in Nat /\ in.to \in Nat
    /\ in.tool = "explain_evaluation" => in.context.reason \in Reasons

\* A page of the whole log.
Listing(slug, limit, cursor) ==
    [op |-> "ListAuditEvents", slug |-> slug, limit |-> limit, cursor |-> cursor,
     action |-> "", actor_filter |-> "", from |-> 0, to |-> 0]

Millisecond(t) == (t \div TicksPerMilli) * TicksPerMilli

\* Audit requests whose answer does not depend on the order of the events
\* in a millisecond, nor on a part of one, when the log is not cut short.
Whole(r) == r.limit = 0 /\ r.cursor = <<>>
            /\ r.from % TicksPerMilli = 0 /\ r.to % TicksPerMilli = 0

\* The search for what an event says of itself.
SearchFor(slug, a) ==
    [Listing(slug, 0, <<>>) EXCEPT
        !.action = a.action, !.actor_filter = IF a.actor = <<>> THEN "" ELSE a.actor[1],
        !.from = Millisecond(a.created_at), !.to = Millisecond(a.created_at) + TicksPerMilli]
-----------------------------------------------------------------------------
\* What an HTTP status says, as a Connect code.
Code(status) ==
    CASE status \in {200, 201} -> "ok"
      [] status = 404 -> "not_found"
      [] status = 409 -> "already_exists"
      [] status \in {400, 422} -> "invalid_argument"
      [] status = 500 -> "internal"

\* A body without the cursor, which only REST has.
Content(body) ==
    IF body # <<>> /\ "next_cursor" \in DOMAIN body[1]
    THEN <<[items |-> body[1].items]>> ELSE body

\* A list of audit events in whole milliseconds, its order forgotten.
Coarse(body) ==
    IF body = <<>> THEN {}
    ELSE {[body[1].items[i] EXCEPT !.created_at = Millisecond(@)] : i \in DOMAIN body[1].items}

\* REST and Connect answer alike and leave the same database behind.
Matches(rest, rpc) ==
    /\ rest.db = rpc.db
    /\ Code(rest.status) = rpc.status
    /\ Content(rest.body) = rpc.body

\* The REST request an MCP tool's call amounts to.
AsRest(in) ==
    CASE in.tool = "list_projects" -> [op |-> "ListProjects"]
      [] in.tool = "list_flags" -> [op |-> "ListFlags", slug |-> in.project_slug]
      [] in.tool = "get_flag" ->
            [op |-> "GetFlag", slug |-> in.project_slug, key |-> in.flag_key]
      [] in.tool = "explain_evaluation" ->
            [op |-> "EvaluateWithTrace", slug |-> in.project_slug, key |-> in.flag_key,
             context |-> in.context]
      [] in.tool = "search_audit_log" ->
            [Listing(in.project_slug, normalizeLimit(in.limit), in.cursor) EXCEPT
                !.action = in.action, !.actor_filter = in.actor,
                !.from = in.from, !.to = in.to]

\* A call that asks for no later page: the tool takes a cursor "from a prior
\* response" (mcp/tools/audit.go), but the Connect service it calls answers none
\* and reads none, so that only REST would turn the page.
FirstPage(in) == in.tool = "search_audit_log" => in.cursor = <<>>

\* A tool tells what REST tells.
Tells(in, tool, rest) ==
    /\ tool.is_error <=> rest.body = <<>>
    /\ ~tool.is_error =>
        IF in.tool = "get_flag"
        THEN /\ tool.content[1].flag = rest.body[1].flag
             /\ tool.content[1].published_version = rest.body[1].latest_version
             /\ tool.content[1].note <=> rest.body[1].latest_version = <<>>
        ELSE tool.content = Content(rest.body)
=============================================================================
