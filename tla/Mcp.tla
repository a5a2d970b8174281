-------------------------------- MODULE Mcp --------------------------------
(***************************************************************************)
(* The tools of the MCP server (internal/mcp/tools) that ask the control   *)
(* plane: each is a Connect call and what becomes of its answer.           *)
(* validate_config, which asks nothing, is in Rules.                       *)
(***************************************************************************)
EXTENDS Rpc

toolError(text) == [is_error |-> TRUE, text |-> text, content |-> <<>>]

connectErrToToolResult(code) ==
    toolError(CASE code = "not_found" -> "not found"
                [] code = "invalid_argument" -> "invalid argument"
                [] OTHER -> "upstream error")

marshalProto(msg) == [is_error |-> FALSE, text |-> "", content |-> <<msg>>]

\* The answer to a call, or the tool's error.
Relay(reply, Shape(_)) ==
    IF reply.status # "ok" THEN connectErrToToolResult(reply.status)
    ELSE marshalProto(Shape(reply.body[1]))

listProjects(b, db, in) ==
    Relay(rpcListProjects(b, db, in), LAMBDA m : m)

listFlags(b, db, in) ==
    Relay(rpcListFlags(b, db, [slug |-> in.project_slug]), LAMBDA m : m)

\* Mutant: the note is left in place when there is a version.
getFlagNoted(b, db, in) ==
    Relay(rpcGetFlag(b, db, [slug |-> in.project_slug, key |-> in.flag_key]),
          LAMBDA m : [flag |-> m.flag, published_version |-> m.latest_version,
                      note |-> TRUE])

\* A flag that was never published comes with a note that says so.
getFlag(b, db, in) ==
    Relay(rpcGetFlag(b, db, [slug |-> in.project_slug, key |-> in.flag_key]),
          LAMBDA m : [flag |-> m.flag, published_version |-> m.latest_version,
                      note |-> m.latest_version = <<>>])

normalizeLimit(n) == IF n <= 0 THEN 50 ELSE IF n > 200 THEN 200 ELSE n

\* A time is a number here, 0 when it is not given, -1 when it does not parse.
\* The cursor is passed on to Connect, which reads none.
searchAuditLog(b, db, in) ==
    IF in.from < 0 \/ in.to < 0 THEN toolError("invalid timestamp")
    ELSE Relay(rpcListAuditEvents(b, db,
                   [slug |-> in.project_slug, limit |-> normalizeLimit(in.limit),
                    action |-> in.action, actor_filter |-> in.actor,
                    from |-> in.from, to |-> in.to, cursor |-> in.cursor]), LAMBDA m : m)

explainEvaluation(b, db, in) ==
    Relay(rpcEvaluateWithTrace(b, db, [slug |-> in.project_slug, key |-> in.flag_key,
                                      context |-> in.context]), LAMBDA m : m)

Register(b, db, in) ==
    CASE in.tool = "list_projects" -> listProjects(b, db, in)
      [] in.tool = "list_flags" -> listFlags(b, db, in)
      [] in.tool = "get_flag" -> getFlag(b, db, in)
      [] in.tool = "search_audit_log" -> searchAuditLog(b, db, in)
      [] in.tool = "explain_evaluation" -> explainEvaluation(b, db, in)
=============================================================================
