----------------------------- MODULE MCSurfaces -----------------------------
(***************************************************************************)
(* Scenarios for Surfaces.  Each keeps to a part of the API, so that every *)
(* request meets every state of that part; "paging" has few requests and   *)
(* arbitrary ids and times.                                                *)
(***************************************************************************)
EXTENDS Surfaces

Boolean(v) == [type |-> "boolean", val |-> v]
Predicate(kind, arg) == Object([kind |-> kind, arg |-> arg])

Project(slug, strategy) ==
    [op |-> "CreateProject", slug |-> slug, name |-> "P", strategy |-> strategy,
     actor |-> "ann"]
Environment(slug, environment) ==
    [op |-> "CreateEnvironment", slug |-> slug, environment |-> environment,
     name |-> "E", actor |-> ""]
Flag(slug, key, type, default) ==
    [op |-> "CreateFlag", slug |-> slug, key |-> key, name |-> "F", description |-> "",
     value_type |-> type, default_value |-> default, actor |-> "ann"]
Publish(key, strategy, source, text) ==
    [op |-> "PublishFlagVersion", slug |-> "p", key |-> key, strategy |-> strategy,
     source |-> source, source_text |-> text, actor |-> "bob"]
Segment(op, key, predicate) ==
    [op |-> op, slug |-> "p", key |-> key, name |-> "S", description |-> "d",
     predicate |-> predicate, actor |-> ""]
Snapshot(slug, environment) ==
    [op |-> "CompileSnapshot", slug |-> slug, environment |-> environment, actor |-> "bob"]

Of(op, slug) == [op |-> op, slug |-> slug]
Keyed(op, key) == [op |-> op, slug |-> "p", key |-> key]
Audit(limit, action, actor, from, to) ==
    [Listing("p", limit, <<>>) EXCEPT !.action = action, !.actor_filter = actor,
                                      !.from = from, !.to = to]

\* Two contexts: a rule matched under a disjunction, and a rollout whose
\* percent and bucket are 0 and a rule that failed.
Node(kind, result, attr, value, expected, percent, bucket, children) ==
    [kind |-> kind, result |-> result, attr |-> attr, attr_value |-> value,
     expected |-> expected, expected_values |-> <<>>,
     pattern |-> IF kind = "matches" THEN "^a" ELSE "", salt |-> "",
     percent |-> percent, bucket |-> bucket,
     source |-> IF kind = "cel" THEN "a == 1" ELSE "", children |-> children]
Equal == Node("eq", TRUE, "a", <<Boolean(TRUE)>>, <<Boolean(TRUE)>>, 0, 0, <<>>)
In == Node("rollout", TRUE, "u", <<>>, <<>>, 50, 7, <<>>)
Like == Node("matches", FALSE, "a", <<Boolean(TRUE)>>, <<>>, 0, 0, <<>>)
Program == Node("cel", FALSE, "", <<>>, <<>>, 0, 0, <<>>)
Either == Node("any", TRUE, "", <<>>, <<>>, 0, 0, <<Like, Program, Equal, In>>)
Out == Node("rollout", FALSE, "u", <<>>, <<>>, 0, 0, <<>>)
MCTraceNode == {Equal, In, Like, Program, Either, Out}

Matched ==
    [value |-> Boolean(TRUE), reason |-> "rollout_in_bucket", rule_id |-> "r1",
     trace |-> [evaluated_rules |-> <<[rule_id |-> "r1", matched |-> TRUE, error |-> "",
                                       predicate |-> Either]>>,
                default_used |-> FALSE, matched_rule_id |-> "r1"]]
Defaulted ==
    [value |-> Boolean(FALSE), reason |-> "default", rule_id |-> "",
     trace |-> [evaluated_rules |-> <<[rule_id |-> "r1", matched |-> FALSE,
                                       error |-> "bad pattern", predicate |-> Out]>>,
                default_used |-> TRUE, matched_rule_id |-> ""]]
Evaluation(op, context) ==
    [op |-> op, slug |-> "p", key |-> "f", context |-> context]

Projects ==
    [writes |-> {Project("p", "json"), Project("q", "cel"), Project("p", "yaml"),
                 Environment("p", "e"), Environment("q", "e"),
                 Flag("p", "f", "boolean", Boolean(FALSE)),
                 Flag("q", "f", "date", Boolean(FALSE)), Flag("q", "g", "boolean", JsonNull)},
     reads |-> {[op |-> "ListProjects"]}
               \cup {Of(op, s) : op \in {"GetProject", "ListEnvironments", "ListFlags",
                                         "ListSegments", "GetLatestSnapshot"},
                                 s \in {"p", "q"}}
               \cup {[op |-> "GetEnvironment", slug |-> s, environment |-> "e"] : s \in {"p", "q"}}
               \cup {[op |-> "GetSnapshot", slug |-> "p", id |-> <<>>]}
               \cup {Audit(0, "", "", 0, 0), Audit(2, "", "", 0, 0),
                     Audit(0, "create_flag", "", 0, 0), Audit(0, "", "ann", 2, 4)},
     tools |-> {[tool |-> "list_projects"]}
               \cup {[tool |-> "list_flags", project_slug |-> s] : s \in {"p", "q"}},
     events |-> 5, shuffle |-> FALSE, pager |-> "none"]

Publishing ==
    [writes |-> {Project("p", "json"), Flag("p", "f", "boolean", Boolean(FALSE)),
                 Publish("f", "json", Tree("valid", ""), ""),
                 Publish("f", "json", Tree("valid", "s"), "kept"),
                 Publish("f", "cel", Tree("invalid", ""), ""),
                 Publish("f", "typescript", Tree("invalid", ""), "valid"),
                 Publish("f", "typescript", Tree("valid", ""), "invalid"),
                 Publish("f", "yaml", Tree("valid", ""), ""),
                 Publish("f", "json", JsonNull, ""),
                 Segment("CreateSegment", "s", Predicate("eq", "a")),
                 Segment("UpdateSegment", "s", Predicate("eq", "b")),
                 Segment("UpdateSegment", "s", Predicate("segment", "s")),
                 Segment("CreateSegment", "t", JsonNull)},
     reads |-> {Keyed(op, "f") : op \in {"GetFlag", "ListFlagVersions"}}
               \cup {Keyed("GetFlag", "g"), Keyed("GetSegment", "s"), Of("ListSegments", "p")}
               \cup {Evaluation(op, ctx) : op \in {"Evaluate", "EvaluateWithTrace"},
                                           ctx \in {Matched, Defaulted}}
               \cup {Audit(0, "publish_version", "", 0, 0), Audit(1, "", "bob", 0, 4)},
     tools |-> {[tool |-> "get_flag", project_slug |-> "p", flag_key |-> k] : k \in {"f", "g"}}
               \cup {[tool |-> "explain_evaluation", project_slug |-> "p",
                      flag_key |-> "f", context |-> Matched],
                     [tool |-> "search_audit_log", project_slug |-> "p", action |-> "",
                      actor |-> "bob", from |-> 2, to |-> 0, limit |-> 0, cursor |-> <<>>]},
     events |-> 6, shuffle |-> FALSE, pager |-> "none"]

Snapshots ==
    [writes |-> {Project("p", "json"), Flag("p", "f", "boolean", Boolean(FALSE)),
                 Flag("p", "g", "boolean", Boolean(FALSE)), Environment("p", "e"),
                 Publish("f", "json", Tree("valid", ""), ""),
                 Publish("f", "cel", Tree("other", ""), ""),
                 Publish("g", "typescript", Tree("invalid", ""), "valid"),
                 Snapshot("p", ""), Snapshot("p", "e"), Snapshot("q", "")},
     reads |-> {Of("GetLatestSnapshot", "p"), [op |-> "GetSnapshot", slug |-> "q", id |-> <<>>],
                [op |-> "GetSnapshot", slug |-> "p", id |-> <<>>]}
               \cup {[op |-> "ListSnapshots", slug |-> "p", limit |-> n] : n \in 0..2}
               \cup {[op |-> "GetSnapshot", slug |-> "p", id |-> <<"p", n>>] : n \in 1..2},
     tools |-> {}, events |-> 6, shuffle |-> FALSE, pager |-> "none"]

Paging(b) ==
    [writes |-> {Project("p", "json"), Snapshot("p", "")}, reads |-> {}, tools |-> {},
     events |-> 4, shuffle |-> TRUE, pager |-> b]

MCScenarios == {Projects, Publishing, Snapshots} \cup {Paging(b) : b \in Backend}
=============================================================================
