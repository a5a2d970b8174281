-------------------------------- MODULE Rules --------------------------------
(***************************************************************************)
(* From the source of a flag to a decision: segments are inlined into the  *)
(* source, a strategy's compiler checks it, the compiled tree is stored,   *)
(* and it is compiled again and evaluated, by Go and by the JavaScript     *)
(* SDK.                                                                    *)
(*                                                                         *)
(* The rows, their versions and the requests that race for them are the    *)
(* subject of ControlPlane.  Here there is one project with one flag, a    *)
(* request is one step, and what counts is what the request says.          *)
(***************************************************************************)
EXTENDS Predicates, FiniteSets

CONSTANTS
  SegKey,    \* keys of segments
  Bodies,    \* for each key, the predicates that are written to the segment
  Requests,  \* what is published and validated
  Contexts,  \* what is evaluated
  StackDepth \* bound: nested inlinings that fit on a goroutine's stack

Strategy == {"json", "cel", "typescript"}

\* The kinds of text a compiler is given: a JSON rules tree; other JSON or no
\* JSON at all; a TypeScript program that exports the tree; one that esbuild
\* refuses, that throws, runs for over a second, exports nothing, or is too long.
Form == {"json", "malformed", "ts", "broken"}

ASSUME RulesAssumption ==
  /\ Contexts \subseteq Context
  /\ StackDepth \in Nat
  /\ \A r \in Requests : r.strategy \in Strategy /\ r.form \in Form

VARIABLES
  segments, \* the predicate of each segment
  version,  \* the flag's newest version
  answer,   \* the answer to the last request
  alive     \* whether the API server runs

vars == <<segments, version, answer, alive>>

NoPredicate == [kind |-> "nil"]
NoVersion == [strategy |-> "none"]
NoDecision == Decision(Missing, "none", 0)

Said(status) == [status |-> status, decision |-> NoDecision]

-----------------------------------------------------------------------------
(* internal/config: predicates *)

Children(p) ==
  CASE p.kind \in {"all", "any"} -> p.of
    [] p.kind = "not"            -> <<p.of_one>>
    [] OTHER                     -> <<>>

RECURSIVE Nodes(_)

\* All nodes of a predicate.
Nodes(p) ==
  LET cs == Children(p) IN {p} \cup UNION {Nodes(cs[i]) : i \in DOMAIN cs}

WellFormed(q, allowCEL) ==
  CASE q.kind \in {"eq", "neq", "gt", "gte", "lt", "lte", "starts_with"} ->
         q.attr \in Attr /\ q.value # Missing
    [] q.kind = "in"           -> q.attr \in Attr /\ q.values # <<>>
    [] q.kind = "matches"      -> q.attr \in Attr /\ q.pattern.go >= 0
    [] q.kind = "rollout"      -> /\ q.attr \in Attr /\ q.salt \in Salt
                                  /\ q.percent \in 0 .. 100
    [] q.kind \in {"all", "any"} -> q.of # <<>>
    [] q.kind = "not"          -> q.of_one # NoPredicate
    [] q.kind = "cel"          -> allowCEL
    [] q.kind = "always"       -> TRUE
    [] q.kind = "segment"      -> q.key \in SegKey
    [] OTHER                   -> FALSE

validatePredicate(p, allowCEL) == \A q \in Nodes(p) : WellFormed(q, allowCEL)

\* walkAndCompile: cel-go must accept the source, and its type must be bool.
CompilesInGo(source) == source.go # Missing

compilePredicates(tree) ==
  \A i \in DOMAIN tree.rules : \A q \in Nodes(tree.rules[i].when) :
    q.kind = "cel" => CompilesInGo(q.source)

validateTreeWith(tree, allowCEL) ==
  /\ tree.value_type \in ValueType
  /\ tree.default # Missing
  /\ \A i \in DOMAIN tree.rules :
       LET r == tree.rules[i]
       IN  /\ r.id # 0
           /\ r.value # Missing
           /\ r.when # NoPredicate
           /\ validatePredicate(r.when, allowCEL)

-----------------------------------------------------------------------------
(* internal/config: compilers.  The IR is the tree itself.  A source without *)
(* rules is a tree that is not listed: its rules are nil, written as null.   *)

jsonCompile(form, tree) == form = "json" /\ validateTreeWith(tree, FALSE)

celCompile(form, tree) ==
  form = "json" /\ validateTreeWith(tree, TRUE) /\ compilePredicates(tree)

\* Mutant: the rules of JSON apply, which knows no CEL.
tryRehydrateIRAsJson(form, tree) == form = "json" /\ validateTreeWith(tree, FALSE)

\* JSON that is not a valid tree is no TypeScript either.
tryRehydrateIR(form, tree) ==
  form = "json" /\ validateTreeWith(tree, TRUE) /\ compilePredicates(tree)

compileTypescript(form, tree) ==
  \/ tryRehydrateIR(form, tree)
  \/ form = "ts" /\ validateTreeWith(tree, TRUE) /\ compilePredicates(tree)

Compile(strategy, form, tree) ==
  CASE strategy = "json"       -> jsonCompile(form, tree)
    [] strategy = "cel"        -> celCompile(form, tree)
    [] strategy = "typescript" -> compileTypescript(form, tree)

-----------------------------------------------------------------------------
(* internal/config: segments *)

RECURSIVE resolveError(_, _, _)

\* How inlining the references of p ends: "ok", at a segment that does not
\* exist, or never, because a reference leads back to itself.
resolveError(p, segs, depth) ==
  IF p.kind = "segment"
  THEN IF depth = 0 THEN "overflow"
       ELSE IF p.key \notin DOMAIN segs \/ segs[p.key] = NoPredicate THEN "missing"
       ELSE resolveError(segs[p.key], segs, depth - 1)
  ELSE LET cs == Children(p)
           es == [i \in DOMAIN cs |-> resolveError(cs[i], segs, depth)]
           i == FirstIn(es, {"missing", "overflow"})
       IN  IF i = 0 THEN "ok" ELSE es[i]

RECURSIVE resolveOne(_, _)

\* Mutant: the negation around a reference is lost.
resolveOneUnnegated(p, segs) ==
  CASE p.kind = "segment" -> resolveOne(segs[p.key], segs)
    [] p.kind \in {"all", "any"} ->
         [p EXCEPT !.of = [i \in DOMAIN p.of |-> resolveOne(p.of[i], segs)]]
    [] p.kind = "not" -> resolveOne(p.of_one, segs)
    [] OTHER -> p

resolveOne(p, segs) ==
  CASE p.kind = "segment" -> resolveOne(segs[p.key], segs)
    [] p.kind \in {"all", "any"} ->
         [p EXCEPT !.of = [i \in DOMAIN p.of |-> resolveOne(p.of[i], segs)]]
    [] p.kind = "not" -> [p EXCEPT !.of_one = resolveOne(p.of_one, segs)]
    [] OTHER -> p

\* Mutant: a rule without a predicate is dropped instead of kept.
ResolveSegmentsLenient(tree, segs) ==
  LET HasWhen(r) == r.when # NoPredicate
      rules == SelectSeq(tree.rules, HasWhen)
  IN  [tree EXCEPT !.rules = [i \in DOMAIN rules |->
         [rules[i] EXCEPT !.when = resolveOne(rules[i].when, segs)]]]

ResolveSegments(tree, segs) ==
  [tree EXCEPT !.rules = [i \in DOMAIN tree.rules |->
     [tree.rules[i] EXCEPT !.when = resolveOne(tree.rules[i].when, segs)]]]

ResolveOutcome(tree, segs) ==
  LET es == [i \in DOMAIN tree.rules |->
               resolveError(tree.rules[i].when, segs, StackDepth)]
      i == FirstIn(es, {"missing", "overflow"})
  IN  IF i = 0 THEN "ok" ELSE es[i]

\* Only a source that is JSON is searched for references.
resolveSegmentRefs(form, tree, segs) ==
  IF form = "json" THEN ResolveSegments(tree, segs) ELSE tree

\* A segment may not be a reference itself; CEL is allowed in it.
normalizePredicate(p) == p.kind # "segment" /\ validatePredicate(p, TRUE)

-----------------------------------------------------------------------------
(* internal/eval and evaluator.ts: trees of predicates *)

\* all and any stop at the first child that settles the answer.
Conjoined(os) == LET i == FirstIn(os, {"false", "error"})
                 IN  IF i = 0 THEN "true" ELSE os[i]
Disjoined(os) == LET i == FirstIn(os, {"true", "error"})
                 IN  IF i = 0 THEN "false" ELSE os[i]

RECURSIVE match(_, _), traceMatch(_, _), JsMatch(_, _)

match(p, ctx) ==
  LET os == [i \in DOMAIN Children(p) |-> match(Children(p)[i], ctx)]
  IN  CASE p.kind = "all" -> Conjoined(os)
        [] p.kind = "any" -> Disjoined(os)
        [] p.kind = "not" -> Negated(os[1])
        [] OTHER          -> matchLeaf(p, ctx)

\* Mutant: any is traced as all.
traceMatchConjoined(p, ctx) ==
  LET os == [i \in DOMAIN Children(p) |-> traceMatch(Children(p)[i], ctx)]
      Erred == \E i \in DOMAIN os : os[i] = "error"
  IN  CASE p.kind \in {"all", "any"} -> IF Erred THEN "error" ELSE Conjoined(os)
        [] p.kind = "not" -> Negated(os[1])
        [] OTHER          -> matchLeaf(p, ctx)

\* The trace visits every child, so an error anywhere is an error.
traceMatch(p, ctx) ==
  LET os == [i \in DOMAIN Children(p) |-> traceMatch(Children(p)[i], ctx)]
      Erred == \E i \in DOMAIN os : os[i] = "error"
  IN  CASE p.kind = "all" -> IF Erred THEN "error" ELSE Conjoined(os)
        [] p.kind = "any" -> IF Erred THEN "error" ELSE Disjoined(os)
        [] p.kind = "not" -> Negated(os[1])
        [] OTHER          -> matchLeaf(p, ctx)

JsMatch(p, ctx) ==
  LET os == [i \in DOMAIN Children(p) |-> JsMatch(Children(p)[i], ctx)]
  IN  CASE p.kind = "all" -> Conjoined(os)
        [] p.kind = "any" -> Disjoined(os)
        [] p.kind = "not" -> Negated(os[1])
        [] OTHER          -> JsMatchLeaf(p, ctx)

Evaluate(tree, ctx) ==
  Decide(tree, [i \in DOMAIN tree.rules |-> match(tree.rules[i].when, ctx)])

EvaluateWithTrace(tree, ctx) ==
  DecideTraced(tree,
    [i \in DOMAIN tree.rules |-> traceMatch(tree.rules[i].when, ctx)])

JsEvaluate(tree, ctx) ==
  Decide(tree, [i \in DOMAIN tree.rules |-> JsMatch(tree.rules[i].when, ctx)])

\* compile in evaluator.ts maps over the rules and parses every CEL source with
\* cel-lite, and throws when there is no list or a source does not parse.
JsCompile(tree) ==
  /\ tree.listed
  /\ \A i \in DOMAIN tree.rules : \A q \in Nodes(tree.rules[i].when) :
       q.kind = "cel" => q.source.js # Missing

-----------------------------------------------------------------------------
(* Handlers *)

Init ==
  /\ segments = [k \in SegKey |-> NoPredicate]
  /\ version = NoVersion
  /\ answer = Said("none")
  /\ alive = TRUE

\* CreateSegment and UpdateSegment.
WriteSegment(k, p) ==
  /\ alive
  /\ IF normalizePredicate(p)
     THEN segments' = [segments EXCEPT ![k] = p] /\ answer' = Said("ok")
     ELSE answer' = Said("bad_request") /\ UNCHANGED segments
  /\ UNCHANGED <<version, alive>>

\* PublishFlagVersion.  A cycle of references exhausts the stack, which Go
\* cannot recover from.  What was requested, and which segments there were, is
\* kept with the version for the properties.
PublishFlagVersion(r) ==
  LET outcome == IF r.form = "json" THEN ResolveOutcome(r.tree, segments) ELSE "ok"
      tree == resolveSegmentRefs(r.form, r.tree, segments)
  IN  /\ alive
      /\ CASE outcome = "overflow" ->
                alive' = FALSE /\ UNCHANGED <<version, answer>>
           [] outcome = "missing" ->
                answer' = Said("bad_request") /\ UNCHANGED <<version, alive>>
           [] outcome = "ok" /\ ~Compile(r.strategy, r.form, tree) ->
                answer' = Said("compile_error") /\ UNCHANGED <<version, alive>>
           [] OTHER ->
                /\ version' = [strategy |-> r.strategy, tree |-> tree,
                               request |-> r, segments |-> segments]
                /\ answer' = Said("ok")
                /\ UNCHANGED alive
      /\ UNCHANGED segments

\* The version is compiled again, from JSON, before each evaluation.
loadEvaluation ==
  CASE version = NoVersion -> "not_found"
    [] version # NoVersion /\ ~Compile(version.strategy, "json", version.tree) ->
         "internal"
    [] OTHER -> "ok"

\* EvaluateFlag and EvaluateFlagWithTrace; Decider is the evaluator they call.
AnswerWith(Decider(_, _), ctx) ==
  /\ alive
  /\ answer' = IF loadEvaluation = "ok"
               THEN [status |-> "ok", decision |-> Decider(version.tree, ctx)]
               ELSE Said(loadEvaluation)
  /\ UNCHANGED <<segments, version, alive>>

EvaluateFlag(ctx) == AnswerWith(Evaluate, ctx)
EvaluateFlagWithTrace(ctx) == AnswerWith(EvaluateWithTrace, ctx)

\* The MCP tool compiles what it is given and inlines nothing.
validateConfig(r) ==
  /\ answer' = Said(IF Compile(r.strategy, r.form, r.tree)
                    THEN "valid" ELSE "invalid")
  /\ UNCHANGED <<segments, version, alive>>

Next ==
  \/ \E k \in SegKey : \E p \in Bodies[k] : WriteSegment(k, p)
  \/ \E r \in Requests : PublishFlagVersion(r)
  \/ \E ctx \in Contexts : EvaluateFlag(ctx)
  \/ \E ctx \in Contexts : EvaluateFlagWithTrace(ctx)
  \/ \E r \in Requests : validateConfig(r)

Spec == Init /\ [][Next]_vars

-----------------------------------------------------------------------------
(* Properties *)

Published == version # NoVersion
FromJSON == Published /\ version.request.form = "json"
Whens == {version.tree.rules[i].when : i \in DOMAIN version.tree.rules}

\* A version that compiled when it was published compiles again, under its own
\* strategy, each time it is evaluated: loadEvaluation never fails to
\* "rehydrate" it, however the segments changed since.
StoredVersionsLoad == answer.status # "internal"

RECURSIVE Denoted(_, _, _)

\* What a predicate means when each reference is looked up as it is met.
Denoted(p, segs, ctx) ==
  LET os == [i \in DOMAIN Children(p) |-> Denoted(Children(p)[i], segs, ctx)]
  IN  CASE p.kind = "all"     -> Conjoined(os)
        [] p.kind = "any"     -> Disjoined(os)
        [] p.kind = "not"     -> Negated(os[1])
        [] p.kind = "segment" -> Denoted(segs[p.key], segs, ctx)
        [] OTHER              -> matchLeaf(p, ctx)

\* Inlining keeps the meaning: for every context, each rule of a published
\* version answers what the rule of the request answers when its references are
\* looked up among the segments of the time of the publish.
InliningKeepsMeaning ==
  FromJSON =>
    \A i \in DOMAIN version.tree.rules : \A ctx \in Contexts :
      match(version.tree.rules[i].when, ctx)
        = Denoted(version.request.tree.rules[i].when, version.segments, ctx)

\* Where no leaf parts them, the Go evaluator and the JavaScript one take the
\* same decision, errors included ("must match the JS evaluator", package eval),
\* on every version that the JavaScript SDK can compile: it throws on a version
\* without a list of rules and on CEL that cel-lite does not parse.
RuntimesAgree ==
  Published /\ JsCompile(version.tree) =>
    \A ctx \in Contexts :
      (\A p \in Whens : \A q \in Nodes(p) : ~Parts(q, ctx))
        => Evaluate(version.tree, ctx) = JsEvaluate(version.tree, ctx)

\* Where no leaf errs, EvaluateWithTrace "returns the same Decision as Evaluate",
\* although it visits every rule and every child.
TraceAgrees ==
  Published =>
    \A ctx \in Contexts :
      (\A p \in Whens : \A q \in Nodes(p) :
         q.kind \in LeafKind => matchLeaf(q, ctx) # "error")
        => EvaluateWithTrace(version.tree, ctx) = Evaluate(version.tree, ctx)

RECURSIVE Drawn(_, _)

\* The nodes that inlining draws into p, directly or through other segments.
Drawn(p, segs) ==
  UNION {Nodes(segs[q.key]) \cup Drawn(segs[q.key], segs) :
           q \in {q \in Nodes(p) : q.kind = "segment"}}

\* CEL that a segment may hold (normalizePredicate checks its shape only) and a
\* flag of the strategy may not.
Unfit(strategy, q) ==
  q.kind = "cel" /\ (strategy = "json" \/ ~CompilesInGo(q.source))

\* validate_config, which looks up no segment, foretells what publishing says: a
\* source is published exactly when it is valid, its references are found and
\* none of them draws in CEL unfit for the strategy.  Inlining repairs no source,
\* and breaks one in no other way.  A TypeScript source is not searched, so its
\* references pass both, although "it'll fail in compilePredicates" (json.go).
ValidationForetells ==
  \A r \in Requests :
    LET whens == {r.tree.rules[i].when : i \in DOMAIN r.tree.rules}
        Found == r.form = "json" => ResolveOutcome(r.tree, segments) = "ok"
        Fits == r.form = "json" =>
                  \A p \in whens : \A q \in Drawn(p, segments) : ~Unfit(r.strategy, q)
        Valid == Compile(r.strategy, r.form, r.tree)
    IN  Found => (Compile(r.strategy, r.form, resolveSegmentRefs(r.form, r.tree, segments))
                    <=> Valid /\ Fits)

\* Violated.  "Cycle detection is intentionally not implemented - segment
\* definitions can't reference other segments": publishing always ends.
ResolutionEnds == alive

=============================================================================
