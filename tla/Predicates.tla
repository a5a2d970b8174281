----------------------------- MODULE Predicates -----------------------------
(***************************************************************************)
(* The leaves of a compiled flag and the choice of a rule, in both         *)
(* runtimes: internal/eval (Go) and js/packages/sdk-js/src/evaluator.ts.   *)
(*                                                                         *)
(* A JSON value is a kind and a number that tells values of the kind       *)
(* apart.  String n is a letter n times, so strings are a chain in which   *)
(* each one is a prefix of the next.  Number -1 is JSON's "-0".  Object 0  *)
(* is empty; all other objects hold the same members, written in a         *)
(* different order.  A dotted path is one attribute name.                  *)
(*                                                                         *)
(* A pattern and a CEL source are read by a library of each runtime.  A    *)
(* pattern is [go, js]: the shortest string that each one finds it in, -1  *)
(* when it does not compile.  A CEL source is a test "ctx.attr == value",  *)
(* [attr, go, js]: the value each one reads, Missing when it does not      *)
(* compile.                                                                *)
(***************************************************************************)
EXTENDS Integers, Sequences

CONSTANTS
  Attr,     \* attribute paths
  Salt,     \* salts of rollouts, as bytes
  MaxValue, \* bound: values of one kind are 0 .. MaxValue
  Hash(_)   \* FNV-1a of a sequence of bytes, uninterpreted

ValueType == {"boolean", "string", "number", "object"}
MinusZero == [type |-> "number", n |-> -1]
Value == [type : ValueType \cup {"null"}, n : 0 .. MaxValue] \cup {MinusZero}
Missing == [type |-> "missing", n |-> 0]

\* What is found at each path, and the paths that only JavaScript follows there:
\* through an array, or to a property that an object inherits.
Context == [at : [Attr -> Value \cup {Missing}], jsOnly : SUBSET Attr]

\* What a predicate answers: matched, not matched, or an error.
Outcome == {"true", "false", "error"}
Answer(b) == IF b THEN "true" ELSE "false"
Negated(o) == IF o = "error" THEN "error" ELSE Answer(o # "true")

Letter == 97
Colon == 58
Bytes(n) == [i \in 1 .. n |-> Letter]

ASSUME PredicatesAssumption ==
  /\ MaxValue \in Nat
  /\ Salt \subseteq Seq(Nat)
  /\ \A salt \in Salt, n \in 0 .. MaxValue : Hash(salt \o <<Colon>> \o Bytes(n)) \in Nat

-----------------------------------------------------------------------------
(* internal/eval *)

\* Through nested maps, and nothing else.
lookup(ctx, path) == IF path \in ctx.jsOnly THEN Missing ELSE ctx.at[path]

\* jsonEqual re-encodes numbers and objects, the latter with sorted keys, so
\* member order is lost and the sign of a zero is not.
jsonEqual(a, b) ==
  /\ a.type = b.type
  /\ a.type \in {"string", "boolean", "number"} => a.n = b.n
  /\ a.type = "object" => (a.n = 0) = (b.n = 0)

cmpEq(p, ctx) == Answer(jsonEqual(lookup(ctx, p.attr), p.value))

cmpIn(p, ctx) ==
  Answer(\E i \in DOMAIN p.values : jsonEqual(lookup(ctx, p.attr), p.values[i]))

Magnitude(v) == IF v = MinusZero THEN 0 ELSE v.n

Ordered(kind, a, b) ==
  CASE kind = "gt"  -> a > b
    [] kind = "gte" -> a >= b
    [] kind = "lt"  -> a < b
    [] kind = "lte" -> a <= b

cmpOrd(p, ctx) ==
  LET a == lookup(ctx, p.attr)
  IN  Answer(/\ a.type = "number"
             /\ p.value.type = "number"
             /\ Ordered(p.kind, Magnitude(a), Magnitude(p.value)))

cmpMatches(p, ctx) ==
  LET a == lookup(ctx, p.attr)
  IN  IF a.type = "string" /\ p.pattern.go < 0 THEN "error"
      ELSE Answer(a.type = "string" /\ a.n >= p.pattern.go)

\* Only a string attribute makes the type of the prefix matter; decoding null
\* leaves the prefix empty.
cmpStartsWith(p, ctx) ==
  LET a == lookup(ctx, p.attr)
  IN  IF a.type = "string" /\ p.value.type \notin {"string", "null"} THEN "error"
      ELSE Answer(a.type = "string" /\ (p.value.type = "null" \/ p.value.n <= a.n))

Buckets == 10000

\* The three writes to the hash.
rolloutBucket(salt, n) == Hash(salt \o <<Colon>> \o Bytes(n)) % Buckets

inBucket(salt, n, percent) ==
  /\ percent > 0
  /\ percent >= 100 \/ rolloutBucket(salt, n) < percent * 100

Rollout(p, ctx) ==
  LET a == lookup(ctx, p.attr)
  IN  Answer(a.type = "string" /\ inBucket(p.salt, a.n, p.percent))

\* cel-go compares numbers as numbers.
celEqual(a, b) ==
  IF a.type = "number" /\ b.type = "number" THEN Magnitude(a) = Magnitude(b)
  ELSE jsonEqual(a, b)

\* cel-go reports a missing key as an error.
EvalCEL(source, ctx) ==
  LET a == lookup(ctx, source.attr)
  IN  IF a = Missing THEN "error" ELSE Answer(celEqual(a, source.go))

LeafKind == {"always", "eq", "neq", "in", "gt", "gte", "lt", "lte",
             "matches", "starts_with", "rollout", "cel", "segment"}

\* match on a predicate without children; a segment reference is unknown to it.
matchLeaf(p, ctx) ==
  CASE p.kind = "always"      -> "true"
    [] p.kind = "eq"          -> cmpEq(p, ctx)
    [] p.kind = "neq"         -> Negated(cmpEq(p, ctx))
    [] p.kind = "in"          -> cmpIn(p, ctx)
    [] p.kind \in {"gt", "gte", "lt", "lte"} -> cmpOrd(p, ctx)
    [] p.kind = "matches"     -> cmpMatches(p, ctx)
    [] p.kind = "starts_with" -> cmpStartsWith(p, ctx)
    [] p.kind = "rollout"     -> Rollout(p, ctx)
    [] p.kind = "cel"         -> EvalCEL(p.source, ctx)
    [] OTHER                  -> "error"

-----------------------------------------------------------------------------
(* evaluator.ts, rollout.ts and cel-lite.ts *)

\* Any property of any object, an array's too.
JsLookup(ctx, path) == ctx.at[path]

\* === on numbers and strings; JSON.stringify keeps the order of the members.
JsJsonEqual(a, b) ==
  /\ a.type = b.type
  /\ a.type = "number" => Magnitude(a) = Magnitude(b)
  /\ a.type \in {"string", "boolean", "object"} => a.n = b.n

JsCmpEq(p, ctx) == Answer(JsJsonEqual(JsLookup(ctx, p.attr), p.value))

JsCmpIn(p, ctx) ==
  LET a == JsLookup(ctx, p.attr)
  IN  Answer(\E i \in DOMAIN p.values : JsJsonEqual(a, p.values[i]))

JsCmpOrd(p, ctx) ==
  LET a == JsLookup(ctx, p.attr)
      x == Magnitude(a)
      y == Magnitude(p.value)
  IN  Answer(/\ a.type = "number" /\ p.value.type = "number"
             /\ CASE p.kind = "gt"  -> x > y
                  [] p.kind = "gte" -> x >= y
                  [] p.kind = "lt"  -> x < y
                  [] p.kind = "lte" -> x <= y)

\* A pattern that RegExp refuses matches nothing.
JsCmpMatches(p, ctx) ==
  LET a == JsLookup(ctx, p.attr)
  IN  Answer(a.type = "string" /\ p.pattern.js >= 0 /\ a.n >= p.pattern.js)

\* Only a string is a prefix.
JsCmpStartsWith(p, ctx) ==
  LET a == JsLookup(ctx, p.attr)
  IN  CASE a.type # "string" -> "false"
        [] a.type = "string" /\ p.value.type # "string" -> "error"
        [] a.type = "string" /\ p.value.type = "string" -> Answer(p.value.n <= a.n)

\* One array, filled at three offsets.
JsCombined(salt, n) ==
  [i \in 1 .. Len(salt) + 1 + n |->
     CASE i <= Len(salt)     -> salt[i]
       [] i = Len(salt) + 1  -> Colon
       [] i > Len(salt) + 1  -> Bytes(n)[i - Len(salt) - 1]]

JsRolloutBucket(salt, n) == Hash(JsCombined(salt, n)) % Buckets

JsInBucket(salt, n, percent) ==
  CASE percent <= 0   -> FALSE
    [] percent >= 100 -> TRUE
    [] OTHER          -> JsRolloutBucket(salt, n) < percent * 100

JsRollout(p, ctx) ==
  LET a == JsLookup(ctx, p.attr)
  IN  Answer(a.type = "string" /\ JsInBucket(p.salt, a.n, p.percent))

\* A missing attribute is undefined, which equals no literal.
JsEvalCEL(source, ctx) ==
  Answer(JsJsonEqual(JsLookup(ctx, source.attr), source.js))

\* Mutant: a missing attribute fails neq as it fails eq.
JsMatchLeafDefined(p, ctx) ==
  CASE p.kind = "always"      -> "true"
    [] p.kind = "eq"          -> JsCmpEq(p, ctx)
    [] p.kind = "neq"         ->
         Answer(JsLookup(ctx, p.attr) # Missing /\ JsCmpEq(p, ctx) = "false")
    [] p.kind = "in"          -> JsCmpIn(p, ctx)
    [] p.kind \in {"gt", "gte", "lt", "lte"} -> JsCmpOrd(p, ctx)
    [] p.kind = "matches"     -> JsCmpMatches(p, ctx)
    [] p.kind = "starts_with" -> JsCmpStartsWith(p, ctx)
    [] p.kind = "rollout"     -> JsRollout(p, ctx)
    [] p.kind = "cel"         -> JsEvalCEL(p.source, ctx)
    [] OTHER                  -> "false"

\* A kind the switch does not list falls out of it: undefined, hence falsy.
JsMatchLeaf(p, ctx) ==
  CASE p.kind = "always"      -> "true"
    [] p.kind = "eq"          -> JsCmpEq(p, ctx)
    [] p.kind = "neq"         -> Negated(JsCmpEq(p, ctx))
    [] p.kind = "in"          -> JsCmpIn(p, ctx)
    [] p.kind \in {"gt", "gte", "lt", "lte"} -> JsCmpOrd(p, ctx)
    [] p.kind = "matches"     -> JsCmpMatches(p, ctx)
    [] p.kind = "starts_with" -> JsCmpStartsWith(p, ctx)
    [] p.kind = "rollout"     -> JsRollout(p, ctx)
    [] p.kind = "cel"         -> JsEvalCEL(p.source, ctx)
    [] OTHER                  -> "false"

\* Two values that only one runtime takes for equal: objects whose members come
\* in another order, equal in Go, and 0 and -0, equal in JavaScript.
EqualInOne(a, v) ==
  /\ a # v /\ a.type = v.type
  /\ \/ a.type = "object"
     \/ a.type = "number" /\ Magnitude(a) = Magnitude(v)

\* A leaf on which the runtimes part.  A reference that was not inlined, and CEL
\* on an attribute that Go does not find, are errors in Go and not in JavaScript;
\* CEL sources and patterns may be read differently by the two libraries; a null
\* prefix is empty in Go and an error in JavaScript; and there are paths that only
\* JavaScript follows, and values that only one of them takes for equal.
Parts(p, ctx) ==
  CASE p.kind = "segment" -> TRUE
    [] p.kind = "cel" ->
         LET a == lookup(ctx, p.source.attr)
         IN  \/ a = Missing
             \/ p.source.js # p.source.go
             \/ a.type = "object" /\ EqualInOne(a, p.source.go)
    [] p.kind \in LeafKind \ {"segment", "cel", "always"} ->
         LET a == lookup(ctx, p.attr)
         IN  \/ p.attr \in ctx.jsOnly
             \/ p.kind \in {"eq", "neq"} /\ EqualInOne(a, p.value)
             \/ p.kind = "in" /\ \E i \in DOMAIN p.values : EqualInOne(a, p.values[i])
             \/ p.kind = "matches" /\ a.type = "string" /\ p.pattern.js # p.pattern.go
             \/ p.kind = "starts_with" /\ a.type = "string" /\ p.value.type = "null"
    [] OTHER -> FALSE

-----------------------------------------------------------------------------
(* From the outcomes of the rules to a decision *)

valueMatchesType(v, type) == v.type = type

reasonForRule(r) ==
  IF r.when.kind = "rollout" THEN "rollout_in_bucket" ELSE "rule_matched"

Decision(value, reason, rule) ==
  [value |-> value, reason |-> reason, rule_id |-> rule]

Served(tree, r) ==
  IF valueMatchesType(r.value, tree.value_type)
  THEN Decision(r.value, reasonForRule(r), r.id)
  ELSE Decision(tree.default, "type_mismatch", r.id)

\* The index of the first rule whose outcome is in os, and 0 when none is.
FirstIn(outcomes, os) ==
  IF \E i \in DOMAIN outcomes : outcomes[i] \in os
  THEN CHOOSE i \in DOMAIN outcomes :
         /\ outcomes[i] \in os
         /\ \A j \in DOMAIN outcomes : j < i => outcomes[j] \notin os
  ELSE 0

\* Evaluate: the first rule that does not answer "false" decides.
Decide(tree, outcomes) ==
  LET i == FirstIn(outcomes, {"true", "error"})
  IN  IF i = 0 THEN Decision(tree.default, "default", 0)
      ELSE IF outcomes[i] = "error"
           THEN Decision(tree.default, "error", tree.rules[i].id)
           ELSE Served(tree, tree.rules[i])

\* EvaluateWithTrace: a rule that errs is recorded and passed over.
DecideTraced(tree, outcomes) ==
  LET i == FirstIn(outcomes, {"true"})
  IN  IF i = 0
      THEN Decision(tree.default, "default", 0)
      ELSE Served(tree, tree.rules[i])

=============================================================================
