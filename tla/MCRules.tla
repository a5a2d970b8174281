------------------------------ MODULE MCRules ------------------------------
(***************************************************************************)
(* Instances of Rules for TLC.                                             *)
(***************************************************************************)
EXTENDS Rules

CONSTANTS plan, region, s1, s2

Str(n) == [type |-> "string", n |-> n]
Num(n) == [type |-> "number", n |-> n]
Bool(n) == [type |-> "boolean", n |-> n]
Obj(n) == [type |-> "object", n |-> n]
Null == [type |-> "null", n |-> 0]

\* Buckets 0, 4999 and 5000: both sides of the gates of 0 and of 50 percent.
salt == <<115>>
SomeSalts == {salt}
SomeHash(bytes) ==
  CASE bytes = salt \o <<Colon>>         -> 10000
    [] bytes = salt \o <<Colon, Letter>> -> 4999
    [] OTHER                              -> 25000

Cmp(kind, attr, value) == [kind |-> kind, attr |-> attr, value |-> value]
In(attr, values) == [kind |-> "in", attr |-> attr, values |-> values]
Matches(attr, go, js) ==
  [kind |-> "matches", attr |-> attr, pattern |-> [go |-> go, js |-> js]]
Gate(attr, percent) ==
  [kind |-> "rollout", attr |-> attr, salt |-> salt, percent |-> percent]
All(ps) == [kind |-> "all", of |-> ps]
Any(ps) == [kind |-> "any", of |-> ps]
Not(p) == [kind |-> "not", of_one |-> p]
Always == [kind |-> "always"]
Cel(attr, go, js) ==
  [kind |-> "cel", source |-> [attr |-> attr, go |-> go, js |-> js]]
Segment(k) == [kind |-> "segment", key |-> k]

Rule(id, when, value) == [id |-> id, when |-> when, value |-> value]
Tree(rules) ==
  [value_type |-> "boolean", default |-> Bool(0), listed |-> TRUE, rules |-> rules]

\* One rule, so that the default or its value is served; and the same rule
\* before one that always matches.
One(p) == Tree(<<Rule(1, p, Bool(1))>>)
Two(p) == Tree(<<Rule(1, p, Bool(1)), Rule(2, Always, Bool(0))>>)

Trees ==
  {One(Not(Segment(s1))),
   Two(Any(<<Segment(s1), Cmp("starts_with", plan, Num(1))>>)),
   Two(All(<<Cmp("neq", region, Num(1)), Cel(plan, Str(1), Str(1))>>)),
   One(Any(<<Cmp("eq", plan, Obj(1)), Cel(region, Num(1), Missing)>>)),
   Two(All(<<Gate(plan, 50), Not(Gate(plan, 0)), Cmp("starts_with", plan, Str(0))>>)),
   Two(Gate(plan, 50)),
   Two(Any(<<Cmp("lt", region, Num(1)), Cmp("gte", region, Num(2)),
             Matches(plan, 1, 1)>>)),
   Two(Any(<<In(plan, <<Str(2), Obj(1), Null>>), Cmp("lte", region, Num(0)),
             Cmp("gt", region, Str(1))>>)),
   Tree(<<Rule(1, Gate(plan, 100), Str(1)), Rule(2, Always, Bool(1))>>)}

\* What the two runtimes read differently, in some context.
PartingTrees ==
  {One(Not(Cel(region, Num(1), Num(2)))),
   Two(Any(<<Matches(plan, 0, -1), Matches(plan, 1, 0), Cmp("starts_with", plan, Null)>>)),
   One(Any(<<Cmp("eq", region, Num(0)), All(<<Cmp("neq", region, MinusZero), Gate(plan, 99)>>)>>)),
   [Tree(<<>>) EXCEPT !.listed = FALSE]}

InvalidTrees ==
  {One(NoPredicate), One(All(<<>>)), One(Not(NoPredicate)), One(Gate(plan, 101)),
   One(Matches(plan, -1, 0)), One(In(plan, <<>>)), One(Cel(plan, Missing, Num(1))),
   One(Cmp("eq", plan, Missing)), Tree(<<Rule(0, Always, Bool(1))>>),
   Tree(<<Rule(1, Always, Missing)>>),
   [Tree(<<>>) EXCEPT !.value_type = "date"], [Tree(<<>>) EXCEPT !.default = Missing]}

Req(strategy, form, tree) == [strategy |-> strategy, form |-> form, tree |-> tree]

SomeRequests ==
  {Req(s, "json", t) : s \in Strategy, t \in Trees}
  \cup {Req("cel", "json", t) : t \in PartingTrees}
  \cup {Req(s, "json", t) : s \in {"cel", "typescript"}, t \in InvalidTrees}
  \cup {Req("typescript", "ts", t) :
          t \in {One(Not(Segment(s1))), One(Cel(region, Num(1), Num(1))), One(All(<<>>))}}
  \cup {Req(s, f, Tree(<<>>)) : s \in Strategy, f \in {"malformed", "broken"}}

\* Segment s1 may refer to s2, below the root; a reference at the root and an
\* unknown key are refused.
AcyclicBodies ==
  [k \in SegKey |->
     IF k = s1
     THEN {Any(<<Cmp("eq", plan, Str(1)), Not(Segment(s2))>>), Cel(region, Num(1), Num(1)),
           Segment(s2)}
     ELSE {Any(<<Cmp("eq", region, Num(1)), Cmp("starts_with", plan, Num(1))>>),
           Cel(plan, Missing, Str(1))}]

\* Either segment may refer to the other, below the root.
CyclicBodies ==
  [k \in SegKey |-> {Always} \cup {Not(Segment(l)) : l \in SegKey \ {k}}]

SomeContexts ==
  {x \in Context :
     /\ x.at[plan] \in {Missing, Str(0), Str(1), Str(2), Obj(2), Null}
     /\ x.at[region] \in {Missing, Num(1), Num(2)} \cup
                         (IF x.at[plan] = Str(1) THEN {Num(0), MinusZero} ELSE {})
     /\ x.jsOnly \in {{}} \cup (IF x.at[plan] = Str(1) THEN {{plan}} ELSE {})}

CyclicRequests == {Req("json", "json", One(Segment(s1)))}
=============================================================================
