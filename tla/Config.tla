------------------------------- MODULE Config -------------------------------
(***************************************************************************)
(* What the two API surfaces see of internal/config and internal/eval:     *)
(* Rules models those packages in full.                                    *)
(*                                                                         *)
(* The input of a compilation is JSON, [json |-> document], or TypeScript, *)
(* [text |-> source].  A rules tree is the object                          *)
(*   [rules |-> "valid" or "other", which compile, or "invalid",           *)
(*    segment |-> the key of a segment it refers to, or "",                *)
(*    inlined |-> the predicates put in its place].                        *)
(* A context is named by what the evaluator makes of it.                   *)
(***************************************************************************)
EXTENDS Naturals, Sequences, Values

CONSTANTS
    \* The nodes of the traces that evaluations come back with.
    TraceNode,
    \* The limit of an audit list that is asked for without one: 100 on both
    \* surfaces, a constant so that a list can be cut short by it.
    DefaultLimit

ASSUME LimitAssumption == DefaultLimit \in Nat \ {0}

Tree(rules, segment) ==
    Object([rules |-> rules, segment |-> segment, inlined |-> <<>>])

IsTree(d) == d.type = "object" /\ "rules" \in DOMAIN d.val

Valid(strategy) == strategy \in {"json", "cel", "typescript"}

SegmentOf(input) == input.json.val.segment

\* p is what the resolver makes of SegmentOf(input).  A document that is no
\* rules tree and a TypeScript source pass through.
ResolveSegments(input, p) ==
    IF "text" \in DOMAIN input \/ ~IsTree(input.json) \/ SegmentOf(input) = ""
    THEN [err |-> "nil", val |-> <<input>>]
    ELSE [err |-> p.err,
          val |-> IF p.err # "nil" THEN <<>>
                  ELSE <<[json |-> Object([input.json.val EXCEPT !.segment = "",
                                                      !.inlined = p.val])]>>]

Compile(strategy, input) ==
    LET tree == IF "text" \in DOMAIN input THEN Tree(input.text, "") ELSE input.json
    IN  IF Valid(strategy) /\ IsTree(tree) /\ tree.val.rules \in {"valid", "other"}
        THEN [err |-> "nil", val |-> <<tree>>]
        ELSE [err |-> "compile", val |-> <<>>]

\* An empty object has the kind "".
PredicateKind(d) == IF "kind" \in DOMAIN d.val THEN d.val.kind ELSE ""
ValidatePredicate(d) == PredicateKind(d) \in {"eq", "not"}

Evaluate(compiled, ctx, version) ==
    [value |-> ctx.value, reason |-> ctx.reason, rule_id |-> ctx.rule_id,
     version |-> version]

EvaluateWithTrace(compiled, ctx, version) ==
    [decision |-> Evaluate(compiled, ctx, version), trace |-> ctx.trace]
=============================================================================
