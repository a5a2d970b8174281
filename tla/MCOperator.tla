---- MODULE MCOperator ----
(***************************************************************************)
(* Instances of Operator for TLC.                                          *)
(***************************************************************************)
EXTENDS Operator

CONSTANTS e1, e2

Environments == <<e1, e2>>

Deploy(kinds, specs, edited, deleted, project, upset) ==
    [kinds |-> kinds, specs |-> specs, edited |-> edited, deleted |-> deleted,
     project |-> project, upsets |-> upset]

\* Every reconciler, with the others it depends on.
SmallDeployments ==
    {Deploy({k}, {}, {k}, {k}, FALSE, UpsetKind) :
         k \in {"Project", "Environment", "Segment", "FlagSnapshot"}}
    \cup
    {Deploy({"Project", "Environment"}, {}, {}, {"Environment"}, FALSE, {}),
     Deploy({"Flag"}, {"plain", "bindings", "segment", "bad"}, {"Flag"}, {"Flag"},
            FALSE, UpsetKind),
     Deploy({"Flag", "RolloutPolicy"}, {"rollout"}, {"RolloutPolicy"}, {}, TRUE, {}),
     Deploy({"Flag", "FlagBinding"}, {"bad"}, {}, {}, TRUE, {}),
     Deploy({"Flag", "FlagBinding"}, {"plain"}, {}, {}, TRUE, {"race"}),
     Deploy({"Flag", "FlagBinding"}, {"plain"}, {"Flag"}, {}, TRUE, {})}
====
