--------------------------- MODULE MCControlPlane ---------------------------
(***************************************************************************)
(* Small instances of ControlPlane.                                        *)
(***************************************************************************)
EXTENDS ControlPlane, TLC

Ask(op, p, k, b, names) ==
    [op |-> op, project |-> p, key |-> k, body |-> b, names |-> names]

\* One request of every kind for each key, publishes with two contents.
SomeBody == CHOOSE b \in Body : TRUE
OtherBody == CHOOSE b \in Body : b # SomeBody

CreateRequests ==
    {Ask("create_project", p, NoKey, SomeBody, {}) : p \in Project}
    \cup {Ask(op, p, k, SomeBody, {}) :
             op \in {"create_environment", "create_flag", "create_segment"},
             p \in Project, k \in Key}

SegmentRequests ==
    {Ask(op, p, k, SomeBody, {}) :
         op \in {"create_segment", "update_segment"}, p \in Project, k \in Key}

PublishRequests ==
    {Ask("publish_version", p, k, b, {}) : p \in Project, k \in Key, b \in Body}
    \cup {Ask("publish_version", p, k, OtherBody, {j}) : p \in Project, k, j \in Key}

CompileRequests ==
    {Ask("compile_snapshot", p, NoKey, SomeBody, names) :
         p \in Project, names \in {{}} \cup {{k} : k \in Key}}

\* Everything a client can ask.
AllRequests ==
    CreateRequests \cup SegmentRequests \cup PublishRequests \cup CompileRequests

\* Enough to race publishes with compiles of the same project.
SnapshotRequests ==
    {Ask(op, p, NoKey, SomeBody, {}) :
         op \in {"create_project", "compile_snapshot"}, p \in Project}
    \cup {Ask(op, p, k, SomeBody, {}) :
             op \in {"create_flag", "publish_version"}, p \in Project, k \in Key}

\* Enough to race publishes with updates of the segments they refer to.
InliningRequests ==
    {Ask("create_project", p, NoKey, SomeBody, {}) : p \in Project}
    \cup {Ask("create_flag", p, k, SomeBody, {}) : p \in Project, k \in Key}
    \cup SegmentRequests
    \cup {Ask("publish_version", p, k, OtherBody, Key) : p \in Project, k \in Key}

\* Both races.
RacingRequests == SnapshotRequests \cup InliningRequests

Symmetry == Permutations(Handler)
=============================================================================
