------------------------------- MODULE Tables -------------------------------
(***************************************************************************)
(* The database of the control plane and what a mutation promises about    *)
(* it.                                                                     *)
(*                                                                         *)
(* The tables are the ones of db/migrations: projects, environments,       *)
(* flags, segments, flag_versions, snapshots and audit_events.  Nothing in *)
(* the API deletes a row.  A mutation names the row or the row family it   *)
(* works on (its item); the item's stamp counts the mutations it has had.  *)
(* For flag_versions and snapshots the stamp is the highest version, which *)
(* the SQL computes as COALESCE(MAX(version), 0).  What a segment says is  *)
(* identified by the revision that wrote it, and what a snapshot says      *)
(* about a flag by the flag version it was taken from.                     *)
(*                                                                         *)
(* AtomicSpec, at the end, is the promise: mutations happen one at a time, *)
(* each with exactly one audit row.  ControlPlane shows that the handlers  *)
(* and the transactions they run implement it.                             *)
(***************************************************************************)
EXTENDS Integers, FiniteSets, FiniteSetsExt

CONSTANTS
    Project,    \* project slugs
    Key,        \* flag keys, segment keys and environment slugs
    Body,       \* what the source of a flag says
    NoKey       \* the key of a request about a project as a whole

ASSUME KeyAssumption == NoKey \notin Key

VARIABLES
    projects,       \* the rows of projects
    environments,   \* the rows of environments
    flags,          \* the rows of flags
    segments,       \* the revision of each segment, 0 when there is no row
    flagVersions,   \* the rows of flag_versions
    snapshots,      \* the rows of snapshots
    audit           \* how many audit_events rows each item has

tables == <<projects, environments, flags, segments, flagVersions, snapshots,
            audit>>
-----------------------------------------------------------------------------
(***************************************************************************)
(* Requests, the rows they write and the audit rows they leave.            *)
(***************************************************************************)

ProjectOp == {"create_project", "compile_snapshot"}

KeyOp == {"create_environment", "create_flag", "create_segment",
          "update_segment", "publish_version"}

\* names: the segments a source refers to, or the environment a compile names.
Request ==
    [op : ProjectOp, project : Project, key : {NoKey}, body : Body,
     names : SUBSET Key]
    \cup
    [op : KeyOp, project : Project, key : Key, body : Body,
     names : SUBSET Key]

\* The item a request works on, which is also what its audit row identifies.
Item(r) == <<r.op, r.project, r.key>>

Items == (ProjectOp \X Project \X {NoKey}) \cup (KeyOp \X Project \X Key)

\* The revision of each segment a source had inlined, or the version of each
\* flag a snapshot holds; 0 for none.
Bundle == [Key -> Nat]

FlagVersionRow == [project : Project, key : Key, version : Nat,
                   body : Body, inlined : Bundle]

SnapshotRow == [project : Project, version : Nat, bundle : Bundle]

TablesTypeOK ==
    /\ projects \subseteq Project
    /\ environments \subseteq Project \X Key
    /\ flags \subseteq Project \X Key
    /\ segments \in [Project \X Key -> Nat]
    /\ flagVersions \subseteq FlagVersionRow
    /\ snapshots \subseteq SnapshotRow
    /\ audit \in [Items -> Nat]

TablesInit ==
    /\ projects = {}
    /\ environments = {}
    /\ flags = {}
    /\ segments = [s \in Project \X Key |-> 0]
    /\ flagVersions = {}
    /\ snapshots = {}
    /\ audit = [i \in Items |-> 0]
-----------------------------------------------------------------------------
(***************************************************************************)
(* The queries.                                                            *)
(***************************************************************************)

VersionsOf(p, k) ==
    {v.version : v \in {w \in flagVersions : w.project = p /\ w.key = k}}

SnapshotVersionsOf(p) ==
    {s.version : s \in {t \in snapshots : t.project = p}}

\* COALESCE(MAX(version), 0), to which the next version adds 1.
Highest(S) == IF S = {} THEN 0 ELSE Max(S)

\* One statement: the newest version of every flag of the project.
ListLatestFlagVersions(p) == [k \in Key |-> Highest(VersionsOf(p, k))]

Bit(b) == IF b THEN 1 ELSE 0

\* How many mutations the item of r has had, as the tables show it.
Stamp(r) ==
    CASE r.op = "create_project"     -> Bit(r.project \in projects)
      [] r.op = "create_environment" -> Bit(<<r.project, r.key>> \in environments)
      [] r.op = "create_flag"        -> Bit(<<r.project, r.key>> \in flags)
      [] r.op = "create_segment"     -> segments[<<r.project, r.key>>]
      [] r.op = "update_segment"     -> segments[<<r.project, r.key>>]
      [] r.op = "publish_version"    -> Highest(VersionsOf(r.project, r.key))
      [] r.op = "compile_snapshot"   -> Highest(SnapshotVersionsOf(r.project))
-----------------------------------------------------------------------------
(***************************************************************************)
(* The writes a transaction makes, given the stamp it read.                *)
(***************************************************************************)

TxCreateProject(r) ==
    /\ projects' = projects \cup {r.project}
    /\ UNCHANGED <<environments, flags, segments, flagVersions, snapshots>>

TxCreateEnvironment(r) ==
    /\ environments' = environments \cup {<<r.project, r.key>>}
    /\ UNCHANGED <<projects, flags, segments, flagVersions, snapshots>>

TxCreateFlag(r) ==
    /\ flags' = flags \cup {<<r.project, r.key>>}
    /\ UNCHANGED <<projects, environments, segments, flagVersions, snapshots>>

\* Both replace the whole predicate: a new revision of the segment.
TxCreateSegment(r) ==
    /\ segments' = [segments EXCEPT ![<<r.project, r.key>>] = 1]
    /\ UNCHANGED <<projects, environments, flags, flagVersions, snapshots>>

TxUpdateSegment(r, n) ==
    /\ segments' = [segments EXCEPT ![<<r.project, r.key>>] = n + 1]
    /\ UNCHANGED <<projects, environments, flags, flagVersions, snapshots>>

\* Mutant: the newest version replaces the one before it.
TxPublishFlagVersionInPlace(r, n, inl) ==
    /\ flagVersions' =
           {v \in flagVersions : v.project # r.project \/ v.key # r.key \/ v.version < n}
           \cup {[project |-> r.project, key |-> r.key, version |-> n + 1,
                  body |-> r.body, inlined |-> inl]}
    /\ UNCHANGED <<projects, environments, flags, segments, snapshots>>

TxPublishFlagVersion(r, n, inl) ==
    /\ flagVersions' = flagVersions \cup
           {[project |-> r.project, key |-> r.key, version |-> n + 1,
             body |-> r.body, inlined |-> inl]}
    /\ UNCHANGED <<projects, environments, flags, segments, snapshots>>

TxCompileSnapshot(r, n, bun) ==
    /\ snapshots' = snapshots \cup
           {[project |-> r.project, version |-> n + 1, bundle |-> bun]}
    /\ UNCHANGED <<projects, environments, flags, segments, flagVersions>>

AppendAuditEvent(r) == audit' = [audit EXCEPT ![Item(r)] = @ + 1]

\* What one committed transaction does: the audit row and the mutation.
Commit(r, n, inl, bun) ==
    /\ AppendAuditEvent(r)
    /\ \/ r.op = "create_project" /\ TxCreateProject(r)
       \/ r.op = "create_environment" /\ TxCreateEnvironment(r)
       \/ r.op = "create_flag" /\ TxCreateFlag(r)
       \/ r.op = "create_segment" /\ TxCreateSegment(r)
       \/ r.op = "update_segment" /\ TxUpdateSegment(r, n)
       \/ r.op = "publish_version" /\ TxPublishFlagVersion(r, n, inl)
       \/ r.op = "compile_snapshot" /\ TxCompileSnapshot(r, n, bun)
-----------------------------------------------------------------------------
(***************************************************************************)
(* The promise.                                                            *)
(***************************************************************************)

CreateOp == {"create_project", "create_environment", "create_flag",
             "create_segment"}

\* The rows a mutation presupposes: its parents, and the row it updates.
Admissible(r) ==
    /\ r.op # "create_project" => r.project \in projects
    /\ r.op = "publish_version" => <<r.project, r.key>> \in flags
    /\ r.op \in CreateOp => Stamp(r) = 0
    /\ r.op = "update_segment" => Stamp(r) > 0

\* A snapshot holds published versions only, though not always the newest.
Published(p, bun) == \A k \in Key : bun[k] <= Highest(VersionsOf(p, k))

PublishedBundles(p) ==
    LET versions == UNION {0 .. Highest(VersionsOf(p, k)) : k \in Key}
    IN  {bun \in [Key -> versions] : Published(p, bun)}

\* A version holds predicates its project's segments have had.
StoredPredicates(p) ==
    LET revisions == UNION {0 .. segments[<<p, k>>] : k \in Key}
    IN  {inl \in [Key -> revisions] : \A k \in Key : inl[k] <= segments[<<p, k>>]}

AtomicMutation(r) ==
    /\ Admissible(r)
    /\ \E inl \in StoredPredicates(r.project), bun \in PublishedBundles(r.project) :
           Commit(r, Stamp(r), inl, bun)

AtomicNext == \E r \in Request : AtomicMutation(r)

AtomicSpec == TablesInit /\ [][AtomicNext]_tables
=============================================================================
