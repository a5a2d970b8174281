------------------------- MODULE ControlPlaneProofs -------------------------
(***************************************************************************)
(* Proofs about ControlPlane, for every set of handlers, projects, keys    *)
(* and requests, every retry limit and both backends.                      *)
(*                                                                         *)
(* The argument.  Only CommitTx and CommitUnacknowledged change a table.   *)
(* They use what the handler read earlier, so the invariant records what   *)
(* is still true of it: the rows it looked up are there, the stamp it read *)
(* is a lower bound.  A transaction that inserts version m + 1 when the    *)
(* table holds 1 .. n, m <= n, and the unique index has no m + 1, must     *)
(* have read m = n: that step turns a stale read into an exact one, and    *)
(* with it every commit is an atomic mutation of the tables.               *)
(***************************************************************************)
EXTENDS ControlPlane, TLAPS

\* Most leaves are first-order; the ones with arithmetic or records cite SMT.
USE Zenon

(***************************************************************************)
(* The queries.                                                            *)
(***************************************************************************)

\* MAX(version) of versions 1 .. n is n, and COALESCE makes it 0 for none.
LEMMA HighestOfInterval ==
    ASSUME NEW n \in Nat
    PROVE  Highest(1 .. n) = n
<1>1. CASE n = 0
  BY SMT, <1>1 DEF Highest
<1>2. CASE n > 0
  <2>1. n \in 1 .. n /\ \A y \in 1 .. n : n >= y
    BY SMT, <1>2
  <2>2. \A x \in 1 .. n : (\A y \in 1 .. n : x >= y) => x = n
    BY SMT, <2>1
  <2>3. Max(1 .. n) = n
    BY <2>1, <2>2 DEF Max
  <2> QED
    BY <1>2, <2>1, <2>3 DEF Highest
<1> QED
  BY SMT, <1>1, <1>2

\* In a table whose versions are numbered without a gap, the next number is
\* the only one that can be added.
LEMMA NextOfInterval ==
    ASSUME NEW S, NEW n \in Nat, S = 1 .. n
    PROVE  /\ Highest(S) = n
           /\ S \cup {n + 1} = 1 .. n + 1
           /\ Highest(S \cup {n + 1}) = n + 1
           /\ \A m \in Nat : m <= n /\ m + 1 \notin S => m = n
<1>1. S \cup {n + 1} = 1 .. n + 1
  BY SMT
<1>2. Highest(S) = n
  BY HighestOfInterval
<1>3. n + 1 \in Nat
  BY SMT
<1>4. Highest(S \cup {n + 1}) = n + 1
  BY <1>1, <1>3, HighestOfInterval
<1>5. \A m \in Nat : m <= n /\ m + 1 \notin S => m = n
  BY SMT
<1> QED
  BY <1>1, <1>2, <1>4, <1>5

\* The audit log counts versions, so the highest versions are numbers.
LEMMA HighestIsNat ==
    ASSUME TablesTypeOK, AuditTrail
    PROVE  /\ \A p \in Project, k \in Key : Highest(VersionsOf(p, k)) \in Nat
           /\ \A p \in Project : Highest(SnapshotVersionsOf(p)) \in Nat
<1>1. \A p \in Project, k \in Key : <<"publish_version", p, k>> \in Items
  BY DEF Items, KeyOp
<1>2. \A p \in Project : <<"compile_snapshot", p, NoKey>> \in Items
  BY DEF Items, ProjectOp
<1>3. \A i \in Items : audit[i] \in Nat
  BY DEF TablesTypeOK
<1>4. ASSUME NEW p \in Project, NEW k \in Key
      PROVE  Highest(VersionsOf(p, k)) \in Nat
  <2>1. audit[<<"publish_version", p, k>>] = Highest(VersionsOf(p, k))
    BY DEF AuditTrail
  <2> QED
    BY <1>1, <1>3, <2>1
<1>5. ASSUME NEW p \in Project
      PROVE  Highest(SnapshotVersionsOf(p)) \in Nat
  <2>1. audit[<<"compile_snapshot", p, NoKey>>] = Highest(SnapshotVersionsOf(p))
    BY DEF AuditTrail
  <2> QED
    BY <1>2, <1>3, <2>1
<1> QED
  BY <1>4, <1>5

\* The fields of a request.
LEMMA RequestFields ==
    ASSUME NEW r \in Request
    PROVE  /\ r.op \in ProjectOp \cup KeyOp
           /\ r.project \in Project
           /\ r.op \in ProjectOp => r.key = NoKey
           /\ r.op \in KeyOp => r.key \in Key
           /\ r.body \in Body
           /\ r.names \subseteq Key
           /\ Item(r) \in Items
  BY DEF Request, ProjectOp, KeyOp, Item, Items

\* A stamp is a number.
LEMMA StampIsNat ==
    ASSUME TablesTypeOK, AuditTrail, NEW r \in Request
    PROVE  Stamp(r) \in Nat
<1>1. CASE r.op \in {"create_project", "create_environment", "create_flag"}
  BY <1>1 DEF Stamp, Bit
<1>2. CASE r.op \in {"create_segment", "update_segment"}
  BY <1>2, RequestFields DEF TablesTypeOK, KeyOp, Stamp
<1>3. CASE r.op \in {"publish_version", "compile_snapshot"}
  BY <1>3, RequestFields, HighestIsNat DEF KeyOp, Stamp
<1> QED
  BY <1>1, <1>2, <1>3, RequestFields DEF ProjectOp, KeyOp
-----------------------------------------------------------------------------
(***************************************************************************)
(* One commit.                                                             *)
(***************************************************************************)

\* Nothing a handler has read before ceases to be a lower bound.
Grows ==
    /\ projects \subseteq projects'
    /\ environments \subseteq environments'
    /\ flags \subseteq flags'
    /\ flagVersions \subseteq flagVersions'
    /\ snapshots \subseteq snapshots'
    /\ \A p \in Project, k \in Key :
           /\ segments[<<p, k>>] <= segments'[<<p, k>>]
           /\ Highest(VersionsOf(p, k)) <= Highest(VersionsOf(p, k))'
    /\ \A p \in Project :
           Highest(SnapshotVersionsOf(p)) <= Highest(SnapshotVersionsOf(p))'

\* What the transaction of r knows when it commits.
MayCommit(r, n, inl, bun) ==
    /\ r.op # "create_project" => r.project \in projects
    /\ r.op = "publish_version" => <<r.project, r.key>> \in flags
    /\ r.op \in CreateOp => Stamp(r) = 0
    /\ n = Stamp(r)
    /\ r.op = "update_segment" => n > 0
    /\ \A k \in Key : inl[k] <= segments[<<r.project, k>>]
    /\ Published(r.project, bun)

\* Writing another table leaves the versions of every flag alone.
LEMMA SameVersions ==
    ASSUME flagVersions' = flagVersions
    PROVE  \A p, k : VersionsOf(p, k)' = VersionsOf(p, k)
  BY DEF VersionsOf

\* Writing another table leaves the snapshots of every project alone.
LEMMA SameSnapshotVersions ==
    ASSUME snapshots' = snapshots
    PROVE  \A p : SnapshotVersionsOf(p)' = SnapshotVersionsOf(p)
  BY DEF SnapshotVersionsOf

\* A publish adds its number to its own flag and to no other.
LEMMA PublishedVersions ==
    ASSUME NEW r, NEW n, NEW inl, TxPublishFlagVersion(r, n, inl)
    PROVE  /\ VersionsOf(r.project, r.key)' =
                  VersionsOf(r.project, r.key) \cup {n + 1}
           /\ \A p, k : p # r.project \/ k # r.key =>
                  VersionsOf(p, k)' = VersionsOf(p, k)
<1> DEFINE row == [project |-> r.project, key |-> r.key, version |-> n + 1,
                   body |-> r.body, inlined |-> inl]
<1>1. flagVersions' = flagVersions \cup {row}
  BY DEF TxPublishFlagVersion
<1>2. row.project = r.project /\ row.key = r.key /\ row.version = n + 1
  OBVIOUS
<1> HIDE DEF row
<1>3. VersionsOf(r.project, r.key)' = VersionsOf(r.project, r.key) \cup {n + 1}
  BY <1>1, <1>2 DEF VersionsOf
<1>4. ASSUME NEW p, NEW k, p # r.project \/ k # r.key
      PROVE  VersionsOf(p, k)' = VersionsOf(p, k)
  BY <1>1, <1>2, <1>4 DEF VersionsOf
<1> QED
  BY <1>3, <1>4

\* A compile adds its number to its own project and to no other.
LEMMA CompiledVersions ==
    ASSUME NEW r, NEW n, NEW bun, TxCompileSnapshot(r, n, bun)
    PROVE  /\ SnapshotVersionsOf(r.project)' =
                  SnapshotVersionsOf(r.project) \cup {n + 1}
           /\ \A p : p # r.project =>
                  SnapshotVersionsOf(p)' = SnapshotVersionsOf(p)
<1> DEFINE row == [project |-> r.project, version |-> n + 1, bundle |-> bun]
<1>1. snapshots' = snapshots \cup {row}
  BY DEF TxCompileSnapshot
<1>2. row.project = r.project /\ row.version = n + 1
  OBVIOUS
<1> HIDE DEF row
<1>3. SnapshotVersionsOf(r.project)' = SnapshotVersionsOf(r.project) \cup {n + 1}
  BY <1>1, <1>2 DEF SnapshotVersionsOf
<1>4. ASSUME NEW p, p # r.project
      PROVE  SnapshotVersionsOf(p)' = SnapshotVersionsOf(p)
  BY <1>1, <1>2, <1>4 DEF SnapshotVersionsOf
<1> QED
  BY <1>3, <1>4

\* An audit row counts for its own item and for no other.
LEMMA AuditStep ==
    ASSUME TablesTypeOK, NEW r \in Request, AppendAuditEvent(r)
    PROVE  /\ audit' \in [Items -> Nat]
           /\ audit'[Item(r)] = audit[Item(r)] + 1
           /\ \A i \in Items : i # Item(r) => audit'[i] = audit[i]
  BY SMT, RequestFields DEF TablesTypeOK, AppendAuditEvent

\* Items that are always there.
LEMMA ItemsOf ==
    ASSUME NEW p \in Project, NEW k \in Key
    PROVE  /\ <<"create_project", p, NoKey>> \in Items
           /\ <<"compile_snapshot", p, NoKey>> \in Items
           /\ <<"create_environment", p, k>> \in Items
           /\ <<"create_flag", p, k>> \in Items
           /\ <<"create_segment", p, k>> \in Items
           /\ <<"update_segment", p, k>> \in Items
           /\ <<"publish_version", p, k>> \in Items
  BY DEF Items, ProjectOp, KeyOp

\* A committed transaction keeps the tables well-formed.
LEMMA CommitTypeOK ==
    ASSUME TablesTypeOK, NEW r \in Request, NEW n \in Nat,
           NEW inl \in Bundle, NEW bun \in Bundle, Commit(r, n, inl, bun)
    PROVE  TablesTypeOK'
<1> USE DEF TablesTypeOK
<1>1. audit' \in [Items -> Nat]
  BY AuditStep DEF Commit
<1>2. r.op \in KeyOp => <<r.project, r.key>> \in Project \X Key
  BY RequestFields
<1>3. CASE r.op = "create_project" /\ TxCreateProject(r)
  BY <1>1, <1>3, RequestFields DEF TxCreateProject
<1>4. CASE r.op = "create_environment" /\ TxCreateEnvironment(r)
  BY <1>1, <1>2, <1>4 DEF TxCreateEnvironment, KeyOp
<1>5. CASE r.op = "create_flag" /\ TxCreateFlag(r)
  BY <1>1, <1>2, <1>5 DEF TxCreateFlag, KeyOp
<1>6. CASE r.op = "create_segment" /\ TxCreateSegment(r)
  BY <1>1, <1>2, <1>6 DEF TxCreateSegment, KeyOp
<1>7. CASE r.op = "update_segment" /\ TxUpdateSegment(r, n)
  BY SMT, <1>1, <1>2, <1>7 DEF TxUpdateSegment, KeyOp
<1>8. CASE r.op = "publish_version" /\ TxPublishFlagVersion(r, n, inl)
  <2>1. [project |-> r.project, key |-> r.key, version |-> n + 1,
         body |-> r.body, inlined |-> inl] \in FlagVersionRow
    BY SMT, <1>8, RequestFields DEF FlagVersionRow, KeyOp
  <2> QED
    BY <1>1, <1>8, <2>1 DEF TxPublishFlagVersion
<1>9. CASE r.op = "compile_snapshot" /\ TxCompileSnapshot(r, n, bun)
  <2>1. [project |-> r.project, version |-> n + 1, bundle |-> bun] \in SnapshotRow
    BY SMT, RequestFields DEF SnapshotRow
  <2> QED
    BY <1>1, <1>9, <2>1 DEF TxCompileSnapshot
<1> QED
  BY <1>3, <1>4, <1>5, <1>6, <1>7, <1>8, <1>9 DEF Commit

\* A commit that read the true stamp numbers its row without a gap.
LEMMA CommitVersions ==
    ASSUME TablesTypeOK, TablesInv, NEW r \in Request, NEW n, NEW inl, NEW bun,
           n = Stamp(r), Commit(r, n, inl, bun)
    PROVE  /\ VersionsGapFree'
           /\ \A p \in Project, k \in Key :
                  Highest(VersionsOf(p, k))' =
                      IF Item(r) = <<"publish_version", p, k>>
                        THEN Highest(VersionsOf(p, k)) + 1
                        ELSE Highest(VersionsOf(p, k))
           /\ \A p \in Project :
                  Highest(SnapshotVersionsOf(p))' =
                      IF Item(r) = <<"compile_snapshot", p, NoKey>>
                        THEN Highest(SnapshotVersionsOf(p)) + 1
                        ELSE Highest(SnapshotVersionsOf(p))
<1> USE DEF TablesInv
<1>0. n \in Nat
  BY StampIsNat
<1>1. CASE r.op = "publish_version"
  <2>1. TxPublishFlagVersion(r, n, inl)
    BY <1>1 DEF Commit
  <2>2. r.project \in Project /\ r.key \in Key
    BY <1>1, RequestFields DEF KeyOp
  <2>3. n = Highest(VersionsOf(r.project, r.key))
    BY <1>1 DEF Stamp
  <2>4. VersionsOf(r.project, r.key) = 1 .. n
    BY <2>2, <2>3 DEF VersionsGapFree
  <2>5. /\ VersionsOf(r.project, r.key)' = 1 .. n + 1
        /\ Highest(VersionsOf(r.project, r.key))' = n + 1
        /\ n + 1 \notin VersionsOf(r.project, r.key)
    <3>1. VersionsOf(r.project, r.key)' = VersionsOf(r.project, r.key) \cup {n + 1}
      BY <2>1, PublishedVersions
    <3>2. VersionsOf(r.project, r.key) \cup {n + 1} = 1 .. n + 1
      BY <1>0, <2>4, NextOfInterval
    <3>3. Highest(1 .. n + 1) = n + 1
      BY SMT, <1>0, HighestOfInterval
    <3>4. n + 1 \notin VersionsOf(r.project, r.key)
      BY SMT, <1>0, <2>4
    <3> QED
      BY <3>1, <3>2, <3>3, <3>4
  <2>6. \A p, k : p # r.project \/ k # r.key => VersionsOf(p, k)' = VersionsOf(p, k)
    BY <2>1, PublishedVersions
  <2>7. snapshots' = snapshots
    BY <2>1 DEF TxPublishFlagVersion
  <2>8. \A p : SnapshotVersionsOf(p)' = SnapshotVersionsOf(p)
    BY <2>7, SameSnapshotVersions
  <2>9. \A p \in Project, k \in Key :
            VersionsOf(p, k)' = 1 .. Highest(VersionsOf(p, k))'
    BY SMT, <2>5, <2>6 DEF VersionsGapFree
  <2>10. \A v, w \in flagVersions' :
            v.project = w.project /\ v.key = w.key /\ v.version = w.version => v = w
    <3> DEFINE row == [project |-> r.project, key |-> r.key, version |-> n + 1,
                       body |-> r.body, inlined |-> inl]
    <3>1. flagVersions' = flagVersions \cup {row}
      BY <2>1 DEF TxPublishFlagVersion
    <3>2. row.project = r.project /\ row.key = r.key /\ row.version = n + 1
      OBVIOUS
    <3> HIDE DEF row
    <3>3. \A v \in flagVersions :
              v.project = row.project /\ v.key = row.key => v.version # row.version
      BY <2>5, <3>2 DEF VersionsOf
    <3> QED
      BY <3>1, <3>3, ZenonT(60) DEF VersionsGapFree
  <2>11. VersionsGapFree'
    BY <2>7, <2>8, <2>9, <2>10 DEF VersionsGapFree
  <2>12. \A p \in Project, k \in Key :
            Item(r) = <<"publish_version", p, k>> <=> p = r.project /\ k = r.key
    BY <1>1 DEF Item
  <2>13. \A p \in Project : Item(r) # <<"compile_snapshot", p, NoKey>>
    BY <1>1 DEF Item
  <2> QED
    BY <2>3, <2>5, <2>6, <2>8, <2>11, <2>12, <2>13
<1>2. CASE r.op = "compile_snapshot"
  <2>1. TxCompileSnapshot(r, n, bun)
    BY <1>2 DEF Commit
  <2>2. r.project \in Project /\ r.key = NoKey
    BY <1>2, RequestFields DEF ProjectOp
  <2>3. n = Highest(SnapshotVersionsOf(r.project))
    BY <1>2 DEF Stamp
  <2>4. SnapshotVersionsOf(r.project) = 1 .. n
    BY <2>2, <2>3 DEF VersionsGapFree
  <2>5. /\ SnapshotVersionsOf(r.project)' = 1 .. n + 1
        /\ Highest(SnapshotVersionsOf(r.project))' = n + 1
        /\ n + 1 \notin SnapshotVersionsOf(r.project)
    <3>1. SnapshotVersionsOf(r.project)' = SnapshotVersionsOf(r.project) \cup {n + 1}
      BY <2>1, CompiledVersions
    <3>2. SnapshotVersionsOf(r.project) \cup {n + 1} = 1 .. n + 1
      BY <1>0, <2>4, NextOfInterval
    <3>3. Highest(1 .. n + 1) = n + 1
      BY SMT, <1>0, HighestOfInterval
    <3>4. n + 1 \notin SnapshotVersionsOf(r.project)
      BY SMT, <1>0, <2>4
    <3> QED
      BY <3>1, <3>2, <3>3, <3>4
  <2>6. \A p : p # r.project => SnapshotVersionsOf(p)' = SnapshotVersionsOf(p)
    BY <2>1, CompiledVersions
  <2>7. flagVersions' = flagVersions
    BY <2>1 DEF TxCompileSnapshot
  <2>8. \A p, k : VersionsOf(p, k)' = VersionsOf(p, k)
    BY <2>7, SameVersions
  <2>9. \A p \in Project :
            SnapshotVersionsOf(p)' = 1 .. Highest(SnapshotVersionsOf(p))'
    BY <2>5, <2>6 DEF VersionsGapFree
  <2>10. \A s, t \in snapshots' :
            s.project = t.project /\ s.version = t.version => s = t
    <3> DEFINE row == [project |-> r.project, version |-> n + 1, bundle |-> bun]
    <3>1. snapshots' = snapshots \cup {row}
      BY <2>1 DEF TxCompileSnapshot
    <3>2. row.project = r.project /\ row.version = n + 1
      OBVIOUS
    <3> HIDE DEF row
    <3>3. \A s \in snapshots : s.project = row.project => s.version # row.version
      BY <2>5, <3>2 DEF SnapshotVersionsOf
    <3> QED
      BY <3>1, <3>3, ZenonT(60) DEF VersionsGapFree
  <2>11. VersionsGapFree'
    BY <2>7, <2>8, <2>9, <2>10 DEF VersionsGapFree
  <2>12. \A p \in Project : Item(r) = <<"compile_snapshot", p, NoKey>> <=> p = r.project
    BY <1>2, <2>2 DEF Item
  <2>13. \A p \in Project, k \in Key : Item(r) # <<"publish_version", p, k>>
    BY <1>2 DEF Item
  <2> QED
    BY <2>3, <2>5, <2>6, <2>8, <2>11, <2>12, <2>13
<1>3. CASE r.op \notin {"publish_version", "compile_snapshot"}
  <2>1. flagVersions' = flagVersions /\ snapshots' = snapshots
    BY <1>3 DEF Commit, TxCreateProject, TxCreateEnvironment, TxCreateFlag,
                TxCreateSegment, TxUpdateSegment
  <2>2. /\ \A p, k : VersionsOf(p, k)' = VersionsOf(p, k)
        /\ \A p : SnapshotVersionsOf(p)' = SnapshotVersionsOf(p)
    BY <2>1, SameVersions, SameSnapshotVersions
  <2>3. VersionsGapFree'
    BY <2>1, <2>2 DEF VersionsGapFree
  <2>4. /\ \A p \in Project, k \in Key : Item(r) # <<"publish_version", p, k>>
        /\ \A p \in Project : Item(r) # <<"compile_snapshot", p, NoKey>>
    BY <1>3 DEF Item
  <2> QED
    BY <2>2, <2>3, <2>4
<1> QED
  BY <1>1, <1>2, <1>3

\* The keyed tables, one item at a time: a commit changes the row of its own
\* item and no other.
LEMMA CommitRows ==
    ASSUME TablesTypeOK, NEW r \in Request, NEW n, NEW inl, NEW bun,
           Commit(r, n, inl, bun)
    PROVE  /\ \A p \in Project :
                  p \in projects' <=>
                      p \in projects \/ Item(r) = <<"create_project", p, NoKey>>
           /\ \A p \in Project, k \in Key :
                  /\ <<p, k>> \in environments' <=>
                         \/ <<p, k>> \in environments
                         \/ Item(r) = <<"create_environment", p, k>>
                  /\ <<p, k>> \in flags' <=>
                         \/ <<p, k>> \in flags
                         \/ Item(r) = <<"create_flag", p, k>>
                  /\ segments'[<<p, k>>] =
                         IF Item(r) = <<"create_segment", p, k>> THEN 1
                         ELSE IF Item(r) = <<"update_segment", p, k>> THEN n + 1
                         ELSE segments[<<p, k>>]
<1> USE DEF TablesTypeOK, Item
<1>1. CASE r.op = "create_project" /\ TxCreateProject(r)
  BY <1>1, RequestFields DEF TxCreateProject, ProjectOp
<1>2. CASE r.op = "create_environment" /\ TxCreateEnvironment(r)
  BY <1>2, RequestFields DEF TxCreateEnvironment, KeyOp
<1>3. CASE r.op = "create_flag" /\ TxCreateFlag(r)
  BY <1>3, RequestFields DEF TxCreateFlag, KeyOp
<1>4. CASE r.op = "create_segment" /\ TxCreateSegment(r)
  BY <1>4, RequestFields DEF TxCreateSegment, KeyOp
<1>5. CASE r.op = "update_segment" /\ TxUpdateSegment(r, n)
  BY <1>5, RequestFields DEF TxUpdateSegment, KeyOp
<1>6. CASE r.op = "publish_version" /\ TxPublishFlagVersion(r, n, inl)
  BY <1>6 DEF TxPublishFlagVersion
<1>7. CASE r.op = "compile_snapshot" /\ TxCompileSnapshot(r, n, bun)
  BY <1>7 DEF TxCompileSnapshot
<1> QED
  BY <1>1, <1>2, <1>3, <1>4, <1>5, <1>6, <1>7 DEF Commit

\* A commit appends the one audit row its mutation deserves.
LEMMA CommitAudit ==
    ASSUME TablesTypeOK, TablesInv, NEW r \in Request, NEW n, NEW inl, NEW bun,
           MayCommit(r, n, inl, bun), Commit(r, n, inl, bun)
    PROVE  AuditTrail'
<1>0. n \in Nat /\ n = Stamp(r)
  BY StampIsNat DEF MayCommit, TablesInv
<1>1. /\ audit' \in [Items -> Nat]
      /\ audit'[Item(r)] = audit[Item(r)] + 1
      /\ \A i \in Items : i # Item(r) => audit'[i] = audit[i]
  BY AuditStep DEF Commit
<1>2. ASSUME NEW p \in Project
      PROVE  audit'[<<"create_project", p, NoKey>>] = Bit(p \in projects')
  <2>1. audit[<<"create_project", p, NoKey>>] = IF p \in projects THEN 1 ELSE 0
    BY DEF TablesInv, AuditTrail, Bit
  <2>2. p \in projects' <=> p \in projects \/ Item(r) = <<"create_project", p, NoKey>>
    BY CommitRows
  <2>3. Item(r) = <<"create_project", p, NoKey>> => p \notin projects
    BY SMT, <1>0 DEF MayCommit, CreateOp, Stamp, Bit, Item
  <2>4. <<"create_project", p, NoKey>> \in Items
    BY DEF Items, ProjectOp
  <2> QED
    BY SMT, <1>1, <2>1, <2>2, <2>3, <2>4 DEF Bit
<1>3. ASSUME NEW p \in Project
      PROVE  audit'[<<"compile_snapshot", p, NoKey>>] = Highest(SnapshotVersionsOf(p))'
  <2>1. <<"compile_snapshot", p, NoKey>> \in Items
    BY DEF Items, ProjectOp
  <2>2. audit[<<"compile_snapshot", p, NoKey>>] = Highest(SnapshotVersionsOf(p))
    BY DEF TablesInv, AuditTrail
  <2> QED
    BY <1>0, <1>1, <2>1, <2>2, CommitVersions
<1>4. ASSUME NEW p \in Project, NEW k \in Key
      PROVE  audit'[<<"create_environment", p, k>>] = Bit(<<p, k>> \in environments')
  <2>1. audit[<<"create_environment", p, k>>] = IF <<p, k>> \in environments THEN 1 ELSE 0
    BY DEF TablesInv, AuditTrail, Bit
  <2>2. Item(r) = <<"create_environment", p, k>> => <<p, k>> \notin environments
    BY SMT, <1>0 DEF MayCommit, CreateOp, Stamp, Bit, Item
  <2>3. <<p, k>> \in environments' <=>
            <<p, k>> \in environments \/ Item(r) = <<"create_environment", p, k>>
    BY CommitRows
  <2>4. <<"create_environment", p, k>> \in Items
    BY ItemsOf
  <2> QED
    BY SMT, <1>1, <2>1, <2>2, <2>3, <2>4 DEF Bit
<1>5. ASSUME NEW p \in Project, NEW k \in Key
      PROVE  audit'[<<"create_flag", p, k>>] = Bit(<<p, k>> \in flags')
  <2>1. audit[<<"create_flag", p, k>>] = IF <<p, k>> \in flags THEN 1 ELSE 0
    BY DEF TablesInv, AuditTrail, Bit
  <2>2. Item(r) = <<"create_flag", p, k>> => <<p, k>> \notin flags
    BY SMT, <1>0 DEF MayCommit, CreateOp, Stamp, Bit, Item
  <2>3. <<p, k>> \in flags' <=>
            <<p, k>> \in flags \/ Item(r) = <<"create_flag", p, k>>
    BY CommitRows
  <2>4. <<"create_flag", p, k>> \in Items
    BY ItemsOf
  <2> QED
    BY SMT, <1>1, <2>1, <2>2, <2>3, <2>4 DEF Bit
<1>6. ASSUME NEW p \in Project, NEW k \in Key
      PROVE  /\ audit'[<<"create_segment", p, k>>] = Bit(segments'[<<p, k>>] > 0)
             /\ audit'[<<"create_segment", p, k>>] + audit'[<<"update_segment", p, k>>] =
                    segments'[<<p, k>>]
  <2>1. /\ audit[<<"create_segment", p, k>>] = IF segments[<<p, k>>] > 0 THEN 1 ELSE 0
        /\ audit[<<"create_segment", p, k>>] + audit[<<"update_segment", p, k>>] =
               segments[<<p, k>>]
    BY DEF TablesInv, AuditTrail, Bit
  <2>2. Item(r) = <<"create_segment", p, k>> => segments[<<p, k>>] = 0
    BY <1>0 DEF MayCommit, CreateOp, Stamp, Item
  <2>3. Item(r) = <<"update_segment", p, k>> => segments[<<p, k>>] = n /\ n > 0
    BY <1>0 DEF MayCommit, Stamp, Item
  <2>4. /\ segments[<<p, k>>] \in Nat
        /\ audit[<<"create_segment", p, k>>] \in Nat
        /\ audit[<<"update_segment", p, k>>] \in Nat
    BY ItemsOf DEF TablesTypeOK
  <2>5. segments'[<<p, k>>] =
            IF Item(r) = <<"create_segment", p, k>> THEN 1
            ELSE IF Item(r) = <<"update_segment", p, k>> THEN n + 1
            ELSE segments[<<p, k>>]
    BY CommitRows
  <2>6. /\ <<"create_segment", p, k>> \in Items
        /\ <<"update_segment", p, k>> \in Items
        /\ <<"create_segment", p, k>> # <<"update_segment", p, k>>
    BY ItemsOf
  <2>7. CASE Item(r) = <<"create_segment", p, k>>
    <3>1. /\ audit'[<<"create_segment", p, k>>] = audit[<<"create_segment", p, k>>] + 1
          /\ audit'[<<"update_segment", p, k>>] = audit[<<"update_segment", p, k>>]
      BY <1>1, <2>6, <2>7
    <3>2. segments[<<p, k>>] = 0 /\ segments'[<<p, k>>] = 1
      BY <2>2, <2>5, <2>7
    <3> QED
      BY SMT, <2>1, <2>4, <3>1, <3>2 DEF Bit
  <2>8. CASE Item(r) = <<"update_segment", p, k>>
    <3>1. /\ audit'[<<"create_segment", p, k>>] = audit[<<"create_segment", p, k>>]
          /\ audit'[<<"update_segment", p, k>>] = audit[<<"update_segment", p, k>>] + 1
      BY <1>1, <2>6, <2>8
    <3>2. segments[<<p, k>>] = n /\ n > 0 /\ segments'[<<p, k>>] = n + 1
      BY <2>3, <2>5, <2>6, <2>8
    <3> QED
      BY SMT, <1>0, <2>1, <2>4, <3>1, <3>2 DEF Bit
  <2>9. CASE Item(r) \notin {<<"create_segment", p, k>>, <<"update_segment", p, k>>}
    BY <1>1, <2>1, <2>4, <2>5, <2>6, <2>9 DEF Bit
  <2> QED
    BY <2>7, <2>8, <2>9
<1>7. ASSUME NEW p \in Project, NEW k \in Key
      PROVE  audit'[<<"publish_version", p, k>>] = Highest(VersionsOf(p, k))'
  <2>1. audit[<<"publish_version", p, k>>] = Highest(VersionsOf(p, k))
    BY DEF TablesInv, AuditTrail
  <2> QED
    BY <1>0, <1>1, <2>1, CommitVersions, ItemsOf
<1> QED
  BY <1>2, <1>3, <1>4, <1>5, <1>6, <1>7 DEF AuditTrail

\* A commit only adds.
LEMMA CommitGrows ==
    ASSUME TablesTypeOK, TablesInv, NEW r \in Request, NEW n, NEW inl, NEW bun,
           MayCommit(r, n, inl, bun), Commit(r, n, inl, bun)
    PROVE  Grows
<1>0. n \in Nat /\ n = Stamp(r)
  BY StampIsNat DEF MayCommit, TablesInv
<1>1. /\ projects \subseteq projects' /\ environments \subseteq environments'
      /\ flags \subseteq flags' /\ flagVersions \subseteq flagVersions'
      /\ snapshots \subseteq snapshots'
  BY DEF Commit, TxCreateProject, TxCreateEnvironment, TxCreateFlag, TxCreateSegment,
         TxUpdateSegment, TxPublishFlagVersion, TxCompileSnapshot
<1>2. ASSUME NEW p \in Project, NEW k \in Key
      PROVE  segments[<<p, k>>] <= segments'[<<p, k>>]
  <2>1. Item(r) = <<"create_segment", p, k>> => segments[<<p, k>>] = 0
    BY <1>0 DEF MayCommit, CreateOp, Stamp, Item
  <2>2. Item(r) = <<"update_segment", p, k>> => segments[<<p, k>>] = n
    BY <1>0 DEF Stamp, Item
  <2>3. segments'[<<p, k>>] =
            IF Item(r) = <<"create_segment", p, k>> THEN 1
            ELSE IF Item(r) = <<"update_segment", p, k>> THEN n + 1
            ELSE segments[<<p, k>>]
    BY CommitRows
  <2>4. segments[<<p, k>>] \in Nat
    BY DEF TablesTypeOK
  <2> QED
    BY SMT, <1>0, <2>1, <2>2, <2>3, <2>4
<1>3. ASSUME NEW p \in Project, NEW k \in Key
      PROVE  Highest(VersionsOf(p, k)) <= Highest(VersionsOf(p, k))'
  <2>1. Highest(VersionsOf(p, k)) \in Nat
    BY HighestIsNat DEF TablesInv
  <2>2. \/ Highest(VersionsOf(p, k))' = Highest(VersionsOf(p, k))
        \/ Highest(VersionsOf(p, k))' = Highest(VersionsOf(p, k)) + 1
    BY <1>0, CommitVersions
  <2> QED
    BY SMT, <2>1, <2>2
<1>4. ASSUME NEW p \in Project
      PROVE  Highest(SnapshotVersionsOf(p)) <= Highest(SnapshotVersionsOf(p))'
  <2>1. Highest(SnapshotVersionsOf(p)) \in Nat
    BY HighestIsNat DEF TablesInv
  <2>2. \/ Highest(SnapshotVersionsOf(p))' = Highest(SnapshotVersionsOf(p))
        \/ Highest(SnapshotVersionsOf(p))' = Highest(SnapshotVersionsOf(p)) + 1
    BY <1>0, CommitVersions
  <2> QED
    BY SMT, <2>1, <2>2
<1> QED
  BY <1>1, <1>2, <1>3, <1>4 DEF Grows

\* Being published is for ever.
LEMMA PublishedIsStable ==
    ASSUME TablesTypeOK, AuditTrail, TablesTypeOK', AuditTrail', Grows,
           NEW p \in Project, NEW bun \in Bundle, Published(p, bun)
    PROVE  Published(p, bun)'
<1> SUFFICES ASSUME NEW k \in Key
             PROVE  bun[k] <= Highest(VersionsOf(p, k))'
  BY DEF Published
<1>1. bun[k] \in Nat /\ bun[k] <= Highest(VersionsOf(p, k))
  BY DEF Bundle, Published
<1>2. Highest(VersionsOf(p, k)) \in Nat /\ Highest(VersionsOf(p, k))' \in Nat
  <2>1. <<"publish_version", p, k>> \in Items
    BY ItemsOf
  <2>2. Highest(VersionsOf(p, k)) \in Nat
    BY HighestIsNat
  <2>3. audit' \in [Items -> Nat]
    BY DEF TablesTypeOK
  <2>4. audit'[<<"publish_version", p, k>>] = Highest(VersionsOf(p, k))'
    BY DEF AuditTrail
  <2> QED
    BY <2>1, <2>2, <2>3, <2>4
<1>3. Highest(VersionsOf(p, k)) <= Highest(VersionsOf(p, k))'
  BY DEF Grows
<1> QED
  BY SMT, <1>1, <1>2, <1>3

\* A commit leaves every row resting on rows that are there.
LEMMA CommitResolves ==
    ASSUME TablesTypeOK, TablesInv, NEW r \in Request, NEW n,
           NEW inl \in Bundle, NEW bun \in Bundle,
           MayCommit(r, n, inl, bun), Commit(r, n, inl, bun)
    PROVE  RowsResolve'
<1>0. n \in Nat /\ n = Stamp(r)
  BY StampIsNat DEF MayCommit, TablesInv
<1>1. Grows /\ AuditTrail' /\ TablesTypeOK'
  BY <1>0, CommitGrows, CommitAudit, CommitTypeOK
<1>2. ASSUME NEW e \in environments' \cup flags'
      PROVE  e[1] \in projects'
  <2>1. PICK p \in Project, k \in Key : e = <<p, k>>
    BY SMT, <1>1 DEF TablesTypeOK
  <2>2. \/ e \in environments \cup flags
        \/ Item(r) = <<"create_environment", p, k>>
        \/ Item(r) = <<"create_flag", p, k>>
    BY <2>1, CommitRows
  <2>3. CASE e \in environments \cup flags
    BY <1>1, <2>3 DEF TablesInv, RowsResolve, Grows
  <2>4. CASE Item(r) \in {<<"create_environment", p, k>>, <<"create_flag", p, k>>}
    BY <1>1, <2>1, <2>4 DEF Item, MayCommit, Grows
  <2> QED
    BY <2>2, <2>3, <2>4
<1>3. ASSUME NEW p \in Project, NEW k \in Key, segments'[<<p, k>>] > 0
      PROVE  p \in projects'
  <2>1. \/ segments'[<<p, k>>] = segments[<<p, k>>]
        \/ Item(r) \in {<<"create_segment", p, k>>, <<"update_segment", p, k>>}
    BY CommitRows
  <2>2. CASE Item(r) \in {<<"create_segment", p, k>>, <<"update_segment", p, k>>}
    BY <1>1, <2>2 DEF Item, MayCommit, Grows
  <2> QED
    BY <1>1, <1>3, <2>1, <2>2 DEF TablesInv, RowsResolve, Grows
<1>4. ASSUME NEW v \in flagVersions
      PROVE  /\ <<v.project, v.key>> \in flags'
             /\ \A k \in Key : v.inlined[k] <= segments'[<<v.project, k>>]
  <2>1. v.project \in Project /\ v.inlined \in [Key -> Nat]
    BY DEF TablesTypeOK, FlagVersionRow, Bundle
  <2>2. <<v.project, v.key>> \in flags
    BY DEF TablesInv, RowsResolve
  <2>3. ASSUME NEW k \in Key
        PROVE  v.inlined[k] <= segments'[<<v.project, k>>]
    <3>1. v.inlined[k] <= segments[<<v.project, k>>]
      BY DEF TablesInv, RowsResolve
    <3>2. segments[<<v.project, k>>] <= segments'[<<v.project, k>>]
      BY <1>1, <2>1 DEF Grows
    <3>3. /\ v.inlined[k] \in Nat
          /\ segments[<<v.project, k>>] \in Nat
          /\ segments'[<<v.project, k>>] \in Nat
      BY <1>1, <2>1 DEF TablesTypeOK
    <3> QED
      BY SMT, <3>1, <3>2, <3>3
  <2> QED
    BY <1>1, <2>2, <2>3 DEF Grows
<1>5. ASSUME NEW s \in snapshots
      PROVE  s.project \in projects' /\ Published(s.project, s.bundle)'
  <2>1. s.project \in Project /\ s.bundle \in Bundle
    BY DEF TablesTypeOK, SnapshotRow
  <2>2. s.project \in projects /\ Published(s.project, s.bundle)
    BY DEF TablesInv, RowsResolve
  <2>3. Published(s.project, s.bundle)'
    BY <1>1, <2>1, <2>2, PublishedIsStable DEF TablesInv
  <2> QED
    BY <1>1, <2>2, <2>3 DEF Grows
<1>6. ASSUME NEW v \in flagVersions', v \notin flagVersions
      PROVE  /\ <<v.project, v.key>> \in flags'
             /\ \A k \in Key : v.inlined[k] <= segments'[<<v.project, k>>]
  <2>1. r.op = "publish_version" /\ TxPublishFlagVersion(r, n, inl)
    BY <1>6 DEF Commit, TxCreateProject, TxCreateEnvironment, TxCreateFlag,
                TxCreateSegment, TxUpdateSegment, TxCompileSnapshot
  <2>2. /\ v = [project |-> r.project, key |-> r.key, version |-> n + 1,
                body |-> r.body, inlined |-> inl]
        /\ flags' = flags /\ segments' = segments
    BY <1>6, <2>1 DEF TxPublishFlagVersion
  <2>3. v.project = r.project /\ v.key = r.key /\ v.inlined = inl
    BY <2>2
  <2> QED
    BY <2>1, <2>2, <2>3 DEF MayCommit
<1>7. ASSUME NEW s \in snapshots', s \notin snapshots
      PROVE  s.project \in projects' /\ Published(s.project, s.bundle)'
  <2>1. r.op = "compile_snapshot" /\ TxCompileSnapshot(r, n, bun)
    BY <1>7 DEF Commit, TxCreateProject, TxCreateEnvironment, TxCreateFlag,
                TxCreateSegment, TxUpdateSegment, TxPublishFlagVersion
  <2>2. s = [project |-> r.project, version |-> n + 1, bundle |-> bun]
    BY <1>7, <2>1 DEF TxCompileSnapshot
  <2>3. s.project = r.project /\ s.bundle = bun
    BY <2>2
  <2>4. r.project \in projects /\ r.project \in Project /\ Published(r.project, bun)
    BY <2>1, RequestFields DEF MayCommit
  <2>5. Published(r.project, bun)'
    BY <1>1, <2>4, PublishedIsStable DEF TablesInv
  <2> QED
    BY <1>1, <2>3, <2>4, <2>5 DEF Grows
<1> QED
  BY <1>2, <1>3, <1>4, <1>5, <1>6, <1>7 DEF RowsResolve

\* The stamp of the item that was written is one higher.
LEMMA CommitStamp ==
    ASSUME TablesTypeOK, TablesInv, NEW r \in Request, NEW n,
           NEW inl \in Bundle, NEW bun \in Bundle,
           MayCommit(r, n, inl, bun), Commit(r, n, inl, bun)
    PROVE  Stamp(r)' = n + 1
<1>0. n \in Nat /\ n = Stamp(r)
  BY StampIsNat DEF MayCommit, TablesInv
<1>1. CASE r.op = "create_project"
  <2>1. r.project \in Project /\ Item(r) = <<"create_project", r.project, NoKey>>
    BY <1>1, RequestFields DEF Item, ProjectOp
  <2>2. r.project \in projects'
    BY <2>1, CommitRows
  <2>3. n = 0
    BY <1>0, <1>1 DEF MayCommit, CreateOp
  <2> QED
    BY SMT, <1>1, <2>2, <2>3 DEF Stamp, Bit
<1>2. CASE r.op \in {"create_environment", "create_flag"}
  <2>1. r.project \in Project /\ r.key \in Key /\ Item(r) = <<r.op, r.project, r.key>>
    BY <1>2, RequestFields DEF Item, KeyOp
  <2>2. n = 0
    BY <1>0, <1>2 DEF MayCommit, CreateOp
  <2>3. /\ r.op = "create_environment" => <<r.project, r.key>> \in environments'
        /\ r.op = "create_flag" => <<r.project, r.key>> \in flags'
    BY SMT, <2>1, CommitRows
  <2> QED
    BY SMT, <1>2, <2>2, <2>3 DEF Stamp, Bit
<1>3. CASE r.op \in {"create_segment", "update_segment"}
  <2>1. r.project \in Project /\ r.key \in Key /\ Item(r) = <<r.op, r.project, r.key>>
    BY <1>3, RequestFields DEF Item, KeyOp
  <2>2. r.op = "create_segment" => n = 0
    BY <1>0 DEF MayCommit, CreateOp
  <2>3. segments'[<<r.project, r.key>>] =
            IF Item(r) = <<"create_segment", r.project, r.key>> THEN 1
            ELSE IF Item(r) = <<"update_segment", r.project, r.key>> THEN n + 1
            ELSE segments[<<r.project, r.key>>]
    BY <2>1, CommitRows
  <2>4. segments'[<<r.project, r.key>>] = n + 1
    BY SMT, <1>3, <2>1, <2>2, <2>3
  <2> QED
    BY <1>3, <2>4 DEF Stamp
<1>4. CASE r.op = "publish_version"
  <2>1. /\ r.project \in Project /\ r.key \in Key
        /\ Item(r) = <<"publish_version", r.project, r.key>>
    BY <1>4, RequestFields DEF Item, KeyOp
  <2>2. Highest(VersionsOf(r.project, r.key))' = Highest(VersionsOf(r.project, r.key)) + 1
    BY <1>0, <2>1, CommitVersions
  <2> QED
    BY <1>0, <1>4, <2>2 DEF Stamp
<1>5. CASE r.op = "compile_snapshot"
  <2>1. /\ r.project \in Project
        /\ Item(r) = <<"compile_snapshot", r.project, NoKey>>
    BY <1>5, RequestFields DEF Item, ProjectOp
  <2>2. Highest(SnapshotVersionsOf(r.project))' = Highest(SnapshotVersionsOf(r.project)) + 1
    BY <1>0, <2>1, CommitVersions
  <2> QED
    BY <1>0, <1>5, <2>2 DEF Stamp
<1> QED
  BY <1>1, <1>2, <1>3, <1>4, <1>5, RequestFields DEF ProjectOp, KeyOp
-----------------------------------------------------------------------------
(***************************************************************************)
(* The tables under a step of the control plane.                           *)
(***************************************************************************)

\* The step that turns a stale read into an exact one: a transaction that may
\* commit read the stamp its item still has.
LEMMA CommitReadTheStamp ==
    ASSUME IInv, NEW h \in Handler, CommitThen(h)
    PROVE  seen[h] = Stamp(req[h])
<1> DEFINE r == req[h]
           m == seen[h]
<1>1. r \in Request /\ m \in Nat /\ Stamp(r) \in Nat /\ m <= Stamp(r)
  <2>1. r \in Request /\ m \in Nat
    BY RequestsAssumption DEF IInv, TypeOK
  <2>2. Stamp(r) \in Nat
    BY <2>1, StampIsNat DEF IInv, TypeOK, TablesInv
  <2>3. m <= Stamp(r)
    BY DEF IInv, HandlerInv, CarriesStored, CommitThen
  <2> QED
    BY <2>1, <2>2, <2>3
<1>2. CASE r.op \in CreateOp
  <2>1. ~(Stamp(r) > 0)
    BY <1>2 DEF CommitThen, Taken
  <2> QED
    BY SMT, <1>1, <2>1
<1>3. CASE r.op = "update_segment"
  BY <1>3 DEF CommitThen, Overwritten
<1>4. CASE r.op = "publish_version"
  <2>1. r.project \in Project /\ r.key \in Key
    BY <1>1, <1>4, RequestFields DEF KeyOp
  <2>2. Stamp(r) = Highest(VersionsOf(r.project, r.key))
    BY <1>4 DEF Stamp
  <2>3. VersionsOf(r.project, r.key) = 1 .. Stamp(r)
    BY <2>1, <2>2 DEF IInv, TablesInv, VersionsGapFree
  <2>4. m + 1 \notin VersionsOf(r.project, r.key)
    BY <1>4 DEF CommitThen, Taken
  <2> QED
    BY SMT, <1>1, <2>3, <2>4
<1>5. CASE r.op = "compile_snapshot"
  <2>1. r.project \in Project
    BY <1>1, RequestFields
  <2>2. Stamp(r) = Highest(SnapshotVersionsOf(r.project))
    BY <1>5 DEF Stamp
  <2>3. SnapshotVersionsOf(r.project) = 1 .. Stamp(r)
    BY <2>1, <2>2 DEF IInv, TablesInv, VersionsGapFree
  <2>4. m + 1 \notin SnapshotVersionsOf(r.project)
    BY <1>5 DEF CommitThen, Taken
  <2> QED
    BY SMT, <1>1, <2>3, <2>4
<1> QED
  BY <1>1, <1>2, <1>3, <1>4, <1>5, RequestFields DEF ProjectOp, KeyOp, CreateOp

\* So a commit is a mutation the tables admit.
LEMMA CommitIsAdmissible ==
    ASSUME IInv, NEW h \in Handler, CommitThen(h)
    PROVE  /\ req[h] \in Request
           /\ seen[h] \in Nat
           /\ inlined[h] \in Bundle
           /\ bundle[h] \in Bundle
           /\ MayCommit(req[h], seen[h], inlined[h], bundle[h])
           /\ Commit(req[h], seen[h], inlined[h], bundle[h])
<1>1. /\ req[h] \in Request /\ seen[h] \in Nat
      /\ inlined[h] \in Bundle /\ bundle[h] \in Bundle
  BY RequestsAssumption DEF IInv, TypeOK
<1>2. seen[h] = Stamp(req[h])
  BY CommitReadTheStamp
<1>3. /\ req[h].op # "create_project" => req[h].project \in projects
      /\ req[h].op = "publish_version" => <<req[h].project, req[h].key>> \in flags
  BY DEF IInv, HandlerInv, LookedUp, CommitThen, Working
<1>4. req[h].op \in CreateOp => Stamp(req[h]) = 0
  <2>1. req[h].op \in CreateOp => ~(Stamp(req[h]) > 0)
    BY DEF CommitThen, Taken
  <2> QED
    BY SMT, <1>1, <1>2, <2>1
<1>5. req[h].op = "update_segment" => seen[h] > 0
  BY SMT, <1>1 DEF CommitThen, NoRow
<1>6. /\ \A k \in Key : inlined[h][k] <= segments[<<req[h].project, k>>]
      /\ Published(req[h].project, bundle[h])
  BY DEF IInv, HandlerInv, CarriesStored
<1>7. MayCommit(req[h], seen[h], inlined[h], bundle[h])
  BY <1>2, <1>3, <1>4, <1>5, <1>6 DEF MayCommit
<1> QED
  BY <1>1, <1>7 DEF CommitThen

\* Only a commit writes.
LEMMA OnlyCommitsWrite ==
    ASSUME [Next]_vars
    PROVE  \/ UNCHANGED tables
           \/ \E h \in Handler : CommitThen(h)
<1>1. CASE UNCHANGED vars
  BY <1>1 DEF vars
<1>2. CASE Crash \/ Quiescent
  BY <1>2 DEF Crash, Quiescent, vars
<1>3. ASSUME NEW h \in Handler,
             Receive(h) \/ Reject(h) \/ CommitUnacknowledged(h) \/ Abort(h)
      PROVE  UNCHANGED tables \/ CommitThen(h)
  BY <1>3 DEF Receive, Reject, Handling, CommitUnacknowledged, Abort
<1>4. ASSUME NEW h \in Handler, Serve(h)
      PROVE  UNCHANGED tables \/ CommitThen(h)
  BY <1>4 DEF Serve, CreateProject, CreateEnvironment, CreateFlag, CreateSegment,
              UpdateSegment, PublishFlagVersion, CompileSnapshot, Handling,
              ResolveSegment, Compile, CompileBundle, PgBegin, SqliteBegin, ReadStamp,
              CommitTx, Reply, UniqueViolation, UpdateNoRows, PgSerializationFailure,
              SqliteBusy, RetryOrFail, Retry
<1> QED
  BY <1>1, <1>2, <1>3, <1>4 DEF Next

\* Every step keeps the tables consistent, and the tables only grow.
LEMMA TablesStep ==
    ASSUME IInv, [Next]_vars
    PROVE  TablesTypeOK' /\ TablesInv' /\ Grows
<1>1. CASE UNCHANGED tables
  <2>1. /\ projects' = projects /\ environments' = environments /\ flags' = flags
        /\ segments' = segments /\ flagVersions' = flagVersions
        /\ snapshots' = snapshots /\ audit' = audit
    BY <1>1 DEF tables
  <2>2. /\ \A p, k : VersionsOf(p, k)' = VersionsOf(p, k)
        /\ \A p : SnapshotVersionsOf(p)' = SnapshotVersionsOf(p)
    BY <2>1, SameVersions, SameSnapshotVersions
  <2>3. TablesTypeOK'
    BY <2>1 DEF IInv, TypeOK, TablesTypeOK
  <2>4. VersionsGapFree'
    BY <2>1, <2>2 DEF IInv, TablesInv, VersionsGapFree
  <2>5. AuditTrail'
    BY <2>1, <2>2 DEF IInv, TablesInv, AuditTrail, Bit
  <2>6. RowsResolve'
    BY <2>1, <2>2 DEF IInv, TablesInv, RowsResolve, Published
  <2>7. /\ \A p \in Project, k \in Key :
               segments[<<p, k>>] \in Nat /\ Highest(VersionsOf(p, k)) \in Nat
        /\ \A p \in Project : Highest(SnapshotVersionsOf(p)) \in Nat
    BY HighestIsNat DEF IInv, TypeOK, TablesTypeOK, TablesInv
  <2>8. Grows
    BY SMT, <2>1, <2>2, <2>7 DEF Grows
  <2> QED
    BY <2>3, <2>4, <2>5, <2>6, <2>8 DEF TablesInv
<1>2. CASE \E h \in Handler : CommitThen(h)
  <2>1. PICK h \in Handler : CommitThen(h)
    BY <1>2
  <2>2. /\ req[h] \in Request /\ seen[h] \in Nat
        /\ inlined[h] \in Bundle /\ bundle[h] \in Bundle
        /\ MayCommit(req[h], seen[h], inlined[h], bundle[h])
        /\ Commit(req[h], seen[h], inlined[h], bundle[h])
    BY <2>1, CommitIsAdmissible
  <2>3. PICK r \in Request, n \in Nat, inl \in Bundle, bun \in Bundle :
            MayCommit(r, n, inl, bun) /\ Commit(r, n, inl, bun)
    BY <2>2
  <2>4. TablesTypeOK /\ TablesInv /\ n = Stamp(r)
    BY <2>3 DEF IInv, TypeOK, MayCommit
  <2>5. TablesTypeOK'
    BY <2>3, <2>4, CommitTypeOK
  <2>6. VersionsGapFree'
    BY <2>3, <2>4, CommitVersions
  <2>7. AuditTrail'
    BY <2>3, <2>4, CommitAudit
  <2>8. RowsResolve'
    BY <2>3, <2>4, CommitResolves
  <2>9. Grows
    BY <2>3, <2>4, CommitGrows
  <2> QED
    BY <2>5, <2>6, <2>7, <2>8, <2>9 DEF TablesInv
<1> QED
  BY <1>1, <1>2, OnlyCommitsWrite
-----------------------------------------------------------------------------
(***************************************************************************)
(* Types.                                                                  *)
(***************************************************************************)

\* Where the handlers are and what they answered, after a step.
Placed ==
    /\ pc' \in [Handler -> Location]
    /\ resp' \in [Handler -> [status : Status, version : Nat]]

\* The newest versions form a bundle.
LEMMA LatestVersionsAreBundle ==
    ASSUME TablesTypeOK, TablesInv, NEW p \in Project
    PROVE  /\ ListLatestFlagVersions(p) \in Bundle
           /\ Published(p, ListLatestFlagVersions(p))
<1>1. \A k \in Key : Highest(VersionsOf(p, k)) \in Nat
  BY HighestIsNat DEF TablesInv
<1> QED
  BY SMT, <1>1 DEF ListLatestFlagVersions, Bundle, Published

\* The floor of a request is a bundle.
LEMMA FloorIsBundle ==
    ASSUME TablesTypeOK, TablesInv, NEW r \in Request
    PROVE  Floor(r) \in Bundle
<1>1. CASE r.op = "publish_version"
  BY <1>1, RequestFields DEF Floor, Bundle, TablesTypeOK
<1>2. CASE r.op = "compile_snapshot"
  BY <1>2, RequestFields, LatestVersionsAreBundle DEF Floor
<1>3. CASE r.op \notin {"publish_version", "compile_snapshot"}
  <2>1. EmptyBundle \in Bundle
    BY SMT DEF EmptyBundle, Bundle
  <2> QED
    BY <1>3, <2>1 DEF Floor
<1> QED
  BY <1>1, <1>2, <1>3

\* Moving on and answering keep the types.
LEMMA GotoTypes ==
    ASSUME TypeOK, NEW h \in Handler, NEW l \in Location, Goto(h, l)
    PROVE  Placed
  BY DEF TypeOK, Goto, Placed

\* So does an answer.
LEMMA RespondTypes ==
    ASSUME TypeOK, NEW h \in Handler, NEW s \in Status, NEW v \in Nat, Respond(h, s, v)
    PROVE  Placed
<1>1. [status |-> s, version |-> v] \in [status : Status, version : Nat]
  OBVIOUS
<1>2. "idle" \in Location
  BY DEF Location
<1> QED
  BY <1>1, <1>2 DEF TypeOK, Respond, Placed

\* A step of one handler keeps the types.
LEMMA ServeTypeOK ==
    ASSUME IInv, TablesTypeOK', NEW h \in Handler, Serve(h)
    PROVE  TypeOK'
<1>0. /\ TypeOK
      /\ req[h] \in Request /\ req[h].project \in Project
      /\ {"idle", "resolve", "bundle", "begin", "tx", "backoff", "reply"} \subseteq Location
      /\ {"ok", "bad_request", "not_found", "conflict", "error"} \subseteq Status
      /\ 0 \in Nat
  BY RequestFields, RequestsAssumption DEF IInv, TypeOK, Location, Status
<1>1. CASE \/ CreateProject(h) \/ CreateEnvironment(h) \/ CreateFlag(h)
           \/ CreateSegment(h) \/ UpdateSegment(h)
  <2>1. Placed
    BY <1>0, <1>1, GotoTypes, RespondTypes
       DEF CreateProject, CreateEnvironment, CreateFlag, CreateSegment,
           UpdateSegment, InProject
  <2> QED
    BY <1>0, <1>1, <2>1
       DEF CreateProject, CreateEnvironment, CreateFlag, CreateSegment,
           UpdateSegment, Handling, Placed, TypeOK
<1>2. CASE PublishFlagVersion(h) \/ CompileSnapshot(h)
  <2>1. Placed
    BY <1>0, <1>2, GotoTypes, RespondTypes DEF PublishFlagVersion, CompileSnapshot
  <2> QED
    BY <1>0, <1>2, <2>1 DEF PublishFlagVersion, CompileSnapshot, Handling, Placed, TypeOK
<1>3. ASSUME NEW k \in Key, ResolveSegment(h, k)
      PROVE  TypeOK'
  <2>1. Placed
    BY <1>0, <1>3, GotoTypes, RespondTypes DEF ResolveSegment
  <2>2. segments[<<req[h].project, k>>] \in Nat
    BY <1>0 DEF TypeOK, TablesTypeOK
  <2>3. \A rev \in Nat : [inlined EXCEPT ![h][k] = rev] \in [Handler -> Bundle]
    BY <1>0 DEF TypeOK, Bundle
  <2>4. inlined' \in [Handler -> Bundle]
    BY <1>0, <1>3, <2>2, <2>3 DEF TypeOK, ResolveSegment
  <2> QED
    BY <1>0, <1>3, <2>1, <2>4 DEF ResolveSegment, Placed, TypeOK
<1>4. CASE Compile(h)
  <2>1. Placed
    BY <1>0, <1>4, GotoTypes, RespondTypes DEF Compile
  <2> QED
    BY <1>0, <1>4, <2>1 DEF Compile, Placed, TypeOK
<1>5. CASE CompileBundle(h)
  <2>1. Placed
    BY <1>0, <1>5, GotoTypes DEF CompileBundle
  <2>2. ListLatestFlagVersions(req[h].project) \in Bundle
    BY <1>0, LatestVersionsAreBundle DEF IInv, TypeOK
  <2> QED
    BY <1>0, <1>5, <2>1, <2>2 DEF CompileBundle, Placed, TypeOK
<1>6. CASE PgBegin(h) \/ SqliteBegin(h)
  <2>1. ReadStamp(h)
    BY <1>6 DEF PgBegin, SqliteBegin
  <2>2. Placed
    BY <1>0, <2>1, GotoTypes DEF ReadStamp
  <2>3. Stamp(req[h]) \in Nat
    BY <1>0, StampIsNat DEF IInv, TypeOK, TablesInv
  <2> QED
    BY <1>0, <2>1, <2>2, <2>3 DEF ReadStamp, Placed, TypeOK
<1>7. CASE CommitTx(h)
  <2>1. Placed
    BY <1>0, <1>7, GotoTypes DEF CommitTx
  <2>2. commits' \in [Handler -> Nat]
    BY SMT, <1>0, <1>7 DEF CommitTx, CommitThen, TypeOK
  <2>3. TxDone(h)
    BY <1>7 DEF CommitTx, CommitThen
  <2> QED
    BY <1>0, <2>1, <2>2, <2>3 DEF TxDone, Placed, TypeOK
<1>8. CASE Reply(h) \/ UniqueViolation(h) \/ UpdateNoRows(h)
  <2>1. seen[h] + 1 \in Nat
    BY SMT, <1>0 DEF TypeOK
  <2>2. Placed
    BY <1>0, <1>8, <2>1, RespondTypes DEF Reply, UniqueViolation, UpdateNoRows
  <2> QED
    BY <1>0, <1>8, <2>2 DEF Reply, UniqueViolation, UpdateNoRows, TxDone, Placed, TypeOK
<1>9. CASE PgSerializationFailure(h) \/ SqliteBusy(h)
  <2>1. RetryOrFail(h)
    BY <1>9 DEF PgSerializationFailure, SqliteBusy
  <2>2. Placed
    BY <1>0, <2>1, GotoTypes, RespondTypes DEF RetryOrFail
  <2> QED
    BY <1>0, <2>1, <2>2 DEF RetryOrFail, TxDone, Placed, TypeOK
<1>10. CASE Retry(h)
  <2>1. Placed
    BY <1>0, <1>10, GotoTypes DEF Retry
  <2>2. attempt[h] < MaxRetries
    BY <1>10 DEF IInv, HandlerInv, InPlace, Retry
  <2>3. attempt' \in [Handler -> 0 .. MaxRetries]
    BY SMT, <1>0, <1>10, <2>2, BoundAssumption DEF Retry, TypeOK
  <2> QED
    BY <1>0, <1>10, <2>1, <2>3 DEF Retry, Placed, TypeOK
<1> QED
  BY <1>1, <1>2, <1>3, <1>4, <1>5, <1>6, <1>7, <1>8, <1>9, <1>10 DEF Serve

\* Every step keeps the types.
LEMMA TypeStep ==
    ASSUME IInv, [Next]_vars
    PROVE  TypeOK'
<1>0. TablesTypeOK'
  BY TablesStep
<1> USE <1>0 DEF IInv, TypeOK
<1>1. CASE UNCHANGED vars
  BY <1>1 DEF vars, handlerVars
<1>2. CASE Quiescent
  BY <1>2 DEF Quiescent, vars, handlerVars
<1>3. CASE Crash
  BY <1>3 DEF Crash, Location, Status
<1>4. ASSUME NEW h \in Handler, Receive(h)
      PROVE  TypeOK'
  <2>1. PICK r \in Requests : /\ req' = [req EXCEPT ![h] = r]
                              /\ floor' = [floor EXCEPT ![h] = Floor(r)]
    BY <1>4 DEF Receive
  <2>2. Floor(r) \in Bundle
    BY FloorIsBundle, RequestsAssumption
  <2>3. EmptyBundle \in Bundle /\ NoResponse \in [status : Status, version : Nat]
    BY DEF EmptyBundle, Bundle, NoResponse, Status
  <2> QED
    BY SMT, <1>4, <2>1, <2>2, <2>3, BoundAssumption DEF Receive, Location
<1>5. ASSUME NEW h \in Handler, Reject(h) \/ Abort(h) \/ CommitUnacknowledged(h)
      PROVE  TypeOK'
  <2>1. "bad_request" \in Status /\ "error" \in Status /\ 0 \in Nat
    BY DEF Status
  <2>2. Placed
    BY <1>5, <2>1, RespondTypes DEF Reject, Abort, CommitUnacknowledged
  <2> QED
    BY SMT, <1>5, <2>2 DEF Reject, Handling, Abort, CommitUnacknowledged, CommitThen, TxDone,
                      Placed
<1>6. ASSUME NEW h \in Handler, Serve(h)
      PROVE  TypeOK'
  BY <1>6, ServeTypeOK
<1> QED
  BY <1>1, <1>2, <1>3, <1>4, <1>5, <1>6 DEF Next
-----------------------------------------------------------------------------
(***************************************************************************)
(* What a handler knows, while others work.                                *)
(***************************************************************************)

\* Stamps only grow.
LEMMA StampGrows ==
    ASSUME TablesTypeOK, TablesInv, TablesTypeOK', AuditTrail', Grows, NEW r \in Request
    PROVE  Stamp(r)' \in Nat /\ Stamp(r) <= Stamp(r)'
<1>0. audit' \in [Items -> Nat] /\ segments' \in [Project \X Key -> Nat]
  BY DEF TablesTypeOK
<1>1. CASE r.op = "create_project"
  BY SMT, <1>1 DEF Stamp, Bit, Grows
<1>2. CASE r.op \in {"create_environment", "create_flag"}
  BY SMT, <1>2 DEF Stamp, Bit, Grows
<1>3. CASE r.op \in {"create_segment", "update_segment"}
  <2>1. r.project \in Project /\ r.key \in Key
    BY <1>3, RequestFields DEF KeyOp
  <2>2. Stamp(r)' = segments'[<<r.project, r.key>>]
    BY <1>3 DEF Stamp
  <2> QED
    BY <1>0, <1>3, <2>1, <2>2 DEF Stamp, Grows
<1>4. CASE r.op = "publish_version"
  <2>1. r.project \in Project /\ r.key \in Key
    BY <1>4, RequestFields DEF KeyOp
  <2>2. Stamp(r)' = Highest(VersionsOf(r.project, r.key))'
    BY <1>4 DEF Stamp
  <2>3. audit'[<<"publish_version", r.project, r.key>>] =
            Highest(VersionsOf(r.project, r.key))'
    BY <2>1 DEF AuditTrail
  <2>4. <<"publish_version", r.project, r.key>> \in Items
    BY <2>1, ItemsOf
  <2> QED
    BY <1>0, <1>4, <2>1, <2>2, <2>3, <2>4 DEF Stamp, Grows
<1>5. CASE r.op = "compile_snapshot"
  <2>1. r.project \in Project /\ r.key = NoKey
    BY <1>5, RequestFields DEF ProjectOp
  <2>2. Stamp(r)' = Highest(SnapshotVersionsOf(r.project))'
    BY <1>5 DEF Stamp
  <2>3. audit'[<<"compile_snapshot", r.project, NoKey>>] =
            Highest(SnapshotVersionsOf(r.project))'
    BY <2>1 DEF AuditTrail
  <2>4. <<"compile_snapshot", r.project, NoKey>> \in Items
    BY <2>1 DEF Items, ProjectOp
  <2> QED
    BY <1>0, <1>5, <2>1, <2>2, <2>3, <2>4 DEF Stamp, Grows
<1> QED
  BY <1>1, <1>2, <1>3, <1>4, <1>5, RequestFields DEF ProjectOp, KeyOp

\* What a handler carries stays stored as long as it carries it.
LEMMA StaysStored ==
    ASSUME IInv, TypeOK', TablesInv', Grows, NEW g \in Handler,
           req'[g] = req[g], floor'[g] = floor[g]
    PROVE  /\ Stamp(req[g]) \in Nat /\ Stamp(req[g])' \in Nat
           /\ Stamp(req[g]) <= Stamp(req[g])'
           /\ inlined'[g] = inlined[g] =>
                  \A k \in Key : inlined'[g][k] <= segments'[<<req'[g].project, k>>]
           /\ bundle'[g] = bundle[g] => Published(req[g].project, bundle[g])'
           /\ req[g].op = "publish_version" =>
                  \A k \in Key : floor'[g][k] <= segments'[<<req'[g].project, k>>]
           /\ req[g].op = "compile_snapshot" => Published(req[g].project, floor[g])'
<1> DEFINE p == req[g].project
<1>1. /\ req[g] \in Request /\ p \in Project
      /\ inlined[g] \in Bundle /\ bundle[g] \in Bundle /\ floor[g] \in Bundle
  BY RequestFields, RequestsAssumption DEF IInv, TypeOK
<1>2. \A r \in Request : /\ Stamp(r) \in Nat /\ Stamp(r)' \in Nat
                         /\ Stamp(r) <= Stamp(r)'
  BY StampIsNat, StampGrows DEF IInv, TypeOK, TablesInv
<1>3. /\ Stamp(req[g]) \in Nat /\ Stamp(req[g])' \in Nat
      /\ Stamp(req[g]) <= Stamp(req[g])'
  BY <1>1, <1>2
<1>4. ASSUME NEW k \in Key
      PROVE  /\ segments[<<p, k>>] \in Nat /\ segments'[<<p, k>>] \in Nat
             /\ segments[<<p, k>>] <= segments'[<<p, k>>]
  BY <1>1 DEF IInv, TypeOK, TablesTypeOK, Grows
<1>5. inlined'[g] = inlined[g] =>
          \A k \in Key : inlined'[g][k] <= segments'[<<req'[g].project, k>>]
  <2>1. \A k \in Key : inlined[g][k] \in Nat /\ inlined[g][k] <= segments[<<p, k>>]
    BY <1>1 DEF IInv, HandlerInv, CarriesStored, Bundle
  <2> QED
    BY SMT, <1>4, <2>1
<1>6. req[g].op = "publish_version" =>
          \A k \in Key : floor'[g][k] <= segments'[<<req'[g].project, k>>]
  <2>1. req[g].op = "publish_version" =>
            \A k \in Key : floor[g][k] \in Nat /\ floor[g][k] <= segments[<<p, k>>]
    BY <1>1 DEF IInv, HandlerInv, AboveFloor, Bundle
  <2> QED
    BY SMT, <1>4, <2>1
<1>7. \A q \in Project, bun \in Bundle : Published(q, bun) => Published(q, bun)'
  BY PublishedIsStable DEF IInv, TypeOK, TablesInv
<1>8. bundle'[g] = bundle[g] => Published(req[g].project, bundle[g])'
  <2>1. Published(p, bundle[g])
    BY DEF IInv, HandlerInv, CarriesStored
  <2> QED
    BY <1>1, <1>7, <2>1
<1>9. req[g].op = "compile_snapshot" => Published(req[g].project, floor[g])'
  <2>1. req[g].op = "compile_snapshot" => Published(p, floor[g])
    BY DEF IInv, HandlerInv, AboveFloor
  <2> QED
    BY <1>1, <1>7, <2>1
<1> QED
  BY <1>3, <1>5, <1>6, <1>8, <1>9

\* The handler keeps its request and what it has read for it.
Keeps(g) ==
    /\ req'[g] = req[g]
    /\ floor'[g] = floor[g]
    /\ inlined'[g] = inlined[g]
    /\ bundle'[g] = bundle[g]

\* The rows a handler must have looked up before it goes on.
Found(g) ==
    /\ req[g].op # "create_project" => req[g].project \in projects
    /\ req[g].op = "publish_version" => <<req[g].project, req[g].key>> \in flags

\* What a handler must have read before its transaction.
ReadAll(g) ==
    /\ req[g].op = "publish_version" => Unresolved(g) = {}
    /\ req[g].op = "compile_snapshot" => \A k \in Key : bundle[g][k] >= floor[g][k]

\* Rows that were found stay found.
LEMMA KeepsLookups ==
    ASSUME Grows, NEW g \in Handler, req'[g] = req[g],
           pc'[g] \in Working \ {"handle"} => Found(g)
    PROVE  LookedUp(g)'
  BY DEF LookedUp, Found, Grows

\* What is carried stays stored.
LEMMA KeepsCarrying ==
    ASSUME IInv, TypeOK', TablesInv', Grows, NEW g \in Handler, Keeps(g),
           pc'[g] = "tx" => seen'[g] <= Stamp(req[g])
    PROVE  CarriesStored(g)'
<1>1. /\ Stamp(req[g]) \in Nat /\ Stamp(req[g])' \in Nat
      /\ Stamp(req[g]) <= Stamp(req[g])'
      /\ \A k \in Key : inlined'[g][k] <= segments'[<<req'[g].project, k>>]
      /\ Published(req[g].project, bundle[g])'
  BY StaysStored DEF Keeps
<1>2. seen'[g] \in Nat
  BY DEF TypeOK
<1>3. pc'[g] = "tx" => seen'[g] <= Stamp(req[g])'
  BY SMT, <1>1, <1>2
<1> QED
  BY <1>1, <1>3 DEF CarriesStored

\* What was read after arrival stays above the floor.
LEMMA KeepsFloor ==
    ASSUME IInv, TypeOK', TablesInv', Grows, NEW g \in Handler, Keeps(g),
           Prepared(g)' => ReadAll(g)
    PROVE  AboveFloor(g)'
<1>1. CASE req[g].op = "publish_version"
  <2>1. \A k \in Key : floor'[g][k] <= segments'[<<req'[g].project, k>>]
    BY <1>1, StaysStored DEF Keeps
  <2>2. \A k \in Key : inlined'[g][k] # 0 => inlined'[g][k] >= floor'[g][k]
    BY <1>1 DEF IInv, HandlerInv, AboveFloor, Keeps
  <2>3. Prepared(g)' => Unresolved(g)' = {}
    BY <1>1 DEF ReadAll, Unresolved, Keeps
  <2> QED
    BY <1>1, <2>1, <2>2, <2>3 DEF AboveFloor, Keeps
<1>2. CASE req[g].op = "compile_snapshot"
  <2>1. Published(req[g].project, floor[g])'
    BY <1>2, StaysStored DEF Keeps
  <2>2. Prepared(g)' => \A k \in Key : bundle'[g][k] >= floor'[g][k]
    BY <1>2 DEF ReadAll, Keeps
  <2> QED
    BY <1>2, <2>1, <2>2 DEF AboveFloor, Keeps
<1>3. CASE req[g].op \notin {"publish_version", "compile_snapshot"}
  BY <1>3 DEF AboveFloor, Keeps
<1> QED
  BY <1>1, <1>2, <1>3

\* A row that was stored stays stored.
LEMMA KeepsResult ==
    ASSUME IInv, TypeOK', TablesInv', Grows, NEW g \in Handler, Keeps(g),
           Succeeded(g)' => Succeeded(g) /\ seen'[g] = seen[g],
           Answered(g, "ok")' => resp'[g].version = seen'[g] + 1
    PROVE  ResultStored(g)'
<1> SUFFICES ASSUME Succeeded(g)'
             PROVE  /\ seen'[g] + 1 <= Stamp(req[g])'
                    /\ req'[g].op = "publish_version" =>
                           [project |-> req'[g].project, key |-> req'[g].key,
                            version |-> seen'[g] + 1, body |-> req'[g].body,
                            inlined |-> inlined'[g]] \in flagVersions'
                    /\ req'[g].op = "compile_snapshot" =>
                           [project |-> req'[g].project, version |-> seen'[g] + 1,
                            bundle |-> bundle'[g]] \in snapshots'
  BY DEF ResultStored
<1>1. ResultStored(g) /\ Succeeded(g) /\ seen'[g] = seen[g]
  BY DEF IInv, HandlerInv
<1>2. /\ Stamp(req[g]) \in Nat /\ Stamp(req[g])' \in Nat
      /\ Stamp(req[g]) <= Stamp(req[g])'
  BY StaysStored DEF Keeps
<1>3. seen'[g] \in Nat
  BY DEF TypeOK
<1>4. seen'[g] + 1 <= Stamp(req[g])'
  BY SMTT(30), <1>1, <1>2, <1>3 DEF ResultStored
<1>5. req'[g].op = "publish_version" =>
          [project |-> req'[g].project, key |-> req'[g].key,
           version |-> seen'[g] + 1, body |-> req'[g].body,
           inlined |-> inlined'[g]] \in flagVersions'
  BY <1>1 DEF ResultStored, Keeps, Grows
<1>6. req'[g].op = "compile_snapshot" =>
          [project |-> req'[g].project, version |-> seen'[g] + 1,
           bundle |-> bundle'[g]] \in snapshots'
  BY <1>1 DEF ResultStored, Keeps, Grows
<1> QED
  BY <1>4, <1>5, <1>6

\* A step that reads nothing and commits nothing.
Quiet(g) ==
    /\ Keeps(g)
    /\ pc'[g] \in Working \ {"handle"} => Found(g)
    /\ pc'[g] = "tx" => seen'[g] <= Stamp(req[g])
    /\ Prepared(g)' => ReadAll(g)
    /\ Succeeded(g)' => Succeeded(g) /\ seen'[g] = seen[g]
    /\ Answered(g, "ok")' => resp'[g].version = seen'[g] + 1
    /\ OneCommit(g)'
    /\ InPlace(g)'

\* A quiet step keeps what the invariant says about a handler.
LEMMA QuietKeeps ==
    ASSUME IInv, TypeOK', TablesInv', Grows, NEW g \in Handler, Quiet(g)
    PROVE  HandlerInv(g)'
<1>1. LookedUp(g)'
  BY KeepsLookups DEF Quiet, Keeps
<1>2. CarriesStored(g)'
  BY KeepsCarrying DEF Quiet
<1>3. AboveFloor(g)'
  BY KeepsFloor DEF Quiet
<1>4. ResultStored(g)'
  BY KeepsResult DEF Quiet
<1> QED
  BY <1>1, <1>2, <1>3, <1>4 DEF Quiet, HandlerInv

\* A handler the step does not concern.
Same(g) ==
    /\ Keeps(g)
    /\ pc'[g] = pc[g]
    /\ seen'[g] = seen[g]
    /\ attempt'[g] = attempt[g]
    /\ resp'[g] = resp[g]
    /\ commits'[g] = commits[g]

\* A handler that does not move is quiet.
LEMMA SameIsQuiet ==
    ASSUME IInv, NEW g \in Handler, Same(g)
    PROVE  Quiet(g)
<1>1. HandlerInv(g)
  BY DEF IInv
<1>2. pc'[g] \in Working \ {"handle"} => Found(g)
  BY <1>1 DEF HandlerInv, LookedUp, Found, Same
<1>3. pc'[g] = "tx" => seen'[g] <= Stamp(req[g])
  BY <1>1 DEF HandlerInv, CarriesStored, Same
<1>4. Prepared(g)' => ReadAll(g)
  BY <1>1 DEF HandlerInv, AboveFloor, ReadAll, Prepared, Answered, Same
<1>5. Succeeded(g)' => Succeeded(g)
  BY DEF Succeeded, Answered, Same
<1>6. Answered(g, "ok")' => resp'[g].version = seen'[g] + 1
  BY <1>1 DEF HandlerInv, ResultStored, Succeeded, Answered, Same
<1>7. OneCommit(g)'
  BY <1>1 DEF HandlerInv, OneCommit, Succeeded, Answered, Same
<1>8. InPlace(g)'
  BY <1>1 DEF HandlerInv, InPlace, Same, Keeps
<1> QED
  BY <1>2, <1>3, <1>4, <1>5, <1>6, <1>7, <1>8 DEF Quiet, Same

\* An answer that is not a 2xx.
LEMMA FailureIsQuiet ==
    ASSUME IInv, NEW h \in Handler, Keeps(h), pc'[h] = "idle",
           resp'[h].status # "ok", commits'[h] \in 0 .. 1,
           resp'[h].status \notin {"error", "lost"} => commits'[h] = 0
    PROVE  Quiet(h)
<1>1. ~Prepared(h)' /\ ~Succeeded(h)' /\ ~Answered(h, "ok")'
  BY DEF Prepared, Succeeded, Answered
<1>2. OneCommit(h)'
  BY SMT, <1>1 DEF OneCommit, Answered, Working
<1> QED
  BY <1>1, <1>2 DEF Quiet, Working, InPlace

\* A move from one place before the commit to another.
LEMMA MoveIsQuiet ==
    ASSUME IInv, NEW h \in Handler, Keeps(h),
           pc[h] \in Working, pc'[h] \in Working \ {"handle"}, Found(h),
           commits'[h] = commits[h],
           pc'[h] = "tx" => seen'[h] <= Stamp(req[h]),
           pc'[h] \in {"begin", "tx", "backoff"} => ReadAll(h),
           pc'[h] = "resolve" => req[h].op = "publish_version",
           pc'[h] = "bundle" => req[h].op = "compile_snapshot",
           pc'[h] = "backoff" => attempt'[h] < MaxRetries
    PROVE  Quiet(h)
<1>1. ~Succeeded(h)' /\ ~Answered(h, "ok")' /\ (Prepared(h)' => ReadAll(h))
  BY DEF Prepared, Succeeded, Answered, Working
<1>2. commits[h] = 0
  BY DEF IInv, HandlerInv, OneCommit
<1>3. OneCommit(h)'
  BY SMT, <1>1, <1>2 DEF OneCommit, Answered, Working
<1> QED
  BY <1>1, <1>3 DEF Quiet, InPlace, Keeps

\* A Goto or a Respond of h leaves the others where they are.
LEMMA GotoAt ==
    ASSUME TypeOK, NEW h \in Handler, NEW l, Goto(h, l)
    PROVE  /\ pc'[h] = l /\ resp'[h] = resp[h]
           /\ \A g \in Handler \ {h} : pc'[g] = pc[g] /\ resp'[g] = resp[g]
  BY DEF TypeOK, Goto

\* An answer of h leaves h idle and the others where they are.
LEMMA RespondAt ==
    ASSUME TypeOK, NEW h \in Handler, NEW s, NEW v, Respond(h, s, v)
    PROVE  /\ pc'[h] = "idle" /\ resp'[h].status = s /\ resp'[h].version = v
           /\ \A g \in Handler \ {h} : pc'[g] = pc[g] /\ resp'[g] = resp[g]
<1>1. resp'[h] = [status |-> s, version |-> v]
  BY DEF TypeOK, Respond
<1>2. resp'[h].status = s /\ resp'[h].version = v
  BY SMT, <1>1
<1> QED
  BY <1>2 DEF TypeOK, Respond

\* What the invariant says about a handler that is at work.
LEMMA AtWork ==
    ASSUME IInv, NEW h \in Handler, pc[h] \in Working
    PROVE  /\ commits[h] = 0 /\ ~Succeeded(h)
           /\ pc[h] # "handle" => Found(h)
           /\ pc[h] \in {"begin", "tx", "backoff"} => ReadAll(h)
  BY DEF IInv, HandlerInv, OneCommit, LookedUp, Found, AboveFloor, ReadAll, Prepared,
         Succeeded, Answered, Working
-----------------------------------------------------------------------------
(***************************************************************************)
(* The actions.                                                            *)
(***************************************************************************)

\* Nothing succeeds that had not succeeded before.
NoNewResult(g) ==
    Succeeded(g)' => Succeeded(g) /\ seen'[g] = seen[g] /\ req'[g] = req[g]

\* A quiet step succeeds at nothing new.
LEMMA QuietHasNoNewResult ==
    ASSUME NEW g, Quiet(g)
    PROVE  NoNewResult(g)
  BY DEF Quiet, Keeps, NoNewResult

\* The handlers, up to the resolution of segments and the bundle.
LEMMA HandleSteps ==
    ASSUME IInv, NEW h \in Handler,
           \/ Reject(h)
           \/ CreateProject(h) \/ CreateEnvironment(h) \/ CreateFlag(h)
           \/ CreateSegment(h) \/ UpdateSegment(h) \/ PublishFlagVersion(h)
           \/ CompileSnapshot(h)
    PROVE  \A g \in Handler : Quiet(g)
<1> DEFINE r == req[h]
           Fail == \E s \in {"bad_request", "not_found"} : Respond(h, s, 0)
           Go(l) == Goto(h, l) /\ Found(h)
<1>1. TypeOK
  BY DEF IInv
<1>2. /\ pc[h] = "handle"
      /\ UNCHANGED <<tables, req, inlined, bundle, seen, attempt, commits, floor,
                     received>>
  BY DEF Reject, CreateProject, CreateEnvironment, CreateFlag, CreateSegment,
         UpdateSegment, PublishFlagVersion, CompileSnapshot, Handling
<1>3. \A g \in Handler : Keeps(g) /\ seen'[g] = seen[g] /\ attempt'[g] = attempt[g]
                                  /\ commits'[g] = commits[g]
  BY <1>2 DEF Keeps
<1>4. commits[h] = 0 /\ ~Succeeded(h)
  BY <1>2, AtWork DEF Working
<1>5. \/ Fail
      \/ Go("begin") /\ r.op \notin {"publish_version", "compile_snapshot"}
      \/ Go("resolve") /\ r.op = "publish_version"
      \/ Go("bundle") /\ r.op = "compile_snapshot"
  <2>1. CASE Reject(h)
    BY <2>1 DEF Reject
  <2>2. CASE CreateProject(h)
    BY <2>2 DEF CreateProject, Handling, Found
  <2>3. CASE CreateEnvironment(h) \/ CreateFlag(h) \/ CreateSegment(h) \/ UpdateSegment(h)
    BY <2>3 DEF CreateEnvironment, CreateFlag, CreateSegment, UpdateSegment, InProject,
                Handling, Found
  <2>4. CASE PublishFlagVersion(h)
    <3>1. <<r.project, r.key>> \in flags => r.project \in projects
      BY SMT DEF IInv, TablesInv, RowsResolve
    <3> QED
      BY <2>4, <3>1 DEF PublishFlagVersion, Handling, Found
  <2>5. CASE CompileSnapshot(h)
    BY <2>5 DEF CompileSnapshot, Handling, Found
  <2> QED
    BY <2>1, <2>2, <2>3, <2>4, <2>5
<1>6. CASE Fail
  <2>1. PICK s \in {"bad_request", "not_found"} : Respond(h, s, 0)
    BY <1>6
  <2>2. /\ pc'[h] = "idle" /\ resp'[h].status = s
        /\ \A g \in Handler \ {h} : pc'[g] = pc[g] /\ resp'[g] = resp[g]
    BY <1>1, <2>1, RespondAt
  <2>3. Quiet(h)
    BY SMTT(30), <1>3, <1>4, <2>2, FailureIsQuiet
  <2>4. \A g \in Handler \ {h} : Same(g)
    BY <1>3, <2>2 DEF Same
  <2> QED
    BY <2>3, <2>4, SameIsQuiet
<1>7. ASSUME NEW l \in {"begin", "resolve", "bundle"}, Go(l),
             l = "begin" => r.op \notin {"publish_version", "compile_snapshot"},
             l = "resolve" => r.op = "publish_version",
             l = "bundle" => r.op = "compile_snapshot"
      PROVE  \A g \in Handler : Quiet(g)
  <2>1. /\ pc'[h] = l
        /\ \A g \in Handler \ {h} : pc'[g] = pc[g] /\ resp'[g] = resp[g]
    BY <1>1, <1>7, GotoAt
  <2>2. l = "begin" => ReadAll(h)
    BY <1>7 DEF ReadAll
  <2>3. Quiet(h)
    BY <1>2, <1>3, <1>7, <2>1, <2>2, MoveIsQuiet DEF Working
  <2>4. \A g \in Handler \ {h} : Same(g)
    BY <1>3, <2>1 DEF Same
  <2> QED
    BY <2>3, <2>4, SameIsQuiet
<1> QED
  BY <1>5, <1>6, <1>7

\* Compile, the transaction up to its commit, and every way it fails.
LEMMA TransactionSteps ==
    ASSUME IInv, NEW h \in Handler,
           \/ Compile(h) \/ PgBegin(h) \/ SqliteBegin(h)
           \/ UniqueViolation(h) \/ UpdateNoRows(h)
           \/ PgSerializationFailure(h) \/ SqliteBusy(h) \/ Retry(h) \/ Abort(h)
    PROVE  \A g \in Handler : Quiet(g)
<1> DEFINE Fail == \E s \in {"bad_request", "conflict", "error"} : Respond(h, s, 0)
           Others == \A g \in Handler \ {h} :
                         /\ Keeps(g) /\ seen'[g] = seen[g]
                         /\ attempt'[g] = attempt[g] /\ commits'[g] = commits[g]
<1>1. TypeOK
  BY DEF IInv
<1>2. pc[h] \in Working /\ Keeps(h) /\ commits'[h] = commits[h] /\ Others
  <2>1. CASE Compile(h)
    BY <2>1 DEF Compile, Keeps, Working
  <2>2. CASE PgBegin(h) \/ SqliteBegin(h)
    BY <1>1, <2>2 DEF PgBegin, SqliteBegin, ReadStamp, Keeps, Working, TypeOK
  <2>3. CASE UniqueViolation(h) \/ UpdateNoRows(h)
    BY <2>3 DEF UniqueViolation, UpdateNoRows, TxDone, Keeps, Working
  <2>4. CASE PgSerializationFailure(h) \/ SqliteBusy(h)
    BY <2>4 DEF PgSerializationFailure, SqliteBusy, RetryOrFail, TxDone, Keeps, Working
  <2>5. CASE Retry(h)
    BY <1>1, <2>5 DEF Retry, Keeps, Working, TypeOK
  <2>6. CASE Abort(h)
    BY <1>1, <2>6 DEF Abort, TxDone, Keeps, Working, TypeOK, Location
  <2> QED
    BY <2>1, <2>2, <2>3, <2>4, <2>5, <2>6
<1>3. /\ commits[h] = 0
      /\ pc[h] # "handle" => Found(h)
      /\ pc[h] \in {"begin", "tx", "backoff"} => ReadAll(h)
  BY <1>2, AtWork
<1>4. ASSUME Fail
      PROVE  \A g \in Handler : Quiet(g)
  <2>1. PICK s \in {"bad_request", "conflict", "error"} : Respond(h, s, 0)
    BY <1>4
  <2>2. /\ pc'[h] = "idle" /\ resp'[h].status = s
        /\ \A g \in Handler \ {h} : pc'[g] = pc[g] /\ resp'[g] = resp[g]
    BY <1>1, <2>1, RespondAt
  <2>3. Quiet(h)
    <3>1. s # "ok"
      BY <2>1
    <3>2. commits'[h] = 0
      BY <1>2, <1>3
    <3>3. commits'[h] \in 0 .. 1
      BY SMT, <3>2
    <3> QED
      BY <1>2, <2>2, <3>1, <3>2, <3>3, FailureIsQuiet
  <2>4. \A g \in Handler \ {h} : Same(g)
    BY <1>2, <2>2 DEF Same
  <2> QED
    BY <2>3, <2>4, SameIsQuiet
<1>5. ASSUME NEW l \in {"begin", "tx", "backoff"}, Goto(h, l), pc[h] # "handle",
             ReadAll(h), l = "tx" => seen'[h] <= Stamp(req[h]),
             l = "backoff" => attempt'[h] < MaxRetries
      PROVE  \A g \in Handler : Quiet(g)
  <2>1. /\ pc'[h] = l
        /\ \A g \in Handler \ {h} : pc'[g] = pc[g] /\ resp'[g] = resp[g]
    BY <1>1, <1>5, GotoAt
  <2>2. Quiet(h)
    BY <1>2, <1>3, <1>5, <2>1, MoveIsQuiet DEF Working
  <2>3. \A g \in Handler \ {h} : Same(g)
    BY <1>2, <2>1 DEF Same
  <2> QED
    BY <2>2, <2>3, SameIsQuiet
<1> HIDE DEF Fail
<1>6. CASE Compile(h)
  <2>1. pc[h] = "resolve" /\ Unresolved(h) = {} /\ (Goto(h, "begin") \/ Fail)
    BY <1>6 DEF Compile, Fail
  <2>2. ReadAll(h)
    BY <2>1 DEF IInv, HandlerInv, InPlace, ReadAll
  <2> QED
    BY <1>4, <1>5, <2>1, <2>2
<1>7. CASE PgBegin(h) \/ SqliteBegin(h)
  <2>1. ReadStamp(h)
    BY <1>7 DEF PgBegin, SqliteBegin
  <2>2. pc[h] = "begin" /\ Goto(h, "tx") /\ seen'[h] = Stamp(req[h])
    BY <1>1, <2>1 DEF ReadStamp, TypeOK
  <2>3. Stamp(req[h]) \in Nat
    BY <1>1, StampIsNat, RequestsAssumption DEF IInv, TypeOK, TablesInv
  <2> QED
    BY SMT, <1>3, <1>5, <2>2, <2>3
<1>8. CASE UniqueViolation(h) \/ UpdateNoRows(h) \/ Abort(h)
  BY <1>4, <1>8 DEF UniqueViolation, UpdateNoRows, Abort, Fail
<1>9. CASE PgSerializationFailure(h) \/ SqliteBusy(h)
  <2>1. RetryOrFail(h) /\ pc[h] \in {"begin", "tx"}
    BY <1>9 DEF PgSerializationFailure, SqliteBusy
  <2>2. attempt'[h] = attempt[h]
    BY <2>1 DEF RetryOrFail, TxDone
  <2>3. Fail \/ (Goto(h, "backoff") /\ attempt[h] < MaxRetries)
    BY <2>1 DEF RetryOrFail, Fail
  <2> QED
    BY <1>3, <1>4, <1>5, <2>1, <2>2, <2>3
<1>10. CASE Retry(h)
  <2>1. pc[h] = "backoff" /\ Goto(h, "begin")
    BY <1>10 DEF Retry
  <2> QED
    BY <1>3, <1>5, <2>1
<1> QED
  BY <1>6, <1>7, <1>8, <1>9, <1>10

\* The version an answer names is the one its transaction inserted.
LEMMA ReplyStep ==
    ASSUME IInv, NEW h \in Handler, Reply(h)
    PROVE  \A g \in Handler : Quiet(g)
<1>1. TypeOK /\ HandlerInv(h)
  BY DEF IInv
<1>2. \A g \in Handler : Keeps(g) /\ seen'[g] = seen[g] /\ attempt'[g] = attempt[g]
                                  /\ commits'[g] = commits[g]
  BY DEF Reply, TxDone, Keeps
<1>3. /\ pc'[h] = "idle" /\ resp'[h].status = "ok" /\ resp'[h].version = seen[h] + 1
      /\ \A g \in Handler \ {h} : pc'[g] = pc[g] /\ resp'[g] = resp[g]
  BY <1>1, RespondAt DEF Reply
<1>4. Quiet(h)
  <2>1. Succeeded(h) /\ Prepared(h)
    BY DEF Reply, Succeeded, Prepared
  <2>2. ReadAll(h)
    BY <1>1, <2>1 DEF HandlerInv, AboveFloor, ReadAll
  <2>3. commits[h] = 1
    BY <1>1, <2>1 DEF HandlerInv, OneCommit
  <2>4. OneCommit(h)'
    BY SMT, <1>2, <1>3, <2>3 DEF OneCommit, Answered, Succeeded, Working
  <2>5. InPlace(h)'
    BY <1>3 DEF InPlace
  <2> QED
    BY <1>2, <1>3, <2>1, <2>2, <2>4, <2>5 DEF Quiet, Answered, Working
<1>5. \A g \in Handler \ {h} : Same(g)
  BY <1>2, <1>3 DEF Same
<1> QED
  BY <1>4, <1>5, SameIsQuiet

\* A crash loses answers, never rows.
LEMMA CrashStep ==
    ASSUME IInv, Crash
    PROVE  \A g \in Handler : Quiet(g)
<1> SUFFICES ASSUME NEW g \in Handler
             PROVE  Quiet(g)
  OBVIOUS
<1>1. /\ Keeps(g) /\ seen'[g] = seen[g] /\ attempt'[g] = attempt[g]
      /\ commits'[g] = commits[g]
  BY DEF Crash, Keeps
<1>2. CASE pc[g] = "idle"
  <2>1. Same(g)
    BY <1>1, <1>2 DEF Crash, Same
  <2> QED
    BY <2>1, SameIsQuiet
<1>3. CASE pc[g] # "idle"
  <2>1. pc'[g] = "idle" /\ resp'[g] = [status |-> "lost", version |-> 0]
    BY <1>3 DEF Crash
  <2>2. resp'[g].status = "lost"
    BY SMT, <2>1
  <2>3. commits[g] \in 0 .. 1
    <3>1. commits[g] \in Nat
      BY DEF IInv, TypeOK
    <3>2. commits[g] <= 1
      BY DEF IInv, HandlerInv, OneCommit
    <3> QED
      BY SMT, <3>1, <3>2
  <2> QED
    BY <1>1, <2>1, <2>2, <2>3, FailureIsQuiet
<1> QED
  BY <1>2, <1>3

\* A lost acknowledgement: the row is there, the answer is a 500.
LEMMA CommitUnacknowledgedStep ==
    ASSUME IInv, NEW h \in Handler, CommitUnacknowledged(h)
    PROVE  \A g \in Handler : Quiet(g)
<1>1. TypeOK
  BY DEF IInv
<1>2. \A g \in Handler : Keeps(g) /\ seen'[g] = seen[g] /\ attempt'[g] = attempt[g]
  BY DEF CommitUnacknowledged, CommitThen, TxDone, Keeps
<1>3. /\ commits'[h] = commits[h] + 1
      /\ \A g \in Handler \ {h} : commits'[g] = commits[g]
  BY <1>1 DEF CommitUnacknowledged, CommitThen, TypeOK
<1>4. commits[h] = 0
  BY AtWork DEF CommitUnacknowledged, CommitThen, Working
<1>5. /\ pc'[h] = "idle" /\ resp'[h].status = "error"
      /\ \A g \in Handler \ {h} : pc'[g] = pc[g] /\ resp'[g] = resp[g]
  BY <1>1, RespondAt DEF CommitUnacknowledged
<1>6. Quiet(h)
  BY SMT, <1>2, <1>3, <1>4, <1>5, FailureIsQuiet
<1>7. \A g \in Handler \ {h} : Same(g)
  BY <1>2, <1>3, <1>5 DEF Same
<1> QED
  BY <1>6, <1>7, SameIsQuiet

\* What the other handlers know is not disturbed.
LEMMA OthersKeep ==
    ASSUME IInv, TypeOK', TablesInv', Grows, NEW g \in Handler, Same(g)
    PROVE  HandlerInv(g)' /\ NoNewResult(g)
  BY SameIsQuiet, QuietKeeps, QuietHasNoNewResult

\* A new request starts with nothing but its floor.
LEMMA ReceiveStep ==
    ASSUME IInv, TypeOK', TablesInv', Grows, NEW h \in Handler, Receive(h)
    PROVE  \A g \in Handler : HandlerInv(g)' /\ NoNewResult(g)
<1>1. TypeOK /\ TablesTypeOK /\ TablesInv
  BY DEF IInv, TypeOK
<1>2. PICK r \in Requests : /\ req' = [req EXCEPT ![h] = r]
                            /\ floor' = [floor EXCEPT ![h] = Floor(r)]
  BY DEF Receive
<1>3. /\ r \in Request /\ r.project \in Project
      /\ req'[h] = r /\ floor'[h] = Floor(r) /\ pc'[h] = "handle"
      /\ inlined'[h] = EmptyBundle /\ bundle'[h] = EmptyBundle /\ commits'[h] = 0
      /\ UNCHANGED tables
  BY <1>1, <1>2, RequestFields, RequestsAssumption DEF Receive, TypeOK
<1>4. \A g \in Handler \ {h} : Same(g)
  BY SMT, <1>1, <1>2 DEF Receive, Same, Keeps, TypeOK
<1>5. ~Succeeded(h)' /\ ~Prepared(h)' /\ \A s \in Status : ~Answered(h, s)'
  BY <1>3 DEF Succeeded, Prepared, Answered
<1>6. LookedUp(h)'
  BY <1>3 DEF LookedUp
<1>7. /\ segments' = segments
      /\ \A p, k : VersionsOf(p, k)' = VersionsOf(p, k)
  BY <1>3, SameVersions DEF tables
<1>8. \A k \in Key : /\ segments[<<r.project, k>>] \in Nat
                     /\ Highest(VersionsOf(r.project, k)) \in Nat
  BY <1>1, <1>3, HighestIsNat DEF TablesTypeOK, TablesInv
<1>9. CarriesStored(h)'
  <2>1. \A k \in Key : inlined'[h][k] <= segments'[<<req'[h].project, k>>]
    BY SMT, <1>3, <1>7, <1>8 DEF EmptyBundle
  <2>2. ASSUME NEW k \in Key
        PROVE  bundle'[h][k] <= Highest(VersionsOf(r.project, k))
    <3>1. bundle'[h][k] = 0
      BY <1>3 DEF EmptyBundle
    <3>2. Highest(VersionsOf(r.project, k)) \in Nat
      BY <1>8
    <3>3. \A x \in Nat : 0 <= x
      BY SMT
    <3> QED
      BY <3>1, <3>2, <3>3
  <2>3. Published(req[h].project, bundle[h])'
    BY <1>3, <1>7, <2>2 DEF Published
  <2> QED
    BY <1>3, <2>1, <2>3 DEF CarriesStored
<1>10. AboveFloor(h)'
  <2>1. CASE r.op = "publish_version"
    <3>1. \A k \in Key : floor'[h][k] = segments[<<r.project, k>>]
      BY <1>3, <2>1 DEF Floor
    <3>2. \A k \in Key : inlined'[h][k] = 0
      BY <1>3 DEF EmptyBundle
    <3>3. \A k \in Key : floor'[h][k] <= segments'[<<req'[h].project, k>>]
      BY SMT, <1>3, <1>7, <1>8, <3>1
    <3> QED
      BY <1>3, <1>5, <2>1, <3>2, <3>3 DEF AboveFloor
  <2>2. CASE r.op = "compile_snapshot"
    <3>1. Published(r.project, ListLatestFlagVersions(r.project))
      BY <1>1, <1>3, LatestVersionsAreBundle
    <3>2. floor'[h] = ListLatestFlagVersions(r.project)
      BY <1>3, <2>2 DEF Floor
    <3>3. \A k \in Key : floor'[h][k] <= Highest(VersionsOf(r.project, k))
      BY <3>1, <3>2 DEF Published
    <3>4. Published(req[h].project, floor[h])'
      BY <1>3, <1>7, <3>3 DEF Published
    <3> QED
      BY <1>3, <1>5, <2>2, <3>4 DEF AboveFloor
  <2>3. CASE r.op \notin {"publish_version", "compile_snapshot"}
    BY <1>3, <2>3 DEF AboveFloor
  <2> QED
    BY <2>1, <2>2, <2>3
<1>11. OneCommit(h)'
  BY SMT, <1>3, <1>5 DEF OneCommit, Status
<1>12. ResultStored(h)' /\ InPlace(h)'
  BY <1>3, <1>5 DEF ResultStored, InPlace
<1>13. HandlerInv(h)' /\ NoNewResult(h)
  BY <1>5, <1>6, <1>9, <1>10, <1>11, <1>12 DEF HandlerInv, NoNewResult
<1> QED
  BY <1>4, <1>13, OthersKeep

\* A reference is replaced by the predicate the segment has at that moment.
LEMMA ResolveStep ==
    ASSUME IInv, TypeOK', TablesInv', Grows, NEW h \in Handler,
           NEW k \in Key, ResolveSegment(h, k)
    PROVE  \A g \in Handler : HandlerInv(g)' /\ NoNewResult(g)
<1> DEFINE p == req[h].project
           rev == segments[<<p, k>>]
<1>1. /\ TypeOK /\ HandlerInv(h)
      /\ req[h] \in Request /\ p \in Project /\ inlined[h] \in Bundle
  BY RequestFields, RequestsAssumption DEF IInv, TypeOK
<1>2. /\ pc[h] = "resolve" /\ req[h].op = "publish_version"
      /\ UNCHANGED <<tables, req, bundle, seen, attempt, commits, floor, received>>
  BY <1>1 DEF ResolveSegment, HandlerInv, InPlace
<1>3. commits[h] = 0 /\ Found(h) /\ ~Succeeded(h)
  BY <1>2, AtWork DEF Working
<1>4. CASE Respond(h, "bad_request", 0) /\ UNCHANGED inlined
  <2>1. /\ pc'[h] = "idle" /\ resp'[h].status = "bad_request"
        /\ \A g \in Handler \ {h} : pc'[g] = pc[g] /\ resp'[g] = resp[g]
    BY <1>1, <1>4, RespondAt
  <2>2. Keeps(h) /\ \A g \in Handler \ {h} : Same(g)
    BY <1>2, <1>4, <2>1 DEF Keeps, Same
  <2>3. Quiet(h)
    <3>1. commits'[h] = 0
      BY <1>2, <1>3
    <3>2. commits'[h] \in 0 .. 1
      BY SMT, <3>1
    <3>3. resp'[h].status # "ok"
      BY <2>1
    <3> QED
      BY <2>1, <2>2, <3>1, <3>2, <3>3, FailureIsQuiet
  <2> QED
    BY <2>2, <2>3, OthersKeep, QuietKeeps, QuietHasNoNewResult
<1>5. CASE /\ rev > 0
           /\ inlined' = [inlined EXCEPT ![h][k] = rev]
           /\ Goto(h, "resolve")
  <2>1. /\ pc'[h] = "resolve"
        /\ \A g \in Handler \ {h} : pc'[g] = pc[g] /\ resp'[g] = resp[g]
    BY <1>1, <1>5, GotoAt
  <2>2. \A g \in Handler \ {h} : Same(g)
    BY <1>1, <1>2, <1>5, <2>1 DEF TypeOK, Keeps, Same
  <2>3. \A j \in Key : inlined'[h][j] = IF j = k THEN rev ELSE inlined[h][j]
    BY <1>1, <1>5 DEF TypeOK, Bundle
  <2>4. /\ segments' = segments /\ projects' = projects /\ flags' = flags
        /\ req'[h] = req[h] /\ floor'[h] = floor[h] /\ bundle'[h] = bundle[h]
        /\ commits'[h] = 0
    BY <1>2, <1>3 DEF tables
  <2>5. ~Succeeded(h)' /\ ~Prepared(h)' /\ \A s \in Status : ~Answered(h, s)'
    BY <2>1 DEF Succeeded, Prepared, Answered
  <2>6. LookedUp(h)'
    BY <1>3, <2>4, KeepsLookups
  <2>7. \A j \in Key : segments[<<p, j>>] \in Nat
    BY <1>1 DEF TypeOK, TablesTypeOK
  <2>8. CarriesStored(h)'
    <3>1. \A j \in Key : inlined[h][j] <= segments[<<p, j>>]
      BY <1>1 DEF HandlerInv, CarriesStored
    <3>2. \A j \in Key : inlined'[h][j] <= segments'[<<req'[h].project, j>>]
      BY SMT, <2>3, <2>4, <2>7, <3>1
    <3>3. Published(req[h].project, bundle[h])'
      BY <2>4, StaysStored
    <3> QED
      BY <2>1, <3>2, <3>3 DEF CarriesStored
  <2>9. AboveFloor(h)'
    <3>1. /\ \A j \in Key : floor[h][j] <= segments[<<p, j>>]
          /\ \A j \in Key : inlined[h][j] # 0 => inlined[h][j] >= floor[h][j]
      BY <1>1, <1>2 DEF HandlerInv, AboveFloor
    <3>2. \A j \in Key : floor[h][j] \in Nat
      BY <1>1 DEF TypeOK, Bundle
    <3>3. \A j \in Key : inlined'[h][j] # 0 => inlined'[h][j] >= floor'[h][j]
      BY <2>3, <2>4, <2>7, <3>1, <3>2
    <3> QED
      BY <1>2, <2>4, <2>5, <3>1, <3>3 DEF AboveFloor
  <2>10. OneCommit(h)'
    <3>1. commits'[h] <= 1
      BY SMT, <2>4
    <3>2. /\ ~Answered(h, "ok")' /\ ~Answered(h, "bad_request")'
          /\ ~Answered(h, "not_found")' /\ ~Answered(h, "conflict")'
      BY <2>5 DEF Status
    <3> QED
      BY <2>4, <2>5, <3>1, <3>2 DEF OneCommit
  <2>11. ResultStored(h)' /\ InPlace(h)'
    BY <1>2, <2>1, <2>4, <2>5 DEF ResultStored, InPlace
  <2>12. HandlerInv(h)' /\ NoNewResult(h)
    BY <2>5, <2>6, <2>8, <2>9, <2>10, <2>11 DEF HandlerInv, NoNewResult
  <2> QED
    BY <2>2, <2>12, OthersKeep
<1> QED
  BY <1>4, <1>5 DEF ResolveSegment

\* The bundle holds the newest versions of the moment it is read.
LEMMA CompileBundleStep ==
    ASSUME IInv, TypeOK', TablesInv', Grows, NEW h \in Handler, CompileBundle(h)
    PROVE  \A g \in Handler : HandlerInv(g)' /\ NoNewResult(g)
<1> DEFINE p == req[h].project
<1>1. /\ TypeOK /\ HandlerInv(h)
      /\ req[h] \in Request /\ p \in Project /\ floor[h] \in Bundle
  BY RequestFields, RequestsAssumption DEF IInv, TypeOK
<1>2. /\ pc[h] = "bundle" /\ req[h].op = "compile_snapshot"
      /\ bundle' = [bundle EXCEPT ![h] = ListLatestFlagVersions(p)]
      /\ UNCHANGED <<tables, req, inlined, seen, attempt, commits, floor, received>>
  BY <1>1 DEF CompileBundle, HandlerInv, InPlace
<1>3. commits[h] = 0 /\ Found(h)
  BY <1>2, AtWork DEF Working
<1>4. /\ pc'[h] = "begin"
      /\ \A g \in Handler \ {h} : pc'[g] = pc[g] /\ resp'[g] = resp[g]
  BY <1>1, GotoAt DEF CompileBundle
<1>5. \A g \in Handler \ {h} : Same(g)
  BY <1>1, <1>2, <1>4 DEF TypeOK, Keeps, Same
<1>6. /\ bundle'[h] = ListLatestFlagVersions(p)
      /\ req'[h] = req[h] /\ floor'[h] = floor[h] /\ inlined'[h] = inlined[h]
      /\ commits'[h] = 0
  BY <1>1, <1>2, <1>3 DEF TypeOK
<1>7. \A q, k : VersionsOf(q, k)' = VersionsOf(q, k)
  BY <1>2, SameVersions DEF tables
<1>8. \A k \in Key : /\ Highest(VersionsOf(p, k)) \in Nat
                     /\ bundle'[h][k] = Highest(VersionsOf(p, k))
  BY <1>1, <1>6, HighestIsNat DEF IInv, TypeOK, TablesInv, ListLatestFlagVersions
<1>9. ~Succeeded(h)' /\ \A s \in Status : ~Answered(h, s)'
  BY <1>4 DEF Succeeded, Answered
<1>10. LookedUp(h)'
  BY <1>3, <1>6, KeepsLookups
<1>11. CarriesStored(h)'
  <2>1. \A k \in Key : inlined'[h][k] <= segments'[<<req'[h].project, k>>]
    BY <1>6, StaysStored
  <2>2. \A k \in Key : bundle'[h][k] <= Highest(VersionsOf(p, k))
    BY SMT, <1>8
  <2>3. Published(req[h].project, bundle[h])'
    BY <1>6, <1>7, <2>2 DEF Published
  <2> QED
    BY <1>4, <2>1, <2>3 DEF CarriesStored
<1>12. AboveFloor(h)'
  <2>1. \A k \in Key : floor[h][k] <= Highest(VersionsOf(p, k))
    BY <1>1, <1>2 DEF HandlerInv, AboveFloor, Published
  <2>2. \A k \in Key : floor[h][k] \in Nat
    BY <1>1 DEF Bundle
  <2>3. \A k \in Key : bundle'[h][k] >= floor'[h][k]
    BY <1>6, <1>8, <2>1, <2>2
  <2>4. Published(req[h].project, floor[h])'
    BY <1>2, <1>6, StaysStored
  <2> QED
    BY <1>2, <1>6, <2>3, <2>4 DEF AboveFloor
<1>13. OneCommit(h)'
  BY SMTT(30), <1>6, <1>9 DEF OneCommit, Status
<1>14. ResultStored(h)' /\ InPlace(h)'
  BY <1>4, <1>9 DEF ResultStored, InPlace
<1>15. HandlerInv(h)' /\ NoNewResult(h)
  BY <1>9, <1>10, <1>11, <1>12, <1>13, <1>14 DEF HandlerInv, NoNewResult
<1> QED
  BY <1>5, <1>15, OthersKeep

\* The commit: the row is stored under the number the answer will name.
LEMMA CommitTxStep ==
    ASSUME IInv, TypeOK', TablesInv', Grows, NEW h \in Handler, CommitTx(h)
    PROVE  /\ \A g \in Handler : HandlerInv(g)'
           /\ \A g \in Handler \ {h} : Same(g)
<1>1. TypeOK /\ HandlerInv(h) /\ CommitThen(h) /\ pc[h] = "tx"
  BY DEF IInv, CommitTx, CommitThen
<1>2. \A g \in Handler : Keeps(g) /\ seen'[g] = seen[g] /\ attempt'[g] = attempt[g]
  BY <1>1 DEF CommitThen, TxDone, Keeps
<1>3. commits[h] = 0 /\ ReadAll(h)
  BY <1>1, AtWork DEF Working
<1>4. /\ commits'[h] = 1
      /\ \A g \in Handler \ {h} : commits'[g] = commits[g]
  BY SMT, <1>1, <1>3 DEF CommitThen, TypeOK
<1>5. /\ pc'[h] = "reply"
      /\ \A g \in Handler \ {h} : pc'[g] = pc[g] /\ resp'[g] = resp[g]
  BY <1>1, GotoAt DEF CommitTx
<1>6. \A g \in Handler \ {h} : Same(g)
  BY <1>2, <1>4, <1>5 DEF Same
<1>7. /\ req[h] \in Request /\ seen[h] \in Nat
      /\ inlined[h] \in Bundle /\ bundle[h] \in Bundle
      /\ MayCommit(req[h], seen[h], inlined[h], bundle[h])
      /\ Commit(req[h], seen[h], inlined[h], bundle[h])
  BY <1>1, CommitIsAdmissible
<1>8. Stamp(req[h])' = seen[h] + 1
  <2>1. \A r \in Request, n \in Nat, inl \in Bundle, bun \in Bundle :
            MayCommit(r, n, inl, bun) /\ Commit(r, n, inl, bun) => Stamp(r)' = n + 1
    BY CommitStamp DEF IInv, TypeOK
  <2>2. req'[h] = req[h]
    BY <1>2 DEF Keeps
  <2> QED
    BY <1>7, <2>1, <2>2
<1>9. ~Answered(h, "ok")' /\ \A s \in Status : ~Answered(h, s)'
  BY <1>5 DEF Answered
<1>10. ResultStored(h)'
  <2>1. seen'[h] + 1 <= Stamp(req[h])'
    <3>1. seen'[h] = seen[h]
      BY <1>2
    <3>2. seen[h] \in Nat
      BY <1>7
    <3>3. seen[h] + 1 <= seen[h] + 1
      BY SMT, <3>2
    <3> QED
      BY <1>8, <3>1, <3>3
  <2>2. req[h].op = "publish_version" =>
            [project |-> req[h].project, key |-> req[h].key,
             version |-> seen[h] + 1, body |-> req[h].body,
             inlined |-> inlined[h]] \in flagVersions'
    BY <1>7 DEF Commit, TxPublishFlagVersion
  <2>3. req[h].op = "compile_snapshot" =>
            [project |-> req[h].project, version |-> seen[h] + 1,
             bundle |-> bundle[h]] \in snapshots'
    BY <1>7 DEF Commit, TxCompileSnapshot
  <2> QED
    BY <1>2, <1>9, <2>1, <2>2, <2>3 DEF ResultStored, Keeps
<1>11. LookedUp(h)' /\ InPlace(h)'
  BY <1>5 DEF LookedUp, InPlace, Working
<1>12. CarriesStored(h)'
  BY <1>2, <1>5, KeepsCarrying
<1>13. AboveFloor(h)'
  BY <1>2, <1>3, KeepsFloor
<1>14. OneCommit(h)'
  BY SMT, <1>4, <1>5, <1>9 DEF OneCommit, Status, Working
<1>15. HandlerInv(h)'
  BY <1>10, <1>11, <1>12, <1>13, <1>14 DEF HandlerInv
<1> QED
  BY <1>6, <1>15, OthersKeep

\* No two transactions succeed with the same stamp of the same item.
LEMMA ResultsStayDistinct ==
    ASSUME IInv, \A g \in Handler : NoNewResult(g)
    PROVE  DistinctResults'
  BY DEF IInv, DistinctResults, NoNewResult

\* A commit gets a stamp nobody else was given for the same item.
LEMMA CommitIsDistinct ==
    ASSUME IInv, NEW h \in Handler, CommitTx(h), \A g \in Handler \ {h} : Same(g)
    PROVE  DistinctResults'
<1>1. CommitThen(h) /\ req'[h] = req[h] /\ seen'[h] = seen[h]
  BY DEF CommitTx, CommitThen, TxDone
<1>2. seen[h] = Stamp(req[h]) /\ seen[h] \in Nat
  BY <1>1, CommitReadTheStamp, CommitIsAdmissible
<1>3. ASSUME NEW g \in Handler \ {h}, Succeeded(g)', Item(req[g])' = Item(req[h])'
      PROVE  seen'[g] # seen'[h]
  <2>1. Succeeded(g) /\ seen'[g] = seen[g] /\ req'[g] = req[g]
    BY <1>3 DEF Same, Keeps, Succeeded, Answered
  <2>2. seen[g] + 1 <= Stamp(req[g])
    BY <2>1 DEF IInv, HandlerInv, ResultStored
  <2>3. Stamp(req[g]) = Stamp(req[h])
    BY <1>1, <1>3, <2>1 DEF Item, Stamp
  <2>4. seen[g] \in Nat
    BY DEF IInv, TypeOK
  <2> QED
    BY SMT, <1>1, <1>2, <2>1, <2>2, <2>3, <2>4
<1>4. \A g, f \in Handler \ {h} :
          g # f /\ Succeeded(g)' /\ Succeeded(f)' /\ Item(req[g])' = Item(req[f])'
              => seen'[g] # seen'[f]
  BY SMT DEF IInv, DistinctResults, Same, Keeps, Succeeded, Answered, Item
<1> QED
  BY <1>3, <1>4 DEF DistinctResults
-----------------------------------------------------------------------------
(***************************************************************************)
(* The theorems.                                                           *)
(***************************************************************************)

\* The tables start empty and the handlers idle.
LEMMA InitIInv ==
    ASSUME Init
    PROVE  IInv
<1> USE DEF Init, TablesInit
<1>1. TypeOK
  <2>1. TablesTypeOK
    BY DEF TablesTypeOK
  <2>2. (CHOOSE r \in Requests : TRUE) \in Requests
    BY RequestsAssumption
  <2>3. EmptyBundle \in Bundle /\ NoResponse \in [status : Status, version : Nat]
    BY DEF EmptyBundle, Bundle, NoResponse, Status
  <2>4. 0 \in 0 .. MaxRetries /\ "idle" \in Location
    BY SMT, BoundAssumption DEF Location
  <2>5. req \in [Handler -> Requests]
    BY <2>2
  <2> QED
    BY <2>1, <2>3, <2>4, <2>5 DEF TypeOK
<1>2. /\ \A p, k : VersionsOf(p, k) = {} /\ Highest(VersionsOf(p, k)) = 0
      /\ \A p : SnapshotVersionsOf(p) = {} /\ Highest(SnapshotVersionsOf(p)) = 0
  <2>1. \A p, k : VersionsOf(p, k) = {}
    BY DEF VersionsOf
  <2>2. \A p : SnapshotVersionsOf(p) = {}
    BY DEF SnapshotVersionsOf
  <2> QED
    BY <2>1, <2>2 DEF Highest
<1>3. VersionsGapFree
  <2>1. 1 .. 0 = {}
    BY SMT
  <2> QED
    BY <1>2, <2>1 DEF VersionsGapFree
<1>4. AuditTrail
  <2>1. \A p \in Project, k \in Key :
            /\ audit[<<"create_environment", p, k>>] = 0
            /\ audit[<<"create_flag", p, k>>] = 0
            /\ audit[<<"create_segment", p, k>>] = 0
            /\ audit[<<"update_segment", p, k>>] = 0
            /\ audit[<<"publish_version", p, k>>] = 0
            /\ segments[<<p, k>>] = 0
    BY ItemsOf
  <2>2. \A p \in Project : /\ audit[<<"create_project", p, NoKey>>] = 0
                           /\ audit[<<"compile_snapshot", p, NoKey>>] = 0
    BY DEF Items, ProjectOp
  <2>3. ASSUME NEW p \in Project
        PROVE  audit[<<"create_project", p, NoKey>>] = Bit(p \in projects)
    BY <2>2 DEF Bit
  <2>4. ASSUME NEW p \in Project, NEW k \in Key
        PROVE  /\ audit[<<"create_environment", p, k>>] = Bit(<<p, k>> \in environments)
               /\ audit[<<"create_flag", p, k>>] = Bit(<<p, k>> \in flags)
    BY <2>1 DEF Bit
  <2>5. ASSUME NEW p \in Project, NEW k \in Key
        PROVE  audit[<<"create_segment", p, k>>] = Bit(segments[<<p, k>>] > 0)
    <3>1. segments[<<p, k>>] = 0 /\ audit[<<"create_segment", p, k>>] = 0
      BY <2>1
    <3>2. ~(segments[<<p, k>>] > 0)
      BY SMT, <3>1
    <3> QED
      BY <3>1, <3>2 DEF Bit
  <2>6. ASSUME NEW p \in Project, NEW k \in Key
        PROVE  audit[<<"create_segment", p, k>>] + audit[<<"update_segment", p, k>>] =
                   segments[<<p, k>>]
    <3>1. /\ audit[<<"create_segment", p, k>>] = 0
          /\ audit[<<"update_segment", p, k>>] = 0
          /\ segments[<<p, k>>] = 0
      BY <2>1
    <3> HIDE DEF Init, TablesInit
    <3> QED
      BY SMT, <3>1
  <2> QED
    BY <1>2, <2>1, <2>2, <2>3, <2>4, <2>5, <2>6 DEF AuditTrail
<1>5. RowsResolve
  BY SMT DEF RowsResolve
<1>6. ASSUME NEW h \in Handler
      PROVE  HandlerInv(h)
  <2>1. /\ pc[h] = "idle" /\ resp[h] = NoResponse /\ commits[h] = 0
        /\ inlined[h] = EmptyBundle /\ bundle[h] = EmptyBundle /\ floor[h] = EmptyBundle
        /\ req[h].project \in Project
    BY <1>1, RequestFields, RequestsAssumption DEF TypeOK
  <2>2. resp[h].status = "none"
    BY <2>1 DEF NoResponse
  <2>3. ~Succeeded(h) /\ ~Prepared(h)
    BY <2>1, <2>2 DEF Succeeded, Prepared, Answered
  <2>4. LookedUp(h) /\ ResultStored(h) /\ InPlace(h)
    BY <2>1, <2>3 DEF LookedUp, ResultStored, InPlace, Working
  <2>5. \A k \in Key : inlined[h][k] = 0 /\ bundle[h][k] = 0 /\ floor[h][k] = 0
    BY <2>1 DEF EmptyBundle
  <2>6. \A k \in Key : segments[<<req[h].project, k>>] = 0
    BY <2>1
  <2>7. CarriesStored(h)
    BY SMT, <1>2, <2>1, <2>5, <2>6 DEF CarriesStored, Published
  <2>8. AboveFloor(h)
    BY SMTT(30), <1>2, <2>3, <2>5, <2>6 DEF AboveFloor, Published
  <2>9. OneCommit(h)
    BY SMT, <2>1, <2>2, <2>3 DEF OneCommit, Answered, Working
  <2> QED
    BY <2>4, <2>7, <2>8, <2>9 DEF HandlerInv
<1>7. DistinctResults
  <2>1. \A h \in Handler : ~Succeeded(h)
    BY DEF Succeeded, Answered, NoResponse
  <2> QED
    BY <2>1 DEF DistinctResults
<1> QED
  BY <1>1, <1>3, <1>4, <1>5, <1>6, <1>7 DEF IInv, TablesInv

\* Every step keeps the invariant.
LEMMA StepIInv ==
    ASSUME IInv, [Next]_vars
    PROVE  IInv'
<1>1. TypeOK' /\ TablesInv' /\ Grows
  BY TypeStep, TablesStep
<1>2. ASSUME \A g \in Handler : HandlerInv(g)' /\ NoNewResult(g)
      PROVE  IInv'
  BY <1>1, <1>2, ResultsStayDistinct DEF IInv
<1>3. ASSUME \A g \in Handler : Quiet(g)
      PROVE  IInv'
  BY <1>1, <1>2, <1>3, QuietKeeps, QuietHasNoNewResult
<1>4. CASE UNCHANGED vars
  <2>1. \A g \in Handler : Same(g)
    BY <1>4 DEF vars, handlerVars, Same, Keeps
  <2> QED
    BY <1>3, <2>1, SameIsQuiet
<1>5. CASE Quiescent
  BY <1>4, <1>5 DEF Quiescent
<1>6. CASE Crash
  BY <1>3, <1>6, CrashStep
<1>7. ASSUME NEW h \in Handler, Receive(h)
      PROVE  IInv'
  BY <1>1, <1>2, <1>7, ReceiveStep
<1>8. ASSUME NEW h \in Handler, Reject(h) \/ Abort(h) \/ CommitUnacknowledged(h)
      PROVE  IInv'
  BY <1>3, <1>8, HandleSteps, TransactionSteps, CommitUnacknowledgedStep
<1>9. ASSUME NEW h \in Handler, Serve(h)
      PROVE  IInv'
  <2>1. CASE \/ CreateProject(h) \/ CreateEnvironment(h) \/ CreateFlag(h)
             \/ CreateSegment(h) \/ UpdateSegment(h) \/ PublishFlagVersion(h)
             \/ CompileSnapshot(h)
    BY <1>3, <2>1, HandleSteps
  <2>2. CASE \/ Compile(h) \/ PgBegin(h) \/ SqliteBegin(h)
             \/ UniqueViolation(h) \/ UpdateNoRows(h)
             \/ PgSerializationFailure(h) \/ SqliteBusy(h) \/ Retry(h)
    BY <1>3, <2>2, TransactionSteps
  <2>3. CASE \E k \in Key : ResolveSegment(h, k)
    BY <1>1, <1>2, <2>3, ResolveStep
  <2>4. CASE CompileBundle(h)
    BY <1>1, <1>2, <2>4, CompileBundleStep
  <2>5. CASE Reply(h)
    BY <1>3, <2>5, ReplyStep
  <2>6. CASE CommitTx(h)
    BY <1>1, <2>6, CommitTxStep, CommitIsDistinct DEF IInv
  <2> QED
    BY <1>9, <2>1, <2>2, <2>3, <2>4, <2>5, <2>6 DEF Serve
<1> QED
  BY <1>4, <1>5, <1>6, <1>7, <1>8, <1>9 DEF Next

\* The inductive invariant holds in every reachable state of the control plane,
\* for any number of handlers, projects, keys and requests, any retry limit and
\* both backends.
THEOREM ControlPlaneInvariant == Spec => []IInv
<1>1. Init => IInv
  BY InitIInv
<1>2. IInv /\ [Next]_vars => IInv'
  BY StepIInv
<1> QED
  BY <1>1, <1>2, PTL DEF Spec

\* Every value keeps the shape the code gives it; in particular no handler of
\* WithAudit or withImmediateTx retries more often than its limit.
THEOREM TypeCorrect == Spec => []TypeOK
<1>1. IInv => TypeOK
  BY DEF IInv
<1> QED
  BY <1>1, ControlPlaneInvariant, PTL

\* The numbers NextFlagVersion and NextSnapshotVersion hand out to overlapping
\* transactions have neither a gap nor a duplicate.
THEOREM VersionsAreGapFree == Spec => []VersionsGapFree
<1>1. IInv => VersionsGapFree
  BY DEF IInv, TablesInv
<1> QED
  BY <1>1, ControlPlaneInvariant, PTL

\* WithAudit leaves one audit row for every mutation and none for a rollback.
THEOREM AuditIsExact == Spec => []AuditTrail
<1>1. IInv => AuditTrail
  BY DEF IInv, TablesInv
<1> QED
  BY <1>1, ControlPlaneInvariant, PTL

\* Stored rows rest on stored rows, although the handlers look them up outside
\* the transaction that writes.
THEOREM RowsAlwaysResolve == Spec => []RowsResolve
<1>1. IInv => RowsResolve
  BY DEF IInv, TablesInv
<1> QED
  BY <1>1, ControlPlaneInvariant, PTL

\* A request takes effect at most once, whatever is retried or lost.
THEOREM EffectAtMostOnce == Spec => []AtMostOnce
<1>1. IInv => AtMostOnce
  BY DEF IInv, HandlerInv, OneCommit, AtMostOnce, Succeeded
<1> QED
  BY <1>1, ControlPlaneInvariant, PTL

\* A 2xx names a version that holds what its caller sent and nobody else was
\* given.
THEOREM AnswersAreKept == Spec => []AnswersAreStored
<1>1. ASSUME IInv
      PROVE  AnswersAreStored
  <2> SUFFICES ASSUME NEW h \in Handler, Answered(h, "ok")
               PROVE  /\ req[h].op = "publish_version" =>
                             [project |-> req[h].project, key |-> req[h].key,
                              version |-> resp[h].version, body |-> req[h].body,
                              inlined |-> inlined[h]] \in flagVersions
                      /\ req[h].op = "compile_snapshot" =>
                             [project |-> req[h].project, version |-> resp[h].version,
                              bundle |-> bundle[h]] \in snapshots
                      /\ \A g \in Handler \ {h} :
                             /\ Answered(g, "ok")
                             /\ Item(req[g]) = Item(req[h])
                             => resp[g].version # resp[h].version
    BY DEF AnswersAreStored
  <2>1. \A g \in Handler : Answered(g, "ok") =>
            Succeeded(g) /\ ResultStored(g) /\ seen[g] \in Nat /\ resp[g].version = seen[g] + 1
    BY <1>1 DEF IInv, TypeOK, HandlerInv, ResultStored, Succeeded
  <2>2. ASSUME NEW g \in Handler \ {h}, Answered(g, "ok"), Item(req[g]) = Item(req[h])
        PROVE  resp[g].version # resp[h].version
    <3>1. seen[g] # seen[h]
      BY <1>1, <2>1, <2>2 DEF IInv, DistinctResults
    <3> QED
      BY SMT, <2>1, <2>2, <3>1
  <2> QED
    BY <2>1, <2>2 DEF ResultStored
<1> QED
  BY <1>1, ControlPlaneInvariant, PTL

\* What a publish inlines and a compile bundles is no older than what was there
\* when the request arrived.
THEOREM ReadsAreNoOlderThanArrival == Spec => []NoOlderThanArrival
<1>1. ASSUME IInv
      PROVE  NoOlderThanArrival
  <2>1. ASSUME NEW h \in Handler, Answered(h, "ok"), req[h].op = "publish_version",
               NEW k \in req[h].names
        PROVE  inlined[h][k] >= floor[h][k]
    <3>1. AboveFloor(h) /\ Prepared(h)
      BY <1>1, <2>1 DEF IInv, HandlerInv, Prepared
    <3>2. k \in Key
      BY <1>1, RequestFields, RequestsAssumption DEF IInv, TypeOK
    <3>3. inlined[h][k] # 0
      BY <2>1, <3>1 DEF AboveFloor, Unresolved
    <3> QED
      BY <2>1, <3>1, <3>2, <3>3 DEF AboveFloor
  <2>2. ASSUME NEW h \in Handler, Answered(h, "ok"), req[h].op = "compile_snapshot"
        PROVE  \A k \in Key : bundle[h][k] >= floor[h][k]
    BY <1>1, <2>2 DEF IInv, HandlerInv, Prepared, AboveFloor
  <2> QED
    BY <2>1, <2>2 DEF NoOlderThanArrival
<1> QED
  BY <1>1, ControlPlaneInvariant, PTL

\* Versions, snapshots and audit rows are only ever added.
THEOREM HistoryIsKept == Spec => HistoryIsImmutable
<1>1. ASSUME IInv, [Next]_vars
      PROVE  /\ flagVersions \subseteq flagVersions'
             /\ snapshots \subseteq snapshots'
             /\ \A i \in Items : audit'[i] >= audit[i]
  <2>1. flagVersions \subseteq flagVersions' /\ snapshots \subseteq snapshots'
    BY <1>1, TablesStep DEF Grows
  <2>2. audit \in [Items -> Nat]
    BY <1>1 DEF IInv, TypeOK, TablesTypeOK
  <2>3. CASE UNCHANGED tables
    <3>1. audit' = audit
      BY <2>3 DEF tables
    <3> QED
      BY SMT, <2>1, <2>2, <3>1
  <2>4. CASE \E h \in Handler : CommitThen(h)
    <3>1. PICK h \in Handler : CommitThen(h)
      BY <2>4
    <3>2. req[h] \in Request /\ AppendAuditEvent(req[h]) /\ TablesTypeOK
      BY <1>1, <3>1, CommitIsAdmissible DEF Commit, IInv, TypeOK
    <3>3. /\ Item(req[h]) \in Items
          /\ audit'[Item(req[h])] = audit[Item(req[h])] + 1
          /\ \A i \in Items : i # Item(req[h]) => audit'[i] = audit[i]
      BY <3>2, AuditStep, RequestFields
    <3> QED
      BY SMT, <2>1, <2>2, <3>3
  <2> QED
    BY <1>1, <2>3, <2>4, OnlyCommitsWrite
<1>2. IInv /\ [Next]_vars =>
          [/\ flagVersions \subseteq flagVersions'
           /\ snapshots \subseteq snapshots'
           /\ \A i \in Items : audit'[i] >= audit[i]]_vars
  BY <1>1
<1> QED
  BY <1>2, ControlPlaneInvariant, PTL DEF Spec, HistoryIsImmutable

\* What a commit stores is what the abstract mutation may choose.
LEMMA CommitIsAtomic ==
    ASSUME IInv, NEW h \in Handler, CommitThen(h)
    PROVE  AtomicMutation(req[h])
<1> DEFINE r == req[h]
           p == req[h].project
<1>1. /\ r \in Request /\ seen[h] \in Nat /\ p \in Project
      /\ inlined[h] \in Bundle /\ bundle[h] \in Bundle
      /\ MayCommit(r, seen[h], inlined[h], bundle[h])
      /\ Commit(r, seen[h], inlined[h], bundle[h])
  BY CommitIsAdmissible, RequestFields
<1>2. Admissible(r) /\ seen[h] = Stamp(r)
  BY <1>1 DEF MayCommit, Admissible
<1>3. inlined[h] \in StoredPredicates(p)
  <2> DEFINE revisions == UNION {0 .. segments[<<p, k>>] : k \in Key}
  <2>1. ASSUME NEW k \in Key
        PROVE  inlined[h][k] \in revisions
    <3>1. inlined[h][k] \in Nat /\ inlined[h][k] <= segments[<<p, k>>]
      BY <1>1 DEF MayCommit, Bundle
    <3>2. segments[<<p, k>>] \in Nat
      BY <1>1 DEF IInv, TypeOK, TablesTypeOK
    <3>3. inlined[h][k] \in 0 .. segments[<<p, k>>]
      BY SMT, <3>1, <3>2
    <3> QED
      BY <3>3
  <2> HIDE DEF revisions
  <2>2. inlined[h] \in [Key -> revisions]
    BY <1>1, <2>1 DEF Bundle
  <2>3. \A k \in Key : inlined[h][k] <= segments[<<p, k>>]
    BY <1>1 DEF MayCommit
  <2> QED
    BY <2>2, <2>3 DEF StoredPredicates, revisions
<1>4. bundle[h] \in PublishedBundles(p)
  <2> DEFINE versions == UNION {0 .. Highest(VersionsOf(p, k)) : k \in Key}
  <2>1. ASSUME NEW k \in Key
        PROVE  bundle[h][k] \in versions
    <3>1. bundle[h][k] \in Nat /\ bundle[h][k] <= Highest(VersionsOf(p, k))
      BY <1>1 DEF MayCommit, Bundle, Published
    <3>2. Highest(VersionsOf(p, k)) \in Nat
      BY <1>1, HighestIsNat DEF IInv, TypeOK, TablesInv
    <3>3. bundle[h][k] \in 0 .. Highest(VersionsOf(p, k))
      BY SMT, <3>1, <3>2
    <3> QED
      BY <3>3
  <2> HIDE DEF versions
  <2>2. bundle[h] \in [Key -> versions]
    BY <1>1, <2>1 DEF Bundle
  <2>3. Published(p, bundle[h])
    BY <1>1 DEF MayCommit
  <2> QED
    BY <2>2, <2>3 DEF PublishedBundles, versions
<1>5. Commit(r, Stamp(r), inlined[h], bundle[h])
  BY <1>1, <1>2
<1> QED
  BY <1>2, <1>3, <1>4, <1>5 DEF AtomicMutation

\* The handlers and their transactions implement atomic, audited mutations:
\* every step of the control plane is one of Tables' mutations or leaves the
\* tables alone.
THEOREM ControlPlaneIsAtomic == Spec => AtomicSpec
<1>1. Init => TablesInit
  BY DEF Init
<1>2. ASSUME IInv, [Next]_vars
      PROVE  [AtomicNext]_tables
  <2>1. CASE UNCHANGED tables
    BY <2>1
  <2>2. CASE \E h \in Handler : CommitThen(h)
    <3>1. PICK h \in Handler : CommitThen(h)
      BY <2>2
    <3>2. req[h] \in Request /\ AtomicMutation(req[h])
      BY <1>2, <3>1, CommitIsAdmissible, CommitIsAtomic
    <3> QED
      BY <3>2 DEF AtomicNext
  <2> QED
    BY <1>2, <2>1, <2>2, OnlyCommitsWrite
<1> QED
  BY <1>1, <1>2, ControlPlaneInvariant, PTL DEF Spec, AtomicSpec
-----------------------------------------------------------------------------
(***************************************************************************)
(* The SQLite write lock.                                                  *)
(***************************************************************************)

\* One transaction at a time, and while it is open nobody moves the stamp it
\* has read.
LockInv ==
    Backend = "sqlite" =>
        /\ \A g, h \in Handler : pc[g] = "tx" /\ pc[h] = "tx" => g = h
        /\ \A h \in Handler : pc[h] = "tx" => seen[h] = Stamp(req[h])
        /\ SqliteVersionsNeverConflict

\* The step of h is not visible to the handler g.
Elsewhere(g) ==
    pc'[g] = pc[g] /\ resp'[g] = resp[g] /\ seen'[g] = seen[g] /\ req'[g] = req[g]

\* A step that opens no transaction and answers no 409.
Harmless(h) ==
    /\ \A g \in Handler \ {h} : Elsewhere(g)
    /\ UNCHANGED tables \/ pc[h] = "tx"
    /\ pc'[h] # "tx"
    /\ ~(pc'[h] = "idle" /\ resp'[h].status = "conflict")

\* Who holds the lock keeps it through a harmless step of another handler.
LEMMA HarmlessKeepsLock ==
    ASSUME LockInv, NEW h \in Handler, Harmless(h)
    PROVE  LockInv'
<1> SUFFICES ASSUME Backend = "sqlite"
             PROVE  /\ \A g, k \in Handler : pc'[g] = "tx" /\ pc'[k] = "tx" => g = k
                    /\ \A g \in Handler : pc'[g] = "tx" => seen'[g] = Stamp(req[g])'
                    /\ SqliteVersionsNeverConflict'
  BY DEF LockInv
<1>1. ASSUME NEW g \in Handler, pc'[g] = "tx"
      PROVE  g # h /\ pc[g] = "tx" /\ Elsewhere(g)
  BY <1>1 DEF Harmless, Elsewhere
<1>2. \A g, k \in Handler : pc'[g] = "tx" /\ pc'[k] = "tx" => g = k
  BY <1>1 DEF LockInv
<1>3. ASSUME NEW g \in Handler, pc'[g] = "tx"
      PROVE  seen'[g] = Stamp(req[g])'
  <2>1. UNCHANGED tables
    BY <1>1, <1>3 DEF LockInv, Harmless
  <2>2. Stamp(req[g])' = Stamp(req[g])
    BY <1>1, <1>3, <2>1 DEF tables, Stamp, VersionsOf, SnapshotVersionsOf, Elsewhere
  <2> QED
    BY <1>1, <1>3, <2>2 DEF LockInv, Elsewhere
<1>4. ASSUME NEW g \in Handler, pc'[g] = "idle", resp'[g].status = "conflict"
      PROVE  req'[g].op \in CreateOp
  BY <1>4 DEF LockInv, Harmless, Elsewhere, SqliteVersionsNeverConflict, Answered
<1> QED
  BY <1>2, <1>3, <1>4 DEF SqliteVersionsNeverConflict, Answered

\* A handler that moves on, other than into a transaction, is harmless.
LEMMA GotoIsHarmless ==
    ASSUME TypeOK, NEW h \in Handler, NEW l \in Location \ {"tx", "idle"},
           Goto(h, l), UNCHANGED <<req, seen>>,
           UNCHANGED tables \/ pc[h] = "tx"
    PROVE  Harmless(h)
<1>1. /\ pc'[h] = l
      /\ \A g \in Handler \ {h} : pc'[g] = pc[g] /\ resp'[g] = resp[g]
  BY GotoAt
<1> QED
  BY <1>1 DEF Harmless, Elsewhere

\* An answer other than a 409 is harmless.
LEMMA RespondIsHarmless ==
    ASSUME TypeOK, NEW h \in Handler, NEW s, NEW v, s # "conflict",
           Respond(h, s, v), UNCHANGED <<req, seen>>,
           UNCHANGED tables \/ pc[h] = "tx"
    PROVE  Harmless(h)
<1>1. /\ pc'[h] = "idle" /\ resp'[h].status = s
      /\ \A g \in Handler \ {h} : pc'[g] = pc[g] /\ resp'[g] = resp[g]
  BY RespondAt
<1> QED
  BY <1>1 DEF Harmless, Elsewhere

\* On SQLite only SqliteBegin opens a transaction and only a unique index
\* answers 409.
LEMMA OtherStepsAreHarmless ==
    ASSUME TypeOK, Backend = "sqlite", NEW h \in Handler,
           \/ Receive(h) \/ Reject(h) \/ Serve(h) \/ CommitUnacknowledged(h) \/ Abort(h),
           ~SqliteBegin(h), ~UniqueViolation(h)
    PROVE  Harmless(h)
<1>0. Backend # "postgres"
  OBVIOUS
<1>1. CASE Receive(h)
  <2>1. pc'[h] = "handle"
    BY <1>1 DEF Receive, TypeOK
  <2>2. ASSUME NEW g \in Handler \ {h}
        PROVE  Elsewhere(g)
    BY <1>1 DEF Receive, TypeOK, Elsewhere
  <2> QED
    BY <1>1, <2>1, <2>2 DEF Harmless, Receive
<1>2. CASE Reject(h)
  BY <1>2, RespondIsHarmless DEF Reject, Handling
<1>3. CASE CreateProject(h)
  BY <1>3, GotoIsHarmless DEF CreateProject, Handling, Location
<1>4. CASE CreateEnvironment(h) \/ CreateFlag(h) \/ CreateSegment(h) \/ UpdateSegment(h)
  BY <1>4, GotoIsHarmless, RespondIsHarmless
     DEF CreateEnvironment, CreateFlag, CreateSegment, UpdateSegment, InProject, Handling,
         Location
<1>5. CASE PublishFlagVersion(h)
  BY <1>5, GotoIsHarmless, RespondIsHarmless DEF PublishFlagVersion, Handling, Location
<1>6. CASE CompileSnapshot(h)
  BY <1>6, GotoIsHarmless, RespondIsHarmless DEF CompileSnapshot, Handling, Location
<1>7. CASE \E k \in Key : ResolveSegment(h, k)
  BY <1>7, GotoIsHarmless, RespondIsHarmless DEF ResolveSegment, Location
<1>8. CASE Compile(h) \/ CompileBundle(h)
  BY <1>8, GotoIsHarmless, RespondIsHarmless DEF Compile, CompileBundle, Location
<1>9. CASE CommitTx(h)
  BY <1>9, GotoIsHarmless DEF CommitTx, CommitThen, TxDone, Location
<1>10. CASE Reply(h) \/ UpdateNoRows(h) \/ Abort(h)
  BY <1>10, RespondIsHarmless DEF Reply, UpdateNoRows, Abort, TxDone
<1>11. CASE SqliteBusy(h) \/ Retry(h)
  BY <1>11, GotoIsHarmless, RespondIsHarmless
     DEF SqliteBusy, RetryOrFail, Retry, TxDone, Location
<1>12. ~PgBegin(h) /\ ~PgSerializationFailure(h) /\ ~CommitUnacknowledged(h)
  BY <1>0 DEF PgBegin, PgSerializationFailure, CommitUnacknowledged
<1> QED
  BY <1>1, <1>2, <1>3, <1>4, <1>5, <1>6, <1>7, <1>8, <1>9, <1>10, <1>11, <1>12 DEF Serve

\* BEGIN IMMEDIATE: the transaction is the only one and its stamp is current.
LEMMA SqliteBeginTakesLock ==
    ASSUME TypeOK, LockInv, Backend = "sqlite", NEW h \in Handler, SqliteBegin(h)
    PROVE  LockInv'
<1>1. /\ pc'[h] = "tx" /\ resp'[h] = resp[h]
      /\ \A g \in Handler \ {h} : pc'[g] = pc[g] /\ resp'[g] = resp[g]
  BY GotoAt DEF SqliteBegin, ReadStamp
<1>2. \A g \in Handler \ {h} : pc'[g] # "tx"
  BY <1>1 DEF SqliteBegin, ConnectionFree
<1>3. seen'[h] = Stamp(req[h])
  BY DEF SqliteBegin, ReadStamp, TypeOK
<1>4. Stamp(req[h])' = Stamp(req[h])
  BY DEF SqliteBegin, ReadStamp, tables, Stamp, VersionsOf, SnapshotVersionsOf
<1>5. req' = req
  BY DEF SqliteBegin, ReadStamp
<1>6. SqliteVersionsNeverConflict'
  BY <1>1, <1>5 DEF LockInv, SqliteVersionsNeverConflict, Answered
<1> QED
  BY <1>1, <1>2, <1>3, <1>4, <1>6 DEF LockInv

\* Under the lock the next version is free, so only a create meets its own key.
LEMMA UniqueViolationOfCreate ==
    ASSUME IInv, LockInv, Backend = "sqlite", NEW h \in Handler, UniqueViolation(h)
    PROVE  LockInv'
<1> DEFINE r == req[h]
<1>1. seen[h] = Stamp(r)
  BY DEF UniqueViolation, LockInv
<1>2. r \in Request
  BY RequestsAssumption DEF IInv, TypeOK
<1>3. r.op # "publish_version"
  <2> SUFFICES ASSUME r.op = "publish_version"
               PROVE  FALSE
    OBVIOUS
  <2>1. r.project \in Project /\ r.key \in Key
    BY <1>2, RequestFields DEF KeyOp
  <2>2. seen[h] = Highest(VersionsOf(r.project, r.key))
    BY <1>1 DEF Stamp
  <2>3. seen[h] + 1 \in VersionsOf(r.project, r.key)
    BY DEF UniqueViolation, Taken, CreateOp
  <2>4. VersionsOf(r.project, r.key) = 1 .. seen[h]
    BY <2>1, <2>2 DEF IInv, TablesInv, VersionsGapFree
  <2>5. seen[h] \in Nat
    BY DEF IInv, TypeOK
  <2> QED
    BY SMT, <2>3, <2>4, <2>5
<1>4. r.op # "compile_snapshot"
  <2> SUFFICES ASSUME r.op = "compile_snapshot"
               PROVE  FALSE
    OBVIOUS
  <2>1. r.project \in Project
    BY <1>2, RequestFields
  <2>2. seen[h] = Highest(SnapshotVersionsOf(r.project))
    BY <1>1 DEF Stamp
  <2>3. seen[h] + 1 \in SnapshotVersionsOf(r.project)
    BY DEF UniqueViolation, Taken, CreateOp
  <2>4. SnapshotVersionsOf(r.project) = 1 .. seen[h]
    BY <2>1, <2>2 DEF IInv, TablesInv, VersionsGapFree
  <2>5. seen[h] \in Nat
    BY DEF IInv, TypeOK
  <2> QED
    BY SMT, <2>3, <2>4, <2>5
<1>5. r.op \in CreateOp
  BY <1>3, <1>4 DEF UniqueViolation, Taken
<1>6. /\ pc'[h] = "idle"
      /\ \A g \in Handler \ {h} : pc'[g] = pc[g] /\ resp'[g] = resp[g]
  BY RespondAt DEF UniqueViolation, IInv
<1>7. UNCHANGED <<tables, req, seen>>
  BY DEF UniqueViolation, TxDone
<1>8. \A g \in Handler : pc'[g] # "tx"
  BY <1>6 DEF UniqueViolation, LockInv
<1>9. SqliteVersionsNeverConflict'
  BY <1>5, <1>6, <1>7 DEF LockInv, SqliteVersionsNeverConflict, Answered
<1> QED
  BY <1>8, <1>9 DEF LockInv

\* A crash releases the lock and answers nobody.
LEMMA CrashReleasesLock ==
    ASSUME TypeOK, LockInv, Crash
    PROVE  LockInv'
<1>1. \A h \in Handler : pc'[h] = "idle"
  BY DEF Crash
<1>2. ASSUME NEW h \in Handler, resp'[h].status = "conflict"
      PROVE  pc[h] = "idle" /\ resp[h].status = "conflict"
  <2>1. CASE pc[h] = "idle"
    BY <1>2, <2>1 DEF Crash
  <2>2. CASE pc[h] # "idle"
    <3>1. resp'[h] = [status |-> "lost", version |-> 0]
      BY <2>2 DEF Crash
    <3>2. resp'[h].status = "lost"
      BY SMT, <3>1
    <3> QED
      BY <1>2, <3>2
  <2> QED
    BY <2>1, <2>2
<1>3. req' = req
  BY DEF Crash
<1> QED
  BY <1>1, <1>2, <1>3 DEF LockInv, SqliteVersionsNeverConflict, Answered

\* On SQLite no publish and no compile is ever refused with a 409, for any
\* number of handlers: MAX(version) + 1 is read and used under one write lock.
THEOREM SqliteNeverConflicts == Spec => []SqliteVersionsNeverConflict
<1>1. Init => LockInv
  <2> SUFFICES ASSUME Init
               PROVE  LockInv
    OBVIOUS
  <2>1. \A h \in Handler : pc[h] = "idle"
    BY DEF Init
  <2>2. \A h \in Handler : resp[h].status = "none"
    BY SMT DEF Init, NoResponse
  <2> QED
    BY <2>1, <2>2 DEF LockInv, SqliteVersionsNeverConflict, Answered
<1>2. IInv /\ LockInv /\ [Next]_vars => LockInv'
  <2> SUFFICES ASSUME IInv, LockInv, [Next]_vars, Backend = "sqlite"
               PROVE  LockInv'
    BY DEF LockInv
  <2>1. CASE UNCHANGED vars
    BY <2>1 DEF vars, handlerVars, tables, LockInv, SqliteVersionsNeverConflict, Answered,
                Stamp, VersionsOf, SnapshotVersionsOf
  <2>2. CASE Crash
    BY <2>2, CrashReleasesLock DEF IInv
  <2>3. ASSUME NEW h \in Handler,
               \/ Receive(h) \/ Reject(h) \/ Serve(h) \/ CommitUnacknowledged(h)
               \/ Abort(h)
        PROVE  LockInv'
    BY <2>3, OtherStepsAreHarmless, HarmlessKeepsLock, SqliteBeginTakesLock,
       UniqueViolationOfCreate DEF IInv
  <2> QED
    BY <2>1, <2>2, <2>3 DEF Next, Quiescent
<1>3. LockInv => SqliteVersionsNeverConflict
  BY DEF LockInv, SqliteVersionsNeverConflict
<1> QED
  BY <1>1, <1>2, <1>3, ControlPlaneInvariant, PTL DEF Spec
=============================================================================
