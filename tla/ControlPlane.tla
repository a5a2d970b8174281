---------------------------- MODULE ControlPlane ----------------------------
(***************************************************************************)
(* The mutation handlers of the API (internal/server/handlers, mirrored by *)
(* internal/server/rpc) and the transactions they run through              *)
(* Store.WithAudit (internal/store).                                       *)
(*                                                                         *)
(* A handler goroutine takes one request at a time.  It first reads what   *)
(* it needs outside any transaction: the project, the flag, the segments a *)
(* source refers to, the bundle of a snapshot.  It then runs one           *)
(* transaction: read the item's stamp, write the item, append the audit    *)
(* row, commit.  The Postgres transaction is serializable and works on the *)
(* snapshot it took when it began, so it may find at its end that another  *)
(* one was faster: the database answers 40001, which WithAudit retries, or *)
(* 23505, which becomes a 409.  SQLite has one connection for everything   *)
(* and takes the write lock when the transaction begins.                   *)
(***************************************************************************)
EXTENDS Tables

CONSTANTS
    Handler,        \* request goroutines
    Backend,        \* "postgres" or "sqlite"
    MaxRetries,     \* withAuditMaxRetries; maxRetries of withImmediateTx
    Requests,       \* the requests clients send
    MaxRequests     \* bound: how many requests arrive

ASSUME BackendAssumption == Backend \in {"postgres", "sqlite"}
ASSUME BoundAssumption == MaxRetries \in Nat /\ MaxRequests \in Nat
ASSUME RequestsAssumption == Requests \subseteq Request /\ Requests # {}

VARIABLES
    pc,         \* where the handler is
    req,        \* the request it serves or served last
    inlined,    \* the revisions it has read for its segment references
    bundle,     \* the bundle compileBundle built
    seen,       \* the stamp its transaction read
    attempt,    \* the retries it has made
    resp,       \* its answer to the last request
    commits,    \* how many transactions of this request have committed
    floor,      \* what every reader could see when the request came
    received    \* how many requests have arrived

handlerVars == <<pc, req, inlined, bundle, seen, attempt, resp, commits,
                 floor, received>>

vars == <<tables, handlerVars>>

Status == {"none", "ok", "bad_request", "not_found", "conflict", "error",
           "lost"}

Location == {"idle", "handle", "resolve", "bundle", "begin", "tx", "backoff",
             "reply"}

\* Every value has the shape the code gives it.
TypeOK ==
    /\ TablesTypeOK
    /\ pc \in [Handler -> Location]
    /\ req \in [Handler -> Requests]
    /\ inlined \in [Handler -> Bundle]
    /\ bundle \in [Handler -> Bundle]
    /\ seen \in [Handler -> Nat]
    /\ attempt \in [Handler -> 0 .. MaxRetries]
    /\ resp \in [Handler -> [status : Status, version : Nat]]
    /\ commits \in [Handler -> Nat]
    /\ floor \in [Handler -> Bundle]
    /\ received \in Nat

EmptyBundle == [k \in Key |-> 0]

NoResponse == [status |-> "none", version |-> 0]

Init ==
    /\ TablesInit
    /\ pc = [h \in Handler |-> "idle"]
    /\ req \in [Handler -> {CHOOSE r \in Requests : TRUE}]
    /\ inlined = [h \in Handler |-> EmptyBundle]
    /\ bundle = [h \in Handler |-> EmptyBundle]
    /\ seen = [h \in Handler |-> 0]
    /\ attempt = [h \in Handler |-> 0]
    /\ resp = [h \in Handler |-> NoResponse]
    /\ commits = [h \in Handler |-> 0]
    /\ floor = [h \in Handler |-> EmptyBundle]
    /\ received = 0
-----------------------------------------------------------------------------
(***************************************************************************)
(* Serving a request, up to the transaction.                               *)
(***************************************************************************)

Goto(h, l) ==
    /\ pc' = [pc EXCEPT ![h] = l]
    /\ UNCHANGED resp

Respond(h, s, v) ==
    /\ pc' = [pc EXCEPT ![h] = "idle"]
    /\ resp' = [resp EXCEPT ![h] = [status |-> s, version |-> v]]

\* SetMaxOpenConns(1): a statement waits until no transaction is open.
ConnectionFree == Backend = "sqlite" => \A g \in Handler : pc[g] # "tx"

\* What a request will read is there when it arrives: the segments a publish may
\* inline, the flag versions a compile may bundle.
Floor(r) ==
    CASE r.op = "publish_version"  -> [k \in Key |-> segments[<<r.project, k>>]]
      [] r.op = "compile_snapshot" -> ListLatestFlagVersions(r.project)
      [] OTHER                     -> EmptyBundle

\* The router hands a request to a fresh goroutine.
Receive(h) ==
    /\ pc[h] = "idle"
    /\ received < MaxRequests
    /\ received' = received + 1
    /\ \E r \in Requests :
           /\ req' = [req EXCEPT ![h] = r]
           /\ floor' = [floor EXCEPT ![h] = Floor(r)]
    /\ pc' = [pc EXCEPT ![h] = "handle"]
    /\ inlined' = [inlined EXCEPT ![h] = EmptyBundle]
    /\ bundle' = [bundle EXCEPT ![h] = EmptyBundle]
    /\ seen' = [seen EXCEPT ![h] = 0]
    /\ attempt' = [attempt EXCEPT ![h] = 0]
    /\ resp' = [resp EXCEPT ![h] = NoResponse]
    /\ commits' = [commits EXCEPT ![h] = 0]
    /\ UNCHANGED tables

Handling(h, ops) ==
    /\ pc[h] = "handle"
    /\ req[h].op \in ops
    /\ UNCHANGED <<tables, req, inlined, bundle, seen, attempt, commits, floor,
                   received>>

\* The body does not decode, or a name or predicate in it is not valid.
Reject(h) ==
    /\ Handling(h, ProjectOp \cup KeyOp)
    /\ Respond(h, "bad_request", 0)

CreateProject(h) ==
    /\ Handling(h, {"create_project"})
    /\ Goto(h, "begin")

\* GetProjectBySlug, then on to l; 404 when the project does not exist.
InProject(h, l) ==
    /\ ConnectionFree
    /\ \/ req[h].project \in projects /\ Goto(h, l)
       \/ req[h].project \notin projects /\ Respond(h, "not_found", 0)

CreateEnvironment(h) ==
    /\ Handling(h, {"create_environment"})
    /\ InProject(h, "begin")

CreateFlag(h) ==
    /\ Handling(h, {"create_flag"})
    /\ InProject(h, "begin")

CreateSegment(h) ==
    /\ Handling(h, {"create_segment"})
    /\ InProject(h, "begin")

\* The handler does not look the segment up; the UPDATE will.
UpdateSegment(h) ==
    /\ Handling(h, {"update_segment"})
    /\ InProject(h, "begin")

PublishFlagVersion(h) ==
    /\ Handling(h, {"publish_version"})
    /\ ConnectionFree
    /\ \/ <<req[h].project, req[h].key>> \in flags /\ Goto(h, "resolve")
       \/ <<req[h].project, req[h].key>> \notin flags /\ Respond(h, "not_found", 0)

CompileSnapshot(h) ==
    /\ Handling(h, {"compile_snapshot"})
    /\ ConnectionFree
    /\ LET missing == {e \in req[h].names : <<req[h].project, e>> \notin environments}
       IN  \/ req[h].project \notin projects /\ Respond(h, "not_found", 0)
           \/ /\ req[h].project \in projects
              /\ missing # {}
              /\ Respond(h, "bad_request", 0)
           \/ /\ req[h].project \in projects
              /\ missing = {}
              /\ Goto(h, "bundle")

Unresolved(h) == {k \in req[h].names : inlined[h][k] = 0}

\* Mutant: the segment comes from a cache that is never invalidated.
ResolveSegmentCached(h, k) ==
    /\ pc[h] = "resolve"
    /\ k \in Unresolved(h)
    /\ segments[<<req[h].project, k>>] > 0
    /\ \E rev \in 1 .. segments[<<req[h].project, k>>] :
           inlined' = [inlined EXCEPT ![h][k] = rev]
    /\ Goto(h, "resolve")
    /\ UNCHANGED <<tables, req, bundle, seen, attempt, commits, floor, received>>

\* resolveSegmentRefs replaces one reference: a read of its own, at its time.
ResolveSegment(h, k) ==
    /\ pc[h] = "resolve"
    /\ k \in Unresolved(h)
    /\ ConnectionFree
    /\ LET rev == segments[<<req[h].project, k>>]
       IN  \/ /\ rev > 0
              /\ inlined' = [inlined EXCEPT ![h][k] = rev]
              /\ Goto(h, "resolve")
           \/ /\ rev = 0
              /\ Respond(h, "bad_request", 0)
              /\ UNCHANGED inlined
    /\ UNCHANGED <<tables, req, bundle, seen, attempt, commits, floor, received>>

\* config.Compile accepts the resolved source or does not.
Compile(h) ==
    /\ pc[h] = "resolve"
    /\ Unresolved(h) = {}
    /\ Goto(h, "begin") \/ Respond(h, "bad_request", 0)
    /\ UNCHANGED <<tables, req, inlined, bundle, seen, attempt, commits, floor,
                   received>>

\* Mutant: the bundle is read from a replica that lags behind.
CompileBundleLagging(h) ==
    /\ pc[h] = "bundle"
    /\ bundle' \in {[bundle EXCEPT ![h] = b] : b \in PublishedBundles(req[h].project)}
    /\ Goto(h, "begin")
    /\ UNCHANGED <<tables, req, inlined, seen, attempt, commits, floor, received>>

\* Read before, and outside of, the transaction that will store it.
CompileBundle(h) ==
    /\ pc[h] = "bundle"
    /\ ConnectionFree
    /\ bundle' = [bundle EXCEPT ![h] = ListLatestFlagVersions(req[h].project)]
    /\ Goto(h, "begin")
    /\ UNCHANGED <<tables, req, inlined, seen, attempt, commits, floor, received>>
-----------------------------------------------------------------------------
(***************************************************************************)
(* WithAudit.                                                              *)
(***************************************************************************)

ReadStamp(h) ==
    /\ pc[h] = "begin"
    /\ seen' = [seen EXCEPT ![h] = Stamp(req[h])]
    /\ Goto(h, "tx")
    /\ UNCHANGED <<tables, req, inlined, bundle, attempt, commits, floor, received>>

\* A serializable transaction reads the snapshot it begins with.
PgBegin(h) ==
    /\ Backend = "postgres"
    /\ ReadStamp(h)

\* Mutant: a deferred transaction on a pool of connections.
SqliteBeginDeferred(h) ==
    /\ Backend = "sqlite"
    /\ ReadStamp(h)

\* BEGIN IMMEDIATE on the one connection holds the write lock to the end.
SqliteBegin(h) ==
    /\ Backend = "sqlite"
    /\ ConnectionFree
    /\ ReadStamp(h)

\* Mutant: no unique index on the version columns.
TakenByKeyOnly(h) == req[h].op \in CreateOp /\ Stamp(req[h]) > 0

\* A unique index already holds the row the transaction inserts.
Taken(h) ==
    LET r == req[h]
    IN  \/ r.op \in CreateOp /\ Stamp(r) > 0
        \/ r.op = "publish_version" /\ seen[h] + 1 \in VersionsOf(r.project, r.key)
        \/ r.op = "compile_snapshot" /\ seen[h] + 1 \in SnapshotVersionsOf(r.project)

\* Mutant: INSERT ... ON CONFLICT DO UPDATE.
NoRowUpsert(h) == FALSE

\* The row an UPDATE ... RETURNING names is not there.
NoRow(h) == req[h].op = "update_segment" /\ seen[h] = 0

\* Somebody else has updated the row since the transaction began.
Overwritten(h) == req[h].op = "update_segment" /\ Stamp(req[h]) # seen[h]

TxDone(h) ==
    UNCHANGED <<req, inlined, bundle, seen, attempt, floor, received>>

CommitThen(h) ==
    /\ pc[h] = "tx"
    /\ ~Taken(h) /\ ~NoRow(h) /\ ~Overwritten(h)
    /\ Commit(req[h], seen[h], inlined[h], bundle[h])
    /\ commits' = [commits EXCEPT ![h] = @ + 1]
    /\ TxDone(h)

\* Mutant: the audit row is appended through the Store, not through the Tx.
CommitTxThroughStore(h) ==
    /\ ConnectionFree
    /\ CommitThen(h)
    /\ Goto(h, "reply")

\* The mutation, its audit row and the commit, seen at once by everyone else.
CommitTx(h) ==
    /\ CommitThen(h)
    /\ Goto(h, "reply")

\* Mutant: any error of Commit is retried.
CommitUnacknowledgedRetried(h) ==
    /\ Backend = "postgres"
    /\ CommitThen(h)
    /\ Goto(h, "backoff")

\* The database commits but the connection or the context ends before it says
\* so: Commit returns an error that is not a 40001.
CommitUnacknowledged(h) ==
    /\ Backend = "postgres"
    /\ CommitThen(h)
    /\ Respond(h, "error", 0)

\* Mutant: the answer is read back after the transaction.
ReplyReadBack(h) ==
    /\ pc[h] = "reply"
    /\ Respond(h, "ok", Stamp(req[h]))
    /\ TxDone(h)
    /\ UNCHANGED <<tables, commits>>

Reply(h) ==
    /\ pc[h] = "reply"
    /\ Respond(h, "ok", seen[h] + 1)
    /\ TxDone(h)
    /\ UNCHANGED <<tables, commits>>

\* IsConflict: 23505 is answered at once, with a rollback and without a retry.
UniqueViolation(h) ==
    /\ pc[h] = "tx"
    /\ Taken(h)
    /\ Respond(h, "conflict", 0)
    /\ TxDone(h)
    /\ UNCHANGED <<tables, commits>>

\* sql.ErrNoRows of the transaction's UpdateSegment is not ErrNotFound.
UpdateNoRows(h) ==
    /\ pc[h] = "tx"
    /\ NoRow(h)
    /\ Respond(h, "error", 0)
    /\ TxDone(h)
    /\ UNCHANGED <<tables, commits>>

\* Mutant: the audit row survives the rollback.
RetryOrFailAudited(h) ==
    /\ \/ attempt[h] < MaxRetries /\ Goto(h, "backoff")
       \/ attempt[h] >= MaxRetries /\ Respond(h, "error", 0)
    /\ AppendAuditEvent(req[h])
    /\ TxDone(h)
    /\ UNCHANGED <<projects, environments, flags, segments, flagVersions,
                   snapshots, commits>>

RetryOrFail(h) ==
    /\ \/ attempt[h] < MaxRetries /\ Goto(h, "backoff")
       \/ attempt[h] >= MaxRetries /\ Respond(h, "error", 0)
    /\ TxDone(h)
    /\ UNCHANGED <<tables, commits>>

\* SQLSTATE 40001, at any statement of the transaction or at its commit.
PgSerializationFailure(h) ==
    /\ Backend = "postgres"
    /\ pc[h] = "tx"
    /\ RetryOrFail(h)

\* Another process has the write lock of the database file.
SqliteBusy(h) ==
    /\ Backend = "sqlite"
    /\ pc[h] = "begin"
    /\ ConnectionFree
    /\ RetryOrFail(h)

\* Mutant: the attempts are not counted.
RetryUncounted(h) ==
    /\ pc[h] = "backoff"
    /\ Goto(h, "begin")
    /\ UNCHANGED <<tables, req, inlined, bundle, seen, attempt, commits, floor,
                   received>>

Retry(h) ==
    /\ pc[h] = "backoff"
    /\ attempt' = [attempt EXCEPT ![h] = @ + 1]
    /\ Goto(h, "begin")
    /\ UNCHANGED <<tables, req, inlined, bundle, seen, commits, floor, received>>

\* The client hangs up, the 10 s of CompileSnapshot are over, or a statement
\* fails: an open transaction is rolled back and the answer is a 500.
Abort(h) ==
    /\ pc[h] \notin {"idle", "reply"}
    /\ Respond(h, "error", 0)
    /\ TxDone(h)
    /\ UNCHANGED <<tables, commits>>

\* The API process dies; the database rolls back what was open.
Crash ==
    /\ \E h \in Handler : pc[h] # "idle"
    /\ pc' = [h \in Handler |-> "idle"]
    /\ resp' = [h \in Handler |-> IF pc[h] = "idle" THEN resp[h]
                                  ELSE [status |-> "lost", version |-> 0]]
    /\ UNCHANGED <<tables, req, inlined, bundle, seen, attempt, commits, floor,
                   received>>

\* The bound is reached and every request has its answer.
Quiescent ==
    /\ received = MaxRequests
    /\ \A h \in Handler : pc[h] = "idle"
    /\ UNCHANGED vars
-----------------------------------------------------------------------------
\* The steps of a goroutine that is left to run and whose database answers.
Serve(h) ==
    \/ CreateProject(h) \/ CreateEnvironment(h) \/ CreateFlag(h)
    \/ CreateSegment(h) \/ UpdateSegment(h) \/ PublishFlagVersion(h)
    \/ CompileSnapshot(h)
    \/ \E k \in Key : ResolveSegment(h, k)
    \/ Compile(h) \/ CompileBundle(h)
    \/ PgBegin(h) \/ SqliteBegin(h)
    \/ CommitTx(h) \/ Reply(h) \/ UniqueViolation(h) \/ UpdateNoRows(h)
    \/ PgSerializationFailure(h) \/ SqliteBusy(h) \/ Retry(h)

Next ==
    \/ \E h \in Handler : \/ Receive(h) \/ Reject(h) \/ Serve(h)
                          \/ CommitUnacknowledged(h) \/ Abort(h)
    \/ Crash
    \/ Quiescent

Spec == Init /\ [][Next]_vars

\* The scheduler runs every goroutine, the database answers every statement,
\* and database/sql does not starve a caller that waits for the connection.
Fairness == \A h \in Handler : SF_vars(Serve(h))

FairSpec == Spec /\ Fairness
-----------------------------------------------------------------------------
(***************************************************************************)
(* Properties.                                                             *)
(***************************************************************************)

\* Versions are numbered 1, 2, 3, ... per flag and per project, with one row
\* for each number, however the transactions that choose them overlap
\* (NextFlagVersion, NextSnapshotVersion and the unique indexes).
VersionsGapFree ==
    /\ \A p \in Project, k \in Key :
           VersionsOf(p, k) = 1 .. Highest(VersionsOf(p, k))
    /\ \A p \in Project :
           SnapshotVersionsOf(p) = 1 .. Highest(SnapshotVersionsOf(p))
    /\ \A v, w \in flagVersions :
           v.project = w.project /\ v.key = w.key /\ v.version = w.version => v = w
    /\ \A s, t \in snapshots :
           s.project = t.project /\ s.version = t.version => s = t

\* The audit log tells the history of every item: as many rows as mutations,
\* none missing, none for an attempt that was rolled back or retried.
AuditTrail ==
    /\ \A p \in Project :
           /\ audit[<<"create_project", p, NoKey>>] = Bit(p \in projects)
           /\ audit[<<"compile_snapshot", p, NoKey>>] = Highest(SnapshotVersionsOf(p))
    /\ \A p \in Project, k \in Key :
           /\ audit[<<"create_environment", p, k>>] = Bit(<<p, k>> \in environments)
           /\ audit[<<"create_flag", p, k>>] = Bit(<<p, k>> \in flags)
           /\ audit[<<"create_segment", p, k>>] = Bit(segments[<<p, k>>] > 0)
           /\ audit[<<"create_segment", p, k>>] + audit[<<"update_segment", p, k>>] =
                  segments[<<p, k>>]
           /\ audit[<<"publish_version", p, k>>] = Highest(VersionsOf(p, k))

Answered(h, s) == pc[h] = "idle" /\ resp[h].status = s

\* A request takes effect at most once however often WithAudit retries it; a
\* 2xx means that it did, a 4xx that it did not, and only a 500 or the death of
\* the server leaves the client in doubt.
AtMostOnce ==
    \A h \in Handler :
        /\ commits[h] <= 1
        /\ Answered(h, "ok") => commits[h] = 1
        /\ \A s \in {"bad_request", "not_found", "conflict"} :
               Answered(h, s) => commits[h] = 0

\* The version an answer names is the caller's own: the stored row is what the
\* caller sent, and no other caller was given the same number.
AnswersAreStored ==
    \A h \in Handler : Answered(h, "ok") =>
        /\ req[h].op = "publish_version" =>
               [project |-> req[h].project, key |-> req[h].key,
                version |-> resp[h].version, body |-> req[h].body,
                inlined |-> inlined[h]] \in flagVersions
        /\ req[h].op = "compile_snapshot" =>
               [project |-> req[h].project, version |-> resp[h].version,
                bundle |-> bundle[h]] \in snapshots
        /\ \A g \in Handler \ {h} :
               /\ Answered(g, "ok")
               /\ Item(req[g]) = Item(req[h])
               => resp[g].version # resp[h].version

\* The segments a publish inlines, and the flag versions a compile bundles, are
\* no older than those that were stored when the request arrived, although both
\* are read long before the transaction and survive its retries: whoever compiles
\* after a publish was answered gets that version into the snapshot.
NoOlderThanArrival ==
    \A h \in Handler : Answered(h, "ok") =>
        /\ req[h].op = "publish_version" =>
               \A k \in req[h].names : inlined[h][k] >= floor[h][k]
        /\ req[h].op = "compile_snapshot" =>
               \A k \in Key : bundle[h][k] >= floor[h][k]

\* Every stored row rests on rows that are there: a child on its project, a
\* version on its flag and on revisions its segments have had, a snapshot on
\* published versions.
RowsResolve ==
    /\ \A e \in environments \cup flags : e[1] \in projects
    /\ \A p \in Project, k \in Key : segments[<<p, k>>] > 0 => p \in projects
    /\ \A v \in flagVersions :
           /\ <<v.project, v.key>> \in flags
           /\ \A k \in Key : v.inlined[k] <= segments[<<v.project, k>>]
    /\ \A s \in snapshots :
           s.project \in projects /\ Published(s.project, s.bundle)

\* Versions, snapshots and audit rows are only ever added, never changed or
\* removed, not even by a rollback, a retry or a crash.
HistoryIsImmutable ==
    [][/\ flagVersions \subseteq flagVersions'
       /\ snapshots \subseteq snapshots'
       /\ \A i \in Items : audit'[i] >= audit[i]]_vars

\* On SQLite the next version is read under the write lock, so two writers
\* never choose the same one: only a create is ever answered with a 409.
SqliteVersionsNeverConflict ==
    Backend = "sqlite" =>
        \A h \in Handler : Answered(h, "conflict") => req[h].op \in CreateOp

\* Every request is answered: retries end, and nobody waits for the one
\* SQLite connection forever.
RequestsAreAnswered ==
    \A h \in Handler : pc[h] # "idle" ~> pc[h] = "idle"
-----------------------------------------------------------------------------
(***************************************************************************)
(* What the documents say and the code does not do.                        *)
(***************************************************************************)

\* "Each snapshot bundles the latest version of every flag": a snapshot with a
\* higher number never holds an older version of a flag.  compileBundle runs
\* before the transaction that numbers the snapshot.
SnapshotsNeverRegress ==
    \A s, t \in snapshots :
        s.project = t.project /\ s.version < t.version =>
            \A k \in Key : s.bundle[k] <= t.bundle[k]

-----------------------------------------------------------------------------
(***************************************************************************)
(* The inductive invariant behind the properties.  A handler's private     *)
(* state says something about the tables that others may have changed      *)
(* since it was read; what survives is a lower or an upper bound.          *)
(***************************************************************************)

Working == {"handle", "resolve", "bundle", "begin", "tx", "backoff"}

\* Past the reads that come before the transaction.
Prepared(h) ==
    pc[h] \in {"begin", "tx", "backoff", "reply"} \/ Answered(h, "ok")

Succeeded(h) == pc[h] = "reply" \/ Answered(h, "ok")

\* The rows a handler has looked up are there, and stay there.
LookedUp(h) ==
    pc[h] \in Working \ {"handle"} =>
        /\ req[h].op # "create_project" => req[h].project \in projects
        /\ req[h].op = "publish_version" => <<req[h].project, req[h].key>> \in flags

\* What a handler carries exists in the tables, though newer rows may too.
CarriesStored(h) ==
    /\ \A k \in Key : inlined[h][k] <= segments[<<req[h].project, k>>]
    /\ Published(req[h].project, bundle[h])
    /\ pc[h] = "tx" => seen[h] <= Stamp(req[h])

\* The floor is in the tables, and what was read after arrival is above it.
AboveFloor(h) ==
    /\ req[h].op = "publish_version" =>
           /\ \A k \in Key : floor[h][k] <= segments[<<req[h].project, k>>]
           /\ \A k \in Key : inlined[h][k] # 0 => inlined[h][k] >= floor[h][k]
           /\ Prepared(h) => Unresolved(h) = {}
    /\ req[h].op = "compile_snapshot" =>
           /\ Published(req[h].project, floor[h])
           /\ Prepared(h) => \A k \in Key : bundle[h][k] >= floor[h][k]

\* One commit per request, and only at its end.
OneCommit(h) ==
    /\ commits[h] <= 1
    /\ pc[h] \in Working => commits[h] = 0
    /\ Succeeded(h) => commits[h] = 1
    /\ \A s \in {"bad_request", "not_found", "conflict"} :
           Answered(h, s) => commits[h] = 0

\* The row of a transaction that succeeded is in the tables.
ResultStored(h) ==
    Succeeded(h) =>
        /\ seen[h] + 1 <= Stamp(req[h])
        /\ req[h].op = "publish_version" =>
               [project |-> req[h].project, key |-> req[h].key,
                version |-> seen[h] + 1, body |-> req[h].body,
                inlined |-> inlined[h]] \in flagVersions
        /\ req[h].op = "compile_snapshot" =>
               [project |-> req[h].project, version |-> seen[h] + 1,
                bundle |-> bundle[h]] \in snapshots
        /\ Answered(h, "ok") => resp[h].version = seen[h] + 1

\* Only a publish resolves segments, only a compile builds a bundle, and a
\* handler waits only for a retry it still has.
InPlace(h) ==
    /\ pc[h] = "resolve" => req[h].op = "publish_version"
    /\ pc[h] = "bundle" => req[h].op = "compile_snapshot"
    /\ pc[h] = "backoff" => attempt[h] < MaxRetries

HandlerInv(h) ==
    /\ LookedUp(h) /\ CarriesStored(h) /\ AboveFloor(h)
    /\ OneCommit(h) /\ ResultStored(h) /\ InPlace(h)

\* No two transactions that succeeded wrote the same stamp of the same item.
DistinctResults ==
    \A g, h \in Handler :
        g # h /\ Succeeded(g) /\ Succeeded(h) /\ Item(req[g]) = Item(req[h])
            => seen[g] # seen[h]

TablesInv == VersionsGapFree /\ AuditTrail /\ RowsResolve

IInv ==
    /\ TypeOK
    /\ TablesInv
    /\ \A h \in Handler : HandlerInv(h)
    /\ DistinctResults
=============================================================================
