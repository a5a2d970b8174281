# A verification of FalseFlag

FalseFlag is a feature-flag control plane. Clients create projects, environments,
flags and segments, publish versions of a flag's configuration, and compile
snapshots that SDKs and a proxy poll and evaluate locally. A Kubernetes operator
applies custom resources to the same API, and an MCP server reads from it. This
directory models the path of a flag from the request that publishes it to the
decision that is served from it, and the processes that move it along: their races,
their failures and retries, and the places where one thing is written twice and
must come out the same. TLC checks the models, and TLAPS proves the safety
properties that matter most for every size.

All paths below are relative to the repository's root, `src/`.

## 1. Inventory

| Part | State | Operations that change it | What makes it hard | What must hold |
|---|---|---|---|---|
| Database (`db/`) | projects, environments, flags, segments, flag_versions, snapshots, audit_events | inserts, one `UPDATE` (segments); no deletes in the API | `MAX(version) + 1` races, unique indexes decide them | versions gap-free, rows immutable, references resolve |
| Store, Postgres (`internal/store/pg_*`) | an open serializable transaction per request | `WithAudit` and the writes of `Tx` | retries of 40001, 23505 without a retry, lost commit acknowledgement | one audit row per mutation, at most one effect per request |
| Store, SQLite (`internal/store/sqlite_*`) | the single connection | the same, under `BEGIN IMMEDIATE` | waiting for the connection, busy file | no deadlock, versions never conflict |
| REST handlers (`internal/server/handlers`) | what a goroutine has read so far | seven mutations | reads outside the transaction are used inside it | answers tell the truth, nothing older than the request is stored |
| RPC handlers (`internal/server/rpc`) | as REST | as REST | must agree with REST | same result, equivalent status |
| Config compiler (`internal/config`) | none | compile, resolve segments | recursive segment references | resolution ends; a compiled tree has no references |
| Evaluator (`internal/eval`) | none | evaluate, evaluate with trace | errors inside `all`, `any`, `not`; bucket edges | trace and evaluation decide alike |
| Go SDK (`internal/sdkgo`) | loaded snapshot, stop channel | start, poll, stop | failed first poll, late answers | last good snapshot is kept; polling goes on |
| Proxy (`internal/proxy`) | an embedded Go SDK | run, serve | starts although the first poll failed | recovers once the API is back |
| JS SDK (`js/packages/sdk-js`) | snapshot, timer, per-flag cache | start, stop, poll, evaluate | awaits between check and use | stop stops; a snapshot is loaded whole; the cache is no older than its TTL |
| Operator (`internal/operator`) | Kubernetes resources and their status | seven reconcilers | repeated reconciles, partial failure, two writers of a flag | status says Synced only if the API has it; the resource wins in the end |
| Audit log reader (`handlers/audit.go`) | a client's cursor | pages | transactions commit out of the order of `created_at` | a walk over the pages misses no row that was there when it began |
| MCP server (`internal/mcp`) | none | - | reshapes what the API answers | shows what the API shows |
| Seeder, CLI, dashboard, load generator | none of their own | calls of the API | - | - |

`PROJECT.json` lists every part with its status, and the hazards with the line at
which each one bites.

## 2. The modules

| Module | Models | Extends or instantiates | Checked by |
|---|---|---|---|
| `Tables` | the tables, atomic mutations (abstract) | | `races` |
| `ControlPlane` | the mutation handlers and their transactions, on both backends | `Tables` | `control_plane`, `races`, `sqlite`, `snapshot_regress` |
| `SnapshotCache` | what an SDK promises of the snapshot it serves (abstract) | | `sdk_go`, `sdk_js` |
| `SdkGo`, `Proxy` | the Go client; the proxy around it | `SnapshotCache`; `SdkGo` | `sdk_go`; `proxy`, `proxy_recovery` |
| `SdkJs` | the JavaScript client | `SnapshotCache` | `sdk_js` |
| `Operator` | the seven reconcilers | | `operator` |
| `Predicates` | the leaves of a predicate and the choice of a rule, in Go and in JavaScript | | `rules` |
| `Rules` | segments, compilers, stored versions, evaluation with and without a trace | `Predicates` | `rules`, `segment_cycle` |
| `Values` | cells, JSON documents and optional fields | | `surfaces` |
| `Queries` | the SQL queries of both backends (`sql...`) | `Values` | `surfaces` |
| `PgStore`, `SqliteStore`, `Store` | the two stores (`pg...`, `sqlite...`) and the interface over them (`store...`) | `Queries` | `surfaces` |
| `Contents` | what a store promises, whatever its backend (abstract) | `Store` | proofs only |
| `Config` | the compiler, as the handlers see it | `Values` | `surfaces` |
| `Rest`, `Rpc`, `Mcp` | the two API surfaces (Connect's are `rpc...`) and the MCP tools | `Store`, `Config`; `Rpc` | `surfaces` |
| `Answers` | what can be asked of which surface, and when two answers say the same | `Rest`, `Mcp` | `surfaces` |
| `Surfaces` | requests through either surface to both backends, a reader of the audit log | `Answers` | `surfaces` |

`MC*` modules hold the instances for TLC, `*Proofs` modules the theorems:
`ControlPlaneProofs`, `OperatorProofs`, `ProxyProofs` (the Go SDK and the proxy),
`SdkJsProofs` (the JavaScript SDK and `Predicates`), and, one on top of the other,
`StoreProofs`, `ReadProofs`, `WriteProofs` and `AgreementProofs` about `Surfaces`. Where a
part appears in two modules, they ask different questions of it: a publish is many
racing steps in `ControlPlane`, which cares about rows and versions; one step in
`Rules`, which cares about what the source says; and a function from a database to
an answer in `Rest` and `Rpc`, which cares about codes and conversions.

## 3. What is modelled

### Tables

`Tables.tla` holds the seven tables as variables. The tables of rows that are only
inserted are sets; a segment, which is updated in place, is the number of its
revision, 0 when there is no row; an audit log is the number of rows per *item*.
An item is what a request works on, `<<op, project, key>>`: the action, project
and flag columns of the audit row. Its *stamp* is the number of mutations it has
had, as a query sees it: the highest version, a segment's revision, or whether the
row exists. Contents are abstract: `body` stands for what a source says, `inlined`
for the revision of every segment it had inlined, `bundle` for the flag versions a
snapshot holds.

`Commit` is the effect of one committed transaction: the write and its audit row.
`AtomicSpec` is the promise to clients: mutations happen one at a time, each one
admissible when it happens, numbered one higher than its predecessor. It leaves
open how old the bundle of a snapshot and the predicates of a version may be.

### ControlPlane

A handler goroutine `h` goes through these places (`pc[h]`):

    idle -> handle -> (resolve | bundle) -> begin -> tx -> reply -> idle
                                              ^       |
                                              +-backoff

| Action | Code |
|---|---|
| `Receive` | the router starts a goroutine |
| `Reject` | decoding or validation fails: 400 |
| `CreateProject` ... `CompileSnapshot` | the handlers up to `WithAudit`: look-ups, 404 and 400 |
| `ResolveSegment`, `Compile` | `resolveSegmentRefs`, one read per reference; `config.Compile` |
| `CompileBundle` | `compileBundle`, one query |
| `PgBegin`, `SqliteBegin` | the transaction begins and reads the stamp |
| `CommitTx`, `Reply` | mutation, audit row and commit; then the answer |
| `CommitUnacknowledged` | the commit happens, its acknowledgement does not arrive: 500 |
| `UniqueViolation` | 23505: 409, not retried |
| `UpdateNoRows` | the `UPDATE` finds nothing: 500 |
| `PgSerializationFailure`, `SqliteBusy`, `Retry` | the retry loop of `WithAudit` and `withImmediateTx` |
| `Abort` | client gone, deadline over, or a statement failed: rollback and 500 |
| `Crash` | the process dies; the database rolls back what was open |

`floor` and `commits` are history variables: what the tables held when the request
arrived of what it is going to read (the revisions of the segments, for a publish; the
latest flag versions, for a compile), and how often the request has committed.

Decisions a reader should know of:

- A Postgres transaction sees the database as it was at `PgBegin` and takes effect
  at `CommitTx`. When its row is taken by then, the database answers 23505 or
  40001; both happen. A 40001 may also come for no visible reason: serializable
  isolation has false positives.
- The look-ups of one handler (project, then flag or environment) are one action.
  Rows are never deleted, and a publish that finds the flag finds its project, so
  splitting them adds no outcome.
- A source refers to each segment at most once in the model. The code reads once
  for each occurrence.
- The acknowledgement of a commit is lost on Postgres only; SQLite runs inside the
  process. A crash is the death of the process, not a loss of power, which SQLite
  with `synchronous(NORMAL)` may answer by losing the last commits.
- The RPC handlers have the same control flow over the same Store. This module is
  translated from the REST handlers; `Surfaces` shows that a request has the same
  effect through either.

### SdkGo

A starter is a goroutine that calls `Start` and the loop that `Start` spawns
(`at[s]`):

    idle -> starting -> waiting <-> polling
              |  ^         |
              v  |         v
             failed       done

| Action | Code |
|---|---|
| `CompileSnapshot`, `GetLatestSnapshot` | the API: a row is appended; a poll is answered from the newest row, or 404 |
| `PollFails` | no connection, another status, a context that is done, a body that breaks off |
| `Start` | `Start`; a caller may call it again after an error |
| `PollReturns` | the rest of `pollOnce`: replace the pointer or keep it; then spawn the loop, return the error, or wait |
| `Tick`, `LoopReturns` | the `select` of `loop` |
| `Stop`, `Cancel` | `Stop`; the context is done |
| `LoadPointer`, `Resolve` | `Client.Evaluate` loads the pointer once; a provider's `typed` |

What a snapshot says about a flag is identified by the version of the snapshot, so
a value is a version too, and 0 is nil. `Broken` are the flags that `config.Compile`
refuses on this side; they are left out of what is loaded. What `eval.Evaluate`
decides is left open.

### Proxy

`Proxy.tla` extends `SdkGo` with one starter, `Main`, the goroutine in `Run`, whose
context is the process's. `Run` starts the client, listens whatever came of it, and
returns after a shutdown or when the listener fails, with `Stop` deferred. Readers
are HTTP handlers. Whether a project is configured is chosen in `New`.

### SdkJs

A client runs on one event loop, so what it does between two awaits is one step. A
*chain* is one call of `start()` and the polls that follow from it (`at[c]`); nothing
keeps a program from calling `start()` twice, and `pollTimer` remembers only the
timer armed last.

| Action | Code |
|---|---|
| `start`, `PollReturns` | `start`, and what follows the await of `pollSnapshot` |
| `TimerFires`, `scheduleNextPoll` | the timer and its `finally` |
| `stop` | sets `stopped`, clears the timer it knows |
| `evaluateFlag`, `FetchReturns` | `evaluateFlag` up to its await, and after it |
| `CompileSnapshot`, `GetLatestSnapshot`, `PublishFlagVersion`, `GetFlag` | the API |
| `PollFails`, `GetFlagFails`, `Tick` | network and clock |

A *program* (a constant) says how many chains and callers there are, whether there is
a poll interval, and which flag versions do not compile in this SDK.

### SnapshotCache

Snapshots are appended; in one step, what a client has loaded is replaced by one
whole stored snapshot, less what the client cannot use; it never becomes none again.
`SdkGo` (which drops flags that do not compile) and `SdkJs` (which drops nothing and
rejects the poll instead) both implement it.

### Operator

There is at most one resource of each of the seven kinds. A resource's spec is
identified by its generation, and a published version by the generation it was
translated from. A reconcile is a sequence of steps (`run[k].step`), one for each call
to Kubernetes or to the API:

    idle -> addFinalizer | removeFinalizer -> idle
    idle -> get -> create | update | resolve -> publish ... -> status -> idle

| Action | Code |
|---|---|
| `Apply`, `Delete` | users |
| `Deliver` | the watch brings the informer cache up to date and enqueues |
| `Reconcile` | a worker takes the resource from the queue, or its requeue is due; the branches up to the first call |
| `UpdateFinalizer` | the update that adds or removes the finalizer |
| `ProjectSync`, `EnvironmentSync`, `SegmentSync` | get, then create or update |
| `FlagEnsure`, `FlagResolveRollouts`, `FlagPublish` | `ensureFlag`, `resolveRollouts`, one publish per binding |
| `BindingFetchFlag`, `BindingPublish` | `fetchFlag`, `publishAll` |
| `SnapshotLatest` | the FlagSnapshot reconciler |
| `UpdateStatus` | `translateError`, the conditions and fields of the kind, `Status().Update` |
| `APIUnavailable`, `OtherClient`, `Restart` | failures, other clients of the API, a restart |

Kubernetes rejects a write from an outdated copy: every copy records whether it is
still `fresh`. A publish may lose the race for its version number (`"race"`), which the
API answers with AlreadyExists. The informers' periodic resync is left out, so that
what the operator achieves here it achieves by its own requeues.

### Predicates and Rules

JSON values are a kind and a number; strings form a chain in which each one is a
prefix of the next, -0 is a number of its own, and objects differ in the order of their
members, which Go forgets and JavaScript keeps. A dotted path is one attribute name; a
context says what is found there, and which paths only JavaScript follows (through an
array, or to an inherited property). The two runtimes are translated separately, leaf
by leaf (`cmpEq` and `JsCmpEq`, `inBucket` and `JsInBucket`, ...). What is shared is what
lies outside both: FNV-1a is an arbitrary function of a sequence of bytes (`Hash`), and
each side builds that sequence as its code does, Go in three writes and JavaScript from
one joined string. A pattern has a meaning for each of the two regular-expression
libraries, and a CEL source, which is a test of one attribute, for each of the two CEL
libraries; either may fail to compile on one side only. `Decide` and `DecideTraced` go
from the outcomes of the rules to a decision.

`Rules` adds the trees: `validatePredicate`, the three compilers, `resolveOne` with
its recursion (a stack of `StackDepth` calls), `match`, `traceMatch`, `JsMatch`. Its
actions are `WriteSegment`, `PublishFlagVersion`, `EvaluateFlag`,
`EvaluateFlagWithTrace` and `validateConfig` of the MCP server. A tree says whether it
lists its rules: Go takes `"rules": null` for no rules, and the JavaScript compiler
refuses it.

### Queries, stores, surfaces

A database is a record of tables and a table a set of rows with typed cells. The
handlers of `Rest` and `Rpc` and the store methods have the source's names; where two
packages have the same one, a prefix says whose it is. A query, a store method, a handler and a tool are operators from a database, a request
and what the request meets (the next id, the clock) to an answer and the database
after it. Handlers keep the order of their checks; bodies are records, conversions
are modelled by what they keep, times are rounded where SQLite rounds them. A list
without a limit has `DefaultLimit` rows, 100 in the code of both surfaces. The
state of `Surfaces` is a Postgres and a SQLite database that are given the same
requests, a clock, and a reader that pages through the audit log. In scenarios that
shuffle (`Arbitrary`) ids come in any order and a transaction may have begun before the
clock, so that its audit row turns up behind a cursor that has passed its time.

`Askable` and `Callable` (in `Answers`) say which requests are meant: those that both
surfaces can be sent. A source or a predicate that is neither null nor an object
cannot be sent over Connect, whose messages have a Struct there. A limit is not negative, and
0 is a limit that is not given: REST distinguishes a limit that is absent from one of 0,
Connect does not.

## 4. What the runs check

| Run | Module | Shows |
|---|---|---|
| `control_plane` | MCControlPlane | Postgres, 4 requests of every kind: `VersionsGapFree`, `AuditTrail`, `AtMostOnce`, `AnswersAreStored`; liveness: `RequestsAreAnswered` |
| `races` | MCControlPlane | Postgres, 5 requests (project, flag, segment, updates, publishes, compiles): `NoOlderThanArrival`, for the flags of a bundle and the segments of a version, `HistoryIsImmutable`, and `AtomicSpec` by refinement |
| `sqlite` | MCControlPlane | SQLite, 4 requests of every kind: `SqliteVersionsNeverConflict`, `RequestsAreAnswered` |
| `snapshot_regress` | MCControlPlane | violated: see findings |
| `sdk_go` | SdkGo | two starters, a reader, two snapshots, a flag that compiles and one that does not: `DecisionsAreConsistent`, `NeverRegresses`, and `ServesWholeSnapshots` by refinement |
| `sdk_js` | MCSdkJs | three programs: `StopIsFinal`, `CacheIsFresh`, `StopEndsPolling`, `PollingCatchesUp`, and `ServesWholeSnapshots` by refinement |
| `proxy` | Proxy | one HTTP client, two snapshots: `AnswersNeverGoBack`; liveness of the loop and of `Run`: `LoopsEnd`, `LoopsCatchUp`, `NoLoopIsLeftBehind`, `ProxyServes` |
| `proxy_recovery` | Proxy | violated: see findings |
| `operator` | MCOperator | ten deployments: `TypeOK`, `NoWorkForDeleted`, `SyncedMeansExists`, `StatusNeverGoesBack`; liveness: `FlagWins`, `BindingFollowsFlag` |
| `rules` | MCRules | 9 trees under each strategy, 4 that the runtimes read differently, 12 invalid ones, sources that do not compile, segments that are rewritten, 25 contexts: `StoredVersionsLoad`, `InliningKeepsMeaning`, `RuntimesAgree`, `TraceAgrees`, `ValidationForetells` |
| `segment_cycle` | MCRules | violated: see findings |
| `surfaces` | MCSurfaces | five scenarios, every request in every state: `SurfacesAgree`, `BackendsAgree`, `WritesAreReadable`, `EventsAreFound`, `PagesAreComplete`, `ToolsAgree` |

Properties that hold only under a condition say so by name: `RuntimesAgree` leaves out
the leaves on which `Parts` says that the runtimes differ (each case is in the runs), and
versions that the JavaScript compiler refuses, `TraceAgrees` the contexts
in which a leaf errs, `StopIsFinal` and `NeverRegresses` clients that are started
twice, `FlagWins` and `BindingFollowsFlag` resources that a pass has rejected as
invalid, `SurfacesAgree` a malformed snapshot id of an unknown project and the
cursor, which only REST reads, `ToolsAgree` (by `FirstPage`) the cursor of
`search_audit_log`, which ends up there, and `BackendsAgree` lists of a log that is longer
than `DefaultLimit`: where such a list is cut within a millisecond, Postgres goes by
microseconds and SQLite by ids.

`EventsAreFound` has no such condition. Each event is in the list of its project's log,
and in the search for its own action, actor and millisecond, or that list is full of
events that are no older; so a list that is cut short keeps the newest.

`ValidationForetells` relates `validate_config`, which looks up no segments, to publishing,
which inlines them first. Of sources whose references are found, exactly those are
published that are valid and do not draw in, through a segment, a CEL test that their
strategy does not allow or that does not compile. Inlining repairs nothing, and breaks
nothing else.

The type invariants of `ControlPlane`, `SdkGo` and `Proxy`, and `RowsResolve` and
`LoadedIsStored`, are in no run: section 6 proves them, and the refinements
`AtomicSpec` and `ServesWholeSnapshots` fail where the last two would.

### Bounds

The runs of `MCControlPlane` have one project, one key (a flag, a segment and an
environment of that name), two goroutines and one retry (`MaxRetries = 1`; the code
has 8). Two goroutines give every pairwise race; four requests reach two publishes of
one flag and an update of a segment with one to spare; five reach a publish that
reads before, and commits after, the update of a segment it names, and a compile
around a publish; six, in `snapshot_regress`, two compiles around a publish; one retry
reaches both a retry and an exhausted loop. `races` leaves out environments and
identifies states that differ in the names of the goroutines, which is sound because it
checks safety only. The theorems cover every other size and every kind of request.

In the SDKs two snapshots are what it takes to load an older one or to mix them, and
two starters or chains to have two answers under way. In `SdkJs` a TTL of 2 in 3 ticks
lets an entry be fresh, expire and be overwritten by a slower fetch.

In `Operator` two generations of a resource make a stale copy, two environments make a
partial publish, and one upset (a failure, a lost answer, a lost race, another client
or a restart) can happen at every step. A deployment has only the kinds that read each
other: reconcilers of kinds that do not are independent. With two upsets the
space grows beyond the time of a run without a new kind of step.

In `Rules` the trees have every kind of predicate and connective, both sides of the
rollout gates of 0 and 50 percent, values of the wrong type, and references below a
negation and a disjunction; a stack of 4 is more than acyclic references among two
segments need. In `Surfaces` each scenario keeps to a part of the API and up to 6
audit events (`MaxEvents`), and `DefaultLimit` is 4, so that logs outgrow a list; `Paging` has arbitrary ids and times, several events in a
millisecond, and pages of one event.

### Fairness

`control_plane`, `sqlite`: strong fairness of the steps a goroutine takes by itself. The Go
scheduler runs every goroutine; the database answers every statement; `database/sql`
queues the callers that wait for the connection, which is why the fairness is strong:
the connection is free again and again, not continuously. Nothing is assumed about
which answer the database gives, and rejections, aborts, lost acknowledgements and
crashes are never forced.

`proxy`, `proxy_recovery`: goroutines go on when they can. `select` chooses at random
among ready cases, so a return that is ready at every turn is taken in the end (strong
fairness of `LoopReturns`). Every request is answered or fails, which is an assumption
about the network: the default HTTP client has no timeout. Polls do not fail for ever:
that is what recovery of the API means, and `proxy_recovery` is violated in spite of
it. Stops, signals, requests and failures are never forced. The proxy may stop for
good, so its runs do not check for deadlock.

`sdk_js`: timers fire and the event loop takes up what is ready; a request is answered
or fails; polls do not fail for ever.

`operator`: weak fairness of each controller's worker and of the watch of its kind,
which is what controller-runtime provides. Users, other clients, failures and restarts
are never forced. When users have removed their resources nothing is left to do, so
deadlock is not checked; neither is it in `segment_cycle`, where the server has died.

## 5. Findings

With a run:

- **A newer snapshot may hold older flags** (`snapshot_regress`). `CompileSnapshot`
  reads the bundle before the transaction that numbers the snapshot. With two compiles
  and a publish between their reads, the one that read first may commit last. The
  newest snapshot, which is the one SDKs load, then misses the published version until
  the next compile. `docs/demo/smoke-walkthrough.md:147` says that each snapshot
  bundles the latest version of every flag. What does hold, and is proved, is
  `NoOlderThanArrival`.
- **A proxy whose first poll failed never polls again** (`proxy_recovery`). `Start`
  returns the error without spawning the loop and `Run` only logs it: "proxy will
  return 503 until next poll" (`internal/proxy/proxy.go:79`). It serves defaults, with
  status 200, until it is restarted. A 404 on the first poll is no error, and the loop
  runs.
- **Segments that refer to each other exhaust the stack** (`segment_cycle`).
  `internal/config/predicate.go:27` leaves out cycle detection because "the segment
  write handler rejects" references; it rejects them at the root of a predicate only
  (`handlers/segments.go:160`).

Without a run, because one request or one reading shows them:

- Updating a missing segment is a 500. `UpdateSegment` of the transaction
  (`internal/store/pg_tx.go:75`, and its SQLite twin) does not translate the no-rows
  error as the store's own `UpdateSegment` does; `handlers.go:86` and
  `api/openapi/openapi.yaml:388` have a 404. `UpdateNoRows` models it.
- Publishing the same source twice makes two versions;
  `docs/plans/2026-05-20-004-feat-operator-crds-plan.md:298` has the operator rely on
  "idempotent-by-shape". The seeder's header (`cmd/falseflag-seed/main.go:6`) says that
  it is idempotent; running it again publishes its flags again.
- The operator says Synced, "applied the desired state to the upstream API"
  (`result.go:57`), also when its publish lost the race for a version number and was
  not stored. The next pass stores it (`FlagWins`).
- A reconciler runs again right after it succeeded, not after 30 seconds
  (`result.go:12`): its own status update, with a new `LastSyncTime`, is an event that
  it watches.
- The evaluators do not match "byte-for-byte" (`internal/eval/rollout.go:2`): a CEL test
  of a missing attribute is an error in Go and false in JavaScript, objects whose
  members come in another order are equal in Go only, 0 and -0 in JavaScript only, a
  null prefix is empty in Go and an error in JavaScript, and JavaScript follows paths
  through arrays and inherited properties (`Parts`).
- A segment reference may survive into a stored version, although "the kind never
  appears in the persisted IR" (`internal/config/ir.go:62`) and one that "survives into
  Compile it'll fail in compilePredicates" (`internal/config/json.go:125`). The handler
  looks for references in a source that is JSON, so those of a TypeScript program stay,
  and `walkAndCompile` (`internal/config/cel.go:100`) passes over them. Such a version is
  published and loads (`StoredVersionsLoad`); its evaluation is an error in Go and a
  rule that does not match in JavaScript.
- `"rules": null` is published and evaluated as no rules in Go; the JavaScript SDK does not
  compile it.
- `EvaluateWithTrace` does not return "the same Decision as Evaluate"
  (`internal/eval/trace.go:45`) when a rule errs before another matches: one serves the
  default, the other the later rule's value.
- `handlers/segment_resolver.go:40` says that the source with its segments inlined is
  persisted; what is persisted for JSON and CEL is the source as it was sent
  (`handlers/flags.go:167`). The compiled tree has them inlined (`InliningKeepsMeaning`).
- The MCP tool `search_audit_log` has a `cursor` "from a prior response"
  (`internal/mcp/tools/audit.go:27`). It is passed on to the Connect method, which ignores
  it and returns none: every call shows the first page.
- A malformed snapshot id of an unknown project is a 400 over REST and not_found over
  Connect.
- `stop()` of a JavaScript client that was started twice clears one timer; the other
  chain polls once more and then ends (`StopEndsPolling`). Chains that overlap, in
  either SDK, may put an older snapshot back; no document promises otherwise.
- `internal/proxy/README.md:13` has `/readyz` answer 503 until the first poll succeeds;
  `HandleReady` always answers 200, as the comment above the handler says.
  `docs/sdk-openfeature.md:68` promises reason `default` for a missing flag; the Go
  provider says `type_mismatch` (`Mismatched`).

## 6. What is proved

### The control plane

`ControlPlaneProofs.tla` proves, for every set of goroutines, projects, keys and
bodies, every request set, every retry limit and both backends: `TypeOK`,
`VersionsGapFree`, `AuditTrail`, `RowsResolve`, `AtMostOnce`, `AnswersAreStored`,
`NoOlderThanArrival`, `HistoryIsImmutable`, `SqliteVersionsNeverConflict`, and that
`Spec` implements `AtomicSpec`. The assumptions are those of the modules: `NoKey` is no key, the
backend is one of the two, the bounds are numbers, the requests are requests.

The argument. None of these is inductive: a handler carries values it read some
time ago, and what it will do depends on how they relate to tables that others have
written since. `IInv` says what remains true of them:

- `CarriesStored`: a stamp, a bundle or a revision that was read is a *lower* bound
  of what the tables have now;
- `AboveFloor`: it is an *upper* bound of what the tables had at arrival;
- `LookedUp`: rows that were found are still there;
- `OneCommit`, `ResultStored`, `DistinctResults`: at most one commit, at the end;
  its row is stored under the number the answer will name; no two requests have
  the same number of the same item;
- `InPlace`: where a handler can be with which request.

The heart is `NextOfInterval` and `CommitReadTheStamp`. The versions are `1 .. n`;
the transaction read some `m <= n` and inserts `m + 1`; the unique index lets it
commit only if `m + 1` is not among `1 .. n`. Then `m = n`: whoever commits had
read the current stamp, although nothing but the index made sure of it. So every
commit is an admissible atomic mutation (`CommitIsAdmissible`), keeps the tables
consistent (`CommitVersions`, `CommitAudit`, `CommitResolves`), and only adds
(`CommitGrows`). Since tables only grow, what the other handlers carry stays
stored (`StaysStored`). Every step that is not a commit is *quiet*
(`QuietKeeps`): it leaves the tables alone and succeeds at nothing new.

`SqliteVersionsNeverConflict` has an invariant of its own, `LockInv`: on SQLite at most
one handler is inside a transaction, and the stamp it has read is the current one,
because the lock was taken before the read and nobody else can commit until it is
released. Every step is either *harmless* to it (`Harmless`), takes the lock
(`SqliteBeginTakesLock`) or releases it.

### The Go SDK and the proxy

`ProxyProofs.tla` proves of the client `TypeOK`, `LoadedIsStored`, `DecisionsAreConsistent` and
`NeverRegresses` for every set of flags, starters and readers, with or without
polling, and any bound on the versions. The first three are preserved once it is known that a
response under way is a copy of a stored row (`ResponsesAreStored`) and that rows
are never changed (`AppendKeeps`). `NeverRegresses` needs `FreshWhenAlone`: a
response is at least as new as what is loaded as long as nobody else has called
`Start`, because then nothing was loaded since the request was sent.

`ImplementsSnapshotCache` is the refinement: a poll that returns maps to `Load` or to
a stutter (`PollReturnsLoads`), since the response under way is a stored row, and
`CompileSnapshot` maps to `Compile`.

The proxy builds on it: `Main` is alone, so what is loaded only gets newer;
`AnswersAreBehind` bounds the latest answer of each HTTP client by the pointer its
next request holds, and that pointer by what is loaded. `AnswersNeverGoBack`
follows. Its assumption is that `Main` is the only starter.

### The JavaScript SDK

`SdkJsProofs.tla` proves `StopIsFinal`, `CacheIsFresh` and `ServesWholeSnapshots` for
every set of flags, chains of polls and callers and every bound; a TTL is a positive
number. `StopIsFinal` needs `TimerIsKnown`: with one chain the armed timer is the one
`pollTimer` names, and a poll that was under way when `stop` came arms none.
`CacheIsFresh` rests on one notion, `KnownAt(f, v, t)`: whoever had version `v` of flag
`f` at time `t` lacked only versions published at `t` or later. A fetch knows as of its
beginning, the cache entry it leaves as of `fetchedAt`, a decision as of `TTL` before
it was asked for; time only grows and versions are only added, so knowledge is never
lost, whichever of two overlapping fetches writes last. `ImplementsSnapshotCache` is
the refinement, as for the Go client: a response under way is a stored snapshot.

### The operator

`OperatorProofs.tla` proves, for any deployments, environments and bounds,
`NoWorkForDeleted`, `TypeOK`, `SyncedMeansExists` and `StatusNeverGoesBack`. The only
assumption beyond those on the bounds is that the environments a FlagBinding goes
through are a non-empty sequence of environments.

The first property is not inductive: a pass starts from the informer's copy, which
may be old. The invariant (`Held`) relates the copy to the stored object: a cached copy
that has the finalizer and is not being deleted implies that the stored object exists
and has it, because the only step that removes it belongs to a pass that saw the
deletion in the cache, and what the cache has seen it does not unsee. A pass at work
occupies the one worker of its kind, so nothing removes the finalizer meanwhile, and
Kubernetes keeps an object that has one.

The other three follow from `SyncInv`. What the API holds only grows (`ApiGrows`), so
what a pass found or made is still there when its status says so (`There`, `PassInv`),
although the pass may have read the AlreadyExists of somebody else's write as success.
A copy that is still fresh is the stored object, and only such a pass gets to write the
status, so what it observes is the newest generation (`LagInv`, `StatusInv`). A claim
is bounded by where it came from (`ClaimInv`): the version of a Flag by its generation,
the versions of a FlagBinding by the generation of the *cached* Flag, which never goes
back, and a FlagSnapshot's by the newest snapshot. `RunClaims` carries these bounds
through a pass that is under way. There is one lemma per reconciler and one per
Kubernetes step; each shows what it does to the API and to the run of its own kind.

### Evaluation

`SdkJsProofs.tla` also proves facts about the operators of `Predicates`, for every hash,
value and context: a gate of p percent admits exactly the buckets below 100 p
(`RolloutIsTheBucket`), raising it takes nobody out (`RolloutOnlyGrows`); Go and
JavaScript, each with its own look-up, comparisons and way of joining what is hashed,
agree on every leaf that `Parts` does not name (`LeavesAgree`); whatever
the rules of a tree answer, the traced decision is the decision unless a rule errs
before one matches (`TraceDecidesAlike`), and a decision is of the flag's type or the
default (`DecisionsAreTyped`). The choice of the first rule is a least element, which
exists because the naturals are well-founded (`FirstInIsFirst`).

### The stores and the API surfaces

Two stores, two surfaces over them and the tools do the same 22 things. They are
compared through one description of what the API does, which knows nothing of
cells and codes:

    db[b] = Rows(b, a)  --- REST handler, Connect handler, tool --->  answer, Rows(b, a')
            |                                                             |
         contents a     ---------------- Api(b, a, r, e) ----------->  reply, a'

- `Contents` defines what a store holds as tables of objects (`a`), how a backend keeps
  them (`Rows(b, a)`), when they are well-formed (`ContentsOK`), and what reads and
  writes amount to on them. `StoreContract` says that the store methods do just that.
  `StoreProofs.tla` proves it for both backends (`StoresKeepContract`): every query
  selects the rows of the objects it should and in the order it should, every
  conversion there and back keeps the value, every write adds the row and the audit
  event or is refused with the same error, and the unique indexes stay satisfied.
- `ReadProofs.tla` and `WriteProofs.tla` define `Api` and prove from `StoreContract`,
  one operation at a time, that a REST handler and a Connect handler answer what `Api`
  says and leave `Rows(b, a')` with `a'` well-formed (`Answered`), and that a tool
  tells what it says. The order of the checks matters here: both handlers must meet
  the same failure first.
- `AgreementProofs.tla` puts it together. `SurfacesInv` is the inductive invariant: both
  databases are `Rows` of well-formed contents (`DatabasesAreReadable`). From it follow
  `SurfacesAgree` and `ToolsAgree`.

`BackendsAgree` compares two databases with a history each, so it needs to know how
their contents are related: `Paired` says that they are `Twins`, equal in every table
but the log, where an event has a counterpart with the same id and the same fields and
a time in the same millisecond (in scenarios with arbitrary clocks, any time). Equal
requests keep twins twins (`StaysPaired`), because nothing the API does depends on the
time of an event (`SameWrites`), and twins answer alike (`BackendsMatch`). The log is
the hard case. Postgres compares times and SQLite milliseconds, so a filter selects
counterparts only if its bounds are whole milliseconds (`SameSelection`), and the
order within a millisecond is up to the ids, which is why `BackendsAgree` compares
logs as sets.

`EventsAreFound` holds for logs of any length. The rows that a query selects, put in its
order, hold each event once and the newest first (`LogArranged`), and cutting such a
sequence short keeps the newest (`CutKeepsNewest`); what is told of the rows keeps their
order (`ToldEvent`, `NewestPage`). So the list without filters, and the search, show what
they select or are full of what is newer (`ListsNewestEvents`, `ListingFinds`). A search for
the millisecond, the action and the actor of an event selects it on either backend,
although one of them has rounded its time (`SearchFinds`), and `LogIsFound` puts the two
together.

The theorems hold for any set of scenarios, whatever requests of the forms above
they consist of, any `PageSize`, any positive `DefaultLimit`, and any bound on the events.

### Model-checked only

The liveness properties, since liveness under fairness is out of the prover's reach.
What the recursive operators of `Rules` compute, since induction over trees is: the
agreement theorems stop at the leaves and at the choice of a rule, and `rules` checks
the trees between them. Of `Surfaces`, `WritesAreReadable` and `PagesAreComplete`.

## 7. What is not modelled

- Pure input and output: logging, health probes, configuration from the environment,
  the dashboard, the CLI, the load generator, the seeder (a sequential client).
- The text of sources. What esbuild, goja, cel-go and cel-lite accept is an input of
  `Rules`; a CEL source is a test of one attribute. The TypeScript authoring package
  runs inside that input.
- Generated message types and routers, and the checks they would make; requests are
  enumerated within the ranges of the OpenAPI document.
- The shutdown of the API server with its deadline: a request that it cuts off is an
  `Abort`.
- A loss of power under SQLite (`synchronous(NORMAL)` may lose the last commits).
- More than one resource of a kind in the operator, and more than one replica of it
  (its deployment has one).
- The transport and the health probe of the MCP server.
