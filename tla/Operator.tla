------------------------------ MODULE Operator ------------------------------
(***************************************************************************)
(* The Kubernetes operator: seven reconcilers, each with one worker, that  *)
(* read custom resources (CRs) from the informer cache and apply them to   *)
(* the FalseFlag API.                                                      *)
(*                                                                         *)
(* There is at most one CR of each kind and they all concern one project.  *)
(* A CR's spec is identified by its generation, and a published version by *)
(* the generation it was translated from, so version numbers, which grow   *)
(* without bound, are left out.  A reconcile is a sequence of steps, one   *)
(* per call to the API or to Kubernetes, and every other actor may move    *)
(* between two of them: users edit CRs, other clients use the API, the     *)
(* cache lags behind, the API fails, and the operator restarts.            *)
(*                                                                         *)
(* Kubernetes rejects a write that was computed from an outdated copy.     *)
(* Instead of resourceVersions, which also grow without bound, each copy   *)
(* records whether it is still fresh.  A copy's status is read only to     *)
(* write the next one, which an outdated copy cannot do; so the copies     *)
(* leave it out.                                                           *)
(*                                                                         *)
(* The informers' resync, every ten hours by default, is left out: what    *)
(* the operator achieves here it achieves by its own requeues.             *)
(***************************************************************************)
EXTENDS Integers, Sequences, FiniteSets

CONSTANTS
    Deployments,    \* what users deploy together
    EnvSeq,         \* the environments bindings list, in order
    AnyEnv,         \* the place of a version published for no environment
    MaxGeneration,  \* bound: generations of one CR
    MaxUpsets       \* bound: API failures, lost races and restarts

Kind == {"Project", "Environment", "Segment", "RolloutPolicy", "Flag",
         "FlagBinding", "FlagSnapshot"}

\* The shapes of a Flag spec that the reconciler tells apart: no reference;
\* embedded per-environment bindings; a rule with a rolloutRef; a rule that
\* names a segment; a rule with neither a value nor a rolloutRef.
FlagSpec == {"plain", "bindings", "rollout", "segment", "bad"}

Env == {EnvSeq[i] : i \in DOMAIN EnvSeq}

Slot == Env \cup {AnyEnv}

\* What goes wrong around the operator: a call fails, its answer is lost, two
\* publishes race for a version number, another client writes what a CR owns,
\* the operator restarts.
UpsetKind == {"unavailable", "lost", "race", "other", "restart"}

\* The kinds deployed, the Flag specs used, the kinds that are edited later, the
\* kinds that are deleted later, whether the project is there from the start,
\* and what goes wrong.
Deployment == [kinds : SUBSET Kind, specs : SUBSET FlagSpec,
               edited : SUBSET Kind, deleted : SUBSET Kind,
               project : BOOLEAN, upsets : SUBSET UpsetKind]

ASSUME OperatorAssumption ==
    /\ Deployments \subseteq Deployment
    /\ AnyEnv \notin Env
    /\ EnvSeq \in Seq(Env) \ {<<>>}
    /\ MaxGeneration \in Nat \ {0}
    /\ MaxUpsets \in Nat

VARIABLES
    deployed,   \* what the user deploys in this behaviour
    obj,        \* the CR of each kind, as etcd stores it
    status,     \* its status
    cache,      \* the CR of each kind, as the informer cache has it
    cacheFresh, \* whether the cached copy is the stored one
    dirty,      \* whether the work queue holds the CR
    timer,      \* whether a requeue of the CR is pending
    run,        \* the reconcile in progress, for each kind
    api,        \* what the FalseFlag API holds
    upsets      \* how many upsets there have been

vars == <<deployed, obj, status, cache, cacheFresh, dirty, timer, run, api, upsets>>
-----------------------------------------------------------------------------
(***************************************************************************)
(* Resources.                                                              *)
(***************************************************************************)

Generation == 0 .. MaxGeneration

Bool3 == {"none", "True", "False"}

\* What the newest flag version says: the generation of the Flag it was
\* translated from (0: published by another client), the environment it is
\* specialised to, and the generation of the RolloutPolicy it inlines.
Tree == [gen : Generation, env : Slot, policy : Generation]

\* Written by another client, or nothing published at all.
NoTree == [gen |-> 0, env |-> AnyEnv, policy |-> 0]

\* extra: Published of a FlagBinding, Resolved of a RolloutPolicy, Compiled of
\* a FlagSnapshot.  claim: for each slot, what the version that the status
\* names says (LastPublishedVersion, PublishedVersions, CompiledVersion).
Status == [synced : Bool3, ready : Bool3, extra : Bool3,
           observed : Generation, claim : [Slot -> Generation]]

NoStatus == [synced |-> "none", ready |-> "none", extra |-> "none",
             observed |-> 0, claim |-> [e \in Slot |-> 0]]

\* gen is 0 until the user applies the CR.
CR == [exists : BOOLEAN, deleting : BOOLEAN, finalizer : BOOLEAN,
       gen : Generation, spec : FlagSpec]

NoCR == [exists |-> FALSE, deleting |-> FALSE, finalizer |-> FALSE, gen |-> 0,
         spec |-> "plain"]

Step == {"idle", "removeFinalizer", "addFinalizer", "get", "create", "update",
         "resolve", "fetch", "publish", "latest", "status"}

Outcome == {"ok", "exists", "conflict", "invalid", "missing", "error", "noFlag"}

\* view: the copy the reconcile works on; left: the environments it still has
\* to publish; got: what the versions it published say; flag and policy: the
\* generations of the other CRs it read; res: how the calls to the API ended.
Run == [step : Step, view : CR, fresh : BOOLEAN, left : Seq(Slot),
        got : [Slot -> Generation], flag : CR, policy : Generation,
        res : Outcome]

Idle == [step |-> "idle", view |-> NoCR, fresh |-> FALSE, left |-> <<>>,
         got |-> [e \in Slot |-> 0], flag |-> NoCR, policy |-> 0, res |-> "ok"]

\* published: whether the flag has a version; segmentGen: the generation of
\* the Segment that its predicate is from, 0 when another client wrote it.
API == [project : BOOLEAN, environment : BOOLEAN, flag : BOOLEAN,
        published : BOOLEAN, latest : Tree, segment : BOOLEAN,
        segmentGen : Generation, snapshot : Generation]

TypeOK ==
    /\ deployed \in Deployments
    /\ obj \in [Kind -> CR]
    /\ status \in [Kind -> Status]
    /\ cache \in [Kind -> CR]
    /\ cacheFresh \in [Kind -> BOOLEAN]
    /\ dirty \in [Kind -> BOOLEAN]
    /\ timer \in [Kind -> BOOLEAN]
    /\ run \in [Kind -> Run]
    /\ api \in API
    /\ upsets \in 0 .. MaxUpsets

Init ==
    /\ deployed \in Deployments
    /\ obj = [k \in Kind |-> NoCR]
    /\ status = [k \in Kind |-> NoStatus]
    /\ cache = [k \in Kind |-> NoCR]
    /\ cacheFresh = [k \in Kind |-> TRUE]
    /\ dirty = [k \in Kind |-> FALSE]
    /\ timer = [k \in Kind |-> FALSE]
    /\ run = [k \in Kind |-> Idle]
    /\ api = [project |-> deployed.project, environment |-> FALSE, flag |-> FALSE,
              published |-> FALSE, latest |-> NoTree, segment |-> FALSE,
              segmentGen |-> 0, snapshot |-> 0]
    /\ upsets = 0
-----------------------------------------------------------------------------
(***************************************************************************)
(* Kubernetes: users, the watch and the work queue.                        *)
(***************************************************************************)

\* Every stored write outdates the cached copy and the copy in use.
Store(k, o) ==
    /\ obj' = [obj EXCEPT ![k] = o]
    /\ cacheFresh' = [cacheFresh EXCEPT ![k] = FALSE]

Outdate(k) == run' = [run EXCEPT ![k].fresh = FALSE]

Specs(k) ==
    CASE k = "Flag" -> deployed.specs
      [] k \in {"Segment", "RolloutPolicy"} -> {"plain", "bad"}
      [] OTHER -> {"plain"}

\* kubectl apply: creates the CR, or changes its spec.
Apply(k) ==
    /\ k \in deployed.kinds
    /\ obj[k].gen < MaxGeneration
    /\ obj[k].gen = 0 \/ (obj[k].exists /\ k \in deployed.edited)
    /\ \E s \in Specs(k) :
           Store(k, [obj[k] EXCEPT !.exists = TRUE, !.gen = @ + 1, !.spec = s])
    /\ Outdate(k)
    /\ UNCHANGED <<deployed, status, cache, dirty, timer, api, upsets>>

\* kubectl delete: a CR with a finalizer stays until the finalizer is gone.
Delete(k) ==
    /\ k \in deployed.deleted
    /\ obj[k].exists /\ ~obj[k].deleting
    /\ Store(k, [obj[k] EXCEPT !.exists = obj[k].finalizer, !.deleting = TRUE])
    /\ Outdate(k)
    /\ UNCHANGED <<deployed, status, cache, dirty, timer, api, upsets>>

\* The watch brings the cache up to date and enqueues the CR.
Deliver(k) ==
    /\ ~cacheFresh[k]
    /\ cache' = [cache EXCEPT ![k] = obj[k]]
    /\ cacheFresh' = [cacheFresh EXCEPT ![k] = TRUE]
    /\ dirty' = [dirty EXCEPT ![k] = TRUE]
    /\ UNCHANGED <<deployed, obj, status, timer, run, api, upsets>>

Upset(u) ==
    /\ u \in deployed.upsets /\ upsets < MaxUpsets
    /\ upsets' = upsets + 1

\* A restart forgets everything in memory and lists every CR again.
Restart ==
    /\ Upset("restart")
    /\ cache' = obj
    /\ cacheFresh' = [k \in Kind |-> TRUE]
    /\ dirty' = [k \in Kind |-> obj[k].exists]
    /\ timer' = [k \in Kind |-> FALSE]
    /\ run' = [k \in Kind |-> Idle]
    /\ UNCHANGED <<deployed, obj, status, api>>
-----------------------------------------------------------------------------
(***************************************************************************)
(* Other clients of the API.                                               *)
(***************************************************************************)

OtherClient ==
    /\ \/ /\ ~api.project
          /\ api' = [api EXCEPT !.project = TRUE]
          /\ UNCHANGED upsets
       \/ /\ "FlagSnapshot" \in deployed.kinds
          /\ api.project /\ api.snapshot < MaxGeneration
          /\ api' = [api EXCEPT !.snapshot = @ + 1]
          /\ UNCHANGED upsets
       \/ /\ "Flag" \in deployed.kinds
          /\ api.project /\ Upset("other")
          /\ api' = [api EXCEPT !.flag = TRUE, !.published = api.flag,
                                !.latest = NoTree]
       \/ /\ "Segment" \in deployed.kinds \/ "segment" \in deployed.specs
          /\ api.project /\ Upset("other")
          /\ api' = [api EXCEPT !.segment = TRUE, !.segmentGen = 0]
    /\ UNCHANGED <<deployed, obj, status, cache, cacheFresh, dirty, timer, run>>
-----------------------------------------------------------------------------
(***************************************************************************)
(* What the reconcilers share.                                             *)
(***************************************************************************)

Finalized == {"Flag", "Segment"}

\* Mutant: a missing parent leaves the condition unknown.
translateErrorUnknown(res) ==
    CASE res \in {"ok", "exists"} ->
             [type |-> "Synced", status |-> "True", requeue |-> TRUE]
      [] res = "missing" ->
             [type |-> "Synced", status |-> "Unknown", requeue |-> TRUE]
      [] OTHER ->
             [type |-> "Ready", status |-> "False", requeue |-> res # "invalid"]

\* Mutant: NotFound is taken for success, as AlreadyExists is.
translateErrorLenient(res) ==
    CASE res \in {"ok", "exists", "missing"} ->
             [type |-> "Synced", status |-> "True", requeue |-> TRUE]
      [] OTHER ->
             [type |-> "Ready", status |-> "False", requeue |-> res # "invalid"]

\* Mutant: a pass that failed is not repeated.
translateErrorFinal(res) ==
    CASE res \in {"ok", "exists"} ->
             [type |-> "Synced", status |-> "True", requeue |-> TRUE]
      [] res \in {"conflict", "missing", "error"} ->
             [type |-> "Synced", status |-> "False", requeue |-> FALSE]
      [] OTHER ->
             [type |-> "Ready", status |-> "False", requeue |-> res # "invalid"]

\* The condition a result sets, and whether the CR is requeued.
translateError(res) ==
    CASE res \in {"ok", "exists"} ->
             [type |-> "Synced", status |-> "True", requeue |-> TRUE]
      [] res \in {"conflict", "missing", "error"} ->
             [type |-> "Synced", status |-> "False", requeue |-> TRUE]
      [] res = "invalid" ->
             [type |-> "Ready", status |-> "False", requeue |-> FALSE]
      [] res = "noFlag" ->
             [type |-> "Ready", status |-> "False", requeue |-> TRUE]

setCondition(st, type, value) ==
    CASE type = "Synced" -> [st EXCEPT !.synced = value]
      [] type = "Ready"  -> [st EXCEPT !.ready = value]
      [] type = "Extra"  -> [st EXCEPT !.extra = value]

\* Mutant: a pass that fails writes a status of its own, without the old fields.
WithResultReset(st, gen, res) ==
    LET e == translateError(res)
    IN  IF e.status = "True"
        THEN [setCondition(setCondition(st, e.type, e.status), "Ready", "True")
                 EXCEPT !.observed = gen]
        ELSE setCondition(NoStatus, e.type, e.status)

\* The status of a pass that ended with res, before the fields of the kind.
WithResult(st, gen, res) ==
    LET e == translateError(res)
        s == setCondition(st, e.type, e.status)
    IN  IF e.status = "True"
        THEN [setCondition(s, "Ready", "True") EXCEPT !.observed = gen]
        ELSE s

\* The reconcile goes on with run r.
Continue(k, r) ==
    /\ run' = [run EXCEPT ![k] = r]
    /\ UNCHANGED <<deployed, obj, status, cache, cacheFresh, dirty, timer>>

\* The reconcile ends; a pending requeue is never cancelled.
Return(k, requeue) ==
    /\ run' = [run EXCEPT ![k] = Idle]
    /\ timer' = [timer EXCEPT ![k] = @ \/ requeue]

\* The calls to the API are over.
Ended(k, res) == [run[k] EXCEPT !.step = "status", !.res = res]

\* The first step of a pass over a CR that is not being deleted and has the
\* finalizer its kind needs.
FirstStep(k) ==
    CASE k \in {"Project", "Environment", "Segment", "Flag"} -> "get"
      [] k = "FlagBinding"   -> "fetch"
      [] k = "FlagSnapshot"  -> "latest"
      [] k = "RolloutPolicy" -> "status"

\* Mutant: no finalizer is added before the first call.
StepForUnguarded(k, cr) ==
    CASE ~cr.exists -> "idle"
      [] cr.exists /\ k \in Finalized /\ cr.deleting ->
             IF cr.finalizer THEN "removeFinalizer" ELSE "idle"
      [] OTHER -> FirstStep(k)

\* What Reconcile does with the CR it reads from the cache.
StepFor(k, cr) ==
    CASE ~cr.exists -> "idle"
      [] cr.exists /\ k \in Finalized /\ cr.deleting ->
             IF cr.finalizer THEN "removeFinalizer" ELSE "idle"
      [] cr.exists /\ k \in Finalized /\ ~cr.deleting /\ ~cr.finalizer ->
             "addFinalizer"
      [] OTHER -> FirstStep(k)

validateRolloutPolicy(cr) == IF cr.spec = "bad" THEN "invalid" ELSE "ok"

FirstResult(k, cr) == IF k = "RolloutPolicy" THEN validateRolloutPolicy(cr) ELSE "ok"

\* A worker takes the CR off the queue, or its requeue falls due, and
\* Reconcile reads it from the cache.
Reconcile(k) ==
    /\ run[k].step = "idle"
    /\ \/ dirty[k] /\ dirty' = [dirty EXCEPT ![k] = FALSE] /\ UNCHANGED timer
       \/ timer[k] /\ timer' = [timer EXCEPT ![k] = FALSE] /\ UNCHANGED dirty
    /\ LET step == StepFor(k, cache[k])
       IN  run' = [run EXCEPT ![k] =
                       IF step = "idle" THEN Idle
                       ELSE [Idle EXCEPT !.step = step, !.view = cache[k],
                                         !.fresh = cacheFresh[k],
                                         !.res = FirstResult(k, cache[k])]]
    /\ UNCHANGED <<deployed, obj, status, cache, cacheFresh, api, upsets>>

\* Update of the CR's finalizers: rejected when the copy is outdated.
UpdateFinalizer(k) ==
    /\ run[k].step \in {"addFinalizer", "removeFinalizer"}
    /\ Return(k, ~run[k].fresh \/ run[k].step = "addFinalizer")
    /\ IF run[k].fresh
       THEN Store(k, IF run[k].step = "addFinalizer"
                     THEN [obj[k] EXCEPT !.finalizer = TRUE]
                     ELSE [obj[k] EXCEPT !.finalizer = FALSE, !.exists = FALSE])
       ELSE UNCHANGED <<obj, cacheFresh>>
    /\ UNCHANGED <<deployed, status, cache, dirty, api, upsets>>
-----------------------------------------------------------------------------
(***************************************************************************)
(* The calls to the API, one action per reconciler.                        *)
(***************************************************************************)

\* The call took effect; its answer may be lost.
Answered(k, r) ==
    \/ Continue(k, r) /\ UNCHANGED upsets
    \/ Continue(k, Ended(k, "error")) /\ Upset("lost")

\* The API cannot be reached or fails inside.
APIUnavailable(k) ==
    /\ run[k].step \in {"get", "create", "update", "publish", "latest"}
    /\ Upset("unavailable")
    /\ Continue(k, Ended(k, "error"))
    /\ UNCHANGED api

ProjectSync ==
    LET r == run["Project"] IN
    \/ /\ r.step = "get"
       /\ Continue("Project", IF api.project THEN Ended("Project", "ok")
                              ELSE [r EXCEPT !.step = "create"])
       /\ UNCHANGED <<api, upsets>>
    \/ /\ r.step = "create"     \* AlreadyExists is taken as success
       /\ api' = [api EXCEPT !.project = TRUE]
       /\ Answered("Project", Ended("Project", "ok"))

EnvironmentSync ==
    LET r == run["Environment"] IN
    \/ /\ r.step = "get"
       /\ Continue("Environment",
                   IF api.environment THEN Ended("Environment", "ok")
                   ELSE [r EXCEPT !.step = "create"])
       /\ UNCHANGED <<api, upsets>>
    \/ /\ r.step = "create"
       /\ api' = [api EXCEPT !.environment = api.project]
       /\ Answered("Environment",
                   Ended("Environment", IF api.project THEN "ok" ELSE "missing"))

SegmentSync ==
    LET r == run["Segment"] IN
    \/ /\ r.step = "get"
       /\ Continue("Segment",
                   IF r.view.spec = "bad" THEN Ended("Segment", "invalid")
                   ELSE [r EXCEPT !.step = IF api.segment THEN "update"
                                           ELSE "create"])
       /\ UNCHANGED <<api, upsets>>
    \/ /\ r.step = "update"
       /\ api' = [api EXCEPT !.segmentGen = r.view.gen]
       /\ Answered("Segment", Ended("Segment", "ok"))
    \/ /\ r.step = "create"     \* AlreadyExists returns without an update
       /\ api' = [api EXCEPT !.segment = api.project,
                             !.segmentGen = IF api.project /\ ~api.segment
                                            THEN r.view.gen ELSE @]
       /\ Answered("Segment",
                   Ended("Segment", IF api.project THEN "ok" ELSE "missing"))

\* Whether IRForFlag returns a tree: a rule needs a value or a rolloutRef that
\* is in the map of RolloutPolicies the caller passes (a policy of 0 is not).
Translates(flag, policy) ==
    flag.spec # "bad" /\ (flag.spec = "rollout" => policy > 0)

\* The tree of a flag for one environment.
IRForFlag(flag, policy, env) ==
    [gen |-> flag.gen, env |-> env, policy |-> policy]

\* PublishFlagVersion: a source that names a missing segment is rejected.
PublishOutcome(flag, policy) ==
    CASE ~Translates(flag, policy) -> "invalid"
      [] Translates(flag, policy) /\ ~api.flag -> "missing"
      [] OTHER -> IF flag.spec = "segment" /\ ~api.segment THEN "invalid" ELSE "ok"

Publish(flag, policy, env) ==
    api' = [api EXCEPT !.published = TRUE,
                       !.latest = IRForFlag(flag, policy, env)]

\* GetFlag, and CreateFlag when there is none.
FlagEnsure ==
    LET r == run["Flag"] IN
    \/ /\ r.step = "get"
       /\ Continue("Flag", [r EXCEPT !.step = IF api.flag THEN "resolve"
                                              ELSE "create"])
       /\ UNCHANGED <<api, upsets>>
    \/ /\ r.step = "create"
       /\ api' = [api EXCEPT !.flag = api.project]
       /\ Answered("Flag", IF api.project THEN [r EXCEPT !.step = "resolve"]
                           ELSE Ended("Flag", "missing"))

\* The RolloutPolicies the rules name, from the cache, and the versions the
\* flag needs.
FlagResolveRollouts ==
    LET r == run["Flag"]
        policy == IF r.view.spec = "rollout" /\ cache["RolloutPolicy"].exists
                  THEN cache["RolloutPolicy"].gen ELSE 0
    IN
    /\ r.step = "resolve"
    /\ Continue("Flag",
                IF r.view.spec = "rollout" /\ policy = 0 THEN Ended("Flag", "invalid")
                ELSE [r EXCEPT !.step = "publish", !.policy = policy,
                               !.left = IF r.view.spec = "bindings" THEN EnvSeq
                                        ELSE <<AnyEnv>>])
    /\ UNCHANGED <<api, upsets>>

FlagPublish ==
    LET r == run["Flag"]
        env == Head(r.left)
        res == PublishOutcome(r.view, r.policy)
        next == [r EXCEPT !.left = Tail(@), !.got[AnyEnv] = r.view.gen]
    IN
    /\ r.step = "publish"
    /\ \/ /\ res = "ok"
          /\ Publish(r.view, r.policy, env)
          /\ Answered("Flag", IF next.left # <<>> THEN next
                              ELSE [next EXCEPT !.step = "status"])
       \/ /\ res # "ok"
          /\ Continue("Flag", Ended("Flag", res))
          /\ UNCHANGED <<api, upsets>>
       \/ /\ res = "ok" /\ api.published   \* another publish took the number
          /\ Upset("race")
          /\ Continue("Flag", Ended("Flag", "exists"))
          /\ UNCHANGED api

\* Mutant: nothing is published once the binding's own generation was.
BindingFetchFlagOnce ==
    LET r == run["FlagBinding"]
        s == status["FlagBinding"]
    IN
    /\ r.step = "fetch"
    /\ Continue("FlagBinding",
                CASE ~cache["Flag"].exists -> Ended("FlagBinding", "noFlag")
                  [] cache["Flag"].exists /\ s.observed = r.view.gen ->
                         [Ended("FlagBinding", "ok") EXCEPT !.got = s.claim]
                  [] OTHER -> [r EXCEPT !.step = "publish", !.flag = cache["Flag"],
                                        !.left = EnvSeq])
    /\ UNCHANGED <<api, upsets>>

\* The Flag the binding names, from the cache.
BindingFetchFlag ==
    LET r == run["FlagBinding"] IN
    /\ r.step = "fetch"
    /\ Continue("FlagBinding",
                IF cache["Flag"].exists
                THEN [r EXCEPT !.step = "publish", !.flag = cache["Flag"],
                               !.left = EnvSeq]
                ELSE Ended("FlagBinding", "noFlag"))
    /\ UNCHANGED <<api, upsets>>

\* One version per environment; the map of RolloutPolicies passed on is nil.
BindingPublish ==
    LET r == run["FlagBinding"]
        env == Head(r.left)
        res == PublishOutcome(r.flag, 0)
        Then(q) == IF Tail(q.left) # <<>> THEN [q EXCEPT !.left = Tail(@)]
                   ELSE [q EXCEPT !.left = <<>>, !.step = "status"]
    IN
    /\ r.step = "publish"
    /\ \/ /\ res = "ok"
          /\ Publish(r.flag, 0, env)
          /\ Answered("FlagBinding", Then([r EXCEPT !.got[env] = r.flag.gen]))
       \/ /\ res # "ok"
          /\ Continue("FlagBinding", Ended("FlagBinding", res))
          /\ UNCHANGED <<api, upsets>>
       \/ /\ res = "ok" /\ api.published   \* swallowed; no version recorded
          /\ Upset("race")
          /\ Continue("FlagBinding", Then(r))
          /\ UNCHANGED api

SnapshotLatest ==
    LET r == run["FlagSnapshot"] IN
    /\ r.step = "latest"
    /\ Continue("FlagSnapshot",
                IF api.snapshot = 0 THEN Ended("FlagSnapshot", "missing")
                ELSE [Ended("FlagSnapshot", "ok") EXCEPT
                          !.got[AnyEnv] = api.snapshot])
    /\ UNCHANGED <<api, upsets>>
-----------------------------------------------------------------------------
(***************************************************************************)
(* The end of a pass: the status of each kind, and its update.             *)
(***************************************************************************)

Succeeded(r) == translateError(r.res).status = "True"

BaseStatus(k, r) == WithResult(status[k], r.view.gen, r.res)

FlagStatus(r) ==
    IF Succeeded(r) /\ r.got[AnyEnv] > 0
    THEN [BaseStatus("Flag", r) EXCEPT !.claim[AnyEnv] = r.got[AnyEnv]]
    ELSE BaseStatus("Flag", r)

BindingStatus(r) ==
    LET base == BaseStatus("FlagBinding", r)
    IN  IF Succeeded(r)
        THEN [setCondition(base, "Extra", "True") EXCEPT !.claim = r.got]
        ELSE base

PolicyStatus(r) ==
    LET base == BaseStatus("RolloutPolicy", r)
    IN  setCondition(base, "Extra", IF Succeeded(r) THEN "True" ELSE "False")

SnapshotStatus(r) ==
    LET base == BaseStatus("FlagSnapshot", r)
    IN  IF Succeeded(r)
        THEN [setCondition(base, "Extra", "True") EXCEPT !.claim = r.got]
        ELSE setCondition(base, "Extra", "False")

NewStatus(k, r) ==
    CASE k = "Flag"          -> FlagStatus(r)
      [] k = "FlagBinding"   -> BindingStatus(r)
      [] k = "RolloutPolicy" -> PolicyStatus(r)
      [] k = "FlagSnapshot"  -> SnapshotStatus(r)
      [] OTHER               -> BaseStatus(k, r)

\* A write that changes nothing is no write.  LastSyncTime, set on success,
\* has a resolution of one second: the clock may or may not have moved on.  A
\* version that was just published has a new number.
Changes(k, r, tick) ==
    \/ NewStatus(k, r) # status[k]
    \/ Succeeded(r) /\ tick
    \/ Succeeded(r) /\ k # "FlagSnapshot" /\ \E e \in Slot : r.got[e] > 0

\* Status().Update: rejected when the copy is outdated, and then the CR is
\* requeued, except that the RolloutPolicy reconciler ignores the error when
\* the spec is invalid.
UpdateStatus(k) ==
    LET r == run[k]
        requeue == translateError(r.res).requeue
    IN
    /\ r.step = "status"
    /\ \/ /\ r.fresh
          /\ \E tick \in BOOLEAN :
                 cacheFresh' = [cacheFresh EXCEPT ![k] = @ /\ ~Changes(k, r, tick)]
          /\ status' = [status EXCEPT ![k] = NewStatus(k, r)]
          /\ Return(k, requeue)
       \/ /\ ~r.fresh
          /\ UNCHANGED <<status, cacheFresh>>
          /\ Return(k, requeue \/ k # "RolloutPolicy")
    /\ UNCHANGED <<deployed, obj, cache, dirty, api, upsets>>
-----------------------------------------------------------------------------
Sync(k) ==
    \/ k = "Project" /\ ProjectSync
    \/ k = "Environment" /\ EnvironmentSync
    \/ k = "Segment" /\ SegmentSync
    \/ k = "Flag" /\ (FlagEnsure \/ FlagResolveRollouts \/ FlagPublish)
    \/ k = "FlagBinding" /\ (BindingFetchFlag \/ BindingPublish)
    \/ k = "FlagSnapshot" /\ SnapshotLatest

Work(k) == Reconcile(k) \/ UpdateFinalizer(k) \/ Sync(k) \/ UpdateStatus(k)

Next ==
    \/ \E k \in Kind : Apply(k) \/ Delete(k) \/ Deliver(k)
    \/ \E k \in Kind : Work(k) \/ APIUnavailable(k)
    \/ OtherClient
    \/ Restart

\* The worker of a controller and the watch of its kind never stop for good.
Fairness == \A k \in Kind : WF_vars(Work(k)) /\ WF_vars(Deliver(k))

Spec == Init /\ [][Next]_vars /\ Fairness
-----------------------------------------------------------------------------
(***************************************************************************)
(* Properties.                                                             *)
(***************************************************************************)

\* A Flag or a Segment is never worked on after it is gone: the finalizer
\* keeps the object while a pass is under way, whatever the cache says.
NoWorkForDeleted ==
    \A k \in Finalized : run[k].step \notin {"idle", "removeFinalizer"} =>
        obj[k].exists \/ run[k].step = "addFinalizer"

\* Synced=True is never a false claim of existence: the row is upstream, and
\* for a Flag so is a version, even if a race was lost and AlreadyExists taken
\* as success.
SyncedMeansExists ==
    /\ status["Project"].synced = "True" => api.project
    /\ status["Environment"].synced = "True" => api.environment
    /\ status["Segment"].synced = "True" => api.segment
    /\ status["Flag"].synced = "True" => api.published
    /\ status["FlagBinding"].synced = "True" => api.published
    /\ status["FlagSnapshot"].synced = "True" => api.snapshot > 0

\* A status never goes back to an older generation, version or snapshot,
\* though passes run on stale copies of the CR, fail, and write only some of
\* its fields.
StatusNeverGoesBack ==
    [][\A k \in Kind :
        /\ status'[k].observed >= status[k].observed
        /\ \A e \in Slot :
               \/ status'[k].claim[e] >= status[k].claim[e]
               \/ k = "FlagBinding" /\ status'[k].claim[e] = 0]_vars

\* What the Flag needs is there: the project, its policy or its segment.
Applicable ==
    LET f == obj["Flag"] IN
    /\ f.exists /\ ~f.deleting /\ api.project
    /\ \/ f.spec \in {"plain", "bindings"}
       \/ f.spec = "rollout" /\ obj["RolloutPolicy"].exists
       \/ f.spec = "segment" /\ api.segment

\* The CR wins: a Flag that stays applicable, and that no pass has rejected as
\* invalid, is in the end what the newest version upstream says, and its status
\* names such a version.
FlagWins ==
    (<>[]Applicable /\ [](run["Flag"].res # "invalid")) =>
        <>[](/\ status["Flag"].observed = obj["Flag"].gen
             /\ status["Flag"].claim[AnyEnv] = obj["Flag"].gen
             /\ api.latest.gen = obj["Flag"].gen)

\* A FlagBinding does not watch its Flag, but unless a pass has met a Flag it
\* cannot translate, in the end the versions it has published for its
\* environments are all of the Flag's last generation.
BindingFollowsFlag ==
    (<>[](obj["FlagBinding"].exists /\ Applicable)
     /\ [](run["FlagBinding"].res # "invalid")) =>
        <>[](\A e \in Env : status["FlagBinding"].claim[e] = obj["Flag"].gen)

=============================================================================
