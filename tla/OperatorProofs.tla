--------------------------- MODULE OperatorProofs ---------------------------
(***************************************************************************)
(* Proofs about Operator, for every deployment, any number of generations  *)
(* and any number of upsets.                                               *)
(*                                                                         *)
(* The cache may be older than the stored CR by any number of writes, so   *)
(* what a reconcile knows is that the CR once was as its copy says.  The   *)
(* argument rests on two things that never happen: a deletion timestamp is *)
(* never taken back, and nobody but the worker of the kind itself removes  *)
(* the finalizer, which it does only on a copy that is being deleted.      *)
(*                                                                         *)
(* The second half is about the statuses.  A status is written only from a *)
(* fresh copy, so it observes the newest generation; what the API holds    *)
(* only grows, so what was there when a pass found it is there when its    *)
(* status says so; and the generation of the Flag in the cache only grows, *)
(* so what a FlagBinding publishes is none older than what it claims.      *)
(***************************************************************************)
EXTENDS Operator, TLAPS

\* Most leaves are first-order; the ones with records cite SMT.
USE Zenon

\* The steps of a pass that has got past the finalizer.
AtWork(k) == run[k].step \notin {"idle", "removeFinalizer", "addFinalizer"}

\* A copy that shows the finalizer and no deletion.
Guarded(cr) == cr.exists /\ cr.finalizer /\ ~cr.deleting

\* The fields of a run and of a CR that are read here.
Shaped(r) == {"step", "fresh"} \subseteq DOMAIN r

ShapedCR(o) == {"exists", "deleting", "finalizer"} \subseteq DOMAIN o

Shapes ==
    /\ DOMAIN obj = Kind /\ DOMAIN cache = Kind /\ DOMAIN run = Kind
    /\ \A k \in Kind : ShapedCR(obj[k]) /\ ShapedCR(cache[k]) /\ Shaped(run[k])

\* The finalizer invariant of one kind.
Held(k) ==
    /\ cache[k].deleting => obj[k].deleting
    /\ Guarded(cache[k]) => obj[k].exists /\ obj[k].finalizer
    /\ run[k].step = "removeFinalizer" => cache[k].deleting
    /\ AtWork(k) => obj[k].exists /\ obj[k].finalizer

IInv == Shapes /\ \A k \in Finalized : Held(k)

\* A step that neither writes nor delivers a CR and that moves no run, except
\* within a pass that is at work.
Quiet ==
    /\ UNCHANGED <<obj, cache>>
    /\ DOMAIN run' = Kind
    /\ \A k \in Kind :
           /\ Shaped(run'[k])
           /\ \/ run'[k].step = run[k].step
              \/ run'[k].step = "idle"
              \/ AtWork(k) /\ AtWork(k)'

\* Such a step keeps the invariant.
LEMMA QuietKeeps ==
    ASSUME IInv, Quiet
    PROVE  IInv'
<1>1. Shapes'
  BY DEF IInv, Shapes, Quiet
<1>2. ASSUME NEW k \in Finalized
      PROVE  Held(k)'
  <2>1. k \in Kind
    BY DEF Finalized, Kind
  <2>2. obj'[k] = obj[k] /\ cache'[k] = cache[k]
    BY DEF Quiet
  <2>3. run'[k].step = "removeFinalizer" => run[k].step = "removeFinalizer"
    BY <2>1 DEF Quiet, AtWork
  <2>4. AtWork(k)' => AtWork(k)
    BY <2>1 DEF Quiet, AtWork
  <2> QED
    BY <2>2, <2>3, <2>4 DEF IInv, Held, Guarded
<1> QED
  BY <1>1, <1>2 DEF IInv

\* Continuing a pass at work with a run of another such step is quiet.
LEMMA ContinueIsQuiet ==
    ASSUME Shapes, NEW k \in Kind, NEW r, Continue(k, r), Shaped(r), AtWork(k),
           r.step \notin {"idle", "removeFinalizer", "addFinalizer"}
    PROVE  Quiet
<1>1. DOMAIN run' = Kind /\ run'[k] = r /\ \A j \in Kind \ {k} : run'[j] = run[j]
  BY DEF Continue, Shapes
<1>2. AtWork(k)'
  BY <1>1 DEF AtWork
<1> QED
  BY <1>1, <1>2 DEF Quiet, Continue, Shapes

\* The end of the calls of a pass.
LEMMA EndedStep ==
    ASSUME Shapes, NEW k \in Kind, NEW res
    PROVE  Shaped(Ended(k, res)) /\ Ended(k, res).step = "status"
<1>1. Shaped(run[k])
  BY DEF Shapes
<1> QED
  BY SMT, <1>1 DEF Ended, Shaped

\* A call that was answered, or whose answer was lost.
LEMMA AnsweredIsQuiet ==
    ASSUME Shapes, NEW k \in Kind, NEW r, Answered(k, r), Shaped(r), AtWork(k),
           r.step \notin {"idle", "removeFinalizer", "addFinalizer"}
    PROVE  Quiet
  BY ContinueIsQuiet, EndedStep DEF Answered

\* Setting the step of a run, alone or with fields that are not read here.
LEMMA SetStep ==
    ASSUME NEW r, Shaped(r), NEW s
    PROVE  Shaped([r EXCEPT !.step = s]) /\ [r EXCEPT !.step = s].step = s
  BY SMT DEF Shaped
-----------------------------------------------------------------------------
(***************************************************************************)
(* The calls to the API.                                                   *)
(***************************************************************************)

\* A call of any reconciler keeps its pass at work.
LEMMA SyncIsQuiet ==
    ASSUME Shapes, NEW k \in Kind, Sync(k)
    PROVE  Quiet
<1> DEFINE r == run[k]
<1>0. Shaped(r)
  BY DEF Shapes
<1>1. CASE k = "Project" /\ ProjectSync
  <2>1. AtWork(k)
    BY <1>1 DEF ProjectSync, AtWork
  <2>2. CASE r.step = "get"
    <3>1. \/ Continue(k, Ended(k, "ok"))
          \/ Continue(k, [r EXCEPT !.step = "create"])
      BY <1>1, <2>2 DEF ProjectSync
    <3> QED
      BY <1>0, <2>1, <3>1, ContinueIsQuiet, EndedStep, SetStep
  <2>3. CASE r.step = "create"
    BY <1>1, <2>1, <2>3, AnsweredIsQuiet, EndedStep DEF ProjectSync
  <2> QED
    BY <1>1, <2>2, <2>3 DEF ProjectSync
<1>2. CASE k = "Environment" /\ EnvironmentSync
  <2>1. AtWork(k)
    BY <1>2 DEF EnvironmentSync, AtWork
  <2>2. CASE r.step = "get"
    <3>1. \/ Continue(k, Ended(k, "ok"))
          \/ Continue(k, [r EXCEPT !.step = "create"])
      BY <1>2, <2>2 DEF EnvironmentSync
    <3> QED
      BY <1>0, <2>1, <3>1, ContinueIsQuiet, EndedStep, SetStep
  <2>3. CASE r.step = "create"
    BY <1>2, <2>1, <2>3, AnsweredIsQuiet, EndedStep DEF EnvironmentSync
  <2> QED
    BY <1>2, <2>2, <2>3 DEF EnvironmentSync
<1>3. CASE k = "Segment" /\ SegmentSync
  <2>1. AtWork(k)
    BY <1>3 DEF SegmentSync, AtWork
  <2>2. CASE r.step = "get"
    <3>1. \/ Continue(k, Ended(k, "invalid"))
          \/ Continue(k, [r EXCEPT !.step = "update"])
          \/ Continue(k, [r EXCEPT !.step = "create"])
      BY <1>3, <2>2 DEF SegmentSync
    <3> QED
      BY <1>0, <2>1, <3>1, ContinueIsQuiet, EndedStep, SetStep
  <2>3. CASE r.step = "create" \/ r.step = "update"
    BY <1>3, <2>1, <2>3, AnsweredIsQuiet, EndedStep DEF SegmentSync
  <2> QED
    BY <1>3, <2>2, <2>3 DEF SegmentSync
<1>4. CASE k = "Flag" /\ FlagEnsure
  <2>1. AtWork(k)
    BY <1>4 DEF FlagEnsure, AtWork
  <2>2. CASE r.step = "get"
    <3>1. \/ Continue(k, [r EXCEPT !.step = "resolve"])
          \/ Continue(k, [r EXCEPT !.step = "create"])
      BY <1>4, <2>2 DEF FlagEnsure
    <3> QED
      BY <1>0, <2>1, <3>1, ContinueIsQuiet, SetStep
  <2>3. CASE r.step = "create"
    <3>1. \/ Answered(k, [r EXCEPT !.step = "resolve"])
          \/ Answered(k, Ended(k, "missing"))
      BY <1>4, <2>3 DEF FlagEnsure
    <3> QED
      BY <1>0, <2>1, <3>1, AnsweredIsQuiet, EndedStep, SetStep
  <2> QED
    BY <1>4, <2>2, <2>3 DEF FlagEnsure
<1>5. CASE k = "Flag" /\ FlagResolveRollouts
  <2>1. AtWork(k)
    BY <1>5 DEF FlagResolveRollouts, AtWork
  <2>2. \/ Continue(k, Ended(k, "invalid"))
        \/ \E p, l : Continue(k, [r EXCEPT !.step = "publish", !.policy = p, !.left = l])
    BY <1>5 DEF FlagResolveRollouts
  <2>3. ASSUME NEW p, NEW l,
               Continue(k, [r EXCEPT !.step = "publish", !.policy = p, !.left = l])
        PROVE  Quiet
    <3> DEFINE q == [r EXCEPT !.step = "publish", !.policy = p, !.left = l]
    <3>1. Shaped(q) /\ q.step = "publish"
      BY SMT, <1>0 DEF Shaped
    <3>2. Continue(k, q)
      BY <2>3
    <3> HIDE DEF q
    <3> QED
      BY <2>1, <3>1, <3>2, ContinueIsQuiet
  <2> QED
    BY <2>1, <2>2, <2>3, ContinueIsQuiet, EndedStep
<1>6. CASE k = "Flag" /\ FlagPublish
  <2>1. r.step = "publish" /\ AtWork(k)
    BY <1>6 DEF FlagPublish, AtWork
  <2> DEFINE next == [r EXCEPT !.left = Tail(@), !.got[AnyEnv] = r.view.gen]
  <2>2. Shaped(next) /\ next.step = "publish"
    BY SMT, <1>0, <2>1 DEF Shaped
  <2>3. \/ Answered(k, next)
        \/ Answered(k, [next EXCEPT !.step = "status"])
        \/ \E res : Continue(k, Ended(k, res))
    BY <1>6 DEF FlagPublish
  <2> HIDE DEF next
  <2> QED
    BY <2>1, <2>2, <2>3, AnsweredIsQuiet, ContinueIsQuiet, EndedStep, SetStep
<1>7. CASE k = "FlagBinding" /\ BindingFetchFlag
  <2>1. AtWork(k)
    BY <1>7 DEF BindingFetchFlag, AtWork
  <2>2. \/ Continue(k, Ended(k, "noFlag"))
        \/ \E f, l : Continue(k, [r EXCEPT !.step = "publish", !.flag = f, !.left = l])
    BY <1>7 DEF BindingFetchFlag
  <2>3. ASSUME NEW f, NEW l,
               Continue(k, [r EXCEPT !.step = "publish", !.flag = f, !.left = l])
        PROVE  Quiet
    <3> DEFINE q == [r EXCEPT !.step = "publish", !.flag = f, !.left = l]
    <3>1. Shaped(q) /\ q.step = "publish"
      BY SMT, <1>0 DEF Shaped
    <3>2. Continue(k, q)
      BY <2>3
    <3> HIDE DEF q
    <3> QED
      BY <2>1, <3>1, <3>2, ContinueIsQuiet
  <2> QED
    BY <2>1, <2>2, <2>3, ContinueIsQuiet, EndedStep
<1>8. CASE k = "FlagBinding" /\ BindingPublish
  <2> DEFINE Then(q) == IF Tail(q.left) # <<>> THEN [q EXCEPT !.left = Tail(@)]
                        ELSE [q EXCEPT !.left = <<>>, !.step = "status"]
             next == [r EXCEPT !.got[Head(r.left)] = r.flag.gen]
  <2>1. r.step = "publish" /\ AtWork(k)
    BY <1>8 DEF BindingPublish, AtWork
  <2>2. Shaped(next) /\ next.step = "publish"
    BY SMT, <1>0, <2>1 DEF Shaped
  <2>3. ASSUME NEW q, Shaped(q), q.step = "publish"
        PROVE  Shaped(Then(q)) /\ Then(q).step \in {"publish", "status"}
    <3>1. CASE Tail(q.left) # <<>>
      <4>1. Then(q) = [q EXCEPT !.left = Tail(q.left)]
        BY <3>1
      <4> QED
        BY SMT, <2>3, <4>1 DEF Shaped
    <3>2. CASE Tail(q.left) = <<>>
      <4>1. Then(q) = [q EXCEPT !.left = <<>>, !.step = "status"]
        BY <3>2
      <4> QED
        BY SMT, <2>3, <4>1 DEF Shaped
    <3> QED
      BY <3>1, <3>2
  <2>4. \/ Answered(k, Then(next))
        \/ \E res : Continue(k, Ended(k, res))
        \/ Continue(k, Then(r))
    BY <1>8 DEF BindingPublish
  <2>5. /\ Shaped(Then(next)) /\ Then(next).step \in {"publish", "status"}
        /\ Shaped(Then(r)) /\ Then(r).step \in {"publish", "status"}
    BY <1>0, <2>1, <2>2, <2>3
  <2> HIDE DEF next, Then
  <2> QED
    BY <2>1, <2>4, <2>5, AnsweredIsQuiet, ContinueIsQuiet, EndedStep
<1>9. CASE k = "FlagSnapshot" /\ SnapshotLatest
  <2>1. AtWork(k)
    BY <1>9 DEF SnapshotLatest, AtWork
  <2>2. \/ Continue(k, Ended(k, "missing"))
        \/ Continue(k, [Ended(k, "ok") EXCEPT !.got[AnyEnv] = api.snapshot])
    BY <1>9 DEF SnapshotLatest
  <2>3. LET q == [Ended(k, "ok") EXCEPT !.got[AnyEnv] = api.snapshot]
        IN  Shaped(q) /\ q.step = "status"
    BY SMT, EndedStep DEF Shaped
  <2> QED
    BY <2>1, <2>2, <2>3, ContinueIsQuiet, EndedStep
<1> QED
  BY <1>1, <1>2, <1>3, <1>4, <1>5, <1>6, <1>7, <1>8, <1>9 DEF Sync
-----------------------------------------------------------------------------
(***************************************************************************)
(* The other steps.                                                        *)
(***************************************************************************)

\* A write of a CR of another kind, or one that takes back neither deletion nor
\* finalizer and outdates the copy in use, keeps the invariant.
LEMMA StoreKeeps ==
    ASSUME IInv, NEW k \in Kind, NEW o, ShapedCR(o), Store(k, o), UNCHANGED cache,
           obj[k].deleting => o.deleting,
           obj[k].exists /\ obj[k].finalizer => o.exists /\ o.finalizer,
           DOMAIN run' = Kind,
           \A j \in Kind : Shaped(run'[j]) /\ run'[j].step \in {run[j].step, "idle"}
    PROVE  IInv'
<1>1. obj'[k] = o /\ \A j \in Kind \ {k} : obj'[j] = obj[j]
  BY DEF IInv, Shapes, Store
<1>2. DOMAIN obj' = Kind
  BY DEF IInv, Shapes, Store
<1>3. ASSUME NEW j \in Finalized
      PROVE  Held(j)'
  <2>1. j \in Kind
    BY DEF Finalized, Kind
  <2>2. /\ obj[j].deleting => obj'[j].deleting
        /\ obj[j].exists /\ obj[j].finalizer => obj'[j].exists /\ obj'[j].finalizer
    BY <1>1, <2>1
  <2>3. /\ AtWork(j)' => AtWork(j)
        /\ run'[j].step = "removeFinalizer" => run[j].step = "removeFinalizer"
    BY <2>1 DEF AtWork
  <2> QED
    BY <2>2, <2>3 DEF IInv, Held, Guarded
<1> QED
  BY <1>1, <1>2, <1>3 DEF IInv, Shapes

\* Outdating the copy in use leaves every run where it is.
LEMMA OutdateStep ==
    ASSUME Shapes, NEW k \in Kind, Outdate(k)
    PROVE  /\ DOMAIN run' = Kind
           /\ \A j \in Kind : Shaped(run'[j]) /\ run'[j].step = run[j].step
<1>1. /\ DOMAIN run' = Kind
      /\ run'[k] = [run[k] EXCEPT !.fresh = FALSE]
      /\ \A j \in Kind \ {k} : run'[j] = run[j]
  BY DEF Shapes, Outdate
<1>2. Shaped(run[k])
  BY DEF Shapes
<1>3. Shaped(run'[k]) /\ run'[k].step = run[k].step
  BY SMT, <1>1, <1>2 DEF Shaped
<1> QED
  BY <1>1, <1>3 DEF Shapes

\* kubectl apply.
LEMMA ApplyKeeps ==
    ASSUME IInv, NEW k \in Kind, Apply(k)
    PROVE  IInv'
<1> DEFINE o(s) == [obj[k] EXCEPT !.exists = TRUE, !.gen = @ + 1, !.spec = s]
<1>1. PICK s \in Specs(k) : Store(k, o(s))
  BY DEF Apply
<1>2. ShapedCR(obj[k])
  BY DEF IInv, Shapes
<1>3. /\ ShapedCR(o(s))
      /\ o(s).exists /\ o(s).deleting = obj[k].deleting
      /\ o(s).finalizer = obj[k].finalizer
  BY <1>2 DEF ShapedCR
<1>4. UNCHANGED cache /\ Outdate(k)
  BY DEF Apply
<1> HIDE DEF o
<1> QED
  BY <1>1, <1>3, <1>4, StoreKeeps, OutdateStep DEF IInv

\* kubectl delete: the finalizer keeps the CR.
LEMMA DeleteKeeps ==
    ASSUME IInv, NEW k \in Kind, Delete(k)
    PROVE  IInv'
<1> DEFINE o == [obj[k] EXCEPT !.exists = obj[k].finalizer, !.deleting = TRUE]
<1>1. Store(k, o) /\ UNCHANGED cache /\ Outdate(k)
  BY DEF Delete
<1>2. ShapedCR(obj[k])
  BY DEF IInv, Shapes
<1>3. /\ ShapedCR(o)
      /\ o.deleting /\ o.exists = obj[k].finalizer /\ o.finalizer = obj[k].finalizer
  BY <1>2 DEF ShapedCR
<1> HIDE DEF o
<1> QED
  BY <1>1, <1>3, StoreKeeps, OutdateStep DEF IInv

\* The watch: what is stored is never less guarded than what was cached.
LEMMA DeliverKeeps ==
    ASSUME IInv, NEW k \in Kind, Deliver(k)
    PROVE  IInv'
<1>1. /\ cache'[k] = obj[k] /\ \A j \in Kind \ {k} : cache'[j] = cache[j]
      /\ DOMAIN cache' = Kind
      /\ UNCHANGED <<obj, run>>
  BY DEF IInv, Shapes, Deliver
<1>2. ASSUME NEW j \in Finalized
      PROVE  Held(j)'
  <2>1. j \in Kind
    BY DEF Finalized, Kind
  <2> QED
    BY <1>1, <1>2, <2>1 DEF IInv, Held, Guarded, AtWork
<1> QED
  BY <1>1, <1>2 DEF IInv, Shapes

\* A restart drops every run.
LEMMA RestartKeeps ==
    ASSUME IInv, Restart
    PROVE  IInv'
<1>1. /\ \A k \in Kind : run'[k] = Idle
      /\ DOMAIN run' = Kind /\ cache' = obj /\ UNCHANGED obj
  BY DEF Restart
<1>2. Shaped(Idle) /\ Idle.step = "idle"
  BY SMT DEF Idle, Shaped
<1>3. ASSUME NEW k \in Finalized
      PROVE  Held(k)'
  <2>1. k \in Kind
    BY DEF Finalized, Kind
  <2> QED
    BY <1>1, <1>2, <2>1 DEF Held, Guarded, AtWork
<1> QED
  BY <1>1, <1>2, <1>3 DEF IInv, Shapes

\* Reconcile starts to work only on a copy that shows the finalizer.
LEMMA ReconcileKeeps ==
    ASSUME IInv, NEW k \in Kind, Reconcile(k)
    PROVE  IInv'
<1> DEFINE step == StepFor(k, cache[k])
           new == [Idle EXCEPT !.step = step, !.view = cache[k], !.fresh = cacheFresh[k],
                               !.res = FirstResult(k, cache[k])]
<1>1. /\ DOMAIN run' = Kind
      /\ run'[k] = IF step = "idle" THEN Idle ELSE new
      /\ \A j \in Kind \ {k} : run'[j] = run[j]
      /\ UNCHANGED <<obj, cache>>
  BY DEF IInv, Shapes, Reconcile
<1>2. Shaped(Idle) /\ Idle.step = "idle"
  BY SMT DEF Idle, Shaped
<1>3. Shaped(new) /\ new.step = step
  BY SMT DEF Idle, Shaped
<1> HIDE DEF new
<1>4. Shaped(run'[k]) /\ run'[k].step = step
  BY <1>1, <1>2, <1>3
<1>5. ASSUME k \in Finalized
      PROVE  Held(k)'
  <2>1. step = "removeFinalizer" => cache[k].deleting
    BY <1>5 DEF StepFor, FirstStep, Finalized
  <2>2. step \notin {"idle", "removeFinalizer", "addFinalizer"} => Guarded(cache[k])
    BY <1>5 DEF StepFor, Guarded
  <2> HIDE DEF step
  <2> QED
    BY <1>1, <1>4, <1>5, <2>1, <2>2 DEF IInv, Held, AtWork
<1>6. ASSUME NEW j \in Finalized, j # k
      PROVE  Held(j)'
  <2>1. j \in Kind
    BY DEF Finalized, Kind
  <2> QED
    BY <1>1, <1>6, <2>1 DEF IInv, Held, AtWork
<1>7. Shapes'
  BY <1>1, <1>4 DEF IInv, Shapes
<1> QED
  BY <1>5, <1>6, <1>7 DEF IInv

\* Return ends the pass of k.
LEMMA ReturnStep ==
    ASSUME Shapes, NEW k \in Kind, NEW requeue, Return(k, requeue)
    PROVE  /\ DOMAIN run' = Kind /\ run'[k].step = "idle"
           /\ \A j \in Kind \ {k} : run'[j] = run[j]
           /\ \A j \in Kind : Shaped(run'[j]) /\ run'[j].step \in {run[j].step, "idle"}
<1>1. /\ DOMAIN run' = Kind /\ run'[k] = Idle
      /\ \A j \in Kind \ {k} : run'[j] = run[j]
  BY DEF Shapes, Return
<1>2. Shaped(Idle) /\ Idle.step = "idle"
  BY SMT DEF Idle, Shaped
<1> QED
  BY <1>1, <1>2 DEF Shapes

\* The finalizer goes only when the cache, too, shows the deletion.
LEMMA UpdateFinalizerKeeps ==
    ASSUME IInv, NEW k \in Kind, UpdateFinalizer(k)
    PROVE  IInv'
<1>1. /\ DOMAIN run' = Kind /\ run'[k].step = "idle"
      /\ \A j \in Kind \ {k} : run'[j] = run[j]
      /\ \A j \in Kind : Shaped(run'[j]) /\ run'[j].step \in {run[j].step, "idle"}
  BY ReturnStep DEF IInv, UpdateFinalizer
<1>2. UNCHANGED cache /\ ShapedCR(obj[k])
  BY DEF IInv, Shapes, UpdateFinalizer
<1>3. CASE ~run[k].fresh
  <2>1. Quiet
    BY <1>1, <1>2, <1>3 DEF Quiet, UpdateFinalizer
  <2> QED
    BY <2>1, QuietKeeps
<1>4. CASE run[k].fresh /\ run[k].step = "addFinalizer"
  <2> DEFINE o == [obj[k] EXCEPT !.finalizer = TRUE]
  <2>1. Store(k, o)
    BY <1>4 DEF UpdateFinalizer
  <2>2. /\ ShapedCR(o) /\ o.finalizer
        /\ o.exists = obj[k].exists /\ o.deleting = obj[k].deleting
    BY <1>2 DEF ShapedCR
  <2> HIDE DEF o
  <2> QED
    BY <1>1, <1>2, <2>1, <2>2, StoreKeeps
<1>5. CASE run[k].fresh /\ run[k].step = "removeFinalizer"
  <2> DEFINE o == [obj[k] EXCEPT !.finalizer = FALSE, !.exists = FALSE]
  <2>1. Store(k, o)
    BY <1>5 DEF UpdateFinalizer
  <2>2. ShapedCR(o) /\ o.deleting = obj[k].deleting
    BY <1>2 DEF ShapedCR
  <2> HIDE DEF o
  <2>3. /\ obj'[k] = o /\ \A j \in Kind \ {k} : obj'[j] = obj[j]
        /\ DOMAIN obj' = Kind
    BY <2>1, <2>2 DEF IInv, Shapes, Store
  <2>4. ASSUME k \in Finalized
        PROVE  Held(k)'
    <3>1. cache[k].deleting
      BY <1>5, <2>4 DEF IInv, Held
    <3> QED
      BY <1>1, <1>2, <2>2, <2>3, <2>4, <3>1 DEF IInv, Held, Guarded, AtWork
  <2>5. ASSUME NEW j \in Finalized, j # k
        PROVE  Held(j)'
    <3>1. j \in Kind
      BY DEF Finalized, Kind
    <3> QED
      BY <1>1, <1>2, <2>3, <2>5, <3>1 DEF IInv, Held, Guarded, AtWork
  <2> QED
    BY <1>1, <1>2, <2>2, <2>3, <2>4, <2>5 DEF IInv, Shapes
<1> QED
  BY <1>3, <1>4, <1>5 DEF UpdateFinalizer

\* Every step keeps the invariant.
LEMMA NextIInv ==
    ASSUME IInv, [Next]_vars
    PROVE  IInv'
<1>1. CASE UNCHANGED vars
  BY <1>1, QuietKeeps DEF vars, Quiet, IInv, Shapes
<1>2. ASSUME NEW k \in Kind, Apply(k) \/ Delete(k) \/ Deliver(k)
      PROVE  IInv'
  BY <1>2, ApplyKeeps, DeleteKeeps, DeliverKeeps
<1>3. ASSUME NEW k \in Kind, Reconcile(k) \/ UpdateFinalizer(k)
      PROVE  IInv'
  BY <1>3, ReconcileKeeps, UpdateFinalizerKeeps
<1>4. ASSUME NEW k \in Kind, Sync(k)
      PROVE  IInv'
  BY <1>4, SyncIsQuiet, QuietKeeps DEF IInv
<1>5. ASSUME NEW k \in Kind, UpdateStatus(k)
      PROVE  IInv'
  <2>1. \E q : Return(k, q)
    BY <1>5 DEF UpdateStatus
  <2>2. Quiet
    BY <1>5, <2>1, ReturnStep DEF IInv, Quiet, UpdateStatus
  <2> QED
    BY <2>2, QuietKeeps
<1>6. ASSUME NEW k \in Kind, APIUnavailable(k)
      PROVE  IInv'
  <2>1. AtWork(k) /\ Continue(k, Ended(k, "error"))
    BY <1>6 DEF APIUnavailable, AtWork
  <2>2. Quiet
    BY <2>1, ContinueIsQuiet, EndedStep DEF IInv
  <2> QED
    BY <2>2, QuietKeeps
<1>7. CASE OtherClient
  BY <1>7, QuietKeeps DEF OtherClient, Quiet, IInv, Shapes
<1> QED
  BY <1>1, <1>2, <1>3, <1>4, <1>5, <1>6, <1>7, RestartKeeps DEF Next, Work

\* The finalizer does what it is for, for any number of generations, restarts
\* and failures and however far the cache lags behind: no pass calls the API
\* for a Flag or a Segment that is gone.
THEOREM FinalizerHolds == Spec => []NoWorkForDeleted
<1>1. Init => IInv
  <2> SUFFICES ASSUME Init
               PROVE  IInv
    OBVIOUS
  <2>1. ShapedCR(NoCR) /\ ~NoCR.exists /\ ~NoCR.deleting
    BY DEF NoCR, ShapedCR
  <2>2. Shaped(Idle) /\ Idle.step = "idle"
    BY SMT DEF Idle, Shaped
  <2>3. Shapes
    BY <2>1, <2>2 DEF Init, Shapes
  <2>4. ASSUME NEW k \in Finalized
        PROVE  Held(k)
    <3>1. k \in Kind
      BY DEF Finalized, Kind
    <3> QED
      BY <2>1, <2>2, <3>1 DEF Init, Held, Guarded, AtWork
  <2> QED
    BY <2>3, <2>4 DEF IInv
<1>2. IInv /\ [Next]_vars => IInv'
  BY NextIInv
<1>3. IInv => NoWorkForDeleted
  BY DEF IInv, Held, AtWork, NoWorkForDeleted
<1> QED
  BY <1>1, <1>2, <1>3, PTL DEF Spec
-----------------------------------------------------------------------------
(***************************************************************************)
(* What the API holds, and what a status says of it.                       *)
(***************************************************************************)

\* What Synced=True says of a CR of kind k.
There(k) ==
    /\ k = "Project" => api.project
    /\ k = "Environment" => api.environment
    /\ k = "Segment" => api.segment
    /\ k \in {"Flag", "FlagBinding"} => api.published
    /\ k = "FlagSnapshot" => api.snapshot > 0

\* Rows come with the rows they refer to.
ApiInv ==
    /\ api.environment \/ api.segment \/ api.flag => api.project
    /\ api.published => api.flag

\* The cache lags behind.
LagInv(k) ==
    /\ cache[k].gen <= obj[k].gen
    /\ cacheFresh[k] => cache[k] = obj[k]

\* What a pass knows: a copy that is fresh is the stored CR, and a pass that
\* ends well found or made what Synced=True will say.
PassInv(k) ==
    /\ run[k].fresh => run[k].view = obj[k]
    /\ run[k].step = "publish" => run[k].left # <<>>
    /\ run[k].step = "update" => api.segment
    /\ run[k].step = "status" /\ Succeeded(run[k]) => There(k)

StatusInv(k) ==
    /\ status[k].synced = "True" => There(k)
    /\ status[k].observed <= obj[k].gen

\* What a run of a Flag has published is of the generation it works on.
FlagRun(r) == r.got[AnyEnv] \in {0, r.view.gen}

\* A run of a FlagBinding publishes the generation of the Flag that it read from
\* the cache, which is none older than what the status claims.
BindingRun(r) ==
    /\ r.flag.gen <= cache["Flag"].gen
    /\ \A e \in Slot :
           /\ r.got[e] \in {0, r.flag.gen}
           /\ r.got[e] > 0 => status["FlagBinding"].claim[e] <= r.got[e]
           /\ r.step = "fetch" => r.got[e] = 0
           /\ r.step = "publish" => status["FlagBinding"].claim[e] <= r.flag.gen

\* A run of a FlagSnapshot names a snapshot that is stored, and if it ends well
\* none older than the one the status claims.
SnapshotRun(r) ==
    /\ r.got[AnyEnv] <= api.snapshot
    /\ r.step = "status" /\ Succeeded(r) =>
           status["FlagSnapshot"].claim[AnyEnv] <= r.got[AnyEnv]
    /\ \A e \in Env : r.got[e] = 0

RunClaims(k, r) ==
    /\ k = "Flag" => FlagRun(r)
    /\ k = "FlagBinding" => BindingRun(r)
    /\ k = "FlagSnapshot" => SnapshotRun(r)

\* What a status claims: generations of the Flag, generations of the Flag that
\* the cache has had, or the number of a stored snapshot.
ClaimInv ==
    /\ status["Flag"].claim[AnyEnv] <= obj["Flag"].gen
    /\ \A e \in Slot : status["FlagBinding"].claim[e] <= cache["Flag"].gen
    /\ status["FlagSnapshot"].claim[AnyEnv] <= api.snapshot
    /\ \A e \in Env : status["FlagSnapshot"].claim[e] = 0

SyncInv ==
    /\ TypeOK
    /\ ApiInv
    /\ \A k \in Kind :
           LagInv(k) /\ PassInv(k) /\ RunClaims(k, run[k]) /\ StatusInv(k)
    /\ ClaimInv
-----------------------------------------------------------------------------
(***************************************************************************)
(* Records.                                                                *)
(***************************************************************************)

\* The fields of a run.
LEMMA RunFields ==
    ASSUME NEW r \in Run
    PROVE  /\ r.step \in Step /\ r.view \in CR /\ r.fresh \in BOOLEAN
           /\ r.left \in Seq(Slot) /\ r.got \in [Slot -> Generation]
           /\ r.flag \in CR /\ r.policy \in Generation /\ r.res \in Outcome
  BY SMT DEF Run

\* The fields of a CR.
LEMMA CRFields ==
    ASSUME NEW o \in CR
    PROVE  /\ o.exists \in BOOLEAN /\ o.deleting \in BOOLEAN /\ o.finalizer \in BOOLEAN
           /\ o.gen \in Generation /\ o.spec \in FlagSpec
  BY SMT DEF CR

RunField == {"step", "view", "fresh", "left", "got", "flag", "policy", "res"}

\* Two records agree on the fields of F.
Same(r, q, F) == \A f \in F : q[f] = r[f]

\* The same run at another step.
LEMMA RunWithStep ==
    ASSUME NEW r \in Run, NEW v \in Step, NEW q, q = [r EXCEPT !.step = v]
    PROVE  q \in Run /\ q.step = v /\ Same(r, q, RunField \ {"step"})
  BY SMT DEF Run, Same, RunField

\* The same run with another result.
LEMMA RunWithRes ==
    ASSUME NEW r \in Run, NEW v \in Outcome, NEW q, q = [r EXCEPT !.res = v]
    PROVE  q \in Run /\ q.res = v /\ Same(r, q, RunField \ {"res"})
  BY SMT DEF Run, Same, RunField

\* The same run with another Flag read.
LEMMA RunWithFlag ==
    ASSUME NEW r \in Run, NEW v \in CR, NEW q, q = [r EXCEPT !.flag = v]
    PROVE  q \in Run /\ q.flag = v /\ Same(r, q, RunField \ {"flag"})
  BY SMT DEF Run, Same, RunField

\* The same run with another RolloutPolicy read.
LEMMA RunWithPolicy ==
    ASSUME NEW r \in Run, NEW v \in Generation, NEW q, q = [r EXCEPT !.policy = v]
    PROVE  q \in Run /\ q.policy = v /\ Same(r, q, RunField \ {"policy"})
  BY SMT DEF Run, Same, RunField

\* The same run with a copy outdated or not.
LEMMA RunWithFresh ==
    ASSUME NEW r \in Run, NEW v \in BOOLEAN, NEW q, q = [r EXCEPT !.fresh = v]
    PROVE  q \in Run /\ q.fresh = v /\ Same(r, q, RunField \ {"fresh"})
  BY SMT DEF Run, Same, RunField

\* The same run over another copy.
LEMMA RunWithView ==
    ASSUME NEW r \in Run, NEW v \in CR, NEW q, q = [r EXCEPT !.view = v]
    PROVE  q \in Run /\ q.view = v /\ Same(r, q, RunField \ {"view"})
  BY SMT DEF Run, Same, RunField

\* The same run with other environments left.
LEMMA RunWithLeft ==
    ASSUME NEW r \in Run, NEW v \in Seq(Slot), NEW q, q = [r EXCEPT !.left = v]
    PROVE  q \in Run /\ q.left = v /\ Same(r, q, RunField \ {"left"})
<1> DEFINE Left == Seq(Slot)
<1>1. Run = [step : Step, view : CR, fresh : BOOLEAN, left : Left,
             got : [Slot -> Generation], flag : CR, policy : Generation,
             res : Outcome]
  BY DEF Run
<1>2. v \in Left
  OBVIOUS
<1> HIDE DEF Left
<1> QED
  BY SMT, <1>1, <1>2 DEF Same, RunField

\* The same run with other versions published.
LEMMA RunWithGot ==
    ASSUME NEW r \in Run, NEW v \in [Slot -> Generation], NEW q, q = [r EXCEPT !.got = v]
    PROVE  q \in Run /\ q.got = v /\ Same(r, q, RunField \ {"got"})
  BY SMT DEF Run, Same, RunField

\* A worker between two passes.
LEMMA IdleFields ==
    /\ Idle \in Run /\ Idle.step = "idle" /\ Idle.fresh = FALSE /\ Idle.flag.gen = 0
    /\ NoCR \in CR /\ Idle.flag = NoCR /\ Idle.view = NoCR
    /\ \A e \in Slot : Idle.got[e] = 0
<1>1. NoCR \in CR /\ NoCR.gen = 0 /\ 0 \in Generation
  BY SMT, OperatorAssumption DEF NoCR, CR, FlagSpec, Generation
<1>2. [e \in Slot |-> 0] \in [Slot -> Generation] /\ <<>> \in Seq(Slot)
  BY SMT, <1>1
<1>3. Idle \in Run
  BY SMT, <1>1, <1>2 DEF Idle, Run, Step, Outcome
<1> QED
  BY SMT, <1>1, <1>3 DEF Idle

\* How a pass ends: Succeeded, or not.
LEMMA translateErrorFields ==
    ASSUME NEW res \in Outcome
    PROVE  /\ translateError(res).type \in {"Synced", "Ready"}
           /\ translateError(res).status \in {"True", "False"}
           /\ translateError(res).requeue \in BOOLEAN
           /\ translateError(res).status = "True" <=> res \in {"ok", "exists"}
           /\ translateError(res).status = "True" => translateError(res).type = "Synced"
<1>1. CASE res \in {"ok", "exists"}
  <2>1. translateError(res) = [type |-> "Synced", status |-> "True", requeue |-> TRUE]
    BY <1>1 DEF translateError
  <2>2. res \in {"ok", "exists"}
    BY <1>1
  <2> QED
    BY SMT, <2>1, <2>2
<1>2. CASE res \in {"conflict", "missing", "error"}
  <2>1. translateError(res) = [type |-> "Synced", status |-> "False", requeue |-> TRUE]
    BY <1>2 DEF translateError
  <2>2. res \notin {"ok", "exists"}
    BY <1>2
  <2> QED
    BY SMT, <2>1, <2>2
<1>3. CASE res = "invalid"
  <2>1. translateError(res) = [type |-> "Ready", status |-> "False", requeue |-> FALSE]
    BY <1>3 DEF translateError
  <2>2. res \notin {"ok", "exists"}
    BY <1>3
  <2> QED
    BY SMT, <2>1, <2>2
<1>4. CASE res = "noFlag"
  <2>1. translateError(res) = [type |-> "Ready", status |-> "False", requeue |-> TRUE]
    BY <1>4 DEF translateError
  <2>2. res \notin {"ok", "exists"}
    BY <1>4
  <2> QED
    BY SMT, <2>1, <2>2
<1> QED
  BY <1>1, <1>2, <1>3, <1>4 DEF Outcome

\* The end of the calls of a pass.
LEMMA EndedFields ==
    ASSUME TypeOK, NEW k \in Kind, NEW res \in Outcome, NEW q, q = Ended(k, res)
    PROVE  /\ q \in Run /\ q.step = "status" /\ q.res = res
           /\ Same(run[k], q, RunField \ {"step", "res"})
<1>1. run[k] \in Run /\ "status" \in Step
  BY DEF TypeOK, Step
<1>2. PICK r : r = run[k]
  OBVIOUS
<1>3. PICK p : p = [r EXCEPT !.step = "status"]
  OBVIOUS
<1>4. p \in Run /\ p.step = "status" /\ Same(r, p, RunField \ {"step"})
  BY <1>1, <1>2, <1>3, RunWithStep
<1>5. q = [p EXCEPT !.res = res]
  BY <1>2, <1>3 DEF Ended
<1>6. q \in Run /\ q.res = res /\ Same(p, q, RunField \ {"res"})
  BY <1>4, <1>5, RunWithRes
<1>7. q.step = p.step
  BY <1>6 DEF Same, RunField
<1> QED
  BY <1>2, <1>4, <1>6, <1>7 DEF Same
-----------------------------------------------------------------------------
(***************************************************************************)
(* What the API holds only grows.                                          *)
(***************************************************************************)

ApiField == {"project", "environment", "flag", "published", "latest", "segment",
             "segmentGen", "snapshot"}

\* The same API with or without the project.
LEMMA ApiWithProject ==
    ASSUME NEW a \in API, NEW v \in BOOLEAN, NEW b, b = [a EXCEPT !.project = v]
    PROVE  b \in API /\ b.project = v /\ Same(a, b, ApiField \ {"project"})
  BY SMT DEF API, Same, ApiField

\* The same API with or without the environment.
LEMMA ApiWithEnvironment ==
    ASSUME NEW a \in API, NEW v \in BOOLEAN, NEW b, b = [a EXCEPT !.environment = v]
    PROVE  b \in API /\ b.environment = v /\ Same(a, b, ApiField \ {"environment"})
  BY SMT DEF API, Same, ApiField

\* The same API with or without the flag.
LEMMA ApiWithFlag ==
    ASSUME NEW a \in API, NEW v \in BOOLEAN, NEW b, b = [a EXCEPT !.flag = v]
    PROVE  b \in API /\ b.flag = v /\ Same(a, b, ApiField \ {"flag"})
  BY SMT DEF API, Same, ApiField

\* The same API with or without a version.
LEMMA ApiWithPublished ==
    ASSUME NEW a \in API, NEW v \in BOOLEAN, NEW b, b = [a EXCEPT !.published = v]
    PROVE  b \in API /\ b.published = v /\ Same(a, b, ApiField \ {"published"})
  BY SMT DEF API, Same, ApiField

\* The same API with another newest version.
LEMMA ApiWithLatest ==
    ASSUME NEW a \in API, NEW v \in Tree, NEW b, b = [a EXCEPT !.latest = v]
    PROVE  b \in API /\ b.latest = v /\ Same(a, b, ApiField \ {"latest"})
  BY SMT DEF API, Same, ApiField

\* The same API with or without the segment.
LEMMA ApiWithSegment ==
    ASSUME NEW a \in API, NEW v \in BOOLEAN, NEW b, b = [a EXCEPT !.segment = v]
    PROVE  b \in API /\ b.segment = v /\ Same(a, b, ApiField \ {"segment"})
  BY SMT DEF API, Same, ApiField

\* The same API with another predicate of the segment.
LEMMA ApiWithSegmentGen ==
    ASSUME NEW a \in API, NEW v \in Generation, NEW b, b = [a EXCEPT !.segmentGen = v]
    PROVE  b \in API /\ b.segmentGen = v /\ Same(a, b, ApiField \ {"segmentGen"})
  BY SMT DEF API, Same, ApiField

\* The same API with another newest snapshot.
LEMMA ApiWithSnapshot ==
    ASSUME NEW a \in API, NEW v \in Generation, NEW b, b = [a EXCEPT !.snapshot = v]
    PROVE  b \in API /\ b.snapshot = v /\ Same(a, b, ApiField \ {"snapshot"})
  BY SMT DEF API, Same, ApiField

\* The fields of the API.
LEMMA ApiFields ==
    ASSUME NEW a \in API
    PROVE  /\ a.project \in BOOLEAN /\ a.environment \in BOOLEAN /\ a.flag \in BOOLEAN
           /\ a.published \in BOOLEAN /\ a.latest \in Tree /\ a.segment \in BOOLEAN
           /\ a.segmentGen \in Generation /\ a.snapshot \in Generation
  BY SMT DEF API

ApiGrows ==
    /\ api.project => api'.project
    /\ api.environment => api'.environment
    /\ api.flag => api'.flag
    /\ api.published => api'.published
    /\ api.segment => api'.segment
    /\ api.snapshot <= api'.snapshot

\* A step of anyone, as the API sees it.
ApiStep == api' \in API /\ ApiInv' /\ ApiGrows

\* A call that changes nothing.
LEMMA ApiUnchanged ==
    ASSUME api \in API, ApiInv, UNCHANGED api
    PROVE  ApiStep
<1>1. api.snapshot <= api.snapshot
  BY SMT, ApiFields DEF Generation
<1> QED
  BY <1>1 DEF ApiStep, ApiInv, ApiGrows

\* A write that leaves the other rows alone.
LEMMA ApiSame ==
    ASSUME NEW F, Same(api, api', F)
    PROVE  /\ "project" \in F => api'.project = api.project
           /\ "environment" \in F => api'.environment = api.environment
           /\ "flag" \in F => api'.flag = api.flag
           /\ "published" \in F => api'.published = api.published
           /\ "segment" \in F => api'.segment = api.segment
           /\ "snapshot" \in F => api'.snapshot = api.snapshot
  BY DEF Same

\* Someone makes the project.
LEMMA ProjectMade ==
    ASSUME api \in API, ApiInv, api' = [api EXCEPT !.project = TRUE]
    PROVE  ApiStep /\ api'.project
<1>1. api' \in API /\ api'.project = TRUE /\ Same(api, api', ApiField \ {"project"})
  BY ApiWithProject
<1>2. api.snapshot <= api.snapshot
  BY SMT, ApiFields DEF Generation
<1> QED
  BY <1>1, <1>2, ApiSame DEF ApiField, ApiStep, ApiInv, ApiGrows

\* CreateEnvironment.
LEMMA EnvironmentMade ==
    ASSUME api \in API, ApiInv, api' = [api EXCEPT !.environment = api.project]
    PROVE  ApiStep /\ api'.environment = api.project
<1>1. /\ api' \in API /\ api'.environment = api.project
      /\ Same(api, api', ApiField \ {"environment"})
  BY ApiWithEnvironment, ApiFields
<1>2. api.snapshot <= api.snapshot
  BY SMT, ApiFields DEF Generation
<1> QED
  BY <1>1, <1>2, ApiSame DEF ApiField, ApiStep, ApiInv, ApiGrows

\* CreateFlag.
LEMMA FlagMade ==
    ASSUME api \in API, ApiInv, api' = [api EXCEPT !.flag = api.project]
    PROVE  ApiStep
<1>1. api' \in API /\ api'.flag = api.project /\ Same(api, api', ApiField \ {"flag"})
  BY ApiWithFlag, ApiFields
<1>2. api.snapshot <= api.snapshot
  BY SMT, ApiFields DEF Generation
<1> QED
  BY <1>1, <1>2, ApiSame DEF ApiField, ApiStep, ApiInv, ApiGrows

\* UpdateSegment.
LEMMA SegmentUpdated ==
    ASSUME api \in API, ApiInv, NEW g \in Generation,
           api' = [api EXCEPT !.segmentGen = g]
    PROVE  ApiStep /\ api'.segment = api.segment
<1>1. api' \in API /\ Same(api, api', ApiField \ {"segmentGen"})
  BY ApiWithSegmentGen
<1>2. api.snapshot <= api.snapshot
  BY SMT, ApiFields DEF Generation
<1>3. /\ api'.project = api.project /\ api'.environment = api.environment
      /\ api'.flag = api.flag /\ api'.published = api.published
      /\ api'.segment = api.segment /\ api'.snapshot = api.snapshot
  BY <1>1, ApiSame DEF ApiField
<1> QED
  BY <1>1, <1>2, <1>3 DEF ApiStep, ApiInv, ApiGrows

\* CreateSegment, in a project that exists or not.
LEMMA SegmentMade ==
    ASSUME api \in API, ApiInv, NEW b \in BOOLEAN, b => api.project, api.segment => b,
           NEW g \in Generation, api' = [api EXCEPT !.segment = b, !.segmentGen = g]
    PROVE  ApiStep /\ api'.segment = b
<1>1. PICK a : a = [api EXCEPT !.segment = b]
  OBVIOUS
<1>2. a \in API /\ a.segment = b /\ Same(api, a, ApiField \ {"segment"})
  BY <1>1, ApiWithSegment
<1>3. api' = [a EXCEPT !.segmentGen = g]
  BY <1>1
<1>4. api' \in API /\ Same(a, api', ApiField \ {"segmentGen"})
  BY <1>2, <1>3, ApiWithSegmentGen
<1>5. api'.segment = b
  BY <1>2, <1>4 DEF Same, ApiField
<1>6. Same(api, api', ApiField \ {"segment", "segmentGen"})
  BY <1>2, <1>4 DEF Same
<1>7. api.snapshot <= api.snapshot
  BY SMT, ApiFields DEF Generation
<1> QED
  BY <1>4, <1>5, <1>6, <1>7, ApiSame DEF ApiField, ApiStep, ApiInv, ApiGrows

\* PublishFlagVersion, of a flag that exists.
LEMMA VersionMade ==
    ASSUME api \in API, ApiInv, api.flag, NEW t \in Tree,
           api' = [api EXCEPT !.published = TRUE, !.latest = t]
    PROVE  ApiStep /\ api'.published
<1>1. PICK a : a = [api EXCEPT !.published = TRUE]
  OBVIOUS
<1>2. a \in API /\ a.published = TRUE /\ Same(api, a, ApiField \ {"published"})
  BY <1>1, ApiWithPublished
<1>3. api' = [a EXCEPT !.latest = t]
  BY <1>1
<1>4. api' \in API /\ Same(a, api', ApiField \ {"latest"})
  BY <1>2, <1>3, ApiWithLatest
<1>5. api'.published
  BY <1>2, <1>4 DEF Same, ApiField
<1>6. Same(api, api', ApiField \ {"published", "latest"})
  BY <1>2, <1>4 DEF Same
<1>7. api.snapshot <= api.snapshot
  BY SMT, ApiFields DEF Generation
<1>8. /\ api'.project = api.project /\ api'.environment = api.environment
      /\ api'.flag = api.flag /\ api'.segment = api.segment
      /\ api'.snapshot = api.snapshot
  BY <1>6 DEF Same, ApiField
<1> QED
  BY <1>4, <1>5, <1>7, <1>8 DEF ApiStep, ApiInv, ApiGrows
-----------------------------------------------------------------------------
(***************************************************************************)
(* A call to the API of the pass of one kind.                              *)
(***************************************************************************)

\* What such a call makes of the run of kind k.
Follows(k, q) ==
    /\ q \in Run
    /\ q.view = run[k].view /\ q.fresh = run[k].fresh
    /\ q.step = "publish" => q.left # <<>>
    /\ q.step = "update" => api.segment
    /\ q.step = "status" /\ Succeeded(q) => There(k)'
    /\ RunClaims(k, q)

\* The fields of a status.
LEMMA StatusFields ==
    ASSUME NEW s \in Status
    PROVE  /\ s.synced \in Bool3 /\ s.ready \in Bool3 /\ s.extra \in Bool3
           /\ s.observed \in Generation /\ s.claim \in [Slot -> Generation]
  BY SMT DEF Status

\* What exists goes on existing.
LEMMA ThereStays ==
    ASSUME ApiStep, api \in API, NEW k, There(k)
    PROVE  There(k)'
<1>1. api.snapshot > 0 => api'.snapshot > 0
  BY SMT, ApiFields DEF ApiStep, ApiGrows, Generation
<1> QED
  BY <1>1 DEF There, ApiStep, ApiGrows

\* What a run has to claim does not depend on what is added to the API.
LEMMA RunClaimsStay ==
    ASSUME ApiStep, api \in API, UNCHANGED <<status, cache>>,
           NEW k, NEW q \in Run, RunClaims(k, q)
    PROVE  RunClaims(k, q)'
<1>1. q.got[AnyEnv] <= api.snapshot => q.got[AnyEnv] <= api'.snapshot
  <2>1. q.got[AnyEnv] \in Generation
    BY RunFields DEF Slot
  <2> QED
    BY SMT, <2>1, ApiFields DEF ApiStep, ApiGrows, Generation
<1>2. k = "FlagSnapshot" => SnapshotRun(q)'
  BY <1>1 DEF RunClaims, SnapshotRun
<1>3. k = "FlagBinding" => BindingRun(q)'
  BY DEF RunClaims, BindingRun
<1>4. k = "Flag" => FlagRun(q)'
  BY DEF RunClaims, FlagRun
<1> QED
  BY <1>2, <1>3, <1>4 DEF RunClaims

\* A call keeps the invariant.
LEMMA ContinueKeeps ==
    ASSUME SyncInv, NEW k \in Kind, NEW q, Continue(k, q), Follows(k, q), ApiStep,
           upsets' \in 0 .. MaxUpsets
    PROVE  SyncInv'
<1>1. /\ TypeOK /\ api \in API /\ run \in [Kind -> Run]
      /\ UNCHANGED <<deployed, obj, status, cache, cacheFresh, dirty, timer>>
  BY DEF SyncInv, TypeOK, Continue
<1>2. q \in Run
  BY DEF Follows
<1>3. run' \in [Kind -> Run] /\ run'[k] = q /\ \A j \in Kind \ {k} : run'[j] = run[j]
  BY <1>1, <1>2 DEF Continue
<1>4. TypeOK'
  BY <1>1, <1>3 DEF TypeOK, ApiStep
<1>5. ASSUME NEW j \in Kind
      PROVE  LagInv(j)' /\ StatusInv(j)'
  BY <1>1, ThereStays DEF SyncInv, LagInv, StatusInv
<1>6. ASSUME NEW j \in Kind
      PROVE  PassInv(j)' /\ RunClaims(j, run[j])'
  <2>1. CASE j = k
    <3>1. PassInv(k)'
      BY <1>1, <1>3 DEF Follows, PassInv, SyncInv, ApiStep, ApiGrows
    <3>2. RunClaims(k, q)'
      BY <1>1, <1>2, RunClaimsStay DEF Follows
    <3> QED
      BY <1>3, <2>1, <3>1, <3>2 DEF RunClaims, FlagRun, BindingRun, SnapshotRun, Succeeded
  <2>2. CASE j # k
    <3>1. run'[j] = run[j] /\ run[j] \in Run
      BY <1>1, <1>3, <2>2
    <3>2. PassInv(j)'
      BY <1>1, <3>1, ThereStays DEF PassInv, SyncInv, ApiStep, ApiGrows
    <3>3. PICK p : p = run[j]
      OBVIOUS
    <3>4. RunClaims(j, p)'
      BY <1>1, <3>1, <3>3, RunClaimsStay DEF SyncInv
    <3> QED
      BY <3>1, <3>2, <3>3, <3>4
         DEF RunClaims, FlagRun, BindingRun, SnapshotRun, Succeeded
  <2> QED
    BY <2>1, <2>2
<1>7. ClaimInv'
  <2>1. status["FlagSnapshot"].claim[AnyEnv] <= api'.snapshot
    <3>1. status["FlagSnapshot"].claim[AnyEnv] \in Generation
      BY <1>1, StatusFields DEF TypeOK, Kind, Slot
    <3> QED
      BY SMT, <1>1, <3>1, ApiFields
         DEF SyncInv, ClaimInv, ApiStep, ApiGrows, Generation
  <2> QED
    BY <1>1, <2>1 DEF SyncInv, ClaimInv
<1> QED
  BY <1>4, <1>5, <1>6, <1>7 DEF SyncInv, ApiStep

\* Something goes wrong, within the bound.
LEMMA UpsetType ==
    ASSUME upsets \in 0 .. MaxUpsets
    PROVE  /\ \A u : Upset(u) => upsets' \in 0 .. MaxUpsets
           /\ UNCHANGED upsets => upsets' \in 0 .. MaxUpsets
<1>1. upsets < MaxUpsets /\ upsets' = upsets + 1 => upsets' \in 0 .. MaxUpsets
  BY SMT, OperatorAssumption
<1> QED
  BY <1>1 DEF Upset

\* A pass ends, with success only where the row is there.
LEMMA EndedFollows ==
    ASSUME SyncInv, NEW k \in Kind, NEW res \in Outcome,
           res \in {"ok", "exists"} => There(k)' /\ k # "FlagSnapshot",
           NEW q, q = Ended(k, res)
    PROVE  Follows(k, q)
<1>1. TypeOK /\ run[k] \in Run /\ RunClaims(k, run[k])
  BY DEF SyncInv, TypeOK
<1>2. /\ q \in Run /\ q.step = "status" /\ q.res = res
      /\ Same(run[k], q, RunField \ {"step", "res"})
  BY SMT, <1>1, EndedFields
<1>3. q.view = run[k].view /\ q.fresh = run[k].fresh /\ q.got = run[k].got /\ q.flag = run[k].flag
  BY <1>2 DEF Same, RunField
<1>4. Succeeded(q) => res \in {"ok", "exists"}
  BY <1>2, translateErrorFields DEF Succeeded
<1>5. k = "Flag" => FlagRun(q)
  BY <1>1, <1>3 DEF RunClaims, FlagRun
<1>6. k = "FlagBinding" => BindingRun(q)
  BY <1>1, <1>2, <1>3 DEF RunClaims, BindingRun
<1>7. k = "FlagSnapshot" => SnapshotRun(q)
  BY <1>1, <1>3, <1>4 DEF RunClaims, SnapshotRun
<1> QED
  BY <1>2, <1>3, <1>4, <1>5, <1>6, <1>7 DEF Follows, RunClaims

\* A call that was answered, or whose answer was lost.
LEMMA AnsweredKeeps ==
    ASSUME SyncInv, NEW k \in Kind, NEW q, Answered(k, q), Follows(k, q), ApiStep
    PROVE  SyncInv'
<1>1. upsets \in 0 .. MaxUpsets
  BY DEF SyncInv, TypeOK
<1>2. CASE Continue(k, q) /\ UNCHANGED upsets
  BY <1>1, <1>2, UpsetType, ContinueKeeps
<1>3. CASE Continue(k, Ended(k, "error")) /\ Upset("lost")
  <2>1. PICK p : p = Ended(k, "error")
    OBVIOUS
  <2>2. Follows(k, p)
    BY <2>1, EndedFollows DEF Outcome
  <2>3. Continue(k, p) /\ upsets' \in 0 .. MaxUpsets
    BY <1>1, <1>3, <2>1, UpsetType
  <2> QED
    BY <2>2, <2>3, ContinueKeeps
<1> QED
  BY <1>2, <1>3 DEF Answered

\* A step that only reads.
LEMMA ReadKeeps ==
    ASSUME SyncInv, NEW k \in Kind, NEW q, Continue(k, q), UNCHANGED <<api, upsets>>,
           Follows(k, q)
    PROVE  SyncInv'
<1>1. ApiStep /\ upsets' \in 0 .. MaxUpsets
  BY ApiUnchanged, UpsetType DEF SyncInv, TypeOK
<1> QED
  BY <1>1, ContinueKeeps

\* A pass goes on to a step where nothing is claimed yet.
LEMMA StepFollows ==
    ASSUME SyncInv, NEW k \in Kind, NEW s \in Step, s \notin {"publish", "status", "fetch"},
           s = "update" => api.segment, NEW q, q = [run[k] EXCEPT !.step = s]
    PROVE  Follows(k, q)
<1>1. run[k] \in Run /\ RunClaims(k, run[k])
  BY DEF SyncInv, TypeOK
<1>2. q \in Run /\ q.step = s /\ Same(run[k], q, RunField \ {"step"})
  BY <1>1, RunWithStep
<1>3. q.view = run[k].view /\ q.fresh = run[k].fresh /\ q.got = run[k].got /\ q.flag = run[k].flag
  BY <1>2 DEF Same, RunField
<1>4. k = "Flag" => FlagRun(q)
  BY <1>1, <1>3 DEF RunClaims, FlagRun
<1>5. k = "FlagBinding" => BindingRun(q)
  BY <1>1, <1>2, <1>3 DEF RunClaims, BindingRun
<1>6. k = "FlagSnapshot" => SnapshotRun(q)
  BY <1>1, <1>2, <1>3 DEF RunClaims, SnapshotRun
<1> QED
  BY <1>2, <1>3, <1>4, <1>5, <1>6 DEF Follows, RunClaims
-----------------------------------------------------------------------------
(***************************************************************************)
(* One lemma per reconciler.                                               *)
(***************************************************************************)

\* The Project reconciler: GetProject, CreateProject.
LEMMA ProjectSyncKeeps ==
    ASSUME SyncInv, ProjectSync
    PROVE  SyncInv'
<1> DEFINE k == "Project"
<1>1. k \in Kind /\ api \in API /\ ApiInv
  BY DEF Kind, SyncInv, TypeOK
<1>2. CASE run[k].step = "get" /\ UNCHANGED <<api, upsets>>
  <2>1. CASE api.project /\ Continue(k, Ended(k, "ok"))
    <3>1. PICK q : q = Ended(k, "ok")
      OBVIOUS
    <3>2. There(k)'
      BY <1>2, <2>1 DEF There
    <3>3. Follows(k, q)
      BY <1>1, <3>1, <3>2, EndedFollows DEF Outcome
    <3> QED
      BY <1>1, <1>2, <2>1, <3>1, <3>3, ReadKeeps
  <2>2. CASE Continue(k, [run[k] EXCEPT !.step = "create"])
    <3>1. PICK q : q = [run[k] EXCEPT !.step = "create"]
      OBVIOUS
    <3>2. Follows(k, q)
      BY <1>1, <3>1, StepFollows DEF Step
    <3> QED
      BY <1>1, <1>2, <2>2, <3>1, <3>2, ReadKeeps
  <2> QED
    BY <1>2, <2>1, <2>2 DEF ProjectSync
<1>3. CASE /\ run[k].step = "create"
           /\ api' = [api EXCEPT !.project = TRUE]
           /\ Answered(k, Ended(k, "ok"))
  <2>1. ApiStep /\ There(k)'
    BY <1>1, <1>3, ProjectMade DEF There
  <2>2. PICK q : q = Ended(k, "ok")
    OBVIOUS
  <2>3. Follows(k, q)
    BY <1>1, <2>1, <2>2, EndedFollows DEF Outcome
  <2> QED
    BY <1>1, <1>3, <2>1, <2>2, <2>3, AnsweredKeeps
<1> QED
  BY <1>2, <1>3 DEF ProjectSync

\* The Environment reconciler: GetEnvironment, CreateEnvironment.
LEMMA EnvironmentSyncKeeps ==
    ASSUME SyncInv, EnvironmentSync
    PROVE  SyncInv'
<1> DEFINE k == "Environment"
<1>1. k \in Kind /\ api \in API /\ ApiInv
  BY DEF Kind, SyncInv, TypeOK
<1>2. CASE run[k].step = "get" /\ UNCHANGED <<api, upsets>>
  <2>1. CASE api.environment /\ Continue(k, Ended(k, "ok"))
    <3>1. PICK q : q = Ended(k, "ok")
      OBVIOUS
    <3>2. There(k)'
      BY <1>2, <2>1 DEF There
    <3>3. Follows(k, q)
      BY <1>1, <3>1, <3>2, EndedFollows DEF Outcome
    <3> QED
      BY <1>1, <1>2, <2>1, <3>1, <3>3, ReadKeeps
  <2>2. CASE Continue(k, [run[k] EXCEPT !.step = "create"])
    <3>1. PICK q : q = [run[k] EXCEPT !.step = "create"]
      OBVIOUS
    <3>2. Follows(k, q)
      BY <1>1, <3>1, StepFollows DEF Step
    <3> QED
      BY <1>1, <1>2, <2>2, <3>1, <3>2, ReadKeeps
  <2> QED
    BY <1>2, <2>1, <2>2 DEF EnvironmentSync
<1>3. CASE /\ run[k].step = "create"
           /\ api' = [api EXCEPT !.environment = api.project]
           /\ Answered(k, Ended(k, IF api.project THEN "ok" ELSE "missing"))
  <2>1. ApiStep /\ api'.environment = api.project
    BY <1>1, <1>3, EnvironmentMade
  <2>2. PICK res : res = IF api.project THEN "ok" ELSE "missing"
    OBVIOUS
  <2>3. res \in Outcome /\ (res \in {"ok", "exists"} => There(k)')
    BY <2>1, <2>2 DEF Outcome, There
  <2>4. PICK q : q = Ended(k, res)
    OBVIOUS
  <2>5. Follows(k, q)
    BY <1>1, <2>3, <2>4, EndedFollows
  <2> QED
    BY <1>1, <1>3, <2>1, <2>2, <2>4, <2>5, AnsweredKeeps
<1> QED
  BY <1>2, <1>3 DEF EnvironmentSync

\* The Segment reconciler: GetSegment, UpdateSegment or CreateSegment.
LEMMA SegmentSyncKeeps ==
    ASSUME SyncInv, SegmentSync
    PROVE  SyncInv'
<1> DEFINE k == "Segment"
<1>1. /\ k \in Kind /\ api \in API /\ ApiInv /\ run[k].view.gen \in Generation
      /\ api.segmentGen \in Generation
  <2>1. k \in Kind /\ api \in API /\ ApiInv /\ run[k] \in Run
    BY DEF Kind, SyncInv, TypeOK
  <2> QED
    BY <2>1, RunFields, CRFields, ApiFields
<1>2. CASE run[k].step = "get" /\ UNCHANGED <<api, upsets>>
  <2>1. CASE Continue(k, Ended(k, "invalid"))
    <3>1. PICK q : q = Ended(k, "invalid")
      OBVIOUS
    <3>2. Follows(k, q)
      BY <1>1, <3>1, EndedFollows DEF Outcome
    <3> QED
      BY <1>1, <1>2, <2>1, <3>1, <3>2, ReadKeeps
  <2>2. CASE Continue(k, [run[k] EXCEPT !.step = IF api.segment THEN "update"
                                                 ELSE "create"])
    <3>1. PICK s : s = IF api.segment THEN "update" ELSE "create"
      OBVIOUS
    <3>2. PICK q : q = [run[k] EXCEPT !.step = s]
      OBVIOUS
    <3>3. s \in {"update", "create"} /\ (s = "update" => api.segment)
      BY <3>1
    <3>4. Follows(k, q)
      BY <1>1, <3>2, <3>3, StepFollows DEF Step
    <3> QED
      BY <1>1, <1>2, <2>2, <3>1, <3>2, <3>4, ReadKeeps
  <2> QED
    BY <1>2, <2>1, <2>2 DEF SegmentSync
<1>3. CASE /\ run[k].step = "update"
           /\ api' = [api EXCEPT !.segmentGen = run[k].view.gen]
           /\ Answered(k, Ended(k, "ok"))
  <2>1. ApiStep /\ api'.segment = api.segment
    BY <1>1, <1>3, SegmentUpdated
  <2>2. There(k)'
    BY <1>1, <1>3, <2>1 DEF There, SyncInv, PassInv
  <2>3. PICK q : q = Ended(k, "ok")
    OBVIOUS
  <2>4. Follows(k, q)
    BY <1>1, <2>2, <2>3, EndedFollows DEF Outcome
  <2> QED
    BY <1>1, <1>3, <2>1, <2>3, <2>4, AnsweredKeeps
<1>4. CASE /\ run[k].step = "create"
           /\ api' = [api EXCEPT !.segment = api.project,
                                 !.segmentGen = IF api.project /\ ~api.segment
                                                THEN run[k].view.gen ELSE @]
           /\ Answered(k, Ended(k, IF api.project THEN "ok" ELSE "missing"))
  <2>1. PICK g : g = IF api.project /\ ~api.segment THEN run[k].view.gen
                     ELSE api.segmentGen
    OBVIOUS
  <2>2. g \in Generation
    BY <1>1, <2>1
  <2>3. api' = [api EXCEPT !.segment = api.project, !.segmentGen = g]
    BY <1>4, <2>1
  <2>4. ApiStep /\ api'.segment = api.project
    BY <1>1, <2>2, <2>3, SegmentMade, ApiFields DEF ApiInv
  <2>5. PICK res : res = IF api.project THEN "ok" ELSE "missing"
    OBVIOUS
  <2>6. res \in Outcome /\ (res \in {"ok", "exists"} => There(k)')
    BY <2>4, <2>5 DEF Outcome, There
  <2>7. PICK q : q = Ended(k, res)
    OBVIOUS
  <2>8. Follows(k, q)
    BY <1>1, <2>6, <2>7, EndedFollows
  <2> QED
    BY <1>1, <1>4, <2>4, <2>5, <2>7, <2>8, AnsweredKeeps
<1> QED
  BY <1>2, <1>3, <1>4 DEF SegmentSync

\* The Flag reconciler: GetFlag, CreateFlag.
LEMMA FlagEnsureKeeps ==
    ASSUME SyncInv, FlagEnsure
    PROVE  SyncInv'
<1> DEFINE k == "Flag"
<1>1. k \in Kind /\ api \in API /\ ApiInv
  BY DEF Kind, SyncInv, TypeOK
<1>2. CASE /\ Continue(k, [run[k] EXCEPT !.step = IF api.flag THEN "resolve"
                                                  ELSE "create"])
           /\ UNCHANGED <<api, upsets>>
  <2>1. PICK s : s = IF api.flag THEN "resolve" ELSE "create"
    OBVIOUS
  <2>2. PICK q : q = [run[k] EXCEPT !.step = s]
    OBVIOUS
  <2>3. s \in {"resolve", "create"}
    BY <2>1
  <2>4. Follows(k, q)
    BY <1>1, <2>2, <2>3, StepFollows DEF Step
  <2> QED
    BY <1>1, <1>2, <2>1, <2>2, <2>4, ReadKeeps
<1>3. CASE /\ api' = [api EXCEPT !.flag = api.project]
           /\ Answered(k, IF api.project THEN [run[k] EXCEPT !.step = "resolve"]
                          ELSE Ended(k, "missing"))
  <2>1. ApiStep
    BY <1>1, <1>3, FlagMade
  <2>2. CASE api.project
    <3>1. PICK q : q = [run[k] EXCEPT !.step = "resolve"]
      OBVIOUS
    <3>2. Follows(k, q)
      BY <1>1, <3>1, StepFollows DEF Step
    <3> QED
      BY <1>1, <1>3, <2>1, <2>2, <3>1, <3>2, AnsweredKeeps
  <2>3. CASE ~api.project
    <3>1. PICK q : q = Ended(k, "missing")
      OBVIOUS
    <3>2. Follows(k, q)
      BY <1>1, <3>1, EndedFollows DEF Outcome
    <3> QED
      BY <1>1, <1>3, <2>1, <2>3, <3>1, <3>2, AnsweredKeeps
  <2> QED
    BY <2>2, <2>3
<1> QED
  BY <1>2, <1>3 DEF FlagEnsure

\* The places of a version.
LEMMA SlotFacts ==
    /\ AnyEnv \in Slot /\ <<AnyEnv>> \in Seq(Slot) /\ <<AnyEnv>> # <<>>
    /\ EnvSeq \in Seq(Slot) /\ EnvSeq # <<>> /\ Env \subseteq Slot
<1>1. Env \subseteq Slot /\ AnyEnv \in Slot
  BY DEF Slot
<1>2. EnvSeq \in Seq(Slot) /\ EnvSeq # <<>>
  BY SMT, <1>1, OperatorAssumption
<1>3. <<AnyEnv>> \in Seq(Slot) /\ <<AnyEnv>> # <<>>
  BY SMT, <1>1
<1> QED
  BY <1>1, <1>2, <1>3

\* A pass over a Flag goes on to publish.
LEMMA FlagResolveRolloutsKeeps ==
    ASSUME SyncInv, FlagResolveRollouts
    PROVE  SyncInv'
<1> DEFINE k == "Flag"
<1>1. /\ k \in Kind /\ run[k] \in Run /\ UNCHANGED <<api, upsets>>
      /\ RunClaims(k, run[k])
  BY DEF Kind, SyncInv, TypeOK, FlagResolveRollouts
<1>2. PICK p : p = IF run[k].view.spec = "rollout" /\ cache["RolloutPolicy"].exists
                   THEN cache["RolloutPolicy"].gen ELSE 0
  OBVIOUS
<1>3. p \in Generation
  <2>1. cache["RolloutPolicy"] \in CR
    BY DEF SyncInv, TypeOK, Kind
  <2>2. 0 \in Generation
    BY SMT, OperatorAssumption DEF Generation
  <2> QED
    BY <1>2, <2>1, <2>2, CRFields
<1>4. CASE Continue(k, Ended(k, "invalid"))
  <2>1. PICK q : q = Ended(k, "invalid")
    OBVIOUS
  <2>2. Follows(k, q)
    BY <1>1, <2>1, EndedFollows DEF Outcome
  <2> QED
    BY <1>1, <1>4, <2>1, <2>2, ReadKeeps
<1>5. CASE Continue(k, [run[k] EXCEPT !.step = "publish", !.policy = p,
                                      !.left = IF run[k].view.spec = "bindings"
                                               THEN EnvSeq ELSE <<AnyEnv>>])
  <2>1. PICK l : l = IF run[k].view.spec = "bindings" THEN EnvSeq ELSE <<AnyEnv>>
    OBVIOUS
  <2>2. l \in Seq(Slot) /\ l # <<>>
    BY <2>1, SlotFacts
  <2>3. PICK q1 : q1 = [run[k] EXCEPT !.step = "publish"]
    OBVIOUS
  <2>4. q1 \in Run /\ q1.step = "publish" /\ Same(run[k], q1, RunField \ {"step"})
    <3>1. "publish" \in Step /\ run[k] \in Run
      BY <1>1 DEF Step
    <3> QED
      BY SMT, <2>3, <3>1, RunWithStep
  <2>5. PICK q2 : q2 = [q1 EXCEPT !.policy = p]
    OBVIOUS
  <2>6. q2 \in Run /\ Same(q1, q2, RunField \ {"policy"})
    BY <1>3, <2>4, <2>5, RunWithPolicy
  <2>7. PICK q : q = [q2 EXCEPT !.left = l]
    OBVIOUS
  <2>8. q \in Run /\ q.left = l /\ Same(q2, q, RunField \ {"left"})
    BY <2>2, <2>6, <2>7, RunWithLeft
  <2>9. Same(run[k], q, RunField \ {"step", "policy", "left"})
    BY <2>4, <2>6, <2>8 DEF Same
  <2>10. q.view = run[k].view /\ q.fresh = run[k].fresh /\ q.got = run[k].got
    BY <2>9 DEF Same, RunField
  <2>11. q.step = "publish"
    <3>1. q2.step = q1.step /\ q.step = q2.step
      BY <2>6, <2>8 DEF Same, RunField
    <3> QED
      BY <2>4, <3>1
  <2>12. Follows(k, q)
    BY <1>1, <2>2, <2>8, <2>10, <2>11 DEF Follows, RunClaims, FlagRun
  <2>13. Continue(k, q)
    BY <1>5, <2>1, <2>3, <2>5, <2>7
  <2> QED
    BY <1>1, <2>12, <2>13, ReadKeeps
<1> QED
  BY <1>2, <1>4, <1>5 DEF FlagResolveRollouts

\* Publishing succeeds only for a flag that exists.
LEMMA PublishOutcomeFacts ==
    ASSUME NEW flag \in CR, NEW policy
    PROVE  /\ PublishOutcome(flag, policy) \in {"ok", "invalid", "missing"}
           /\ PublishOutcome(flag, policy) = "ok" => api.flag
<1>1. CASE ~Translates(flag, policy)
  <2>1. PublishOutcome(flag, policy) = "invalid"
    BY <1>1 DEF PublishOutcome
  <2> QED
    BY <2>1
<1>2. CASE Translates(flag, policy) /\ ~api.flag
  <2>1. PublishOutcome(flag, policy) = "missing"
    BY <1>2 DEF PublishOutcome
  <2> QED
    BY <2>1
<1>3. CASE Translates(flag, policy) /\ api.flag
  BY <1>3 DEF PublishOutcome
<1> QED
  BY <1>1, <1>2, <1>3

\* PublishFlagVersion that succeeds.
LEMMA PublishStep ==
    ASSUME SyncInv, NEW flag \in CR, NEW policy \in Generation, NEW env \in Slot,
           PublishOutcome(flag, policy) = "ok", Publish(flag, policy, env)
    PROVE  ApiStep /\ api'.published
<1>1. api \in API /\ ApiInv
  BY DEF SyncInv, TypeOK
<1>2. PICK t : t = IRForFlag(flag, policy, env)
  OBVIOUS
<1>3. t \in Tree
  <2>1. flag.gen \in Generation
    BY CRFields
  <2> QED
    BY SMT, <1>2, <2>1 DEF IRForFlag, Tree
<1>4. api' = [api EXCEPT !.published = TRUE, !.latest = t]
  BY <1>2 DEF Publish
<1>5. api.flag
  BY PublishOutcomeFacts
<1> QED
  BY <1>1, <1>3, <1>4, <1>5, VersionMade

\* A pass over a Flag publishes one version.
LEMMA FlagPublishKeeps ==
    ASSUME SyncInv, FlagPublish
    PROVE  SyncInv'
<1> DEFINE k == "Flag"
<1>0. PICK r : r = run[k]
  OBVIOUS
<1> DEFINE outcome == PublishOutcome(r.view, r.policy)
<1>1. /\ k \in Kind /\ r \in Run /\ api \in API /\ ApiInv /\ RunClaims(k, r)
      /\ upsets \in 0 .. MaxUpsets /\ r.step = "publish" /\ r.left # <<>>
  BY <1>0 DEF Kind, SyncInv, TypeOK, FlagPublish, PassInv
<1>2. /\ r.view \in CR /\ r.policy \in Generation /\ r.left \in Seq(Slot)
      /\ r.view.gen \in Generation
  BY <1>1, RunFields, CRFields
<1>3. Head(r.left) \in Slot /\ Tail(r.left) \in Seq(Slot)
  BY SMT, <1>1, <1>2
<1>4. CASE /\ outcome = "ok"
           /\ Publish(r.view, r.policy, Head(r.left))
           /\ Answered(k, IF [r EXCEPT !.left = Tail(@), !.got[AnyEnv] = r.view.gen].left # <<>>
                          THEN [r EXCEPT !.left = Tail(@), !.got[AnyEnv] = r.view.gen]
                          ELSE [[r EXCEPT !.left = Tail(@), !.got[AnyEnv] = r.view.gen]
                                   EXCEPT !.step = "status"])
  <2>1. ApiStep /\ There(k)'
    BY <1>2, <1>3, <1>4, PublishStep DEF There
  <2>2. PICK l, g, q1 :
            l = Tail(r.left) /\ g = r.view.gen /\ q1 = [r EXCEPT !.left = l]
    OBVIOUS
  <2>3. q1 \in Run /\ Same(r, q1, RunField \ {"left"})
    <3>1. r \in Run /\ l \in Seq(Slot)
      BY <1>1, <1>3, <2>2
    <3> QED
      BY <2>2, <3>1, RunWithLeft
  <2>4. PICK h : h = [q1.got EXCEPT ![AnyEnv] = g]
    OBVIOUS
  <2>4a. PICK q2 : q2 = [q1 EXCEPT !.got = h]
    OBVIOUS
  <2>5. /\ q2 \in Run /\ q2.got[AnyEnv] = g
        /\ Same(q1, q2, RunField \ {"got"})
    <3>1. q1 \in Run /\ AnyEnv \in Slot /\ g \in Generation
      BY <1>2, <2>2, <2>3, SlotFacts
    <3>2. h \in [Slot -> Generation] /\ h[AnyEnv] = g
      BY <2>4, <3>1, RunFields
    <3> QED
      BY <2>4a, <3>1, <3>2, RunWithGot
  <2>6. q2 = [r EXCEPT !.left = Tail(@), !.got[AnyEnv] = r.view.gen]
    BY <2>2, <2>4, <2>4a
  <2>7. Same(r, q2, RunField \ {"left", "got"})
    BY <2>3, <2>5 DEF Same
  <2>8. q2.view = r.view /\ q2.fresh = r.fresh /\ q2.step = "publish"
    BY <1>1, <2>7 DEF Same, RunField
  <2>9. CASE q2.left # <<>>
    <3>1. Follows(k, q2)
      BY <2>1, <2>2, <2>5, <2>8, <2>9, <1>0 DEF Follows, RunClaims, FlagRun
    <3>2. Answered(k, q2)
      BY <1>4, <2>6, <2>9
    <3> QED
      BY <1>1, <2>1, <3>1, <3>2, AnsweredKeeps
  <2>10. CASE q2.left = <<>>
    <3>1. PICK q : q = [q2 EXCEPT !.step = "status"]
      OBVIOUS
    <3>2. "status" \in Step
      BY DEF Step
    <3>3. q \in Run /\ q.step = "status" /\ Same(q2, q, RunField \ {"step"})
      BY <2>5, <3>1, <3>2, RunWithStep
    <3>4. q.view = q2.view /\ q.fresh = q2.fresh /\ q.got = q2.got
      BY <3>3 DEF Same, RunField
    <3>5. Follows(k, q)
      BY <2>1, <2>2, <2>5, <2>8, <3>3, <3>4, <1>0 DEF Follows, RunClaims, FlagRun
    <3>6. Answered(k, q)
      BY <1>4, <2>6, <2>10, <3>1
    <3> QED
      BY <1>1, <2>1, <3>5, <3>6, AnsweredKeeps
  <2> QED
    BY <2>9, <2>10
<1>5. CASE /\ outcome # "ok" /\ Continue(k, Ended(k, outcome))
           /\ UNCHANGED <<api, upsets>>
  <2>1. PICK q : q = Ended(k, outcome)
    OBVIOUS
  <2>2. outcome \in Outcome /\ outcome \notin {"ok", "exists"}
    BY <1>2, <1>5, PublishOutcomeFacts DEF Outcome
  <2>3. Follows(k, q)
    BY <1>1, <2>1, <2>2, EndedFollows
  <2> QED
    BY <1>1, <1>5, <2>1, <2>3, ReadKeeps
<1>6. CASE /\ api.published /\ Upset("race") /\ Continue(k, Ended(k, "exists"))
           /\ UNCHANGED api
  <2>1. PICK q : q = Ended(k, "exists")
    OBVIOUS
  <2>2. There(k)'
    BY <1>6 DEF There
  <2>3. Follows(k, q)
    BY <1>1, <2>1, <2>2, EndedFollows DEF Outcome
  <2>4. ApiStep /\ upsets' \in 0 .. MaxUpsets
    BY <1>1, <1>6, ApiUnchanged, UpsetType
  <2> QED
    BY <1>1, <1>6, <2>1, <2>3, <2>4, ContinueKeeps
<1> QED
  BY <1>0, <1>4, <1>5, <1>6 DEF FlagPublish

\* A FlagBinding reads its Flag from the cache.
LEMMA BindingFetchFlagKeeps ==
    ASSUME SyncInv, BindingFetchFlag
    PROVE  SyncInv'
<1> DEFINE k == "FlagBinding"
<1>0. PICK r, f : r = run[k] /\ f = cache["Flag"]
  OBVIOUS
<1>1. /\ k \in Kind /\ r \in Run /\ f \in CR /\ UNCHANGED <<api, upsets>>
      /\ BindingRun(r) /\ r.step = "fetch"
  BY <1>0 DEF Kind, SyncInv, TypeOK, BindingFetchFlag, RunClaims
<1>2. CASE Continue(k, Ended(k, "noFlag"))
  <2>1. PICK q : q = Ended(k, "noFlag")
    OBVIOUS
  <2>2. Follows(k, q)
    BY <1>1, <2>1, EndedFollows DEF Outcome
  <2> QED
    BY <1>1, <1>2, <2>1, <2>2, ReadKeeps
<1>3. CASE Continue(k, [r EXCEPT !.step = "publish", !.flag = f, !.left = EnvSeq])
  <2>1. PICK q1 : q1 = [r EXCEPT !.step = "publish"]
    OBVIOUS
  <2>2. q1 \in Run /\ q1.step = "publish" /\ Same(r, q1, RunField \ {"step"})
    <3>1. r \in Run /\ "publish" \in Step
      BY <1>1 DEF Step
    <3> QED
      BY <2>1, <3>1, RunWithStep
  <2>3. PICK q2 : q2 = [q1 EXCEPT !.flag = f]
    OBVIOUS
  <2>4. q2 \in Run /\ q2.flag = f /\ Same(q1, q2, RunField \ {"flag"})
    BY <1>1, <2>2, <2>3, RunWithFlag
  <2>5. PICK q : q = [q2 EXCEPT !.left = EnvSeq]
    OBVIOUS
  <2>6. q \in Run /\ q.left = EnvSeq /\ Same(q2, q, RunField \ {"left"})
    <3>1. EnvSeq \in Seq(Slot) /\ q2 \in Run
      BY <2>4, SlotFacts
    <3> QED
      BY <2>5, <3>1, RunWithLeft
  <2>7. Same(r, q, RunField \ {"step", "flag", "left"})
    BY <2>2, <2>4, <2>6 DEF Same
  <2>8. q.view = r.view /\ q.fresh = r.fresh /\ q.got = r.got
    BY <2>7 DEF Same, RunField
  <2>9. q.step = "publish" /\ q.flag = f
    <3>1. q2.step = q1.step /\ q.step = q2.step /\ q.flag = q2.flag
      BY <2>4, <2>6 DEF Same, RunField
    <3> QED
      BY <2>2, <2>4, <3>1
  <2>10. \A e \in Slot : q.got[e] = 0
    BY <1>1, <2>8 DEF BindingRun
  <2>11. f.gen <= cache["Flag"].gen
    BY SMT, <1>0, <1>1, CRFields DEF Generation
  <2>12. \A e \in Slot : status[k].claim[e] <= f.gen
    BY <1>0 DEF SyncInv, ClaimInv
  <2>13. BindingRun(q)
    <3>1. ~(0 > 0)
      BY SMT
    <3> QED
      BY <2>9, <2>10, <2>11, <2>12, <3>1 DEF BindingRun
  <2>14. Follows(k, q)
    BY <1>0, <2>6, <2>8, <2>9, <2>13, SlotFacts DEF Follows, RunClaims
  <2>15. Continue(k, q)
    BY <1>3, <2>1, <2>3, <2>5
  <2> QED
    BY <1>1, <2>14, <2>15, ReadKeeps
<1> QED
  BY <1>0, <1>2, <1>3 DEF BindingFetchFlag

\* Once an environment is done with, a pass over a FlagBinding goes on to the
\* next one or to its status.
LEMMA BindingThen ==
    ASSUME SyncInv, NEW p \in Run, p.left # <<>>, p.step = "publish", BindingRun(p),
           p.view = run["FlagBinding"].view, p.fresh = run["FlagBinding"].fresh,
           There("FlagBinding")',
           NEW q, q = IF Tail(p.left) # <<>> THEN [p EXCEPT !.left = Tail(@)]
                      ELSE [p EXCEPT !.left = <<>>, !.step = "status"]
    PROVE  Follows("FlagBinding", q)
<1>1. PICK l : l = Tail(p.left)
  OBVIOUS
<1>2. l \in Seq(Slot) /\ <<>> \in Seq(Slot)
  <2>1. p.left \in Seq(Slot)
    BY RunFields
  <2> QED
    BY SMT, <1>1, <2>1
<1>3. CASE l # <<>>
  <2>1. q = [p EXCEPT !.left = l]
    BY <1>1, <1>3
  <2>2. q \in Run /\ q.left = l /\ Same(p, q, RunField \ {"left"})
    BY <1>2, <2>1, RunWithLeft
  <2>3. /\ q.view = p.view /\ q.fresh = p.fresh /\ q.got = p.got /\ q.flag = p.flag
        /\ q.step = "publish"
    BY <2>2 DEF Same, RunField
  <2>4. BindingRun(q)
    BY <2>3 DEF BindingRun
  <2> QED
    BY <1>3, <2>2, <2>3, <2>4 DEF Follows, RunClaims
<1>4. CASE l = <<>>
  <2>1. PICK q1 : q1 = [p EXCEPT !.left = <<>>]
    OBVIOUS
  <2>2. q1 \in Run /\ Same(p, q1, RunField \ {"left"})
    BY <1>2, <2>1, RunWithLeft
  <2>3. q = [q1 EXCEPT !.step = "status"]
    BY <1>1, <1>4, <2>1
  <2>4. "status" \in Step
    BY DEF Step
  <2>5. q \in Run /\ q.step = "status" /\ Same(q1, q, RunField \ {"step"})
    BY <2>2, <2>3, <2>4, RunWithStep
  <2>6. Same(p, q, RunField \ {"left", "step"})
    BY <2>2, <2>5 DEF Same
  <2>7. q.view = p.view /\ q.fresh = p.fresh /\ q.got = p.got /\ q.flag = p.flag
    BY <2>6 DEF Same, RunField
  <2>8. BindingRun(q)
    BY <2>5, <2>7 DEF BindingRun
  <2> QED
    BY <2>5, <2>7, <2>8 DEF Follows, RunClaims
<1> QED
  BY <1>3, <1>4

\* A FlagBinding publishes one version.
LEMMA BindingPublishKeeps ==
    ASSUME SyncInv, BindingPublish
    PROVE  SyncInv'
<1> DEFINE k == "FlagBinding"
<1>0. PICK r : r = run[k]
  OBVIOUS
<1> DEFINE outcome == PublishOutcome(r.flag, 0)
           e == Head(r.left)
           Then(q) == IF Tail(q.left) # <<>> THEN [q EXCEPT !.left = Tail(@)]
                      ELSE [q EXCEPT !.left = <<>>, !.step = "status"]
<1>1. /\ k \in Kind /\ r \in Run /\ api \in API /\ ApiInv
      /\ upsets \in 0 .. MaxUpsets
  BY <1>0 DEF Kind, SyncInv, TypeOK
<1>2. BindingRun(r) /\ r.step = "publish" /\ r.left # <<>>
  BY <1>0, <1>1 DEF SyncInv, RunClaims, BindingPublish, PassInv
<1>3. r.flag \in CR /\ r.left \in Seq(Slot) /\ r.got \in [Slot -> Generation]
  BY <1>1, RunFields
<1>4. r.flag.gen \in Generation /\ 0 \in Generation
  <2>1. 0 \in Generation
    BY SMT, OperatorAssumption DEF Generation
  <2> QED
    BY <1>3, <2>1, CRFields
<1>5. e \in Slot
  BY SMT, <1>2, <1>3
<1>6. CASE /\ outcome = "ok" /\ Publish(r.flag, 0, e)
           /\ Answered(k, Then([r EXCEPT !.got[e] = r.flag.gen]))
  <2>1. ApiStep /\ There(k)'
    BY <1>3, <1>4, <1>5, <1>6, PublishStep DEF There
  <2>2. PICK g, h : g = r.flag.gen /\ h = [r.got EXCEPT ![e] = g]
    OBVIOUS
  <2>2a. PICK p : p = [r EXCEPT !.got = h]
    OBVIOUS
  <2>3. h \in [Slot -> Generation] /\ h[e] = g /\ \A d \in Slot \ {e} : h[d] = r.got[d]
    BY <1>3, <1>4, <1>5, <2>2
  <2>4. p \in Run /\ p.got = h /\ Same(r, p, RunField \ {"got"})
    <3>1. r \in Run /\ h \in [Slot -> Generation]
      BY <1>1, <2>3
    <3> QED
      BY <2>2a, <3>1, RunWithGot
  <2>5. /\ p.view = r.view /\ p.fresh = r.fresh /\ p.left = r.left /\ p.flag = r.flag
        /\ p.step = r.step
    BY <2>4 DEF Same, RunField
  <2>6. BindingRun(p)
    <3>1. ASSUME NEW d \in Slot
          PROVE  /\ p.got[d] \in {0, p.flag.gen}
                 /\ p.got[d] > 0 => status[k].claim[d] <= p.got[d]
                 /\ p.step = "fetch" => p.got[d] = 0
                 /\ p.step = "publish" => status[k].claim[d] <= p.flag.gen
      <4>1. CASE d = e
        <5>1. p.got[d] = p.flag.gen
          BY <2>2, <2>3, <2>4, <2>5, <4>1
        <5>2. status[k].claim[d] <= p.flag.gen /\ p.step = "publish"
          BY <1>2, <2>5 DEF BindingRun
        <5> QED
          BY <5>1, <5>2
      <4>2. CASE d # e
        <5>1. p.got[d] = r.got[d]
          BY <2>3, <2>4, <4>2
        <5> QED
          BY <1>2, <2>5, <5>1 DEF BindingRun
      <4> QED
        BY <4>1, <4>2
    <3> QED
      BY <1>2, <2>5, <3>1 DEF BindingRun
  <2>7. PICK q : q = Then(p)
    OBVIOUS
  <2>8. Follows(k, q)
    BY <1>0, <1>2, <2>1, <2>4, <2>5, <2>6, <2>7, BindingThen
  <2>9. Answered(k, q)
    BY <1>6, <2>2, <2>2a, <2>7
  <2> QED
    BY <1>1, <2>1, <2>8, <2>9, AnsweredKeeps
<1>7. CASE outcome # "ok" /\ Continue(k, Ended(k, outcome)) /\ UNCHANGED <<api, upsets>>
  <2>1. PICK q : q = Ended(k, outcome)
    OBVIOUS
  <2>2. outcome \in Outcome /\ outcome \notin {"ok", "exists"}
    BY <1>3, <1>7, PublishOutcomeFacts DEF Outcome
  <2>3. Follows(k, q)
    BY <1>1, <2>1, <2>2, EndedFollows
  <2> QED
    BY <1>1, <1>7, <2>1, <2>3, ReadKeeps
<1>8. CASE api.published /\ Upset("race") /\ Continue(k, Then(r)) /\ UNCHANGED api
  <2>1. There(k)'
    BY <1>8 DEF There
  <2>2. PICK q : q = Then(r)
    OBVIOUS
  <2>3. Follows(k, q)
    BY <1>0, <1>1, <1>2, <2>1, <2>2, BindingThen
  <2>4. ApiStep /\ upsets' \in 0 .. MaxUpsets
    BY <1>1, <1>8, ApiUnchanged, UpsetType
  <2> QED
    BY <1>1, <1>8, <2>2, <2>3, <2>4, ContinueKeeps
<1> QED
  BY <1>0, <1>6, <1>7, <1>8 DEF BindingPublish

\* A pass that ends well.
LEMMA EndedWell ==
    ASSUME TypeOK, NEW k \in Kind, NEW q, q = Ended(k, "ok")
    PROVE  q \in Run /\ q.step = "status" /\ Same(run[k], q, RunField \ {"step", "res"})
<1>1. PICK res : res = "ok"
  OBVIOUS
<1>2. res \in Outcome
  BY <1>1 DEF Outcome
<1> QED
  BY SMT, <1>1, <1>2, EndedFields

\* A FlagSnapshot reads the number of the newest snapshot.
LEMMA SnapshotLatestKeeps ==
    ASSUME SyncInv, SnapshotLatest
    PROVE  SyncInv'
<1> DEFINE k == "FlagSnapshot"
<1>1. /\ k \in Kind /\ run[k] \in Run /\ api \in API /\ UNCHANGED <<api, upsets>>
      /\ TypeOK /\ SnapshotRun(run[k])
  BY DEF Kind, SyncInv, TypeOK, SnapshotLatest, RunClaims
<1>2. CASE Continue(k, Ended(k, "missing"))
  <2>1. PICK q : q = Ended(k, "missing")
    OBVIOUS
  <2>2. Follows(k, q)
    BY <1>1, <2>1, EndedFollows DEF Outcome
  <2> QED
    BY <1>1, <1>2, <2>1, <2>2, ReadKeeps
<1>3. CASE /\ api.snapshot # 0
           /\ Continue(k, [Ended(k, "ok") EXCEPT !.got[AnyEnv] = api.snapshot])
  <2>1. PICK p : p = Ended(k, "ok")
    OBVIOUS
  <2>2. p \in Run /\ p.step = "status" /\ Same(run[k], p, RunField \ {"step", "res"})
    BY <1>1, <2>1, EndedWell
  <2>3. PICK n, h : n = api.snapshot /\ h = [p.got EXCEPT ![AnyEnv] = n]
    OBVIOUS
  <2>3a. PICK q : q = [p EXCEPT !.got = h]
    OBVIOUS
  <2>4. n \in Generation /\ n > 0 /\ n <= api.snapshot
    <3>1. api.snapshot \in Generation
      BY <1>1, ApiFields
    <3> QED
      BY SMT, <1>3, <2>3, <3>1 DEF Generation
  <2>5. p.got \in [Slot -> Generation] /\ p.got = run[k].got
    BY <2>2, RunFields DEF Same, RunField
  <2>6. h \in [Slot -> Generation] /\ h[AnyEnv] = n /\ \A d \in Env : h[d] = 0
    BY <1>1, <2>3, <2>4, <2>5, SlotFacts, OperatorAssumption DEF SnapshotRun
  <2>7. q \in Run /\ q.got = h /\ Same(p, q, RunField \ {"got"})
    <3>1. p \in Run /\ h \in [Slot -> Generation]
      BY <2>2, <2>6
    <3> QED
      BY <2>3a, <3>1, RunWithGot
  <2>8. Same(run[k], q, RunField \ {"step", "res", "got"})
    BY <2>2, <2>7 DEF Same
  <2>9. q.view = run[k].view /\ q.fresh = run[k].fresh
    BY <2>8 DEF Same, RunField
  <2>10. q.step = "status"
    BY <2>2, <2>7 DEF Same, RunField
  <2>11. SnapshotRun(q)
    BY <2>3, <2>4, <2>6, <2>7 DEF SnapshotRun, SyncInv, ClaimInv
  <2>12. There(k)'
    BY <1>1, <2>3, <2>4 DEF There
  <2>13. Follows(k, q)
    BY <2>7, <2>9, <2>10, <2>11, <2>12 DEF Follows, RunClaims
  <2>14. Continue(k, q)
    BY <1>3, <2>1, <2>3, <2>3a
  <2> QED
    BY <1>1, <2>13, <2>14, ReadKeeps
<1> QED
  BY <1>2, <1>3 DEF SnapshotLatest

\* A call of any reconciler keeps the invariant.
LEMMA SyncKeeps ==
    ASSUME SyncInv, NEW k \in Kind, Sync(k)
    PROVE  SyncInv'
  BY ProjectSyncKeeps, EnvironmentSyncKeeps, SegmentSyncKeeps, FlagEnsureKeeps,
     FlagResolveRolloutsKeeps, FlagPublishKeeps, BindingFetchFlagKeeps,
     BindingPublishKeeps, SnapshotLatestKeeps DEF Sync

\* A call that never reaches the API.
LEMMA APIUnavailableKeeps ==
    ASSUME SyncInv, NEW k \in Kind, APIUnavailable(k)
    PROVE  SyncInv'
<1>1. api \in API /\ ApiInv /\ upsets \in 0 .. MaxUpsets
  BY DEF SyncInv, TypeOK
<1>2. ApiStep /\ upsets' \in 0 .. MaxUpsets
  BY <1>1, ApiUnchanged, UpsetType DEF APIUnavailable
<1>3. PICK q : q = Ended(k, "error")
  OBVIOUS
<1>4. Follows(k, q)
  BY <1>3, EndedFollows DEF Outcome
<1> QED
  BY <1>2, <1>3, <1>4, ContinueKeeps DEF APIUnavailable
-----------------------------------------------------------------------------
(***************************************************************************)
(* Kubernetes: writes, the watch, the start and the end of a pass.         *)
(***************************************************************************)

\* What a run of kind k may be, apart from the freshness of its copy.
Sound(k, q) ==
    /\ q \in Run
    /\ q.step = "publish" => q.left # <<>>
    /\ q.step = "update" => api.segment
    /\ q.step = "status" /\ Succeeded(q) => There(k)
    /\ RunClaims(k, q)

\* Zero is the least generation.
LEMMA ZeroIsLeast ==
    /\ 0 \in Generation
    /\ \A g \in Generation : 0 <= g /\ g <= g
    /\ \A g, h, i \in Generation : g <= h /\ h <= i => g <= i
    /\ ~(0 > 0)
  BY SMT, OperatorAssumption DEF Generation

\* A worker between two passes claims nothing.
LEMMA IdleIsSound ==
    ASSUME SyncInv, NEW k
    PROVE  Sound(k, Idle)
<1>1. 0 <= cache["Flag"].gen /\ 0 <= api.snapshot
  <2>1. cache["Flag"] \in CR /\ api \in API
    BY DEF SyncInv, TypeOK, Kind
  <2> QED
    BY <2>1, CRFields, ApiFields, ZeroIsLeast
<1>2. /\ Idle \in Run /\ Idle.step = "idle" /\ Idle.flag.gen = 0
      /\ \A e \in Slot : Idle.got[e] = 0
  BY IdleFields
<1>3. FlagRun(Idle)
  BY <1>2, SlotFacts DEF FlagRun
<1>4. BindingRun(Idle)
  BY <1>1, <1>2, ZeroIsLeast DEF BindingRun
<1>5. SnapshotRun(Idle)
  BY <1>1, <1>2, SlotFacts DEF SnapshotRun
<1> QED
  BY <1>2, <1>3, <1>4, <1>5 DEF Sound, RunClaims

\* Nor does it matter whether the copy of a pass is outdated.
LEMMA OutdatedIsSound ==
    ASSUME SyncInv, NEW k \in Kind, NEW q, q = [run[k] EXCEPT !.fresh = FALSE]
    PROVE  Sound(k, q) /\ q.fresh = FALSE
<1>1. run[k] \in Run /\ PassInv(k) /\ RunClaims(k, run[k])
  BY DEF SyncInv, TypeOK
<1>2. q \in Run /\ q.fresh = FALSE /\ Same(run[k], q, RunField \ {"fresh"})
  BY <1>1, RunWithFresh
<1>3. /\ q.step = run[k].step /\ q.view = run[k].view /\ q.left = run[k].left
      /\ q.got = run[k].got /\ q.flag = run[k].flag /\ q.res = run[k].res
  BY <1>2 DEF Same, RunField
<1>4. k = "Flag" => FlagRun(q)
  BY <1>1, <1>3 DEF RunClaims, FlagRun
<1>5. k = "FlagBinding" => BindingRun(q)
  BY <1>1, <1>3 DEF RunClaims, BindingRun
<1>6. k = "FlagSnapshot" => SnapshotRun(q)
  BY <1>1, <1>3 DEF RunClaims, SnapshotRun, Succeeded
<1> QED
  BY <1>1, <1>2, <1>3, <1>4, <1>5, <1>6 DEF Sound, RunClaims, PassInv, Succeeded

\* The run of one kind moves, and nothing else that a status depends on.
LEMMA MoveKeeps ==
    ASSUME SyncInv, NEW k \in Kind, NEW q, Sound(k, q), q.fresh => q.view = obj[k],
           run' = [run EXCEPT ![k] = q],
           dirty' \in [Kind -> BOOLEAN], timer' \in [Kind -> BOOLEAN],
           UNCHANGED <<deployed, obj, status, cache, cacheFresh, api, upsets>>
    PROVE  SyncInv'
<1>1. q \in Run /\ run \in [Kind -> Run]
  BY DEF Sound, SyncInv, TypeOK
<1>2. run' \in [Kind -> Run] /\ run'[k] = q /\ \A j \in Kind \ {k} : run'[j] = run[j]
  BY <1>1
<1>3. TypeOK'
  BY <1>2 DEF SyncInv, TypeOK
<1>4. ASSUME NEW j \in Kind
      PROVE  LagInv(j)' /\ StatusInv(j)'
  BY DEF SyncInv, LagInv, StatusInv, There
<1>5. ASSUME NEW j \in Kind
      PROVE  PassInv(j)'
  <2>1. CASE j = k
    BY <1>2, <2>1 DEF PassInv, Sound, There, Succeeded
  <2>2. CASE j # k
    BY <1>2, <2>2 DEF PassInv, SyncInv, There, Succeeded
  <2> QED
    BY <2>1, <2>2
<1>6. ASSUME NEW j \in Kind
      PROVE  RunClaims(j, run[j])'
  <2>1. PICK p : p = run'[j]
    OBVIOUS
  <2>2. RunClaims(j, p)
    <3>1. CASE j = k
      BY <1>2, <2>1, <3>1 DEF Sound
    <3>2. CASE j # k
      BY <1>2, <2>1, <3>2 DEF SyncInv
    <3> QED
      BY <3>1, <3>2
  <2> QED
    BY <2>1, <2>2 DEF RunClaims, FlagRun, BindingRun, SnapshotRun, Succeeded
<1>7. ClaimInv' /\ ApiInv'
  BY DEF SyncInv, ClaimInv, ApiInv
<1> QED
  BY <1>3, <1>4, <1>5, <1>6, <1>7 DEF SyncInv

\* A CR is written, of the same or of a later generation.
LEMMA StoreKeepsSync ==
    ASSUME SyncInv, NEW k \in Kind, NEW o \in CR, obj[k].gen <= o.gen, Store(k, o),
           NEW q, Sound(k, q), q.fresh = FALSE, run' = [run EXCEPT ![k] = q],
           timer' \in [Kind -> BOOLEAN],
           UNCHANGED <<deployed, status, cache, dirty, api, upsets>>
    PROVE  SyncInv'
<1>1. /\ q \in Run /\ run \in [Kind -> Run] /\ obj \in [Kind -> CR]
      /\ cache \in [Kind -> CR] /\ cacheFresh \in [Kind -> BOOLEAN]
      /\ status \in [Kind -> Status]
  BY DEF Sound, SyncInv, TypeOK
<1>2. run' \in [Kind -> Run] /\ run'[k] = q /\ \A j \in Kind \ {k} : run'[j] = run[j]
  BY <1>1
<1>3. /\ obj' \in [Kind -> CR] /\ obj'[k] = o /\ \A j \in Kind \ {k} : obj'[j] = obj[j]
      /\ cacheFresh' \in [Kind -> BOOLEAN] /\ ~cacheFresh'[k]
      /\ \A j \in Kind \ {k} : cacheFresh'[j] = cacheFresh[j]
  BY <1>1 DEF Store
<1>4. TypeOK'
  BY <1>2, <1>3 DEF SyncInv, TypeOK
<1>5. ASSUME NEW j \in Kind
      PROVE  obj[j].gen <= obj'[j].gen
  <2>1. CASE j = k
    BY <1>3, <2>1
  <2>2. CASE j # k
    <3>1. obj'[j] = obj[j] /\ obj[j] \in CR
      BY <1>1, <1>3, <2>2
    <3> QED
      BY <3>1, CRFields, ZeroIsLeast
  <2> QED
    BY <2>1, <2>2
<1>6. ASSUME NEW j \in Kind, NEW g \in Generation, g <= obj[j].gen
      PROVE  g <= obj'[j].gen
  <2>1. obj[j].gen \in Generation /\ obj'[j].gen \in Generation
    BY <1>1, <1>3, CRFields
  <2>2. obj[j].gen <= obj'[j].gen
    BY <1>5
  <2> QED
    BY SMT, <1>6, <2>1, <2>2, OperatorAssumption DEF Generation
<1>7. ASSUME NEW j \in Kind
      PROVE  LagInv(j)' /\ StatusInv(j)'
  <2>1. cache[j].gen \in Generation /\ status[j].observed \in Generation
    BY <1>1, CRFields, StatusFields
  <2>2. cache[j].gen <= obj'[j].gen /\ status[j].observed <= obj'[j].gen
    BY <1>6, <2>1 DEF SyncInv, LagInv, StatusInv
  <2>3. cacheFresh'[j] => cache[j] = obj'[j]
    BY <1>3 DEF SyncInv, LagInv
  <2> QED
    BY <2>2, <2>3 DEF SyncInv, LagInv, StatusInv, There
<1>8. ASSUME NEW j \in Kind
      PROVE  PassInv(j)'
  <2>1. CASE j = k
    BY <1>2, <2>1 DEF PassInv, Sound, There, Succeeded
  <2>2. CASE j # k
    BY <1>2, <1>3, <2>2 DEF PassInv, SyncInv, There, Succeeded
  <2> QED
    BY <2>1, <2>2
<1>9. ASSUME NEW j \in Kind
      PROVE  RunClaims(j, run[j])'
  <2>1. PICK p : p = run'[j]
    OBVIOUS
  <2>2. RunClaims(j, p)
    <3>1. CASE j = k
      BY <1>2, <2>1, <3>1 DEF Sound
    <3>2. CASE j # k
      BY <1>2, <2>1, <3>2 DEF SyncInv
    <3> QED
      BY <3>1, <3>2
  <2> QED
    BY <2>1, <2>2 DEF RunClaims, FlagRun, BindingRun, SnapshotRun, Succeeded
<1>10. ClaimInv' /\ ApiInv'
  <2>1. "Flag" \in Kind /\ status["Flag"].claim[AnyEnv] \in Generation
    <3>1. "Flag" \in Kind /\ status["Flag"] \in Status
      BY <1>1 DEF Kind
    <3> QED
      BY <3>1, StatusFields, SlotFacts
  <2>2. status["Flag"].claim[AnyEnv] <= obj'["Flag"].gen
    BY <1>6, <2>1 DEF SyncInv, ClaimInv
  <2> QED
    BY <2>2 DEF SyncInv, ClaimInv, ApiInv
<1> QED
  BY <1>4, <1>7, <1>8, <1>9, <1>10 DEF SyncInv

\* The same CR, that exists or not.
LEMMA CRWithExists ==
    ASSUME NEW o \in CR, NEW v \in BOOLEAN, NEW p, p = [o EXCEPT !.exists = v]
    PROVE  p \in CR /\ p.gen = o.gen
  BY SMT DEF CR

\* The same CR, marked for deletion or not.
LEMMA CRWithDeleting ==
    ASSUME NEW o \in CR, NEW v \in BOOLEAN, NEW p, p = [o EXCEPT !.deleting = v]
    PROVE  p \in CR /\ p.gen = o.gen
  BY SMT DEF CR

\* The same CR, with a finalizer or without.
LEMMA CRWithFinalizer ==
    ASSUME NEW o \in CR, NEW v \in BOOLEAN, NEW p, p = [o EXCEPT !.finalizer = v]
    PROVE  p \in CR /\ p.gen = o.gen
  BY SMT DEF CR

\* The same CR, of another spec.
LEMMA CRWithSpec ==
    ASSUME NEW o \in CR, NEW v \in FlagSpec, NEW p, p = [o EXCEPT !.spec = v]
    PROVE  p \in CR /\ p.gen = o.gen
  BY SMT DEF CR

\* The same CR, of another generation.
LEMMA CRWithGen ==
    ASSUME NEW o \in CR, NEW v \in Generation, NEW p, p = [o EXCEPT !.gen = v]
    PROVE  p \in CR /\ p.gen = v
  BY SMT DEF CR

\* The end of a pass.
LEMMA ReturnTypes ==
    ASSUME timer \in [Kind -> BOOLEAN], NEW k \in Kind, NEW requeue, Return(k, requeue)
    PROVE  timer' \in [Kind -> BOOLEAN] /\ run' = [run EXCEPT ![k] = Idle]
  BY DEF Return

\* kubectl apply.
LEMMA ApplyKeepsSync ==
    ASSUME SyncInv, NEW k \in Kind, Apply(k)
    PROVE  SyncInv'
<1>1. obj[k] \in CR /\ run[k] \in Run /\ timer \in [Kind -> BOOLEAN] /\ UNCHANGED timer
  BY DEF SyncInv, TypeOK, Apply
<1>2. PICK s \in Specs(k) :
          Store(k, [obj[k] EXCEPT !.exists = TRUE, !.gen = @ + 1, !.spec = s])
  BY DEF Apply
<1>3. s \in FlagSpec
  <2>1. deployed.specs \subseteq FlagSpec
    <3>1. deployed \in Deployment
      BY OperatorAssumption DEF SyncInv, TypeOK
    <3> QED
      BY SMT, <3>1 DEF Deployment
  <2>2. {"plain", "bad"} \subseteq FlagSpec
    BY DEF FlagSpec
  <2>3. CASE k = "Flag"
    BY <1>2, <2>1, <2>3 DEF Specs
  <2>4. CASE k \in {"Segment", "RolloutPolicy"}
    BY <1>2, <2>2, <2>4 DEF Specs
  <2>5. CASE k \notin {"Flag", "Segment", "RolloutPolicy"}
    BY <1>2, <2>2, <2>5 DEF Specs
  <2> QED
    BY <2>3, <2>4, <2>5
<1>4. PICK g, o : g = obj[k].gen + 1
               /\ o = [obj[k] EXCEPT !.exists = TRUE, !.gen = g, !.spec = s]
  OBVIOUS
<1>5. o \in CR /\ obj[k].gen <= o.gen
  <2>1. obj[k].gen \in Generation /\ obj[k].gen < MaxGeneration
    BY <1>1, CRFields DEF Apply
  <2>2. g \in Generation /\ obj[k].gen <= g
    BY SMT, <1>4, <2>1, OperatorAssumption DEF Generation
  <2>3. PICK o1, o2 : o1 = [obj[k] EXCEPT !.exists = TRUE] /\ o2 = [o1 EXCEPT !.gen = g]
    OBVIOUS
  <2>4. o1 \in CR
    BY <1>1, <2>3, CRWithExists
  <2>5. o2 \in CR /\ o2.gen = g
    BY <2>2, <2>3, <2>4, CRWithGen
  <2>6. o = [o2 EXCEPT !.spec = s]
    BY <1>4, <2>3
  <2>7. o \in CR /\ o.gen = o2.gen
    BY <1>3, <2>5, <2>6, CRWithSpec
  <2> QED
    BY <2>2, <2>5, <2>7
<1>6. Store(k, o)
  BY <1>2, <1>4
<1>7. PICK q : q = [run[k] EXCEPT !.fresh = FALSE]
  OBVIOUS
<1>8. Sound(k, q) /\ q.fresh = FALSE
  BY <1>7, OutdatedIsSound
<1>9. run' = [run EXCEPT ![k] = q]
  BY <1>7 DEF Apply, Outdate
<1> QED
  BY <1>1, <1>5, <1>6, <1>8, <1>9, StoreKeepsSync DEF Apply

\* kubectl delete.
LEMMA DeleteKeepsSync ==
    ASSUME SyncInv, NEW k \in Kind, Delete(k)
    PROVE  SyncInv'
<1>1. obj[k] \in CR /\ run[k] \in Run /\ timer \in [Kind -> BOOLEAN] /\ UNCHANGED timer
  BY DEF SyncInv, TypeOK, Delete
<1>2. PICK o : o = [obj[k] EXCEPT !.exists = obj[k].finalizer, !.deleting = TRUE]
  OBVIOUS
<1>3. o \in CR /\ obj[k].gen <= o.gen
  <2>1. obj[k].finalizer \in BOOLEAN /\ obj[k].gen \in Generation
    BY <1>1, CRFields
  <2>2. PICK o1 : o1 = [obj[k] EXCEPT !.exists = obj[k].finalizer]
    OBVIOUS
  <2>3. o1 \in CR /\ o1.gen = obj[k].gen
    <3>1. obj[k] \in CR /\ obj[k].finalizer \in BOOLEAN
      BY <1>1, <2>1
    <3> QED
      BY SMT, <2>2, <3>1, CRWithExists
  <2>4. o = [o1 EXCEPT !.deleting = TRUE]
    BY <1>2, <2>2
  <2>5. o \in CR /\ o.gen = o1.gen
    BY <2>3, <2>4, CRWithDeleting
  <2> QED
    BY <2>1, <2>3, <2>5, ZeroIsLeast
<1>4. Store(k, o)
  BY <1>2 DEF Delete
<1>5. PICK q : q = [run[k] EXCEPT !.fresh = FALSE]
  OBVIOUS
<1>6. Sound(k, q) /\ q.fresh = FALSE
  BY <1>5, OutdatedIsSound
<1>7. run' = [run EXCEPT ![k] = q]
  BY <1>5 DEF Delete, Outdate
<1> QED
  BY <1>1, <1>3, <1>4, <1>6, <1>7, StoreKeepsSync DEF Delete

\* A finalizer is added or removed, or the write is rejected.
LEMMA UpdateFinalizerKeepsSync ==
    ASSUME SyncInv, NEW k \in Kind, UpdateFinalizer(k)
    PROVE  SyncInv'
<1>1. /\ obj[k] \in CR /\ run[k] \in Run /\ timer \in [Kind -> BOOLEAN]
      /\ dirty \in [Kind -> BOOLEAN]
  BY DEF SyncInv, TypeOK
<1>2. timer' \in [Kind -> BOOLEAN] /\ run' = [run EXCEPT ![k] = Idle]
  BY <1>1, ReturnTypes DEF UpdateFinalizer
<1>3. Sound(k, Idle) /\ Idle.fresh = FALSE
  BY IdleIsSound, IdleFields
<1>4. CASE run[k].fresh
  <2>1. PICK o : o = IF run[k].step = "addFinalizer"
                     THEN [obj[k] EXCEPT !.finalizer = TRUE]
                     ELSE [obj[k] EXCEPT !.finalizer = FALSE, !.exists = FALSE]
    OBVIOUS
  <2>2. o \in CR /\ o.gen = obj[k].gen
    <3>1. CASE o = [obj[k] EXCEPT !.finalizer = TRUE]
      BY <1>1, <3>1, CRWithFinalizer
    <3>2. CASE o = [obj[k] EXCEPT !.finalizer = FALSE, !.exists = FALSE]
      <4>1. PICK o1 : o1 = [obj[k] EXCEPT !.finalizer = FALSE]
        OBVIOUS
      <4>2. o1 \in CR /\ o1.gen = obj[k].gen
        BY <1>1, <4>1, CRWithFinalizer
      <4>3. o = [o1 EXCEPT !.exists = FALSE]
        BY <3>2, <4>1
      <4>4. o \in CR /\ o.gen = o1.gen
        BY <4>2, <4>3, CRWithExists
      <4> QED
        BY <4>2, <4>4
    <3> QED
      BY <2>1, <3>1, <3>2
  <2>3. Store(k, o)
    BY <1>4, <2>1 DEF UpdateFinalizer
  <2>4. obj[k].gen <= o.gen
    BY <1>1, <2>2, CRFields, ZeroIsLeast
  <2> QED
    BY <1>2, <1>3, <2>2, <2>3, <2>4, StoreKeepsSync DEF UpdateFinalizer
<1>5. CASE ~run[k].fresh
  BY <1>1, <1>2, <1>3, <1>5, MoveKeeps DEF UpdateFinalizer
<1> QED
  BY <1>1, <1>4, <1>5, RunFields

\* The first step of a pass.
LEMMA StepForFacts ==
    ASSUME NEW k \in Kind, NEW cr
    PROVE  /\ StepFor(k, cr) \in Step \ {"publish", "update"}
           /\ StepFor(k, cr) = "status" => k = "RolloutPolicy"
<1>1. /\ FirstStep(k) \in Step \ {"publish", "update"}
      /\ FirstStep(k) = "status" => k = "RolloutPolicy"
  <2>1. CASE k \in {"Project", "Environment", "Segment", "Flag"}
    <3>1. FirstStep(k) = "get"
      BY <2>1 DEF FirstStep
    <3> QED
      BY <3>1 DEF Step
  <2>2. CASE k = "FlagBinding"
    <3>1. FirstStep(k) = "fetch"
      BY <2>2 DEF FirstStep
    <3> QED
      BY <3>1 DEF Step
  <2>3. CASE k = "FlagSnapshot"
    <3>1. FirstStep(k) = "latest"
      BY <2>3 DEF FirstStep
    <3> QED
      BY <3>1 DEF Step
  <2>4. CASE k = "RolloutPolicy"
    <3>1. FirstStep(k) = "status"
      BY <2>4 DEF FirstStep
    <3> QED
      BY <2>4, <3>1 DEF Step
  <2> QED
    BY <2>1, <2>2, <2>3, <2>4 DEF Kind
<1>2. StepFor(k, cr) \in {"idle", "removeFinalizer", "addFinalizer", FirstStep(k)}
  <2>1. CASE ~cr.exists
    BY <2>1 DEF StepFor
  <2>2. CASE cr.exists /\ k \in Finalized /\ cr.deleting
    BY <2>2 DEF StepFor
  <2>3. CASE cr.exists /\ k \in Finalized /\ ~cr.deleting /\ ~cr.finalizer
    BY <2>3 DEF StepFor
  <2>4. CASE cr.exists /\ ~(k \in Finalized /\ (cr.deleting \/ ~cr.finalizer))
    BY <2>4 DEF StepFor
  <2> QED
    BY <2>1, <2>2, <2>3, <2>4
<1> QED
  BY <1>1, <1>2 DEF Step

\* A pass begins: it claims nothing yet, and a RolloutPolicy needs no row.
LEMMA ReconcileKeepsSync ==
    ASSUME SyncInv, NEW k \in Kind, Reconcile(k)
    PROVE  SyncInv'
<1>1. cache[k] \in CR /\ cacheFresh[k] \in BOOLEAN /\ LagInv(k)
  BY DEF SyncInv, TypeOK
<1>2. dirty' \in [Kind -> BOOLEAN] /\ timer' \in [Kind -> BOOLEAN]
  BY DEF SyncInv, TypeOK, Reconcile
<1>3. PICK s, c, f, t : /\ s = StepFor(k, cache[k]) /\ c = cache[k]
                        /\ f = cacheFresh[k] /\ t = FirstResult(k, cache[k])
  OBVIOUS
<1>4. s \in Step \ {"publish", "update"} /\ (s = "status" => k = "RolloutPolicy")
  BY <1>3, StepForFacts
<1>5. t \in Outcome
  BY <1>3 DEF FirstResult, validateRolloutPolicy, Outcome
<1>6. CASE run' = [run EXCEPT ![k] = Idle]
  BY <1>2, <1>6, IdleIsSound, IdleFields, MoveKeeps DEF Reconcile
<1>7. CASE run' = [run EXCEPT ![k] = [Idle EXCEPT !.step = s, !.view = c, !.fresh = f,
                                                  !.res = t]]
  <2>1. PICK q1 : q1 = [Idle EXCEPT !.step = s]
    OBVIOUS
  <2>2. q1 \in Run /\ q1.step = s /\ Same(Idle, q1, RunField \ {"step"})
    <3>1. s \in Step /\ Idle \in Run
      BY <1>4, IdleFields
    <3> QED
      BY <2>1, <3>1, RunWithStep
  <2>3. PICK q2 : q2 = [q1 EXCEPT !.view = c]
    OBVIOUS
  <2>4. q2 \in Run /\ q2.view = c /\ Same(q1, q2, RunField \ {"view"})
    <3>1. c \in CR /\ q1 \in Run
      BY <1>1, <1>3, <2>2
    <3> QED
      BY <2>3, <3>1, RunWithView
  <2>5. PICK q3 : q3 = [q2 EXCEPT !.fresh = f]
    OBVIOUS
  <2>6. q3 \in Run /\ q3.fresh = f /\ Same(q2, q3, RunField \ {"fresh"})
    <3>1. f \in BOOLEAN /\ q2 \in Run
      BY <1>1, <1>3, <2>4
    <3> QED
      BY <2>5, <3>1, RunWithFresh
  <2>7. PICK q : q = [q3 EXCEPT !.res = t]
    OBVIOUS
  <2>8. q \in Run /\ Same(q3, q, RunField \ {"res"})
    <3>1. t \in Outcome /\ q3 \in Run
      BY <1>5, <2>6
    <3> QED
      BY <2>7, <3>1, RunWithRes
  <2>9. Same(Idle, q, {"got", "flag"})
    BY <2>2, <2>4, <2>6, <2>8 DEF Same, RunField
  <2>10. Same(q1, q, {"step"}) /\ Same(q2, q, {"view"}) /\ Same(q3, q, {"fresh"})
    BY <2>4, <2>6, <2>8 DEF Same, RunField
  <2>11. q.step = s /\ q.view = c /\ q.fresh = f
    BY <2>2, <2>4, <2>6, <2>10 DEF Same
  <2>12. q.flag.gen = 0 /\ \A e \in Slot : q.got[e] = 0
    BY <2>9, IdleFields DEF Same
  <2>13. Sound(k, q)
    <3>1. 0 <= cache["Flag"].gen /\ 0 <= api.snapshot
      <4>1. cache["Flag"] \in CR /\ api \in API
        BY DEF SyncInv, TypeOK, Kind
      <4> QED
        BY <4>1, CRFields, ApiFields, ZeroIsLeast
    <3>2. q.step \notin {"publish", "update"} /\ (q.step = "status" => k = "RolloutPolicy")
      BY <1>4, <2>11
    <3>3. FlagRun(q)
      BY <2>12, SlotFacts DEF FlagRun
    <3>4. BindingRun(q)
      BY <2>12, <3>1, <3>2, ZeroIsLeast DEF BindingRun
    <3>5. k = "FlagSnapshot" => SnapshotRun(q)
      BY <2>12, <3>1, <3>2, SlotFacts DEF SnapshotRun
    <3> QED
      BY <2>8, <3>2, <3>3, <3>4, <3>5 DEF Sound, RunClaims, There
  <2>14. q.fresh => q.view = obj[k]
    BY <1>1, <1>3, <2>11 DEF LagInv
  <2>15. run' = [run EXCEPT ![k] = q]
    BY <1>7, <2>1, <2>3, <2>5, <2>7
  <2> QED
    BY <1>2, <2>13, <2>14, <2>15, MoveKeeps DEF Reconcile
<1> QED
  BY <1>3, <1>6, <1>7 DEF Reconcile

\* The cache is brought up to date, for one kind or for all.
LEMMA CacheKeepsSync ==
    ASSUME SyncInv, cache' \in [Kind -> CR], cacheFresh' \in [Kind -> BOOLEAN],
           \A j \in Kind : \/ cache'[j] = obj[j]
                           \/ cache'[j] = cache[j] /\ cacheFresh'[j] = cacheFresh[j],
           dirty' \in [Kind -> BOOLEAN], timer' \in [Kind -> BOOLEAN],
           upsets' \in 0 .. MaxUpsets,
           run' \in [Kind -> Run],
           \A j \in Kind : run'[j] = run[j] \/ run'[j] = Idle,
           UNCHANGED <<deployed, obj, status, api>>
    PROVE  SyncInv'
<1>1. /\ obj \in [Kind -> CR] /\ cache \in [Kind -> CR] /\ status \in [Kind -> Status]
      /\ run \in [Kind -> Run]
  BY DEF SyncInv, TypeOK
<1>2. TypeOK'
  BY DEF SyncInv, TypeOK
<1>3. ASSUME NEW j \in Kind
      PROVE  /\ obj[j].gen \in Generation /\ cache[j].gen \in Generation
             /\ cache'[j].gen \in Generation
             /\ cache[j].gen <= cache'[j].gen /\ cache'[j].gen <= obj[j].gen
  <2>1. obj[j].gen \in Generation /\ cache[j].gen \in Generation
    BY <1>1, CRFields
  <2>2. cache[j].gen <= obj[j].gen
    BY DEF SyncInv, LagInv
  <2>3. CASE cache'[j] = obj[j]
    BY <2>1, <2>2, <2>3, ZeroIsLeast
  <2>4. CASE cache'[j] = cache[j]
    BY <2>1, <2>2, <2>4, ZeroIsLeast
  <2> QED
    BY <2>3, <2>4
<1>4. ASSUME NEW j \in Kind
      PROVE  LagInv(j)' /\ StatusInv(j)'
  BY <1>3 DEF SyncInv, LagInv, StatusInv, There
<1>5. ASSUME NEW j \in Kind
      PROVE  PassInv(j)'
  <2>1. CASE run'[j] = run[j]
    <3>1. PassInv(j)
      BY DEF SyncInv
    <3> QED
      BY <2>1, <3>1 DEF PassInv, There, Succeeded
  <2>2. CASE run'[j] = Idle
    BY <2>2, IdleFields DEF PassInv
  <2> QED
    BY <2>1, <2>2
<1>6. ASSUME NEW g \in Generation, g <= cache["Flag"].gen
      PROVE  g <= cache'["Flag"].gen
  <2>1. /\ cache["Flag"].gen \in Generation /\ cache'["Flag"].gen \in Generation
        /\ cache["Flag"].gen <= cache'["Flag"].gen
    BY <1>3 DEF Kind
  <2> QED
    BY SMT, <1>6, <2>1, OperatorAssumption DEF Generation
<1>7. ASSUME NEW j \in Kind
      PROVE  RunClaims(j, run[j])'
  <2>1. PICK p : p = run'[j]
    OBVIOUS
  <2>2. p \in Run /\ RunClaims(j, p)
    <3>1. CASE p = run[j]
      BY <1>1, <3>1 DEF SyncInv
    <3>2. CASE p = Idle
      BY <3>2, IdleIsSound DEF Sound
    <3> QED
      BY <2>1, <3>1, <3>2
  <2>3. p.flag.gen \in Generation
    BY <2>2, RunFields, CRFields
  <2>4. j = "FlagBinding" => p.flag.gen <= cache'["Flag"].gen
    BY <1>6, <2>2, <2>3 DEF RunClaims, BindingRun
  <2> QED
    BY <2>1, <2>2, <2>4 DEF RunClaims, FlagRun, BindingRun, SnapshotRun, Succeeded
<1>8. ClaimInv' /\ ApiInv'
  <2>1. ASSUME NEW e \in Slot
        PROVE  status["FlagBinding"].claim[e] <= cache'["Flag"].gen
    <3>1. status["FlagBinding"] \in Status
      BY <1>1 DEF Kind
    <3>2. status["FlagBinding"].claim[e] \in Generation
      BY <3>1, StatusFields
    <3> QED
      BY <1>6, <3>2 DEF SyncInv, ClaimInv
  <2> QED
    BY <2>1 DEF SyncInv, ClaimInv, ApiInv
<1> QED
  BY <1>2, <1>4, <1>5, <1>7, <1>8 DEF SyncInv

\* The watch delivers a CR.
LEMMA DeliverKeepsSync ==
    ASSUME SyncInv, NEW k \in Kind, Deliver(k)
    PROVE  SyncInv'
<1>1. /\ obj \in [Kind -> CR] /\ cache \in [Kind -> CR] /\ run \in [Kind -> Run]
      /\ cacheFresh \in [Kind -> BOOLEAN] /\ dirty \in [Kind -> BOOLEAN]
      /\ timer \in [Kind -> BOOLEAN] /\ upsets \in 0 .. MaxUpsets
  BY DEF SyncInv, TypeOK
<1>2. /\ cache' \in [Kind -> CR] /\ cacheFresh' \in [Kind -> BOOLEAN]
      /\ dirty' \in [Kind -> BOOLEAN]
      /\ \A j \in Kind : \/ cache'[j] = obj[j]
                         \/ cache'[j] = cache[j] /\ cacheFresh'[j] = cacheFresh[j]
  BY <1>1 DEF Deliver
<1> QED
  BY <1>1, <1>2, CacheKeepsSync DEF Deliver

\* The operator restarts.
LEMMA RestartKeepsSync ==
    ASSUME SyncInv, Restart
    PROVE  SyncInv'
<1>1. obj \in [Kind -> CR] /\ upsets \in 0 .. MaxUpsets
  BY DEF SyncInv, TypeOK
<1>2. /\ dirty' \in [Kind -> BOOLEAN] /\ timer' \in [Kind -> BOOLEAN]
      /\ cacheFresh' \in [Kind -> BOOLEAN]
  BY <1>1, CRFields DEF Restart
<1>3. run' \in [Kind -> Run] /\ \A j \in Kind : run'[j] = Idle
  BY IdleFields DEF Restart
<1>4. upsets' \in 0 .. MaxUpsets
  BY <1>1, UpsetType DEF Restart
<1> QED
  BY <1>1, <1>2, <1>3, <1>4, CacheKeepsSync DEF Restart

\* Another client makes the flag or publishes a version of its own.
LEMMA OtherVersionMade ==
    ASSUME api \in API, ApiInv, api.project, NEW b \in BOOLEAN, b = api.flag,
           api' = [api EXCEPT !.flag = TRUE, !.published = b, !.latest = NoTree]
    PROVE  ApiStep
<1>1. PICK a1 : a1 = [api EXCEPT !.flag = TRUE]
  OBVIOUS
<1>2. a1 \in API /\ a1.flag = TRUE /\ Same(api, a1, ApiField \ {"flag"})
  BY <1>1, ApiWithFlag
<1>3. PICK a2 : a2 = [a1 EXCEPT !.published = b]
  OBVIOUS
<1>4. a2 \in API /\ a2.published = b /\ Same(a1, a2, ApiField \ {"published"})
  BY <1>2, <1>3, ApiWithPublished
<1>5. api' = [a2 EXCEPT !.latest = NoTree]
  BY <1>1, <1>3
<1>6. NoTree \in Tree
  BY SMT, ZeroIsLeast, SlotFacts DEF NoTree, Tree
<1>7. api' \in API /\ Same(a2, api', ApiField \ {"latest"})
  BY <1>4, <1>5, <1>6, ApiWithLatest
<1>8. Same(api, api', ApiField \ {"flag", "published", "latest"})
  BY <1>2, <1>4, <1>7 DEF Same
<1>9. api'.flag /\ api'.published = b
  <2>1. api'.flag = a2.flag /\ a2.flag = a1.flag /\ api'.published = a2.published
    BY <1>4, <1>7 DEF Same, ApiField
  <2> QED
    BY <1>2, <1>4, <2>1
<1>10. /\ api'.project = api.project /\ api'.environment = api.environment
       /\ api'.segment = api.segment /\ api'.snapshot = api.snapshot
  BY <1>8 DEF Same, ApiField
<1>11. api.snapshot <= api.snapshot
  BY ApiFields, ZeroIsLeast
<1> QED
  BY <1>7, <1>9, <1>10, <1>11 DEF ApiStep, ApiInv, ApiGrows

\* Another client compiles a snapshot.
LEMMA SnapshotMade ==
    ASSUME api \in API, ApiInv, api.snapshot < MaxGeneration,
           api' = [api EXCEPT !.snapshot = @ + 1]
    PROVE  ApiStep
<1>1. PICK n : n = api.snapshot + 1
  OBVIOUS
<1>2. n \in Generation /\ api.snapshot <= n
  BY SMT, <1>1, ApiFields, OperatorAssumption DEF Generation
<1>3. api' = [api EXCEPT !.snapshot = n]
  BY <1>1
<1>4. api' \in API /\ api'.snapshot = n /\ Same(api, api', ApiField \ {"snapshot"})
  BY <1>2, <1>3, ApiWithSnapshot
<1>5. /\ api'.project = api.project /\ api'.environment = api.environment
      /\ api'.flag = api.flag /\ api'.published = api.published
      /\ api'.segment = api.segment
  BY <1>4 DEF Same, ApiField
<1> QED
  BY <1>2, <1>4, <1>5 DEF ApiStep, ApiInv, ApiGrows

\* Other clients only add to the API.
LEMMA OtherClientStep ==
    ASSUME SyncInv, OtherClient
    PROVE  ApiStep /\ upsets' \in 0 .. MaxUpsets
<1>1. api \in API /\ ApiInv /\ upsets \in 0 .. MaxUpsets
  BY DEF SyncInv, TypeOK
<1>2. CASE api' = [api EXCEPT !.project = TRUE] /\ UNCHANGED upsets
  BY <1>1, <1>2, ProjectMade, UpsetType
<1>3. CASE /\ api.snapshot < MaxGeneration /\ api' = [api EXCEPT !.snapshot = @ + 1]
           /\ UNCHANGED upsets
  BY <1>1, <1>3, SnapshotMade, UpsetType
<1>4. CASE /\ api.project /\ Upset("other")
           /\ api' = [api EXCEPT !.flag = TRUE, !.published = api.flag, !.latest = NoTree]
  <2>1. PICK b \in BOOLEAN : b = api.flag
    BY <1>1, ApiFields
  <2>2. api' = [api EXCEPT !.flag = TRUE, !.published = b, !.latest = NoTree]
    BY <1>4, <2>1
  <2> QED
    BY <1>1, <1>4, <2>1, <2>2, OtherVersionMade, UpsetType
<1>5. CASE /\ api.project /\ Upset("other")
           /\ api' = [api EXCEPT !.segment = TRUE, !.segmentGen = 0]
  BY <1>1, <1>5, SegmentMade, UpsetType, ZeroIsLeast
<1> QED
  BY <1>2, <1>3, <1>4, <1>5 DEF OtherClient

\* And so they keep the invariant.
LEMMA OtherClientKeepsSync ==
    ASSUME SyncInv, OtherClient
    PROVE  SyncInv'
<1>1. /\ ApiStep /\ upsets' \in 0 .. MaxUpsets /\ api \in API
      /\ UNCHANGED <<deployed, obj, status, cache, cacheFresh, dirty, timer, run>>
  BY OtherClientStep DEF SyncInv, TypeOK, OtherClient
<1>2. TypeOK'
  BY <1>1 DEF SyncInv, TypeOK, ApiStep
<1>3. ASSUME NEW j \in Kind
      PROVE  LagInv(j)' /\ StatusInv(j)' /\ PassInv(j)'
  BY <1>1, ThereStays
     DEF SyncInv, LagInv, StatusInv, PassInv, ApiStep, ApiGrows, Succeeded
<1>4. ASSUME NEW j \in Kind
      PROVE  RunClaims(j, run[j])'
  <2>1. PICK p : p = run[j]
    OBVIOUS
  <2>2. p \in Run /\ RunClaims(j, p)
    BY <2>1 DEF SyncInv, TypeOK
  <2>3. RunClaims(j, p)'
    BY <1>1, <2>2, RunClaimsStay
  <2> QED
    BY <1>1, <2>1, <2>3 DEF RunClaims, FlagRun, BindingRun, SnapshotRun, Succeeded
<1>5. ClaimInv'
  <2>1. status["FlagSnapshot"] \in Status
    BY DEF SyncInv, TypeOK, Kind
  <2>2. status["FlagSnapshot"].claim[AnyEnv] \in Generation
    BY <2>1, StatusFields, SlotFacts
  <2>3. status["FlagSnapshot"].claim[AnyEnv] <= api'.snapshot
    BY SMT, <1>1, <2>2, ApiFields, OperatorAssumption
       DEF SyncInv, ClaimInv, ApiStep, ApiGrows, Generation
  <2> QED
    BY <1>1, <2>3 DEF SyncInv, ClaimInv
<1> QED
  BY <1>1, <1>2, <1>3, <1>4, <1>5 DEF SyncInv, ApiStep
-----------------------------------------------------------------------------
(***************************************************************************)
(* The status.                                                             *)
(***************************************************************************)

\* A status with the condition Synced set.
LEMMA SyncedSet ==
    ASSUME NEW st \in Status, NEW v \in Bool3, NEW s, s = setCondition(st, "Synced", v)
    PROVE  /\ s \in Status /\ s.observed = st.observed /\ s.claim = st.claim
           /\ s.synced = v
<1>1. s = [st EXCEPT !.synced = v]
  BY DEF setCondition
<1> QED
  BY SMT, <1>1 DEF Status

\* A status with the condition Ready set.
LEMMA ReadySet ==
    ASSUME NEW st \in Status, NEW v \in Bool3, NEW s, s = setCondition(st, "Ready", v)
    PROVE  /\ s \in Status /\ s.observed = st.observed /\ s.claim = st.claim
           /\ s.synced = st.synced
<1>1. s = [st EXCEPT !.ready = v]
  BY DEF setCondition
<1> QED
  BY SMT, <1>1 DEF Status

\* A status with the condition Extra set.
LEMMA ExtraSet ==
    ASSUME NEW st \in Status, NEW v \in Bool3, NEW s, s = setCondition(st, "Extra", v)
    PROVE  /\ s \in Status /\ s.observed = st.observed /\ s.claim = st.claim
           /\ s.synced = st.synced
<1>1. s = [st EXCEPT !.extra = v]
  BY DEF setCondition
<1> QED
  BY SMT, <1>1 DEF Status

\* A status that observes a generation.
LEMMA StatusWithObserved ==
    ASSUME NEW st \in Status, NEW g \in Generation, NEW s, s = [st EXCEPT !.observed = g]
    PROVE  s \in Status /\ s.observed = g /\ s.claim = st.claim /\ s.synced = st.synced
  BY SMT DEF Status

\* A status that claims versions.
LEMMA StatusWithClaim ==
    ASSUME NEW st \in Status, NEW c \in [Slot -> Generation],
           NEW s, s = [st EXCEPT !.claim = c]
    PROVE  /\ s \in Status /\ s.observed = st.observed /\ s.claim = c
           /\ s.synced = st.synced
  BY SMT DEF Status

\* The status of a pass: the generation is observed, and Synced becomes True,
\* only when the pass succeeded.
LEMMA WithResultFacts ==
    ASSUME NEW st \in Status, NEW g \in Generation, NEW res \in Outcome,
           NEW s, s = WithResult(st, g, res)
    PROVE  /\ s \in Status /\ s.claim = st.claim
           /\ s.observed = IF translateError(res).status = "True" THEN g ELSE st.observed
           /\ s.synced = "True" => translateError(res).status = "True"
                                   \/ st.synced = "True"
<1>1. PICK type, value : type = translateError(res).type
                      /\ value = translateError(res).status
  OBVIOUS
<1>2. type \in {"Synced", "Ready"} /\ value \in {"True", "False"}
  BY <1>1, translateErrorFields
<1>3. PICK s1 : s1 = setCondition(st, type, value)
  OBVIOUS
<1>4. /\ s1 \in Status /\ s1.observed = st.observed /\ s1.claim = st.claim
      /\ s1.synced \in {value, st.synced}
  <2>1. value \in Bool3
    BY <1>2 DEF Bool3
  <2>2. CASE type = "Synced"
    BY SMT, <1>3, <2>1, <2>2, SyncedSet
  <2>3. CASE type = "Ready"
    BY SMT, <1>3, <2>1, <2>3, ReadySet
  <2> QED
    BY <1>2, <2>2, <2>3
<1>5. CASE value = "True"
  <2>1. PICK s2 : s2 = setCondition(s1, "Ready", "True")
    OBVIOUS
  <2>2. s2 \in Status /\ s2.observed = s1.observed /\ s2.claim = s1.claim
    <3>1. s1 \in Status /\ "True" \in Bool3
      BY <1>4 DEF Bool3
    <3> QED
      BY <2>1, <3>1, ReadySet
  <2>3. s = [s2 EXCEPT !.observed = g]
    BY <1>1, <1>3, <1>5, <2>1 DEF WithResult
  <2>4. s \in Status /\ s.observed = g /\ s.claim = s2.claim
    BY SMT, <2>2, <2>3, StatusWithObserved
  <2> QED
    BY <1>1, <1>4, <1>5, <2>2, <2>4
<1>6. CASE value # "True"
  <2>1. s = s1
    BY <1>1, <1>3, <1>6 DEF WithResult
  <2>2. s.observed = IF translateError(res).status = "True" THEN g ELSE st.observed
    BY <1>1, <1>4, <1>6, <2>1
  <2>3. s.synced = "True" => st.synced = "True"
    BY <1>4, <1>6, <2>1
  <2> QED
    BY <1>4, <2>1, <2>2, <2>3
<1> QED
  BY <1>5, <1>6

\* What the status that a pass writes says of existence and generation.
Renews(k, s) ==
    /\ s \in Status
    /\ s.synced = "True" => There(k)
    /\ status[k].observed <= s.observed /\ s.observed <= obj[k].gen

\* What it may claim: nothing that ClaimInv excludes, and nothing older than what
\* was claimed before, except that a FlagBinding drops an environment.
MayClaim(k, c) ==
    /\ c \in [Slot -> Generation]
    /\ k = "Flag" => c[AnyEnv] <= obj["Flag"].gen
    /\ k = "FlagBinding" => \A e \in Slot : c[e] <= cache["Flag"].gen
    /\ k = "FlagSnapshot" => c[AnyEnv] <= api.snapshot /\ \A e \in Env : c[e] = 0
    /\ \A e \in Slot : status[k].claim[e] <= c[e] \/ (k = "FlagBinding" /\ c[e] = 0)

\* A pass that reached its end on a fresh copy.
AtEnd(k, r) == r = run[k] /\ r.step = "status" /\ r.fresh

\* Its status before the fields of the kind.
LEMMA BaseStatusFacts ==
    ASSUME SyncInv, NEW k \in Kind, NEW r, AtEnd(k, r), NEW b, b = BaseStatus(k, r)
    PROVE  Renews(k, b) /\ b.claim = status[k].claim
<1>1. /\ run[k] \in Run /\ status[k] \in Status /\ obj[k] \in CR
      /\ PassInv(k) /\ StatusInv(k)
  BY DEF SyncInv, TypeOK
<1>2. PICK st, g, res : st = status[k] /\ g = r.view.gen /\ res = r.res
  OBVIOUS
<1>3. st \in Status /\ g \in Generation /\ res \in Outcome
  BY <1>1, <1>2, RunFields, CRFields DEF AtEnd
<1>4. b = WithResult(st, g, res)
  BY <1>2 DEF BaseStatus
<1>5. /\ b \in Status /\ b.claim = st.claim
      /\ b.observed = IF translateError(res).status = "True" THEN g ELSE st.observed
      /\ b.synced = "True" => translateError(res).status = "True" \/ st.synced = "True"
  BY SMT, <1>3, <1>4, WithResultFacts
<1>6. g = obj[k].gen
  BY <1>1, <1>2 DEF PassInv, AtEnd
<1>7. translateError(res).status = "True" => There(k)
  BY <1>1, <1>2 DEF PassInv, AtEnd, Succeeded
<1>8. st.observed <= g /\ g <= g /\ st.observed <= st.observed
  BY <1>1, <1>2, <1>3, <1>6, StatusFields, ZeroIsLeast DEF StatusInv
<1>9. b.observed \in {g, st.observed}
  BY <1>5
<1> QED
  BY <1>1, <1>2, <1>5, <1>6, <1>7, <1>8, <1>9 DEF Renews, StatusInv

\* The claims that are already there may stay.
LEMMA OldClaimStays ==
    ASSUME SyncInv, NEW k \in Kind
    PROVE  MayClaim(k, status[k].claim)
<1>1. status[k].claim \in [Slot -> Generation]
  BY StatusFields DEF SyncInv, TypeOK
<1>2. \A e \in Slot : status[k].claim[e] <= status[k].claim[e]
  BY <1>1, ZeroIsLeast
<1> QED
  BY <1>1, <1>2 DEF SyncInv, ClaimInv, MayClaim

\* What a Flag, a FlagBinding and a FlagSnapshot claim after a pass that succeeded.
LEMMA NewClaim ==
    ASSUME SyncInv, NEW k \in Kind, NEW r, AtEnd(k, r)
    PROVE  /\ k = "Flag" /\ r.got[AnyEnv] > 0 =>
                  MayClaim(k, [status[k].claim EXCEPT ![AnyEnv] = r.got[AnyEnv]])
           /\ k = "FlagBinding" => MayClaim(k, r.got)
           /\ k = "FlagSnapshot" /\ Succeeded(r) => MayClaim(k, r.got)
<1>1. /\ r \in Run /\ RunClaims(k, r) /\ status[k] \in Status
      /\ obj[k] \in CR /\ cache["Flag"] \in CR /\ r.view = obj[k]
  BY DEF SyncInv, TypeOK, AtEnd, PassInv, Kind
<1>2. /\ r.got \in [Slot -> Generation] /\ status[k].claim \in [Slot -> Generation]
      /\ obj[k].gen \in Generation /\ cache["Flag"].gen \in Generation
  BY <1>1, RunFields, StatusFields, CRFields
<1>3. ASSUME k = "Flag", r.got[AnyEnv] > 0
      PROVE  MayClaim(k, [status[k].claim EXCEPT ![AnyEnv] = r.got[AnyEnv]])
  <2>1. PICK c : c = [status[k].claim EXCEPT ![AnyEnv] = r.got[AnyEnv]]
    OBVIOUS
  <2>2. /\ c \in [Slot -> Generation] /\ c[AnyEnv] = r.got[AnyEnv]
        /\ \A e \in Slot \ {AnyEnv} : c[e] = status[k].claim[e]
    BY <1>2, <2>1, SlotFacts
  <2>3. r.got[AnyEnv] = obj[k].gen
    BY <1>1, <1>3, ZeroIsLeast DEF RunClaims, FlagRun
  <2>4. status[k].claim[AnyEnv] <= obj[k].gen
    BY <1>3 DEF SyncInv, ClaimInv
  <2>5. \A e \in Slot : status[k].claim[e] <= c[e]
    BY <1>2, <2>2, <2>3, <2>4, ZeroIsLeast
  <2>6. c[AnyEnv] <= obj["Flag"].gen
    BY <1>2, <1>3, <2>2, <2>3, ZeroIsLeast
  <2> QED
    BY <1>3, <2>1, <2>2, <2>5, <2>6 DEF MayClaim
<1>4. ASSUME k = "FlagBinding"
      PROVE  MayClaim(k, r.got)
  <2>1. BindingRun(r) /\ r.flag.gen \in Generation
    BY <1>1, <1>4, RunFields, CRFields DEF RunClaims
  <2>2. ASSUME NEW e \in Slot
        PROVE  /\ r.got[e] <= cache["Flag"].gen
               /\ status[k].claim[e] <= r.got[e] \/ r.got[e] = 0
    <3>1. r.got[e] \in {0, r.flag.gen} /\ r.flag.gen <= cache["Flag"].gen
      BY <2>1 DEF BindingRun
    <3>2. r.got[e] <= cache["Flag"].gen
      BY <1>2, <3>1, ZeroIsLeast
    <3>3. r.got[e] > 0 \/ r.got[e] = 0
      BY SMT, <1>2, OperatorAssumption DEF Generation
    <3> QED
      BY <1>4, <2>1, <3>2, <3>3 DEF BindingRun
  <2> QED
    BY <1>2, <1>4, <2>2 DEF MayClaim
<1>5. ASSUME k = "FlagSnapshot", Succeeded(r)
      PROVE  MayClaim(k, r.got)
  <2>1. /\ r.got[AnyEnv] <= api.snapshot /\ status[k].claim[AnyEnv] <= r.got[AnyEnv]
        /\ \A e \in Env : r.got[e] = 0
    BY <1>1, <1>5 DEF RunClaims, SnapshotRun, AtEnd
  <2>2. \A e \in Env : status[k].claim[e] = 0
    BY <1>5 DEF SyncInv, ClaimInv
  <2>3. 0 <= 0
    BY SMT
  <2>4. \A e \in Slot : status[k].claim[e] <= r.got[e]
    BY <2>1, <2>2, <2>3 DEF Slot
  <2> QED
    BY <1>2, <1>5, <2>1, <2>4 DEF MayClaim
<1> QED
  BY <1>3, <1>4, <1>5

\* The status of any kind.
LEMMA NewStatusFacts ==
    ASSUME SyncInv, NEW k \in Kind, NEW r, AtEnd(k, r), NEW s, s = NewStatus(k, r)
    PROVE  Renews(k, s) /\ MayClaim(k, s.claim)
<1>0. PICK b : b = BaseStatus(k, r)
  OBVIOUS
<1>1. Renews(k, b) /\ b.claim = status[k].claim /\ b \in Status
  BY <1>0, BaseStatusFacts DEF Renews
<1>2. MayClaim(k, b.claim)
  BY <1>1, OldClaimStays
<1>3. r.got \in [Slot -> Generation] /\ b.claim \in [Slot -> Generation]
  <2>1. r \in Run
    BY DEF SyncInv, TypeOK, AtEnd
  <2> QED
    BY <1>1, <2>1, RunFields, StatusFields
<1>4. ASSUME NEW v \in Bool3, NEW x, x = setCondition(b, "Extra", v)
      PROVE  Renews(k, x) /\ x.claim = b.claim /\ x \in Status
  <2>1. /\ x \in Status /\ x.observed = b.observed /\ x.claim = b.claim
        /\ x.synced = b.synced
    BY SMT, <1>1, <1>4, ExtraSet
  <2> QED
    BY <1>1, <2>1 DEF Renews
<1>5. ASSUME NEW x \in Status, Renews(k, x), NEW c, MayClaim(k, c),
             s = [x EXCEPT !.claim = c]
      PROVE  Renews(k, s) /\ MayClaim(k, s.claim)
  <2>1. c \in [Slot -> Generation]
    BY <1>5 DEF MayClaim
  <2>2. s \in Status /\ s.observed = x.observed /\ s.claim = c /\ s.synced = x.synced
    BY SMT, <1>5, <2>1, StatusWithClaim
  <2> QED
    BY <1>5, <2>2 DEF Renews
<1>6. "True" \in Bool3 /\ "False" \in Bool3
  BY DEF Bool3
<1>7. CASE k = "Flag"
  <2>1. s = FlagStatus(r)
    BY <1>7 DEF NewStatus
  <2>2. CASE Succeeded(r) /\ r.got[AnyEnv] > 0
    <3>1. s = [b EXCEPT !.claim[AnyEnv] = r.got[AnyEnv]]
      BY <1>0, <1>7, <2>1, <2>2 DEF FlagStatus
    <3>2. PICK c : c = [b.claim EXCEPT ![AnyEnv] = r.got[AnyEnv]]
      OBVIOUS
    <3>3. s = [b EXCEPT !.claim = c]
      BY <3>1, <3>2
    <3>4. MayClaim(k, c)
      BY <1>1, <1>7, <2>2, <3>2, NewClaim
    <3> QED
      BY <1>1, <1>5, <3>3, <3>4
  <2>3. CASE ~(Succeeded(r) /\ r.got[AnyEnv] > 0)
    BY <1>0, <1>1, <1>2, <1>7, <2>1, <2>3 DEF FlagStatus
  <2> QED
    BY <2>2, <2>3
<1>8. CASE k = "FlagBinding"
  <2>1. s = BindingStatus(r)
    BY <1>8 DEF NewStatus
  <2>2. CASE Succeeded(r)
    <3>1. PICK x : x = setCondition(b, "Extra", "True")
      OBVIOUS
    <3>2. s = [x EXCEPT !.claim = r.got]
      BY <1>0, <1>8, <2>1, <2>2, <3>1 DEF BindingStatus
    <3>3. MayClaim(k, r.got)
      BY <1>8, NewClaim
    <3> QED
      BY <1>4, <1>5, <1>6, <3>1, <3>2, <3>3
  <2>3. CASE ~Succeeded(r)
    BY <1>0, <1>1, <1>2, <1>8, <2>1, <2>3 DEF BindingStatus
  <2> QED
    BY <2>2, <2>3
<1>9. CASE k = "RolloutPolicy"
  <2>1. PICK v : v = IF Succeeded(r) THEN "True" ELSE "False"
    OBVIOUS
  <2>2. v \in Bool3
    BY <1>6, <2>1
  <2>3. s = setCondition(b, "Extra", v)
    BY <1>0, <1>9, <2>1 DEF NewStatus, PolicyStatus
  <2> QED
    BY <1>2, <1>4, <2>2, <2>3
<1>10. CASE k = "FlagSnapshot"
  <2>1. s = SnapshotStatus(r)
    BY <1>10 DEF NewStatus
  <2>2. CASE Succeeded(r)
    <3>1. PICK x : x = setCondition(b, "Extra", "True")
      OBVIOUS
    <3>2. s = [x EXCEPT !.claim = r.got]
      BY <1>0, <1>10, <2>1, <2>2, <3>1 DEF SnapshotStatus
    <3>3. MayClaim(k, r.got)
      BY <1>10, <2>2, NewClaim
    <3> QED
      BY <1>4, <1>5, <1>6, <3>1, <3>2, <3>3
  <2>3. CASE ~Succeeded(r)
    <3>1. s = setCondition(b, "Extra", "False")
      BY <1>0, <1>10, <2>1, <2>3 DEF SnapshotStatus
    <3> QED
      BY <1>2, <1>4, <1>6, <3>1
  <2> QED
    BY <2>2, <2>3
<1>11. CASE k \notin {"Flag", "FlagBinding", "RolloutPolicy", "FlagSnapshot"}
  <2>1. s = b
    BY <1>0, <1>11 DEF NewStatus
  <2> QED
    BY <1>1, <1>2, <2>1
<1> QED
  BY <1>7, <1>8, <1>9, <1>10, <1>11

\* A pass ends, and its status is written unless the copy is outdated.
LEMMA UpdateStatusKeepsSync ==
    ASSUME SyncInv, NEW k \in Kind, UpdateStatus(k)
    PROVE  /\ SyncInv'
           /\ \/ UNCHANGED status
              \/ \E s : /\ Renews(k, s) /\ MayClaim(k, s.claim)
                        /\ status' = [status EXCEPT ![k] = s]
<1>1. /\ timer \in [Kind -> BOOLEAN] /\ dirty \in [Kind -> BOOLEAN]
      /\ cacheFresh \in [Kind -> BOOLEAN] /\ status \in [Kind -> Status]
      /\ run \in [Kind -> Run]
  BY DEF SyncInv, TypeOK
<1>2. timer' \in [Kind -> BOOLEAN] /\ run' = [run EXCEPT ![k] = Idle]
  BY <1>1, ReturnTypes DEF UpdateStatus
<1>3. Sound(k, Idle) /\ Idle.fresh = FALSE /\ Idle \in Run
  BY IdleIsSound, IdleFields
<1>4. CASE UNCHANGED <<status, cacheFresh>>
  BY <1>1, <1>2, <1>3, <1>4, MoveKeeps DEF UpdateStatus
<1>5. CASE /\ run[k].fresh
           /\ \E tick \in BOOLEAN :
                  cacheFresh' = [cacheFresh EXCEPT ![k] = @ /\ ~Changes(k, run[k], tick)]
           /\ status' = [status EXCEPT ![k] = NewStatus(k, run[k])]
  <2>1. PICK r : AtEnd(k, r)
    BY <1>5 DEF AtEnd, UpdateStatus
  <2>2. PICK s : s = NewStatus(k, r)
    OBVIOUS
  <2>3. Renews(k, s) /\ MayClaim(k, s.claim)
    BY <2>1, <2>2, NewStatusFacts
  <2>4. status' = [status EXCEPT ![k] = s]
    BY <1>5, <2>1, <2>2 DEF AtEnd
  <2>5. /\ status' \in [Kind -> Status] /\ status'[k] = s
        /\ \A j \in Kind \ {k} : status'[j] = status[j]
    BY <1>1, <2>3, <2>4 DEF Renews
  <2>6. /\ cacheFresh' \in [Kind -> BOOLEAN]
        /\ \A j \in Kind : cacheFresh'[j] => cacheFresh[j]
    BY <1>1, <1>5
  <2>7. run' \in [Kind -> Run] /\ run'[k] = Idle /\ \A j \in Kind \ {k} : run'[j] = run[j]
    BY <1>1, <1>2, <1>3
  <2>8. UNCHANGED <<deployed, obj, cache, dirty, api, upsets>>
    BY DEF UpdateStatus
  <2>9. TypeOK'
    BY <1>2, <2>5, <2>6, <2>7, <2>8 DEF SyncInv, TypeOK
  <2>10. ASSUME NEW j \in Kind
         PROVE  LagInv(j)'
    BY <2>6, <2>8 DEF SyncInv, LagInv
  <2>11. ASSUME NEW j \in Kind
         PROVE  StatusInv(j)'
    <3>1. CASE j = k
      BY <2>3, <2>5, <2>8, <3>1 DEF StatusInv, Renews, There
    <3>2. CASE j # k
      BY <2>5, <2>8, <3>2 DEF SyncInv, StatusInv, There
    <3> QED
      BY <3>1, <3>2
  <2>12. ASSUME NEW j \in Kind
         PROVE  PassInv(j)'
    <3>1. CASE j = k
      BY <1>3, <2>7, <2>8, <3>1 DEF PassInv, Sound, There
    <3>2. CASE j # k
      <4>1. PassInv(j) /\ run'[j] = run[j]
        BY <2>7, <3>2 DEF SyncInv
      <4> QED
        BY <2>8, <4>1 DEF PassInv, There, Succeeded
    <3> QED
      BY <3>1, <3>2
  <2>13. ASSUME NEW j \in Kind
         PROVE  RunClaims(j, run[j])'
    <3>1. CASE j = k
      <4>1. 0 <= cache["Flag"].gen /\ 0 <= api.snapshot
        <5>1. cache["Flag"] \in CR /\ api \in API
          BY DEF SyncInv, TypeOK, Kind
        <5> QED
          BY <5>1, CRFields, ApiFields, ZeroIsLeast
      <4>2. /\ Idle.step = "idle" /\ Idle.flag.gen = 0
            /\ \A e \in Slot : Idle.got[e] = 0
        BY IdleFields
      <4>3. PICK p : p = run'[j]
        OBVIOUS
      <4>4. p.step = "idle" /\ p.flag.gen = 0 /\ \A e \in Slot : p.got[e] = 0
        BY <2>7, <3>1, <4>2, <4>3
      <4>5. FlagRun(p)' /\ BindingRun(p)' /\ SnapshotRun(p)'
        BY <2>8, <4>1, <4>4, SlotFacts, ZeroIsLeast DEF FlagRun, BindingRun, SnapshotRun
      <4> QED
        BY <4>3, <4>5 DEF RunClaims, FlagRun, BindingRun, SnapshotRun, Succeeded
    <3>2. CASE j # k
      <4>1. PICK p : p = run[j]
        OBVIOUS
      <4>2. RunClaims(j, p) /\ run'[j] = p
        BY <2>7, <3>2, <4>1 DEF SyncInv
      <4>3. status'[j] = status[j]
        BY <2>5, <3>2
      <4> QED
        BY <2>8, <4>2, <4>3 DEF RunClaims, FlagRun, BindingRun, SnapshotRun, Succeeded
    <3> QED
      BY <3>1, <3>2
  <2>14. ClaimInv'
    <3>1. "Flag" \in Kind /\ "FlagBinding" \in Kind /\ "FlagSnapshot" \in Kind
      BY DEF Kind
    <3>2. status'["Flag"].claim[AnyEnv] <= obj["Flag"].gen
      BY <2>3, <2>5, <3>1 DEF SyncInv, ClaimInv, MayClaim
    <3>3. \A e \in Slot : status'["FlagBinding"].claim[e] <= cache["Flag"].gen
      BY <2>3, <2>5, <3>1 DEF SyncInv, ClaimInv, MayClaim
    <3>4. /\ status'["FlagSnapshot"].claim[AnyEnv] <= api.snapshot
          /\ \A e \in Env : status'["FlagSnapshot"].claim[e] = 0
      BY <2>3, <2>5, <3>1 DEF SyncInv, ClaimInv, MayClaim
    <3> QED
      BY <2>8, <3>2, <3>3, <3>4 DEF ClaimInv
  <2>15. ApiInv'
    BY <2>8 DEF SyncInv, ApiInv
  <2>16. SyncInv'
    BY <2>9, <2>10, <2>11, <2>12, <2>13, <2>14, <2>15 DEF SyncInv
  <2> QED
    BY <2>3, <2>4, <2>16
<1> QED
  BY <1>4, <1>5 DEF UpdateStatus
-----------------------------------------------------------------------------
(***************************************************************************)
(* The theorems.                                                           *)
(***************************************************************************)

\* Every step keeps the invariant.
LEMMA NextSyncInv ==
    ASSUME SyncInv, [Next]_vars
    PROVE  SyncInv'
<1>1. CASE UNCHANGED vars
  <2>1. TypeOK' /\ ApiInv' /\ ClaimInv'
    BY <1>1 DEF vars, SyncInv, TypeOK, ApiInv, ClaimInv
  <2>2. ASSUME NEW k \in Kind
        PROVE  LagInv(k)' /\ StatusInv(k)' /\ PassInv(k)'
    BY <1>1 DEF vars, SyncInv, LagInv, StatusInv, PassInv, There, Succeeded
  <2>3. ASSUME NEW k \in Kind
        PROVE  RunClaims(k, run[k])'
    <3>1. RunClaims(k, run[k])
      BY DEF SyncInv
    <3> QED
      BY <1>1, <3>1
         DEF vars, RunClaims, FlagRun, BindingRun, SnapshotRun, Succeeded
  <2> QED
    BY <2>1, <2>2, <2>3 DEF SyncInv
<1>2. ASSUME NEW k \in Kind, Work(k)
      PROVE  SyncInv'
  BY <1>2, ReconcileKeepsSync, UpdateFinalizerKeepsSync, SyncKeeps,
     UpdateStatusKeepsSync DEF Work
<1> QED
  BY <1>1, <1>2, ApplyKeepsSync, DeleteKeepsSync, DeliverKeepsSync,
     APIUnavailableKeeps, OtherClientKeepsSync, RestartKeepsSync DEF Next

\* And it holds at the start.
LEMMA InitSyncInv ==
    ASSUME Init
    PROVE  SyncInv
<1>1. /\ NoCR \in CR /\ NoCR.gen = 0 /\ Idle \in Run /\ Idle.step = "idle"
      /\ Idle.fresh = FALSE /\ Idle.flag.gen = 0
      /\ \A e \in Slot : Idle.got[e] = 0
  BY IdleFields
<1>2. /\ NoStatus \in Status /\ NoStatus.synced = "none" /\ NoStatus.observed = 0
      /\ \A e \in Slot : NoStatus.claim[e] = 0
  BY SMT, ZeroIsLeast DEF NoStatus, Status, Bool3
<1>3. /\ api \in API /\ api.environment = FALSE /\ api.segment = FALSE
      /\ api.flag = FALSE /\ api.published = FALSE /\ api.snapshot = 0
  <2>1. deployed \in Deployment
    BY OperatorAssumption DEF Init
  <2>2. deployed.project \in BOOLEAN
    BY SMT, <2>1 DEF Deployment
  <2>3. NoTree \in Tree
    BY SMT, ZeroIsLeast, SlotFacts DEF NoTree, Tree
  <2> QED
    BY SMT, <2>2, <2>3, ZeroIsLeast DEF Init, API
<1>4. 0 \in 0 .. MaxUpsets
  BY SMT, OperatorAssumption
<1>5. TypeOK
  BY <1>1, <1>2, <1>3, <1>4 DEF Init, TypeOK
<1>6. ApiInv
  BY <1>3 DEF ApiInv
<1>7. 0 <= 0
  BY SMT
<1>8. ASSUME NEW k \in Kind
      PROVE  LagInv(k) /\ PassInv(k) /\ StatusInv(k)
  BY <1>1, <1>2, <1>7 DEF Init, LagInv, PassInv, StatusInv
<1>9. "Flag" \in Kind /\ "FlagBinding" \in Kind /\ "FlagSnapshot" \in Kind
  BY DEF Kind
<1>10. ASSUME NEW k \in Kind
       PROVE  RunClaims(k, run[k])
  <2>1. PICK p : p = run[k]
    OBVIOUS
  <2>2. p.step = "idle" /\ p.flag.gen = 0 /\ \A e \in Slot : p.got[e] = 0
    BY <1>1, <2>1 DEF Init
  <2>3. 0 <= cache["Flag"].gen /\ 0 <= api.snapshot
    BY <1>1, <1>3, <1>7, <1>9 DEF Init
  <2>4. FlagRun(p) /\ BindingRun(p) /\ SnapshotRun(p)
    BY <2>2, <2>3, SlotFacts, ZeroIsLeast DEF FlagRun, BindingRun, SnapshotRun
  <2> QED
    BY <2>1, <2>4 DEF RunClaims
<1>11. ClaimInv
  BY <1>1, <1>2, <1>3, <1>7, <1>9, SlotFacts DEF Init, ClaimInv
<1> QED
  BY <1>5, <1>6, <1>8, <1>10, <1>11 DEF SyncInv

\* What the cache, the passes and the statuses say of each other is an invariant,
\* for every deployment, any number of generations and any number of upsets.
THEOREM SyncInvariant == Spec => []SyncInv
<1>1. Init => SyncInv
  BY InitSyncInv
<1>2. SyncInv /\ [Next]_vars => SyncInv'
  BY NextSyncInv
<1> QED
  BY <1>1, <1>2, PTL DEF Spec

\* In particular every variable keeps its type.
THEOREM OperatorTypes == Spec => []TypeOK
<1>1. SyncInv => TypeOK
  BY DEF SyncInv
<1> QED
  BY <1>1, SyncInvariant, PTL

\* Synced=True is never a false claim of existence, though AlreadyExists is taken
\* for success, answers are lost and passes work on stale copies.
THEOREM SyncedAlwaysExists == Spec => []SyncedMeansExists
<1>1. SyncInv => SyncedMeansExists
  <2> SUFFICES ASSUME SyncInv
               PROVE  SyncedMeansExists
    OBVIOUS
  <2>1. ASSUME NEW k \in Kind, status[k].synced = "True"
        PROVE  There(k)
    BY <2>1 DEF SyncInv, StatusInv
  <2> QED
    BY <2>1 DEF SyncedMeansExists, There, Kind
<1> QED
  BY <1>1, SyncInvariant, PTL

\* Of the steps only UpdateStatus writes a status.
LEMMA StatusSteps ==
    ASSUME SyncInv, Next
    PROVE  UNCHANGED status \/ \E k \in Kind : UpdateStatus(k)
<1>1. ASSUME NEW k \in Kind, Sync(k)
      PROVE  UNCHANGED status
  BY <1>1 DEF Sync, ProjectSync, EnvironmentSync, SegmentSync, FlagEnsure,
              FlagResolveRollouts, FlagPublish, BindingFetchFlag, BindingPublish,
              SnapshotLatest, Answered, Continue
<1>2. ASSUME NEW k \in Kind, Reconcile(k) \/ UpdateFinalizer(k)
      PROVE  UNCHANGED status
  BY <1>2 DEF Reconcile, UpdateFinalizer
<1>3. ASSUME NEW k \in Kind, Apply(k) \/ Delete(k) \/ Deliver(k) \/ APIUnavailable(k)
      PROVE  UNCHANGED status
  BY <1>3 DEF Apply, Delete, Deliver, APIUnavailable, Continue
<1>4. OtherClient \/ Restart => UNCHANGED status
  BY DEF OtherClient, Restart
<1> QED
  BY <1>1, <1>2, <1>3, <1>4 DEF Next, Work

\* A status never goes back to an older generation, version or snapshot: a pass
\* writes it only on a fresh copy, so what it observes is the newest generation,
\* and what it claims is what it published or read after the last claim.
THEOREM StatusOnlyAdvances == Spec => StatusNeverGoesBack
<1> DEFINE Advances ==
        \A k \in Kind :
            /\ status'[k].observed >= status[k].observed
            /\ \A e \in Slot :
                   \/ status'[k].claim[e] >= status[k].claim[e]
                   \/ k = "FlagBinding" /\ status'[k].claim[e] = 0
<1>1. ASSUME SyncInv, [Next]_vars
      PROVE  [Advances]_vars
  <2>1. ASSUME NEW g \in Generation, NEW h \in Generation, g <= h
        PROVE  h >= g
    BY SMT, <2>1, OperatorAssumption DEF Generation
  <2>2. status \in [Kind -> Status]
    BY <1>1 DEF SyncInv, TypeOK
  <2>3. CASE UNCHANGED status
    <3>1. ASSUME NEW k \in Kind
          PROVE  /\ status[k].observed >= status[k].observed
                 /\ \A e \in Slot : status[k].claim[e] >= status[k].claim[e]
      <4>1. /\ status[k].observed \in Generation
            /\ status[k].claim \in [Slot -> Generation]
        BY <2>2, StatusFields
      <4> QED
        BY <2>1, <4>1, ZeroIsLeast
    <3> QED
      BY <2>3, <3>1
  <2>4. ASSUME NEW j \in Kind, UpdateStatus(j), ~UNCHANGED status
        PROVE  Advances
    <3>1. PICK s : /\ Renews(j, s) /\ MayClaim(j, s.claim)
                   /\ status' = [status EXCEPT ![j] = s]
      BY <1>1, <2>4, UpdateStatusKeepsSync
    <3>2. s \in Status /\ status'[j] = s /\ \A k \in Kind \ {j} : status'[k] = status[k]
      BY <2>2, <3>1 DEF Renews
    <3>3. ASSUME NEW k \in Kind
          PROVE  /\ status[k].observed <= status'[k].observed
                 /\ \A e \in Slot : \/ status[k].claim[e] <= status'[k].claim[e]
                                    \/ k = "FlagBinding" /\ status'[k].claim[e] = 0
      <4>1. CASE k = j
        BY <3>1, <3>2, <4>1 DEF Renews, MayClaim
      <4>2. CASE k # j
        <5>1. /\ status[k].observed \in Generation
              /\ status[k].claim \in [Slot -> Generation]
          BY <2>2, StatusFields
        <5> QED
          BY <3>2, <4>2, <5>1, ZeroIsLeast
      <4> QED
        BY <4>1, <4>2
    <3>4. ASSUME NEW k \in Kind
          PROVE  /\ status[k].observed \in Generation
                 /\ status'[k].observed \in Generation
                 /\ status[k].claim \in [Slot -> Generation]
                 /\ status'[k].claim \in [Slot -> Generation]
      <4>1. status[k] \in Status /\ status'[k] \in Status
        BY <2>2, <3>2
      <4> QED
        BY <4>1, StatusFields
    <3> QED
      BY <2>1, <3>3, <3>4
  <2>5. CASE UNCHANGED vars
    BY <2>5
  <2> QED
    BY <1>1, <2>3, <2>4, <2>5, StatusSteps
<1> QED
  BY <1>1, SyncInvariant, PTL DEF Spec, StatusNeverGoesBack
=============================================================================
