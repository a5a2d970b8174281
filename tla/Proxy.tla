------------------------------- MODULE Proxy --------------------------------
(***************************************************************************)
(* The evaluation proxy (internal/proxy), composed with the Go SDK client  *)
(* it embeds: one starter, whose context is the one the proxy runs under,  *)
(* and readers that are HTTP handlers.                                     *)
(***************************************************************************)
EXTENDS SdkGo

CONSTANT Main       \* the goroutine that calls Run

ASSUME MainAssumption == Starter = {Main}

VARIABLES
    configured,     \* a project slug was given, so there is an SDK client
    run,            \* how far Run has come
    answer          \* the latest answer each HTTP client got

proxy == <<configured, run, answer>>
proxyVars == <<vars, proxy>>

Path == {"none", "/readyz", "/v1/evaluate", "/v1/snapshot"}

\* version: the snapshot an answer was made from, 0 for none.
Answer == [path : Path, status : {0, 200, 503}, version : Nat]

ProxyTypeOK ==
    /\ TypeOK
    /\ configured \in BOOLEAN
    /\ run \in {"new", "starting", "serving", "draining", "returned"}
    /\ answer \in [Reader -> Answer]

New ==
    /\ Init
    /\ configured \in BOOLEAN
    /\ run = "new"
    /\ answer = [r \in Reader |-> [path |-> "none", status |-> 0, version |-> 0]]
-----------------------------------------------------------------------------
(***************************************************************************)
(* Run.                                                                    *)
(***************************************************************************)

RunStart ==
    /\ run = "new" /\ configured
    /\ Start(Main)
    /\ run' = "starting"
    /\ UNCHANGED <<configured, answer>>

\* Mutant: Run gives up when the first poll failed.
RunListenStrict ==
    /\ \/ run = "new" /\ ~configured
       \/ run = "starting" /\ at[Main] \in {"waiting", "done"}
    /\ run' = "serving"
    /\ UNCHANGED <<vars, configured, answer>>

\* Start has returned, with an error or without, or there is no client.
RunListen ==
    /\ \/ run = "new" /\ ~configured
       \/ run = "starting" /\ at[Main] # "starting"
    /\ run' = "serving"
    /\ UNCHANGED <<vars, configured, answer>>

\* SIGINT or SIGTERM: the context Run was given is done.
Signal ==
    /\ Main \notin cancelled
    /\ Cancel(Main)
    /\ UNCHANGED proxy

\* srv.Shutdown: no new requests, ten seconds for those under way.
RunShutdown ==
    /\ run = "serving" /\ Main \in cancelled
    /\ run' = "draining"
    /\ UNCHANGED <<vars, configured, answer>>

\* Mutant: the client is not stopped when Run returns.
RunReturnsUnstopped ==
    /\ run \in {"serving", "draining"}
    /\ run' = "returned"
    /\ UNCHANGED <<vars, configured, answer>>

\* Shutdown is over, or ListenAndServe returned an error; the deferred Stop.
RunReturns ==
    /\ run \in {"serving", "draining"}
    /\ run' = "returned"
    /\ IF configured THEN Stop ELSE UNCHANGED vars
    /\ UNCHANGED <<configured, answer>>
-----------------------------------------------------------------------------
(***************************************************************************)
(* The handlers.  Each loads the client's pointer once; handleEvaluate     *)
(* works on after it has.  A body it cannot use is answered with a 400,    *)
(* before the pointer is loaded, and leaves no trace.                      *)
(***************************************************************************)

Respond(r, path, status, version) ==
    answer' = [answer EXCEPT ![r] =
                   [path |-> path, status |-> status, version |-> version]]

\* 200 in any case; the body says whether a snapshot is loaded.
HandleReady(r) ==
    /\ run = "serving" /\ held[r] = <<>>
    /\ Respond(r, "/readyz", 200, snap.version)
    /\ UNCHANGED <<vars, configured, run>>

\* no_project_configured or no_snapshot: 503.
HandleSnapshotInfo(r) ==
    /\ run = "serving" /\ held[r] = <<>>
    /\ Respond(r, "/v1/snapshot", IF snap.version > 0 THEN 200 ELSE 503, snap.version)
    /\ UNCHANGED <<vars, configured, run>>

HandleEvaluateUnconfigured(r) ==
    /\ run = "serving" /\ ~configured /\ held[r] = <<>>
    /\ Respond(r, "/v1/evaluate", 503, 0)
    /\ UNCHANGED <<vars, configured, run>>

HandleEvaluateBegin(r) ==
    /\ run = "serving" /\ configured
    /\ LoadPointer(r)
    /\ UNCHANGED proxy

\* Substitutes the caller's default for a nil value and answers 200, with a
\* snapshot or without.
HandleEvaluate(r, f) ==
    /\ run \in {"serving", "draining"} /\ held[r] # <<>>
    /\ \E d \in Evaluate(held[r], f) :
           /\ decision' = [decision EXCEPT ![r] = d]
           /\ Respond(r, "/v1/evaluate", 200, d.version)
    /\ held' = [held EXCEPT ![r] = <<>>]
    /\ UNCHANGED <<stored, client, configured, run>>
-----------------------------------------------------------------------------
ProxyNext ==
    \/ UNCHANGED proxy /\ (\E F \in SUBSET Flag : CompileSnapshot(F))
    \/ UNCHANGED proxy /\ Poll(Main)
    \/ RunStart \/ RunListen \/ Signal \/ RunShutdown \/ RunReturns
    \/ \E r \in Reader :
           \/ HandleReady(r) \/ HandleSnapshotInfo(r)
           \/ HandleEvaluateUnconfigured(r) \/ HandleEvaluateBegin(r)
           \/ \E f \in Flag : HandleEvaluate(r, f)

ProxySpec == New /\ [][ProxyNext]_proxyVars

\* Run goes on when it can, and so does the client it embeds.  Nobody has to
\* send a signal or a request, and ListenAndServe need not fail.
ProxyFairSpec ==
    /\ ProxySpec
    /\ WF_proxyVars(RunStart)
    /\ WF_proxyVars(RunListen)
    /\ WF_proxyVars(RunShutdown)
    /\ WF_proxyVars(run = "draining" /\ RunReturns)
    /\ PollFairness(Main)
-----------------------------------------------------------------------------
(***************************************************************************)
(* Properties.                                                             *)
(***************************************************************************)

\* An HTTP client that sends one request after another never gets an answer
\* from an older snapshot than the one before, nor from none after it has seen
\* one, whatever polls fail in between.
AnswersNeverGoBack ==
    [][\A r \in Reader : answer'[r].version >= answer[r].version]_proxyVars

\* A proxy that Run has returned from leaves no polling goroutine behind, also
\* when it returns because it could not listen and its context lives on.
NoLoopIsLeftBehind == (run = "returned") ~> (at[Main] \notin {"waiting", "polling"})

\* A configured proxy comes to serve: a failed first poll does not keep it
\* from listening (Run logs the error of Start and goes on).
ProxyServes == (run = "starting") ~> (run \in {"serving", "draining", "returned"})

\* internal/proxy/proxy.go:79: after a failed first poll, the proxy is without
\* a snapshot "until next poll".  There is no next poll.
ProxyRecovers ==
    (run = "serving" /\ configured /\ stored # <<>>)
        ~> (snap.version > 0 \/ run # "serving")
=============================================================================
