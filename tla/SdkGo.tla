------------------------------- MODULE SdkGo --------------------------------
(***************************************************************************)
(* The Go SDK (internal/sdkgo): a client that polls the latest snapshot of *)
(* a project and evaluates flags against the one it has loaded.            *)
(*                                                                         *)
(* A starter is a goroutine that calls Start with a context of its own and *)
(* the polling loop this Start spawns; nothing stops a program from        *)
(* calling Start twice.  A reader is a goroutine that evaluates.  What a   *)
(* snapshot says about a flag is identified by the snapshot's version, and *)
(* so is the value a flag evaluates to; 0 is the nil value, for which a    *)
(* provider substitutes the caller's default.                              *)
(***************************************************************************)
EXTENDS Integers, Sequences

CONSTANTS
    Flag,         \* flag keys
    Broken,       \* the flags whose stored configuration does not compile here
    Starter,
    Reader,
    Polling,      \* whether PollInterval is positive
    MaxVersion    \* bounds the snapshots the API stores

ASSUME SdkAssumption ==
    /\ Broken \subseteq Flag
    /\ Polling \in BOOLEAN
    /\ MaxVersion \in Nat

VARIABLES
    stored,       \* the flags of each snapshot of the project, by version
    snap,         \* the snapshot the client points to
    stopped,      \* stopCh is closed
    cancelled,    \* the starters whose context is done
    at,           \* where each starter is
    response,     \* the response to each starter's request
    held,         \* the pointer each evaluation has loaded
    decision      \* the latest decision each reader was given

client == <<snap, stopped, cancelled, at, response>>
readers == <<held, decision>>
vars == <<stored, client, readers>>
-----------------------------------------------------------------------------
Snapshot == [version : Nat, flags : SUBSET Flag]

\* The nil pointer: versions begin with 1.
NoSnapshot == [version |-> 0, flags |-> {}]

Place == {"idle", "starting", "failed", "waiting", "polling", "done"}

\* 200 with a body, 404, or anything that makes pollOnce return an error.
Outcome == {"none", "ok", "not_found", "error"}

Response == [outcome : Outcome, body : Snapshot]

NoResponse == [outcome |-> "none", body |-> NoSnapshot]

Reason == {"default", "matched", "type_mismatch", "error"}

Decision == [flag : Flag, reason : Reason, version : Nat, value : Nat]

TypeOK ==
    /\ stored \in Seq(SUBSET Flag)
    /\ snap \in Snapshot
    /\ stopped \in BOOLEAN
    /\ cancelled \subseteq Starter
    /\ at \in [Starter -> Place]
    /\ response \in [Starter -> Response]
    /\ held \in [Reader -> Snapshot \cup {<<>>}]
    /\ decision \in [Reader -> Decision \cup {<<>>}]

\* NewClient: nothing is loaded and nobody polls.
NewClient ==
    /\ snap = NoSnapshot
    /\ stopped = FALSE
    /\ cancelled = {}
    /\ at = [s \in Starter |-> "idle"]
    /\ response = [s \in Starter |-> NoResponse]

Init ==
    /\ stored = <<>>
    /\ NewClient
    /\ held = [r \in Reader |-> <<>>]
    /\ decision = [r \in Reader |-> <<>>]
-----------------------------------------------------------------------------
(***************************************************************************)
(* The API: snapshots are appended, and a poll is answered from the latest *)
(* one.  ControlPlane says how they get there.                             *)
(***************************************************************************)

CompileSnapshot(F) ==
    /\ Len(stored) < MaxVersion
    /\ stored' = Append(stored, F)
    /\ UNCHANGED <<client, readers>>

InFlight(s) == at[s] \in {"starting", "polling"}

Latest == [version |-> Len(stored), flags |-> stored[Len(stored)]]

\* Mutant: the snapshot comes from a replica that lags behind.
GetLatestSnapshotLagging(s) ==
    /\ InFlight(s) /\ response[s].outcome = "none" /\ s \notin cancelled
    /\ \E v \in 1 .. Len(stored) :
           response' = [response EXCEPT ![s] =
               [outcome |-> "ok", body |-> [version |-> v, flags |-> stored[v]]]]
    /\ UNCHANGED <<stored, snap, stopped, cancelled, at, readers>>

GetLatestSnapshot(s) ==
    /\ InFlight(s) /\ response[s].outcome = "none" /\ s \notin cancelled
    /\ response' = [response EXCEPT ![s] =
           IF stored = <<>> THEN [outcome |-> "not_found", body |-> NoSnapshot]
                            ELSE [outcome |-> "ok", body |-> Latest]]
    /\ UNCHANGED <<stored, snap, stopped, cancelled, at, readers>>

\* No connection, another status, a context that is done, or a body that
\* breaks off while it is decoded.
PollFails(s) ==
    /\ InFlight(s) /\ response[s].outcome \in {"none", "ok"}
    /\ response' = [response EXCEPT ![s] =
                        [outcome |-> "error", body |-> NoSnapshot]]
    /\ UNCHANGED <<stored, snap, stopped, cancelled, at, readers>>
-----------------------------------------------------------------------------
(***************************************************************************)
(* Start, the loop, and Stop.                                              *)
(***************************************************************************)

\* A caller may try again after an error.
Start(s) ==
    /\ at[s] \in {"idle", "failed"}
    /\ at' = [at EXCEPT ![s] = "starting"]
    /\ UNCHANGED <<stored, snap, stopped, cancelled, response, readers>>

\* The flags that compile; the others are logged and left out.
Usable(F) == F \ Broken

\* Mutant: the flags are added to the map that is already there.
LoadMerged(resp) ==
    snap' = IF resp.outcome = "ok"
            THEN [version |-> resp.body.version,
                  flags |-> snap.flags \cup Usable(resp.body.flags)]
            ELSE snap

\* Mutant: an error clears the cache.
LoadForgetful(resp) ==
    snap' = CASE resp.outcome = "ok" ->
                     [version |-> resp.body.version, flags |-> Usable(resp.body.flags)]
              [] resp.outcome = "not_found" -> snap
              [] resp.outcome = "error" -> NoSnapshot

\* The rest of pollOnce: a body that decodes replaces the whole pointer, a 404
\* or an error keeps what is there.
Load(resp) ==
    snap' = IF resp.outcome = "ok"
            THEN [version |-> resp.body.version, flags |-> Usable(resp.body.flags)]
            ELSE snap

\* Mutant: an error of a later poll ends the loop as well.
AfterPollGivesUp(s) ==
    IF response[s].outcome = "error" THEN "failed"
    ELSE IF at[s] = "polling" \/ Polling THEN "waiting" ELSE "done"

\* The first poll decides whether there is a loop; a later one only logs.
AfterPoll(s) ==
    CASE at[s] = "polling" -> "waiting"
      [] at[s] = "starting" /\ response[s].outcome = "error" -> "failed"
      [] at[s] = "starting" /\ response[s].outcome # "error" ->
             IF Polling THEN "waiting" ELSE "done"

PollReturns(s) ==
    /\ InFlight(s) /\ response[s].outcome # "none"
    /\ Load(response[s])
    /\ at' = [at EXCEPT ![s] = AfterPoll(s)]
    /\ response' = [response EXCEPT ![s] = NoResponse]
    /\ UNCHANGED <<stored, stopped, cancelled, readers>>

\* The select of the loop takes any case that is ready, a tick also after Stop.
Tick(s) ==
    /\ at[s] = "waiting"
    /\ at' = [at EXCEPT ![s] = "polling"]
    /\ UNCHANGED <<stored, snap, stopped, cancelled, response, readers>>

\* Mutant: the loop looks at the context only.
LoopReturnsOnCancel(s) ==
    /\ at[s] = "waiting" /\ s \in cancelled
    /\ at' = [at EXCEPT ![s] = "done"]
    /\ UNCHANGED <<stored, snap, stopped, cancelled, response, readers>>

LoopReturns(s) ==
    /\ at[s] = "waiting" /\ (stopped \/ s \in cancelled)
    /\ at' = [at EXCEPT ![s] = "done"]
    /\ UNCHANGED <<stored, snap, stopped, cancelled, response, readers>>

Stop ==
    /\ stopped' = TRUE
    /\ UNCHANGED <<stored, snap, cancelled, at, response, readers>>

Cancel(s) ==
    /\ cancelled' = cancelled \cup {s}
    /\ UNCHANGED <<stored, snap, stopped, at, response, readers>>
-----------------------------------------------------------------------------
(***************************************************************************)
(* Evaluation.                                                             *)
(***************************************************************************)

\* What eval.Evaluate may return for a flag of snapshot p: a value, or an
\* error, which leaves the value nil.
Evaluated(p, f) ==
    [flag : {f}, reason : Reason, version : {p.version}, value : {p.version}]
    \cup [flag : {f}, reason : {"error"}, version : {p.version}, value : {0}]

\* Client.Evaluate once it has loaded the pointer p.
Evaluate(p, f) ==
    CASE p.version = 0 ->
             {[flag |-> f, reason |-> "error", version |-> 0, value |-> 0]}
      [] p.version > 0 /\ f \notin p.flags ->
             {[flag |-> f, reason |-> "default", version |-> p.version, value |-> 0]}
      [] p.version > 0 /\ f \in p.flags -> Evaluated(p, f)

\* Substitutes the caller's default and says so, unless there was an error.
Mismatched(d) ==
    [flag |-> d.flag, version |-> d.version, value |-> 0,
     reason |-> IF d.reason = "error" THEN "error" ELSE "type_mismatch"]

\* A nil value has no type; another one may have the type asked for or not.
Typed(d) == {Mismatched(d)} \cup (IF d.value = 0 THEN {} ELSE {d})

LoadPointer(r) ==
    /\ held[r] = <<>>
    /\ held' = [held EXCEPT ![r] = snap]
    /\ UNCHANGED <<stored, client, decision>>

\* Mutant: the version is read from the pointer a second time.
ResolveReloading(r, f) ==
    /\ held[r] # <<>>
    /\ \E d \in UNION {Typed(e) : e \in Evaluate(held[r], f)} :
           decision' = [decision EXCEPT ![r] = [d EXCEPT !.version = snap.version]]
    /\ held' = [held EXCEPT ![r] = <<>>]
    /\ UNCHANGED <<stored, client>>

\* BooleanEvaluation, StringEvaluation, NumberEvaluation, ObjectEvaluation.
Resolve(r, f) ==
    /\ held[r] # <<>>
    /\ \E d \in UNION {Typed(e) : e \in Evaluate(held[r], f)} :
           decision' = [decision EXCEPT ![r] = d]
    /\ held' = [held EXCEPT ![r] = <<>>]
    /\ UNCHANGED <<stored, client>>
-----------------------------------------------------------------------------
\* What a starter does once Start has been called.
Poll(s) ==
    GetLatestSnapshot(s) \/ PollFails(s) \/ PollReturns(s) \/ Tick(s) \/ LoopReturns(s)

Next ==
    \/ \E F \in SUBSET Flag : CompileSnapshot(F)
    \/ \E s \in Starter : Start(s) \/ Poll(s) \/ Cancel(s)
    \/ Stop
    \/ \E r \in Reader : LoadPointer(r) \/ \E f \in Flag : Resolve(r, f)

Spec == Init /\ [][Next]_vars

(***************************************************************************)
(* A goroutine that can go on does.  The select of the loop chooses among  *)
(* the ready cases at random, so a return that is ready at every turn is   *)
(* taken in the end.  Requests are answered or fail, and they do not fail  *)
(* for ever: the second is what "after the API recovers" means.            *)
(***************************************************************************)
PollFairness(s) ==
    /\ WF_vars(PollReturns(s))
    /\ WF_vars(Tick(s) \/ LoopReturns(s))
    /\ SF_vars(LoopReturns(s))
    /\ WF_vars(GetLatestSnapshot(s) \/ PollFails(s))
    /\ SF_vars(GetLatestSnapshot(s) /\ stored # <<>>)
    /\ SF_vars(PollReturns(s) /\ response[s].outcome = "ok")

-----------------------------------------------------------------------------
(***************************************************************************)
(* Properties.                                                             *)
(***************************************************************************)

\* p is what the API stored under its version, less the flags that do not
\* compile.
IsStored(p) ==
    p.version > 0 => /\ p.version <= Len(stored)
                     /\ p.flags = Usable(stored[p.version])

\* The client never holds a mixture: what is loaded, and what an evaluation
\* under way still points to, is one snapshot the API stored, whatever polls
\* fail, overlap or come late (pollOnce replaces the whole pointer).
LoadedIsStored ==
    /\ IsStored(snap)
    /\ \A r \in Reader : held[r] # <<>> => IsStored(held[r])

Cache == INSTANCE SnapshotCache WITH loaded <- snap, NoFlags <- {}

\* Refinement: seen from outside, the client replaces what it serves by one
\* whole stored snapshot, less the flags that do not compile, in one step, and
\* never goes back to none (pollOnce builds the map, then stores the pointer).
ServesWholeSnapshots == Cache!Spec

\* A decision is made from one snapshot although polls go on meanwhile: its
\* value comes from the version it reports, and that snapshot has the flag
\* (Evaluate loads the pointer once).
DecisionsAreConsistent ==
    \A r \in Reader :
        decision[r] # <<>> /\ decision[r].value > 0 =>
            LET d == decision[r]
            IN  /\ d.value = d.version
                /\ d.version \in 1 .. Len(stored)
                /\ d.flag \in Usable(stored[d.version])

\* At most one starter has ever called Start.
SingleStarter ==
    \A s, t \in Starter : at[s] # "idle" /\ at[t] # "idle" => s = t

\* The loaded snapshot never goes back to an older one, nor to none, in a
\* client that was started once, though it may be started again after an
\* error: one goroutine polls, and it has one request under way.
NeverRegresses ==
    [][SingleStarter => snap'.version >= snap.version]_vars

\* Stop and a cancelled context end the loop (Stop: "signals the polling
\* goroutine to exit"), though a tick may win the select before.
LoopsEnd ==
    \A s \in Starter :
        (at[s] \in {"waiting", "polling"} /\ (stopped \/ s \in cancelled))
            ~> (at[s] = "done")

\* While a loop runs, every snapshot the API stores is loaded in the end, or
\* a newer one is, over any number of failed polls (loop logs and goes on).
LoopsCatchUp ==
    \A s \in Starter, v \in 1 .. MaxVersion :
        (at[s] \in {"waiting", "polling"} /\ Len(stored) >= v)
            ~> (snap.version >= v \/ stopped \/ s \in cancelled)
=============================================================================
