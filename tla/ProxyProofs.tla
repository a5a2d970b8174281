---------------------------- MODULE ProxyProofs -----------------------------
(***************************************************************************)
(* Proofs about SdkGo, for every set of flags, starters and readers and    *)
(* any number of snapshots, and about Proxy, which embeds that client.     *)
(*                                                                         *)
(* The client.  A response is a copy of a row that never changes, so       *)
(* whatever is loaded from it, at whatever time, is a stored snapshot.     *)
(* That what is loaded does not get older needs more: a response may be    *)
(* older than what is loaded by the time it arrives, unless no other       *)
(* goroutine could load anything meanwhile (FreshWhenAlone).               *)
(*                                                                         *)
(* The proxy.  Its client is started by one goroutine, so what is loaded   *)
(* never gets older.  The latest answer of a client is therefore not newer *)
(* than what is loaded, nor than the pointer its next request has loaded   *)
(* since.                                                                  *)
(***************************************************************************)
EXTENDS Proxy, TLAPS

USE Zenon

\* A response under way carries a snapshot as the API stored it.
ResponsesAreStored ==
    \A s \in Starter : response[s].outcome = "ok" =>
        LET b == response[s].body
        IN  b.version \in 1 .. Len(stored) /\ b.flags = stored[b.version]

\* Nobody but s has called Start.
Alone(s) == \A t \in Starter : at[t] # "idle" => t = s

\* The response to the only goroutine that polls is not older than what is
\* loaded.
FreshWhenAlone ==
    \A s \in Starter : Alone(s) /\ response[s].outcome = "ok" =>
        response[s].body.version >= snap.version

IInv ==
    /\ TypeOK
    /\ LoadedIsStored
    /\ DecisionsAreConsistent
    /\ ResponsesAreStored
    /\ FreshWhenAlone
-----------------------------------------------------------------------------
\* Client.Evaluate: a value that is not nil comes from the pointer it loaded.
LEMMA EvaluatedFromPointer ==
    ASSUME NEW p \in Snapshot, NEW f \in Flag, NEW e \in Evaluate(p, f)
    PROVE  /\ e \in Decision
           /\ e.version = p.version
           /\ e.value > 0 => /\ e.value = p.version
                             /\ e.version = p.version
                             /\ e.flag = f
                             /\ f \in p.flags
<1>1. p.version \in Nat /\ p.flags \subseteq Flag
  BY SMT DEF Snapshot
<1>2. CASE p.version = 0
  BY SMT, <1>2 DEF Evaluate, Decision, Reason
<1>3. CASE p.version > 0 /\ f \notin p.flags
  BY SMT, <1>1, <1>3 DEF Evaluate, Decision, Reason
<1>4. CASE p.version > 0 /\ f \in p.flags
  BY SMT, <1>1, <1>4 DEF Evaluate, Evaluated, Decision, Reason
<1> QED
  BY SMT, <1>1, <1>2, <1>3, <1>4

\* A provider passes the decision on or substitutes the caller's default.
LEMMA ResolvedFromPointer ==
    ASSUME NEW p \in Snapshot, NEW f \in Flag,
           NEW e \in Evaluate(p, f), NEW d \in Typed(e)
    PROVE  /\ d \in Decision
           /\ d.value > 0 => /\ d.value = p.version
                             /\ d.version = p.version
                             /\ d.flag = f
                             /\ f \in p.flags
<1>1. /\ e \in Decision
      /\ e.value > 0 => /\ e.value = p.version
                        /\ e.version = p.version
                        /\ e.flag = f
                        /\ f \in p.flags
  BY EvaluatedFromPointer
<1>2. CASE d = Mismatched(e)
  BY SMT, <1>1, <1>2 DEF Mismatched, Decision, Reason
<1>3. CASE d = e
  BY <1>1, <1>3
<1> QED
  BY <1>2, <1>3 DEF Typed

\* Rows are only appended, so what was stored stays stored.
LEMMA AppendKeeps ==
    ASSUME NEW F \in SUBSET Flag, stored \in Seq(SUBSET Flag),
           stored' = Append(stored, F)
    PROVE  /\ stored' \in Seq(SUBSET Flag)
           /\ Len(stored') = Len(stored) + 1
           /\ \A v \in 1 .. Len(stored) : stored'[v] = stored[v]
  BY SMT

\* The latest snapshot is one of the stored ones.
LEMMA LatestIsStored ==
    ASSUME stored \in Seq(SUBSET Flag), stored # <<>>
    PROVE  /\ Len(stored) \in Nat \ {0}
           /\ Latest \in Snapshot
           /\ Latest.version = Len(stored)
           /\ Latest.flags = stored[Len(stored)]
<1>1. Len(stored) \in Nat \ {0} /\ stored[Len(stored)] \in SUBSET Flag
  BY SMT
<1> QED
  BY SMT, <1>1 DEF Latest, Snapshot

\* A client that has just been made satisfies the invariant.
LEMMA InitIInv == Init => IInv
<1> SUFFICES ASSUME Init PROVE IInv
  OBVIOUS
<1>1. NoSnapshot \in Snapshot /\ NoSnapshot.version = 0
  BY SMT DEF NoSnapshot, Snapshot
<1>2. NoResponse \in Response /\ NoResponse.outcome # "ok"
  BY SMT, <1>1 DEF NoResponse, Response, Outcome
<1>3. TypeOK
  <2>1. stored \in Seq(SUBSET Flag)
    BY SMT DEF Init
  <2> QED
    BY <1>1, <1>2, <2>1 DEF Init, NewClient, TypeOK, Place
<1>4. LoadedIsStored
  BY SMT, <1>1 DEF Init, NewClient, LoadedIsStored, IsStored
<1>5. DecisionsAreConsistent
  BY DEF Init, DecisionsAreConsistent
<1>6. ResponsesAreStored /\ FreshWhenAlone
  BY <1>2 DEF Init, NewClient, ResponsesAreStored, FreshWhenAlone
<1> QED
  BY <1>3, <1>4, <1>5, <1>6 DEF IInv

\* The API stores another snapshot.
LEMMA CompileSnapshotIInv ==
    ASSUME IInv, NEW F \in SUBSET Flag, CompileSnapshot(F)
    PROVE  IInv'
<1>1. stored' = Append(stored, F)
  BY DEF CompileSnapshot
<1>2. /\ UNCHANGED <<snap, stopped, cancelled, at, response, held, decision>>
  BY DEF CompileSnapshot, client, readers
<1>3. /\ stored' \in Seq(SUBSET Flag)
      /\ Len(stored') = Len(stored) + 1
      /\ \A v \in 1 .. Len(stored) : stored'[v] = stored[v]
  BY <1>1, AppendKeeps DEF IInv, TypeOK
<1>4. Len(stored) \in Nat
  BY SMT DEF IInv, TypeOK
<1>5. TypeOK'
  BY <1>2, <1>3 DEF IInv, TypeOK
<1>6. ASSUME NEW p \in Snapshot, IsStored(p)
      PROVE  p.version > 0 => /\ p.version <= Len(stored')
                              /\ p.flags = Usable(stored'[p.version])
  BY SMT, <1>3, <1>4, <1>6 DEF IsStored, Snapshot, Usable
<1>7. LoadedIsStored'
  <2>1. IsStored(snap)'
    BY <1>2, <1>6 DEF IInv, TypeOK, LoadedIsStored, IsStored, Usable
  <2>2. ASSUME NEW r \in Reader, held[r] # <<>>
        PROVE  IsStored(held[r])'
    <3>1. held[r] \in Snapshot /\ IsStored(held[r])
      BY <2>2 DEF IInv, TypeOK, LoadedIsStored
    <3> QED
      BY <1>2, <1>6, <3>1 DEF IsStored, Usable
  <2> QED
    BY <1>2, <2>1, <2>2 DEF LoadedIsStored
<1>8. DecisionsAreConsistent'
  BY SMT, <1>2, <1>3, <1>4 DEF IInv, DecisionsAreConsistent, Usable
<1>9. ResponsesAreStored'
  BY SMT, <1>2, <1>3, <1>4 DEF IInv, ResponsesAreStored
<1>10. FreshWhenAlone'
  BY <1>2 DEF IInv, FreshWhenAlone, Alone
<1> QED
  BY <1>5, <1>7, <1>8, <1>9, <1>10 DEF IInv

\* A response arrives, or the request fails: only the response changes.
LEMMA ResponseIInv ==
    ASSUME IInv, NEW s \in Starter, NEW resp \in Response,
           response' = [response EXCEPT ![s] = resp],
           resp.outcome = "ok" => /\ resp.body.version = Len(stored)
                                  /\ resp.body.version > 0
                                  /\ resp.body.flags = stored[Len(stored)],
           UNCHANGED <<stored, snap, stopped, cancelled, at, held, decision>>
    PROVE  IInv'
<1>1. TypeOK'
  BY DEF IInv, TypeOK
<1>2. LoadedIsStored' /\ DecisionsAreConsistent'
  BY DEF IInv, LoadedIsStored, IsStored, DecisionsAreConsistent, Usable
<1>3. \A t \in Starter : response'[t] = IF t = s THEN resp ELSE response[t]
  BY DEF IInv, TypeOK
<1>4. Len(stored) \in Nat /\ snap.version \in Nat
  BY SMT DEF IInv, TypeOK, Snapshot
<1>5. ResponsesAreStored'
  BY SMT, <1>3, <1>4 DEF IInv, ResponsesAreStored
<1>6. snap.version <= Len(stored)
  BY SMT, <1>4 DEF IInv, LoadedIsStored, IsStored
<1>7. FreshWhenAlone'
  BY SMT, <1>3, <1>4, <1>6 DEF IInv, FreshWhenAlone, Alone
<1> QED
  BY <1>1, <1>2, <1>5, <1>7 DEF IInv

\* A poll is answered from the latest snapshot.
LEMMA GetLatestSnapshotIInv ==
    ASSUME IInv, NEW s \in Starter, GetLatestSnapshot(s)
    PROVE  IInv'
<1> DEFINE resp == IF stored = <<>>
                   THEN [outcome |-> "not_found", body |-> NoSnapshot]
                   ELSE [outcome |-> "ok", body |-> Latest]
<1>1. /\ response' = [response EXCEPT ![s] = resp]
      /\ UNCHANGED <<stored, snap, stopped, cancelled, at, held, decision>>
  BY DEF GetLatestSnapshot, readers
<1>2. CASE stored = <<>>
  <2>1. resp \in Response /\ resp.outcome # "ok"
    BY SMT, <1>2 DEF Response, Outcome, NoSnapshot, Snapshot
  <2> QED
    BY <1>1, <2>1, ResponseIInv
<1>3. CASE stored # <<>>
  <2>1. /\ Len(stored) \in Nat \ {0}
        /\ Latest \in Snapshot
        /\ Latest.version = Len(stored)
        /\ Latest.flags = stored[Len(stored)]
    BY <1>3, LatestIsStored DEF IInv, TypeOK
  <2>2. resp \in Response /\ resp.body = Latest
    BY SMT, <1>3, <2>1 DEF Response, Outcome
  <2>3. Latest.version > 0
    BY SMT, <2>1
  <2> QED
    BY <1>1, <2>1, <2>2, <2>3, ResponseIInv
<1> QED
  BY <1>2, <1>3

\* A request fails.
LEMMA PollFailsIInv ==
    ASSUME IInv, NEW s \in Starter, PollFails(s)
    PROVE  IInv'
<1> DEFINE resp == [outcome |-> "error", body |-> NoSnapshot]
<1>1. /\ response' = [response EXCEPT ![s] = resp]
      /\ UNCHANGED <<stored, snap, stopped, cancelled, at, held, decision>>
  BY DEF PollFails, readers
<1>2. resp \in Response /\ resp.outcome # "ok"
  BY SMT DEF Response, Outcome, NoSnapshot, Snapshot
<1> QED
  BY <1>1, <1>2, ResponseIInv

\* pollOnce loads what it was answered with, and the loop goes on or ends.
LEMMA PollReturnsIInv ==
    ASSUME IInv, NEW s \in Starter, PollReturns(s)
    PROVE  IInv'
<1> DEFINE b == response[s].body
           loaded == [version |-> b.version, flags |-> Usable(b.flags)]
<1>1. /\ snap' = IF response[s].outcome = "ok" THEN loaded ELSE snap
      /\ at' = [at EXCEPT ![s] = AfterPoll(s)]
      /\ response' = [response EXCEPT ![s] = NoResponse]
      /\ UNCHANGED <<stored, stopped, cancelled, held, decision>>
      /\ at[s] \in {"starting", "polling"}
  BY DEF PollReturns, Load, InFlight, readers
<1>2. AfterPoll(s) \in Place /\ AfterPoll(s) # "idle"
  <2>1. CASE at[s] = "polling"
    BY SMT, <2>1 DEF AfterPoll, Place
  <2>2. CASE at[s] = "starting" /\ response[s].outcome = "error"
    BY SMT, <2>2 DEF AfterPoll, Place
  <2>3. CASE at[s] = "starting" /\ response[s].outcome # "error"
    BY SMT, <2>3 DEF AfterPoll, Place
  <2> QED
    BY <1>1, <2>1, <2>2, <2>3
<1>3. NoResponse \in Response /\ NoResponse.outcome # "ok"
  BY SMT DEF NoResponse, Response, Outcome, NoSnapshot, Snapshot
<1>4. b \in Snapshot /\ loaded \in Snapshot
  BY SMT DEF IInv, TypeOK, Response, Snapshot, Usable
<1>5. TypeOK'
  <2>1. snap' \in Snapshot
    BY <1>1, <1>4 DEF IInv, TypeOK
  <2>2. at' \in [Starter -> Place] /\ response' \in [Starter -> Response]
    BY <1>1, <1>2, <1>3 DEF IInv, TypeOK
  <2> QED
    BY <1>1, <2>1, <2>2 DEF IInv, TypeOK
<1>6. response[s].outcome = "ok" => IsStored(loaded)
  BY SMT DEF IInv, TypeOK, ResponsesAreStored, IsStored
<1>7. IsStored(snap)'
  <2>1. IsStored(snap')
    BY <1>1, <1>6 DEF IInv, LoadedIsStored
  <2> QED
    BY <1>1, <2>1 DEF IsStored, Usable
<1>8. LoadedIsStored' /\ DecisionsAreConsistent'
  BY <1>1, <1>7 DEF IInv, LoadedIsStored, IsStored, DecisionsAreConsistent, Usable
<1>9. \A t \in Starter : response'[t] = IF t = s THEN NoResponse ELSE response[t]
  BY <1>1 DEF IInv, TypeOK
<1>10. ResponsesAreStored'
  BY SMT, <1>1, <1>3, <1>9 DEF IInv, ResponsesAreStored
<1>11. FreshWhenAlone'
  <2>1. SUFFICES ASSUME NEW t \in Starter, Alone(t)', response'[t].outcome = "ok"
                 PROVE  FALSE
    BY DEF FreshWhenAlone
  <2>2. at'[s] # "idle"
    BY <1>1, <1>2 DEF IInv, TypeOK
  <2>3. t = s
    BY <2>1, <2>2 DEF Alone
  <2> QED
    BY <1>3, <1>9, <2>1, <2>3
<1> QED
  BY <1>5, <1>8, <1>10, <1>11 DEF IInv

\* A starter moves without loading anything: Start, a tick, the end of a loop.
LEMMA MoveIInv ==
    ASSUME IInv, NEW s \in Starter, NEW place \in Place \ {"idle"},
           at' = [at EXCEPT ![s] = place],
           UNCHANGED <<stored, snap, stopped, cancelled, response, held, decision>>
    PROVE  IInv'
<1>1. TypeOK'
  BY DEF IInv, TypeOK
<1>2. LoadedIsStored' /\ DecisionsAreConsistent' /\ ResponsesAreStored'
  BY DEF IInv, LoadedIsStored, IsStored, DecisionsAreConsistent, Usable,
         ResponsesAreStored
<1>3. \A t \in Starter : at'[t] = IF t = s THEN place ELSE at[t]
  BY DEF IInv, TypeOK
<1>4. \A t \in Starter : Alone(t)' => Alone(t)
  BY <1>3 DEF Alone
<1>5. FreshWhenAlone'
  BY <1>4 DEF IInv, FreshWhenAlone
<1> QED
  BY <1>1, <1>2, <1>5 DEF IInv

\* Stop and Cancel only set what the loops look at.
LEMMA SignalIInv ==
    ASSUME IInv, stopped' \in BOOLEAN, cancelled' \subseteq Starter,
           UNCHANGED <<stored, snap, at, response, held, decision>>
    PROVE  IInv'
<1>1. TypeOK'
  BY DEF IInv, TypeOK
<1>2. LoadedIsStored' /\ DecisionsAreConsistent' /\ ResponsesAreStored'
  BY DEF IInv, LoadedIsStored, IsStored, DecisionsAreConsistent, Usable,
         ResponsesAreStored
<1>3. FreshWhenAlone'
  BY DEF IInv, FreshWhenAlone, Alone
<1> QED
  BY <1>1, <1>2, <1>3 DEF IInv

\* An evaluation loads the pointer.
LEMMA LoadPointerIInv ==
    ASSUME IInv, NEW r \in Reader, LoadPointer(r)
    PROVE  IInv'
<1>1. /\ held' = [held EXCEPT ![r] = snap]
      /\ UNCHANGED <<stored, snap, stopped, cancelled, at, response, decision>>
  BY DEF LoadPointer, client
<1>2. TypeOK'
  BY <1>1 DEF IInv, TypeOK
<1>3. \A q \in Reader : held'[q] = IF q = r THEN snap ELSE held[q]
  BY <1>1 DEF IInv, TypeOK
<1>4. \A q \in Reader : held'[q] # <<>> => IsStored(held'[q])
  BY <1>3 DEF IInv, LoadedIsStored
<1>5. LoadedIsStored'
  BY <1>1, <1>4 DEF IInv, LoadedIsStored, IsStored, Usable
<1>6. DecisionsAreConsistent' /\ ResponsesAreStored' /\ FreshWhenAlone'
  BY <1>1 DEF IInv, DecisionsAreConsistent, Usable, ResponsesAreStored,
              FreshWhenAlone, Alone
<1> QED
  BY <1>2, <1>5, <1>6 DEF IInv

\* An evaluation ends with a decision made from the pointer it loaded.
LEMMA DecideIInv ==
    ASSUME IInv, NEW r \in Reader, NEW f \in Flag, NEW d \in Decision,
           held[r] # <<>>,
           d.value > 0 => /\ d.value = held[r].version
                          /\ d.version = held[r].version
                          /\ d.flag = f
                          /\ f \in held[r].flags,
           decision' = [decision EXCEPT ![r] = d],
           held' = [held EXCEPT ![r] = <<>>],
           UNCHANGED <<stored, snap, stopped, cancelled, at, response>>
    PROVE  IInv'
<1>1. TypeOK'
  BY DEF IInv, TypeOK
<1>2. \A q \in Reader : /\ held'[q] = IF q = r THEN <<>> ELSE held[q]
                        /\ decision'[q] = IF q = r THEN d ELSE decision[q]
  BY DEF IInv, TypeOK
<1>3. LoadedIsStored'
  BY SMT, <1>2 DEF IInv, LoadedIsStored, IsStored, Usable
<1>4. d.value > 0 => /\ d.value = d.version
                     /\ d.version \in 1 .. Len(stored)
                     /\ d.flag \in Usable(stored[d.version])
  <2>1. IsStored(held[r])
    BY DEF IInv, LoadedIsStored
  <2>2. held[r] \in Snapshot
    BY DEF IInv, TypeOK
  <2> QED
    BY SMT, <2>1, <2>2 DEF IsStored, Snapshot
<1>5. DecisionsAreConsistent'
  <2> SUFFICES ASSUME NEW q \in Reader, decision'[q] # <<>>, decision'[q].value > 0
               PROVE  /\ decision'[q].value = decision'[q].version
                      /\ decision'[q].version \in 1 .. Len(stored)
                      /\ decision'[q].flag \in Usable(stored[decision'[q].version])
    BY DEF DecisionsAreConsistent, Usable
  <2>1. CASE q = r
    <3>1. decision'[q] = d
      BY <1>2, <2>1
    <3> QED
      BY <1>4, <3>1
  <2>2. CASE q # r
    <3>1. decision'[q] = decision[q]
      BY <1>2, <2>2
    <3> QED
      BY <3>1 DEF IInv, DecisionsAreConsistent
  <2> QED
    BY <2>1, <2>2
<1>6. ResponsesAreStored' /\ FreshWhenAlone'
  BY DEF IInv, ResponsesAreStored, FreshWhenAlone, Alone
<1> QED
  BY <1>1, <1>3, <1>5, <1>6 DEF IInv

\* A provider's answer.
LEMMA ResolveIInv ==
    ASSUME IInv, NEW r \in Reader, NEW f \in Flag, Resolve(r, f)
    PROVE  IInv'
<1>1. PICK e \in Evaluate(held[r], f) : \E d \in Typed(e) :
          decision' = [decision EXCEPT ![r] = d]
  BY DEF Resolve
<1>2. PICK d \in Typed(e) : decision' = [decision EXCEPT ![r] = d]
  BY <1>1
<1>3. /\ held[r] # <<>>
      /\ held' = [held EXCEPT ![r] = <<>>]
      /\ UNCHANGED <<stored, snap, stopped, cancelled, at, response>>
  BY DEF Resolve, client
<1>4. held[r] \in Snapshot
  BY <1>3 DEF IInv, TypeOK
<1>5. /\ d \in Decision
      /\ d.value > 0 => /\ d.value = held[r].version
                        /\ d.version = held[r].version
                        /\ d.flag = f
                        /\ f \in held[r].flags
  BY <1>4, ResolvedFromPointer
<1> QED
  BY <1>2, <1>3, <1>5, DecideIInv

\* A goroutine that polls preserves the invariant, whatever it does.
LEMMA PollIInv ==
    ASSUME IInv, NEW s \in Starter, Poll(s)
    PROVE  IInv'
<1>1. CASE GetLatestSnapshot(s)
  BY <1>1, GetLatestSnapshotIInv
<1>2. CASE PollFails(s)
  BY <1>2, PollFailsIInv
<1>3. CASE PollReturns(s)
  BY <1>3, PollReturnsIInv
<1>4. CASE Tick(s)
  <2>1. "polling" \in Place \ {"idle"}
    BY SMT DEF Place
  <2> QED
    BY <1>4, <2>1, MoveIInv DEF Tick, readers
<1>5. CASE LoopReturns(s)
  <2>1. "done" \in Place \ {"idle"}
    BY SMT DEF Place
  <2> QED
    BY <1>5, <2>1, MoveIInv DEF LoopReturns, readers
<1> QED
  BY <1>1, <1>2, <1>3, <1>4, <1>5 DEF Poll

\* The other steps of a starter.
LEMMA StartIInv ==
    ASSUME IInv, NEW s \in Starter, Start(s)
    PROVE  IInv'
<1>1. "starting" \in Place \ {"idle"}
  BY SMT DEF Place
<1> QED
  BY <1>1, MoveIInv DEF Start, readers

LEMMA CancelIInv ==
    ASSUME IInv, NEW s \in Starter, Cancel(s)
    PROVE  IInv'
<1>1. stopped' \in BOOLEAN /\ cancelled' \subseteq Starter
  BY DEF Cancel, IInv, TypeOK
<1> QED
  BY <1>1, SignalIInv DEF Cancel, readers

LEMMA StopIInv ==
    ASSUME IInv, Stop
    PROVE  IInv'
<1>1. stopped' \in BOOLEAN /\ cancelled' \subseteq Starter
  BY DEF Stop, IInv, TypeOK
<1> QED
  BY <1>1, SignalIInv DEF Stop, readers

\* Nothing changes.
LEMMA StutterIInv ==
    ASSUME IInv, UNCHANGED vars
    PROVE  IInv'
<1>1. stopped' \in BOOLEAN /\ cancelled' \subseteq Starter
  BY DEF vars, client, readers, IInv, TypeOK
<1> QED
  BY <1>1, SignalIInv DEF vars, client, readers

\* IInv is inductive.
LEMMA NextIInv == IInv /\ [Next]_vars => IInv'
<1> SUFFICES ASSUME IInv, [Next]_vars PROVE IInv'
  OBVIOUS
<1>1. ASSUME NEW F \in SUBSET Flag, CompileSnapshot(F) PROVE IInv'
  BY <1>1, CompileSnapshotIInv
<1>2. ASSUME NEW s \in Starter, Start(s) PROVE IInv'
  BY <1>2, StartIInv
<1>3. ASSUME NEW s \in Starter, Poll(s) PROVE IInv'
  BY <1>3, PollIInv
<1>4. ASSUME NEW s \in Starter, Cancel(s) PROVE IInv'
  BY <1>4, CancelIInv
<1>5. CASE Stop
  BY <1>5, StopIInv
<1>6. ASSUME NEW r \in Reader, LoadPointer(r) PROVE IInv'
  BY <1>6, LoadPointerIInv
<1>7. ASSUME NEW r \in Reader, NEW f \in Flag, Resolve(r, f) PROVE IInv'
  BY <1>7, ResolveIInv
<1>8. CASE UNCHANGED vars
  BY <1>8, StutterIInv
<1> QED
  BY <1>1, <1>2, <1>3, <1>4, <1>5, <1>6, <1>7, <1>8 DEF Next

\* The inductive invariant holds throughout.
THEOREM Invariance == Spec => []IInv
  BY InitIInv, NextIInv, PTL DEF Spec

\* The variables keep their types.
THEOREM TypeCorrect == Spec => []TypeOK
<1>1. IInv => TypeOK
  BY DEF IInv
<1> QED
  BY <1>1, Invariance, PTL

\* What the client has loaded, and what evaluations still point to, is always
\* one snapshot as the API stored it, for any number of overlapping polls.
THEOREM LoadedIsAlwaysStored == Spec => []LoadedIsStored
<1>1. IInv => LoadedIsStored
  BY DEF IInv
<1> QED
  BY <1>1, Invariance, PTL

\* A decision's value always comes from the snapshot version it reports.
THEOREM DecisionsAreAlwaysConsistent == Spec => []DecisionsAreConsistent
<1>1. IInv => DecisionsAreConsistent
  BY DEF IInv
<1> QED
  BY <1>1, Invariance, PTL

\* Only a poll that returns changes what is loaded, and a goroutine that polls
\* alone loads nothing older.
LEMMA PollNeverRegresses ==
    ASSUME IInv, SingleStarter, NEW s \in Starter, PollReturns(s)
    PROVE  snap'.version >= snap.version
<1>1. Alone(s)
  BY SMT DEF PollReturns, InFlight, SingleStarter, Alone
<1>2. snap.version \in Nat
  BY SMT DEF IInv, TypeOK, Snapshot
<1>3. response[s].outcome = "ok" => response[s].body.version >= snap.version
  BY <1>1 DEF IInv, FreshWhenAlone
<1> QED
  BY SMT, <1>2, <1>3 DEF PollReturns, Load

\* A client that was started once never goes back to an older snapshot.
THEOREM NeverRegressesHolds == Spec => NeverRegresses
<1>1. IInv /\ [Next]_vars => [SingleStarter => snap'.version >= snap.version]_vars
  <2> SUFFICES ASSUME IInv, Next, SingleStarter
               PROVE  snap'.version >= snap.version
    BY Zenon
  <2>1. snap.version >= snap.version
    <3>1. snap.version \in Nat
      BY SMT DEF IInv, TypeOK, Snapshot
    <3> QED
      BY SMT, <3>1
  <2>2. ASSUME NEW s \in Starter, PollReturns(s)
        PROVE  snap'.version >= snap.version
    BY <2>2, PollNeverRegresses
  <2>3. snap' = snap \/ \E s \in Starter : PollReturns(s)
    BY DEF Next, Poll, CompileSnapshot, GetLatestSnapshot, PollFails, Start, Tick,
           LoopReturns, Stop, Cancel, LoadPointer, Resolve, client
  <2> QED
    BY <2>1, <2>2, <2>3
<1> QED
  BY <1>1, Invariance, PTL DEF Spec, NeverRegresses

\* A poll that returns replaces what is loaded by one stored snapshot, or
\* keeps it.
LEMMA PollReturnsLoads ==
    ASSUME IInv, NEW s \in Starter, PollReturns(s)
    PROVE  Cache!Load \/ UNCHANGED <<stored, snap>>
<1> DEFINE b == response[s].body
<1>1. stored' = stored
  BY DEF PollReturns
<1>2. CASE response[s].outcome = "ok"
  <2>1. b.version \in 1 .. Len(stored) /\ b.flags = stored[b.version]
    BY <1>2 DEF IInv, ResponsesAreStored
  <2>2. snap' = [version |-> b.version, flags |-> Usable(stored[b.version])]
    BY <1>2, <2>1 DEF PollReturns, Load
  <2> QED
    BY <1>1, <2>1, <2>2 DEF Cache!Load
<1>3. CASE response[s].outcome # "ok"
  BY <1>1, <1>3 DEF PollReturns, Load
<1> QED
  BY <1>2, <1>3

\* A compile appends a snapshot and leaves the client alone.
LEMMA CompileSnapshotCompiles ==
    ASSUME IInv, NEW F \in SUBSET Flag, CompileSnapshot(F)
    PROVE  Cache!Compile
<1>1. stored \in Seq(SUBSET Flag) /\ stored' = Append(stored, F)
  BY DEF IInv, TypeOK, CompileSnapshot
<1>2. /\ Len(stored') = Len(stored) + 1
      /\ \A v \in 1 .. Len(stored) : stored'[v] = stored[v]
  BY SMT, <1>1
<1>3. snap' = snap
  BY DEF CompileSnapshot, client
<1> QED
  BY <1>2, <1>3 DEF Cache!Compile

\* The Go client implements SnapshotCache: whatever polls overlap, fail or come
\* late, what it serves changes by whole stored snapshots, one at a time.
THEOREM ImplementsSnapshotCache == Spec => ServesWholeSnapshots
<1>1. Init => Cache!Init
  BY DEF Init, NewClient, NoSnapshot, Cache!Init
<1>2. IInv /\ [Next]_vars => [Cache!Next]_<<stored, snap>>
  <2> SUFFICES ASSUME IInv, [Next]_vars
               PROVE  Cache!Next \/ UNCHANGED <<stored, snap>>
    BY Zenon
  <2>1. ASSUME NEW F \in SUBSET Flag, CompileSnapshot(F)
        PROVE  Cache!Next
    BY <2>1, CompileSnapshotCompiles DEF Cache!Next
  <2>2. ASSUME NEW s \in Starter, PollReturns(s)
        PROVE  Cache!Next \/ UNCHANGED <<stored, snap>>
    BY <2>2, PollReturnsLoads DEF Cache!Next
  <2>3. \/ stored' = stored /\ snap' = snap
        \/ \E F \in SUBSET Flag : CompileSnapshot(F)
        \/ \E s \in Starter : PollReturns(s)
    BY DEF Next, Poll, GetLatestSnapshot, PollFails, Start, Tick, LoopReturns, Stop,
           Cancel, LoadPointer, Resolve, client, vars
  <2> QED
    BY <2>1, <2>2, <2>3
<1> QED
  BY <1>1, <1>2, Invariance, PTL DEF Spec, ServesWholeSnapshots, Cache!Spec, Cache!vars
-----------------------------------------------------------------------------
(***************************************************************************)
(* The proxy.                                                              *)
(***************************************************************************)

\* A request under way holds a pointer from between its client's latest answer
\* and now.
AnswersAreBehind ==
    \A r \in Reader :
        /\ answer[r].version <= snap.version
        /\ held[r] # <<>> => /\ answer[r].version <= held[r].version
                             /\ held[r].version <= snap.version

\* Without a project there is nobody to load a snapshot.
UnconfiguredIsEmpty == ~configured => at[Main] = "idle" /\ snap.version = 0

PInv ==
    /\ IInv
    /\ configured \in BOOLEAN
    /\ run \in {"new", "starting", "serving", "draining", "returned"}
    /\ answer \in [Reader -> Answer]
    /\ AnswersAreBehind
    /\ UnconfiguredIsEmpty

\* Versions are numbers, so they can be compared.
LEMMA VersionsAreNat ==
    ASSUME PInv
    PROVE  /\ snap.version \in Nat
           /\ \A r \in Reader : answer[r].version \in Nat
           /\ \A r \in Reader : held[r] # <<>> => held[r].version \in Nat
<1>1. snap.version \in Nat
  BY SMT DEF PInv, IInv, TypeOK, Snapshot
<1>2. \A r \in Reader : answer[r].version \in Nat
  BY SMT DEF PInv, Answer
<1>3. \A r \in Reader : held[r] # <<>> => held[r] \in Snapshot
  BY DEF PInv, IInv, TypeOK
<1>4. \A r \in Reader : held[r] # <<>> => held[r].version \in Nat
  BY SMT, <1>3 DEF Snapshot
<1> QED
  BY <1>1, <1>2, <1>4

\* The proxy starts its client from one goroutine.
LEMMA MainIsAlone == SingleStarter
  BY MainAssumption DEF SingleStarter

\* A proxy that has just been made satisfies the invariant.
LEMMA NewPInv == New => PInv
<1> SUFFICES ASSUME New PROVE PInv
  OBVIOUS
<1>1. IInv
  BY InitIInv DEF New
<1>2. snap.version = 0
  BY SMT DEF New, Init, NewClient, NoSnapshot
<1>3. answer \in [Reader -> Answer] /\ \A r \in Reader : answer[r].version = 0
  BY SMT DEF New, Answer, Path
<1>4. AnswersAreBehind
  <2>1. \A r \in Reader : held[r] = <<>>
    BY DEF New, Init
  <2> QED
    BY SMT, <1>2, <1>3, <2>1 DEF AnswersAreBehind
<1>5. UnconfiguredIsEmpty
  BY <1>2, MainAssumption DEF New, Init, NewClient, UnconfiguredIsEmpty
<1> QED
  BY <1>1, <1>3, <1>4, <1>5 DEF New, PInv

\* A step that answers nobody and loads nothing older keeps the invariant.
LEMMA ClientStepPInv ==
    ASSUME PInv, IInv', snap'.version >= snap.version,
           UNCHANGED <<held, configured, answer>>,
           run' \in {"new", "starting", "serving", "draining", "returned"},
           UnconfiguredIsEmpty'
    PROVE  PInv'
<1>1. snap'.version \in Nat
  BY SMT DEF IInv, TypeOK, Snapshot
<1>2. AnswersAreBehind'
  BY SMT, <1>1, VersionsAreNat DEF PInv, AnswersAreBehind
<1> QED
  BY <1>2 DEF PInv

\* A step of Run that leaves the client's pointer alone.
LEMMA RunStepPInv ==
    ASSUME PInv, IInv', UNCHANGED <<snap, held, configured, answer>>,
           run' \in {"new", "starting", "serving", "draining", "returned"},
           configured \/ at' = at
    PROVE  PInv'
<1>1. snap'.version >= snap.version
  <2>1. snap.version \in Nat
    BY VersionsAreNat
  <2> QED
    BY SMT, <2>1
<1>2. UnconfiguredIsEmpty'
  BY DEF PInv, UnconfiguredIsEmpty
<1> QED
  BY <1>1, <1>2, ClientStepPInv

\* The poll of the embedded client.
LEMMA ProxyPollPInv ==
    ASSUME PInv, Poll(Main), UNCHANGED proxy
    PROVE  PInv'
<1>1. Main \in Starter
  BY MainAssumption
<1>2. IInv'
  BY <1>1, PollIInv DEF PInv
<1>3. UNCHANGED <<held, configured, run, answer>>
  BY DEF Poll, GetLatestSnapshot, PollFails, PollReturns, Tick, LoopReturns, readers,
         proxy
<1>4. CASE PollReturns(Main)
  <2>1. snap'.version >= snap.version
    BY <1>1, <1>4, MainIsAlone, PollNeverRegresses DEF PInv
  <2>2. configured
    BY SMT, <1>4 DEF PollReturns, InFlight, PInv, UnconfiguredIsEmpty
  <2>3. UnconfiguredIsEmpty'
    BY <1>3, <2>2 DEF UnconfiguredIsEmpty
  <2> QED
    BY <1>2, <1>3, <2>1, <2>3, ClientStepPInv DEF PInv
<1>5. CASE ~PollReturns(Main)
  <2>1. snap' = snap /\ (at' = at \/ at[Main] = "waiting")
    BY <1>5 DEF Poll, GetLatestSnapshot, PollFails, Tick, LoopReturns
  <2>2. configured \/ at' = at
    BY SMT, <2>1 DEF PInv, UnconfiguredIsEmpty
  <2> QED
    BY <1>2, <1>3, <2>1, <2>2, RunStepPInv DEF PInv
<1> QED
  BY <1>4, <1>5

\* A handler answers from what is loaded; nothing else changes.
LEMMA AnswerPInv ==
    ASSUME PInv, NEW r \in Reader, NEW a \in Answer,
           held[r] = <<>>, a.version = snap.version,
           answer' = [answer EXCEPT ![r] = a],
           UNCHANGED <<vars, configured, run>>
    PROVE  PInv' /\ \A q \in Reader : answer'[q].version >= answer[q].version
<1>1. \A q \in Reader : answer'[q] = IF q = r THEN a ELSE answer[q]
  BY DEF PInv
<1>2. UNCHANGED <<snap, held, at>>
  BY DEF vars, client, readers
<1>3. AnswersAreBehind'
  BY SMT, <1>1, <1>2, VersionsAreNat DEF PInv, AnswersAreBehind
<1>4. \A q \in Reader : answer'[q].version >= answer[q].version
  BY SMT, <1>1, VersionsAreNat DEF PInv, AnswersAreBehind
<1>5. IInv'
  BY StutterIInv DEF PInv
<1>6. answer' \in [Reader -> Answer]
  BY DEF PInv
<1> QED
  BY <1>2, <1>3, <1>4, <1>5, <1>6 DEF PInv, UnconfiguredIsEmpty

\* handleEvaluate has loaded the pointer.
LEMMA EvaluateBeginPInv ==
    ASSUME PInv, NEW r \in Reader, HandleEvaluateBegin(r)
    PROVE  PInv'
<1>1. IInv'
  BY LoadPointerIInv DEF HandleEvaluateBegin, PInv
<1>2. UNCHANGED <<snap, at, configured, run, answer>>
  BY DEF HandleEvaluateBegin, LoadPointer, client, proxy
<1>3. \A q \in Reader : held'[q] = IF q = r THEN snap ELSE held[q]
  BY DEF HandleEvaluateBegin, LoadPointer, PInv, IInv, TypeOK
<1>4. AnswersAreBehind'
  BY SMT, <1>2, <1>3, VersionsAreNat DEF PInv, AnswersAreBehind
<1> QED
  BY <1>1, <1>2, <1>4 DEF PInv, UnconfiguredIsEmpty

\* handleEvaluate answers from the pointer it loaded.
LEMMA EvaluatePInv ==
    ASSUME PInv, NEW r \in Reader, NEW f \in Flag, HandleEvaluate(r, f)
    PROVE  PInv' /\ \A q \in Reader : answer'[q].version >= answer[q].version
<1>1. PICK d \in Evaluate(held[r], f) :
          /\ decision' = [decision EXCEPT ![r] = d]
          /\ Respond(r, "/v1/evaluate", 200, d.version)
  BY DEF HandleEvaluate
<1>2. /\ held[r] # <<>>
      /\ held' = [held EXCEPT ![r] = <<>>]
      /\ UNCHANGED <<stored, snap, stopped, cancelled, at, response, configured, run>>
  BY DEF HandleEvaluate, client
<1>3. held[r] \in Snapshot
  BY <1>2 DEF PInv, IInv, TypeOK
<1>4. /\ d \in Decision
      /\ d.version = held[r].version
      /\ d.value > 0 => /\ d.value = held[r].version
                        /\ d.version = held[r].version
                        /\ d.flag = f
                        /\ f \in held[r].flags
  BY <1>3, EvaluatedFromPointer
<1>5. IInv'
  BY <1>1, <1>2, <1>4, DecideIInv DEF PInv
<1> DEFINE a == [path |-> "/v1/evaluate", status |-> 200, version |-> d.version]
<1>6. a \in Answer /\ a.version = held[r].version
  BY SMT, <1>2, <1>4, VersionsAreNat DEF Answer, Path
<1>7. answer' = [answer EXCEPT ![r] = a]
  BY <1>1 DEF Respond
<1>8. \A q \in Reader : /\ answer'[q] = IF q = r THEN a ELSE answer[q]
                        /\ held'[q] = IF q = r THEN <<>> ELSE held[q]
  BY <1>2, <1>7 DEF PInv, IInv, TypeOK
<1> HIDE DEF a
<1>9. AnswersAreBehind'
  BY SMT, <1>2, <1>6, <1>8, VersionsAreNat DEF PInv, AnswersAreBehind
<1>10. \A q \in Reader : answer'[q].version >= answer[q].version
  BY SMT, <1>2, <1>6, <1>8, VersionsAreNat DEF PInv, AnswersAreBehind
<1>11. answer' \in [Reader -> Answer]
  BY <1>6, <1>7 DEF PInv
<1> QED
  BY <1>2, <1>5, <1>9, <1>10, <1>11 DEF PInv, UnconfiguredIsEmpty

\* What a step may do: keep every answer, or answer from a snapshot not older.
Forward == \A r \in Reader : answer'[r].version >= answer[r].version

\* A step that answers nobody goes forward.
LEMMA SilentIsForward ==
    ASSUME PInv, UNCHANGED answer
    PROVE  Forward
  BY SMT, VersionsAreNat DEF Forward

\* Run and the API take steps that answer nobody.
LEMMA RunPInv ==
    ASSUME PInv,
           \/ UNCHANGED proxy /\ (\E F \in SUBSET Flag : CompileSnapshot(F))
           \/ RunStart \/ RunListen \/ Signal \/ RunShutdown \/ RunReturns
    PROVE  PInv' /\ UNCHANGED answer
<1>1. ASSUME NEW F \in SUBSET Flag, CompileSnapshot(F), UNCHANGED proxy
      PROVE  PInv' /\ UNCHANGED answer
  <2>1. IInv'
    BY <1>1, CompileSnapshotIInv DEF PInv
  <2>2. UNCHANGED <<snap, held, at, configured, run, answer>>
    BY <1>1 DEF CompileSnapshot, client, readers, proxy
  <2> QED
    BY <2>1, <2>2, RunStepPInv DEF PInv
<1>2. CASE RunStart
  <2>1. IInv'
    BY <1>2, MainAssumption, StartIInv DEF RunStart, PInv
  <2>2. UNCHANGED <<snap, held, configured, answer>> /\ configured
    BY <1>2 DEF RunStart, Start, readers
  <2>3. run' = "starting"
    BY <1>2 DEF RunStart
  <2> QED
    BY <2>1, <2>2, <2>3, RunStepPInv
<1>3. CASE RunListen \/ RunShutdown
  <2>1. IInv'
    BY <1>3, StutterIInv DEF RunListen, RunShutdown, PInv
  <2>2. UNCHANGED <<snap, held, at, configured, answer>>
    BY <1>3 DEF RunListen, RunShutdown, vars, client, readers
  <2>3. run' = "serving" \/ run' = "draining"
    BY <1>3 DEF RunListen, RunShutdown
  <2> QED
    BY <2>1, <2>2, <2>3, RunStepPInv
<1>4. CASE Signal
  <2>1. IInv'
    BY <1>4, MainAssumption, CancelIInv DEF Signal, PInv
  <2>2. UNCHANGED <<snap, held, at, configured, run, answer>>
    BY <1>4 DEF Signal, Cancel, readers, proxy
  <2> QED
    BY <2>1, <2>2, RunStepPInv DEF PInv
<1>5. CASE RunReturns
  <2>1. Stop \/ UNCHANGED vars
    BY <1>5 DEF RunReturns
  <2>2. IInv'
    BY <2>1, StopIInv, StutterIInv DEF PInv
  <2>3. UNCHANGED <<snap, held, at>>
    BY <2>1 DEF Stop, vars, client, readers
  <2>4. UNCHANGED <<configured, answer>> /\ run' = "returned"
    BY <1>5 DEF RunReturns
  <2> QED
    BY <2>2, <2>3, <2>4, RunStepPInv
<1> QED
  BY <1>1, <1>2, <1>3, <1>4, <1>5

\* The handlers that answer at once.
LEMMA HandlePInv ==
    ASSUME PInv, NEW r \in Reader,
           HandleReady(r) \/ HandleSnapshotInfo(r) \/ HandleEvaluateUnconfigured(r)
    PROVE  PInv' /\ Forward
<1>1. snap.version \in Nat
  BY VersionsAreNat
<1>2. CASE HandleReady(r)
  <2> DEFINE a == [path |-> "/readyz", status |-> 200, version |-> snap.version]
  <2>1. a \in Answer /\ a.version = snap.version
    BY SMT, <1>1 DEF Answer, Path
  <2>2. /\ held[r] = <<>>
        /\ answer' = [answer EXCEPT ![r] = a]
        /\ UNCHANGED <<vars, configured, run>>
    BY <1>2 DEF HandleReady, Respond
  <2> HIDE DEF a
  <2> QED
    BY <2>1, <2>2, AnswerPInv DEF Forward
<1>3. CASE HandleSnapshotInfo(r)
  <2> DEFINE status == IF snap.version > 0 THEN 200 ELSE 503
             a == [path |-> "/v1/snapshot", status |-> status, version |-> snap.version]
  <2>1. a \in Answer /\ a.version = snap.version
    BY SMT, <1>1 DEF Answer, Path
  <2>2. /\ held[r] = <<>>
        /\ answer' = [answer EXCEPT ![r] = a]
        /\ UNCHANGED <<vars, configured, run>>
    BY <1>3 DEF HandleSnapshotInfo, Respond
  <2> HIDE DEF a
  <2> QED
    BY <2>1, <2>2, AnswerPInv DEF Forward
<1>4. CASE HandleEvaluateUnconfigured(r)
  <2> DEFINE a == [path |-> "/v1/evaluate", status |-> 503, version |-> 0]
  <2>1. snap.version = 0
    BY <1>4 DEF HandleEvaluateUnconfigured, PInv, UnconfiguredIsEmpty
  <2>2. a \in Answer /\ a.version = snap.version
    BY SMT, <2>1 DEF Answer, Path
  <2>3. /\ held[r] = <<>>
        /\ answer' = [answer EXCEPT ![r] = a]
        /\ UNCHANGED <<vars, configured, run>>
    BY <1>4 DEF HandleEvaluateUnconfigured, Respond
  <2> HIDE DEF a
  <2> QED
    BY <2>2, <2>3, AnswerPInv DEF Forward
<1> QED
  BY <1>2, <1>3, <1>4

\* PInv is inductive, and every step goes forward.
LEMMA ProxyNextPInv == PInv /\ [ProxyNext]_proxyVars => PInv' /\ [Forward]_proxyVars
<1> SUFFICES ASSUME PInv, [ProxyNext]_proxyVars PROVE PInv' /\ [Forward]_proxyVars
  OBVIOUS
<1>1. CASE \/ UNCHANGED proxy /\ (\E F \in SUBSET Flag : CompileSnapshot(F))
           \/ RunStart \/ RunListen \/ Signal \/ RunShutdown \/ RunReturns
  BY <1>1, RunPInv, SilentIsForward
<1>2. CASE UNCHANGED proxy /\ Poll(Main)
  <2>1. UNCHANGED answer
    BY <1>2 DEF proxy
  <2> QED
    BY <1>2, <2>1, ProxyPollPInv, SilentIsForward
<1>3. ASSUME NEW r \in Reader,
             HandleReady(r) \/ HandleSnapshotInfo(r) \/ HandleEvaluateUnconfigured(r)
      PROVE  PInv' /\ Forward
  BY <1>3, HandlePInv
<1>4. ASSUME NEW r \in Reader, HandleEvaluateBegin(r)
      PROVE  PInv' /\ Forward
  <2>1. UNCHANGED answer
    BY <1>4 DEF HandleEvaluateBegin, proxy
  <2> QED
    BY <1>4, <2>1, EvaluateBeginPInv, SilentIsForward
<1>5. ASSUME NEW r \in Reader, NEW f \in Flag, HandleEvaluate(r, f)
      PROVE  PInv' /\ Forward
  BY <1>5, EvaluatePInv DEF Forward
<1>6. CASE UNCHANGED proxyVars
  <2>1. UNCHANGED vars /\ UNCHANGED proxy
    BY <1>6 DEF proxyVars
  <2>2. IInv'
    BY <2>1, StutterIInv DEF PInv
  <2>3. UNCHANGED <<snap, held, at, configured, run, answer>>
    BY <2>1 DEF vars, client, readers, proxy
  <2> QED
    BY <1>6, <2>2, <2>3, RunStepPInv DEF PInv
<1> QED
  BY <1>1, <1>2, <1>3, <1>4, <1>5, <1>6 DEF ProxyNext

\* The inductive invariant holds throughout.
THEOREM ProxyInvariance == ProxySpec => []PInv
<1>1. PInv /\ [ProxyNext]_proxyVars => PInv'
  BY ProxyNextPInv
<1> QED
  BY <1>1, NewPInv, PTL DEF ProxySpec

\* The variables of the proxy and of its client keep their types.
THEOREM ProxyTypeCorrect == ProxySpec => []ProxyTypeOK
<1>1. PInv => ProxyTypeOK
  BY DEF PInv, IInv, ProxyTypeOK
<1> QED
  BY <1>1, ProxyInvariance, PTL

\* A client that sends one request after another is never answered from an
\* older snapshot than before, for any number of clients, flags and snapshots.
THEOREM AnswersNeverGoBackHolds == ProxySpec => AnswersNeverGoBack
<1>1. PInv /\ [ProxyNext]_proxyVars
      => [\A r \in Reader : answer'[r].version >= answer[r].version]_proxyVars
  BY ProxyNextPInv DEF Forward
<1> QED
  BY <1>1, ProxyInvariance, PTL DEF ProxySpec, AnswersNeverGoBack
=============================================================================
