---------------------------- MODULE SdkJsProofs -----------------------------
(***************************************************************************)
(* Proofs about the JavaScript SDK: its client, SdkJs, and its evaluator   *)
(* beside the one of the Go runtime, Predicates.                           *)
(*                                                                         *)
(* The client: for every set of flags, every set of programs (chains,      *)
(* callers, flags that do not compile) and any number of versions,         *)
(* snapshots and ticks.  The argument has three parts.  A response is a    *)
(* copy of a row that never changes.  With one chain, pollTimer names      *)
(* every timer that is armed.  And what a fetch brings was the newest      *)
(* version at some time after the call, so every version it lacks was      *)
(* published after the call (KnownAt).                                     *)
(*                                                                         *)
(* The evaluator: for every context, every hash function and every flag of *)
(* any number of rules.  The value of a nested predicate is a recursive    *)
(* definition and stays with TLC (Rules).  What is proved here starts from *)
(* the outcomes of a flag's rules, whatever computed them, or is about one *)
(* leaf.                                                                   *)
(***************************************************************************)
EXTENDS SdkJs, Predicates, WellFoundedInduction, TLAPS

USE Zenon

Place == {"idle", "starting", "armed", "polling", "ended"}

Snapshot == [version : Nat, flags : [Flag -> Nat]]

Response == [outcome : {"none", "ok", "not_found", "error"}, body : Snapshot]

Entry == [version : Nat, fetchedAt : Nat]

Call == [flag : Flag, begun : Nat, outcome : {"none", "ok", "error"}, version : Nat]

Evaluation == [flag : Flag, begun : Nat, version : Nat, from : {"snapshot", "flag"}]

TypeOK ==
    /\ program \in Programs
    /\ now \in Nat
    /\ history \in [Flag -> Seq(Nat)]
    /\ stored \in Seq([Flag -> Nat])
    /\ snapshot \in Snapshot
    /\ pollTimer \in Chain \cup {NoTimer}
    /\ stopped \in BOOLEAN
    /\ at \in [Chain -> Place]
    /\ response \in [Chain -> Response]
    /\ perFlagCache \in [Flag -> Entry]
    /\ call \in [Caller -> Call \cup {<<>>}]
    /\ decision \in Evaluation \cup {<<>>}

\* A response under way carries a snapshot as the API stored it.
IsStored(s) == s.version \in 1 .. Len(stored) /\ s.flags = stored[s.version]

ResponsesAreStored ==
    \A c \in Chain : response[c].outcome = "ok" => IsStored(response[c].body)

\* With one chain, an armed timer is the one stop() clears, and there is none
\* once it has.
TimerIsKnown ==
    SingleChain => \A c \in Chain : at[c] = "armed" => pollTimer = c /\ ~stopped

\* Whoever had version v of f at time t lacked nothing that was older: every
\* version above v was published at t or later.
KnownAt(f, v, t) == \A w \in 1 .. Len(history[f]) : w > v => history[f][w] >= t

HistoryIsPast ==
    \A f \in Flag : \A w \in 1 .. Len(history[f]) : history[f][w] <= now

CacheIsKnown ==
    \A f \in Flag : /\ perFlagCache[f].fetchedAt <= now
                    /\ KnownAt(f, perFlagCache[f].version, perFlagCache[f].fetchedAt)

CallsAreKnown ==
    \A e \in Caller : call[e] # <<>> =>
        /\ call[e].begun <= now
        /\ call[e].outcome = "ok" =>
               KnownAt(call[e].flag, call[e].version, call[e].begun)

\* A decision from a single flag lacks only versions younger than TTL.
DecisionIsKnown ==
    decision # <<>> =>
        /\ decision.begun <= now
        /\ decision.from = "flag" =>
               KnownAt(decision.flag, decision.version, decision.begun - TTL + 1)

PollInv == ResponsesAreStored /\ TimerIsKnown

CacheInv == HistoryIsPast /\ CacheIsKnown /\ CallsAreKnown /\ DecisionIsKnown

IInv == TypeOK /\ PollInv /\ CacheInv
-----------------------------------------------------------------------------
(***************************************************************************)
(* Types.                                                                  *)
(***************************************************************************)

\* The values the client starts from.
LEMMA Nothing ==
    /\ NoFlags \in [Flag -> Nat] /\ NoSnapshot \in Snapshot
    /\ NoResponse \in Response /\ NoResponse.outcome = "none"
    /\ NoEntry \in Entry /\ NoEntry.version = 0 /\ NoEntry.fetchedAt = 0
<1>1. NoFlags \in [Flag -> Nat]
  BY SMT DEF NoFlags
<1>2. NoSnapshot \in Snapshot
  BY SMT, <1>1 DEF NoSnapshot, Snapshot
<1> QED
  BY SMT, <1>1, <1>2 DEF NoResponse, Response, NoEntry, Entry

\* The latest snapshot is a stored one.
LEMMA LatestIsStored ==
    ASSUME stored \in Seq([Flag -> Nat]), stored # <<>>
    PROVE  Latest \in Snapshot /\ IsStored(Latest)
<1>1. Len(stored) \in 1 .. Len(stored) /\ Len(stored) \in Nat
  BY SMT
<1>2. stored[Len(stored)] \in [Flag -> Nat]
  BY SMT, <1>1
<1>3. Latest.version = Len(stored) /\ Latest.flags = stored[Len(stored)]
  BY DEF Latest
<1> QED
  BY SMT, <1>1, <1>2, <1>3 DEF Latest, Snapshot, IsStored

\* An answer, or a failure, of GetFlag is still of a call.
LEMMA AnsweredCall ==
    ASSUME NEW r \in Call, NEW o \in {"ok", "error"}, NEW v \in Nat
    PROVE  /\ [r EXCEPT !.outcome = o] \in Call
           /\ [r EXCEPT !.outcome = o, !.version = v] \in Call
<1>1. [r EXCEPT !.outcome = o] \in Call
  BY SMT DEF Call
<1>2. ASSUME NEW q \in Call
      PROVE  [q EXCEPT !.version = v] \in Call
  BY SMT DEF Call
<1>3. [r EXCEPT !.outcome = o, !.version = v]
        = [[r EXCEPT !.outcome = o] EXCEPT !.version = v]
  OBVIOUS
<1> QED
  BY <1>1, <1>2, <1>3

\* The API answers a chain.
LEMMA SetResponseType ==
    ASSUME TypeOK, NEW c \in Chain, NEW r \in Response,
           response' = [response EXCEPT ![c] = r]
    PROVE  response' \in [Chain -> Response]
  BY DEF TypeOK

\* Every action keeps the types.
LEMMA NextTypeOK ==
    ASSUME TypeOK, [Next]_vars
    PROVE  TypeOK'
<1>1. CASE UNCHANGED vars
  BY <1>1 DEF TypeOK, vars, api, polls, calls
<1>2. CASE Tick
  <2>1. now' \in Nat
    BY SMT, <1>2 DEF Tick, TypeOK
  <2> QED
    BY <1>2, <2>1 DEF Tick, TypeOK, api, polls, calls
<1>3. CASE CompileSnapshot
  <2>1. [f \in Flag |-> Len(history[f])] \in [Flag -> Nat]
    BY SMT DEF TypeOK
  <2>2. stored' \in Seq([Flag -> Nat])
    BY SMT, <1>3, <2>1 DEF CompileSnapshot, TypeOK
  <2> QED
    BY <1>3, <2>2 DEF CompileSnapshot, TypeOK, polls, calls
<1>4. ASSUME NEW f \in Flag, PublishFlagVersion(f)
      PROVE  TypeOK'
  <2>1. history' \in [Flag -> Seq(Nat)]
    BY SMT, <1>4 DEF PublishFlagVersion, TypeOK
  <2> QED
    BY <1>4, <2>1 DEF PublishFlagVersion, TypeOK, polls, calls
<1>5. ASSUME NEW c \in Chain, GetLatestSnapshot(c)
      PROVE  TypeOK'
  <2> DEFINE r == IF stored = <<>> THEN [outcome |-> "not_found", body |-> NoSnapshot]
                  ELSE [outcome |-> "ok", body |-> Latest]
  <2>1. r \in Response
    <3>1. CASE stored = <<>>
      BY SMT, <3>1, Nothing DEF Response
    <3>2. CASE stored # <<>>
      <4>1. Latest \in Snapshot
        BY <3>2, LatestIsStored DEF TypeOK
      <4> QED
        BY SMT, <3>2, <4>1 DEF Response
    <3> QED
      BY <3>1, <3>2
  <2>2. response' = [response EXCEPT ![c] = r]
    BY <1>5 DEF GetLatestSnapshot
  <2> HIDE DEF r
  <2>3. response' \in [Chain -> Response]
    BY <2>1, <2>2, SetResponseType
  <2> QED
    BY <1>5, <2>3 DEF GetLatestSnapshot, TypeOK, api, calls
<1>6. ASSUME NEW c \in Chain, PollFails(c)
      PROVE  TypeOK'
  <2>1. [outcome |-> "error", body |-> NoSnapshot] \in Response
    BY SMT, Nothing DEF Response
  <2>2. response' \in [Chain -> Response]
    BY <1>6, <2>1, SetResponseType DEF PollFails
  <2> QED
    BY <1>6, <2>2 DEF PollFails, TypeOK, api, calls
<1>7. ASSUME NEW c \in Chain, start(c)
      PROVE  TypeOK'
  <2>1. at' \in [Chain -> Place]
    BY <1>7 DEF start, TypeOK, Place
  <2> QED
    BY <1>7, <2>1 DEF start, TypeOK, api, calls
<1>8. ASSUME NEW c \in Chain, PollReturns(c)
      PROVE  TypeOK'
  <2>1. snapshot' \in Snapshot
    <3>1. response[c].body \in Snapshot
      BY SMT DEF TypeOK, Response
    <3> QED
      BY <1>8, <3>1 DEF PollReturns, pollSnapshot, TypeOK
  <2>2. at' \in [Chain -> Place] /\ pollTimer' \in Chain \cup {NoTimer}
    <3>1. \/ at' = [at EXCEPT ![c] = "ended"] /\ pollTimer' = pollTimer
          \/ at' = [at EXCEPT ![c] = "armed"] /\ pollTimer' = c
      BY <1>8 DEF PollReturns, scheduleNextPoll
    <3> QED
      BY <3>1 DEF TypeOK, Place
  <2>3. response' \in [Chain -> Response]
    BY <1>8, Nothing, SetResponseType DEF PollReturns
  <2> QED
    BY <1>8, <2>1, <2>2, <2>3 DEF PollReturns, TypeOK, api, calls
<1>9. ASSUME NEW c \in Chain, TimerFires(c)
      PROVE  TypeOK'
  <2>1. at' \in [Chain -> Place]
    BY <1>9 DEF TimerFires, TypeOK, Place
  <2> QED
    BY <1>9, <2>1 DEF TimerFires, TypeOK, api, calls
<1>10. CASE stop
  <2>1. at' \in [Chain -> Place]
    BY <1>10 DEF stop, TypeOK, Place
  <2> QED
    BY <1>10, <2>1 DEF stop, TypeOK, api, calls
<1>11. ASSUME NEW e \in Caller, GetFlag(e)
       PROVE  TypeOK'
  <2>1. call[e] \in Call
    BY <1>11 DEF GetFlag, TypeOK
  <2>2. Len(history[call[e].flag]) \in Nat
    BY SMT, <2>1 DEF TypeOK, Call
  <2>3. [call[e] EXCEPT !.outcome = "ok", !.version = Len(history[call[e].flag])] \in Call
    BY <2>1, <2>2, AnsweredCall
  <2>4. call' \in [Caller -> Call \cup {<<>>}]
    BY <1>11, <2>3 DEF GetFlag, TypeOK
  <2> QED
    BY <1>11, <2>4 DEF GetFlag, TypeOK, api, polls
<1>12. ASSUME NEW e \in Caller, GetFlagFails(e)
       PROVE  TypeOK'
  <2>1. call[e] \in Call
    BY <1>12 DEF GetFlagFails, TypeOK
  <2>2. [call[e] EXCEPT !.outcome = "error"] \in Call
    BY <2>1, AnsweredCall
  <2>3. call' \in [Caller -> Call \cup {<<>>}]
    BY <1>12, <2>2 DEF GetFlagFails, TypeOK
  <2> QED
    BY <1>12, <2>3 DEF GetFlagFails, TypeOK, api, polls
<1>13. ASSUME NEW e \in Caller, FetchReturns(e)
       PROVE  TypeOK'
  <2>1. call[e] \in Call
    BY <1>13 DEF FetchReturns, TypeOK
  <2>2. /\ call[e].flag \in Flag /\ call[e].begun \in Nat /\ call[e].version \in Nat
    BY SMT, <2>1 DEF Call
  <2>3. perFlagCache' \in [Flag -> Entry]
    <3>1. [version |-> call[e].version, fetchedAt |-> call[e].begun] \in Entry
      BY SMT, <2>2 DEF Entry
    <3> QED
      BY <1>13, <2>2, <3>1 DEF FetchReturns, loadFlagPerFlag, TypeOK
  <2>4. decision' \in Evaluation \cup {<<>>}
    <3>1. [flag |-> call[e].flag, begun |-> call[e].begun,
           version |-> call[e].version, from |-> "flag"] \in Evaluation
      BY SMT, <2>2 DEF Evaluation
    <3> QED
      BY <1>13, <3>1 DEF FetchReturns, Evaluated, TypeOK
  <2>5. call' \in [Caller -> Call \cup {<<>>}]
    BY <1>13 DEF FetchReturns, TypeOK
  <2> QED
    BY <1>13, <2>3, <2>4, <2>5 DEF FetchReturns, TypeOK, api, polls
<1>14. ASSUME NEW e \in Caller, NEW f \in Flag, evaluateFlag(e, f)
       PROVE  TypeOK'
  <2>1. /\ snapshot.flags[f] \in Nat /\ perFlagCache[f].version \in Nat /\ now \in Nat
    BY SMT DEF TypeOK, Snapshot, Entry
  <2>2. ASSUME NEW v \in Nat, NEW from \in {"snapshot", "flag"}
        PROVE  [flag |-> f, begun |-> now, version |-> v, from |-> from] \in Evaluation
    BY SMT, <2>1 DEF Evaluation
  <2>3. [flag |-> f, begun |-> now, outcome |-> "none", version |-> 0] \in Call
    BY SMT, <2>1 DEF Call
  <2>4. /\ decision' \in Evaluation \cup {<<>>}
        /\ call' \in [Caller -> Call \cup {<<>>}]
    BY <1>14, <2>1, <2>2, <2>3 DEF evaluateFlag, Evaluated, TypeOK
  <2> QED
    BY <1>14, <2>4 DEF evaluateFlag, TypeOK, api, polls
<1> QED
  BY <1>1, <1>2, <1>3, <1>4, <1>5, <1>6, <1>7, <1>8, <1>9, <1>10, <1>11, <1>12,
     <1>13, <1>14 DEF Next
-----------------------------------------------------------------------------
(***************************************************************************)
(* Polling.                                                                *)
(***************************************************************************)

\* A step that leaves the chains and the API alone keeps what is known of them.
LEMMA QuietPollInv ==
    ASSUME PollInv, UNCHANGED <<stored, pollTimer, stopped, at, response>>
    PROVE  PollInv'
  BY DEF PollInv, ResponsesAreStored, IsStored, TimerIsKnown, SingleChain

\* Snapshots are appended: what was stored stays stored.
LEMMA CompileSnapshotPollInv ==
    ASSUME TypeOK, PollInv, CompileSnapshot
    PROVE  PollInv'
<1>1. [f \in Flag |-> Len(history[f])] \in [Flag -> Nat]
  BY SMT DEF TypeOK
<1>2. /\ Len(stored) \in Nat /\ Len(stored') = Len(stored) + 1
      /\ \A v \in 1 .. Len(stored) : stored'[v] = stored[v]
  BY SMT, <1>1 DEF CompileSnapshot, TypeOK
<1>3. 1 .. Len(stored) \subseteq 1 .. Len(stored')
  BY SMT, <1>2
<1>4. UNCHANGED <<pollTimer, stopped, at, response>>
  BY DEF CompileSnapshot, polls
<1>5. ResponsesAreStored'
  BY <1>2, <1>3, <1>4 DEF PollInv, ResponsesAreStored, IsStored
<1>6. TimerIsKnown'
  BY <1>4 DEF PollInv, TimerIsKnown, SingleChain
<1> QED
  BY <1>5, <1>6 DEF PollInv

\* An answer is a stored snapshot, or it is not "ok".
LEMMA AnswerPollInv ==
    ASSUME TypeOK, PollInv, NEW c \in Chain, NEW r \in Response,
           r.outcome = "ok" => IsStored(r.body),
           response' = [response EXCEPT ![c] = r],
           UNCHANGED <<stored, pollTimer, stopped, at>>
    PROVE  PollInv'
<1>1. response'[c] = r /\ \A d \in Chain \ {c} : response'[d] = response[d]
  BY DEF TypeOK
<1>2. ResponsesAreStored'
  BY <1>1 DEF PollInv, ResponsesAreStored, IsStored
<1> QED
  BY <1>2 DEF PollInv, TimerIsKnown, SingleChain

\* While one chain only was started, a step of chain c finds no other armed.
LEMMA ChainMoves ==
    ASSUME TypeOK, TimerIsKnown, NEW c \in Chain, NEW p \in Place \ {"idle"},
           at' = [at EXCEPT ![c] = p],
           p = "armed" => pollTimer' = c /\ ~stopped'
    PROVE  TimerIsKnown'
<1> SUFFICES ASSUME SingleChain', NEW d \in Chain, at'[d] = "armed"
             PROVE  pollTimer' = d /\ ~stopped'
  BY DEF TimerIsKnown
<1>1. at'[c] = p
  BY DEF TypeOK
<1>2. d = c
  BY <1>1 DEF SingleChain
<1> QED
  BY <1>1, <1>2

\* start(), pollSnapshot(), scheduleNextPoll(), the timer and stop() keep the
\* timer known.
LEMMA NextPollInv ==
    ASSUME TypeOK, PollInv, [Next]_vars
    PROVE  PollInv'
<1>1. CASE UNCHANGED vars
  BY <1>1, QuietPollInv DEF vars, api, polls
<1>2. CASE CompileSnapshot
  BY <1>2, CompileSnapshotPollInv
<1>3. CASE Tick \/ (\E f \in Flag : PublishFlagVersion(f))
  BY <1>3, QuietPollInv DEF Tick, PublishFlagVersion, api, polls
<1>4. ASSUME NEW c \in Chain, GetLatestSnapshot(c)
      PROVE  PollInv'
  <2>1. CASE stored = <<>>
    <3>1. [outcome |-> "not_found", body |-> NoSnapshot] \in Response
      BY SMT, Nothing DEF Response
    <3> QED
      BY <1>4, <2>1, <3>1, AnswerPollInv DEF GetLatestSnapshot, api
  <2>2. CASE stored # <<>>
    <3>1. Latest \in Snapshot /\ IsStored(Latest)
      BY <2>2, LatestIsStored DEF TypeOK
    <3>2. [outcome |-> "ok", body |-> Latest] \in Response
      BY SMT, <3>1 DEF Response
    <3> QED
      BY <1>4, <2>2, <3>1, <3>2, AnswerPollInv DEF GetLatestSnapshot, api
  <2> QED
    BY <2>1, <2>2
<1>5. ASSUME NEW c \in Chain, PollFails(c)
      PROVE  PollInv'
  <2>1. [outcome |-> "error", body |-> NoSnapshot] \in Response
    BY SMT, Nothing DEF Response
  <2> QED
    BY <1>5, <2>1, AnswerPollInv DEF PollFails, api
<1>6. ASSUME NEW c \in Chain, start(c)
      PROVE  PollInv'
  <2>1. TimerIsKnown'
    BY <1>6, ChainMoves DEF PollInv, start, Place
  <2> QED
    BY <1>6, <2>1 DEF PollInv, ResponsesAreStored, IsStored, start, api
<1>7. ASSUME NEW c \in Chain, PollReturns(c)
      PROVE  PollInv'
  <2>1. \/ at' = [at EXCEPT ![c] = "ended"]
        \/ at' = [at EXCEPT ![c] = "armed"] /\ pollTimer' = c /\ ~stopped
    BY <1>7 DEF PollReturns, scheduleNextPoll
  <2>2. TimerIsKnown'
    BY <1>7, <2>1, ChainMoves DEF PollInv, PollReturns, Place
  <2>3. response'[c] = NoResponse /\ \A d \in Chain \ {c} : response'[d] = response[d]
    BY <1>7 DEF PollReturns, TypeOK
  <2>4. ResponsesAreStored'
    BY <1>7, <2>3, Nothing DEF PollInv, ResponsesAreStored, IsStored, PollReturns, api
  <2> QED
    BY <2>2, <2>4 DEF PollInv
<1>8. ASSUME NEW c \in Chain, TimerFires(c)
      PROVE  PollInv'
  <2>1. TimerIsKnown'
    BY <1>8, ChainMoves DEF PollInv, TimerFires, Place
  <2> QED
    BY <1>8, <2>1 DEF PollInv, ResponsesAreStored, IsStored, TimerFires, api
<1>9. CASE stop
  <2>1. ASSUME NEW c \in Chain
        PROVE  at[c] = "idle" <=> at'[c] = "idle"
    BY <1>9 DEF stop
  <2>2. SingleChain' => SingleChain
    BY <2>1 DEF SingleChain
  <2>3. ASSUME SingleChain', NEW c \in Chain
        PROVE  at'[c] # "armed"
    BY <1>9, <2>2, <2>3 DEF stop, PollInv, TimerIsKnown
  <2>4. TimerIsKnown'
    BY <2>3 DEF TimerIsKnown
  <2> QED
    BY <1>9, <2>4 DEF PollInv, ResponsesAreStored, IsStored, stop, api
<1>10. ASSUME NEW e \in Caller, GetFlag(e) \/ GetFlagFails(e) \/ FetchReturns(e)
       PROVE  PollInv'
  BY <1>10, QuietPollInv DEF GetFlag, GetFlagFails, FetchReturns, api, polls
<1>11. ASSUME NEW e \in Caller, NEW f \in Flag, evaluateFlag(e, f)
       PROVE  PollInv'
  BY <1>11, QuietPollInv DEF evaluateFlag, api, polls
<1> QED
  BY <1>1, <1>2, <1>3, <1>4, <1>5, <1>6, <1>7, <1>8, <1>9, <1>10, <1>11 DEF Next
-----------------------------------------------------------------------------
(***************************************************************************)
(* The cache of single flags.                                              *)
(***************************************************************************)

\* A step of polling says nothing of single flags.
LEMMA QuietCacheInv ==
    ASSUME CacheInv, UNCHANGED <<now, history, perFlagCache, call, decision>>
    PROVE  CacheInv'
  BY DEF CacheInv, HistoryIsPast, CacheIsKnown, CallsAreKnown, DecisionIsKnown, KnownAt

\* Time passes.
LEMMA TickCacheInv ==
    ASSUME TypeOK, CacheInv, Tick
    PROVE  CacheInv'
<1>1. now \in Nat /\ now' = now + 1
  BY DEF Tick, TypeOK
<1>2. UNCHANGED <<history, perFlagCache, call, decision>>
  BY DEF Tick, api, calls
<1>3. \A t \in Nat : t <= now => t <= now'
  BY SMT, <1>1
<1>4. HistoryIsPast'
  <2> SUFFICES ASSUME NEW f \in Flag, NEW w \in 1 .. Len(history[f])
               PROVE  history[f][w] <= now'
    BY <1>2 DEF HistoryIsPast
  <2>1. history[f][w] \in Nat
    BY SMT DEF TypeOK
  <2> QED
    BY <1>3, <2>1 DEF CacheInv, HistoryIsPast
<1>5. CacheIsKnown'
  <2>1. \A f \in Flag : perFlagCache[f].fetchedAt \in Nat
    BY SMT DEF TypeOK, Entry
  <2> QED
    BY <1>2, <1>3, <2>1 DEF CacheInv, CacheIsKnown, KnownAt
<1>6. CallsAreKnown'
  <2>1. \A e \in Caller : call[e] # <<>> => call[e] \in Call
    BY DEF TypeOK
  <2>2. \A r \in Call : r.begun \in Nat
    BY SMT DEF Call
  <2> QED
    BY <1>2, <1>3, <2>1, <2>2 DEF CacheInv, CallsAreKnown, KnownAt
<1>7. DecisionIsKnown'
  <2>1. decision # <<>> => decision.begun \in Nat
    BY SMT DEF TypeOK, Evaluation
  <2> QED
    BY <1>2, <1>3, <2>1 DEF CacheInv, DecisionIsKnown, KnownAt
<1> QED
  BY <1>4, <1>5, <1>6, <1>7 DEF CacheInv

\* A version that is published now is younger than whatever is known of before.
LEMMA PublishKnownAt ==
    ASSUME TypeOK, NEW f \in Flag, PublishFlagVersion(f),
           NEW g \in Flag, NEW v \in Nat, NEW t \in Int, t <= now, KnownAt(g, v, t)
    PROVE  KnownAt(g, v, t)'
<1>1. history[g] \in Seq(Nat) /\ now \in Nat
  BY DEF TypeOK
<1>2. history'[g] = IF g = f THEN Append(history[g], now) ELSE history[g]
  BY DEF PublishFlagVersion, TypeOK
<1>3. CASE g = f
  <2> SUFFICES ASSUME NEW w \in 1 .. Len(history'[g]), w > v
               PROVE  history'[g][w] >= t
    BY DEF KnownAt
  <2>1. history'[g] = Append(history[g], now)
    BY <1>2, <1>3
  <2>2. CASE w = Len(history[g]) + 1
    BY SMT, <1>1, <2>1, <2>2
  <2>3. CASE w # Len(history[g]) + 1
    <3>1. w \in 1 .. Len(history[g]) /\ history'[g][w] = history[g][w]
      BY SMT, <1>1, <2>1, <2>3
    <3> QED
      BY <3>1 DEF KnownAt
  <2> QED
    BY <2>2, <2>3
<1>4. CASE g # f
  BY <1>2, <1>4 DEF KnownAt
<1> QED
  BY <1>3, <1>4

\* PublishFlagVersion.
LEMMA PublishCacheInv ==
    ASSUME TypeOK, CacheInv, NEW f \in Flag, PublishFlagVersion(f)
    PROVE  CacheInv'
<1>1. UNCHANGED <<now, perFlagCache, call, decision>>
  BY DEF PublishFlagVersion, calls
<1>2. HistoryIsPast'
  <2> SUFFICES ASSUME NEW g \in Flag, NEW w \in 1 .. Len(history'[g])
               PROVE  history'[g][w] <= now
    BY <1>1 DEF HistoryIsPast
  <2>1. history[g] \in Seq(Nat) /\ now \in Nat
    BY DEF TypeOK
  <2>2. history'[g] = IF g = f THEN Append(history[g], now) ELSE history[g]
    BY DEF PublishFlagVersion, TypeOK
  <2>3. CASE g = f /\ w = Len(history[g]) + 1
    BY SMT, <2>1, <2>2, <2>3
  <2>4. CASE ~(g = f /\ w = Len(history[g]) + 1)
    <3>1. w \in 1 .. Len(history[g]) /\ history'[g][w] = history[g][w]
      BY SMT, <2>1, <2>2, <2>4
    <3> QED
      BY <3>1 DEF CacheInv, HistoryIsPast
  <2> QED
    BY <2>3, <2>4
<1>3. CacheIsKnown'
  <2>1. \A g \in Flag : /\ perFlagCache[g].fetchedAt \in Int
                        /\ perFlagCache[g].version \in Nat
    BY SMT DEF TypeOK, Entry
  <2> QED
    BY <1>1, <2>1, PublishKnownAt DEF CacheInv, CacheIsKnown
<1>4. CallsAreKnown'
  <2>1. \A e \in Caller : call[e] # <<>> => call[e] \in Call
    BY DEF TypeOK
  <2>2. \A r \in Call : r.begun \in Int /\ r.version \in Nat /\ r.flag \in Flag
    BY SMT DEF Call
  <2> QED
    BY <1>1, <2>1, <2>2, PublishKnownAt DEF CacheInv, CallsAreKnown
<1>5. DecisionIsKnown'
  <2> SUFFICES ASSUME decision # <<>>
               PROVE  /\ decision.begun <= now
                      /\ decision.from = "flag" =>
                            KnownAt(decision.flag, decision.version,
                                    decision.begun - TTL + 1)'
    BY <1>1 DEF DecisionIsKnown
  <2>1. decision.flag \in Flag /\ decision.version \in Nat /\ decision.begun \in Nat
    BY SMT DEF TypeOK, Evaluation
  <2>2. decision.begun <= now /\ now \in Nat
    BY DEF CacheInv, DecisionIsKnown, TypeOK
  <2>3. decision.begun - TTL + 1 \in Int /\ decision.begun - TTL + 1 <= now
    BY SMT, <2>1, <2>2, SdkJsAssumption
  <2> QED
    BY <1>1, <2>1, <2>2, <2>3, PublishKnownAt DEF CacheInv, DecisionIsKnown
<1> QED
  BY <1>2, <1>3, <1>4, <1>5 DEF CacheInv

\* What a call brings back, or what the cache holds and is still fresh, lacks
\* only versions younger than TTL.
LEMMA FreshEnough ==
    ASSUME NEW f \in Flag, NEW v \in Nat, NEW t \in Nat, NEW begun \in Nat,
           history[f] \in Seq(Nat), KnownAt(f, v, t), begun - t < TTL
    PROVE  KnownAt(f, v, begun - TTL + 1)
<1> SUFFICES ASSUME NEW w \in 1 .. Len(history[f]), w > v
             PROVE  history[f][w] >= begun - TTL + 1
  BY DEF KnownAt
<1>1. history[f][w] >= t
  BY DEF KnownAt
<1>2. history[f][w] \in Nat
  BY SMT
<1> QED
  BY SMT, <1>1, <1>2, SdkJsAssumption

\* GetFlag answers with the newest version, so that none is above it.
LEMMA GetFlagCacheInv ==
    ASSUME TypeOK, CacheInv, NEW e \in Caller, GetFlag(e) \/ GetFlagFails(e)
    PROVE  CacheInv'
<1>1. UNCHANGED <<now, history, perFlagCache, decision>>
  BY DEF GetFlag, GetFlagFails, api
<1>2. call[e] \in Call /\ \A d \in Caller \ {e} : call'[d] = call[d]
  BY DEF TypeOK, GetFlag, GetFlagFails
<1>3. call[e].flag \in Flag /\ call[e].begun <= now
  <2>1. call[e].flag \in Flag
    BY SMT, <1>2 DEF Call
  <2> QED
    BY <2>1 DEF CacheInv, CallsAreKnown, GetFlag, GetFlagFails
<1>4. /\ call'[e].begun <= now
      /\ call'[e].outcome = "ok" => KnownAt(call'[e].flag, call'[e].version, call'[e].begun)
  <2>1. CASE GetFlag(e)
    <3>1. call'[e] = [call[e] EXCEPT !.outcome = "ok",
                                     !.version = Len(history[call[e].flag])]
      BY <2>1 DEF GetFlag, TypeOK
    <3>2. /\ call'[e].begun = call[e].begun /\ call'[e].flag = call[e].flag
          /\ call'[e].version = Len(history[call[e].flag])
      BY SMT, <1>2, <3>1 DEF Call
    <3>3. history[call[e].flag] \in Seq(Nat)
      BY <1>3 DEF TypeOK
    <3>4. KnownAt(call[e].flag, Len(history[call[e].flag]), call[e].begun)
      BY SMT, <3>3 DEF KnownAt
    <3> QED
      BY <1>3, <3>2, <3>4
  <2>2. CASE GetFlagFails(e)
    <3>1. call'[e] = [call[e] EXCEPT !.outcome = "error"]
      BY <2>2 DEF GetFlagFails, TypeOK
    <3>2. call'[e].begun = call[e].begun /\ call'[e].outcome = "error"
      BY SMT, <1>2, <3>1 DEF Call
    <3> QED
      BY <1>3, <3>2
  <2> QED
    BY <2>1, <2>2
<1>5. CallsAreKnown'
  <2> SUFFICES ASSUME NEW d \in Caller, call'[d] # <<>>
               PROVE  /\ call'[d].begun <= now'
                      /\ call'[d].outcome = "ok" =>
                             KnownAt(call[d].flag, call[d].version, call[d].begun)'
    BY DEF CallsAreKnown
  <2>1. CASE d = e
    BY <1>1, <1>4, <2>1 DEF KnownAt
  <2>2. CASE d # e
    BY <1>1, <1>2, <2>2 DEF CacheInv, CallsAreKnown, KnownAt
  <2> QED
    BY <2>1, <2>2
<1>6. HistoryIsPast' /\ CacheIsKnown' /\ DecisionIsKnown'
  BY <1>1 DEF CacheInv, HistoryIsPast, CacheIsKnown, DecisionIsKnown, KnownAt
<1> QED
  BY <1>5, <1>6 DEF CacheInv

\* evaluateFlag decides from the snapshot, from a fresh entry, or begins a call.
LEMMA EvaluateCacheInv ==
    ASSUME TypeOK, CacheInv, NEW e \in Caller, NEW f \in Flag, evaluateFlag(e, f)
    PROVE  CacheInv'
<1>1. UNCHANGED <<now, history, perFlagCache>>
  BY DEF evaluateFlag, api
<1>2. now \in Nat /\ now <= now /\ history[f] \in Seq(Nat)
  BY SMT DEF TypeOK
<1>3. HistoryIsPast' /\ CacheIsKnown'
  BY <1>1 DEF CacheInv, HistoryIsPast, CacheIsKnown, KnownAt
<1>4. CallsAreKnown'
  <2>1. CASE UNCHANGED call
    BY <1>1, <2>1 DEF CacheInv, CallsAreKnown, KnownAt
  <2>2. CASE call' = [call EXCEPT ![e] = [flag |-> f, begun |-> now,
                                          outcome |-> "none", version |-> 0]]
    <3>1. /\ call'[e] = [flag |-> f, begun |-> now, outcome |-> "none", version |-> 0]
          /\ \A d \in Caller \ {e} : call'[d] = call[d]
      BY <2>2 DEF TypeOK
    <3>2. call'[e].begun = now /\ call'[e].outcome = "none"
      BY SMT, <3>1
    <3> QED
      BY <1>1, <1>2, <3>1, <3>2 DEF CacheInv, CallsAreKnown, KnownAt
  <2> QED
    BY <2>1, <2>2 DEF evaluateFlag
<1>5. DecisionIsKnown'
  <2>1. CASE UNCHANGED decision
    BY <1>1, <2>1 DEF CacheInv, DecisionIsKnown, KnownAt
  <2>2. CASE Evaluated(f, now, snapshot.flags[f], "snapshot")
    <3>1. decision'.begun = now /\ decision'.from = "snapshot"
      BY <2>2 DEF Evaluated
    <3> QED
      BY <1>1, <1>2, <3>1 DEF DecisionIsKnown
  <2>3. CASE Fresh(f) /\ Evaluated(f, now, perFlagCache[f].version, "flag")
    <3>1. /\ decision'.begun = now /\ decision'.flag = f
          /\ decision'.version = perFlagCache[f].version
      BY <2>3 DEF Evaluated
    <3>2. perFlagCache[f].version \in Nat /\ perFlagCache[f].fetchedAt \in Nat
      BY SMT DEF TypeOK, Entry
    <3>3. now - perFlagCache[f].fetchedAt < TTL
      BY <2>3 DEF Fresh
    <3>4. KnownAt(f, perFlagCache[f].version, now - TTL + 1)
      BY <1>2, <3>2, <3>3, FreshEnough DEF CacheInv, CacheIsKnown
    <3> QED
      BY <1>1, <1>2, <3>1, <3>4 DEF DecisionIsKnown, KnownAt
  <2> QED
    BY <2>1, <2>2, <2>3 DEF evaluateFlag
<1> QED
  BY <1>3, <1>4, <1>5 DEF CacheInv

\* loadFlagPerFlag: an entry is known at the time its call began, whatever
\* entry it overwrites.
LEMMA FetchReturnsCacheInv ==
    ASSUME TypeOK, CacheInv, NEW e \in Caller, FetchReturns(e)
    PROVE  CacheInv'
<1> DEFINE r == call[e]
<1>1. UNCHANGED <<now, history>>
  BY DEF FetchReturns, api
<1>2. r \in Call /\ r # <<>>
  BY DEF TypeOK, FetchReturns
<1>3. r.flag \in Flag /\ r.begun \in Nat /\ r.version \in Nat
  BY SMT, <1>2 DEF Call
<1>4. r.begun <= now /\ (r.outcome = "ok" => KnownAt(r.flag, r.version, r.begun))
  BY <1>2 DEF CacheInv, CallsAreKnown
<1>5. HistoryIsPast'
  BY <1>1 DEF CacheInv, HistoryIsPast
<1>6. CacheIsKnown'
  <2>1. CASE UNCHANGED perFlagCache
    BY <1>1, <2>1 DEF CacheInv, CacheIsKnown, KnownAt
  <2>2. CASE /\ r.outcome = "ok"
             /\ perFlagCache' = [perFlagCache EXCEPT ![r.flag] =
                                    [version |-> r.version, fetchedAt |-> r.begun]]
    <3>1. /\ perFlagCache'[r.flag] = [version |-> r.version, fetchedAt |-> r.begun]
          /\ \A g \in Flag \ {r.flag} : perFlagCache'[g] = perFlagCache[g]
      BY <1>3, <2>2 DEF TypeOK
    <3>2. /\ perFlagCache'[r.flag].version = r.version
          /\ perFlagCache'[r.flag].fetchedAt = r.begun
      BY SMT, <3>1
    <3> HIDE DEF r
    <3>3. \A g \in Flag \ {r.flag} :
              /\ perFlagCache[g].fetchedAt <= now
              /\ KnownAt(g, perFlagCache[g].version, perFlagCache[g].fetchedAt)
      BY DEF CacheInv, CacheIsKnown
    <3>4. ASSUME NEW g \in Flag, g # r.flag
          PROVE  (/\ perFlagCache[g].fetchedAt <= now
                  /\ KnownAt(g, perFlagCache[g].version, perFlagCache[g].fetchedAt))'
      BY <1>1, <3>1, <3>3, <3>4 DEF KnownAt
    <3>5. ASSUME NEW g \in Flag, g = r.flag
          PROVE  (/\ perFlagCache[g].fetchedAt <= now
                  /\ KnownAt(g, perFlagCache[g].version, perFlagCache[g].fetchedAt))'
      BY <1>1, <1>4, <2>2, <3>2, <3>5 DEF KnownAt
    <3> QED
      BY <3>4, <3>5 DEF CacheIsKnown
  <2> QED
    BY <2>1, <2>2 DEF FetchReturns, loadFlagPerFlag
<1>7. CallsAreKnown'
  <2>1. call'[e] = <<>> /\ \A d \in Caller \ {e} : call'[d] = call[d]
    BY DEF FetchReturns, TypeOK
  <2> QED
    BY <1>1, <2>1 DEF CacheInv, CallsAreKnown, KnownAt
<1>8. DecisionIsKnown'
  <2>1. CASE UNCHANGED decision
    BY <1>1, <2>1 DEF CacheInv, DecisionIsKnown, KnownAt
  <2>2. CASE r.outcome = "ok" /\ Evaluated(r.flag, r.begun, r.version, "flag")
    <3>1. /\ decision'.begun = r.begun /\ decision'.flag = r.flag
          /\ decision'.version = r.version
      BY <2>2 DEF Evaluated
    <3>2. history[r.flag] \in Seq(Nat)
      BY <1>3 DEF TypeOK
    <3>3. r.begun - r.begun < TTL
      BY SMT, <1>3, SdkJsAssumption
    <3> HIDE DEF r
    <3>4. KnownAt(r.flag, r.version, r.begun - TTL + 1)
      BY <1>3, <1>4, <2>2, <3>2, <3>3, FreshEnough
    <3> QED
      BY <1>1, <1>4, <3>1, <3>4 DEF DecisionIsKnown, KnownAt
  <2> QED
    BY <2>1, <2>2 DEF FetchReturns
<1> QED
  BY <1>5, <1>6, <1>7, <1>8 DEF CacheInv

\* Every step keeps what is known of single flags.
LEMMA NextCacheInv ==
    ASSUME TypeOK, CacheInv, [Next]_vars
    PROVE  CacheInv'
<1>1. CASE UNCHANGED vars
  BY <1>1, QuietCacheInv DEF vars, api, calls
<1>2. CASE CompileSnapshot \/ stop
  BY <1>2, QuietCacheInv DEF CompileSnapshot, stop, api, calls
<1>3. ASSUME NEW c \in Chain,
             \/ GetLatestSnapshot(c) \/ PollFails(c)
             \/ start(c) \/ PollReturns(c) \/ TimerFires(c)
      PROVE  CacheInv'
  BY <1>3, QuietCacheInv DEF GetLatestSnapshot, PollFails, start, PollReturns,
                             TimerFires, api, calls
<1> QED
  BY <1>1, <1>2, <1>3, TickCacheInv, PublishCacheInv, GetFlagCacheInv,
     FetchReturnsCacheInv, EvaluateCacheInv DEF Next
-----------------------------------------------------------------------------
(***************************************************************************)
(* Theorems.                                                               *)
(***************************************************************************)

\* createClient.
LEMMA InitIInv == Init => IInv
<1> SUFFICES ASSUME Init PROVE IInv
  OBVIOUS
<1>1. TypeOK
  <2>1. now \in Nat /\ stored \in Seq([Flag -> Nat]) /\ history \in [Flag -> Seq(Nat)]
    BY SMT DEF Init
  <2> QED
    BY <2>1, Nothing DEF Init, TypeOK, Place
<1>2. PollInv
  <2>1. \A c \in Chain : response[c] = NoResponse /\ at[c] = "idle"
    BY DEF Init
  <2> QED
    BY <2>1, Nothing DEF PollInv, ResponsesAreStored, TimerIsKnown
<1>3. CacheInv
  <2>1. \A f \in Flag : history[f] = <<>> /\ perFlagCache[f] = NoEntry
    BY DEF Init
  <2>2. 1 .. Len(<<>>) = {} /\ now <= now /\ now = 0
    BY SMT DEF Init
  <2> QED
    BY <2>1, <2>2, Nothing DEF Init, CacheInv, HistoryIsPast, CacheIsKnown,
                               CallsAreKnown, DecisionIsKnown, KnownAt
<1> QED
  BY <1>1, <1>2, <1>3 DEF IInv

\* The invariant the theorems below follow from: the state of the JavaScript
\* client (client.ts) is typed, what it was answered is stored, its timer is
\* known and its cache entries lack nothing older than they are.
THEOREM JsInvariant == Spec => []IInv
<1>1. IInv /\ [Next]_vars => IInv'
  BY NextTypeOK, NextPollInv, NextCacheInv DEF IInv
<1> QED
  BY <1>1, InitIInv, PTL DEF Spec

\* For any programs, however start() and stop() interleave with polls under way
\* and timers: with one chain, no timer is left armed on a stopped client.
THEOREM StopAlwaysFinal == Spec => []StopIsFinal
<1>1. IInv => StopIsFinal
  BY DEF IInv, PollInv, TimerIsKnown, StopIsFinal
<1> QED
  BY <1>1, JsInvariant, PTL

\* For any number of callers whose fetches overlap, overwrite each other's
\* entries and take any time: a decision made from the per-flag cache of
\* client.ts takes into account every version that was published
\* PER_FLAG_CACHE_TTL_MS before evaluate() was called.
THEOREM CacheAlwaysFresh == Spec => []CacheIsFresh
<1>1. IInv => CacheIsFresh
  <2> SUFFICES ASSUME IInv, decision # <<>>, decision.from = "flag",
                      NEW v \in Settled(decision.flag, decision.begun)
               PROVE  decision.version >= v
    BY DEF CacheIsFresh
  <2>1. decision.flag \in Flag /\ decision.begun \in Nat /\ decision.version \in Nat
    BY SMT DEF IInv, TypeOK, Evaluation
  <2>2. KnownAt(decision.flag, decision.version, decision.begun - TTL + 1)
    BY DEF IInv, CacheInv, DecisionIsKnown
  <2> DEFINE h == history[decision.flag]
  <2>3. h \in Seq(Nat)
    BY <2>1 DEF IInv, TypeOK
  <2>4. v \in 1 .. Len(h) /\ h[v] + TTL <= decision.begun
    BY DEF Settled
  <2>5. v > decision.version => h[v] >= decision.begun - TTL + 1
    BY <2>2, <2>4 DEF KnownAt
  <2>6. v \in Nat /\ h[v] \in Nat
    BY SMT, <2>3, <2>4
  <2> HIDE DEF h
  <2> QED
    BY SMT, <2>1, <2>4, <2>5, <2>6, SdkJsAssumption
<1> QED
  BY <1>1, JsInvariant, PTL

\* pollSnapshot either loads the stored snapshot it was answered with, whole, or
\* keeps what is loaded.
LEMMA PollReturnsLoads ==
    ASSUME IInv, NEW c \in Chain, PollReturns(c)
    PROVE  Cache!Load \/ UNCHANGED <<stored, snapshot>>
<1> DEFINE b == response[c].body
<1>1. stored' = stored
  BY DEF PollReturns, api
<1>2. CASE Loads(c)
  <2>1. b.version \in 1 .. Len(stored) /\ b.flags = stored[b.version]
    BY <1>2 DEF Loads, IInv, PollInv, ResponsesAreStored, IsStored
  <2>2. b \in Snapshot
    BY SMT DEF IInv, TypeOK, Response
  <2>3. snapshot' = b
    BY <1>2 DEF PollReturns, pollSnapshot
  <2>4. b = [version |-> b.version, flags |-> b.flags]
    BY SMT, <2>2 DEF Snapshot
  <2>5. snapshot' = [version |-> b.version, flags |-> All(stored[b.version])]
    BY <2>1, <2>3, <2>4 DEF All
  <2> QED
    BY <1>1, <2>1, <2>5 DEF Cache!Load
<1>3. CASE ~Loads(c)
  BY <1>1, <1>3 DEF PollReturns, pollSnapshot
<1> QED
  BY <1>2, <1>3

\* The JavaScript client implements SnapshotCache, as the Go client does: what
\* it serves changes by whole stored snapshots, one at a time, whatever polls
\* of however many chains overlap, fail or bring flags that do not compile.
THEOREM ImplementsSnapshotCache == Spec => ServesWholeSnapshots
<1>1. Init => Cache!Init
  BY DEF Init, NoSnapshot, Cache!Init
<1>2. IInv /\ [Next]_vars => [Cache!Next]_<<stored, snapshot>>
  <2> SUFFICES ASSUME IInv, [Next]_vars
               PROVE  Cache!Next \/ UNCHANGED <<stored, snapshot>>
    BY Zenon
  <2>1. CASE CompileSnapshot
    <3>1. [f \in Flag |-> Len(history[f])] \in [Flag -> Nat]
      BY SMT DEF IInv, TypeOK
    <3>2. /\ Len(stored') = Len(stored) + 1
          /\ \A v \in 1 .. Len(stored) : stored'[v] = stored[v]
      BY SMT, <2>1, <3>1 DEF CompileSnapshot, IInv, TypeOK
    <3>3. snapshot' = snapshot
      BY <2>1 DEF CompileSnapshot, polls
    <3> QED
      BY <3>2, <3>3 DEF Cache!Next, Cache!Compile
  <2>2. ASSUME NEW c \in Chain, PollReturns(c)
        PROVE  Cache!Next \/ UNCHANGED <<stored, snapshot>>
    BY <2>2, PollReturnsLoads DEF Cache!Next
  <2>3. \/ stored' = stored /\ snapshot' = snapshot
        \/ CompileSnapshot
        \/ \E c \in Chain : PollReturns(c)
    BY DEF Next, Tick, PublishFlagVersion, GetLatestSnapshot, PollFails, start,
           TimerFires, stop, GetFlag, GetFlagFails, FetchReturns, evaluateFlag,
           vars, api, polls
  <2> QED
    BY <2>1, <2>2, <2>3
<1> QED
  BY <1>1, <1>2, JsInvariant, PTL DEF Spec, ServesWholeSnapshots, Cache!Spec, Cache!vars
-----------------------------------------------------------------------------
(***************************************************************************)
(* Rollouts.                                                               *)
(***************************************************************************)

\* A bucket is a number below ten thousand.
LEMMA BucketRange ==
    ASSUME NEW salt \in Salt, NEW n \in 0 .. MaxValue
    PROVE  \E b \in Nat : b < Buckets /\ b = rolloutBucket(salt, n)
<1>1. PICK h \in Nat : h = Hash(salt \o <<Colon>> \o Bytes(n))
  BY PredicatesAssumption
<1>2. rolloutBucket(salt, n) = h % Buckets
  BY <1>1 DEF rolloutBucket
<1>3. h % Buckets \in Nat /\ h % Buckets < Buckets
  BY SMT DEF Buckets
<1> QED
  BY <1>2, <1>3

\* Below 100 percent the bucket alone decides: a rollout of p percent takes in
\* exactly the buckets below 100 p, so none is skipped or taken twice (inBucket).
THEOREM RolloutIsTheBucket ==
    ASSUME NEW salt \in Salt, NEW n \in 0 .. MaxValue, NEW p \in 0 .. 100
    PROVE  inBucket(salt, n, p) <=> rolloutBucket(salt, n) < p * 100
<1>1. PICK b \in Nat : b < Buckets /\ b = rolloutBucket(salt, n)
  BY BucketRange
<1>2. inBucket(salt, n, p) <=> p > 0 /\ (p >= 100 \/ b < p * 100)
  BY <1>1 DEF inBucket
<1>3. inBucket(salt, n, p) <=> b < p * 100
  BY SMT, <1>1, <1>2 DEF Buckets
<1> QED
  BY <1>1, <1>3

\* Raising the percentage of a rollout takes nobody out of it; 0 percent is
\* nobody and 100 percent is everybody, whatever the hash (inBucket).
THEOREM RolloutOnlyGrows ==
    ASSUME NEW salt \in Salt, NEW n \in 0 .. MaxValue,
           NEW p \in Int, NEW q \in Int, p <= q
    PROVE  /\ inBucket(salt, n, p) => inBucket(salt, n, q)
           /\ ~inBucket(salt, n, 0)
           /\ inBucket(salt, n, 100)
<1>1. PICK b \in Nat : b < Buckets /\ b = rolloutBucket(salt, n)
  BY BucketRange
<1>2. \A r \in Int : inBucket(salt, n, r) <=> r > 0 /\ (r >= 100 \/ b < r * 100)
  BY <1>1 DEF inBucket
<1> QED
  BY SMT, <1>1, <1>2 DEF Buckets
-----------------------------------------------------------------------------
(***************************************************************************)
(* The two runtimes.                                                       *)
(***************************************************************************)

\* Bytes written one after the other: where each of them ends up.
LEMMA Joined ==
    ASSUME NEW s \in Seq(Nat), NEW t \in Seq(Nat)
    PROVE  /\ s \o t \in Seq(Nat) /\ Len(s \o t) = Len(s) + Len(t)
           /\ \A i \in 1 .. Len(s) : (s \o t)[i] = s[i]
           /\ \A i \in 1 .. Len(t) : (s \o t)[Len(s) + i] = t[i]
<1>1. s \o t \in Seq(Nat) /\ Len(s \o t) = Len(s) + Len(t)
  BY SMT
<1>2. \A i \in 1 .. Len(s) : (s \o t)[i] = s[i]
  BY SMT
<1>3. \A i \in 1 .. Len(t) : (s \o t)[Len(s) + i] = t[i]
  BY SMT
<1> QED
  BY <1>1, <1>2, <1>3

\* The array that rollout.ts fills at three offsets is what rollout.go writes in
\* three pieces, so the two runtimes hash the same bytes.
LEMMA SameBytes ==
    ASSUME NEW salt \in Salt, NEW n \in 0 .. MaxValue
    PROVE  JsCombined(salt, n) = salt \o <<Colon>> \o Bytes(n)
<1>1. salt \in Seq(Nat)
  BY PredicatesAssumption
<1>2. Bytes(n) \in Seq(Nat) /\ Len(Bytes(n)) = n
  BY SMT DEF Bytes, Letter
<1>3. <<Colon>> \in Seq(Nat) /\ Len(<<Colon>>) = 1 /\ <<Colon>>[1] = Colon
  BY SMT DEF Colon
<1> DEFINE head == salt \o <<Colon>>
           w == head \o Bytes(n)
           At(i) == CASE i <= Len(salt)     -> salt[i]
                      [] i = Len(salt) + 1  -> Colon
                      [] i > Len(salt) + 1  -> Bytes(n)[i - Len(salt) - 1]
<1>4. /\ head \in Seq(Nat) /\ Len(head) = Len(salt) + 1
      /\ \A i \in 1 .. Len(salt) : head[i] = salt[i]
      /\ head[Len(salt) + 1] = Colon
  BY SMT, <1>1, <1>3
<1> HIDE DEF head
<1>5. /\ w \in Seq(Nat) /\ Len(w) = Len(salt) + 1 + n
      /\ \A i \in 1 .. Len(head) : w[i] = head[i]
      /\ \A i \in 1 .. n : w[Len(head) + i] = Bytes(n)[i]
  <2>1. /\ w \in Seq(Nat) /\ Len(w) = Len(head) + Len(Bytes(n))
        /\ \A i \in 1 .. Len(head) : w[i] = head[i]
        /\ \A i \in 1 .. Len(Bytes(n)) : w[Len(head) + i] = Bytes(n)[i]
    BY <1>2, <1>4, Joined
  <2> QED
    BY <1>2, <1>4, <2>1
<1> HIDE DEF w
<1>6. ASSUME NEW i \in 1 .. Len(salt) + 1 + n
      PROVE  w[i] = At(i)
  <2>1. CASE i <= Len(salt)
    <3>1. i \in 1 .. Len(salt) /\ i \in 1 .. Len(head) /\ At(i) = salt[i]
      BY SMT, <1>1, <1>4, <2>1
    <3> QED
      BY <1>4, <1>5, <3>1
  <2>2. CASE i = Len(salt) + 1
    <3>1. i \in 1 .. Len(head) /\ At(i) = Colon
      BY SMT, <1>1, <1>4, <2>2
    <3> QED
      BY <1>4, <1>5, <2>2, <3>1
  <2>3. CASE i > Len(salt) + 1
    <3>1. i - Len(salt) - 1 \in 1 .. n /\ i = Len(head) + (i - Len(salt) - 1)
      BY SMT, <1>1, <1>4, <2>3
    <3>2. w[i] = Bytes(n)[i - Len(salt) - 1]
      BY <1>5, <3>1
    <3> QED
      BY SMT, <1>1, <2>3, <3>2
  <2> QED
    BY SMT, <1>1, <2>1, <2>2, <2>3
<1>7. w = [i \in 1 .. Len(salt) + 1 + n |-> w[i]]
  BY SMT, <1>1, <1>5
<1>8. JsCombined(salt, n) = [i \in 1 .. Len(salt) + 1 + n |-> At(i)]
  BY DEF JsCombined
<1> HIDE DEF At
<1>9. [i \in 1 .. Len(salt) + 1 + n |-> w[i]] = [i \in 1 .. Len(salt) + 1 + n |-> At(i)]
  BY <1>6
<1> QED
  BY <1>7, <1>8, <1>9 DEF w, head

\* The gates of the two runtimes let in the same callers (inBucket, in rollout.go
\* and in rollout.ts).
LEMMA SameGate ==
    ASSUME NEW salt \in Salt, NEW n \in 0 .. MaxValue, NEW percent \in Int
    PROVE  inBucket(salt, n, percent) <=> JsInBucket(salt, n, percent)
<1>1. rolloutBucket(salt, n) = JsRolloutBucket(salt, n)
  BY SameBytes DEF rolloutBucket, JsRolloutBucket
<1>2. CASE percent <= 0
  BY SMT, <1>2 DEF inBucket, JsInBucket
<1>3. CASE percent > 0 /\ percent >= 100
  BY SMT, <1>3 DEF inBucket, JsInBucket
<1>4. CASE percent > 0 /\ ~(percent >= 100)
  BY SMT, <1>1, <1>4 DEF inBucket, JsInBucket
<1> QED
  BY SMT, <1>2, <1>3, <1>4

\* What is found at a path and what is compared with it have a known type, and
\* their numbers are integers.
LEMMA ValueShape ==
    /\ \A v \in Value \cup {Missing} : v.type \in ValueType \cup {"null", "missing"}
    /\ \A v \in Value \cup {Missing} : v.n \in Int /\ Magnitude(v) \in Int
    /\ \A v \in Value : v.type # "missing"
    /\ \A v \in Value \cup {Missing} : v.type = "string" => v.n \in 0 .. MaxValue
  BY SMT, PredicatesAssumption DEF Value, Missing, MinusZero, ValueType, Magnitude

\* Two numbers of the same magnitude are the same number, or are told apart by
\* the sign of a zero.
LEMMA NumbersAgree ==
    ASSUME NEW a \in Value \cup {Missing}, NEW v \in Value,
           a.type = "number", v.type = "number",
           ~(a # v /\ Magnitude(a) = Magnitude(v))
    PROVE  a.n = v.n <=> Magnitude(a) = Magnitude(v)
  BY SMT, PredicatesAssumption DEF Value, Missing, MinusZero, ValueType, Magnitude

\* Both runtimes take the same values for equal, but for those EqualInOne names
\* (jsonEqual, in predicates.go and in evaluator.ts).
LEMMA EqualityAgrees ==
    ASSUME NEW a \in Value \cup {Missing}, NEW v \in Value, ~EqualInOne(a, v)
    PROVE  jsonEqual(a, v) <=> JsJsonEqual(a, v)
<1>1. a.type \in ValueType \cup {"null", "missing"}
  BY ValueShape
<1>2. CASE a.type # v.type
  BY <1>2 DEF jsonEqual, JsJsonEqual
<1>3. CASE a.type = v.type /\ a.type = "object"
  BY <1>3 DEF EqualInOne, jsonEqual, JsJsonEqual
<1>4. CASE a.type = v.type /\ a.type = "number"
  <2>1. a.n = v.n <=> Magnitude(a) = Magnitude(v)
    BY <1>4, NumbersAgree DEF EqualInOne
  <2> QED
    BY <1>4, <2>1 DEF jsonEqual, JsJsonEqual
<1>5. CASE a.type = v.type /\ a.type \notin {"object", "number"}
  BY <1>1, <1>5 DEF ValueType, jsonEqual, JsJsonEqual
<1> QED
  BY <1>2, <1>3, <1>4, <1>5

\* cel-go and cel-lite take the same values for equal, but for objects that are
\* written in a different order.
LEMMA CelEqualityAgrees ==
    ASSUME NEW a \in Value \cup {Missing}, NEW v \in Value,
           ~(a.type = "object" /\ EqualInOne(a, v))
    PROVE  celEqual(a, v) <=> JsJsonEqual(a, v)
<1>1. CASE a.type = "number" /\ v.type = "number"
  BY <1>1 DEF celEqual, JsJsonEqual
<1>2. CASE a.type = "number" /\ v.type # "number"
  BY <1>2 DEF celEqual, jsonEqual, JsJsonEqual
<1>3. CASE a.type # "number"
  <2>1. ~EqualInOne(a, v)
    BY <1>3 DEF EqualInOne
  <2> QED
    BY <1>3, <2>1, EqualityAgrees DEF celEqual
<1> QED
  BY <1>1, <1>2, <1>3

Reading == LeafKind \ {"always", "cel", "segment"}
Ordering == {"gt", "gte", "lt", "lte"}

\* A leaf of a version that both runtimes compile: the operands its kind needs
\* are there (validatePredicate in Go, compile in evaluator.ts).
Operands(p) ==
    /\ p.kind \in LeafKind
    /\ p.kind \in Reading => p.attr \in Attr
    /\ p.kind \in {"eq", "neq", "starts_with"} \cup Ordering => p.value \in Value
    /\ p.kind = "in" => \A i \in DOMAIN p.values : p.values[i] \in Value
    /\ p.kind = "matches" => p.pattern.go \in Nat /\ p.pattern.js \in Nat \cup {-1}
    /\ p.kind = "rollout" => p.salt \in Salt /\ p.percent \in 0 .. 100
    /\ p.kind = "cel" => /\ p.source.attr \in Attr
                         /\ p.source.go \in Value /\ p.source.js \in Value

\* Off the paths that only JavaScript follows, both find the same value.
LEMMA SameFind ==
    ASSUME NEW p, Operands(p), NEW ctx \in Context, ~Parts(p, ctx), p.kind \in Reading
    PROVE  \E a \in Value \cup {Missing} :
               a = lookup(ctx, p.attr) /\ a = JsLookup(ctx, p.attr)
<1>1. p.attr \in Attr /\ p.kind \notin {"segment", "cel"}
  BY DEF Operands, Reading
<1>2. p.attr \notin ctx.jsOnly
  BY <1>1 DEF Parts, Reading
<1>3. ctx.at[p.attr] \in Value \cup {Missing}
  BY SMT, <1>1 DEF Context
<1> QED
  BY <1>2, <1>3 DEF lookup, JsLookup

\* On every leaf of every version that both runtimes compile, and every context,
\* the switch of evaluator.ts answers what match of internal/eval answers, except
\* where Parts says that and how they differ.
THEOREM LeavesAgree ==
    ASSUME NEW p, Operands(p), NEW ctx \in Context, ~Parts(p, ctx)
    PROVE  matchLeaf(p, ctx) = JsMatchLeaf(p, ctx)
<1>1. p.kind # "segment"
  BY DEF Parts
<1>2. CASE p.kind = "always"
  BY <1>2 DEF matchLeaf, JsMatchLeaf
<1>3. CASE p.kind \in {"eq", "neq"}
  <2>1. PICK a \in Value \cup {Missing} :
            a = lookup(ctx, p.attr) /\ a = JsLookup(ctx, p.attr)
    BY <1>3, SameFind DEF Reading, LeafKind
  <2>2. ~EqualInOne(a, p.value) /\ p.value \in Value
    BY <1>3, <2>1 DEF Parts, LeafKind, Operands
  <2>3. jsonEqual(a, p.value) <=> JsJsonEqual(a, p.value)
    BY <2>2, EqualityAgrees
  <2>4. cmpEq(p, ctx) = JsCmpEq(p, ctx)
    BY <2>1, <2>3 DEF cmpEq, JsCmpEq, Answer
  <2> QED
    BY <1>3, <2>4 DEF matchLeaf, JsMatchLeaf
<1>4. CASE p.kind = "in"
  <2>1. PICK a \in Value \cup {Missing} :
            a = lookup(ctx, p.attr) /\ a = JsLookup(ctx, p.attr)
    BY <1>4, SameFind DEF Reading, LeafKind
  <2>2. ASSUME NEW i \in DOMAIN p.values
        PROVE  jsonEqual(a, p.values[i]) <=> JsJsonEqual(a, p.values[i])
    <3>1. ~EqualInOne(a, p.values[i]) /\ p.values[i] \in Value
      BY <1>4, <2>1 DEF Parts, LeafKind, Operands
    <3> QED
      BY <3>1, EqualityAgrees
  <2>3. cmpIn(p, ctx) = JsCmpIn(p, ctx)
    BY <2>1, <2>2 DEF cmpIn, JsCmpIn, Answer
  <2> QED
    BY <1>4, <2>3 DEF matchLeaf, JsMatchLeaf
<1>5. CASE p.kind \in Ordering
  <2>1. PICK a \in Value \cup {Missing} :
            a = lookup(ctx, p.attr) /\ a = JsLookup(ctx, p.attr)
    BY <1>5, SameFind DEF Reading, LeafKind, Ordering
  <2>2. cmpOrd(p, ctx) = JsCmpOrd(p, ctx)
    BY <2>1 DEF cmpOrd, JsCmpOrd, Ordered
  <2> QED
    BY <1>5, <2>2 DEF matchLeaf, JsMatchLeaf, Ordering
<1>6. CASE p.kind = "matches"
  <2>1. PICK a \in Value \cup {Missing} :
            a = lookup(ctx, p.attr) /\ a = JsLookup(ctx, p.attr)
    BY <1>6, SameFind DEF Reading, LeafKind
  <2>2. a.type = "string" => p.pattern.js = p.pattern.go
    BY <1>6, <2>1 DEF Parts, LeafKind
  <2>3. p.pattern.go \in Nat
    BY <1>6 DEF Operands
  <2>4. p.pattern.go >= 0 /\ ~(p.pattern.go < 0)
    BY SMT, <2>3
  <2>5. cmpMatches(p, ctx) = JsCmpMatches(p, ctx)
    BY <2>1, <2>2, <2>4 DEF cmpMatches, JsCmpMatches
  <2> QED
    BY <1>6, <2>5 DEF matchLeaf, JsMatchLeaf
<1>7. CASE p.kind = "starts_with"
  <2>1. PICK a \in Value \cup {Missing} :
            a = lookup(ctx, p.attr) /\ a = JsLookup(ctx, p.attr)
    BY <1>7, SameFind DEF Reading, LeafKind
  <2>2. a.type = "string" => p.value.type # "null"
    BY <1>7, <2>1 DEF Parts, LeafKind
  <2>3. CASE a.type # "string"
    BY <1>7, <2>1, <2>3 DEF cmpStartsWith, JsCmpStartsWith, Answer, matchLeaf, JsMatchLeaf
  <2>4. CASE a.type = "string" /\ p.value.type = "string"
    BY <1>7, <2>1, <2>4 DEF cmpStartsWith, JsCmpStartsWith, Answer, matchLeaf, JsMatchLeaf
  <2>5. CASE a.type = "string" /\ p.value.type # "string"
    BY <1>7, <2>1, <2>2, <2>5
       DEF cmpStartsWith, JsCmpStartsWith, Answer, matchLeaf, JsMatchLeaf
  <2> QED
    BY <2>3, <2>4, <2>5
<1>8. CASE p.kind = "rollout"
  <2>1. PICK a \in Value \cup {Missing} :
            a = lookup(ctx, p.attr) /\ a = JsLookup(ctx, p.attr)
    BY <1>8, SameFind DEF Reading, LeafKind
  <2>2. p.salt \in Salt /\ p.percent \in Int
    BY SMT, <1>8 DEF Operands
  <2>3. a.type = "string" => a.n \in 0 .. MaxValue
    BY ValueShape
  <2>4. a.type = "string" =>
            (inBucket(p.salt, a.n, p.percent) <=> JsInBucket(p.salt, a.n, p.percent))
    BY <2>2, <2>3, SameGate
  <2>5. Rollout(p, ctx) = JsRollout(p, ctx)
    BY <2>1, <2>4 DEF Rollout, JsRollout, Answer
  <2> QED
    BY <1>8, <2>5 DEF matchLeaf, JsMatchLeaf
<1>9. CASE p.kind = "cel"
  <2>1. lookup(ctx, p.source.attr) # Missing /\ p.source.js = p.source.go
    BY <1>9 DEF Parts
  <2>2. p.source.attr \in Attr /\ p.source.go \in Value
    BY <1>9 DEF Operands
  <2>3. ctx.at[p.source.attr] \in Value \cup {Missing}
    BY SMT, <2>2 DEF Context
  <2>4. PICK a \in Value \cup {Missing} :
            a = lookup(ctx, p.source.attr) /\ a = JsLookup(ctx, p.source.attr)
    BY <2>1, <2>3 DEF lookup, JsLookup
  <2>5. ~(a.type = "object" /\ EqualInOne(a, p.source.go))
    BY <1>9, <2>4 DEF Parts
  <2>6. celEqual(a, p.source.go) <=> JsJsonEqual(a, p.source.go)
    BY <2>2, <2>5, CelEqualityAgrees
  <2>7. EvalCEL(p.source, ctx) = JsEvalCEL(p.source, ctx)
    BY <2>1, <2>4, <2>6 DEF EvalCEL, JsEvalCEL, Answer
  <2> QED
    BY <1>9, <2>7 DEF matchLeaf, JsMatchLeaf
<1> QED
  BY <1>1, <1>2, <1>3, <1>4, <1>5, <1>6, <1>7, <1>8, <1>9 DEF Operands, LeafKind, Ordering
-----------------------------------------------------------------------------
(***************************************************************************)
(* From the outcomes of the rules to a decision.                           *)
(***************************************************************************)

\* The first rule with an outcome of os: none, or one that nothing precedes.
LEMMA FirstInIsFirst ==
    ASSUME NEW outcomes \in Seq(Outcome), NEW os
    PROVE  \/ /\ FirstIn(outcomes, os) = 0
              /\ \A j \in DOMAIN outcomes : outcomes[j] \notin os
           \/ /\ FirstIn(outcomes, os) \in DOMAIN outcomes
              /\ outcomes[FirstIn(outcomes, os)] \in os
              /\ \A j \in DOMAIN outcomes :
                     j < FirstIn(outcomes, os) => outcomes[j] \notin os
<1> DEFINE Hits == {i \in DOMAIN outcomes : outcomes[i] \in os}
<1>1. DOMAIN outcomes \subseteq Nat
  BY SMT
<1>2. CASE Hits = {}
  BY <1>2 DEF FirstIn
<1>3. CASE Hits # {}
  <2>1. PICK i \in Hits : \A j \in Hits : ~(<<j, i>> \in OpToRel(<, Nat))
    BY <1>1, <1>3, NatLessThanWellFounded, WFMin
  <2>2. \A x, y \in Nat : <<x, y>> \in OpToRel(<, Nat) <=> x < y
    BY SMT DEF OpToRel
  <2>3. \A j \in DOMAIN outcomes : j < i => outcomes[j] \notin os
    BY <1>1, <2>1, <2>2
  <2> QED
    BY <2>1, <2>3 DEF FirstIn
<1> QED
  BY <1>2, <1>3

\* Unless a rule errs before one matches, EvaluateWithTrace "returns the same
\* Decision as Evaluate", although one stops at that rule and the other does not.
THEOREM TraceDecidesAlike ==
    ASSUME NEW tree, NEW outcomes \in Seq(Outcome),
           \A j \in DOMAIN outcomes :
               outcomes[j] = "error" =>
                   \E i \in DOMAIN outcomes : i < j /\ outcomes[i] = "true"
    PROVE  DecideTraced(tree, outcomes) = Decide(tree, outcomes)
<1> DEFINE a == FirstIn(outcomes, {"true", "error"})
           b == FirstIn(outcomes, {"true"})
<1>1. DOMAIN outcomes \subseteq Nat /\ 0 \notin DOMAIN outcomes
  BY SMT
<1>2. \/ a = 0 /\ \A j \in DOMAIN outcomes : outcomes[j] \notin {"true", "error"}
      \/ /\ a \in DOMAIN outcomes /\ outcomes[a] \in {"true", "error"}
         /\ \A j \in DOMAIN outcomes : j < a => outcomes[j] \notin {"true", "error"}
  BY FirstInIsFirst
<1>3. \/ b = 0 /\ \A j \in DOMAIN outcomes : outcomes[j] \notin {"true"}
      \/ /\ b \in DOMAIN outcomes /\ outcomes[b] \in {"true"}
         /\ \A j \in DOMAIN outcomes : j < b => outcomes[j] \notin {"true"}
  BY FirstInIsFirst
<1> HIDE DEF a, b
<1>4. a # 0 => outcomes[a] = "true"
  BY <1>2
<1>5. a = b
  <2>1. CASE a = 0
    BY <1>1, <1>2, <1>3, <2>1
  <2>2. CASE a # 0
    <3>1. a \in DOMAIN outcomes /\ outcomes[a] = "true"
      BY <1>2, <1>4, <2>2
    <3>2. b \in DOMAIN outcomes /\ ~(a < b) /\ ~(b < a)
      BY <1>2, <1>3, <3>1
    <3>3. a \in Nat /\ b \in Nat
      BY <1>1, <3>1, <3>2
    <3> QED
      BY SMT, <3>2, <3>3
  <2> QED
    BY <2>1, <2>2
<1>6. CASE a = 0
  BY <1>5, <1>6 DEF a, b, Decide, DecideTraced
<1>7. CASE a # 0
  <2>1. outcomes[a] # "error"
    BY <1>4, <1>7
  <2> QED
    BY <1>5, <1>7, <2>1 DEF a, b, Decide, DecideTraced
<1> QED
  BY <1>6, <1>7

\* Whatever the rules answer, a decision serves the default of the flag or a
\* value of the flag's type: a rule with a value of another type serves neither
\* that value nor a later rule's (valueMatchesType).
THEOREM DecisionsAreTyped ==
    ASSUME NEW tree, NEW outcomes \in Seq(Outcome)
    PROVE  /\ \/ Decide(tree, outcomes).value = tree.default
              \/ Decide(tree, outcomes).value.type = tree.value_type
           /\ \/ DecideTraced(tree, outcomes).value = tree.default
              \/ DecideTraced(tree, outcomes).value.type = tree.value_type
<1>1. \A v, reason, id : Decision(v, reason, id).value = v
  BY SMT DEF Decision
<1>2. ASSUME NEW r
      PROVE  \/ Served(tree, r).value = tree.default
             \/ Served(tree, r).value.type = tree.value_type
  <2>1. CASE valueMatchesType(r.value, tree.value_type)
    <3>1. Served(tree, r) = Decision(r.value, reasonForRule(r), r.id)
      BY <2>1 DEF Served
    <3>2. Served(tree, r).value = r.value
      BY SMT, <3>1 DEF Decision
    <3> QED
      BY <2>1, <3>2 DEF valueMatchesType
  <2>2. CASE ~valueMatchesType(r.value, tree.value_type)
    BY <1>1, <2>2 DEF Served
  <2> QED
    BY <2>1, <2>2
<1>3. \/ Decide(tree, outcomes).value = tree.default
      \/ Decide(tree, outcomes).value.type = tree.value_type
  <2> DEFINE i == FirstIn(outcomes, {"true", "error"})
  <2>1. CASE i = 0
    BY <1>1, <2>1 DEF Decide
  <2>2. CASE i # 0 /\ outcomes[i] = "error"
    BY <1>1, <2>2 DEF Decide
  <2>3. CASE i # 0 /\ outcomes[i] # "error"
    BY <1>2, <2>3 DEF Decide
  <2> QED
    BY <2>1, <2>2, <2>3
<1>4. \/ DecideTraced(tree, outcomes).value = tree.default
      \/ DecideTraced(tree, outcomes).value.type = tree.value_type
  BY <1>1, <1>2 DEF DecideTraced
<1> QED
  BY <1>3, <1>4
=============================================================================
