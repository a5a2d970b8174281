------------------------------- MODULE SdkJs --------------------------------
(***************************************************************************)
(* The JavaScript SDK (js/packages/sdk-js/src/client.ts).  A client runs   *)
(* on one event loop: what it does between two awaits is one step, and     *)
(* anything may happen while it awaits a response or a timer.              *)
(*                                                                         *)
(* A chain is one call of start() and the polls that follow from it, each  *)
(* scheduling the next; nothing stops a program from calling start() twice *)
(* or from calling it again while a poll of the chain before is under way. *)
(* A caller evaluates flags, from the snapshot when there is one and       *)
(* otherwise from a cache of single flags.  A flag's configuration is      *)
(* identified by its version; 0 stands for no version.                     *)
(***************************************************************************)
EXTENDS Integers, Sequences

CONSTANTS
    Flag,           \* flag keys
    Programs,       \* what the client may be part of, see below
    NoTimer,        \* null
    TTL,            \* PER_FLAG_CACHE_TTL_MS, in ticks
    MaxVersion,     \* bound: versions of a flag
    MaxSnapshots    \* bound: snapshots

VARIABLES
    program,        \* the program the client is part of
    now,            \* Date.now()
    history,        \* when each version of each flag was published
    stored,         \* the flag versions in each snapshot of the project
    snapshot,       \* the snapshot the client has loaded
    pollTimer,      \* the chain that armed a timer last
    stopped,
    at,             \* where each chain is: "idle", "starting", "armed", "polling"
                    \* or "ended"
    response,       \* the response to the request of each chain
    perFlagCache,
    call,           \* the evaluation each caller awaits: the flag, when evaluate()
                    \* was called, and what the API answered; or <<>>
    decision        \* the latest decision a caller was given, and whether it was
                    \* made from the snapshot or from a single flag

api == <<history, stored>>
polls == <<snapshot, pollTimer, stopped, at, response>>
calls == <<perFlagCache, call, decision>>
vars == <<program, now, api, polls, calls>>
-----------------------------------------------------------------------------
\* A program has chains and callers, a poll interval or none, and flags some
\* versions of which (broken) do not compile in this SDK; ticks is a bound on
\* the time it runs.
Chain == UNION {p.chains : p \in Programs}
Caller == UNION {p.callers : p \in Programs}

\* A cached flag is used for some time.
ASSUME SdkJsAssumption == TTL \in Nat \ {0}

NoFlags == [f \in Flag |-> 0]
NoSnapshot == [version |-> 0, flags |-> NoFlags]

\* outcome: none yet, "ok" with a body, "not_found" or "error".
NoResponse == [outcome |-> "none", body |-> NoSnapshot]

\* An entry of perFlagCache has the version of the flag, 0 when there is none,
\* and the time before the fetch.
NoEntry == [version |-> 0, fetchedAt |-> 0]

\* createClient
Init ==
    /\ program \in Programs
    /\ now = 0
    /\ history = [f \in Flag |-> <<>>]
    /\ stored = <<>>
    /\ snapshot = NoSnapshot
    /\ pollTimer = NoTimer
    /\ stopped = FALSE
    /\ at = [c \in Chain |-> "idle"]
    /\ response = [c \in Chain |-> NoResponse]
    /\ perFlagCache = [f \in Flag |-> NoEntry]
    /\ call = [e \in Caller |-> <<>>]
    /\ decision = <<>>
-----------------------------------------------------------------------------
(***************************************************************************)
(* The API and the clock.                                                  *)
(***************************************************************************)

Tick ==
    /\ now < program.ticks
    /\ now' = now + 1
    /\ UNCHANGED <<program, api, polls, calls>>

PublishFlagVersion(f) ==
    /\ Len(history[f]) < MaxVersion
    /\ history' = [history EXCEPT ![f] = Append(@, now)]
    /\ UNCHANGED <<program, now, stored, polls, calls>>

CompileSnapshot ==
    /\ program.chains # {} /\ Len(stored) < MaxSnapshots
    /\ stored' = Append(stored, [f \in Flag |-> Len(history[f])])
    /\ UNCHANGED <<program, now, history, polls, calls>>

InFlight(c) == at[c] \in {"starting", "polling"}

Latest == [version |-> Len(stored), flags |-> stored[Len(stored)]]

GetLatestSnapshot(c) ==
    /\ InFlight(c) /\ response[c].outcome = "none"
    /\ response' = [response EXCEPT ![c] =
           IF stored = <<>> THEN [outcome |-> "not_found", body |-> NoSnapshot]
                            ELSE [outcome |-> "ok", body |-> Latest]]
    /\ UNCHANGED <<program, now, api, snapshot, pollTimer, stopped, at, calls>>

PollFails(c) ==
    /\ InFlight(c) /\ response[c].outcome \in {"none", "ok"}
    /\ response' = [response EXCEPT ![c] =
                        [outcome |-> "error", body |-> NoSnapshot]]
    /\ UNCHANGED <<program, now, api, snapshot, pollTimer, stopped, at, calls>>

\* GetFlag answers with the latest version, or without one, or with a 404.
GetFlag(e) ==
    /\ call[e] # <<>> /\ call[e].outcome = "none"
    /\ call' = [call EXCEPT ![e] = [@ EXCEPT !.outcome = "ok",
                                             !.version = Len(history[call[e].flag])]]
    /\ UNCHANGED <<program, now, api, polls, perFlagCache, decision>>

GetFlagFails(e) ==
    /\ call[e] # <<>> /\ call[e].outcome \in {"none", "ok"}
    /\ call' = [call EXCEPT ![e].outcome = "error"]
    /\ UNCHANGED <<program, now, api, polls, perFlagCache, decision>>
-----------------------------------------------------------------------------
(***************************************************************************)
(* Polling.                                                                *)
(***************************************************************************)

\* One flag that does not compile makes pollSnapshot throw.
Compiles(flags) == \A f \in Flag : flags[f] \notin program.broken

Loads(c) == response[c].outcome = "ok" /\ Compiles(response[c].body.flags)
Throws(c) == response[c].outcome \in {"ok", "error"} /\ ~Loads(c)

start(c) ==
    /\ c \in program.chains /\ at[c] \in {"idle", "ended"}
    /\ stopped' = FALSE
    /\ at' = [at EXCEPT ![c] = "starting"]
    /\ UNCHANGED <<program, now, api, snapshot, pollTimer, response, calls>>

\* Mutant: a poll that was under way when stop() was called goes on polling.
scheduleNextPollAnyway(c) ==
    IF ~program.polling
    THEN at' = [at EXCEPT ![c] = "ended"] /\ UNCHANGED pollTimer
    ELSE at' = [at EXCEPT ![c] = "armed"] /\ pollTimer' = c

scheduleNextPoll(c) ==
    IF stopped \/ ~program.polling
    THEN at' = [at EXCEPT ![c] = "ended"] /\ UNCHANGED pollTimer
    ELSE at' = [at EXCEPT ![c] = "armed"] /\ pollTimer' = c

\* Mutant: the snapshot is assigned first and filled as the flags compile.
pollSnapshotInPlace(c) ==
    snapshot' = IF response[c].outcome # "ok" THEN snapshot
                ELSE [version |-> response[c].body.version,
                      flags |-> [f \in Flag |->
                                    IF response[c].body.flags[f] \in program.broken THEN 0
                                    ELSE response[c].body.flags[f]]]

\* The snapshot is assigned when every flag has compiled; a 404 keeps it.
pollSnapshot(c) == snapshot' = IF Loads(c) THEN response[c].body ELSE snapshot

\* Mutant: the next poll is scheduled only after a poll that succeeded.
PollReturnsThen(c) ==
    /\ InFlight(c) /\ response[c].outcome # "none"
    /\ pollSnapshot(c)
    /\ IF Throws(c)
       THEN at' = [at EXCEPT ![c] = "ended"] /\ UNCHANGED pollTimer
       ELSE scheduleNextPoll(c)
    /\ response' = [response EXCEPT ![c] = NoResponse]
    /\ UNCHANGED <<program, now, api, stopped, calls>>

\* The first poll rejects start(), which then schedules nothing; a later one
\* only warns.
PollReturns(c) ==
    /\ InFlight(c) /\ response[c].outcome # "none"
    /\ pollSnapshot(c)
    /\ IF at[c] = "starting" /\ Throws(c)
       THEN at' = [at EXCEPT ![c] = "ended"] /\ UNCHANGED pollTimer
       ELSE scheduleNextPoll(c)
    /\ response' = [response EXCEPT ![c] = NoResponse]
    /\ UNCHANGED <<program, now, api, stopped, calls>>

TimerFires(c) ==
    /\ at[c] = "armed"
    /\ at' = [at EXCEPT ![c] = "polling"]
    /\ UNCHANGED <<program, now, api, snapshot, pollTimer, stopped, response, calls>>

\* Mutant: only the flag is set, the timer is left to run out.
stopLater ==
    /\ program.chains # {}
    /\ stopped' = TRUE
    /\ pollTimer' = NoTimer
    /\ UNCHANGED <<program, now, api, snapshot, at, response, calls>>

\* Clears the timer armed last, unless it has fired.
stop ==
    /\ program.chains # {}
    /\ stopped' = TRUE
    /\ pollTimer' = NoTimer
    /\ at' = [c \in Chain |-> IF c = pollTimer /\ at[c] = "armed" THEN "ended"
                              ELSE at[c]]
    /\ UNCHANGED <<program, now, api, snapshot, response, calls>>
-----------------------------------------------------------------------------
(***************************************************************************)
(* Evaluation.                                                             *)
(***************************************************************************)

Fresh(f) ==
    perFlagCache[f] # NoEntry /\ now - perFlagCache[f].fetchedAt < TTL

Evaluated(f, begun, version, from) ==
    decision' = [flag |-> f, begun |-> begun, version |-> version, from |-> from]

\* evaluateFlag, up to its first await: the snapshot, the cache, or a fetch.
evaluateFlag(e, f) ==
    /\ e \in program.callers /\ call[e] = <<>>
    /\ \/ /\ snapshot # NoSnapshot
          /\ Evaluated(f, now, snapshot.flags[f], "snapshot")
          /\ UNCHANGED call
       \/ /\ snapshot = NoSnapshot /\ Fresh(f)
          /\ Evaluated(f, now, perFlagCache[f].version, "flag")
          /\ UNCHANGED call
       \/ /\ snapshot = NoSnapshot /\ ~Fresh(f)
          /\ call' = [call EXCEPT ![e] = [flag |-> f, begun |-> now,
                                          outcome |-> "none", version |-> 0]]
          /\ UNCHANGED decision
    /\ UNCHANGED <<program, now, api, polls, perFlagCache>>

\* Mutant: an entry is as old as its response.
loadFlagPerFlagLate(e) ==
    LET r == call[e] IN
    perFlagCache' = IF r.outcome = "ok" /\ r.version \notin program.broken \cup {0}
                    THEN [perFlagCache EXCEPT ![r.flag] =
                             [version |-> r.version, fetchedAt |-> now]]
                    ELSE perFlagCache

\* An entry is as old as the call that fetched it, and replaces any other.
loadFlagPerFlag(e) ==
    LET r == call[e] IN
    perFlagCache' = IF r.outcome = "ok" /\ r.version \notin program.broken \cup {0}
                    THEN [perFlagCache EXCEPT ![r.flag] =
                             [version |-> r.version, fetchedAt |-> r.begun]]
                    ELSE perFlagCache

\* The response is there: a decision, or a promise that is rejected.
FetchReturns(e) ==
    /\ call[e] # <<>> /\ call[e].outcome # "none"
    /\ loadFlagPerFlag(e)
    /\ IF call[e].outcome = "ok" /\ call[e].version \notin program.broken
       THEN Evaluated(call[e].flag, call[e].begun, call[e].version, "flag")
       ELSE UNCHANGED decision
    /\ call' = [call EXCEPT ![e] = <<>>]
    /\ UNCHANGED <<program, now, api, polls>>
-----------------------------------------------------------------------------
Next ==
    \/ Tick \/ CompileSnapshot \/ \E f \in Flag : PublishFlagVersion(f)
    \/ \E c \in Chain :
           \/ GetLatestSnapshot(c) \/ PollFails(c)
           \/ start(c) \/ PollReturns(c) \/ TimerFires(c)
    \/ stop
    \/ \E e \in Caller :
           \/ GetFlag(e) \/ GetFlagFails(e) \/ FetchReturns(e)
           \/ \E f \in Flag : evaluateFlag(e, f)

(***************************************************************************)
(* Timers fire and the event loop takes up what is ready.  Requests are    *)
(* answered or fail, and do not fail for ever.                             *)
(***************************************************************************)
Fairness ==
    \A c \in Chain :
        /\ WF_vars(TimerFires(c))
        /\ WF_vars(PollReturns(c))
        /\ WF_vars(GetLatestSnapshot(c) \/ PollFails(c))
        /\ SF_vars(GetLatestSnapshot(c) /\ stored # <<>>)
        /\ SF_vars(PollReturns(c) /\ response[c].outcome = "ok")

Spec == Init /\ [][Next]_vars /\ Fairness
-----------------------------------------------------------------------------
(***************************************************************************)
(* Properties.                                                             *)
(***************************************************************************)

\* Every flag of a snapshot is kept.
All(flags) == flags

Cache == INSTANCE SnapshotCache WITH loaded <- snapshot, Usable <- All

\* Refinement: what is loaded is always one whole stored snapshot, and never
\* none again, though polls overlap, come back in any order, fail, or bring a
\* flag that does not compile (pollSnapshot assigns the snapshot once, last).
ServesWholeSnapshots == Cache!Spec

\* At most one chain has ever been started: start() was not called while the
\* chain before was alive.
SingleChain ==
    \A c, d \in Chain : at[c] # "idle" /\ at[d] # "idle" => c = d

\* With one chain, a stopped client has no timer left that would poll again,
\* whether stop() came while it waited or while a poll was under way.
StopIsFinal == SingleChain /\ stopped => \A c \in Chain : at[c] # "armed"

\* With any number of chains, polling ends after stop(): a chain whose timer
\* stop() does not know polls once more and then finds that it was stopped.
StopEndsPolling ==
    stopped ~> (~stopped \/ \A c \in Chain : at[c] \in {"idle", "ended"})

\* A client that is polling loads every snapshot, or a newer one, over any
\* number of failed polls, until it is stopped or meets a newest snapshot
\* with a flag that does not compile.
PollingCatchesUp ==
    \A v \in 1 .. MaxSnapshots :
        (Len(stored) >= v /\ ~stopped /\ \E c \in Chain : at[c] \in {"armed", "polling"})
            ~> (snapshot.version >= v \/ stopped
                \/ (stored # <<>> /\ ~Compiles(Latest.flags)))

\* What was published at least TTL before time t.
Settled(f, t) == {v \in 1 .. Len(history[f]) : history[f][v] + TTL <= t}

\* Without a snapshot, a decision is no older than PER_FLAG_CACHE_TTL_MS when
\* evaluate() is called: every version published by then is taken into
\* account, though fetches take time, overlap and overwrite each other's
\* cache entries.
CacheIsFresh ==
    decision # <<>> /\ decision.from = "flag" =>
        \A v \in Settled(decision.flag, decision.begun) : decision.version >= v
=============================================================================
