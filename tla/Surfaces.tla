------------------------------ MODULE Surfaces ------------------------------
(***************************************************************************)
(* The two API surfaces over the two backends.  A write comes in through   *)
(* either surface and is applied to a Postgres and to a SQLite database    *)
(* side by side, so that their answers can be compared; a reader pages     *)
(* through the audit log over REST while writes go on.                     *)
(*                                                                         *)
(* Requests are answered one at a time.  Whatever a request would answer   *)
(* is a function of the database, so the invariants ask every request of   *)
(* the scenario in every state.                                            *)
(***************************************************************************)
EXTENDS Functions, Answers

CONSTANTS
    \* Records [writes, reads, tools: sets of requests; events: the bound on
    \* audit events; shuffle: whether ids and times are arbitrary;
    \* pager: the backend whose log is paged through, or "none"].
    Scenarios,
    PageSize,
    MaxEvents   \* the bound on the audit events of any scenario

VARIABLES
    scenario,
    db,         \* the database of each backend
    clock,      \* in ticks; time 0 would be Go's zero time
    pager       \* the reader of the audit log

vars == <<scenario, db, clock, pager>>

Backend == {"postgres", "sqlite"}

ASSUME ScenarioAssumption ==
    /\ PageSize \in Nat \ {0} /\ MaxEvents \in Nat
    /\ \A s \in Scenarios :
        /\ s.events \in 0..MaxEvents /\ s.pager \in Backend \cup {"none"}
        /\ \A r \in s.writes \cup s.reads : Askable(r)
        /\ \A r \in s.writes : r.op \in Writing
        /\ \A in \in s.tools : Callable(in)

Count == Cardinality(db["postgres"].audit)
Used == {a.id.value : a \in db["postgres"].audit}

\* What a request meets.  Ids are random, and a Postgres transaction may
\* have started before one that committed ahead of it: its rows, which have
\* the time of the start, are older than rows already there.
Free == IF Count = scenario.events THEN {MaxEvents} ELSE (1..scenario.events) \ Used
Arbitrary ==
    {[id |-> i, start |-> s, now |-> IF s < clock THEN clock ELSE s] :
        i \in Free, s \in clock - 1 .. clock + 1}
Orderly ==
    [id |-> MaxEvents - Count, start |-> Count + TicksPerMilli, now |-> Count + TicksPerMilli]
Environs == IF scenario.shuffle THEN Arbitrary ELSE {Orderly}
-----------------------------------------------------------------------------
Init ==
    /\ scenario \in Scenarios
    /\ db = [b \in Backend |-> Empty]
    /\ clock = TicksPerMilli
    /\ pager = [state |-> "idle", cursor |-> <<>>, seen |-> <<>>, due |-> {}]

Serve(surface, r) ==
    /\ \E e \in Environs :
        LET new == [b \in Backend |-> Handle(surface, b, db[b], r, e).db]
        IN  /\ Cardinality(new["postgres"].audit) <= scenario.events
            /\ db' = new
            /\ clock' = IF db' = db THEN clock ELSE e.now
    /\ UNCHANGED <<scenario, pager>>

InLog(d, slug) == {a \in d.audit : a.project_id # NULL /\ a.project_id.value = <<slug>>}

Page(slug) ==
    /\ scenario.pager # "none" /\ pager.state # "done"
    /\ LET d == db[scenario.pager]
           reply == ListAuditEvents(scenario.pager, d,
                                         Listing(slug, PageSize, pager.cursor))
           page == reply.body[1]
       IN  /\ reply.status = 200
           /\ pager' =
                [state |-> IF page.next_cursor = <<>> THEN "done" ELSE "open",
                 cursor |-> page.next_cursor,
                 seen |-> pager.seen \o [i \in DOMAIN page.items |-> page.items[i].id],
                 due |-> IF pager.state # "idle" THEN pager.due
                         ELSE {a.id.value : a \in InLog(d, slug)}]
    /\ UNCHANGED <<scenario, db, clock>>

Next ==
    \/ \E surface \in Surface, r \in scenario.writes : Serve(surface, r)
    \/ \E r \in scenario.writes : Page(r.slug)

Spec == Init /\ [][Next]_vars
-----------------------------------------------------------------------------
\* Requests REST refuses before Connect would: a malformed snapshot id is
\* refused before the project is looked up.  And only REST reads a cursor.
Comparable(b, r) ==
    /\ r.op = "GetSnapshot" /\ r.id = <<>>
          => \E p \in db[b].projects : p.slug = r.slug
    /\ r.op = "ListAuditEvents" => r.cursor = <<>>

\* Both surfaces do the same thing: whatever has been written, through
\* either of them, a request leaves the same database behind and is answered
\* with the same content and the matching code ("the two must agree on the
\* value shapes", rpc/convert.go; "matching semantics", rpc/errors.go;
\* "identical bytes for the same input", rpc/snapshots.go).
SurfacesAgree ==
    \A b \in Backend, r \in scenario.writes \cup scenario.reads :
        Comparable(b, r) =>
            Matches(Handle("rest", b, db[b], r, Orderly), Handle("rpc", b, db[b], r, Orderly))

Alike(r, pg, sqlite) ==
    IF r.op = "ListAuditEvents"
    THEN Whole(r) /\ Count <= DefaultLimit => pg.status = sqlite.status /\ Coarse(pg.body) = Coarse(sqlite.body)
    ELSE pg.status = sqlite.status /\ pg.body = sqlite.body

\* The backends are interchangeable: the same requests leave both in states
\* no request can tell apart, times being kept in milliseconds by SQLite
\* ("the API layer sees identical shapes regardless of backend",
\* store/sqlite_convert.go).  Audit lists are compared as long as the log fits
\* in one: a limit may cut through a millisecond, whose events SQLite has in
\* another order.
BackendsAgree ==
    ~scenario.shuffle =>
        \A surface \in Surface, r \in scenario.writes \cup scenario.reads :
            Alike(r, Handle(surface, "postgres", db["postgres"], r, Orderly),
                     Handle(surface, "sqlite", db["sqlite"], r, Orderly))

\* The reads that should show what a write made, and what they show of it.
ReadsOf(r, made) ==
    CASE r.op = "CreateProject" -> {[op |-> "GetProject", slug |-> r.slug]}
      [] r.op = "CreateEnvironment" ->
            {[op |-> "GetEnvironment", slug |-> r.slug, environment |-> r.environment]}
      [] r.op = "CreateFlag" -> {[op |-> "GetFlag", slug |-> r.slug, key |-> r.key]}
      [] r.op = "PublishFlagVersion" ->
            {[op |-> q, slug |-> r.slug, key |-> r.key] : q \in {"GetFlag", "ListFlagVersions"}}
      [] r.op \in {"CreateSegment", "UpdateSegment"} ->
            {[op |-> "GetSegment", slug |-> r.slug, key |-> r.key]}
      [] r.op = "CompileSnapshot" ->
            {[op |-> "GetLatestSnapshot", slug |-> r.slug],
             [op |-> "GetSnapshot", slug |-> r.slug, id |-> made.id]}

Shown(r, q, body) ==
    CASE q.op = "GetFlag" /\ r.op = "CreateFlag" -> <<body[1].flag>>
      [] q.op = "GetFlag" /\ r.op = "PublishFlagVersion" -> body[1].latest_version
      [] q.op = "ListFlagVersions" -> <<body[1].items[1]>>
      [] OTHER -> body

Shows(surface, b, r, w) ==
    w.body # <<>> =>
        \A q \in ReadsOf(r, w.body[1]) :
            Shown(r, q, Handle(surface, b, w.db, q, Orderly).body) = w.body

\* What a write answers is what reads answer from then on, through either
\* surface: the row returned by the INSERT and the row read back convert to
\* the same object, and the newest version is the one just written.
WritesAreReadable ==
    \A b \in Backend, surface, other \in Surface, r \in scenario.writes :
        Shows(other, b, r, Handle(surface, b, db[b], r, Orderly))

\* What a client is told of an event, given its row.
Told(b, row) ==
    auditEventToAPI(IF b = "postgres" THEN auditFromRow(row) ELSE sqliteAuditFromRow(row))

\* A list of events of a log shows the event a, or as many events as it may,
\* none of them older.
Finds(shown, log, a) ==
    /\ shown \subseteq log
    /\ \/ a \in shown
       \/ Cardinality(shown) = DefaultLimit /\ \A x \in shown : x.created_at >= a.created_at

\* Each event of a project is in the unfiltered list of its log and in the
\* search for what it says of itself - its action, its actor, its millisecond
\* - unless newer ones fill the list; and both show events of the project
\* only: filters that are absent are NULL, bounds and rows are rounded alike,
\* and a list that is cut short keeps the newest.
EventsAreFound ==
    \A b \in Backend, surface \in Surface : \A p \in db[b].projects :
        LET List(q) == Range(Handle(surface, b, db[b], q, Orderly).body[1].items)
            log == {Told(b, row) : row \in InLog(db[b], p.slug)}
            all == List(Listing(p.slug, 0, <<>>))
        IN  \A a \in log : Finds(all, log, a) /\ Finds(List(SearchFor(p.slug, a)), log, a)

\* Paging through the log over REST misses no event that was there when the
\* reader began, and shows none twice, though events of the same instant
\* are told apart by random ids only and more events arrive meanwhile.
PagesAreComplete ==
    /\ \A i, j \in DOMAIN pager.seen : pager.seen[i] = pager.seen[j] => i = j
    /\ pager.state = "done" => pager.due \subseteq Range(pager.seen)

\* A tool tells its model what REST tells a person: it fails when REST does
\* and otherwise shows the same objects; get_flag says that a flag was never
\* published exactly when there is no version to show.  Calls with a cursor are
\* left out: see FirstPage.
ToolsAgree ==
    \A b \in Backend, in \in {t \in scenario.tools : FirstPage(t)} :
        Tells(in, Register(b, db[b], in), Handle("rest", b, db[b], AsRest(in), Orderly))
=============================================================================
