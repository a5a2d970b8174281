-------------------------- MODULE AgreementProofs ---------------------------
(***************************************************************************)
(* Proofs about Surfaces: the stores keep their contract, every reachable  *)
(* database holds contents its readers understand, and on such databases   *)
(* the surfaces, the tools and the backends agree.                         *)
(***************************************************************************)
EXTENDS Surfaces, WriteProofs, StoreProofs
-----------------------------------------------------------------------------
(* What every reachable state keeps *)

\* d is how backend b keeps some contents.
Keeps(b, d) == \E a : ContentsOK(b, a) /\ d = Rows(b, a)

\* The databases hold rows of well-formed objects that the unique indexes
\* tell apart, the audit log is within its bound, and a transaction that began a
\* tick ago did not begin at Go's zero time.
SurfacesInv ==
    /\ scenario \in Scenarios
    /\ clock \in Nat \ {0, 1}
    /\ \A b \in Backend : Keeps(b, db[b])
    /\ Count \in Nat /\ Count <= scenario.events

\* Ids, start times and times of writing are the numbers the tables can hold.
LEMMA EnvironsOK ==
    ASSUME SurfacesInv
    PROVE  /\ EnvironOK(Orderly)
           /\ \A e \in Environs : EnvironOK(e) /\ e.now \in Nat \ {0, 1}
<1>1. MaxEvents \in Nat /\ scenario.events \in 0..MaxEvents
  BY ScenarioAssumption DEF SurfacesInv
<1>2. EnvironOK(Orderly) /\ Orderly.now \in Nat \ {0, 1}
  <2>1. Orderly.id = MaxEvents - Count /\ Orderly.start = Count + TicksPerMilli
        /\ Orderly.now = Count + TicksPerMilli
    BY SMT DEF Orderly
  <2>2. Count \in Nat /\ Count <= scenario.events
    BY DEF SurfacesInv
  <2> HIDE DEF Orderly, Count
  <2> QED BY <1>1, <2>1, <2>2, SMT DEF EnvironOK, TicksPerMilli
<1>3. ASSUME NEW e \in Arbitrary PROVE EnvironOK(e) /\ e.now \in Nat \ {0, 1}
  <2>1. PICK i \in Free, s \in clock - 1 .. clock + 1 :
            e = [id |-> i, start |-> s, now |-> IF s < clock THEN clock ELSE s]
    BY <1>3 DEF Arbitrary
  <2>2. e.id = i /\ e.start = s /\ e.now = IF s < clock THEN clock ELSE s
    BY <2>1
  <2>3. i \in Nat
    BY <1>1, SMT DEF Free
  <2>4. clock \in Nat \ {0, 1}
    BY DEF SurfacesInv
  <2>5. s \in Nat \ {0} /\ (IF s < clock THEN clock ELSE s) \in Nat \ {0, 1}
    BY <2>4, SMT
  <2> QED BY <2>2, <2>3, <2>5, SMT DEF EnvironOK
<1> QED BY <1>2, <1>3 DEF Environs

\* The databases start without rows, which is contents like any other.
LEMMA Starts ==
    ASSUME StoreContract, Init
    PROVE  SurfacesInv
<1>1. \A b \in Backend : db[b] = Empty
  BY DEF Init
<1>2. \A b \in Backend : Keeps(b, db[b])
  BY <1>1 DEF StoreContract, StartsEmpty, Keeps
<1>3. Count = 0
  <2>1. db["postgres"] = Empty
    BY <1>1 DEF Backend
  <2>2. /\ ContentsOK("postgres", Nothing) /\ Rows("postgres", Nothing) = Empty
        /\ Cardinality(Nothing.audit) = 0
    BY DEF StoreContract, StartsEmpty
  <2>3. Cardinality(Rows("postgres", Nothing).audit) = Cardinality(Nothing.audit)
    BY <2>2 DEF StoreContract, KeepsLog
  <2> QED BY <2>1, <2>2, <2>3 DEF Count
<1>4. clock \in Nat \ {0, 1}
  BY SMT DEF Init, TicksPerMilli
<1>5. scenario \in Scenarios
  BY DEF Init
<1>6. MaxEvents \in Nat /\ scenario.events \in 0..MaxEvents
  BY <1>5, ScenarioAssumption
<1>7. Count \in Nat /\ Count <= scenario.events
  BY <1>3, <1>6, SMT
<1> QED BY <1>2, <1>4, <1>5, <1>7 DEF SurfacesInv

\* A request, through either surface, leaves both databases with contents
\* their readers understand; turning a page leaves them alone.
LEMMA Continues ==
    ASSUME StoreContract, SurfacesInv, [Next]_vars
    PROVE  SurfacesInv'
<1>1. ASSUME NEW surface \in Surface, NEW r \in scenario.writes, Serve(surface, r)
      PROVE  SurfacesInv'
  <2>1. PICK e \in Environs :
          /\ db' = [b \in Backend |-> Handle(surface, b, db[b], r, e).db]
          /\ Cardinality(db'["postgres"].audit) <= scenario.events
          /\ clock' = IF db' = db THEN clock ELSE e.now
    BY <1>1 DEF Serve
  <2>2. scenario' = scenario
    BY <1>1 DEF Serve
  <2>3. EnvironOK(e) /\ e.now \in Nat \ {0, 1}
    BY <2>1, EnvironsOK
  <2>4. Askable(r) /\ r.op \in Writing
    BY ScenarioAssumption DEF SurfacesInv
  <2>5. ASSUME NEW b \in Backend PROVE Keeps(b, db'[b])
    <3>1. PICK a : ContentsOK(b, a) /\ db[b] = Rows(b, a)
      BY DEF SurfacesInv, Keeps
    <3>2. Common(a, r)
      BY <2>4 DEF Common, Writing
    <3>3. /\ ContentsOK(b, Api(b, a, r, e).a)
          /\ Handle(surface, b, Rows(b, a), r, e).db = Rows(b, Api(b, a, r, e).a)
      BY <2>3, <2>4, <3>1, <3>2, HandlesEither, SMT
    <3>4. db'[b] = Rows(b, Api(b, a, r, e).a)
      BY <2>1, <3>1, <3>3
    <3> QED BY <3>3, <3>4 DEF Keeps
  <2>6. clock' \in Nat \ {0, 1}
    <3>1. clock \in Nat \ {0, 1}
      BY DEF SurfacesInv
    <3> QED BY <2>1, <2>3, <3>1
  <2>7. Count' \in Nat /\ Count' <= scenario'.events
    <3>1. Keeps("postgres", db'["postgres"])
      BY <2>5 DEF Backend
    <3>2. PICK a : ContentsOK("postgres", a) /\ db'["postgres"] = Rows("postgres", a)
      BY <3>1 DEF Keeps
    <3>3. Cardinality(Rows("postgres", a).audit) \in Nat
      BY <3>2 DEF StoreContract, KeepsLog
    <3> QED BY <2>1, <2>2, <3>2, <3>3 DEF Count
  <2>8. scenario' \in Scenarios
    BY <2>2 DEF SurfacesInv
  <2> QED BY <2>5, <2>6, <2>7, <2>8 DEF SurfacesInv
<1>2. ASSUME UNCHANGED <<scenario, db, clock>> PROVE SurfacesInv'
  BY <1>2 DEF SurfacesInv, Count
<1>3. ASSUME NEW r \in scenario.writes, Page(r.slug) PROVE SurfacesInv'
  BY <1>2, <1>3 DEF Page
<1>4. CASE UNCHANGED vars
  BY <1>2, <1>4 DEF vars
<1> QED BY <1>1, <1>3, <1>4 DEF Next

\* SurfacesAgree for every scenario: whatever was written through whichever
\* surface, REST and Connect answer a request alike on either backend.
LEMMA SurfacesMatch ==
    ASSUME StoreContract, SurfacesInv
    PROVE  SurfacesAgree
<1> SUFFICES ASSUME NEW b \in Backend, NEW r \in scenario.writes \cup scenario.reads,
                    Comparable(b, r)
             PROVE  Matches(Handle("rest", b, db[b], r, Orderly),
                            Handle("rpc", b, db[b], r, Orderly))
  BY DEF SurfacesAgree
<1>1. PICK a : ContentsOK(b, a) /\ db[b] = Rows(b, a)
  BY DEF SurfacesInv, Keeps
<1>2. Askable(r)
  BY ScenarioAssumption DEF SurfacesInv
<1>3. Common(a, r)
  <2>1. ASSUME r.op = "GetSnapshot", r.id = <<>> PROVE ProjectBy(a, r.slug).err = "nil"
    <3>1. PICK row \in Rows(b, a).projects : row.slug = r.slug
      BY <1>1, <2>1 DEF Comparable
    <3> QED BY <1>1, <3>1, KnownProject, SMT
  <2> QED BY <2>1 DEF Common, Comparable
<1>4. EnvironOK(Orderly)
  BY EnvironsOK
<1> DEFINE e == Orderly
           d == Rows(b, a)
<1> HIDE DEF e
<1>5. Answered(b, Api(b, a, r, e), restRoutes(b, d, r, e), Mount(b, d, r, e))
  BY <1>1, <1>2, <1>3, <1>4, Handles, SMT DEF e
<1>6. Matches(restRoutes(b, d, r, e), Mount(b, d, r, e))
  BY <1>5, Matching
<1> QED BY <1>1, <1>6 DEF Handle, e

\* ToolsAgree for every scenario: an MCP tool fails when REST refuses the
\* request the call amounts to, and otherwise shows the same objects.
LEMMA ToolsMatch ==
    ASSUME StoreContract, SurfacesInv
    PROVE  ToolsAgree
<1> SUFFICES ASSUME NEW b \in Backend, NEW in \in scenario.tools, FirstPage(in)
             PROVE  Tells(in, Register(b, db[b], in),
                          Handle("rest", b, db[b], AsRest(in), Orderly))
  BY DEF ToolsAgree
<1>1. PICK a : ContentsOK(b, a) /\ db[b] = Rows(b, a)
  BY DEF SurfacesInv, Keeps
<1>2. Callable(in)
  BY ScenarioAssumption DEF SurfacesInv
<1>3. Tells(in, Register(b, Rows(b, a), in), restRoutes(b, Rows(b, a), AsRest(in), Orderly))
  BY <1>1, <1>2, ToolsTell, SMT
<1> QED BY <1>1, <1>3 DEF Handle
-----------------------------------------------------------------------------
(* The specification *)

\* However many writes went through whichever surface, under whatever ids,
\* clocks and interleavings, each backend holds contents that its readers
\* understand, keyed as the unique indexes say (Serve, withAuditOnce, runOnceTx).
THEOREM DatabasesAreReadable == Spec => []SurfacesInv
<1>1. Init => SurfacesInv
  BY Starts, StoresKeepContract
<1>2. SurfacesInv /\ [Next]_vars => SurfacesInv'
  BY Continues, StoresKeepContract
<1> QED BY <1>1, <1>2, PTL DEF Spec

\* REST and Connect answer every request of a scenario alike, at any time, on
\* either backend (restRoutes, Mount).
THEOREM SurfacesAlwaysAgree == Spec => []SurfacesAgree
<1>1. SurfacesInv => SurfacesAgree
  BY SurfacesMatch, StoresKeepContract
<1> QED BY <1>1, DatabasesAreReadable, PTL

\* A tool tells its model what REST tells a person, at any time, on either
\* backend (Register, restRoutes).
THEOREM ToolsAlwaysAgree == Spec => []ToolsAgree
<1>1. SurfacesInv => ToolsAgree
  BY ToolsMatch, StoresKeepContract
<1> QED BY <1>1, DatabasesAreReadable, PTL
-----------------------------------------------------------------------------
(* The backends *)

USE ZenonT(30)

\* Whether the backends' clocks are read at the same time.
Timed == IF scenario.shuffle THEN FALSE ELSE TRUE

\* The databases of the two backends hold contents that no request tells apart.
Paired ==
    \E a, c : /\ ContentsOK("postgres", a) /\ db["postgres"] = Rows("postgres", a)
              /\ ContentsOK("sqlite", c) /\ db["sqlite"] = Rows("sqlite", c)
              /\ Twins(a, c, Timed)

\* Empty databases are alike.
LEMMA StartsPaired ==
    ASSUME StoreContract, Init
    PROVE  Paired
<1>1. db["postgres"] = Empty /\ db["sqlite"] = Empty
  BY DEF Init, Backend
<1>2. \A b : ContentsOK(b, Nothing) /\ Rows(b, Nothing) = Empty
  BY DEF StoreContract, StartsEmpty
<1>3. Twins(Nothing, Nothing, Timed)
  <2>1. Columns(Nothing, TableNames)
    BY DEF Nothing, Columns
  <2>2. Nothing.audit = {}
    BY DEF Nothing, TableNames
  <2> QED BY <2>1, <2>2 DEF Twins
<1> QED BY <1>1, <1>2, <1>3 DEF Paired

\* A request reads both clocks at once, unless times are arbitrary.
LEMMA EnvironsClocked ==
    ASSUME SurfacesInv, NEW e \in Environs
    PROVE  Clocked(e, Timed) /\ Clocked(Orderly, Timed)
<1>1. EnvironOK(e) /\ EnvironOK(Orderly)
  BY EnvironsOK
<1>2. e.start \in Nat /\ e.now \in Nat /\ Orderly.start \in Nat /\ Orderly.now \in Nat
  BY <1>1, SMT DEF EnvironOK
<1>3. Orderly.start = Orderly.now
  BY SMT DEF Orderly
<1> HIDE DEF Orderly
<1>4. Timed => e = Orderly
  BY DEF Timed, Environs
<1> QED BY <1>2, <1>3, <1>4 DEF Clocked

\* A write leaves the backends alike.
LEMMA StaysPaired ==
    ASSUME StoreContract, SurfacesInv, Paired, [Next]_vars
    PROVE  Paired'
<1>1. ASSUME NEW surface \in Surface, NEW r \in scenario.writes, Serve(surface, r)
      PROVE  Paired'
  <2>1. PICK e \in Environs : db' = [b \in Backend |-> Handle(surface, b, db[b], r, e).db]
    BY <1>1 DEF Serve
  <2>2. Timed' = Timed
    BY <1>1 DEF Serve, Timed
  <2>3. EnvironOK(e) /\ Clocked(e, Timed)
    BY EnvironsOK, EnvironsClocked
  <2>4. Askable(r) /\ r.op \in Writing
    BY ScenarioAssumption DEF SurfacesInv
  <2>5. PICK a, c : /\ ContentsOK("postgres", a) /\ db["postgres"] = Rows("postgres", a)
                    /\ ContentsOK("sqlite", c) /\ db["sqlite"] = Rows("sqlite", c)
                    /\ Twins(a, c, Timed)
    BY DEF Paired
  <2>6. Common(a, r) /\ Common(c, r) /\ r.op # "ListAuditEvents"
    BY <2>4 DEF Common, Writing
  <2> DEFINE y == Api("postgres", a, r, e)
             z == Api("sqlite", c, r, e)
  <2>7. /\ ContentsOK("postgres", y.a)
        /\ Handle(surface, "postgres", Rows("postgres", a), r, e).db = Rows("postgres", y.a)
    BY <2>3, <2>4, <2>5, <2>6, HandlesEither, SMT
  <2>8. /\ ContentsOK("sqlite", z.a)
        /\ Handle(surface, "sqlite", Rows("sqlite", c), r, e).db = Rows("sqlite", z.a)
    BY <2>3, <2>4, <2>5, <2>6, HandlesEither, SMT
  <2>9. Same(y, z, Timed)
    BY <2>3, <2>4, <2>5, <2>6, SameAnswers
  <2> HIDE DEF y, z
  <2>10. Twins(y.a, z.a, Timed')
    BY <2>2, <2>9 DEF Same
  <2>11. db'["postgres"] = Rows("postgres", y.a) /\ db'["sqlite"] = Rows("sqlite", z.a)
    BY <2>1, <2>5, <2>7, <2>8 DEF Backend
  <2> QED BY <2>7, <2>8, <2>10, <2>11 DEF Paired
<1>2. ASSUME UNCHANGED <<scenario, db>> PROVE Paired'
  BY <1>2 DEF Paired, Timed
<1>3. ASSUME NEW r \in scenario.writes, Page(r.slug) PROVE Paired'
  BY <1>2, <1>3 DEF Page
<1>4. CASE UNCHANGED vars
  BY <1>2, <1>4 DEF vars
<1> QED BY <1>1, <1>3, <1>4 DEF Next

\* The logs of twins are of the same length.
LEMMA SameLengths ==
    ASSUME NEW a, NEW c, NEW timed, ContentsOK("postgres", a), ContentsOK("sqlite", c),
           Twins(a, c, timed)
    PROVE  Cardinality(a.audit) = Cardinality(c.audit)
<1> DEFINE T == {Seen(v, timed) : v \in a.audit}
<1>1. T = {Seen(v, timed) : v \in c.audit}
  BY DEF Twins
<1>2. \A v \in a.audit \cup c.audit : Seen(v, timed).id = v.id
  <2> SUFFICES ASSUME NEW v \in a.audit \cup c.audit
               PROVE  Seen(v, timed).id = v.id
    OBVIOUS
  <2>1. Columns(v, EventColumns)
    BY DEF Twins
  <2> QED BY <2>1, SMT DEF Seen, Columns, EventColumns
<1>3. /\ \A v, w \in a.audit : v.id = w.id => v = w
      /\ \A v, w \in c.audit : v.id = w.id => v = w
      /\ IsFiniteSet(a.audit) /\ IsFiniteSet(c.audit)
  <2>1. Unique(a.audit, {"id"}) /\ Unique(c.audit, {"id"})
    BY DEF ContentsOK
  <2>2. IsFiniteSet(a.audit) /\ IsFiniteSet(c.audit)
    BY DEF ContentsOK
  <2>3. ASSUME NEW S, Unique(S, {"id"}), NEW v \in S, NEW w \in S, v.id = w.id PROVE v = w
    BY <2>3 DEF Unique
  <2> QED BY <2>1, <2>2, <2>3
<1>4. ASSUME NEW S, S \subseteq a.audit \cup c.audit, T = {Seen(v, timed) : v \in S},
             \A v, w \in S : v.id = w.id => v = w,
             IsFiniteSet(S)
      PROVE  Cardinality(T) = Cardinality(S)
  <2> DEFINE h == [v \in S |-> Seen(v, timed)]
  <2>1. \A v \in S : h[v] = Seen(v, timed)
    OBVIOUS
  <2>2. h \in [S -> T] /\ Onto(h, S, T)
    BY <1>4 DEF Onto
  <2>3. OneToOne(h, S)
    <3> HIDE DEF h
    <3>1. \A v \in S : h[v].id = v.id
      BY <1>2, <1>4, <2>1
    <3>2. \A v, w \in S : h[v] = h[w] => v.id = w.id
      BY <3>1
    <3> QED BY <1>4, <3>2 DEF OneToOne
  <2> HIDE DEF h, T
  <2>4. IsFiniteSet(S)
    BY <1>4
  <2> QED BY <2>2, <2>3, <2>4, Images
<1>5. T = {Seen(v, timed) : v \in a.audit}
  OBVIOUS
<1> HIDE DEF T
<1>6. Cardinality(T) = Cardinality(a.audit)
  BY <1>3, <1>4, <1>5
<1>7. Cardinality(T) = Cardinality(c.audit)
  BY <1>1, <1>3, <1>4
<1> QED BY <1>6, <1>7

\* Every part of a log that fits on a page fits on a page.
LEMMA ShortLogs ==
    ASSUME NEW b, NEW a, ContentsOK(b, a), Cardinality(a.audit) <= DefaultLimit
    PROVE  Short(a)
<1> SUFFICES ASSUME NEW S \in SUBSET a.audit PROVE Cardinality(S) <= DefaultLimit
  BY DEF Short
<1>1. IsFiniteSet(a.audit)
  BY DEF ContentsOK
<1>2. /\ IsFiniteSet(S) /\ Cardinality(S) <= Cardinality(a.audit)
      /\ Cardinality(S) \in Nat /\ Cardinality(a.audit) \in Nat
  BY <1>1, FS_Subset, FS_CardinalityType
<1> QED BY <1>2, LimitAssumption, SMT

\* When the log of one backend fits on a page, so does that of the other.
LEMMA LogsAreShort ==
    ASSUME StoreContract, NEW a, NEW c, ContentsOK("postgres", a), ContentsOK("sqlite", c),
           db["postgres"] = Rows("postgres", a), Twins(a, c, Timed), Count <= DefaultLimit
    PROVE  Short(a) /\ Short(c)
<1>1. Cardinality(Rows("postgres", a).audit) = Cardinality(a.audit)
  BY DEF StoreContract, KeepsLog
<1>2. Cardinality(a.audit) = Cardinality(c.audit)
  BY SameLengths
<1>3. Count = Cardinality(a.audit)
  BY <1>1 DEF Count
<1> HIDE DEF Count
<1>4. Cardinality(a.audit) <= DefaultLimit /\ Cardinality(c.audit) <= DefaultLimit
  BY <1>2, <1>3
<1> QED BY <1>4, ShortLogs

\* BackendsAgree for every scenario.
LEMMA BackendsMatch ==
    ASSUME StoreContract, SurfacesInv, Paired
    PROVE  BackendsAgree
<1> SUFFICES ASSUME ~scenario.shuffle, NEW surface \in Surface,
                    NEW r \in scenario.writes \cup scenario.reads
             PROVE  Alike(r, Handle(surface, "postgres", db["postgres"], r, Orderly),
                             Handle(surface, "sqlite", db["sqlite"], r, Orderly))
  BY DEF BackendsAgree
<1>1. PICK e : e = Orderly
  OBVIOUS
<1>2. Timed = TRUE
  BY DEF Timed
<1>3. PICK a, c : /\ ContentsOK("postgres", a) /\ db["postgres"] = Rows("postgres", a)
                  /\ ContentsOK("sqlite", c) /\ db["sqlite"] = Rows("sqlite", c)
                  /\ Twins(a, c, TRUE)
  BY <1>2 DEF Paired
<1>4. Askable(r)
  BY ScenarioAssumption DEF SurfacesInv
<1>5. EnvironOK(e) /\ Clocked(e, TRUE)
  <2>1. Orderly \in Environs
    BY DEF Environs
  <2>2. EnvironOK(Orderly) /\ Clocked(Orderly, Timed)
    BY <2>1, EnvironsOK, EnvironsClocked
  <2> QED BY <1>1, <1>2, <2>2
<1> DEFINE g == Handle(surface, "postgres", Rows("postgres", a), r, e)
           h == Handle(surface, "sqlite", Rows("sqlite", c), r, e)
<1>6. ASSUME r.op # "ListAuditEvents"
      PROVE  SameReply(g, h)
  <2>1. PICK timed : timed = TRUE
    OBVIOUS
  <2>2. /\ ContentsOK("postgres", a) /\ ContentsOK("sqlite", c) /\ Twins(a, c, timed)
        /\ Askable(r) /\ r.op # "ListAuditEvents" /\ EnvironOK(e) /\ Clocked(e, timed)
    BY <1>3, <1>4, <1>5, <1>6, <2>1
  <2> QED BY <2>2, BackendsAnswerAlike, SMT
<1>7. ASSUME r.op = "ListAuditEvents", Whole(r), Count <= DefaultLimit
      PROVE  SameLog(g, h)
  <2>1. Short(a) /\ Short(c)
    BY <1>2, <1>3, <1>7, LogsAreShort
  <2>2. /\ ContentsOK("postgres", a) /\ ContentsOK("sqlite", c) /\ Twins(a, c, TRUE)
        /\ Short(a) /\ Short(c) /\ Askable(r) /\ r.op = "ListAuditEvents" /\ Whole(r)
        /\ EnvironOK(e)
    BY <1>3, <1>4, <1>5, <1>7, <2>1
  <2> QED BY <2>2, LogsAlike
<1> HIDE DEF g, h
<1>8. Alike(r, g, h)
  BY <1>6, <1>7 DEF Alike, SameReply, SameLog
<1> QED BY <1>1, <1>3, <1>8 DEF g, h
-----------------------------------------------------------------------------
(* The audit log *)

RowsTold(b, a, slug) == {Told(b, row) : row \in InLog(Rows(b, a), slug)}
EventsTold(a, p) == {auditEventToAPI(v) : v \in ProjectLog(a, p)}

\* The rows of a project's log tell of the project's events.
LEMMA LogOfProject ==
    ASSUME NEW b, NEW a, ContentsOK(b, a), NEW slug, NEW p, p.id = <<slug>>
    PROVE  RowsTold(b, a, slug) = EventsTold(a, p)
<1> DEFINE V == ProjectLog(a, p)
           W == InLog(Rows(b, a), slug)
<1>1. \A v \in a.audit : EventOK(b, v)
  BY DEF ContentsOK, OK, TableNames
<1>2. ASSUME NEW v \in a.audit
      PROVE  (EventRow(b, v).project_id # NULL /\ EventRow(b, v).project_id.value = <<slug>>)
                  <=> v.project_id = <<p.id>>
  <2> DEFINE u == v.project_id
             o == OptionalId(b, u)
  <2>1. EventRow(b, v).project_id = o
    BY SMT DEF EventRow
  <2>2. OneOrNone(u)
    BY <1>1 DEF EventOK
  <2> HIDE DEF u, o
  <2>3. /\ o = NULL <=> u = <<>>
        /\ \A w : o = Id(b, w) <=> u = <<w>>
    BY <2>2, OptionalIdColumn DEF o
  <2>4. (o # NULL /\ o.value = <<slug>>) <=> u = <<p.id>>
    <3>1. CASE u = <<>>
      BY <2>3, <3>1, SMT
    <3>2. CASE Single(u)
      <4>1. o = Id(b, u[1])
        BY <2>3, <3>2 DEF Single
      <4>2. o.value = u[1] /\ o # NULL
        <5>1. \A w : Id(b, w).value = w /\ Id(b, w) # NULL
          BY IdColumn
        <5> QED BY <4>1, <5>1
      <4>3. u = <<p.id>> <=> u[1] = p.id
        BY <3>2, SMT DEF Single
      <4> QED BY <4>2, <4>3
    <3> QED BY <2>2, <3>1, <3>2 DEF OneOrNone
  <2> QED BY <2>1, <2>4 DEF u
<1>3. W = {EventRow(b, v) : v \in V}
  <2>1. Rows(b, a).audit = {EventRow(b, v) : v \in a.audit}
    BY Tables
  <2> QED BY <1>2, <2>1 DEF InLog, ProjectLog
<1>4. ASSUME NEW v \in V PROVE Told(b, EventRow(b, v)) = auditEventToAPI(v)
  <2>1. EventOK(b, v)
    BY <1>1 DEF ProjectLog
  <2> QED BY <2>1, EventBack DEF Told
<1> HIDE DEF V, W
<1>5. {Told(b, row) : row \in W} = {Told(b, EventRow(b, v)) : v \in V}
  BY <1>3
<1>6. {Told(b, EventRow(b, v)) : v \in V} = {auditEventToAPI(v) : v \in V}
  BY <1>4
<1> QED BY <1>5, <1>6 DEF V, W, RowsTold, EventsTold

\* A list that is filled has as many events as the default limit.
LEMMA FilledLists ==
    ASSUME NEW I, Filled(I)
    PROVE  Cardinality(I) = DefaultLimit
<1>1. PICK f : Numbers(f, DefaultLimit, I)
  BY DEF Filled
<1>2. DefaultLimit \in Nat
  BY LimitAssumption
<1>3. /\ f \in [1 .. DefaultLimit -> I]
      /\ Onto(f, 1 .. DefaultLimit, I) /\ OneToOne(f, 1 .. DefaultLimit)
  BY <1>1 DEF Numbers, Onto, OneToOne
<1> QED BY <1>2, <1>3, Places

\* An event is found by the request for the whole log and by its search.
LEMMA LogIsFound ==
    ASSUME StoreContract, NEW b, NEW a, ContentsOK(b, a),
           NEW row \in Rows(b, a).projects, NEW e, EnvironOK(e), NEW surface \in Surface
    PROVE  LET List(q) == Range(Handle(surface, b, Rows(b, a), q, e).body[1].items)
               log == {Told(b, w) : w \in InLog(Rows(b, a), row.slug)}
               all == List(Listing(row.slug, 0, <<>>))
           IN  \A x \in log : Finds(all, log, x) /\ Finds(List(SearchFor(row.slug, x)), log, x)
<1> DEFINE slug == row.slug
           found == ProjectBy(a, slug)
           p == found.val[1]
           List(q) == Range(Handle(surface, b, Rows(b, a), q, e).body[1].items)
           log == {Told(b, w) : w \in InLog(Rows(b, a), slug)}
           V == ProjectLog(a, p)
<1>1. found.err = "nil" /\ p.id = <<slug>>
  BY ProjectOfRow
<1> HIDE DEF found, slug, p
<1>2. log = {auditEventToAPI(v) : v \in V}
  <2>1. RowsTold(b, a, slug) = EventsTold(a, p)
    BY <1>1, LogOfProject
  <2> QED BY <2>1 DEF RowsTold, EventsTold
<1>3. \A v \in V : v \in a.audit /\ v.project_id = <<p.id>> /\ EventOK(b, v)
  BY DEF ContentsOK, OK, TableNames, ProjectLog
<1> HIDE DEF log
<1>4. ASSUME NEW v \in V, NEW q, Lists(b, p, slug, v, q)
      PROVE  Finds(List(q), log, auditEventToAPI(v))
  <2> DEFINE W == EventsFor(b, a, LogQuery(p, q))
             x == auditEventToAPI(v)
  <2>1. /\ Selects(b, LogQuery(p, q), v)
        /\ q.limit = 0 /\ q.cursor = <<>> /\ q.from \in Nat /\ q.to \in Nat
        /\ q.op = "ListAuditEvents" /\ q.slug = slug
    BY <1>4 DEF Lists
  <2>2. KeepsNewest(List(q), W)
    <3>1. ProjectBy(a, q.slug) = found
      BY <2>1 DEF found
    <3>2. ShowsEvents(Handle(surface, b, Rows(b, a), q, e), W)
      BY <1>1, <2>1, <3>1, ListsNewestEvents DEF p
    <3> QED BY <3>2 DEF ShowsEvents, ItemsOf, Range
  <2>3. v \in W /\ W \subseteq V
    <3>1. LogQuery(p, q).project_id = p.id
      BY SMT DEF LogQuery
    <3>2. \A u : Selects(b, LogQuery(p, q), u) => u.project_id = <<p.id>>
      BY <3>1 DEF Selects
    <3> QED BY <1>3, <2>1, <3>2 DEF EventsFor, ProjectLog
  <2>4. x.created_at = v.created_at
    <3>1. Columns(v, EventColumns)
      BY <1>3 DEF EventOK
    <3> QED BY <3>1, ToldEvent
  <2> HIDE DEF W, List, V, x
  <2>5. List(q) \subseteq log
    BY <1>2, <2>2, <2>3 DEF KeepsNewest
  <2>6. \/ x \in List(q)
        \/ Filled(List(q)) /\ \A y \in List(q) : y.created_at >= v.created_at
    BY <2>2, <2>3 DEF KeepsNewest, x
  <2>7. Filled(List(q)) => Cardinality(List(q)) = DefaultLimit
    BY FilledLists
  <2> QED BY <2>4, <2>5, <2>6, <2>7 DEF Finds, x
<1> HIDE DEF List, V
<1>5. ASSUME NEW x \in log
      PROVE  Finds(List(Listing(slug, 0, <<>>)), log, x) /\ Finds(List(SearchFor(slug, x)), log, x)
  <2>1. PICK v \in V : x = auditEventToAPI(v)
    BY <1>2
  <2>2. v.project_id = <<p.id>> /\ EventOK(b, v)
    BY <1>3
  <2>3. /\ Lists(b, p, slug, v, Listing(slug, 0, <<>>))
        /\ Lists(b, p, slug, v, SearchFor(slug, auditEventToAPI(v)))
    BY <2>2, ListingFinds, SearchFinds
  <2> QED BY <1>4, <2>1, <2>3
<1> QED BY <1>5 DEF List, log, slug

\* EventsAreFound for every scenario.
LEMMA EventsMatch ==
    ASSUME StoreContract, SurfacesInv
    PROVE  EventsAreFound
<1> SUFFICES ASSUME NEW b \in Backend, NEW surface \in Surface, NEW row \in db[b].projects
             PROVE  LET List(q) == Range(Handle(surface, b, db[b], q, Orderly).body[1].items)
                        log == {Told(b, w) : w \in InLog(db[b], row.slug)}
                        all == List(Listing(row.slug, 0, <<>>))
                    IN  \A x \in log : /\ Finds(all, log, x)
                                       /\ Finds(List(SearchFor(row.slug, x)), log, x)
  BY DEF EventsAreFound
<1>1. PICK a : ContentsOK(b, a) /\ db[b] = Rows(b, a)
  BY DEF SurfacesInv, Keeps
<1>2. PICK e : e = Orderly
  OBVIOUS
<1>3. EnvironOK(e)
  BY <1>2, EnvironsOK
<1>4. row \in Rows(b, a).projects
  BY <1>1
<1>5. LET List(q) == Range(Handle(surface, b, Rows(b, a), q, e).body[1].items)
          log == {Told(b, w) : w \in InLog(Rows(b, a), row.slug)}
          all == List(Listing(row.slug, 0, <<>>))
      IN  \A x \in log : Finds(all, log, x) /\ Finds(List(SearchFor(row.slug, x)), log, x)
  BY <1>1, <1>3, <1>4, LogIsFound
<1> QED BY <1>1, <1>2, <1>5

\* The backends always hold contents that tell apart nothing a client can see.
THEOREM BackendsStayPaired == Spec => []Paired
<1>1. Init => Paired
  BY StartsPaired, StoresKeepContract
<1>2. SurfacesInv /\ Paired /\ [Next]_vars => Paired'
  BY StaysPaired, StoresKeepContract
<1> QED BY <1>1, <1>2, DatabasesAreReadable, PTL DEF Spec

\* PostgreSQL and SQLite always answer the requests of a scenario alike.
THEOREM BackendsAlwaysAgree == Spec => []BackendsAgree
<1>1. SurfacesInv /\ Paired => BackendsAgree
  BY BackendsMatch, StoresKeepContract
<1> QED BY <1>1, DatabasesAreReadable, BackendsStayPaired, PTL

\* Each event of a project is always in the list of its log and in the search
\* for it, unless the list is full of events that are no older.
THEOREM EventsAlwaysFound == Spec => []EventsAreFound
<1>1. SurfacesInv => EventsAreFound
  BY EventsMatch, StoresKeepContract
<1> QED BY <1>1, DatabasesAreReadable, PTL
=============================================================================
