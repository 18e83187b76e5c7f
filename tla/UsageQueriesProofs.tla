------------------------- MODULE UsageQueriesProofs -------------------------
(***************************************************************************)
(* The usage pages for every set of events and seats, every request and    *)
(* every size of a page: the auditor's pages lose nothing, a client        *)
(* request is counted once, facets offer the alternatives there are, a     *)
(* caller of a shared database stays within its scope, the charts of a     *)
(* page break down the same usage, and the two SQL dialects agree.         *)
(***************************************************************************)
EXTENDS UsageQueries, FiniteCollections, FiniteSetTheorems, TLAPS

-----------------------------------------------------------------------------
(* The orders of the pages.                                                *)

Order(p) == {e \in Events \X Events : Listed(p, e[1], e[2])}

LEMMA SortValues ==
  ASSUME NEW sort \in SortColumns, NEW r \in Events
  PROVE  SortValue(sort, r) \in Int
<1>1. /\ r.time \in Int /\ r.tokens \in Int
      /\ r.amount # None => r.amount \in Int
      /\ r.attempt # None => r.attempt \in Int
  BY EventAssumption
<1> QED
  BY <1>1 DEF SortValue, SortColumns

\* The table is ordered by its column, then the newest, then the greatest id.
LEMMA ListedLinear ==
  ASSUME NEW p, NEW S \in SUBSET Events
  PROVE  LinearOn(Order(p), S)
<1> DEFINE sort == IF p.sort \in SortColumns THEN p.sort ELSE "time"
           up == p.sort \in SortColumns /\ p.dir = "asc"
           V(r) == SortValue(sort, r)
<1>1. \A r \in Events : V(r) \in Int /\ r.time \in Int /\ r.id \in Int
  <2>1. sort \in SortColumns
    BY DEF SortColumns
  <2> QED
    BY <2>1, SortValues, EventAssumption
<1>2. \A a, b \in Events : <<a, b>> \in Order(p) <=>
        \/ IF up THEN V(a) < V(b) ELSE V(a) > V(b)
        \/ V(a) = V(b) /\ a.time > b.time
        \/ V(a) = V(b) /\ a.time = b.time /\ a.id > b.id
  BY DEF Order, Listed
<1> HIDE DEF V, up
<1>3. \A x \in S : <<x, x>> \notin Order(p)
  BY <1>1, <1>2
<1>4. ASSUME NEW x \in S, NEW y \in S, NEW z \in S, <<x, y>> \in Order(p), <<y, z>> \in Order(p)
      PROVE  <<x, z>> \in Order(p)
  <2>1. CASE up
    BY <1>1, <1>2, <1>4, <2>1
  <2>2. CASE ~up
    BY <1>1, <1>2, <1>4, <2>2
  <2> QED
    BY <2>1, <2>2
<1>5. ASSUME NEW x \in S, NEW y \in S, x # y
      PROVE  <<x, y>> \in Order(p) \/ <<y, x>> \in Order(p)
  <2>1. x.id # y.id
    BY <1>5, EventAssumption
  <2> QED
    BY <1>1, <1>2, <2>1
<1> QED
  BY <1>3, <1>4, <1>5 DEF LinearOn

LEMMA AuditFields ==
  ASSUME NEW q, NEW now
  PROVE  /\ AuditParams(q, now).limit = q.limit /\ AuditParams(q, now).filter = q.filter
         /\ AuditParams(q, now).org = q.org /\ AuditParams(q, now).priced = q.priced
         /\ AuditParams(q, now).keyword = q.keyword
         /\ DOMAIN AuditParams(q, now) = {"start", "end", "org", "filter", "priced", "keyword",
                                     "sort", "dir", "limit"}
  BY DEF AuditParams

LEMMA PersonalFields ==
  ASSUME NEW q
  PROVE  /\ PersonalParams(q).seat = q.seat /\ PersonalParams(q).account = q.account
         /\ PersonalParams(q).org = q.org
         /\ PersonalParams(q).all = LocalAllScope(q, q.deployment = "personal")
  BY DEF PersonalParams

-----------------------------------------------------------------------------
(* What the database holds.                                                *)

\* Facts are derived from stored events, and none from a probe.
Stored ==
  /\ ods \subseteq Events /\ IsFiniteSet(ods)
  /\ dwd \subseteq ods
  /\ \A r \in dwd : r.route # "canary"

LEMMA StoredInvariant == Spec => []Stored
<1>1. Init => Stored
  BY FS_EmptySet DEF Init, Stored
<1>2. Stored /\ [Next]_vars => Stored'
  <2> SUFFICES ASSUME Stored, [Next]_vars PROVE Stored'
    OBVIOUS
  <2>1. ASSUME NEW e \in Events, Ingest(e) PROVE Stored'
    BY <2>1, FS_AddElement DEF Ingest, Stored
  <2>2. ASSUME NEW e \in Events, Project(e) PROVE Stored'
    BY <2>2 DEF Project, Stored
  <2>3. ASSUME UNCHANGED <<ods, dwd>> PROVE Stored'
    BY <2>3 DEF Stored
  <2> QED
    BY <2>1, <2>2, <2>3 DEF Next, Tick, OpenAudit, NextPage, CloseAudit, vars
<1> QED
  BY <1>1, <1>2, PTL DEF Spec

LEMMA FactsFinite ==
  ASSUME Stored
  PROVE  /\ dwd \subseteq Events /\ IsFiniteSet(dwd)
         /\ \A p : Audited(p) \subseteq Events /\ IsFiniteSet(Audited(p))
<1>1. dwd \subseteq Events /\ IsFiniteSet(dwd)
  BY FS_Subset DEF Stored
<1>2. \A p : Audited(p) \subseteq dwd
  BY DEF Audited
<1> QED
  BY <1>1, <1>2, FS_Subset
-----------------------------------------------------------------------------
(* A client request is counted once.                                       *)

Deciding == {e \in Events \X Events : Decides(e[1], e[2])}

\* Of any two attempts one decides the request rather than the other.
LEMMA DecidesLinear ==
  ASSUME NEW S \in SUBSET Events
  PROVE  LinearOn(Deciding, S)
<1>1. \A r \in Events : Successful(r) \in {0, 1} /\ r.time \in Int /\ r.id \in Int
  BY EventAssumption DEF Successful
<1>2. \A a, b \in Events : <<a, b>> \in Deciding <=>
        \/ Successful(a) > Successful(b)
        \/ /\ Successful(a) = Successful(b)
           /\ \/ a.time > b.time
              \/ a.time = b.time /\ a.id > b.id
  BY DEF Deciding, Decides
<1>3. \A x \in S : <<x, x>> \notin Deciding
  BY <1>1, <1>2
<1>4. \A x, y, z \in S : <<x, y>> \in Deciding /\ <<y, z>> \in Deciding => <<x, z>> \in Deciding
  BY <1>1, <1>2
<1>5. ASSUME NEW x \in S, NEW y \in S, x # y
      PROVE  <<x, y>> \in Deciding \/ <<y, x>> \in Deciding
  <2>1. x.id # y.id
    BY <1>5, EventAssumption
  <2> QED
    BY <1>1, <1>2, <2>1
<1> QED
  BY <1>3, <1>4, <1>5 DEF LinearOn

\* The reporting view counts a client request once, in whatever order the attempts
\* made for it are projected and however many of them tie (repository_sql.go:1508).
THEOREM RequestsCounted == Spec => []RequestCountedOnce
<1>1. ASSUME Stored PROVE RequestCountedOnce
  <2> SUFFICES ASSUME NEW r \in dwd, r.request # None
               PROVE  Cardinality({x \in dwd : SameRequest(x, r) /\ ClientRequestCount(x) = 1}) = 1
    BY DEF RequestCountedOnce
  <2> DEFINE S == {x \in dwd : SameRequest(x, r)}
  <2>1. S \in SUBSET Events /\ IsFiniteSet(S) /\ r \in S
    BY <1>1, FactsFinite, FS_Subset DEF SameRequest
  <2>2. \A y \in S : ClientRequestCount(y) = 1 <=> Below(Deciding, S, y) = {}
    <3> SUFFICES ASSUME NEW y \in S
                 PROVE  ClientRequestCount(y) = 1 <=> Below(Deciding, S, y) = {}
      OBVIOUS
    <3>1. y.request # None /\ \A x : SameRequest(x, y) <=> SameRequest(x, r)
      BY DEF SameRequest
    <3>2. \A x \in S : <<x, y>> \in Deciding <=> Decides(x, y)
      BY <2>1 DEF Deciding
    <3>3. ClientRequestCount(y) = 1 <=> ~ \E x \in dwd : SameRequest(x, y) /\ Decides(x, y)
      BY <3>1 DEF ClientRequestCount
    <3>4. ClientRequestCount(y) = 1 <=> ~ \E x \in S : Decides(x, y)
      BY <3>1, <3>3
    <3> QED
      BY <3>2, <3>4 DEF Below
  <2>3. LinearOn(Deciding, S)
    BY <2>1, DecidesLinear
  <2>4. PICK x \in S : {y \in S : Below(Deciding, S, y) = {}} = {x}
    <3> HIDE DEF S
    <3> QED
      BY <2>1, <2>3, OneFirst
  <2>5. {y \in dwd : SameRequest(y, r) /\ ClientRequestCount(y) = 1} = {x}
    BY <2>2, <2>4
  <2> QED
    BY <2>5, FS_Singleton
<1> QED
  BY <1>1, StoredInvariant, PTL

-----------------------------------------------------------------------------
(* The facets of the audit table.                                          *)

LEMMA LesserOfTwo ==
  ASSUME NEW m \in Nat, NEW n \in Nat
  PROVE  Min({m, n}) \in {m, n} /\ Min({m, n}) <= m /\ Min({m, n}) <= n
<1>1. {m, n} \in SUBSET Nat /\ {m, n} # {}
  OBVIOUS
<1> QED
  BY <1>1, LeastNatural

\* Filtering by a value of a column keeps, of what the other filters give, the rows
\* with that value.
LEMMA ValueNarrows ==
  ASSUME NEW q, NEW c, NEW v
  PROVE  LET p == AuditParams(q, Now)
         IN  Audited(WithValue(p, c, v)) = {r \in Audited(WithoutColumn(p, c)) : r[c] = v}
<1> DEFINE p == AuditParams(q, Now)
           new == WithValue(p, c, v)
           old == WithoutColumn(p, c)
<1>1. /\ new.org = p.org /\ new.start = p.start /\ new.end = p.end
      /\ new.priced = p.priced /\ new.keyword = p.keyword
  BY DEF AuditParams, WithValue
<1>2. new.filter = [d \in {c} \cup DOMAIN p.filter |-> IF d = c THEN v ELSE p.filter[d]]
  BY DEF AuditParams, WithValue
<1>3. /\ old.org = p.org /\ old.start = p.start /\ old.end = p.end
      /\ old.priced = p.priced /\ old.keyword = p.keyword
  BY DEF AuditParams, WithoutColumn
<1>4. old.filter = [d \in DOMAIN p.filter \ {c} |-> p.filter[d]]
  BY DEF AuditParams, WithoutColumn
<1> HIDE DEF p, new, old
<1>5. ASSUME NEW r
      PROVE  (\A d \in DOMAIN new.filter : r[d] = new.filter[d])
                 <=> (\A d \in DOMAIN old.filter : r[d] = old.filter[d]) /\ r[c] = v
  BY <1>2, <1>4
<1>6. ASSUME NEW r
      PROVE  MasterAuditWhere(new, r) <=> MasterAuditWhere(old, r) /\ r[c] = v
  BY <1>1, <1>3, <1>5 DEF MasterAuditWhere
<1> QED
  BY <1>6 DEF Audited, p, new, old

\* A value a facet offers gives a result under the other filters, and every value
\* that does is offered, as far as the payload has room (repository_sql.go:1390).
THEOREM FacetsOffer == Spec => []FacetsOfferAlternatives
<1>1. ASSUME Stored PROVE FacetsOfferAlternatives
  <2> SUFFICES ASSUME NEW p \in {AuditParams(q, Now) : q \in AuditPages}, NEW c \in FacetColumns
               PROVE  \A V \in MasterUsageDetailFacets(p)[c] :
                          /\ V \subseteq Giving(p, c)
                          /\ Cardinality(Giving(p, c)) <= FacetLimit => V = Giving(p, c)
    BY DEF FacetsOfferAlternatives
  <2> DEFINE A == Audited(WithoutColumn(p, c))
             W == FacetValues(p, c)
             n == Min({FacetLimit, Cardinality(W)})
  <2>1. A \subseteq Events /\ IsFiniteSet(A)
    BY <1>1, FactsFinite
  <2>2. \A v : Audited(WithValue(p, c, v)) = {r \in A : r[c] = v}
    BY ValueNarrows
  <2>3. W = {r[c] : r \in A} \ {None}
    BY DEF FacetValues
  <2>4. MasterUsageDetailFacets(p)[c] = {V \in SUBSET W : Cardinality(V) = n}
    BY DEF MasterUsageDetailFacets
  <2> HIDE DEF A, W
  <2>5. Giving(p, c) = W
    BY <2>1, <2>2, <2>3 DEF Giving
  <2>6. IsFiniteSet(W) /\ Cardinality(W) \in Nat
    <3> DEFINE f == [r \in A |-> r[c]]
               T == {r[c] : r \in A}
    <3>1. IsFiniteSet(T)
      <4>1. f \in [A -> T] /\ \A t \in T : \E r \in A : f[r] = t
        OBVIOUS
      <4> HIDE DEF f, T
      <4> QED
        BY <2>1, <4>1, FS_Surjection DEF Surjection
    <3>2. W \subseteq {r[c] : r \in A}
      BY <2>3
    <3>3. IsFiniteSet(W)
      <4> HIDE DEF W
      <4> QED
        BY <3>1, <3>2, FS_Subset
    <3> QED
      BY <3>3, FS_CardinalityType
  <2>7. ASSUME Cardinality(W) <= FacetLimit PROVE n = Cardinality(W)
    <3>1. FacetLimit \in Nat
      BY LimitAssumption
    <3>2. n \in {FacetLimit, Cardinality(W)} /\ n <= Cardinality(W)
      BY <2>6, <3>1, LesserOfTwo
    <3> QED
      BY <2>6, <2>7, <3>1, <3>2
  <2> HIDE DEF n
  <2>8. ASSUME NEW V \in SUBSET W, Cardinality(V) = n, Cardinality(W) <= FacetLimit
        PROVE  V = W
    BY <2>6, <2>7, <2>8, FS_Subset
  <2> QED
    BY <2>4, <2>5, <2>8
<1> QED
  BY <1>1, StoredInvariant, PTL
-----------------------------------------------------------------------------
(* What a caller of a shared database is shown.                            *)

\* On a database others share a caller gets its own requests and, by agent, its own
\* seat and the agents it owns, and never a probe, whatever scope it asks for
\* (repository_sql.go:154, handlers.go:830).
THEOREM CallersScoped == Spec => []CallerScope
<1>1. ASSUME Stored PROVE CallerScope
  <2> SUFFICES ASSUME NEW q \in Requests, Identified(q), q.deployment = "team"
               PROVE  LET p     == PersonalParams(q)
                          own   == {e \in Events : IF q.seat # None THEN e.seat = q.seat
                                                   ELSE IF q.org = "personal" THEN e.org = "personal"
                                                   ELSE e.account = q.account}
                          seats == {q.seat} \cup {s.seat : s \in {x \in Seats : x.parent = q.seat}}
                          rows  == PersonalRecent(p, Cardinality(Events))
                                   \cup PersonalUsageDetail("postgres", p, Cardinality(Events))
                      IN  /\ rows \subseteq own
                          /\ MyFacts("postgres", p) \subseteq own
                          /\ \A r \in rows \cup LatestAgentRoutes(p) : r.route # "canary"
                          /\ DOMAIN AgentRows(p) \subseteq seats
    BY DEF CallerScope
  <2> DEFINE p   == PersonalParams(q)
             own == {e \in Events : IF q.seat # None THEN e.seat = q.seat
                                    ELSE IF q.org = "personal" THEN e.org = "personal"
                                    ELSE e.account = q.account}
             seats  == {q.seat} \cup {s.seat : s \in {x \in Seats : x.parent = q.seat}}
             recent == PersonalRecent(p, Cardinality(Events))
             detail == PersonalUsageDetail("postgres", p, Cardinality(Events))
  <2>1. p.seat = q.seat /\ p.account = q.account /\ p.org = q.org /\ p.all = FALSE
    BY PersonalFields DEF LocalAllScope
  <2> HIDE DEF p
  <2>2. ods \subseteq Events /\ dwd \subseteq Events
    BY <1>1 DEF Stored
  <2>3. \A r \in Events : Mine(p, r) => r \in own
    BY <2>1 DEF Mine
  <2>4. MyFacts("postgres", p) \subseteq own
    BY <2>2, <2>3 DEF MyFacts
  <2>5. recent \subseteq own /\ \A r \in recent : r.route # "canary"
    BY <2>2, <2>3 DEF PersonalRecent, Newest, Slice
  <2>6. detail \subseteq MyFacts("postgres", p) /\ \A r \in detail : r.route # "canary"
    BY DEF PersonalUsageDetail, Newest, Slice
  <2>7. \A r \in LatestAgentRoutes(p) :
            /\ r.route # "canary"
            /\ \E s \in Seats : s.seat = r.seat /\ p.seat \in {s.seat, s.parent}
    BY DEF LatestAgentRoutes, SeatOf
  <2>8. DOMAIN AgentRows(p) \subseteq seats
    <3> SUFFICES ASSUME NEW k \in DOMAIN AgentRows(p) PROVE k \in seats
      OBVIOUS
    <3>1. \/ k \in DOMAIN PersonalByAgentTotal(p)
          \/ \E o \in LatestAgentRoutes(p) : k = o.seat
      BY DEF AgentRows
    <3>2. CASE k \in DOMAIN PersonalByAgentTotal(p)
      <4>1. p.seat # None
        BY <3>2 DEF PersonalByAgentTotal
      <4>2. k \in {r.seat : r \in AgentFacts(p)}
        BY <3>2, <4>1 DEF PersonalByAgentTotal, Grouped
      <4>3. PICK r \in dwd : /\ k = r.seat
                             /\ r.seat = p.seat \/ \E s \in SeatOf(r) : s.parent = p.seat
        BY <4>2 DEF AgentFacts
      <4> QED
        BY <2>1, <4>3 DEF SeatOf
    <3>3. CASE \E o \in LatestAgentRoutes(p) : k = o.seat
      BY <2>1, <2>7, <3>3
    <3> QED
      BY <3>1, <3>2, <3>3
  <2>9. /\ (recent \cup detail) \subseteq own
        /\ \A r \in (recent \cup detail) \cup LatestAgentRoutes(p) : r.route # "canary"
    <3> HIDE DEF own, recent, detail
    <3> QED
      BY <2>4, <2>5, <2>6, <2>7
  <2> QED
    BY <2>4, <2>8, <2>9 DEF p
<1> QED
  BY <1>1, StoredInvariant, PTL

-----------------------------------------------------------------------------
(* The pages of the audit table.  A row that matched when the table was    *)
(* opened and has not been shown stands, among the rows that match now,    *)
(* behind the page shown last: rows that arrive can only push it further.  *)

Matching(D, p) == {r \in D : MasterAuditWhere(p, r)}

Place(D, p, r) == Rank(Order(p), Matching(D, p), r)

PagesOf(D, p, offset, matched, shown, more) ==
  /\ p.limit \in Nat \ {0} /\ offset \in Nat
  /\ shown \subseteq Matching(D, p) /\ matched \subseteq Matching(D, p)
  /\ \A r \in matched \ shown : Place(D, p, r) >= offset + p.limit
  /\ ~more => matched \subseteq shown

OpenAt(q, p, offset, matched, shown, more, moved) ==
  [open |-> TRUE, request |-> q, table |-> p, offset |-> offset,
   matched |-> matched, shown |-> shown, more |-> more, moved |-> moved]

DatesNamed(q) == ParseDate(q.start) # None /\ ParseDate(q.end) # None

\* The table is that of its request at some instant; nothing is said of what it
\* has shown once it has moved.
OpenTable(D, q, p, offset, matched, shown, more, moved) ==
  /\ q \in AuditPages /\ \E now : p = AuditParams(q, now)
  /\ moved => ~DatesNamed(q)
  /\ ~moved => PagesOf(D, p, offset, matched, shown, more)

Paging ==
  \/ reader = NoTable
  \/ \E q, p, offset, matched, shown, more : \E moved \in BOOLEAN :
        /\ reader = OpenAt(q, p, offset, matched, shown, more, moved)
        /\ OpenTable(dwd, q, p, offset, matched, shown, more, moved)

\* The dates a request names do not depend on when it is served.
LEMMA SameTable ==
  ASSUME NEW q, DatesNamed(q), NEW a, NEW b
  PROVE  AuditParams(q, a) = AuditParams(q, b)
<1>1. q.start # None /\ q.end # None
  BY DEF DatesNamed, ParseDate
<1>2. /\ DetailDates(q, a) = [start |-> ParseDate(q.start), end |-> ParseDate(q.end)]
      /\ DetailDates(q, b) = [start |-> ParseDate(q.start), end |-> ParseDate(q.end)]
  BY <1>1 DEF DetailDates, Defaults, DatesNamed
<1> QED
  BY <1>2 DEF AuditParams

LEMMA Matched ==
  ASSUME NEW D \in SUBSET Events, IsFiniteSet(D), NEW p
  PROVE  /\ Matching(D, p) \in SUBSET Events /\ IsFiniteSet(Matching(D, p))
         /\ LinearOn(Order(p), Matching(D, p))
         /\ \A r \in Matching(D, p) : Place(D, p, r) \in Nat
<1>1. Matching(D, p) \subseteq D
  BY DEF Matching
<1>2. Matching(D, p) \in SUBSET Events /\ IsFiniteSet(Matching(D, p))
  BY <1>1, FS_Subset
<1>3. LinearOn(Order(p), Matching(D, p))
  BY <1>2, ListedLinear
<1> QED
  BY <1>2, <1>3, RankFacts DEF Place

LEMMA PageByPlace ==
  ASSUME dwd \subseteq Events, NEW p, NEW offset
  PROVE  /\ Audited(p) = Matching(dwd, p)
         /\ MasterUsageDetail(p, offset)
              = {r \in Matching(dwd, p) : Place(dwd, p, r) \in offset .. offset + p.limit - 1}
<1>1. Audited(p) = Matching(dwd, p)
  BY DEF Audited, Matching
<1>2. \A r \in Matching(dwd, p) :
         {x \in Matching(dwd, p) : Listed(p, x, r)} = Below(Order(p), Matching(dwd, p), r)
  <2>1. Matching(dwd, p) \subseteq Events
    BY DEF Matching
  <2> QED
    BY <2>1 DEF Below, Order
<1>3. MasterUsageDetail(p, offset)
        = {r \in Matching(dwd, p) :
             Cardinality({x \in Matching(dwd, p) : Listed(p, x, r)})
                 \in offset .. offset + p.limit - 1}
  BY <1>1 DEF MasterUsageDetail, Slice
<1> QED
  BY <1>1, <1>2, <1>3 DEF Place, Rank

\* The page at an offset leaves what stands behind it, and is full then.
LEMMA PageShown ==
  ASSUME NEW D \in SUBSET Events, IsFiniteSet(D), NEW p, p.limit \in Nat \ {0},
         NEW offset \in Nat, NEW matched \in SUBSET Matching(D, p),
         NEW shown \in SUBSET Matching(D, p),
         \A r \in matched \ shown : Place(D, p, r) >= offset
  PROVE  LET page == {r \in Matching(D, p) : Place(D, p, r) \in offset .. offset + p.limit - 1}
         IN  PagesOf(D, p, offset, matched, shown \cup page, Cardinality(page) = p.limit)
<1> DEFINE M == Matching(D, p)
           page == {r \in M : Place(D, p, r) \in offset .. offset + p.limit - 1}
<1>1. /\ IsFiniteSet(M) /\ LinearOn(Order(p), M)
      /\ \A r \in M : Place(D, p, r) \in Nat
  BY Matched
<1>2. ASSUME NEW r \in matched \ (shown \cup page) PROVE Place(D, p, r) >= offset + p.limit
  <2>1. r \in M /\ r \notin page /\ Place(D, p, r) >= offset
    OBVIOUS
  <2> QED
    BY <1>1, <2>1
<1>3. ASSUME NEW r \in matched \ (shown \cup page) PROVE Cardinality(page) = p.limit
  <2>1. Rank(Order(p), M, r) >= offset + p.limit /\ r \in M
    BY <1>2, <1>3 DEF Place
  <2>2. Cardinality({x \in M : Rank(Order(p), M, x) \in offset .. offset + p.limit - 1}) = p.limit
    <3> HIDE DEF M
    <3> QED
      BY <1>1, <2>1, SliceFull
  <2> QED
    BY <2>2 DEF Place
<1>4. page \subseteq M
  OBVIOUS
<1> HIDE DEF page
<1>5. PagesOf(D, p, offset, matched, shown \cup page, Cardinality(page) = p.limit)
  BY <1>2, <1>3, <1>4 DEF PagesOf
<1> QED
  BY <1>5 DEF page

\* What is projected meanwhile pushes rows back and never forward.
LEMMA PushedBack ==
  ASSUME NEW D, NEW E, D \subseteq E, E \subseteq Events, IsFiniteSet(E),
         NEW p, NEW offset, NEW matched, NEW shown, NEW more,
         PagesOf(D, p, offset, matched, shown, more)
  PROVE  PagesOf(E, p, offset, matched, shown, more)
<1>1. Matching(D, p) \subseteq Matching(E, p)
  BY DEF Matching
<1>2. ASSUME NEW r \in matched \ shown PROVE Place(E, p, r) >= offset + p.limit
  <2>1. r \in Matching(D, p) /\ Place(D, p, r) >= offset + p.limit
        /\ offset \in Nat /\ p.limit \in Nat
    BY DEF PagesOf
  <2>2. IsFiniteSet(Matching(E, p))
    BY Matched
  <2>3. /\ Below(Order(p), Matching(D, p), r) \subseteq Below(Order(p), Matching(E, p), r)
        /\ Below(Order(p), Matching(E, p), r) \subseteq Matching(E, p)
    BY <1>1 DEF Below
  <2>4. IsFiniteSet(Below(Order(p), Matching(E, p), r))
    BY <2>2, <2>3, FS_Subset
  <2>5. IsFiniteSet(Below(Order(p), Matching(D, p), r)) /\ Place(D, p, r) <= Place(E, p, r)
    BY <2>3, <2>4, FS_Subset DEF Place, Rank
  <2>6. Place(D, p, r) \in Nat /\ Place(E, p, r) \in Nat
    BY <2>4, <2>5, FS_CardinalityType DEF Place, Rank
  <2> QED
    BY <2>1, <2>5, <2>6
<1> QED
  BY <1>1, <1>2 DEF PagesOf

LEMMA PagingInvariant == Spec => []Paging
<1>1. Init => Paging
  BY DEF Init, Paging
<1>2. Stored /\ Paging /\ [Next]_vars /\ Stored' => Paging'
  <2> SUFFICES ASSUME Stored, Paging, [Next]_vars, Stored' PROVE Paging'
    OBVIOUS
  <2>1. /\ dwd \subseteq Events /\ IsFiniteSet(dwd)
        /\ dwd' \subseteq Events /\ IsFiniteSet(dwd')
    BY FS_Subset DEF Stored
  <2>2. ASSUME dwd \subseteq dwd', UNCHANGED reader PROVE Paging'
    <3>1. CASE reader = NoTable
      BY <2>2, <3>1 DEF Paging
    <3>2. CASE reader # NoTable
      <4>1. PICK q, p, offset, matched, shown, more : \E moved \in BOOLEAN :
               /\ reader = OpenAt(q, p, offset, matched, shown, more, moved)
               /\ OpenTable(dwd, q, p, offset, matched, shown, more, moved)
        BY <3>2 DEF Paging
      <4>2. PICK moved \in BOOLEAN :
               /\ reader = OpenAt(q, p, offset, matched, shown, more, moved)
               /\ OpenTable(dwd, q, p, offset, matched, shown, more, moved)
        BY <4>1
      <4>3. ASSUME ~moved PROVE PagesOf(dwd', p, offset, matched, shown, more)
        <5>1. PagesOf(dwd, p, offset, matched, shown, more)
          BY <4>2, <4>3 DEF OpenTable
        <5> QED
          BY <2>1, <2>2, <5>1, PushedBack
      <4>4. OpenTable(dwd', q, p, offset, matched, shown, more, moved)
        BY <4>2, <4>3 DEF OpenTable
      <4> QED
        BY <2>2, <4>2, <4>4 DEF Paging
    <3> QED
      BY <3>1, <3>2
  <2>3. ASSUME NEW e \in Events, Ingest(e) \/ Project(e) PROVE Paging'
    BY <2>2, <2>3 DEF Ingest, Project
  <2>4. ASSUME Tick PROVE Paging'
    BY <2>2, <2>4 DEF Tick
  <2>5. ASSUME NEW q \in AuditPages, OpenAudit(q) PROVE Paging'
    <3> DEFINE p == AuditParams(q, clock)
               page == {r \in Matching(dwd, p) : Place(dwd, p, r) \in 0 .. 0 + p.limit - 1}
    <3>1. p.limit \in Nat \ {0}
      BY AuditFields, LimitAssumption
    <3>2. Audited(p) = Matching(dwd, p) /\ MasterUsageDetail(p, 0) = page
      BY <2>1, PageByPlace
    <3>3. reader' = OpenAt(q, p, 0, Matching(dwd, p), {} \cup page,
                           Cardinality(page) = p.limit, FALSE)
      BY <2>5, <3>2 DEF OpenAudit, OpenAt
    <3>4. \E now : p = AuditParams(q, now)
      OBVIOUS
    <3> HIDE DEF p
    <3>5. PagesOf(dwd, p, 0, Matching(dwd, p), {} \cup page, Cardinality(page) = p.limit)
      <4>1. \A r \in Matching(dwd, p) : Place(dwd, p, r) >= 0
        BY <2>1, Matched
      <4> QED
        BY <2>1, <3>1, <4>1, PageShown
    <3> HIDE DEF page
    <3>6. dwd' = dwd
      BY <2>5 DEF OpenAudit
    <3>7. OpenTable(dwd', q, p, 0, Matching(dwd, p), {} \cup page,
                    Cardinality(page) = p.limit, FALSE)
      BY <3>5, <3>6, <3>4 DEF OpenTable
    <3> QED
      BY <3>3, <3>7 DEF Paging
  <2>6. ASSUME NextPage PROVE Paging'
    <3>1. PICK q, p, o, matched, shown, more : \E moved \in BOOLEAN :
             /\ reader = OpenAt(q, p, o, matched, shown, more, moved)
             /\ OpenTable(dwd, q, p, o, matched, shown, more, moved)
      BY <2>6 DEF Paging, NextPage, NoTable
    <3>2. PICK moved \in BOOLEAN :
             /\ reader = OpenAt(q, p, o, matched, shown, more, moved)
             /\ OpenTable(dwd, q, p, o, matched, shown, more, moved)
      BY <3>1
    <3> DEFINE n == AuditParams(q, clock)
               offset == o + n.limit
               page == MasterUsageDetail(n, offset)
               slid == moved \/ n # p
               full == Cardinality(page) = n.limit
    <3>3. reader' = OpenAt(q, n, offset, matched, shown \cup page, full, slid)
      <4>1. /\ reader.request = q /\ reader.table = p /\ reader.offset = o
            /\ reader.shown = shown /\ reader.moved = moved
        BY <3>2 DEF OpenAt
      <4>2. reader' = [reader EXCEPT !.table = n, !.offset = offset, !.shown = shown \cup page,
                                     !.more = full, !.moved = slid]
        BY <2>6, <4>1, Zenon DEF NextPage
      <4> HIDE DEF n, offset, page, slid, full
      <4> QED
        BY <3>2, <4>2 DEF OpenAt
    <3>4. slid => ~DatesNamed(q)
      <4>1. PICK t : p = AuditParams(q, t)
        BY <3>2 DEF OpenTable
      <4>2. DatesNamed(q) => n = p
        BY <4>1, SameTable
      <4> QED
        BY <3>2, <4>2 DEF OpenTable
    <3>5. ASSUME ~slid PROVE PagesOf(dwd, n, offset, matched, shown \cup page, full)
      <4>1. n = p /\ PagesOf(dwd, p, o, matched, shown, more)
        BY <3>2, <3>5 DEF OpenTable
      <4>2. page = {r \in Matching(dwd, n) :
                      Place(dwd, n, r) \in offset .. offset + n.limit - 1}
        BY <2>1, PageByPlace
      <4> HIDE DEF n
      <4>3. /\ n.limit \in Nat \ {0} /\ offset \in Nat
            /\ matched \in SUBSET Matching(dwd, n) /\ shown \in SUBSET Matching(dwd, n)
            /\ \A r \in matched \ shown : Place(dwd, n, r) >= offset
        BY <4>1 DEF PagesOf
      <4> HIDE DEF offset, page
      <4>4. PagesOf(dwd, n, offset, matched, shown \cup page, Cardinality(page) = n.limit)
        BY <2>1, <4>2, <4>3, PageShown
      <4> QED
        BY <4>4
    <3>6. \E now : n = AuditParams(q, now)
      OBVIOUS
    <3>7. dwd' = dwd /\ q \in AuditPages /\ slid \in BOOLEAN
      BY <2>6, <3>2 DEF NextPage, OpenTable
    <3> HIDE DEF n, page, offset, full, slid
    <3>8. OpenTable(dwd', q, n, offset, matched, shown \cup page, full, slid)
      BY <3>4, <3>5, <3>6, <3>7 DEF OpenTable
    <3> QED
      BY <3>3, <3>7, <3>8 DEF Paging
  <2>7. ASSUME CloseAudit PROVE Paging'
    BY <2>7 DEF CloseAudit, Paging
  <2>8. ASSUME UNCHANGED vars PROVE Paging'
    BY <2>2, <2>8 DEF vars
  <2> QED
    BY <2>3, <2>5, <2>6, <2>7, <2>8, <2>4 DEF Next
<1> QED
  BY <1>1, <1>2, StoredInvariant, PTL DEF Spec

\* However many events, whatever the size of a page, the sort column and the rows
\* that tie on it: an auditor who turns the pages until one is not full has been
\* shown every row that matched when the table was opened, and none the export
\* would leave out, though the projector goes on writing and the clock runs, unless
\* the dates of the table moved between two pages; and the dates a request names
\* never do (repository_sql.go:1322, handlers.go:624).
THEOREM PagesComplete == Spec => []PagesLoseNothing
<1>1. ASSUME Stored, Paging PROVE PagesLoseNothing
  <2> SUFFICES ASSUME reader.open
               PROVE  /\ ~reader.moved => PagesKept
                      /\ reader.moved => ~DatesNamed(reader.request)
    BY DEF PagesLoseNothing, DatesNamed
  <2>1. PICK q, p, offset, matched, shown, more : \E moved \in BOOLEAN :
           /\ reader = OpenAt(q, p, offset, matched, shown, more, moved)
           /\ OpenTable(dwd, q, p, offset, matched, shown, more, moved)
    BY <1>1 DEF Paging, NoTable
  <2>2. PICK moved \in BOOLEAN :
           /\ reader = OpenAt(q, p, offset, matched, shown, more, moved)
           /\ OpenTable(dwd, q, p, offset, matched, shown, more, moved)
    BY <2>1
  <2>3. /\ reader.request = q /\ reader.table = p /\ reader.shown = shown
        /\ reader.matched = matched /\ reader.more = more /\ reader.moved = moved
    BY <2>2 DEF OpenAt
  <2>4. ASSUME ~moved PROVE PagesKept
    <3>1. PagesOf(dwd, p, offset, matched, shown, more)
      BY <2>2, <2>4 DEF OpenTable
    <3>2. Audited(p) = Matching(dwd, p) /\ shown \subseteq Audited(p)
      BY <3>1 DEF PagesOf, Audited, Matching
    <3>3. Cardinality(shown) <= Cardinality(Audited(p))
      BY <1>1, <3>2, FactsFinite, FS_Subset
    <3> QED
      BY <2>3, <3>1, <3>2, <3>3
      DEF PagesKept, PagesOf, StreamMasterUsageExport, MasterUsageDetailTotal
  <2> QED
    BY <2>2, <2>3, <2>4 DEF OpenTable
<1> QED
  BY <1>1, StoredInvariant, PagingInvariant, PTL

-----------------------------------------------------------------------------
(* Days and hours.                                                         *)

LEMMA LesserOfIntegers ==
  ASSUME NEW a \in Int, NEW b \in Int
  PROVE  Min({a, b}) \in {a, b} /\ Min({a, b}) <= a /\ Min({a, b}) <= b
<1>1. \E x \in {a, b} : \A y \in {a, b} : x <= y
  OBVIOUS
<1> QED
  BY <1>1 DEF Min

\* q days begin where the quotient's day does
LEMMA DayOf ==
  ASSUME NEW t \in Int, NEW d \in Nat \ {0}, NEW s \in Int, NEW e \in Int,
         s * d <= t, t < (e + 1) * d
  PROVE  t \div d \in s .. e
  OBVIOUS

LEMMA DaysInOrder ==
  ASSUME NEW t \in Int, NEW u \in Int, NEW d \in Nat \ {0}, t <= u
  PROVE  t \div d \in Int /\ u \div d \in Int /\ t \div d <= u \div d
  OBVIOUS

LEMMA NextDay ==
  ASSUME NEW s \in Int, NEW e \in Int, NEW d \in Nat \ {0}
  PROVE  /\ s * d \in Int /\ (e + 1) * d = e * d + d
         /\ s <= e => s * d <= e * d
         /\ e < s => (e + 1) * d <= s * d
<1>1. s <= e => s * d <= e * d
  OBVIOUS
<1>2. e < s => (e + 1) * d <= s * d
  OBVIOUS
<1> QED
  BY <1>1, <1>2

\* A zone: its clocks are less than a day off UTC and are never put forward by a
\* whole day or more.
Ordinary(z) ==
  /\ {z.before, z.after} \subseteq 1 - DayHours .. DayHours - 1
  /\ z.at \in Int
  /\ z.after - z.before < DayHours

LEMMA MidnightsInOrder ==
  ASSUME NEW z, Ordinary(z), NEW s \in Int, NEW e \in Int
  PROVE  /\ Midnight(z, s) \in Int
         /\ s <= e => Midnight(z, s) <= Midnight(z, e)
<1> DEFINE S == s * DayHours
           E == e * DayHours
<1>1. /\ z.before \in Int /\ z.after \in Int /\ z.at \in Int
      /\ z.after - z.before < DayHours /\ DayHours \in Nat \ {0}
  BY CalendarAssumption DEF Ordinary
<1>2. /\ S \in Int /\ E \in Int
      /\ s < e => S + DayHours <= E
      /\ s = e => S = E
  <2>1. s < e => (s + 1) * DayHours <= e * DayHours
    BY <1>1, NextDay
  <2>2. (s + 1) * DayHours = s * DayHours + DayHours /\ S \in Int /\ E \in Int
    BY <1>1, NextDay
  <2> QED
    BY <2>1, <2>2
<1>3. /\ Midnight(z, s) = IF S - z.before < z.at THEN S - z.before ELSE S - z.after
      /\ Midnight(z, e) = IF E - z.before < z.at THEN E - z.before ELSE E - z.after
  BY DEF Midnight
<1> HIDE DEF S, E
<1> QED
  BY <1>1, <1>2, <1>3

\* A window in which the clocks do not change, from the anchor on: the anchor's
\* offset is that of every instant in it, and puts it on one of the window's dates.
LEMMA OneOffset ==
  ASSUME NEW z, Ordinary(z), NEW s \in Int, NEW e \in Int, NEW t \in Int,
         NEW first, first = Min({s * DayHours, Midnight(z, s)}),
         Midnight(z, s) <= t, t < Midnight(z, e + 1),
         \A u \in first .. Midnight(z, e + 1) - 1 : Offset(z, u) = Offset(z, first)
  PROVE  /\ Offset(z, s * DayHours) = Offset(z, t)
         /\ (t + Offset(z, t)) \div DayHours \in s .. e
<1> DEFINE S == s * DayHours
           N == (e + 1) * DayHours
           from == Midnight(z, s)
           to == Midnight(z, e + 1)
<1>1. /\ z.before \in 1 - DayHours .. DayHours - 1 /\ z.after \in 1 - DayHours .. DayHours - 1
      /\ z.at \in Int /\ z.after - z.before < DayHours /\ DayHours \in Nat \ {0}
  BY CalendarAssumption DEF Ordinary
<1>2. S \in Int /\ N \in Int /\ e + 1 \in Int
  BY <1>1, NextDay
<1>3. /\ from = IF S - z.before < z.at THEN S - z.before ELSE S - z.after
      /\ to = IF N - z.before < z.at THEN N - z.before ELSE N - z.after
      /\ from \in Int /\ to \in Int
  BY <1>2, MidnightsInOrder DEF Midnight
<1>4. first \in {S, from} /\ first <= S /\ first <= from
  BY <1>2, <1>3, LesserOfIntegers
<1>5. s <= e
  <2>1. e + 1 <= s => to <= from
    BY <1>2, MidnightsInOrder
  <2>2. from <= t /\ t < to
    OBVIOUS
  <2>3. from \in Int /\ to \in Int
    BY <1>3
  <2> HIDE DEF from, to
  <2> QED
    BY <2>1, <2>2, <2>3
<1>6. S + DayHours <= N
  BY <1>1, <1>5, NextDay
<1>7. from <= t /\ t < to
  OBVIOUS
<1>8. /\ Offset(z, t) = IF t < z.at THEN z.before ELSE z.after
      /\ Offset(z, from) = IF from < z.at THEN z.before ELSE z.after
      /\ Offset(z, S) = IF S < z.at THEN z.before ELSE z.after
      /\ Offset(z, to - 1) = IF to - 1 < z.at THEN z.before ELSE z.after
  BY DEF Offset
<1>9. \A u \in Int : first <= u /\ u < to => Offset(z, u) = Offset(z, first)
  <2>1. \A u \in first .. to - 1 : Offset(z, u) = Offset(z, first)
    OBVIOUS
  <2>2. to \in Int /\ first \in Int
    BY <1>2, <1>3, <1>4
  <2> HIDE DEF to
  <2> QED
    BY <2>1, <2>2
<1> HIDE DEF S, N, from, to
<1>10. /\ Offset(z, t) = Offset(z, first) /\ Offset(z, from) = Offset(z, first)
       /\ Offset(z, to - 1) = Offset(z, first)
  <2>1. /\ first <= t /\ first <= from /\ from < to /\ first <= to - 1 /\ to - 1 < to
        /\ to - 1 \in Int
    BY <1>2, <1>3, <1>4, <1>7
  <2> QED
    BY <1>3, <1>7, <1>9, <2>1
<1>11. S < to
  BY <1>1, <1>2, <1>3, <1>6
<1>12. Offset(z, S) = Offset(z, t)
  BY <1>2, <1>4, <1>9, <1>10, <1>11
<1>13. S <= t + Offset(z, t)
  BY <1>1, <1>2, <1>3, <1>6, <1>7, <1>8, <1>10
<1>14. t + Offset(z, t) < N /\ t + Offset(z, t) \in Int
  BY <1>1, <1>2, <1>3, <1>6, <1>7, <1>8, <1>10
<1>15. (t + Offset(z, t)) \div DayHours \in s .. e
  BY <1>1, <1>13, <1>14, DayOf DEF S, N
<1> QED
  BY <1>12, <1>15 DEF S

-----------------------------------------------------------------------------
(* The two dialects.                                                       *)

LEMMA PersonalWindow ==
  ASSUME NEW q \in Requests
  PROVE  LET p == PersonalParams(q)
         IN  /\ p.start \in Int /\ p.end \in Int
             /\ p.zone = IF q.tz = NoZone THEN UTC ELSE q.tz
             /\ {p.zone.before, p.zone.after} \subseteq 1 - DayHours .. DayHours - 1
             /\ p.zone.at \in Int
             /\ ParseDate(q.start) # None => p.offset = Offset(p.zone, p.start * DayHours)
<1> DEFINE p == PersonalParams(q)
           d == Defaults(q, Now)
           zone == IF q.tz = NoZone THEN UTC ELSE q.tz
           last == IF ParseDate(q.end) = None THEN LocalDate(zone, Now) ELSE ParseDate(q.end)
<1>1. {zone.before, zone.after} \subseteq 1 - DayHours .. DayHours - 1 /\ zone.at \in Int
  <2>1. CASE q.tz = NoZone
    BY <2>1, CalendarAssumption DEF UTC
  <2>2. CASE q.tz # NoZone
    BY <2>2, RequestAssumption
  <2> QED
    BY <2>1, <2>2
<1>2. /\ ParseDate(q.start) # None => ParseDate(q.start) \in Int
      /\ ParseDate(q.end) # None => ParseDate(q.end) \in Int
  BY RequestAssumption DEF ParseDate
<1>3. LocalDate(zone, Now) \in Int
  <2>1. Now \in Int /\ DayHours \in Nat \ {0} /\ Offset(zone, Now) \in Int
    BY <1>1, CalendarAssumption DEF Offset
  <2>2. Now + Offset(zone, Now) \in Int
    BY <2>1
  <2> HIDE DEF zone
  <2> QED
    BY <2>1, <2>2, DaysInOrder DEF LocalDate
<1>4. last \in Int
  BY <1>2, <1>3
<1>5. /\ p.zone = zone /\ p.end = last
      /\ p.start = IF ParseDate(q.start) = None THEN last - DefaultDays ELSE ParseDate(q.start)
      /\ p.offset = IF zone = UTC THEN 0 ELSE Offset(zone, Anchor(ParseDate(q.start), Now))
  BY DEF PersonalParams, Defaults
<1>6. ParseDate(q.start) # None =>
         Offset(zone, Anchor(ParseDate(q.start), Now)) = Offset(p.zone, p.start * DayHours)
  BY <1>5 DEF Anchor
<1>7. \A t : Offset(UTC, t) = 0
  BY DEF Offset, UTC
<1> HIDE DEF zone, last, p
<1>8. p.start \in Int /\ p.end \in Int
  BY <1>2, <1>4, <1>5, CalendarAssumption
<1>9. ParseDate(q.start) # None => p.offset = Offset(p.zone, p.start * DayHours)
  BY <1>5, <1>6, <1>7
<1> QED
  BY <1>1, <1>5, <1>8, <1>9 DEF p, zone

\* The range of partitions of the PostgreSQL queries drops no row of the window.
LEMMA NothingPruned ==
  ASSUME Stored, NEW q \in Requests
  PROVE  MyFacts("postgres", PersonalParams(q)) = MyFacts("sqlite", PersonalParams(q))
<1> DEFINE p == PersonalParams(q)
<1>1. /\ p.start \in Int /\ p.end + 1 \in Int
      /\ {p.zone.before, p.zone.after} \subseteq Int
  BY PersonalWindow
<1> HIDE DEF p
<1>2. Window(p).from \in Int /\ Window(p).to \in Int
  <2>1. DayHours \in Nat \ {0}
    BY CalendarAssumption
  <2>2. p.start * DayHours \in Int /\ (p.end + 1) * DayHours \in Int
    BY <1>1, <2>1
  <2> QED
    BY <1>1, <2>2 DEF Window, Midnight
<1>3. ASSUME NEW r \in dwd, InWindow(p, r.time) PROVE Pruned("postgres", p, r)
  <2>1. r.time \in Int /\ DayHours \in Nat \ {0}
    BY EventAssumption, CalendarAssumption DEF Stored
  <2>2. Window(p).from <= r.time /\ r.time <= Window(p).to
    BY <1>2, <1>3, <2>1 DEF InWindow
  <2>3. /\ UTCDate(Window(p).from) \in Int /\ UTCDate(Window(p).to) \in Int
        /\ UTCDate(r.time) \in Int
        /\ UTCDate(Window(p).from) <= UTCDate(r.time)
        /\ UTCDate(r.time) <= UTCDate(Window(p).to)
    BY <1>2, <2>1, <2>2, DaysInOrder DEF UTCDate
  <2> QED
    BY <2>3 DEF Pruned
<1>4. MyFacts("postgres", p) = MyFacts("sqlite", p)
  BY <1>3 DEF MyFacts, Pruned
<1> QED
  BY <1>4 DEF p

\* In a window that names its start and in which the clocks do not change every row
\* has the offset of the request, and one of the window's dates.
LEMMA RowsInWindow ==
  ASSUME Stored, NEW q \in Requests, Ordinary(PersonalParams(q).zone),
         ParseDate(q.start) # None, Steady(PersonalParams(q)),
         NEW r \in MyFacts("sqlite", PersonalParams(q))
  PROVE  LET p == PersonalParams(q)
         IN  /\ Offset(p.zone, r.time) = p.offset
             /\ LocalDate(p.zone, r.time) \in p.start .. p.end
<1> DEFINE p == PersonalParams(q)
           first == Min({p.start * DayHours, Midnight(p.zone, p.start)})
<1>1. /\ p.start \in Int /\ p.end \in Int
      /\ p.offset = Offset(p.zone, p.start * DayHours)
  BY PersonalWindow
<1> HIDE DEF p
<1>2. Ordinary(p.zone)
  BY DEF p
<1>3. \A u \in first .. Midnight(p.zone, p.end + 1) - 1 : Offset(p.zone, u) = Offset(p.zone, first)
  <2>1. Steady(p)
    BY DEF p
  <2> QED
    BY <2>1 DEF Steady, Window
<1>4. r.time \in Int /\ Midnight(p.zone, p.start) <= r.time /\ r.time < Midnight(p.zone, p.end + 1)
  <2>1. r \in dwd /\ InWindow(p, r.time)
    BY DEF MyFacts, p
  <2> QED
    BY <2>1, EventAssumption DEF InWindow, Window, Stored
<1> HIDE DEF first
<1>5. /\ Offset(p.zone, p.start * DayHours) = Offset(p.zone, r.time)
      /\ (r.time + Offset(p.zone, r.time)) \div DayHours \in p.start .. p.end
  BY <1>1, <1>2, <1>3, <1>4, OneOffset DEF first
<1> QED
  BY <1>1, <1>5 DEF LocalDate, p

\* The zones of the requests never skip a whole calendar date.
NoDateSkipped ==
  \A q \in Requests : q.tz # NoZone => q.tz.after - q.tz.before < DayHours

LEMMA OrdinaryZones ==
  ASSUME NoDateSkipped, NEW q \in Requests
  PROVE  Ordinary(PersonalParams(q).zone)
<1>1. CASE q.tz = NoZone
  <2>1. PersonalParams(q).zone = UTC
    BY <1>1, PersonalWindow
  <2> QED
    BY <2>1, CalendarAssumption DEF UTC, Ordinary
<1>2. CASE q.tz # NoZone
  <2>1. PersonalParams(q).zone = q.tz
    BY <1>2, PersonalWindow
  <2> QED
    BY <1>2, <2>1, RequestAssumption DEF NoDateSkipped, Ordinary
<1> QED
  BY <1>1, <1>2

\* Whatever a request asks, the two dialects count the same rows; and if it names
\* its start and the clocks do not change in its window they put every row on the
\* same date, one of the window's, and in the same hour, unless its zone skips a
\* whole date (repository_sql.go:59, domain.go:556).
THEOREM SameInBothDialects ==
  ASSUME NoDateSkipped
  PROVE  Spec => []DialectsAgree
<1>1. ASSUME Stored PROVE DialectsAgree
  <2>1. ASSUME NEW q \in Requests
        PROVE  LET p == PersonalParams(q)
               IN  StatFacts("postgres", p) = StatFacts("sqlite", p)
    BY <1>1, NothingPruned DEF StatFacts
  <2>2. ASSUME NEW p \in Asked
        PROVE  PersonalByProtocolTotal("postgres", p) = PersonalByProtocolTotal("sqlite", p)
    BY <2>1 DEF PersonalByProtocolTotal, Asked
  <2>3. ASSUME NEW q \in Requests, ParseDate(q.start) # None, Steady(PersonalParams(q))
        PROVE  LET p == PersonalParams(q)
               IN  /\ PersonalTimeline("sqlite", p) = PersonalTimeline("postgres", p)
                   /\ DOMAIN PersonalTimeline("sqlite", p) \subseteq p.start .. p.end
                   /\ PersonalHourlyTimeline("sqlite", p) = PersonalHourlyTimeline("postgres", p)
    <3> DEFINE p == PersonalParams(q)
               S == OfApp(p, StatFacts("sqlite", p))
    <3>1. OfApp(p, StatFacts("postgres", p)) = S
      BY <2>1
    <3>2. ASSUME NEW r \in S
          PROVE  Offset(p.zone, r.time) = p.offset /\ LocalDate(p.zone, r.time) \in p.start .. p.end
      <4>1. Ordinary(PersonalParams(q).zone)
        BY OrdinaryZones
      <4>2. r \in MyFacts("sqlite", p)
        BY DEF OfApp, StatFacts
      <4> QED
        BY <1>1, <2>3, <4>1, <4>2, RowsInWindow
    <3> HIDE DEF p, S
    <3>3. ASSUME NEW r \in S
          PROVE  /\ DateOfLocal("sqlite", p, r.time) = DateOfLocal("postgres", p, r.time)
                 /\ HourBucketLocal("sqlite", p, r.time) = HourBucketLocal("postgres", p, r.time)
                 /\ DateOfLocal("sqlite", p, r.time) \in p.start .. p.end
      BY <3>2 DEF DateOfLocal, HourBucketLocal, LocalDate
    <3>4. PersonalTimeline("sqlite", p) = PersonalTimeline("postgres", p)
      <4> DEFINE day(dialect, r) == DateOfLocal(dialect, p, r.time)
      <4>1. \A dialect \in Dialects : PersonalTimeline(dialect, p) =
               [k \in {day(dialect, r) : r \in S} |-> Totals({r \in S : day(dialect, r) = k})]
        BY <3>1 DEF PersonalTimeline, Grouped, S, Dialects
      <4>2. \A r \in S : day("sqlite", r) = day("postgres", r)
        BY <3>3
      <4> HIDE DEF day
      <4>3. {day("sqlite", r) : r \in S} = {day("postgres", r) : r \in S}
        BY <4>2
      <4>4. \A k : {r \in S : day("sqlite", r) = k} = {r \in S : day("postgres", r) = k}
        BY <4>2
      <4> QED
        BY <4>1, <4>3, <4>4 DEF Dialects
    <3>5. DOMAIN PersonalTimeline("sqlite", p) \subseteq p.start .. p.end
      <4>1. DOMAIN PersonalTimeline("sqlite", p) = {DateOfLocal("sqlite", p, r.time) : r \in S}
        BY DEF PersonalTimeline, Grouped, S
      <4> QED
        BY <3>3, <4>1
    <3>6. PersonalHourlyTimeline("sqlite", p) = PersonalHourlyTimeline("postgres", p)
      <4> DEFINE slot(dialect, r) ==
                   [hour     |-> HourBucketLocal(dialect, p, r.time),
                    provider |-> IF p.byProvider THEN r.provider ELSE None]
      <4>1. \A dialect \in Dialects : PersonalHourlyTimeline(dialect, p) =
               [k \in {slot(dialect, r) : r \in S} |-> Totals({r \in S : slot(dialect, r) = k})]
        BY <3>1 DEF PersonalHourlyTimeline, Grouped, S, Dialects
      <4>2. \A r \in S : slot("sqlite", r) = slot("postgres", r)
        BY <3>3
      <4> HIDE DEF slot
      <4>3. {slot("sqlite", r) : r \in S} = {slot("postgres", r) : r \in S}
        BY <4>2
      <4>4. \A k : {r \in S : slot("sqlite", r) = k} = {r \in S : slot("postgres", r) = k}
        BY <4>2
      <4> QED
        BY <4>1, <4>3, <4>4 DEF Dialects
    <3> QED
      BY <3>4, <3>5, <3>6 DEF p
  <2> QED
    BY <2>2, <2>3 DEF DialectsAgree
<1> QED
  BY <1>1, StoredInvariant, PTL
-----------------------------------------------------------------------------
(* The breakdowns add up: a chart partitions the facts it is drawn from.   *)

TokensOf == [r \in Events |-> r.tokens]
CostOf == [r \in Events |-> IF r.amount # None /\ r.usd THEN r.amount ELSE 0]
RequestsOf == [r \in Events |-> ClientRequestCount(r)]

Measures == {"tokens", "requests", "cost", "priced", "unpriced"}

LEMMA MeasuresIntegers ==
  ASSUME NEW r \in Events
  PROVE  TokensOf[r] \in Int /\ CostOf[r] \in Int /\ RequestsOf[r] \in {0, 1}
<1>1. r.tokens \in Int /\ (r.amount # None => r.amount \in Int)
  BY EventAssumption
<1>2. ClientRequestCount(r) \in {0, 1}
  BY DEF ClientRequestCount
<1> QED
  BY <1>1, <1>2 DEF TokensOf, CostOf, RequestsOf

\* What the folds of Totals compute.
LEMMA SumOfTokens ==
  ASSUME NEW S \in SUBSET Events, IsFiniteSet(S)
  PROVE  LET tokens(r) == r.tokens IN SumOver(S, tokens) = Sum(TokensOf, S)
<1> DEFINE tokens(r) == r.tokens
           Folds(h) == h = [s \in SUBSET S |->
              IF s = {} THEN 0
              ELSE tokens(CHOOSE x \in s : TRUE) + h[s \ {CHOOSE x \in s : TRUE}]]
<1>1. ASSUME NEW s \in SUBSET S, s # {}
      PROVE  TokensOf[CHOOSE x \in s : TRUE] = tokens(CHOOSE x \in s : TRUE)
  <2>1. (CHOOSE x \in s : TRUE) \in Events
    BY <1>1
  <2> QED
    BY <2>1 DEF TokensOf
<1>2. \A g : SumsUp(g, TokensOf, S) <=> Folds(g)
  BY <1>1 DEF SumsUp
<1>3. PICK g : SumsUp(g, TokensOf, S)
  BY SumsUpExists
<1>4. PICK h : Folds(h) /\ SumOver(S, tokens) = h[S]
  <2>1. Folds(g)
    BY <1>2, <1>3
  <2> QED
    BY <2>1 DEF SumOver, MapThenSumSet, MapThenFoldSet
<1>5. SumsUp(h, TokensOf, S)
  BY <1>2, <1>4
<1> HIDE DEF Folds
<1>6. Sum(TokensOf, S) = h[S]
  <2>1. S \in SUBSET S /\ IsFiniteSet(S)
    OBVIOUS
  <2> QED
    BY <1>5, <2>1, SumIs
<1> QED
  BY <1>4, <1>6

LEMMA SumOfCost ==
  ASSUME NEW S \in SUBSET Events, IsFiniteSet(S)
  PROVE  LET cost(r) == IF r.amount # None /\ r.usd THEN r.amount ELSE 0
         IN  SumOver(S, cost) = Sum(CostOf, S)
<1> DEFINE cost(r) == IF r.amount # None /\ r.usd THEN r.amount ELSE 0
           Folds(h) == h = [s \in SUBSET S |->
              IF s = {} THEN 0
              ELSE cost(CHOOSE x \in s : TRUE) + h[s \ {CHOOSE x \in s : TRUE}]]
<1>1. ASSUME NEW s \in SUBSET S, s # {}
      PROVE  CostOf[CHOOSE x \in s : TRUE] = cost(CHOOSE x \in s : TRUE)
  <2>1. (CHOOSE x \in s : TRUE) \in Events
    BY <1>1
  <2> QED
    BY <2>1 DEF CostOf
<1>2. \A g : SumsUp(g, CostOf, S) <=> Folds(g)
  BY <1>1 DEF SumsUp
<1>3. PICK g : SumsUp(g, CostOf, S)
  BY SumsUpExists
<1>4. PICK h : Folds(h) /\ SumOver(S, cost) = h[S]
  <2>1. Folds(g)
    BY <1>2, <1>3
  <2> QED
    BY <2>1 DEF SumOver, MapThenSumSet, MapThenFoldSet
<1>5. SumsUp(h, CostOf, S)
  BY <1>2, <1>4
<1> HIDE DEF Folds
<1>6. Sum(CostOf, S) = h[S]
  <2>1. S \in SUBSET S /\ IsFiniteSet(S)
    OBVIOUS
  <2> QED
    BY <1>5, <2>1, SumIs
<1> QED
  BY <1>4, <1>6

LEMMA SumOfRequests ==
  ASSUME NEW S \in SUBSET Events, IsFiniteSet(S)
  PROVE  LET requests(r) == ClientRequestCount(r) IN SumOver(S, requests) = Sum(RequestsOf, S)
<1> DEFINE requests(r) == ClientRequestCount(r)
           Folds(h) == h = [s \in SUBSET S |->
              IF s = {} THEN 0
              ELSE requests(CHOOSE x \in s : TRUE) + h[s \ {CHOOSE x \in s : TRUE}]]
<1>1. ASSUME NEW s \in SUBSET S, s # {}
      PROVE  RequestsOf[CHOOSE x \in s : TRUE] = requests(CHOOSE x \in s : TRUE)
  <2>1. (CHOOSE x \in s : TRUE) \in Events
    BY <1>1
  <2> QED
    BY <2>1 DEF RequestsOf
<1>2. \A g : SumsUp(g, RequestsOf, S) <=> Folds(g)
  BY <1>1 DEF SumsUp
<1>3. PICK g : SumsUp(g, RequestsOf, S)
  BY SumsUpExists
<1>4. PICK h : Folds(h) /\ SumOver(S, requests) = h[S]
  <2>1. Folds(g)
    BY <1>2, <1>3
  <2> QED
    BY <2>1 DEF SumOver, MapThenSumSet, MapThenFoldSet
<1>5. SumsUp(h, RequestsOf, S)
  BY <1>2, <1>4
<1> HIDE DEF Folds
<1>6. Sum(RequestsOf, S) = h[S]
  <2>1. S \in SUBSET S /\ IsFiniteSet(S)
    OBVIOUS
  <2> QED
    BY <1>5, <2>1, SumIs
<1> QED
  BY <1>4, <1>6

PricedOf(S) == {r \in S : r.amount # None}
UnpricedOf(S) == {r \in S : r.amount = None}

LEMMA TotalsAreSums ==
  ASSUME NEW S \in SUBSET Events, IsFiniteSet(S)
  PROVE  Totals(S) = [tokens   |-> Sum(TokensOf, S),
                      requests |-> Sum(RequestsOf, S),
                      cost     |-> Sum(CostOf, S),
                      priced   |-> Sum(RequestsOf, PricedOf(S)),
                      unpriced |-> Sum(RequestsOf, UnpricedOf(S))]
<1>1. /\ PricedOf(S) \in SUBSET Events /\ IsFiniteSet(PricedOf(S))
      /\ UnpricedOf(S) \in SUBSET Events /\ IsFiniteSet(UnpricedOf(S))
  BY FS_Subset DEF PricedOf, UnpricedOf
<1> DEFINE tokens(r) == r.tokens
           cost(r) == IF r.amount # None /\ r.usd THEN r.amount ELSE 0
           requests(r) == ClientRequestCount(r)
<1>2. /\ SumOver(S, tokens) = Sum(TokensOf, S)
      /\ SumOver(S, cost) = Sum(CostOf, S)
      /\ SumOver(S, requests) = Sum(RequestsOf, S)
  BY SumOfTokens, SumOfCost, SumOfRequests
<1>3. SumOver(PricedOf(S), requests) = Sum(RequestsOf, PricedOf(S))
  BY <1>1, SumOfRequests
<1>4. SumOver(UnpricedOf(S), requests) = Sum(RequestsOf, UnpricedOf(S))
  BY <1>1, SumOfRequests
<1> QED
  BY <1>2, <1>3, <1>4 DEF Totals, PricedOf, UnpricedOf

LEMMA SumOfPart ==
  ASSUME NEW groups, IsFiniteSet(DOMAIN groups), NEW f \in Measures
  PROVE  SumOf(groups)[f] = Sum([k \in DOMAIN groups |-> groups[k][f]], DOMAIN groups)
<1> DEFINE S == DOMAIN groups
           value == [k \in S |-> groups[k][f]]
           part(k) == groups[k][f]
           Folds(h) == h = [s \in SUBSET S |->
              IF s = {} THEN 0
              ELSE part(CHOOSE x \in s : TRUE) + h[s \ {CHOOSE x \in s : TRUE}]]
<1>1. ASSUME NEW s \in SUBSET S, s # {}
      PROVE  value[CHOOSE x \in s : TRUE] = part(CHOOSE x \in s : TRUE)
  <2>1. (CHOOSE x \in s : TRUE) \in S
    BY <1>1
  <2> QED
    BY <2>1
<1> HIDE DEF value
<1>2. \A g : SumsUp(g, value, S) <=> Folds(g)
  BY <1>1 DEF SumsUp
<1>3. PICK g : SumsUp(g, value, S)
  BY SumsUpExists
<1>4. PICK h : Folds(h) /\ SumOver(S, part) = h[S]
  <2>1. Folds(g)
    BY <1>1, <1>3 DEF SumsUp
  <2> QED
    BY <2>1 DEF SumOver, MapThenSumSet, MapThenFoldSet
<1>5. SumsUp(h, value, S)
  BY <1>2, <1>4
<1> HIDE DEF Folds
<1>6. Sum(value, S) = h[S]
  <2>1. S \in SUBSET S /\ IsFiniteSet(S)
    OBVIOUS
  <2> QED
    BY <1>5, <2>1, SumIs
<1>7. SumOf(groups)[f] = SumOver(S, part)
  BY Zenon DEF SumOf, Measures
<1> QED
  BY <1>4, <1>6, <1>7 DEF value

\* The bars of a chart add up to what all its facts do.
LEMMA ChartAddsUp ==
  ASSUME NEW S \in SUBSET Events, IsFiniteSet(S), NEW key, NEW groups,
         groups = [k \in {key[r] : r \in S} |-> Totals({r \in S : key[r] = k})]
  PROVE  SumOf(groups) = Totals(S)
<1> DEFINE K == {key[r] : r \in S}
           Group(A, k) == {r \in A : key[r] = k}
           Bars(f, A) == [k \in K |-> Sum(f, {r \in A : key[r] = k})]
<1>1. IsFiniteSet(K) /\ \A r \in S : key[r] \in K
  BY Images
<1>2. DOMAIN groups = K
  OBVIOUS
<1>3. \A k \in K : Group(S, k) \in SUBSET Events /\ IsFiniteSet(Group(S, k))
  BY FS_Subset
<1>4. ASSUME NEW k \in K
      PROVE  /\ groups[k]["tokens"] = Sum(TokensOf, Group(S, k))
             /\ groups[k]["cost"] = Sum(CostOf, Group(S, k))
             /\ groups[k]["requests"] = Sum(RequestsOf, Group(S, k))
             /\ groups[k]["priced"] = Sum(RequestsOf, Group(PricedOf(S), k))
             /\ groups[k]["unpriced"] = Sum(RequestsOf, Group(UnpricedOf(S), k))
  <2>1. groups[k] = Totals(Group(S, k))
    OBVIOUS
  <2>2. /\ PricedOf(Group(S, k)) = Group(PricedOf(S), k)
        /\ UnpricedOf(Group(S, k)) = Group(UnpricedOf(S), k)
    BY DEF PricedOf, UnpricedOf
  <2> HIDE DEF Group
  <2> QED
    BY <1>3, <2>1, <2>2, TotalsAreSums
<1>5. /\ PricedOf(S) \in SUBSET S /\ IsFiniteSet(PricedOf(S))
      /\ UnpricedOf(S) \in SUBSET S /\ IsFiniteSet(UnpricedOf(S))
  BY FS_Subset DEF PricedOf, UnpricedOf
<1>6. ASSUME NEW f, NEW A \in SUBSET S, IsFiniteSet(A), \A r \in A : f[r] \in Int
      PROVE  Sum(Bars(f, A), K) = Sum(f, A)
  <2>1. \A r \in A : key[r] \in K
    BY <1>1
  <2> HIDE DEF K
  <2> QED
    BY <1>1, <1>6, <2>1, SumOfGroups
<1>7. \A r \in S : TokensOf[r] \in Int /\ CostOf[r] \in Int /\ RequestsOf[r] \in Int
  BY MeasuresIntegers
<1>8. /\ [k \in K |-> groups[k]["tokens"]] = Bars(TokensOf, S)
      /\ [k \in K |-> groups[k]["cost"]] = Bars(CostOf, S)
      /\ [k \in K |-> groups[k]["requests"]] = Bars(RequestsOf, S)
      /\ [k \in K |-> groups[k]["priced"]] = Bars(RequestsOf, PricedOf(S))
      /\ [k \in K |-> groups[k]["unpriced"]] = Bars(RequestsOf, UnpricedOf(S))
  BY <1>4
<1> HIDE DEF K, Bars, Group
<1>9. /\ Sum(Bars(TokensOf, S), K) = Sum(TokensOf, S)
      /\ Sum(Bars(CostOf, S), K) = Sum(CostOf, S)
      /\ Sum(Bars(RequestsOf, S), K) = Sum(RequestsOf, S)
      /\ Sum(Bars(RequestsOf, PricedOf(S)), K) = Sum(RequestsOf, PricedOf(S))
      /\ Sum(Bars(RequestsOf, UnpricedOf(S)), K) = Sum(RequestsOf, UnpricedOf(S))
  <2>1. S \in SUBSET S
    OBVIOUS
  <2> QED
    BY <1>5, <1>6, <1>7, <2>1
<1>10. \A m \in Measures : SumOf(groups)[m] = Sum([k \in K |-> groups[k][m]], K)
  BY <1>1, <1>2, SumOfPart
<1>11. SumOf(groups) = [m \in Measures |-> Sum([k \in K |-> groups[k][m]], K)]
  <2>1. SumOf(groups) = [m \in Measures |-> SumOf(groups)[m]]
    BY DEF SumOf, Measures
  <2> HIDE DEF SumOf
  <2> QED
    BY <1>10, <2>1
<1>12. SumOf(groups) = [tokens   |-> Sum(TokensOf, S),
                        requests |-> Sum(RequestsOf, S),
                        cost     |-> Sum(CostOf, S),
                        priced   |-> Sum(RequestsOf, PricedOf(S)),
                        unpriced |-> Sum(RequestsOf, UnpricedOf(S))]
  BY <1>8, <1>9, <1>11 DEF Measures
<1> QED
  BY <1>12, TotalsAreSums

\* A priced request is not unpriced, and every request is one or the other.
LEMMA PricedOrNot ==
  ASSUME NEW S \in SUBSET Events, IsFiniteSet(S)
  PROVE  Totals(S).priced + Totals(S).unpriced = Totals(S).requests
<1>1. /\ PricedOf(S) \in SUBSET S /\ IsFiniteSet(PricedOf(S))
      /\ UnpricedOf(S) \in SUBSET S /\ IsFiniteSet(UnpricedOf(S))
      /\ PricedOf(S) \cap UnpricedOf(S) = {} /\ PricedOf(S) \cup UnpricedOf(S) = S
  BY FS_Subset DEF PricedOf, UnpricedOf
<1>2. \A r \in S : RequestsOf[r] \in Int
  BY MeasuresIntegers
<1>3. Sum(RequestsOf, S) = Sum(RequestsOf, PricedOf(S)) + Sum(RequestsOf, UnpricedOf(S))
  BY <1>1, <1>2, SumUnion
<1>4. Sum(RequestsOf, PricedOf(S)) \in Int /\ Sum(RequestsOf, UnpricedOf(S)) \in Int
  BY <1>1, <1>2, SumInteger
<1> QED
  BY <1>3, TotalsAreSums

\* Each chart of a personal page adds up to what the facts it is drawn from do.
LEMMA PersonalCharts ==
  ASSUME Stored, NEW dialect, NEW p
  PROVE  /\ StatFacts(dialect, p) \in SUBSET Events /\ IsFiniteSet(StatFacts(dialect, p))
         /\ SumOf(PersonalByProtocolTotal(dialect, p)) = Totals(StatFacts(dialect, p))
         /\ SumOf(PersonalByProtocolTimeline(dialect, p)) = Totals(StatFacts(dialect, p))
         /\ SumOf(PersonalByAppTotal(dialect, p)) = Totals(StatFacts(dialect, p))
         /\ SumOf(BySession(dialect, p)) = Totals(StatFacts(dialect, p))
         /\ SumOf(PersonalTimeline(dialect, p)) = Totals(OfApp(p, StatFacts(dialect, p)))
         /\ SumOf(PersonalByKeyTotal(dialect, p)) = Totals(OfSession(p, StatFacts(dialect, p)))
         /\ SumOf(ByModel(dialect, p)) = Totals(OfSession(p, OfApp(p, StatFacts(dialect, p))))
<1>1. \A A \in SUBSET dwd : A \in SUBSET Events /\ IsFiniteSet(A)
  BY FactsFinite, FS_Subset
<1>2. StatFacts(dialect, p) \in SUBSET dwd
  BY DEF StatFacts, MyFacts
<1>3. SumOf(PersonalByProtocolTotal(dialect, p)) = Totals(StatFacts(dialect, p))
  <2> DEFINE A == StatFacts(dialect, p)
             key == [r \in A |-> Provider(r)]
  <2>1. PersonalByProtocolTotal(dialect, p) =
          [k \in {key[r] : r \in A} |-> Totals({r \in A : key[r] = k})]
    BY DEF PersonalByProtocolTotal, Grouped
  <2>2. A \in SUBSET Events /\ IsFiniteSet(A)
    BY <1>1, <1>2
  <2> HIDE DEF A, key
  <2>3. SumOf(PersonalByProtocolTotal(dialect, p)) = Totals(A)
    BY <2>1, <2>2, ChartAddsUp
  <2> QED
    BY <2>3 DEF A
<1>4. SumOf(PersonalByProtocolTimeline(dialect, p)) = Totals(StatFacts(dialect, p))
  <2> DEFINE A == StatFacts(dialect, p)
             key == [r \in A |-> [date |-> DateOfLocal(dialect, p, r.time),
                                  protocol |-> Provider(r)]]
  <2>1. PersonalByProtocolTimeline(dialect, p) =
          [k \in {key[r] : r \in A} |-> Totals({r \in A : key[r] = k})]
    BY DEF PersonalByProtocolTimeline, Grouped
  <2>2. A \in SUBSET Events /\ IsFiniteSet(A)
    BY <1>1, <1>2
  <2> HIDE DEF A, key
  <2>3. SumOf(PersonalByProtocolTimeline(dialect, p)) = Totals(A)
    BY <2>1, <2>2, ChartAddsUp
  <2> QED
    BY <2>3 DEF A
<1>5. SumOf(PersonalByAppTotal(dialect, p)) = Totals(StatFacts(dialect, p))
  <2> DEFINE A == StatFacts(dialect, p)
             key == [r \in A |-> [app |-> r.app, provider |-> Provider(r)]]
  <2>1. PersonalByAppTotal(dialect, p) =
          [k \in {key[r] : r \in A} |-> Totals({r \in A : key[r] = k})]
    BY DEF PersonalByAppTotal, Grouped
  <2>2. A \in SUBSET Events /\ IsFiniteSet(A)
    BY <1>1, <1>2
  <2> HIDE DEF A, key
  <2>3. SumOf(PersonalByAppTotal(dialect, p)) = Totals(A)
    BY <2>1, <2>2, ChartAddsUp
  <2> QED
    BY <2>3 DEF A
<1>6. SumOf(BySession(dialect, p)) = Totals(StatFacts(dialect, p))
  <2> DEFINE A == StatFacts(dialect, p)
             key == [r \in A |-> r.session]
  <2>1. BySession(dialect, p) =
          [k \in {key[r] : r \in A} |-> Totals({r \in A : key[r] = k})]
    BY DEF BySession, Grouped
  <2>2. A \in SUBSET Events /\ IsFiniteSet(A)
    BY <1>1, <1>2
  <2> HIDE DEF A, key
  <2>3. SumOf(BySession(dialect, p)) = Totals(A)
    BY <2>1, <2>2, ChartAddsUp
  <2> QED
    BY <2>3 DEF A
<1>7. SumOf(PersonalTimeline(dialect, p)) = Totals(OfApp(p, StatFacts(dialect, p)))
  <2> DEFINE A == OfApp(p, StatFacts(dialect, p))
             key == [r \in A |-> DateOfLocal(dialect, p, r.time)]
  <2>1. PersonalTimeline(dialect, p) =
          [k \in {key[r] : r \in A} |-> Totals({r \in A : key[r] = k})]
    BY DEF PersonalTimeline, Grouped
  <2>2. A \in SUBSET Events /\ IsFiniteSet(A)
    BY <1>1, <1>2 DEF OfApp, OfSession
  <2> HIDE DEF A, key
  <2>3. SumOf(PersonalTimeline(dialect, p)) = Totals(A)
    BY <2>1, <2>2, ChartAddsUp
  <2> QED
    BY <2>3 DEF A
<1>8. SumOf(PersonalByKeyTotal(dialect, p)) = Totals(OfSession(p, StatFacts(dialect, p)))
  <2> DEFINE A == OfSession(p, StatFacts(dialect, p))
             key == [r \in A |-> [key |-> IF IdentityOf(p, r.vk) # None THEN IdentityOf(p, r.vk) ELSE r.vk,
                           app |-> r.app]]
  <2>1. PersonalByKeyTotal(dialect, p) =
          [k \in {key[r] : r \in A} |-> Totals({r \in A : key[r] = k})]
    BY DEF PersonalByKeyTotal, Grouped
  <2>2. A \in SUBSET Events /\ IsFiniteSet(A)
    BY <1>1, <1>2 DEF OfApp, OfSession
  <2> HIDE DEF A, key
  <2>3. SumOf(PersonalByKeyTotal(dialect, p)) = Totals(A)
    BY <2>1, <2>2, ChartAddsUp
  <2> QED
    BY <2>3 DEF A
<1>9. SumOf(ByModel(dialect, p)) = Totals(OfSession(p, OfApp(p, StatFacts(dialect, p))))
  <2> DEFINE A == OfSession(p, OfApp(p, StatFacts(dialect, p)))
             key == [r \in A |-> r.model]
  <2>1. ByModel(dialect, p) =
          [k \in {key[r] : r \in A} |-> Totals({r \in A : key[r] = k})]
    BY DEF ByModel, Grouped
  <2>2. A \in SUBSET Events /\ IsFiniteSet(A)
    BY <1>1, <1>2 DEF OfApp, OfSession
  <2> HIDE DEF A, key
  <2>3. SumOf(ByModel(dialect, p)) = Totals(A)
    BY <2>1, <2>2, ChartAddsUp
  <2> QED
    BY <2>3 DEF A
<1> QED
  BY <1>1, <1>2, <1>3, <1>4, <1>5, <1>6, <1>7, <1>8, <1>9

\* And each of an organisation's.
LEMMA MasterCharts ==
  ASSUME Stored, NEW dialect, NEW p
  PROVE  /\ SumOf(MasterTimeline(dialect, p)) = Totals({r \in OrgFacts(p) : BilledToOrg(r) /\ ForAudit(r)})
         /\ SumOf(MasterByProtocolTotal(p)) = Totals({r \in OrgFacts(p) : BilledToOrg(r) /\ ForAudit(r)})
<1> DEFINE A == {r \in OrgFacts(p) : BilledToOrg(r) /\ ForAudit(r)}
<1>1. A \in SUBSET Events /\ IsFiniteSet(A)
  <2>1. A \in SUBSET dwd
    BY DEF OrgFacts
  <2> HIDE DEF A
  <2> QED
    BY <2>1, FactsFinite, FS_Subset
<1>2. SumOf(MasterTimeline(dialect, p)) = Totals(A)
  <2> DEFINE key == [r \in A |-> DateOfLocal(dialect, p, r.time)]
  <2>1. MasterTimeline(dialect, p) =
          [k \in {key[r] : r \in A} |-> Totals({r \in A : key[r] = k})]
    BY DEF MasterTimeline, Grouped
  <2> HIDE DEF A, key
  <2> QED
    BY <1>1, <2>1, ChartAddsUp
<1>3. SumOf(MasterByProtocolTotal(p)) = Totals(A)
  <2> DEFINE key == [r \in A |-> Provider(r)]
  <2>1. MasterByProtocolTotal(p) =
          [k \in {key[r] : r \in A} |-> Totals({r \in A : key[r] = k})]
    BY DEF MasterByProtocolTotal, Grouped
  <2> HIDE DEF A, key
  <2> QED
    BY <1>1, <2>1, ChartAddsUp
<1> QED
  BY <1>2, <1>3

\* The facts of a seat in the window of a page.
SeatFacts(p, seat) == {r \in dwd : r.seat = seat /\ ForStats(r) /\ InWindow(p, r.time)}

LEMMA SeatFactsFinite ==
  ASSUME Stored, NEW p, NEW seat
  PROVE  SeatFacts(p, seat) \in SUBSET Events /\ IsFiniteSet(SeatFacts(p, seat))
<1>1. SeatFacts(p, seat) \in SUBSET dwd
  BY DEF SeatFacts
<1> QED
  BY <1>1, FactsFinite, FS_Subset

\* The own pages of a seat are drawn from its facts.
LEMMA OwnPage ==
  ASSUME Stored, NEW q, NEW seat, seat # None, ~PersonalParams(q).all
  PROVE  SumOf(PersonalByProtocolTotal("sqlite", [PersonalParams(q) EXCEPT !.seat = seat]))
             = Totals(SeatFacts(PersonalParams(q), seat))
<1> DEFINE p == PersonalParams(q)
           own == [p EXCEPT !.seat = seat]
<1>1. /\ own.seat = seat /\ own.all = p.all
      /\ own.zone = p.zone /\ own.start = p.start /\ own.end = p.end
  BY DEF PersonalParams
<1> HIDE DEF p, own
<1>2. \A t : InWindow(own, t) <=> InWindow(p, t)
  BY <1>1 DEF InWindow, Window
<1>3. \A r : Mine(own, r) <=> r.seat = seat
  BY <1>1 DEF Mine, p
<1>4. StatFacts("sqlite", own) = SeatFacts(p, seat)
  BY <1>2, <1>3 DEF StatFacts, MyFacts, Pruned, SeatFacts
<1>5. SumOf(PersonalByProtocolTotal("sqlite", own)) = Totals(StatFacts("sqlite", own))
  BY PersonalCharts
<1> QED
  BY <1>4, <1>5 DEF p, own

\* The row of a seat on the by-agent page is drawn from its facts, too.
LEMMA AgentRow ==
  ASSUME Stored, NEW p, p.seat # None, NEW seat \in DOMAIN AgentRows(p)
  PROVE  seat # None /\ AgentRows(p)[seat].usage = Totals(SeatFacts(p, seat))
<1> DEFINE A == AgentFacts(p)
           totals == PersonalByAgentTotal(p)
           latest == IF p.seat # None /\ p.lastRoute THEN LatestAgentRoutes(p) ELSE {}
<1>1. totals = [k \in {r.seat : r \in A} |-> Totals({r \in A : r.seat = k})]
  BY DEF PersonalByAgentTotal, Grouped
<1>2. /\ seat \in DOMAIN totals \cup {o.seat : o \in latest}
      /\ AgentRows(p)[seat].usage = IF seat \in DOMAIN totals THEN totals[seat] ELSE Totals({})
  BY DEF AgentRows
<1>3. \A r, o \in ods : r.seat = o.seat /\ r.seat # None => SeatOf(r) = SeatOf(o)
  <2>1. \A r, o \in ods : r.seat = o.seat /\ r.seat # None => r.org = o.org
    BY EventAssumption DEF Stored
  <2> QED
    BY <2>1 DEF SeatOf
<1>4. \A o \in ods : \A s \in SeatOf(o) : s.seat = o.seat /\ s.seat # None
  BY EventAssumption DEF SeatOf
<1>5. CASE seat \in DOMAIN totals
  <2>1. PICK x \in A : x.seat = seat
    BY <1>1, <1>5
  <2>2. x \in ods /\ seat # None /\ (seat = p.seat \/ \E s \in SeatOf(x) : s.parent = p.seat)
    BY <1>4, <2>1 DEF AgentFacts, Stored
  <2>3. \A r \in dwd : r.seat = seat => r.seat = p.seat \/ \E s \in SeatOf(r) : s.parent = p.seat
    BY <1>3, <2>1, <2>2 DEF Stored
  <2>4. {r \in A : r.seat = seat} = SeatFacts(p, seat)
    BY <2>3 DEF AgentFacts, SeatFacts
  <2> QED
    BY <1>1, <1>2, <1>5, <2>2, <2>4
<1>6. CASE seat \notin DOMAIN totals
  <2>1. PICK o \in LatestAgentRoutes(p) : o.seat = seat
    BY <1>2, <1>6
  <2>2. o \in ods /\ \E s \in SeatOf(o) : p.seat \in {s.seat, s.parent}
    BY <2>1 DEF LatestAgentRoutes
  <2>3. seat # None
    BY <1>4, <2>1, <2>2
  <2>4. ASSUME NEW r \in SeatFacts(p, seat) PROVE FALSE
    <3>1. r \in dwd /\ r \in ods /\ r.seat = seat /\ ForStats(r) /\ InWindow(p, r.time)
      BY DEF SeatFacts, Stored
    <3>2. r.seat = p.seat \/ \E s \in SeatOf(r) : s.parent = p.seat
      BY <1>3, <1>4, <2>1, <2>2, <2>3, <3>1
    <3>3. r \in A
      BY <3>1, <3>2 DEF AgentFacts
    <3> QED
      BY <1>1, <1>6, <3>1, <3>3
  <2>5. SeatFacts(p, seat) = {}
    BY <2>4
  <2> QED
    BY <1>2, <1>6, <2>3, <2>5
<1> QED
  BY <1>5, <1>6

\* The last route of a seat is its newest request that reached an account.
LEMMA AgentRoute ==
  ASSUME Stored, NEW p, NEW seat \in DOMAIN AgentRows(p), NEW o \in AgentRows(p)[seat].last,
         NEW x \in ods, x.seat = seat, x.account # None, x.route # "canary"
  PROVE  x.time <= o.time
<1>1. o \in LatestAgentRoutes(p) /\ o.seat = seat
  BY DEF AgentRows
<1>2. /\ o \in ods /\ (\E s \in SeatOf(o) : p.seat \in {s.seat, s.parent})
      /\ \A y \in ods : /\ \E s \in SeatOf(y) : p.seat \in {s.seat, s.parent}
                        /\ y.account # None /\ y.route # "canary" /\ y.seat = o.seat
                        => \/ y.time < o.time
                           \/ y.time = o.time /\ y.id <= o.id
  BY <1>1 DEF LatestAgentRoutes
<1>3. o.seat # None
  BY <1>2, EventAssumption DEF SeatOf
<1>4. x \in Events /\ o \in Events /\ x.org = o.org
  BY <1>1, <1>2, <1>3, EventAssumption DEF Stored
<1>5. SeatOf(x) = SeatOf(o)
  BY <1>1, <1>4 DEF SeatOf
<1>6. x.time < o.time \/ x.time = o.time
  BY <1>1, <1>2, <1>5
<1>7. x.time \in Int /\ o.time \in Int
  BY <1>4, EventAssumption
<1> QED
  BY <1>6, <1>7

\* The rows a seat has in the ranking of its organisation are drawn from its facts.
LEMMA RankedSeat ==
  ASSUME Stored, NEW q, NEW org,
         NEW k \in DOMAIN ByPerson([PersonalParams(q) EXCEPT !.org = org]), k.seat # None
  PROVE  LET ranking == ByPerson([PersonalParams(q) EXCEPT !.org = org])
             rows == {j \in DOMAIN ranking : j.seat = k.seat}
         IN  SumOf([j \in rows |-> ranking[j]]) = Totals(SeatFacts(PersonalParams(q), k.seat))
<1> DEFINE p == PersonalParams(q)
           po == [p EXCEPT !.org = org]
           ranking == ByPerson(po)
           rows == {j \in DOMAIN ranking : j.seat = k.seat}
           A == {r \in OrgFacts(po) : ForStats(r)}
           B == {r \in A : r.seat = k.seat}
           key == [r \in B |-> [account |-> r.account, seat |-> r.seat]]
           groups == [j \in rows |-> ranking[j]]
<1>1. po.org = org /\ po.zone = p.zone /\ po.start = p.start /\ po.end = p.end
  BY DEF PersonalParams
<1>2. ranking = [j \in {[account |-> r.account, seat |-> r.seat] : r \in A} |->
                    Totals({r \in A : [account |-> r.account, seat |-> r.seat] = j})]
  BY DEF ByPerson, Grouped
<1>3. A = {r \in dwd : r.org = org /\ ForStats(r) /\ InWindow(p, r.time)}
  BY <1>1 DEF OrgFacts, InWindow, Window
<1> HIDE DEF po, ranking, A
<1>4. rows = {[account |-> r.account, seat |-> r.seat] : r \in B}
  BY <1>2
<1>5. \A j \in rows : {r \in A : [account |-> r.account, seat |-> r.seat] = j} = {r \in B : key[r] = j}
  OBVIOUS
<1>6. groups = [j \in {key[r] : r \in B} |-> Totals({r \in B : key[r] = j})]
  <2>1. rows = {key[r] : r \in B}
    BY <1>4
  <2>2. \A j \in rows : ranking[j] = Totals({r \in B : key[r] = j})
    BY <1>2, <1>5
  <2> HIDE DEF rows, B, key
  <2> QED
    BY <2>1, <2>2
<1>7. PICK x \in A : x.seat = k.seat
  BY <1>2 DEF po, ranking
<1>8. \A r \in dwd : r.seat = k.seat => r.org = org
  BY <1>3, <1>7, FactsFinite, EventAssumption
<1>9. B = SeatFacts(p, k.seat)
  BY <1>3, <1>8 DEF SeatFacts
<1>10. SumOf(groups) = Totals(B)
  <2>1. B \in SUBSET Events /\ IsFiniteSet(B)
    BY <1>9, SeatFactsFinite
  <2> HIDE DEF groups, B, key
  <2> QED
    BY <1>6, <2>1, ChartAddsUp
<1> QED
  BY <1>9, <1>10 DEF ranking, po

\* A chart that has room for all its groups shows them all.
LEMMA RoomForAll ==
  ASSUME NEW n \in Nat, NEW groups, groups = [k \in DOMAIN groups |-> groups[k]],
         IsFiniteSet(DOMAIN groups), Cardinality(DOMAIN groups) <= n
  PROVE  Cut(n, groups) = {groups}
<1> DEFINE D == DOMAIN groups
           m == Cardinality(D)
<1>1. m \in Nat /\ m <= n
  BY FS_CardinalityType
<1>2. Min({n, m}) = m
  <2>1. Min({n, m}) \in {n, m} /\ Min({n, m}) <= m
    <3> HIDE DEF m
    <3> QED
      BY <1>1, LesserOfTwo
  <2> QED
    BY <1>1, <2>1
<1>3. \A K \in SUBSET D : Cardinality(K) = m <=> K = D
  BY FS_Subset
<1>4. Top(n, groups) = {D}
  BY <1>2, <1>3 DEF Top
<1>5. {[k \in K |-> groups[k]] : K \in {D}} = {[k \in D |-> groups[k]]}
  OBVIOUS
<1> QED
  BY <1>4, <1>5 DEF Cut

\* The groups of a chart are as many as there are keys.
LEMMA GroupsOf ==
  ASSUME NEW A, IsFiniteSet(A), NEW key, NEW groups,
         groups = [k \in {key[r] : r \in A} |-> Totals({r \in A : key[r] = k})]
  PROVE  IsFiniteSet(DOMAIN groups) /\ groups = [k \in DOMAIN groups |-> groups[k]]
<1>1. IsFiniteSet({key[r] : r \in A})
  BY Images
<1> QED
  BY <1>1

LEMMA LimitOf ==
  ASSUME NEW p \in Asked
  PROVE  p.limit \in Nat
<1>1. PICK q \in Requests : p = PersonalParams(q)
  BY DEF Asked
<1>2. p.limit = IF q.limit = None THEN RowLimit ELSE q.limit
  BY <1>1 DEF PersonalParams
<1> QED
  BY <1>2, LimitAssumption

LEMMA PeopleAgree ==
  ASSUME Stored
  PROVE  PeopleAddUp
<1> SUFFICES ASSUME NEW p \in Asked, p.seat # None, ~p.all
             PROVE  LET own(seat) == SumOf(PersonalByProtocolTotal("sqlite", [p EXCEPT !.seat = seat]))
                    IN  /\ \A seat \in DOMAIN AgentRows(p) :
                               /\ AgentRows(p)[seat].usage = own(seat)
                               /\ \A o \in AgentRows(p)[seat].last, x \in ods :
                                      x.seat = seat /\ x.account # None /\ x.route # "canary"
                                          => x.time <= o.time
                        /\ \A org \in {s.org : s \in Seats} :
                               LET po == [p EXCEPT !.org = org]
                               IN  Cardinality(DOMAIN ByPerson(po)) <= po.limit =>
                                   \A ranking \in MasterUserRanking(po) :
                                       \A k \in DOMAIN ranking :
                                           k.seat # None =>
                                               LET rows == {j \in DOMAIN ranking : j.seat = k.seat}
                                               IN  Agree({"tokens", "requests", "cost", "unpriced"},
                                                         SumOf([j \in rows |-> ranking[j]]),
                                                         own(k.seat))
  BY DEF PeopleAddUp
<1>1. PICK q : p = PersonalParams(q)
  BY DEF Asked
<1>2. p.limit \in Nat
  BY LimitOf
<1> DEFINE own(seat) == SumOf(PersonalByProtocolTotal("sqlite", [p EXCEPT !.seat = seat]))
<1>3. \A seat : seat # None => own(seat) = Totals(SeatFacts(p, seat))
  BY <1>1, OwnPage
<1> HIDE DEF own
<1>4. ASSUME NEW seat \in DOMAIN AgentRows(p)
      PROVE  /\ AgentRows(p)[seat].usage = own(seat)
             /\ \A o \in AgentRows(p)[seat].last, x \in ods :
                    x.seat = seat /\ x.account # None /\ x.route # "canary" => x.time <= o.time
  <2>1. AgentRows(p)[seat].usage = own(seat)
    BY <1>3, AgentRow
  <2> QED
    BY <2>1, AgentRoute
<1>5. ASSUME NEW org, NEW k \in DOMAIN ByPerson([p EXCEPT !.org = org]), k.seat # None
      PROVE  LET ranking == ByPerson([p EXCEPT !.org = org])
                 rows == {j \in DOMAIN ranking : j.seat = k.seat}
             IN  SumOf([j \in rows |-> ranking[j]]) = own(k.seat)
  BY <1>1, <1>3, <1>5, RankedSeat
<1>6. ASSUME NEW org, Cardinality(DOMAIN ByPerson([p EXCEPT !.org = org])) <= p.limit
      PROVE  MasterUserRanking([p EXCEPT !.org = org]) = {ByPerson([p EXCEPT !.org = org])}
  <2> DEFINE po == [p EXCEPT !.org = org]
             A == {r \in OrgFacts(po) : ForStats(r)}
             key == [r \in A |-> [account |-> r.account, seat |-> r.seat]]
             groups == ByPerson(po)
  <2>1. groups = [k \in {key[r] : r \in A} |-> Totals({r \in A : key[r] = k})]
    BY DEF ByPerson, Grouped
  <2>2. IsFiniteSet(A)
    <3>1. A \subseteq dwd
      BY DEF OrgFacts
    <3> HIDE DEF A
    <3> QED
      BY <3>1, FactsFinite, FS_Subset
  <2>3. po.limit = p.limit
    BY <1>1 DEF PersonalParams
  <2> HIDE DEF A, key, groups
  <2>4. IsFiniteSet(DOMAIN groups) /\ groups = [k \in DOMAIN groups |-> groups[k]]
    BY <2>1, <2>2, GroupsOf
  <2>5. Cardinality(DOMAIN groups) <= p.limit
    BY <1>6 DEF groups
  <2>6. Cut(p.limit, groups) = {groups}
    BY <1>2, <2>4, <2>5, RoomForAll
  <2> QED
    BY <2>3, <2>6 DEF MasterUserRanking, groups
<1>7. ASSUME NEW org \in {s.org : s \in Seats},
             Cardinality(DOMAIN ByPerson([p EXCEPT !.org = org])) <= [p EXCEPT !.org = org].limit,
             NEW ranking \in MasterUserRanking([p EXCEPT !.org = org]),
             NEW k \in DOMAIN ranking, k.seat # None
      PROVE  LET rows == {j \in DOMAIN ranking : j.seat = k.seat}
             IN  Agree({"tokens", "requests", "cost", "unpriced"},
                       SumOf([j \in rows |-> ranking[j]]), own(k.seat))
  <2>1. [p EXCEPT !.org = org].limit = p.limit
    BY <1>1 DEF PersonalParams
  <2>2. ranking = ByPerson([p EXCEPT !.org = org])
    BY <1>6, <1>7, <2>1
  <2>3. LET rows == {j \in DOMAIN ranking : j.seat = k.seat}
        IN  SumOf([j \in rows |-> ranking[j]]) = own(k.seat)
    BY <1>5, <1>7, <2>2
  <2> QED
    BY <2>3 DEF Agree
<1> QED
  BY <1>4, <1>7 DEF own

\* By day, protocol, app, session, key and model a page breaks down the same tokens
\* and requests, and the same cost where it shows one, under the filters each pair
\* of its charts honours and where a chart that is cut has room for all its bars; and
\* so do the pages of the people behind it (domain.go:81, 239, repository_sql.go:494,
\* 764, 868, 1095).
THEOREM ChartsAgree == Spec => []BreakdownsAgree
<1>1. ASSUME Stored PROVE BreakdownsAgree
  <2>1. PeopleAddUp
    BY <1>1, PeopleAgree
  <2>2. \A p, dialect : Agree({"tokens", "requests", "cost"},
                            SumOf(MasterTimeline(dialect, p)), SumOf(MasterByProtocolTotal(p)))
    BY <1>1, MasterCharts DEF Agree
  <2>3. ASSUME NEW p \in Asked, NEW dialect
        PROVE  LET total    == SumOf(PersonalByProtocolTotal(dialect, p))
                   timeline == SumOf(PersonalTimeline(dialect, p))
                   sessions == PersonalBySessionTotal(dialect, p)
                   models   == PersonalByModelTotal(dialect, p)
               IN  /\ total.priced + total.unpriced = total.requests
                   /\ Agree({"tokens", "requests"},
                            SumOf(PersonalByProtocolTimeline(dialect, p)), total)
                   /\ SumOf(PersonalByAppTotal(dialect, p)) = total
                   /\ Cardinality(DOMAIN BySession(dialect, p)) <= p.limit =>
                          \A chart \in sessions : Agree({"tokens", "requests"}, SumOf(chart), total)
                   /\ p.app = None => Agree({"tokens", "requests", "cost"}, timeline, total)
                   /\ Cardinality(DOMAIN ByModel(dialect, p)) <= ModelLimit =>
                          \A chart \in models :
                              /\ p.app = None => SumOf(PersonalByKeyTotal(dialect, p)) = SumOf(chart)
                              /\ p.session = None =>
                                     Agree({"tokens", "requests", "cost"}, SumOf(chart), timeline)
    <3> DEFINE A == StatFacts(dialect, p)
               B == OfSession(p, OfApp(p, A))
               sessions == BySession(dialect, p)
               models == ByModel(dialect, p)
    <3>1. A \in SUBSET Events /\ IsFiniteSet(A)
      BY <1>1, PersonalCharts
    <3>2. Totals(A).priced + Totals(A).unpriced = Totals(A).requests
      <4> HIDE DEF A
      <4> QED
        BY <3>1, PricedOrNot
    <3>3. /\ SumOf(PersonalByProtocolTotal(dialect, p)) = Totals(A)
          /\ SumOf(PersonalByProtocolTimeline(dialect, p)) = Totals(A)
          /\ SumOf(PersonalByAppTotal(dialect, p)) = Totals(A)
          /\ SumOf(sessions) = Totals(A)
          /\ SumOf(PersonalTimeline(dialect, p)) = Totals(OfApp(p, A))
          /\ SumOf(PersonalByKeyTotal(dialect, p)) = Totals(OfSession(p, A))
          /\ SumOf(models) = Totals(B)
      BY <1>1, PersonalCharts
    <3>4. p.app = None => OfApp(p, A) = A
      BY DEF OfApp
    <3>5. p.session = None => B = OfApp(p, A)
      BY DEF OfSession
    <3>6. ASSUME Cardinality(DOMAIN sessions) <= p.limit
          PROVE  PersonalBySessionTotal(dialect, p) = {sessions}
      <4> DEFINE key == [r \in A |-> r.session]
      <4>1. sessions = [k \in {key[r] : r \in A} |-> Totals({r \in A : key[r] = k})]
        BY DEF BySession, Grouped
      <4> HIDE DEF A, key, sessions
      <4>2. IsFiniteSet(DOMAIN sessions) /\ sessions = [k \in DOMAIN sessions |-> sessions[k]]
        BY <3>1, <4>1, GroupsOf
      <4>3. Cut(p.limit, sessions) = {sessions}
        BY <3>6, <4>2, LimitOf, RoomForAll
      <4> QED
        BY <4>3 DEF PersonalBySessionTotal, sessions
    <3>7. ASSUME Cardinality(DOMAIN models) <= ModelLimit
          PROVE  PersonalByModelTotal(dialect, p) = {models}
      <4> DEFINE key == [r \in B |-> r.model]
      <4>1. models = [k \in {key[r] : r \in B} |-> Totals({r \in B : key[r] = k})]
        BY DEF ByModel, Grouped
      <4>2. B \subseteq A
        BY DEF OfSession, OfApp
      <4> HIDE DEF A, B, key, models
      <4>3. IsFiniteSet(B)
        BY <3>1, <4>2, FS_Subset
      <4>4. IsFiniteSet(DOMAIN models) /\ models = [k \in DOMAIN models |-> models[k]]
        BY <4>1, <4>3, GroupsOf
      <4>5. Cut(ModelLimit, models) = {models}
        BY <3>7, <4>4, LimitAssumption, RoomForAll
      <4> QED
        BY <4>5 DEF PersonalByModelTotal, models
    <3> HIDE DEF A, B, sessions, models
    <3>8. ASSUME Cardinality(DOMAIN sessions) <= p.limit,
                 NEW chart \in PersonalBySessionTotal(dialect, p)
          PROVE  Agree({"tokens", "requests"}, SumOf(chart), Totals(A))
      BY <3>3, <3>6, <3>8 DEF Agree
    <3>9. ASSUME Cardinality(DOMAIN models) <= ModelLimit,
                 NEW chart \in PersonalByModelTotal(dialect, p)
          PROVE  /\ p.app = None => SumOf(PersonalByKeyTotal(dialect, p)) = SumOf(chart)
                 /\ p.session = None =>
                        Agree({"tokens", "requests", "cost"}, SumOf(chart),
                              SumOf(PersonalTimeline(dialect, p)))
      <4>1. SumOf(chart) = Totals(B)
        BY <3>3, <3>7, <3>9
      <4>2. p.app = None => B = OfSession(p, A)
        BY <3>4 DEF B
      <4> QED
        BY <3>3, <3>5, <4>1, <4>2 DEF Agree
    <3>10. /\ Agree({"tokens", "requests"},
                    SumOf(PersonalByProtocolTimeline(dialect, p)), Totals(A))
           /\ p.app = None => Agree({"tokens", "requests", "cost"},
                                    SumOf(PersonalTimeline(dialect, p)), Totals(A))
      BY <3>3, <3>4 DEF Agree
    <3> QED
      BY <3>2, <3>3, <3>8, <3>9, <3>10 DEF sessions, models
  <2> QED
    BY <2>1, <2>2, <2>3 DEF BreakdownsAgree
<1> QED
  BY <1>1, StoredInvariant, PTL
=============================================================================
