--------------------------- MODULE UsageQueries ---------------------------
(***************************************************************************)
(* The usage pages of the query service: the SQL of                        *)
(* query-service/internal/usage/repository_sql.go over the raw events      *)
(* (usage_event_ods), the facts the projector derives from them            *)
(* (usage_fact_dwd), the reporting view on top (usage_reporting_fact) and  *)
(* the seats (org_seats), while the collector keeps writing, and an        *)
(* auditor who reads the audit table page by page at the same time.        *)
(*                                                                         *)
(* An event is a record that carries the columns of both of its rows; `id' *)
(* stands for event_id, ods_id and dwd_id.  Its route is None when the     *)
(* proxy sent none: NULL in the raw row, the empty string in the fact.     *)
(***************************************************************************)
EXTENDS QueryParams, FiniteSets, FiniteSetsExt, TLC

CONSTANTS Events,      \* the events that may arrive
          Seats,       \* the rows of org_seats: [seat, org, alias, human, parent]
          Requests,    \* the requests asked of the personal pages
          AuditPages,  \* the audit tables opened: request, sort, direction, limit
          ModelLimit,  \* the rows of the by-model chart (20)
          RowLimit,    \* the default of ?limit (50)
          MaxNow,      \* bound: the clock while tables are read
          FacetLimit   \* masterAuditFacetLimit (200)

\* Numbers stand for what the database puts in an order, ids among them; None for
\* NULL.  A seat id is globally unique: a seat belongs to one organisation.  The
\* handler bounds the page of an audit table from below.
ASSUME EventAssumption ==
    /\ \A e \in Events : /\ {e.id, e.time, e.tokens} \subseteq Int
                         /\ e.amount # None => e.amount \in Int
                         /\ e.attempt # None => e.attempt \in Int
    /\ \A e, f \in Events : /\ e.id = f.id => e = f
                            /\ e.seat = f.seat /\ e.seat # None => e.org = f.org
    /\ \A s \in Seats : s.seat # None
\* No zone is a day or more off UTC.
ASSUME RequestAssumption ==
    \A q \in Requests :
        /\ q.start \notin {None, Malformed} => q.start \in Int
        /\ q.end \notin {None, Malformed} => q.end \in Int
        /\ q.tz # NoZone => /\ {q.tz.before, q.tz.after} \subseteq 1 - DayHours .. DayHours - 1
                            /\ q.tz.at \in Int
ASSUME LimitAssumption ==
    /\ FacetLimit \in Nat /\ ModelLimit \in Nat /\ RowLimit \in Nat
    /\ MaxNow \in Nat
    /\ \A q \in Requests : q.limit # None => q.limit \in Nat
    /\ \A q \in AuditPages : q.limit \in Nat \ {0}

VARIABLES ods,    \* the raw events stored
          dwd,    \* the events projected into facts
          clock,  \* time.Now() of the query service
          reader  \* the auditor: the request it repeats page by page, the table
                  \* of the last page, what it has shown, and (history) whether
                  \* the table has ever been another one

vars == <<ods, dwd, clock, reader>>

-----------------------------------------------------------------------------
\* usage_reporting_fact: of the facts of one client request, the last success
\* (the last failure if none succeeded) counts as the request

Successful(r) == IF r.status = "success" THEN 1 ELSE 0

SameRequest(a, b) ==
    /\ a.org = b.org /\ a.account = b.account /\ a.seat = b.seat
    /\ a.request = b.request

\* Seeded fault: attempts of the same instant are left undecided
DecidesByTime(peer, r) ==
    \/ Successful(peer) > Successful(r)
    \/ Successful(peer) = Successful(r) /\ peer.time > r.time

\* peer decides the request rather than r
Decides(peer, r) ==
    \/ Successful(peer) > Successful(r)
    \/ /\ Successful(peer) = Successful(r)
       /\ \/ peer.time > r.time
          \/ peer.time = r.time /\ peer.id > r.id

ClientRequestCount(r) ==
    IF /\ r.request # None
       /\ \E peer \in dwd : SameRequest(peer, r) /\ Decides(peer, r)
    THEN 0
    ELSE 1

-----------------------------------------------------------------------------
\* the filters the personal pages share

\* personalIdentityFilter
Mine(p, r) ==
    IF p.all THEN TRUE
    ELSE IF p.seat # None THEN r.seat = p.seat
    ELSE IF p.org = "personal" THEN r.org = "personal"
    ELSE r.account = p.account

\* partitionPrune: the range of usage_date PostgreSQL reads, a day wider on
\* either side than the window
Pruned(dialect, p, r) ==
    \/ dialect = "sqlite"
    \/ /\ UTCDate(Window(p).from) - 1 <= UTCDate(r.time)
       /\ UTCDate(r.time) <= UTCDate(Window(p).to) + 1

ForStats(r) == r.scope = "normal"

\* Seeded fault: the audit table shows one row per client request, as the charts do
ForAuditOfRequests(r) == r.scope # "non_generation" /\ ClientRequestCount(r) = 1

ForAudit(r) == r.scope # "non_generation"

MyFacts(dialect, p) ==
    {r \in dwd : Mine(p, r) /\ Pruned(dialect, p, r) /\ InWindow(p, r.time)}

OfApp(p, S) == {r \in S : p.app = None \/ r.app = p.app}
OfSession(p, S) == {r \in S : p.session = None \/ r.session = p.session}

\* the sums every chart takes of the facts in a group
SumOver(S, value(_)) == MapThenSumSet(value, S)

Totals(S) ==
    LET requests(r) == ClientRequestCount(r)
        tokens(r)   == r.tokens
        cost(r)     == IF r.amount # None /\ r.usd THEN r.amount ELSE 0
    IN  [tokens   |-> SumOver(S, tokens),
         requests |-> SumOver(S, requests),
         cost     |-> SumOver(S, cost),
         priced   |-> SumOver({r \in S : r.amount # None}, requests),
         unpriced |-> SumOver({r \in S : r.amount = None}, requests)]

\* GROUP BY
Grouped(S, key(_)) ==
    [k \in {key(r) : r \in S} |-> Totals({r \in S : key(r) = k})]

\* the groups ORDER BY SUM(total_tokens) DESC LIMIT n may keep
Top(n, groups) ==
    {K \in SUBSET DOMAIN groups :
        /\ Cardinality(K) = Min({n, Cardinality(DOMAIN groups)})
        /\ \A k \in K, j \in DOMAIN groups \ K :
               groups[k].tokens >= groups[j].tokens}

\* the charts it may leave of them
Cut(n, groups) == {[k \in K |-> groups[k]] : K \in Top(n, groups)}

Provider(r) == IF r.provider # None THEN r.provider ELSE r.protocol

-----------------------------------------------------------------------------
\* the charts of the personal pages

StatFacts(dialect, p) == {r \in MyFacts(dialect, p) : ForStats(r)}

PersonalTimeline(dialect, p) ==
    LET date(r) == DateOfLocal(dialect, p, r.time)
    IN  Grouped(OfApp(p, StatFacts(dialect, p)), date)

PersonalHourlyTimeline(dialect, p) ==
    LET slot(r) == [hour     |-> HourBucketLocal(dialect, p, r.time),
                    provider |-> IF p.byProvider THEN r.provider ELSE None]
    IN  Grouped(OfApp(p, StatFacts(dialect, p)), slot)

PersonalByProtocolTimeline(dialect, p) ==
    LET point(r) == [date     |-> DateOfLocal(dialect, p, r.time),
                     protocol |-> Provider(r)]
    IN  Grouped(StatFacts(dialect, p), point)

PersonalByProtocolHourly(dialect, p) ==
    LET point(r) == [hour     |-> HourBucketLocal(dialect, p, r.time),
                     protocol |-> Provider(r)]
    IN  Grouped(StatFacts(dialect, p), point)

PersonalByProtocolTotal(dialect, p) == Grouped(StatFacts(dialect, p), Provider)

PersonalByAppTotal(dialect, p) ==
    LET pair(r) == [app |-> r.app, provider |-> Provider(r)]
    IN  Grouped(StatFacts(dialect, p), pair)

\* the identity (MAX, so one and the same) the raw events of a key carry in the
\* window, joined to the facts of the key
IdentityOf(p, vk) ==
    LET seen == {o.identity : o \in {x \in ods : /\ x.vk = vk
                                                 /\ x.identity # None
                                                 /\ InWindow(p, x.time)}}
    IN  IF vk = None \/ seen = {} THEN None ELSE CHOOSE i \in seen : TRUE

\* Seeded fault: the identities are joined event by event, so a key whose raw events
\* carry two of them counts its facts once for each
ByKeyFannedOut(dialect, p) ==
    LET facts == OfSession(p, StatFacts(dialect, p))
        seen(r) == {o.identity : o \in {x \in ods : x.vk = r.vk /\ x.identity # None}}
        times(r) == IF seen(r) = {} THEN 1 ELSE Cardinality(seen(r))
        tokens(r) == r.tokens * times(r)
    IN  [k \in {[key |-> r.vk, app |-> r.app] : r \in facts} |->
            [Totals({r \in facts : r.vk = k.key /\ r.app = k.app})
                EXCEPT !.tokens = SumOver({r \in facts : r.vk = k.key /\ r.app = k.app}, tokens)]]

PersonalByKeyTotal(dialect, p) ==
    LET row(r) == [key |-> IF IdentityOf(p, r.vk) # None
                           THEN IdentityOf(p, r.vk) ELSE r.vk,
                   app |-> r.app]
    IN  Grouped(OfSession(p, StatFacts(dialect, p)), row)

ByModel(dialect, p) ==
    LET model(r) == r.model
    IN  Grouped(OfSession(p, OfApp(p, StatFacts(dialect, p))), model)

PersonalByModelTotal(dialect, p) == Cut(ModelLimit, ByModel(dialect, p))

\* the chart leaves the session filter out
BySession(dialect, p) ==
    LET session(r) == r.session
    IN  Grouped(StatFacts(dialect, p), session)

PersonalBySessionTotal(dialect, p) == Cut(p.limit, BySession(dialect, p))

-----------------------------------------------------------------------------
\* the caller and its agents

SeatOf(r) == {s \in Seats : s.seat = r.seat /\ s.org = r.org}

Alias(r) == IF SeatOf(r) = {} THEN None ELSE (CHOOSE s \in SeatOf(r) : TRUE).alias

AgentFacts(p) ==
    {r \in dwd : /\ \/ r.seat = p.seat
                    \/ \E s \in SeatOf(r) : s.parent = p.seat
                 /\ ForStats(r)
                 /\ InWindow(p, r.time)}

PersonalByAgentTotal(p) ==
    LET seat(r) == r.seat
    IN  IF p.seat = None THEN << >> ELSE Grouped(AgentFacts(p), seat)

\* the newest event of every seat of the caller's that reached an account
LatestAgentRoutes(p) ==
    LET routed == {o \in ods : /\ \E s \in SeatOf(o) : p.seat \in {s.seat, s.parent}
                               /\ o.account # None
                               /\ o.route # "canary"}
    IN  {o \in routed : \A x \in routed :
            x.seat = o.seat => \/ x.time < o.time
                               \/ x.time = o.time /\ x.id <= o.id}

\* the by-agent rows with the latest route of each seat, usage or not
AgentRows(p) ==
    LET totals == PersonalByAgentTotal(p)
        latest == IF p.seat # None /\ p.lastRoute THEN LatestAgentRoutes(p) ELSE {}
    IN  [seat \in DOMAIN totals \cup {o.seat : o \in latest} |->
            [usage |-> IF seat \in DOMAIN totals THEN totals[seat] ELSE Totals({}),
             last  |-> {o \in latest : o.seat = seat}]]

-----------------------------------------------------------------------------
\* the request lists of the personal pages

\* ORDER BY ... LIMIT n OFFSET skip: the rows by how many stand before them
Slice(S, before(_, _), skip, n) ==
    {r \in S : Cardinality({x \in S : before(x, r)}) \in skip .. skip + n - 1}

\* ORDER BY event_time DESC LIMIT n, ties by id
Newest(n, S) ==
    LET newer(a, b) == a.time > b.time \/ (a.time = b.time /\ a.id > b.id)
    IN  Slice(S, newer, 0, n)

\* a row with a NULL route_source is not different from 'canary'
PersonalRecent(p, n) ==
    Newest(n, {o \in ods : Mine(p, o) /\ o.route \notin {None, "canary"}})

PersonalUsageDetail(dialect, p, n) ==
    Newest(n, {r \in MyFacts(dialect, p) :
                  /\ ForAudit(r) /\ r.route # "canary"
                  /\ p.unpriced => r.amount = None
                  /\ p.model # None => r.model = p.model
                  /\ p.session # None => r.session = p.session
                  /\ p.app # None => r.app = p.app
                  /\ p.protocol # None => r.protocol = p.protocol})

-----------------------------------------------------------------------------
\* the organisation's pages

OrgFacts(p) == {r \in dwd : r.org = p.org /\ InWindow(p, r.time)}

BilledToOrg(r) == r.billing \in {"org_only", "org_and_user"}

ByPerson(p) ==
    LET person(r) == [account |-> r.account, seat |-> r.seat]
    IN  Grouped({r \in OrgFacts(p) : ForStats(r)}, person)

MasterUserRanking(p) == Cut(p.limit, ByPerson(p))

MasterByProtocolTotal(p) ==
    Grouped({r \in OrgFacts(p) : BilledToOrg(r) /\ ForAudit(r)}, Provider)

MasterTimeline(dialect, p) ==
    LET date(r) == DateOfLocal(dialect, p, r.time)
    IN  Grouped({r \in OrgFacts(p) : BilledToOrg(r) /\ ForAudit(r)}, date)

\* the switches to another upstream, counted per attempt
MasterUpstreamStepArounds(p) ==
    LET switched == {r \in OrgFacts(p) : r.attempt # None /\ r.attempt > 1}
        cause(r) == [provider |-> r.provider, reason |-> r.reason]
    IN  [c \in {cause(r) : r \in switched} |->
            [switches |-> Cardinality({r \in switched : cause(r) = c}),
             lastAt   |-> Max({r.time : r \in {x \in switched : cause(x) = c}})]]

-----------------------------------------------------------------------------
\* the audit table: the facts a filter matches, by usage_date

\* the columns a filter may name; a filter maps some of them to a value
Columns == {"seat", "identity", "provider", "model", "vk", "protocol", "anomaly"}

FacetColumns == {"identity", "model", "vk", "protocol", "anomaly"}

MasterAuditWhere(p, r) ==
    /\ r.org = p.org
    /\ p.start <= UTCDate(r.time) /\ UTCDate(r.time) <= p.end
    /\ ForAudit(r)
    /\ \A c \in DOMAIN p.filter : r[c] = p.filter[c]
    /\ p.priced = "priced" => r.amount # None
    /\ p.priced = "unpriced" => r.amount = None
    /\ p.keyword # None => p.keyword \in {r.identity, r.provider, r.model, Alias(r)}

Audited(p) == {r \in dwd : MasterAuditWhere(p, r)}

\* the whitelisted sort expressions, NULL below every real value
SortColumns == {"time", "tokens", "cost", "failover"}

SortValue(sort, r) ==
    CASE sort = "time"     -> r.time
      [] sort = "tokens"   -> r.tokens
      [] sort = "cost"     -> IF r.amount = None THEN -1 ELSE r.amount
      [] sort = "failover" -> IF r.attempt = None THEN 0 ELSE r.attempt

\* masterAuditOrderBy: the sort column, then the newest, then the greatest id
Listed(p, a, b) ==
    LET sort == IF p.sort \in SortColumns THEN p.sort ELSE "time"
        x == SortValue(sort, a)
        y == SortValue(sort, b)
        up == p.sort \in SortColumns /\ p.dir = "asc"
    IN  \/ IF up THEN x < y ELSE x > y
        \/ x = y /\ a.time > b.time
        \/ x = y /\ a.time = b.time /\ a.id > b.id

\* MasterUsageDetail: LIMIT p.limit OFFSET offset
MasterUsageDetail(p, offset) ==
    LET before(a, b) == Listed(p, a, b)
    IN  Slice(Audited(p), before, offset, p.limit)

MasterUsageDetailTotal(p) == Cardinality(Audited(p))

\* Seeded fault: a facet keeps its own filter
WithOwnColumn(p, c) == p

\* facetParamsExcluding
WithoutColumn(p, c) ==
    [p EXCEPT !.filter = [d \in DOMAIN p.filter \ {c} |-> p.filter[d]]]

FacetValues(p, c) == {r[c] : r \in Audited(WithoutColumn(p, c))} \ {None}

\* the payloads a facet may have: whichever values ORDER BY puts first
MasterUsageDetailFacets(p) ==
    [c \in FacetColumns |->
        LET n == Min({FacetLimit, Cardinality(FacetValues(p, c))})
        IN  {V \in SUBSET FacetValues(p, c) : Cardinality(V) = n}]

StreamMasterUsageExport(p) == Audited(p)

-----------------------------------------------------------------------------
\* the parameters the handlers build from a request

PersonalParams(q) ==
    LET d == Defaults(q, Now)
    IN  [zone |-> d.zone, offset |-> d.offset, start |-> d.start, end |-> d.end,
         seat |-> q.seat, account |-> q.account, org |-> q.org,
         all |-> LocalAllScope(q, q.deployment = "personal"),
         app |-> q.app, session |-> q.session, byProvider |-> q.byProvider,
         lastRoute |-> q.lastRoute,
         model |-> q.model, protocol |-> q.protocol, unpriced |-> q.unpriced,
         limit |-> IF q.limit = None THEN RowLimit ELSE q.limit]

MasterParams(q) ==
    LET d == Defaults(q, Now)
    IN  [zone |-> d.zone, offset |-> d.offset, start |-> d.start, end |-> d.end,
         org |-> q.org]

\* of a page served at an instant
AuditParams(q, now) ==
    LET dates == DetailDates(q, now)
    IN  [start |-> dates.start, end |-> dates.end, org |-> q.org,
         filter |-> q.filter, priced |-> q.priced, keyword |-> q.keyword,
         sort |-> q.sort, dir |-> q.dir, limit |-> q.limit]

-----------------------------------------------------------------------------
NoTable == [open |-> FALSE]

Init ==
    /\ ods = {}
    /\ dwd = {}
    /\ clock = Now
    /\ reader = NoTable

\* the collector stores an event
Ingest(e) ==
    /\ e \notin ods
    /\ ods' = ods \cup {e}
    /\ UNCHANGED <<dwd, clock, reader>>

\* the projector derives its fact; a probe is acknowledged without one
Project(e) ==
    /\ e \in ods \ dwd
    /\ e.route # "canary"
    /\ dwd' = dwd \cup {e}
    /\ UNCHANGED <<ods, clock, reader>>

Tick ==
    /\ clock < MaxNow
    /\ clock' = clock + 1
    /\ UNCHANGED <<ods, dwd, reader>>

\* an auditor opens the table and gets its first page
OpenAudit(q) ==
    LET p    == AuditParams(q, clock)
        page == MasterUsageDetail(p, 0)
    IN  /\ ~reader.open
        /\ DetailAccepted(q, clock)
        /\ reader' = [open |-> TRUE, request |-> q, table |-> p, offset |-> 0,
                      matched |-> Audited(p), shown |-> page,
                      more |-> Cardinality(page) = p.limit, moved |-> FALSE]
        /\ UNCHANGED <<ods, dwd, clock>>

\* and turns the pages until one is not full: the same request at a later
\* offset, its dates taken anew at the time of each page
NextPage ==
    /\ reader.open
    /\ reader.more
    /\ DetailAccepted(reader.request, clock)
    /\ LET p      == AuditParams(reader.request, clock)
           offset == reader.offset + p.limit
           page   == MasterUsageDetail(p, offset)
       IN  reader' = [reader EXCEPT !.table = p, !.offset = offset,
                                    !.shown = @ \cup page,
                                    !.more = Cardinality(page) = p.limit,
                                    !.moved = @ \/ p # reader.table]
    /\ UNCHANGED <<ods, dwd, clock>>

CloseAudit ==
    /\ reader.open
    /\ reader' = NoTable
    /\ UNCHANGED <<ods, dwd, clock>>

Next ==
    \/ \E e \in Events : Ingest(e) \/ Project(e)
    \/ Tick
    \/ \E q \in AuditPages : OpenAudit(q)
    \/ NextPage
    \/ CloseAudit

Spec == Init /\ [][Next]_vars

-----------------------------------------------------------------------------
(***************************************************************************)
(* Properties                                                              *)
(***************************************************************************)

\* The charts depend neither on the auditor nor on its clock: the properties
\* about them compare them in the states without an open table, as of Now.
Charting == ~reader.open /\ clock = Now

Asked == {PersonalParams(q) : q \in {x \in Requests : Identified(x)}}

SumOf(groups) ==
    [f \in {"tokens", "requests", "cost", "priced", "unpriced"} |->
        LET part(k) == groups[k][f] IN SumOver(DOMAIN groups, part)]

\* what the pages of the open table promise
PagesKept ==
    /\ reader.shown \subseteq StreamMasterUsageExport(reader.table)
    /\ Cardinality(reader.shown) <= MasterUsageDetailTotal(reader.table)
    /\ ~reader.more => reader.matched \subseteq reader.shown

\* An auditor who turns the pages of a table while the projector goes on
\* writing misses no row that matched when the table was opened, and sees none
\* the export of the same filter would leave out, whatever the sort column and
\* however many rows tie on it; unless a midnight moved the dates of the table
\* between two pages, which happens to no table that names both of them
\* (repository_sql.go:1322, handlers.go:624, 706).
PagesLoseNothing ==
    reader.open =>
        /\ ~reader.moved => PagesKept
        /\ reader.moved => \/ ParseDate(reader.request.start) = None
                           \/ ParseDate(reader.request.end) = None

\* the sums of some columns are the same
Agree(columns, a, b) == \A f \in columns : a[f] = b[f]

\* What the by-agent page says of a seat is what that seat's own pages say, so
\* is its rank in the organisation, if the ranking has room for everyone, and
\* its latest route is its newest request that reached an account
\* (repository_sql.go:494, 1095, domain.go:188, 414).
PeopleAddUp ==
    Charting => \A p \in Asked :
        LET own(seat) == SumOf(PersonalByProtocolTotal("sqlite", [p EXCEPT !.seat = seat]))
        IN  p.seat # None /\ ~p.all =>
                /\ \A seat \in DOMAIN AgentRows(p) :
                       /\ AgentRows(p)[seat].usage = own(seat)
                       /\ \A o \in AgentRows(p)[seat].last, x \in ods :
                              x.seat = seat /\ x.account # None /\ x.route # "canary"
                                  => x.time <= o.time
                /\ \A org \in {s.org : s \in Seats} :
                       LET po == [p EXCEPT !.org = org]
                       IN  Cardinality(DOMAIN ByPerson(po)) <= po.limit =>
                           \A ranking \in MasterUserRanking(po) : \A k \in DOMAIN ranking :
                               k.seat # None =>
                                   LET rows == {j \in DOMAIN ranking : j.seat = k.seat}
                                   IN  Agree({"tokens", "requests", "cost", "unpriced"},
                                             SumOf([j \in rows |-> ranking[j]]), own(k.seat))

\* The charts of one page break the same usage down: by day, protocol, app,
\* session, key and model they add up to the same tokens and requests, and to the
\* same cost where they show it, and the priced and the unpriced requests to all
\* of them (domain.go:81, 239, repository_sql.go:764, 868), under the filters each
\* pair of them honours and where the chart has room for all its bars; and so do
\* the pages of the people behind it.
BreakdownsAgree ==
    /\ PeopleAddUp
    /\ Charting =>
        /\ \A p \in {MasterParams(q) : q \in AuditPages}, dialect \in Dialects :
               Agree({"tokens", "requests", "cost"},
                     SumOf(MasterTimeline(dialect, p)), SumOf(MasterByProtocolTotal(p)))
        /\ \A p \in Asked, dialect \in Dialects :
            LET total    == SumOf(PersonalByProtocolTotal(dialect, p))
                timeline == SumOf(PersonalTimeline(dialect, p))
                sessions == PersonalBySessionTotal(dialect, p)
                models   == PersonalByModelTotal(dialect, p)
            IN  /\ total.priced + total.unpriced = total.requests
                /\ Agree({"tokens", "requests"},
                         SumOf(PersonalByProtocolTimeline(dialect, p)), total)
                /\ SumOf(PersonalByAppTotal(dialect, p)) = total
                /\ Cardinality(DOMAIN BySession(dialect, p)) <= p.limit =>
                       \A chart \in sessions : Agree({"tokens", "requests"}, SumOf(chart), total)
                /\ p.app = None => Agree({"tokens", "requests", "cost"}, timeline, total)
                /\ Cardinality(DOMAIN ByModel(dialect, p)) <= ModelLimit =>
                       \A chart \in models :
                           /\ p.app = None => SumOf(PersonalByKeyTotal(dialect, p)) = SumOf(chart)
                           /\ p.session = None =>
                                  Agree({"tokens", "requests", "cost"}, SumOf(chart), timeline)

\* A client request is counted once however many upstreams were tried for it,
\* whatever order its attempts are projected in (repository_sql.go:1508).
RequestCountedOnce ==
    \A r \in dwd :
        r.request # None =>
            Cardinality({x \in dwd : SameRequest(x, r) /\ ClientRequestCount(x) = 1}) = 1

\* no offset change between the anchor of the request's offset and the end of
\* its window
Steady(p) ==
    LET from == Min({p.start * DayHours, Window(p).from})
    IN  \A t \in from .. Window(p).to - 1 : Offset(p.zone, t) = Offset(p.zone, from)

\* The range of partitions put in front of every query for PostgreSQL drops no
\* row that was asked for, whatever the zone; and a window that names its start
\* and in which the clocks do not change is cut into the same days and hours by
\* both dialects, and into none outside it (repository_sql.go:59, dbkit.go:186,
\* domain.go:556).
DialectsAgree ==
    Charting =>
    /\ \A p \in Asked :
        PersonalByProtocolTotal("postgres", p) = PersonalByProtocolTotal("sqlite", p)
    /\ \A q \in {x \in Requests : Identified(x) /\ ParseDate(x.start) # None} :
        LET p == PersonalParams(q)
        IN  Steady(p) =>
                /\ PersonalTimeline("sqlite", p) = PersonalTimeline("postgres", p)
                /\ DOMAIN PersonalTimeline("sqlite", p) \subseteq p.start .. p.end
                /\ PersonalHourlyTimeline("sqlite", p) = PersonalHourlyTimeline("postgres", p)

\* the parameters of the page a facet's value leads to
WithValue(p, c, v) ==
    [p EXCEPT !.filter = [d \in {c} \cup DOMAIN p.filter |->
                              IF d = c THEN v ELSE p.filter[d]]]

\* the values of a column that give a result under the other filters
Giving(p, c) ==
    {v \in {e[c] : e \in Events} \ {None} : Audited(WithValue(p, c, v)) # {}}

\* The values a facet of the audit table offers are ones that give a result under
\* the other filters, the current pick or not, and all of them if the payload has
\* room for them (repository_sql.go:1390).
FacetsOfferAlternatives ==
    Charting => \A p \in {AuditParams(q, Now) : q \in AuditPages} : \A c \in FacetColumns :
        \A V \in MasterUsageDetailFacets(p)[c] :
            /\ V \subseteq Giving(p, c)
            /\ Cardinality(Giving(p, c)) <= FacetLimit => V = Giving(p, c)

\* On a shared database a caller is shown its own requests and, by agent, its
\* own seat and the agents it owns, whatever scope it asks for, and never a probe
\* (repository_sql.go:154, handlers.go:830, repository.go:48).
CallerScope ==
    Charting => \A q \in {x \in Requests : Identified(x) /\ x.deployment = "team"} :
        LET p     == PersonalParams(q)
            own   == {e \in Events : IF q.seat # None THEN e.seat = q.seat
                                     ELSE IF q.org = "personal" THEN e.org = "personal"
                                     ELSE e.account = q.account}
            seats == {q.seat} \cup {s.seat : s \in {x \in Seats : x.parent = q.seat}}
            rows  == PersonalRecent(p, Cardinality(Events))
                     \cup PersonalUsageDetail("postgres", p, Cardinality(Events))
        IN  /\ rows \subseteq own
            /\ MyFacts("postgres", p) \subseteq own
            /\ \A r \in rows \cup LatestAgentRoutes(p) : r.route # "canary"
            /\ DOMAIN AgentRows(p) \subseteq seats

-----------------------------------------------------------------------------
\* The roll-up of upstream switches and the audit rows behind it agree
\* (domain.go:401): not for probe traffic, which the audit table leaves out.
StepAroundsAudited ==
    Charting => \A q \in {x \in AuditPages : x.filter = << >> /\ x.tz = NoZone} :
        LET table == AuditParams(q, Now)
            p == [MasterParams(q) EXCEPT !.start = table.start, !.end = table.end]
            causes == MasterUpstreamStepArounds(p)
            switches(c) == causes[c].switches
        IN  SumOver(DOMAIN causes, switches)
                = Cardinality({r \in Audited([table EXCEPT !.priced = None,
                                                            !.keyword = None]) :
                                  r.attempt # None /\ r.attempt > 1})

-----------------------------------------------------------------------------
\* What the comments of the code say and the code does not do

\* "Default to today in tz when omitted so the chart never returns stale data
\* from a default 30-day-ago window" (handlers.go:196): without ?date the
\* by-protocol hourly chart shows the day the hourly timeline shows.
HourlyShowsToday ==
    \A q \in {x \in Requests : Identified(x)} :
        LET p == PersonalParams(q)
            today == OneDay(p, HourlyDay(p, q.date))
            shown == OneDay(p, ProtocolHourlyDay(p, q.date))
        IN  p.app = None =>
                SumOf(PersonalByProtocolHourly("sqlite", shown))
                    = SumOf(PersonalHourlyTimeline("sqlite", today))

\* The offset of the window's start leaves an error "bounded to the single
\* transition day" (domain.go:561): a row whose SQLite date is not its local
\* date happened on the day the clocks changed.
ErrorOnTransitionDay ==
    \A p \in Asked : \A r \in StatFacts("sqlite", p) :
        DateOfLocal("sqlite", p, r.time) # LocalDate(p.zone, r.time)
            => LocalDate(p.zone, r.time) = LocalDate(p.zone, p.zone.at)

\* "reading DWD makes the unpriced rows match usage-ledger's unpriced count
\* exactly" (repository_sql.go:1018).
UnpricedRowsMatch ==
    \A p \in Asked :
        p.app = None /\ p.session = None =>
            Cardinality(PersonalUsageDetail("sqlite", [p EXCEPT !.unpriced = TRUE],
                                            Cardinality(Events)))
                = SumOf(PersonalByProtocolTotal("sqlite", p)).unpriced

\* "True server pagination (...) with a stable ORDER BY" (repository_sql.go:1339): the
\* pages lose nothing, a midnight between them or not.
PagesLoseNothingEver == reader.open => PagesKept

\* A range with a missing or malformed date is refused (handlers.go:602).
HalfRangeRefused ==
    \A q \in AuditPages :
        DetailAccepted(q, Now) => \/ ParseDate(q.start) # None /\ ParseDate(q.end) # None
                                  \/ q.start = None /\ q.end = None
=============================================================================
