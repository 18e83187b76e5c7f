-------------------------- MODULE MCUsageQueries --------------------------
(***************************************************************************)
(* Instances of UsageQueries: an owner and its agent, a colleague, and a   *)
(* personal key, over six days of four hours.                              *)
(***************************************************************************)
EXTENDS UsageQueries

MCSeats ==
    {[seat |-> "owner", org |-> "acme", alias |-> "o", human |-> TRUE,  parent |-> None],
     [seat |-> "agent", org |-> "acme", alias |-> "a", human |-> FALSE, parent |-> "owner"],
     [seat |-> "other", org |-> "acme", alias |-> "x", human |-> TRUE,  parent |-> None]}

Plain ==
    [org |-> "acme", account |-> "ann", seat |-> "owner", vk |-> "k1",
     identity |-> None, app |-> None, provider |-> "openai", protocol |-> "chat",
     model |-> "m1", session |-> None, status |-> "success", request |-> None,
     tokens |-> 1, amount |-> 1, usd |-> TRUE, scope |-> "normal",
     billing |-> "org_and_user", route |-> "cli", attempt |-> None,
     reason |-> None, anomaly |-> None]

Event(id, time) == [id |-> id, time |-> time]

\* two upstreams fail one request in the same instant
Tried == Event(1, 9) @@ [Plain EXCEPT !.request = "R", !.status = "error",
             !.attempt = 1, !.amount = None]
TriedNext == Event(2, 9) @@ [Plain EXCEPT !.request = "R", !.status = "error",
             !.attempt = 2, !.amount = None, !.provider = "azure",
             !.reason = "5xx"]
\* the agent's key serves two identities; the later request arrives first
AgentLate == Event(3, 16) @@ [Plain EXCEPT !.seat = "agent", !.account = "pool",
             !.vk = "k2", !.identity = "i1", !.app = "claude", !.session = "s1",
             !.tokens = 2, !.usd = FALSE]
AgentEarly == Event(4, 10) @@ [Plain EXCEPT !.seat = "agent", !.account = "pool",
             !.vk = "k2", !.identity = "i2", !.model = None, !.tokens = 2, !.amount = 2]
\* a colleague's, set aside for review
Disputed == Event(5, 13) @@ [Plain EXCEPT !.seat = "other", !.account = "bob",
             !.model = "m2",
             !.scope = "excluded", !.anomaly = "owner", !.billing = "org_only"]
\* the owner's, today, without a price, a provider or a route
Today == Event(6, 20) @@ [Plain EXCEPT !.provider = None, !.amount = None,
             !.route = None]
Probe == Event(7, 21) @@ [Plain EXCEPT !.route = "canary"]
Personal == Event(8, 12) @@ [Plain EXCEPT !.org = "personal", !.account = None,
             !.seat = None, !.model = "m2", !.billing = "user_only"]

MCEvents == {Tried, TriedNext, AgentLate, AgentEarly, Disputed, Today, Probe, Personal}

East == [before |-> 1, after |-> 1, at |-> 0]
Spring == [before |-> -1, after |-> 0, at |-> 9]
Autumn == [before |-> -1, after |-> -2, at |-> 18]

Ask ==
    [seat |-> None, account |-> None, org |-> None, tz |-> NoZone,
     start |-> None, end |-> None, date |-> None, scope |-> None, app |-> None,
     session |-> None, byProvider |-> FALSE, lastRoute |-> FALSE, model |-> None,
     protocol |-> None, unpriced |-> FALSE, limit |-> None, deployment |-> "team"]

MCRequests ==
    {[Ask EXCEPT !.seat = "owner", !.start = 1, !.end = 5, !.lastRoute = TRUE],
     [Ask EXCEPT !.seat = "owner", !.tz = East, !.end = Malformed, !.byProvider = TRUE],
     [Ask EXCEPT !.seat = "owner", !.account = "ann", !.tz = Spring, !.start = 1],
     [Ask EXCEPT !.account = "ann", !.tz = East, !.start = 2, !.end = 2, !.date = 2],
     [Ask EXCEPT !.seat = "agent", !.tz = Autumn, !.start = 2, !.end = 3],
     [Ask EXCEPT !.account = "pool", !.start = 2, !.app = "claude"],
     [Ask EXCEPT !.seat = "agent", !.start = 2, !.session = "s1", !.limit = 1],
     [Ask EXCEPT !.org = "personal", !.scope = "all", !.start = 3],
     [Ask EXCEPT !.org = "personal", !.scope = "all", !.start = 1,
                 !.deployment = "personal"],
     [Ask EXCEPT !.start = 1]}

Table ==
    [org |-> "acme", tz |-> NoZone, start |-> None, end |-> None, days |-> 3,
     filter |-> << >>, priced |-> None, keyword |-> None, sort |-> None,
     dir |-> "desc", limit |-> 2]

MCAuditPages ==
    {[Table EXCEPT !.start = 1, !.end = 5, !.sort = "tokens"],
     [Table EXCEPT !.start = 2, !.end = 4, !.filter = [model |-> "m1"],
                   !.sort = "cost", !.dir = "asc", !.limit = 1],
     [Table EXCEPT !.days = 9, !.filter = [seat |-> "owner", vk |-> "k1"],
                   !.priced = "unpriced", !.keyword = "m1", !.limit = 1],
     [Table EXCEPT !.start = 3, !.keyword = "x", !.limit = 1],
     [Table EXCEPT !.start = 5, !.end = 2]}
=============================================================================
