# TLA+ verification of aikey-data

This directory specifies the data plane of aikey-data (`../src`): the
collector-service, which takes usage events from proxies over HTTP and turns them
into billing facts, and the query-service, which reads them. The modules are
translated from the Go code and its SQL; TLC checks them on small instances, and
TLAPS proves the main safety results for every value of the constants.

1. [The system](#1-the-system) and what makes each part correct
2. [Modules and code](#2-modules-and-code)
3. [What the runs check](#3-what-the-runs-check)
4. [What is proved](#4-what-is-proved)
5. [What the models leave out](#5-what-the-models-leave-out)
6. [Plan](#6-plan)

## 1. The system

`CS` stands for `collector-service/internal`.

| Part | Code | State | Operations | Correct when |
|---|---|---|---|---|
| Usage ingest | `CS/api/ingest.go`, `CS/ingest/service.go`, `CS/ingest/repository_sql.go` | `usage_event_ods` (unique per org and event id), `usage_source_watermark` (per org and source: contiguous_seq, max_seen_seq, client_allocated_seq, stream_floor_seq, updated_at) | `IngestBatch`: one transaction, else a replay event by event; `AdvanceWatermark` per org; the answer with contiguous_seq | an answer never lets the proxy prune what is not stored or ledgered; high-water marks do not fall |
| Gap diagnostics | `CS/api/gaps.go`, `CS/api/completeness.go` | the same rows, `usage_known_loss_ledger` | `GapSeqs`, `ConfirmLost`, `ApplyStreamFloor`, `ScanNow` | only what is really lost is ledgered; a terminated span is not; the floor and contiguous_seq agree |
| Integrity scan and promotion | `CS/integrity/integrity.go`, `CS/projector/worker.go` | reads the rows | classify; ledger stale gaps and advance the row | every sequence number ends stored, ledgered or terminated |
| Projector | `CS/projector/worker.go`, `CS/projector/repository_sql.go` | dwd_status, dwd_retry_count of each ODS row; `usage_fact_dwd`; the task's checkpoint | fetch, project in one transaction, else one by one; retry, dead letter | every row settles; a projected row has its fact; none is given up early |
| Quota materializer | `CS/quota/*.go` | `quota_counter`, loaded subjects, `account_sync_versions` | `OnFact`: recompute the counters from the facts, record thresholds, alert, push | counters are the sum over the facts; each crossing is recorded, and alerted once |
| Enrichment | `CS/projector/enricher.go`, `cached_control_reader.go`, `generation_scope.go`, `snapshot_repository.go`, `unpriced.go` | a TTL cache of control events, a queue of unpriced models | a fact from a row, the control snapshot valid at its time and the price catalogue | cached and direct lookups agree; a price is that of the event's time |
| Conversation audit | `CS/conversation/*.go` | records, sessions, per-source watermark, known loss | `IngestBatch`, `AdvanceWatermark`, `PromoteOnce` | as usage ingest; a sequence number has one owner |
| Partitions | `CS/partition/partition.go` | monthly partitions | create ahead, drop what is past retention | no month still retained is dropped |
| Diagnostics, pricing, auth | `CS/diagnostics`, `CS/pricing`, `CS/shared` | none of their own | classification of watermarks, tier and cost arithmetic, token check | pure functions |
| Query service | `query-service/internal/usage`, `query-service/internal/conversation`, `query-service/internal/api` | a pool of connections; it reads the raw events, the facts, the reporting view, the seats, the turns and the session prompts | personal charts and lists, the organisation's charts, the audit table with paging, sorting and facets, its export; seats, sessions and threads of conversations, their exports | charts of one window add up to the same usage; a request counts once; paging loses no row; days and hours are the caller's; a caller sees its own; an export is complete; every request ends |
| Start-up and tools | `cmd/`, `appkit/`, `config/`, DDL | none | wiring, one-off re-projection, generators | - |

**How the parts interact.** The proxy (not in this repository) numbers its events
per source, keeps them in a WAL and prunes the WAL up to the contiguous_seq of an
answer. Ingest writes ODS rows and the watermark. The projector polls the ODS and
writes facts; each new fact calls the materializer on the same goroutine. The
same goroutine runs the gap scan on its own ticker, and an HTTP request
(`ScanNow`) runs the scan too. The query service only reads, in statements of its own, what the collector is
writing at the same time. The control service (not in this repository) writes the
control events that enrichment reads.

**What is hard.** HTTP handlers share a connection pool and nothing but the batch
insert runs in a transaction, so the watermark of one source is read, walked from
and written by statements of several goroutines in any order; answers are lost or
read late; a commit may report an error and have taken effect; the projector
replays what a transaction did; the process may stop between a commit and the
calls that follow it; retries and scans depend on clocks. Control events are
written after the usage they govern, and are cached; pages of a table are separate
queries; a time zone changes its offset within a window. The `hazards` of
PROJECT.json list each with its line.

## 2. Modules and code

| Module | Content |
|---|---|
| `UsageDelivery` | proxy, usage ingest, gap diagnostics, scan and promotion |
| `MCUsageDelivery` | its instances |
| `UsageDeliveryProofs` | its theorems: it implements the contract and so loses nothing; high-water marks; the ledger; floors and losses, up to the races the model names |
| `Projection` | projector and quota materializer |
| `ProjectionProofs` | its theorems |
| `MCProjection` | its instances |
| `DeliveryContract` | what both delivery paths promise, abstractly |
| `Conversation` | conversation-audit ingest, watermark and known loss |
| `ConversationProofs` | its theorems, and that it implements the contract and so loses nothing |
| `MCConversation` | its instances |
| `Pricing` | the price table as operators: layers, canonical names, tiers, cost, edge summary |
| `Enrichment` | control-event cache, verdicts, prices of facts, unpriced models, price snapshots; extends `Pricing` |
| `EnrichmentProofs` | its theorems |
| `MCEnrichment` | its instances |
| `QueryParams` | parameters, defaults, time zones and windows of the query service, as operators |
| `UsageQueries` | its usage pages over the tables, and an auditor who turns pages; extends `QueryParams` |
| `UsageQueriesProofs` | its theorems |
| `MCUsageQueries` | its instances |
| `ConversationAudit` | the stored turns and session prompts, the conversation pages over them, an auditor who turns pages or downloads an export |
| `ConversationAuditProofs` | its theorems |
| `MCConversationAudit` | its instances |
| `QueryPool` | the connections the conversation pages and exports share |
| `QueryPoolProofs` | its theorems |
| `FiniteCollections` | lemmas for the proofs: the least and greatest of a set, ranks and the pages they make, sums over sets |

Operators marked "Seeded fault" are a plausible bug in the definition that follows
them. No specification uses them: each is put in the place of that definition to
see the property it is meant for fail (the `mutants` of PROJECT.json).

### UsageDelivery

One source. Sources share no row and every query names its source, so they are
independent; its events may go to several orgs (`OrgOf`), which share the ODS and
ledger presence but have a watermark row each, as in `presentSeqSet` and
`AdvanceWatermark`.

A handler is a process in `Procs`, its program counter and locals a record in
`req`; one SQL statement is one action:

| Actions | Code |
|---|---|
| `SendBatch`, `BatchTxCommit`, `BatchTxFails`, `ReplayEvent`, `BatchReply` | `HandleBatch`, `IngestBatch`, `ingestBatchTx`, the replay, the 200 or 503 |
| `AdvanceRead`, `AdvanceZip`, `AdvanceMaxSeen`, `AdvanceWrite` | the four statements of `AdvanceWatermark` |
| `GapsRow`, `GapsEnumerate` | `GapSeqs` |
| `SendConfirmLost`, `ConfirmCeiling`, `ConfirmPresent`, `RecordLoss` | `ConfirmLost`, `RecordKnownLoss`, then an advance |
| `DeclareFloor`, `FloorUpdate`, `FloorSeed`, `FloorRead` | `ApplyStreamFloor` and its answer |
| `Scan`, `Enumerate`, `RecordLoss` | `scanAndPromote`, `promoteKnownLoss` |
| `Age` | updated_at passing KnownLossTimeout |
| `StatementFails`, `Restart` | an SQL error a handler logs; the process stopping |

The proxy is external, and the model takes of it only what the collector's code
and comments rely on: sequence numbers are handed out once and in order
(`Issue`; one may be reserved and lost before it reaches the WAL), it prunes
logged events up to an answer, it switches streams with an empty WAL and issues
nothing until every org's row has acknowledged the floor, and, when
`TrustClient`, it confirms as lost the part of a gaps answer that its WAL does
not hold. With `TrustClient = FALSE` it confirms any numbers.

Some reads are merged. `presentSeqSet` is two queries (ODS and ledger) and one
step here: both tables only grow, and what the second query adds between the two
is what a read at the second moment sees, so the merged read has the outcome of
either order for every number but one that moves from neither to both, which no
property distinguishes. `raced` is a history variable, which no guard reads: the
races that were lost, and by whom, as the Races of the module names them (a floor's
INSERT overrun by another handler's; contiguous_seq lowered by an advance that read
it earlier; a number stored after a handler had found it absent; a number claimed as
lost that was never an event's and that no gaps answer had named). The page size of `GapSeqs` is a client limit below the
scan limit; the model's answer is the whole window. The row that
`ApplyStreamFloor` seeds gets updated_at from its column's default, age "null"
here: its ceiling is 0 until the first upsert sets updated_at, so it is not
promotable whatever its age.

### Projection

One worker ("single instance only"), one action per stretch of code with one
effect that survives a crash. Ingest (`Arrive`, in any order of ods_id), the
administrator (`Enable`) and failures act between its steps.

| Actions | Code |
|---|---|
| `FetchPending` | `scanOnce`, `fetchPendingTpl`; which retries are due is a choice |
| `TxCommit`, `TxFails` | `projectBatchTx`; an attempt that fails was rolled back, or committed and reported an error |
| `ProjectFails`, `ProjectInsert`, `MarkProjected`, `MarkFails`, `Checkpointed` | `projectPerEvent`, `projectOneOn`, `handleErrorOn` |
| `OnFact` | `ensureConfig` (fresh, reloaded, or failed) and `applicable` |
| `ApplyToSubject`, `Recompute`, `Cross`, `Mark`, `CrossDone` | the three stages of `applyToSubject` |
| `PostEnds` | the goroutine `NotifyCrossing` starts: its POST reaches control, or not |
| `Restart` | the process stopping anywhere |

An alert is handed over (`posts`), and then has arrived (`alerts`) or not (`unsent`, a
history variable): nobody waits for it and nobody repeats it. Rules may be any set: several
may limit one metric and period, and thresholds may share a percentage, in which case
the first the code looks at speaks for all (`Newly`).

`covered[b]` is the set of facts that a counter's last SUM added up, from which
`Used` computes the amount; a counter is stale when it differs from the facts of
its bucket that count now. `interrupted` is a history variable: a failure has cut
quota work short. `faults` bounds failures and restarts by `MaxFaults`.

### Conversation

The conversation channel's twin of `UsageDelivery`, with its own tables. It
differs where its code does: what is present is asked org by org
(`presentSeqSet`), so each row has its own set of present numbers; a number can be
claimed by two turns (a vault that was copied, so that two proxies use one
source_id), of which the later is stored and flagged; there is one worker for known loss, and no
declaration of floors. A 200 also moves the proxy's cursor (`acked`), after which
the turn is not sent again: hence `AckedStored`. `refused` holds the turns that
`validate` or a NOT NULL or CHECK constraint rejects for good.

| Actions | Code |
|---|---|
| `SendBatch`, `IngestInTx`, `Commit`, `TxFails` | `HandleBatch`, `ingestBatchTx`; what fails is rolled back, or committed and reported an error |
| `SeqOwner`, `InsertRecord`, `RecordFails` | `ingestPerRecord`, `ingestOne`, `rejectedResult` |
| `Reply` | the 200 or 503, delivered or lost |
| `AdvanceRead`, `AdvanceZip`, `AdvanceMaxSeen`, `AdvanceWrite` | `advanceWatermarks`, `AdvanceWatermark` |
| `Scan`, `Enumerate`, `RecordLoss` | `PromoteOnce`, `RecordKnownLoss` |
| `Age`, `StatementFails`, `Restart` | last_event_at passing the timeout; an SQL error that is logged; the process stopping |

The reads of one transaction are one step: the records of a batch are independent
but for those that claim one number. Other handlers' commits between that step and
`Commit` are kept, which is what makes a quarantine decision stale.

### DeliveryContract

Four sets of events: what the proxy keeps, what it ever logged, what the collector
stores, and what it answers for. `Log`, `Store`, `WriteOff` and `Forget` are all that
may happen to them: `Forget` asks that what is forgotten is answered for, `Store`
that what is stored was logged. `UsageDelivery!Contract` maps `kept` to the WAL and
`accounted` to what is stored or ledgered; `Conversation!Contract` maps `accounted`
to the turns refused for good and those whose number is stored or written off.
Conversation numbers may be claimed twice, hence `Store` may answer for more than it
stores. `ImplementsContract` of either module is the refinement.

### Enrichment and Pricing

Rows are those of the ODS that the projector may meet (`OdsRows`, chosen in `Init`);
`Publish` and `Revoke` are the control service, external, of which the model takes
that ranges of one key do not overlap. Amounts are small integers.

| Actions and operators | Code |
|---|---|
| `Project`, `Replay`, `LookupFails` | `Enrich` of a row whose fact is inserted; in an attempt that is rolled back; with a failed read |
| `Hit`, `Fresh`, `Remember` | `cachedControlEventReader` over an LRU cache |
| `Ownership`, `Identity`, `NoKey`, `VaultKey`, `NoControlEvent`, `Scoped` | `applyControlEvent`, `enrichFact`, `applyGenerationScope` |
| `Lookup`, `Canonical`, `Tiered`, `Cost`, `Summary` | `Resolver.Lookup`, `buildCanonicalIndex`, `applyTier`, `ComputeCost`, `buildSummaryFrom` |
| `Enqueue`, `Drain` | `UnpricedQueue` and its upsert |
| `Start`, `Ensured` | the process starting; `EnsureSnapshot`, which may fail at either statement |

A row's total of tokens is a column of its own, which may be NULL and which nothing in
the code ties to the others (`TotalTokens`).

An entry of the cache carries, as history, the table as it was when it was read;
`misses` and `lost` are history too. `replays`, `MaxNow` and `MaxStarts` are bounds.

### QueryParams and UsageQueries

One operator per query, with the query's name; `Ingest` and `Project` are the
collector, and the auditor (`OpenAudit`, `NextPage`, `CloseAudit`) is the client of
the audit table, whose pages are separate requests. Time is in hours; a day has
`DayHours` of them, a date is its number of days, a time zone has at most one change
of its offset. Each chart returns its groups with the sums of tokens, requests and
cost and the counts of priced and unpriced requests; `dialect` is the database.
The charts that end in a LIMIT return whichever groups ORDER BY may keep (`Cut`). The
query service has a clock (`clock`, `Tick`), which each page of the audit table reads
anew: the auditor repeats his request, and `moved` notes, as history, that its dates
have become other ones. `RowLimit` is the default of `?limit`; `MaxNow` bounds the clock.
`usage_reporting_fact` has no DDL in this repository but that of the test fixture
(`usage/repository_sql_test.go:117`), which the model follows.

### ConversationAudit and QueryPool

`ConversationAudit` has the two tables the collector's `ingestOne` writes and the
queries of `conversation/repository_sql.go`. Ids are short sequences of code points,
because the search, the order of ids and the names in an export look inside them.
`Pages` is the set of pages a query may return: rows the ORDER BY leaves tied come in
any order.

| Actions | Code |
|---|---|
| `Ingest`, `UpsertSession` | `insertRecordOn`, then `upsertSessionOn`, whose failure does not fail the turn |
| `OpenList`, `TurnPage`; `Show` | `countGroups`, then the page's own query; the console asks for the next page while `total` says there is one (`More`) |
| `StartZip`, `ZipPrompt`, `ZipTurns` | `exportSeatZip`: the enumeration, then per session its prompt and its turns, each a query of its own |
| `Leave` | the auditor closes what is open |

A list's total and page are two statements of no transaction, and two steps: turns may
arrive between them, and `late` is how many rows they add that the total leaves out. The thread and the export of a single session
read once and are operators. A prompt that is empty and one that is absent look the
same, as they do to a reader.

`QueryPool` is the same service seen from `database/sql`: requests, what each waits
for or holds, and nothing of what the queries return. A step that takes a connection
needs a free one; `Streaming` are the exports whose enumeration is open, which hold
one connection throughout; `Busy` are the requests that run a query. `Disconnect` is
the caller going away, which ends any wait.

## 3. What the runs check

| Run | Bounds | Shows |
|---|---|---|
| `DeliveryConcurrent` | 2 handlers, 2 orgs, 2 numbers, scan limit 1, all operations, failed and ambiguous commits | `ImplementsContract`, `PruneSafe`, `ContiguousAccounted`, `HighWatersMonotone`, `FloorRecorded`, `LossIsGenuine`, `TerminatedNotLost` with handlers interleaved statement by statement |
| `DeliveryFaults` | 1 handler, 1 org, 3 numbers of which one can never be stored, scan limit 2, all operations and faults, a proxy that confirms any numbers | `LedgerBounded`, `FloorRecorded`, `TerminatedNotLost` |
| `DeliveryQuiet` | 1 handler, 2 orgs, 3 numbers, scan limit 1, fair | `QuietKnownAccounted`: a source that falls silent is fully accounted for, but for a row that stalls |
| `DeliveryFloor` | 2 handlers, 1 org, 2 numbers, batches and stream switches | `FloorHonoured` fails: an advance writes contiguous_seq back below the floor |
| `Projection` | 3 rows (two of one seat and day, one of another seat and day), batches of 2, 2 attempts, 2 faults, a pool enabled late (two rules on one bucket, a percentage shared) and a single seat | `DeadLetterEarned`, `CountersCurrent`, `AlertedAtMostOnce`, `AlertedAtLeastOnce` |
| `ProjectionSettles` | 4 rows of which one a canary and one quarantined, 2 attempts, 2 faults, fair | `ProjectedExactly`, `EverySettles` |
| `Conversation` | 2 processes, 1 org, 3 turns of 2 proxies (two claim number 2, one may be malformed), scan limit 1, any number of failed transactions, 1 other fault | `ImplementsContract`, `AckedStored`, `ContiguousAccounted`, `QuarantinedHasOwner` |
| `Enrichment` | rows alone of every ownership, path and price, and two pairs of rows; 3 control events of 2 keys, event times 0..2, a cache of 1 key, 2 instants of the clock, TTL 1, a queue of 1, 1 replay, 2 releases, 3 starts | `ServedWithinTTL`, `BilledConfirmed`, `TokensAudited`, `PricedInForce`, `UnpricedListed`, `AtMostOneOpen`, `TypeOK` |
| `UsageQueries` | 8 events in 6 days of 4 hours, 3 seats, 10 requests of the personal pages, 5 audit tables with pages of 1 or 2 rows, of which one by a number of days and one from a date on, facets of at most 2 values, a clock that passes midnight | `PagesLoseNothing`, `BreakdownsAgree`, `RequestCountedOnce`, `DialectsAgree`, `FacetsOfferAlternatives`, `CallerScope` |
| `ConversationAudit` | 7 turns of 3 days in 2 organisations, of 2 seats (old proxy, new proxy, pool key, no session, one session id used by both), 10 requests, pages of 1 or 2 rows | `PagesLoseNothing`, `TenantScope`, `ViewsAgree`, `ZipComplete` |
| `QueryPool` | 2 exports of at most 2 sessions, 2 lists, 3 connections, fair | `NobodyStuck`, `RequestsEnd` |
| `PoolExhausted` | the same with 2 connections | `RequestsEnd` fails: two exports wait for each other |

**Why the bounds are enough.** Two handlers are the least that race, and every
race in this code is a pair: a read and a write of one row. Two orgs are needed
because presence is shared and rows are not. Scan limit 1 with 2 numbers makes
the window end below the last number, so a walk stops at its limit and not at a
hole; 3 numbers with limit 2 put a hole below, inside and above the window, and limit 1
lets a row of `DeliveryQuiet` lag by more than a window. Of the races in `raced`, an
advance overtaken by another and a number overtaken by its event occur in
`DeliveryConcurrent`, a claim of the proxy's own in `DeliveryFaults`; a declaration is
overrun only with two orgs and three numbers, where the race needs both handlers and
no other operation than batches and switches (751 000 states, in which `FloorRecorded`
and `TerminatedNotLost` hold): the theorems cover it. A terminated number is ledgered in `DeliveryFaults`,
by such a claim, and in no other run. In
`Projection`, batches of 2 over 3 rows need a second scan; the two rows of one seat
and day, one unpriced, are what debouncing collapses; thresholds 50 and 100 are
crossed by one fact each or by both at once; one fault makes a transaction fail
and be replayed, and the second makes a step of the replay fail. All bounds cap data (numbers, rows, faults); no action is
disabled by one except the supply of new numbers, rows and faults.

In `Conversation` a batch and the
worker, or two batches of the two proxies, interleave; the failed transactions are
free, so the one fault is left for a step of the replay. `DeliveryConcurrent` and
`Conversation` use the symmetry of processes, `Enrichment` that of releases; they
check no liveness.

In `Enrichment` rows do not meet but in the cache and in the unpriced queue, so
pairs of rows are taken where a pair matters (one key before and after it changed
hands; two keys in a cache of one) and every sort of row alone: which of them a row
is changes none of the others' verdicts. Three starts let two releases alternate and
come back. In `UsageQueries` the events are chosen to disagree in what the queries
group and filter by: a failover chain whose attempts fail in the same instant, a key
of two identities, a late upload, an excluded fact, a probe, missing provider,
model, seat and price. Any subset of them is stored and projected, in any order,
while the auditor reads.

`ConversationAudit` takes turns that disagree in the same way: two of one instant whose
session ids differ in a character that a file name may not have, two seats in one
session id, one seat under three keys, an organisation that uses another's names, turns
without tokens. Pages of one row make every tie and every arrival fall on a page's
border. In `QueryPool` two exports with one connection to spare are what the general
condition (fewer exports than connections) asks for at its limit, and `PoolExhausted`
is one connection beyond it; the lists compete for the spare one.

Runs do not check deadlock: with all numbers issued, all rows settled and nothing
stale, the system rests.

**Fairness.** `UsageDelivery!Fairness`: a request that was received is carried
through (weak fairness of `Handle`: goroutines are scheduled and SQL calls
return); a silent row's age passes the timeout (time); the ticker scans again and
again (strong fairness of `Scan`: a request served in between does not put it off
for ever). Nothing makes the proxy send, answers arrive or faults happen.
`Projection!FairSpec`: the worker runs (`Run`'s ticker and drain loop), and a row
that could be in a batch time and again is in one: the delay of a retry passes.
`QueryPool!Fairness`: a query answers, `database/sql` hands a freed connection to a
waiter, and writing to a slow reader ends with `WriteTimeout`, so each request goes on
when it can. As requests and sessions are finitely many, weak fairness suffices. Nobody
has to ask, and no caller has to go away: `RequestsEnd` is about a caller who waits.

The type invariants of `UsageDelivery`, `Projection`, `Conversation` and `QueryPool`,
and the strengthening `Inductive`, are theorems (section 4) and are not run as well.

**Where the code and its documentation differ.** Two runs end in a violation; the
`findings` of PROJECT.json quote the lines.

- `DeliveryFloor`: a floor declared between the read and the write of an advance stays
  in its own column and is undone in contiguous_seq, for good, as a repeated declaration
  matches no row; `ingest/repository_sql.go:417` says that "the two can never disagree".
- `PoolExhausted`: an export waits for a second connection while it holds one. As many
  exports at once as the pool has (one, if `AIKEY_DB_MAX_OPEN_CONNS` is 1) stop each
  other and every other query of the service, until a caller disconnects.

The models state further ones, as definitions that no run checks. TLC finds each of
them violated by the run of its module, with the definition in the place of the
properties:

- `UsageQueries!HourlyShowsToday`: the by-protocol hourly chart without `?date` shows the
  first day of the default window, because `Defaults` has filled `StartDate` before
  `api/handlers.go:205` tests it; `:195` says "Default to "today in tz" when omitted so the
  chart never returns stale data from a default 30-day-ago window".
- `UsageQueries!PagesLoseNothingEver`: an audit table asked for by a number of days, or
  with one date, takes its dates anew at each page (`api/handlers.go:624`), so behind a midnight
  its offset counts other rows; `usage/repository_sql.go:1339` calls it "True server
  pagination".
- `UsageQueries!ErrorOnTransitionDay`: on SQLite the one offset of the window's start
  shifts every day after a change of the clocks; `usage/domain.go:561` says the error
  stays within the day of the change.
- `Enrichment!TokensProveGeneration`: a row with tokens of an answer and no total, on a path
  that is not listed, is hidden; `projector/generation_scope.go` says "Tokens are ground truth that
  generation happened".
- `Enrichment!SameAnswer`: a "not found" in the control-event cache answers for any
  event time of its key until it expires, and the fact is written once;
  `cached_control_reader.go:40` calls the cache semantically equivalent to the SQL.
- `Conversation!LossIsGenuine` (with `MixedSeq`, `MixedProxy`, `MixedOrg`): stored turns
  are counted as lost when one proxy serves two orgs (`conversation/repository_sql.go:235`).
- `ConversationAudit!SessionPagesStable`: the session list's tiebreak is no total order
  (two sessions of the same instants), against its comment
  (`conversation/repository_sql.go:65`, `:244`), and a page may skip one; the seat list's is.
- `ConversationAudit!OwedAlwaysShown`: a seat that comes between a list's count and its last
  page is not in the total the console stops at, and pushes an older one off that page; the count's
  comment says that sharing the WHERE "keeps that invariant mechanical"
  (`conversation/repository_sql.go:148`).
- `ConversationAudit!PromptShown`: prompts are unique per organisation and session id
  but read by seat too; a second seat with that session id has none (`domain.go:25` of
  the collector: "stored once per session").
- `ConversationAudit!OneFilePerSession`: `safeFilename` maps distinct session ids to one
  entry name of the .zip (`conversation_export.go:21`: "one .md per session").
- `ConversationAudit!SeatsByActivity`: `conversation/domain.go:14` and `repository.go:9`
  name an order of the seats that the query no longer has.
- `UsageDelivery!ContiguousMonotone` fails with two handlers: the slower one writes back the
  contiguous_seq it read (`ingest/repository.go:27`: "All watermark columns are monotonic: a
  late/stale batch can never lower a high-water mark").
- `FloorRecorded`, `LossIsGenuine` and `TerminatedNotLost` except the races that `raced` names. Without
  the exception each fails: a batch creates the row between the floor's UPDATE and its
  INSERT OR IGNORE, and no row records the floor; an event is stored between the presence
  check and the ledger insert; a terminated number is ledgered after either race, or when the
  proxy claims it of its own accord.
- `KnownAccounted` fails while a source keeps sending: every batch refreshes updated_at, by
  which the age of a hole is measured (`ingest/repository_sql.go:257`: "no third state").
  `QuietAllAccounted`, the same of a source that has fallen silent, fails when a row lags by
  more than the scan window and that window is full: the scan finds nothing missing and leaves
  (`Stalled`, `projector/worker.go:335`). `QuietGapCloses` fails also where the missing numbers are
  present under another org. In all of these `PruneSafe` and `ImplementsContract` hold: what
  suffers is the row, its repair or the report of a gap, never an event.
- `Projection!EveryCrossingTold` fails: `NotifyCrossing` only starts a goroutine
  (`quota/notifier.go:59`, "Fire-and-forget"), so after a failed POST, or a stop during it, the
  crossing is on record, is not alerted again, and nobody was told.
- `Projection!CountersRestartSafe` fails: a stop between the projection's commit and
  the materializer's call leaves a counter behind its facts until the next fact of its
  bucket. `AlertedAtMostOnce` without `~interrupted` fails: the alert is sent, the
  process stops before `MarkTriggered`, and it is sent again.
- `Conversation!OneAccepted` fails with two processes: two transactions look up the
  owner of a number before either commits.
- `Enrichment!UnpricedCountAccurate` fails: a replayed projection is counted twice in
  event_count (`unpriced.go:43` calls the UPSERT idempotent across replays).
- `UsageQueries!UnpricedRowsMatch` fails: the unpriced filter lists attempts and
  non-`normal` facts, the ledger's count has requests of normal ones.
  `StepAroundsAudited` fails once a non-generation event (the instance has none) was
  tried a second time: the audit table leaves it out.
  `HalfRangeRefused` fails: `Defaults` has filled the missing date before it is tested.
- Seen while reading, not stated: the by-session chart's comments (`api/handlers.go:301`,
  `usage/repository_sql.go:814`) give a default of 10 rows, but `Defaults` has made the limit
  50 before `limit <= 0` is tested; `MasterUpstreamLatency` reads `usage_fact_ods`, a
  name no other query uses; `PersonalRecent` drops rows whose route_source is NULL
  (`NULL != 'canary'` is not true); the audit table's dates are UTC while
  `QueryParams` says "interpreted in the user's local TZ".

## 4. What is proved

Each from the ASSUMEs of the module it is about and, where the table names one in
brackets, a hypothesis of its own: of `UsageDelivery` for every
number of handlers, orgs and sequence numbers, scan limit, set of operations and faults; of `Conversation` for every set of orgs, number of
handlers, assignment of numbers, orgs and proxies to turns, scan limit and number of
faults; of `Projection` for every number of rows, batch size,
retry threshold, quota configuration and number of faults; of `Enrichment` for every
table of control events, every set of rows, size and TTL of the cache and size of the
queue; of `UsageQueries` for every set of events, seats, requests and audit tables and
every length of a page and a facet; of `ConversationAudit` for every set of turns,
requests and limits; of `QueryPool` for every finite number of
requests, size of the pool and number of sessions.

| Module | Theorem | Statement |
|---|---|---|
| `UsageDeliveryProofs` | `TypeCorrect` | `Spec => []TypeOK` |
| | `InductiveHolds` | `Spec => []Inductive` |
| | `ContiguousAccountedHolds` | `Spec => []ContiguousAccounted` |
| | `PruneSafety` | `Spec => []PruneSafe` |
| | `ContractImplemented` | `Spec => ImplementsContract` |
| | `HighWatersOnlyGrow` | `Spec => HighWatersMonotone` |
| | `LedgerStaysBounded` | `Spec => []LedgerBounded` |
| | `NoEventLost` | `Spec => []Contract!NothingLost` |
| | `FloorsRecorded` | `Spec => []FloorRecorded` |
| | `LossesGenuine` | `Spec => LossIsGenuine` |
| | `TerminatedStaysUnfiled` | `Spec => []TerminatedNotLost` |
| `ConversationProofs` | `ConversationContract` | `Spec => ImplementsContract` |
| | `NoTurnLost` | `Spec => []Contract!NothingLost` |
| | `CursorSafety` | `Spec => []AckedStored` |
| | `NoHolePassed` | `Spec => []ContiguousAccounted` |
| | `QuarantineFounded` | `Spec => []QuarantinedHasOwner` |
| | `ConversationTyped` | `Spec => []TypeOK` |
| `ProjectionProofs` | `ProjectionTyped` | `Spec => []TypeOK` |
| | `ProjectedHasFact` | `Spec => []ProjectedExactly` |
| | `NothingGivenUpEarly` | `Spec => []DeadLetterEarned` |
| | `RecordedWasAlerted` | `Spec => []AlertedAtLeastOnce` |
| | `AlertedOncePerPeriod` | `Spec => []AlertedAtMostOnce` |
| | `CountersSettled` | `Spec => []CountersCurrent` |
| `EnrichmentProofs` | `CacheServesTheTable` | `Spec => []ServedWithinTTL` |
| | `BillingConfirmed` | `Spec => []BilledConfirmed` |
| | `UsageStaysAudited` | `Spec => []TokensAudited` |
| | `SnapshotsAlternate` | `Spec => []AtMostOneOpen` |
| | `PricesInForce` | `Spec => []PricedInForce` |
| | `MissesListed` | `Spec => []UnpricedListed` |
| | `EnrichmentTyped` | `Spec => []TypeOK` |
| `UsageQueriesProofs` | `PagesComplete` | `Spec => []PagesLoseNothing` |
| | `RequestsCounted` | `Spec => []RequestCountedOnce` |
| | `FacetsOffer` | `Spec => []FacetsOfferAlternatives` |
| | `CallersScoped` | `Spec => []CallerScope` |
| | `ChartsAgree` | `Spec => []BreakdownsAgree` |
| | `SameInBothDialects` | `Spec => []DialectsAgree` [`NoDateSkipped`] |
| `ConversationAuditProofs` | `ListsComplete` | `Spec => []PagesLoseNothing` |
| | `SeatViewsAgree` | `Spec => []ViewsAgree` |
| | `ExportComplete` | `Spec => []ZipComplete` |
| | `TenantsApart` | `Spec => []TenantScope` |
| `QueryPoolProofs` | `PoolTyped` | `Spec => []TypeOK` |
| | `PoolNeverStuck` | `Spec => []NobodyStuck` |

`PruneSafe` and `ContiguousAccounted` are not inductive: what will be written to a
row or sent to the proxy is, some steps earlier, a local of a handler. `Inductive`
adds that the contiguous value of a handler between two statements
(`ReadsAccounted`), an answer on its way (`RepliesAccounted`) and a declared floor
(`DeclarationsSettled`) are accounted for; that floors only cover numbers settled
at the proxy (`FloorsSettled`, which needs `StreamSettled` and `NumbersInOrder`);
that the events of a batch in flight were logged (`BatchesLogged`); and that an
absent row is empty. The argument is that ODS, ledger and floors only
grow, so what was accounted for when it was read still is when it is used: this is
why a lost update lowers a row and still cannot make the proxy prune too much.
The proof has one
step per action, and under it one per conjunct the action can disturb.

**The contract.** `ContractImplemented` is a step simulation: the handlers' statements
that change neither the WAL nor the ODS nor the ledger stutter; a commit is `Store`
(`BatchesLogged`: what is stored was logged), the ledger's insert `WriteOff`, the
proxy's prune `Forget`, whose condition is `RepliesAccounted`. The contract's own
`NothingLost` is inductive in it, so the simulation carries it over to the code at
once: `NoEventLost`, and `NoTurnLost` for the conversations.

**High waters and ledger.** `HighWatersMonotone` needs no more than types: every
statement that writes those columns takes the greater of the old and the new value in
the statement itself. `LedgerBounded` needs that a handler which is about to ledger
numbers has only allocated ones in hand (`RequestsBounded`), and so has the answer the
proxy confirms from: the allocator never falls, so a bound that held when a row was
read holds when the ledger is written. The run `DeliveryFaults` checks it of one
handler, the theorem states it of any number, and both of a proxy that confirms anything.

**Floors and losses.** `FloorRecorded`, `LossIsGenuine` and `TerminatedNotLost` say that
only the races `raced` names undo what they promise, and the proofs that nothing else
does, for any number of handlers, every fault and a proxy that is not trusted. The
invariant (`RacedInv`) is again about what stands between two statements: where no race is
noted, no row's floor is above its contiguous_seq (`FloorsHeld`), a row that has
acknowledged the floor, or is about to, holds it (`FloorsAcknowledged`,
`AnswersFloored`), and what a handler is about to write off is not stored
(`WriteOffsAbsent`). The first two properties are read off. `TerminatedNotLost` needs
more (`IssuedInv`): of a number not yet handed out, or given up by a floor still being
declared, no row and no request knows (`UnannouncedAhead`, `RequestsUnheard`), so neither
a scan nor a gaps answer names it, as long as the ranges they have read start above the
floor (`RangesNamed`, `LossesExcused`); what is ledgered without having been named is a
claim of the proxy's own, which the history has noted.

**Conversation.** One invariant, `Inv`, carries all of them. It is about what a
handler holds between two statements, the set `Good`: its turns were logged; the turns
it will answer 200 for are dealt with, but for those still to be replayed; the
contiguous value it read or walked to has no hole of its org below it (`Reached`), and
the one it will answer has none of any org (`Answerable`). As records and ledger only
grow (`Grows`), `Good` only grows (`GoodKept`), so what one handler holds survives
whatever the others commit; that is the whole of the argument about interleavings, and
each action is left with the process that takes it. `QuarantinedHasOwner` needs that a
decision to flag a turn has a reason which survives until it is carried out
(`Founded`): a stored turn of the number, or a turn of the same transaction that is not
flagged, which is the least of them (`DecisionsFounded`). The contract then follows
step by step, as for `UsageDelivery`; `Forget` covers both ways to let go of a turn,
the cursor and the prune.

**Projection.** `ProjectedExactly` and `DeadLetterEarned` are proved together, as
`Settling`: a quarantined row is never in hand (`QuarantineKept`); between the insert
of a replayed record and its mark the fact is there (`InsertedFirst`), which is where a
failed mark or a stop leaves it; and a row in hand has the retry count it was fetched
with, or one more (`RetriesCounted`), because a transaction may have taken effect and
been reported as failed. A row one retry short of the threshold is therefore not given
up twice. The alerts need the order of the three stages: `AlertFirst` says that what is
recorded, or is about to be, was handed over, and has arrived, is on its way or was lost by
its post; `AlertOnce` that what was alerted is recorded or about to be, as long as nothing has
cut the work short. Both rest on `NewlyFacts`: what the code finds newly crossed is exactly
what is crossed and not on record, although thresholds that share a percentage share its
record.

`CountersSettled` is about what remains to be done (`Current`). A bucket is `Owed` a sum
while a call, a subject or a bucket that stands for it is in the worker's hands; a counter
that is not owed has summed its facts (`Summed`); what is recorded was crossed, and what
was crossed is recorded unless it waits to be looked at or marked (`Recorded`); a hard
block among it was pushed or is about to be (`Blocked`); all of it unless quota work was
cut short, and the state says so. Debouncing is sound because
collapsing calls leaves the bucket owed. What a counter adds up to is the number of
units under its facts (`Used`, a cardinality): it grows with the facts, so a threshold
once crossed stays crossed and needs to be recorded once. Of rules next to nothing is
assumed, as the code validates nothing of them: limits and percentages are any number,
several rules may limit one bucket, and thresholds may share a percentage. A counter then
exists, and can have crossed something, only where a fact has made its row; and of a
percentage whose thresholds differ in what they ask for, the first one's alert and block
are the only ones. The properties say so.

**Enrichment.** `ServedWithinTTL` rests on `NoOverlap`: `Publish` and `Revoke` keep the
ranges of a key apart, so at most one event of a key covers a time (`FindUnique`), and
every table of the history is such a table. A cached entry is what the table named of
its key at some time gone by (`CacheOk`). If it still covers the row's time, it is
therefore the one that table named for the row, although it was read for another.
`BilledConfirmed` and `TokensAudited` hold of every fact when it is made, whatever the
answer was, and no step changes a fact (`TokensAudited` is about the row's own total,
whatever its other columns count); so does `PricedInForce`, for which the proof
showed that an organisation without a name has no private prices and that a native
entry of the list wins over every other of its canonical name, not only over the first.
`AtMostOneOpen` is inductive but for what it excludes, which `OneOpen` keeps as a flag.
`UnpricedListed` is an account: every miss of a model is in its event_count, in the
queue, or the model is among those that lost one (`Accounted`), and each step moves it
from one to the next.
`TypeOK` needs that the list by recency names each cached key once, so that what is
evicted from its end leaves the two the same size.

**The usage pages.** A page is a set of ranks: `Slice` takes the rows before which
`offset` up to `offset + limit - 1` others stand. In a finite set under a linear order
ranks are distinct and leave no gap (`RankFacts`, `SliceFull`), and the audit table's
order is linear because it ends in the id (`ListedLinear`). `PagesComplete` rests on one
invariant, `Paging`: a row that matched when the table was opened and has not been shown
stands, among the rows that match now, at or behind the end of the last page. Rows that
arrive can only push it back (`PushedBack`), a page shows what stands on it, and a page
behind which a row stands is full, so an auditor who stops at a page that is not full
has missed none. The export is the same filter without a limit, so what he saw is in it.
All this is of pages of one table: each page takes its dates anew, and they stay the same
if both are named (`SameTable`); if not, a midnight may have moved them, which the
auditor's record says (`moved`) and the property excepts.
`RequestsCounted` is the same argument at the other end: of the attempts at a request,
linearly ordered by `Decides`, one comes first (`OneFirst`). `FacetsOffer` is about the
filters: dropping a column's own and adding one value narrows to the rows with that
value (`ValueNarrows`). Stating it for every size brought in the limit of 200 values,
which the model had left out.

`SameInBothDialects` is arithmetic. The extra range of partitions drops nothing because
division by the day's length is monotone (`NothingPruned`). `OneOffset` is the case
distinction behind the rest: in a window whose clocks do not change, from the instant
the offset is taken at onwards, that offset is the one of every row, and the row's local
date lies within the window. It needs a hypothesis the run could not have shown:
`NoDateSkipped`. In a zone that skips a whole date (Samoa, 30 December 2011) the window
of that date is the day before, whose rows both dialects file under a date outside the
window; TLC confirms it on an instance with such a zone.

**The pool.** A step that takes a connection needs a free one and adds one holder
(`OneMoreUsed`), every other step adds none (`NoMoreUsed`); so the pool is never
overdrawn. When nobody runs a query only the exports hold anything, one connection
each, so with fewer exports than connections one is free (`SomeoneGoesOn`). That is
the condition under which the run finds `RequestsEnd` to hold.

**The conversation pages.** Two invariants serve all four theorems: a prompt that is
stored is that of a stored turn of its seat and session (`Stored`), and the auditor
carries the request he made (`Fields`). `TenantsApart` adds that every key shown is one
of a turn of his organisation (`ShownOwn`).

`ExportComplete` follows a turn that was there at the start through the queries of the
export. It is on its way (`OnItsWay`, in `ZipSound`): its session is still to come, or
its entry is written and waits for its turns, or the entry has it. Each of `ZipPrompt`
and `ZipTurns` moves a turn from one to the next; since rows are never taken away, the
turns query of a session finds what the enumeration had seen.

`ListsComplete` is about offsets into a list that changes between two pages, and between
a page and its count. In a quiet
database what has been shown is what stands before the offset, and no page shows a row
twice (`SeenAhead`); this holds as long as the order decides between any two rows, as it
does for seats (`SeatsDecided`) and, while no two tie, for sessions. While turns arrive,
rows move. A seat that got no turn keeps its row, and every other row that stood before
it in a descending list still does, with the greater numbers it has now (`SeatsMoveUp`):
so a seat without a new turn is only pushed back, never onto a page that has been passed
(`SeenOrAhead`). Of an ascending list neither the code nor the property promises it. The
auditor stops at a page whose end reaches the total that was counted before it. Behind that page stand
as many rows as the list has grown by since the count, at most (`UnseenFew`), and that is
the number `late`: none in a quiet database, and none if nothing came between the two
statements. An instance in which one comes shows that the property cannot say less
(`OwedAlwaysShown`, section 3).

`SeatViewsAgree` is arithmetic over sets: sums by session are sums over the seat's turns
(`SessionsAddUp`), a thread's order is linear because it ends in the id
(`TurnsLinear`), and a page is a stretch of it (`ThreadPage`). The proof found two statements too narrow for data the
instance does not have. A seat whose label is empty is not found by searching for it, as
an empty term is no search; the property now excludes it. The property had compared the
first two pages of a thread; it now says of each page what is on it.

**Sums.** `BreakdownsAgree` and `ViewsAgree` compare folds over sets, which are defined
by recursion. `FiniteCollections` proves what is needed of them without an induction
theorem: strict inclusion of finite sets is well-founded, so a set of subsets for
which a law fails would have a least one (`SmallestSubset`), and taking one element
out of it gives a smaller one. `SumUnion` and `SumOfGroups` are the two laws used:
a chart's bars are disjoint and cover its facts, so they sum to the whole
(`ChartAddsUp`), whatever the chart groups by. A chart that is cut off by a LIMIT shows all its
groups as long as there is room for them (`RoomForAll`), and the property is about those:
the by-session and by-model charts and the ranking of users. The people behind a page (`PeopleAgree`)
need that a seat's rows lie in one organisation.

Only model-checked: all liveness (`QuietKnownAccounted`, `EverySettles`, `RequestsEnd`;
fairness and ENABLED are beyond the prover), and what the code does not do: the two runs
that end in a violation, and the definitions listed with them in section 3. Every
invariant and action property of the passing runs is a theorem.

**What the theorems assume.** Nothing but the named ASSUMEs of the modules, which TLC
evaluates in every run, and the bracketed hypotheses. Most are types and sizes. Those
that say something of the data, and where the code has it from:

- `UsageQueries`: ids are distinct, and rows of one seat are of one organisation (seat
  ids are globally unique; rows without a seat may be of any). No zone is
  a day or more off UTC.
- `Projection`: the limit of a rule and the percentage of a threshold are integers, and
  thresholds are numbered in the order the code looks at them.
- `ConversationAudit`: no two turns have organisation, event id and day in common (the
  table's key is event id and day, and an insert that meets it again does nothing);
  texts are sequences of code points, and lowering a code point twice is lowering it
  once. The limits a request asks for are any integer; the defaults are positive and no
  greater than the cap, as the constants of the code are.

## 5. What the models leave out

- Copying of columns, metrics, logs, HTTP statuses beyond success and failure.
- The drop of old partitions, which removes ODS rows below contiguous_seq: the
  watermark is not walked below contiguous_seq, so presence there is not asked.
- Content-hash quarantine in `UsageDelivery` (the row is stored all the same); in
  `Projection` a quarantined row is one that is never fetched.
- In `Projection`: what enrichment computes (it succeeds or fails), the cap of 400
  rounds of one tick (time only), disabling a subject or changing its rules, and the sync_version of each seat (a
  subject is pushed or not).
- In `Conversation`: session texts (`UpsertSession`, never read back by the collector;
  a failure of it only fails the transaction, as `TxFails` does; `ConversationAudit`
  has them), records of proxies that send no source identity (stored, outside the
  delivery protocol), and batches without allocated_seq (they leave that column).
- In `Enrichment`: columns that are only copied; the parsing of model names
  (`canonicalModel` is the constant `Bare`); decimals; two prices of one model from the
  same instant (the sort may keep either); control events whose ranges overlap.
- In `UsageQueries`: `MasterUpstreamLatency` and the CSV's formatting; the order of
  a facet's values (where there are more than it may hold, any of them are kept);
  keyword search is equality instead of a substring; a seat
  keeps its org and parent; errors and deadlines of the database (a request fails).
- In `ConversationAudit`: how a turn comes to be stored (`Conversation`), turns with
  neither seat nor owner, pages beyond `offset` the console does not ask for, Markdown,
  models and byte counts; a query that fails (the list is an error; `QueryPool` has the
  export that goes on without it).
- In `QueryPool`: idle connections and their lifetime (a new one is opened when
  needed), the other pages (one query after the other, as a list), and the thread and
  export of one session, which hold one connection at a time.
- Partition maintenance (calendar arithmetic on table names, once a day), the health
  report and canary (read-only), and the query service's admin reads and marks.
- The re-projection tool, authentication and configuration: no state of their own
  that the parts above depend on.

## 6. Plan

Done: `UsageDelivery`, `Projection`, `Conversation`, `Enrichment` with `Pricing`,
`UsageQueries` with `QueryParams`, `ConversationAudit` and `QueryPool`, each with its
theorems; `DeliveryContract`, and the proofs that both channels implement
it. Left, in order of importance:

1. An administrator's marks on unpriced models, which the projector's upsert meets.
2. Partition maintenance and the classification of the health report, as operators.
