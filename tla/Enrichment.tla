----------------------------- MODULE Enrichment -----------------------------
(***************************************************************************)
(* How an ODS row becomes a fact: the control event that governs its key   *)
(* at its own time, read through a cache; the verdict on who is billed and *)
(* what the user sees; the price; and what is kept beside the facts, the   *)
(* list of unpriced models and the price snapshots.                        *)
(*                                                                         *)
(* The projector is one goroutine, the unpriced queue's writer another.    *)
(* managed_key_control_events is written by the control service, beside    *)
(* both, and so are the times: an event is projected whenever it arrives.  *)
(***************************************************************************)
EXTENDS Pricing

CONSTANTS
  OdsRows,       \* the ODS rows there may be: sequences of rows
  Events,        \* control events, with their identity and effective_from
  Control,       \* Control[e]
  MaxTime,       \* bound: event times and ranges are in 0..MaxTime
  TTL, Size,     \* of the cache: age, number of keys
  MaxNow,        \* bound: the collector's clock
  QueueSize,     \* of the unpriced queue
  MaxReplays,    \* bound: enrichments that insert no fact
  Releases,      \* price snapshots of the releases that may be started
  MaxStarts,     \* bound: starts of the collector
  Pooled         \* models the pools of the edge route to

Absent == ""                     \* a NULL column
None == "none"                   \* no control event
Keys == {Control[e].key : e \in Events}
Times == 0..MaxTime
Open == MaxTime + 1              \* effective_to IS NULL
NoFact == [at |-> -1]
NoEntry == [event |-> None, readAt |-> -1]

ASSUME EnrichmentAssumption ==
  /\ MaxTime \in Nat /\ TTL \in Nat /\ Size \in Nat \ {0}
  /\ MaxNow \in Nat /\ QueueSize \in Nat /\ MaxReplays \in Nat
  /\ MaxStarts \in Nat \ {0}
  /\ None \notin Events
  /\ \A e, f \in Events : Control[e].key = Control[f].key
                          /\ Control[e].from = Control[f].from => e = f
  /\ \A e \in Events : Control[e].from \in Times /\ Control[e].key # Absent
  /\ \A rows \in OdsRows : \A r \in DOMAIN rows :
       /\ rows[r].time \in Times
       /\ \A n \in {"input", "read", "creation"} : rows[r].tokens[n] \in Int
       /\ rows[r].total # <<>> => rows[r].total[1] \in Int

VARIABLES
  ods,        \* usage_event_ods: what the rows say
  until,      \* effective_to of each control event; 0 before it is written
  now,        \* the collector's clock
  cache,      \* per key: what was read, when, and (history) the table as it was
  recent,     \* the cached keys, least recently used first
  facts,      \* usage_fact_dwd
  replays,    \* enrichments that inserted no fact
  misses,     \* per provider and model: enrichments that found no price
  queue,      \* UnpricedQueue.ch
  counts,     \* unpriced_models.event_count; no row while it is 0
  lost,       \* those of which a miss was dropped, or lost with the process
  running,    \* the price snapshot of the release that runs
  snapshots,  \* pricing_snapshots
  starts,     \* starts of the collector so far
  unclosed    \* a statement that closes old snapshots has failed

control == <<until, now>>
cached == <<cache, recent>>
unpriced == <<queue, counts, lost>>
prices == <<running, snapshots, starts, unclosed>>
vars == <<ods, control, cached, facts, replays, misses, unpriced, prices>>

Sources == {"overrides", "history", "litellm", "litellm_normalized", "unknown"}
Rows == DOMAIN ods
\* The key of unpriced_models.
UnpricedKey(row) == <<row.code, row.model>>
UnpricedKeys == {UnpricedKey(ods[r]) : r \in Rows}

TypeOK ==
  /\ until \in [Events -> 0..Open]
  /\ now \in 0..MaxNow
  /\ \A k \in Keys : cache[k] # NoEntry =>
       cache[k].event \in Events \cup {None} /\ cache[k].readAt \in 0..now
  /\ Len(recent) <= Size
  /\ {recent[i] : i \in DOMAIN recent} = {k \in Keys : cache[k] # NoEntry}
  /\ \A r \in Rows : facts[r] # NoFact =>
       facts[r].at \in 0..now /\ facts[r].price.source \in Sources
  /\ replays \in 0..MaxReplays /\ misses \in [UnpricedKeys -> Nat]
  /\ Len(queue) <= QueueSize
  /\ counts \in [UnpricedKeys -> Nat] /\ lost \subseteq UnpricedKeys
  /\ running \in Releases /\ starts \in 1..MaxStarts /\ unclosed \in BOOLEAN
  /\ snapshots \in [Releases -> {"absent", "open", "closed"}]

----------------------------------------------------------------------------
(* The control service.                                                    *)

\* Ranges of one key never overlap: an event ends the one before it, and ends
\* where the next one, if that is written already, begins.  Keys that no row
\* names are of no interest.
Publish(e) ==
  LET k == Control[e].key
      from == Control[e].from
      after == {Control[f].from : f \in {f \in Events :
                  /\ Control[f].key = k /\ until[f] > 0 /\ Control[f].from > from}}
  IN /\ until[e] = 0 /\ \E r \in Rows : ods[r].key = k
     /\ until' = [f \in Events |->
          IF f = e THEN Min(after \cup {Open})
          ELSE IF /\ Control[f].key = k /\ Control[f].from < from
                  /\ until[f] > from THEN from
          ELSE until[f]]
     /\ UNCHANGED <<ods, now, cached, facts, replays, misses, unpriced, prices>>

\* A key is revoked from a time on.
Revoke(e) ==
  /\ until[e] = Open
  /\ \E t \in (Control[e].from + 1)..MaxTime : until' = [until EXCEPT ![e] = t]
  /\ UNCHANGED <<ods, now, cached, facts, replays, misses, unpriced, prices>>

Tick ==
  /\ now < MaxNow
  /\ now' = now + 1
  /\ UNCHANGED <<ods, until, cached, facts, replays, misses, unpriced, prices>>

----------------------------------------------------------------------------
(* Reading the control event of a key at a time.                           *)

\* Seeded fault: the end of a range belongs to it.
CoversClosed(e, t, table) == Control[e].from <= t /\ t <= table[e]

\* effective_from <= t < effective_to, as the table says.
Covers(e, t, table) == Control[e].from <= t /\ t < table[e]

OfKey(k) == {e \in Events : Control[e].key = k}

\* findControlEventSQL
Find(k, t, table) ==
  LET S == {e \in DOMAIN table : Control[e].key = k /\ Covers(e, t, table)} IN
  IF S = {} THEN None
  ELSE CHOOSE e \in S : \A f \in S : Control[f].from <= Control[e].from

\* An entry answers while it is fresh: any time if it says there is no event,
\* otherwise the times its event covers.
Hit(k, t) ==
  /\ cache[k] # NoEntry
  /\ now - cache[k].readAt < TTL
  /\ cache[k].event = None \/ Covers(cache[k].event, t, cache[k].table)

Fresh(k, t) ==
  LET table == [e \in OfKey(k) |-> until[e]] IN
  [event |-> Find(k, t, table), readAt |-> now, table |-> table]

Answer(k, t) == IF Hit(k, t) THEN cache[k] ELSE Fresh(k, t)

\* The list without a key, which stands in it once or not at all.
Without(s, k) ==
  IF \A i \in DOMAIN s : s[i] # k THEN s
  ELSE LET i == CHOOSE i \in DOMAIN s : s[i] = k IN
       SubSeq(s, 1, i - 1) \o SubSeq(s, i + 1, Len(s))

\* Seeded fault: no key is evicted.
RememberAll(k, t) ==
  /\ recent' = Append(Without(recent, k), k)
  /\ cache' = [x \in Keys |-> IF x = k THEN Answer(k, t) ELSE cache[x]]

\* The cache after a lookup: the key is the most recently used, and a key too
\* many is evicted.
Remember(k, t) ==
  LET order == Append(Without(recent, k), k)
      evicted == IF Len(order) > Size THEN {order[1]} ELSE {}
  IN /\ recent' = IF evicted = {} THEN order ELSE Tail(order)
     /\ cache' = [x \in Keys |-> IF x = k THEN Answer(k, t)
                                 ELSE IF x \in evicted THEN NoEntry ELSE cache[x]]

----------------------------------------------------------------------------
(* The verdict.                                                            *)

\* Both name the field, and differently.
Disagree(row, c, fields) ==
  \E f \in fields : row[f] # Absent /\ c[f] # Absent /\ row[f] # c[f]

Verdict(completion, quality, anomaly, billing, scope) ==
  [completion |-> completion, quality |-> quality, anomaly |-> anomaly,
   billing |-> billing, scope |-> scope]

NoKey == Verdict("no_virtual_key", "partial", "pending_review", "org_only", "excluded")
VaultKey == Verdict("personal_vault_key", "partial", "none", "org_only", "normal")
NoControlEvent ==
  Verdict("no_control_event", "partial", "pending_review", "org_only", "excluded")

\* Seeded fault: the seat is not compared.
OwnershipByAccount(row, c) ==
  IF row.org # c.org
  THEN Verdict("control_event_mismatch", "invalid", "pending_review", "hold_review", "excluded")
  ELSE IF Disagree(row, c, {"binding", "credential", "provider"})
  THEN Verdict("control_event", "completed", "pending_review", "hold_review", "excluded")
  ELSE IF Disagree(row, c, {"account"})
  THEN Verdict("control_event", "completed", "late_report_abnormal", "org_only", "abnormal")
  ELSE Verdict("exact", "exact", "none", "org_and_user", "normal")

\* applyControlEvent: the checks in the order of their severity.
Ownership(row, c) ==
  IF row.org # c.org
  THEN Verdict("control_event_mismatch", "invalid", "pending_review", "hold_review", "excluded")
  ELSE IF Disagree(row, c, {"binding", "credential", "provider"})
  THEN Verdict("control_event", "completed", "pending_review", "hold_review", "excluded")
  ELSE IF Disagree(row, c, {"account", "seat"})
  THEN Verdict("control_event", "completed", "late_report_abnormal", "org_only", "abnormal")
  ELSE IF Disagree(row, c, {"revision"})
  THEN Verdict("control_event", "completed", "late_report_abnormal", "org_and_user", "normal")
  ELSE IF row.seat # Absent
  THEN Verdict("exact", "exact", "none", "org_and_user", "normal")
  ELSE Verdict("control_event", "completed", "none", "org_and_user", "normal")

\* The identity a fact carries: the row's, and what it leaves open from the
\* control event.  The account is not filled in.
Identity(row, c) ==
  [f \in {"seat", "provider", "binding", "credential"} |->
     IF row[f] = Absent THEN c[f] ELSE row[f]]

\* Seeded fault: a path the table does not know decides, tokens or not.
ScopedByPath(verdict, row) ==
  IF row.path = "other" THEN [verdict EXCEPT !.scope = "non_generation"] ELSE verdict

\* rec.TotalTokens.Int64: the row's own total, which nothing ties to the other
\* columns: <<>> for NULL, which counts as 0, or <<n>>.
TotalTokens(row) == IF row.total = <<>> THEN 0 ELSE row.total[1]

\* applyGenerationScope: a row without a total, of a path that is known and does
\* not generate.
Scoped(verdict, row) ==
  IF row.path = "other" /\ ~(TotalTokens(row) > 0)
  THEN [verdict EXCEPT !.scope = "non_generation"] ELSE verdict

\* The whole context: the input and both buckets of the cache.
Context(row) == row.tokens.input + row.tokens.read + row.tokens.creation

\* applyCost looks the price up at the row's own time, by its whole context.
Price(row) ==
  IF row.model = Absent THEN Unknown
  ELSE Lookup(row.code, row.model, row.time,
              Context(row), row.org)

Missed(row) == row.model # Absent /\ Price(row) = Unknown

\* The fact: answer is what the cache or the table said (history: of which
\* table), or NoEntry if it was not asked.
Fact(row, answer) ==
  LET c == IF answer.event = None THEN row ELSE Control[answer.event]
      verdict == IF row.key = Absent THEN NoKey
                 ELSE IF row.key \notin Keys THEN VaultKey
                 ELSE IF answer.event = None THEN NoControlEvent
                 ELSE Ownership(row, c)
  IN [verdict |-> Scoped(verdict, row), identity |-> Identity(row, c),
      price |-> Price(row), snapshot |-> running, answer |-> answer, at |-> now]

----------------------------------------------------------------------------
(* The projector.                                                          *)

\* Enqueue: what does not fit is dropped.
Enqueue(row) ==
  /\ misses' = IF Missed(row) THEN [misses EXCEPT ![UnpricedKey(row)] = @ + 1] ELSE misses
  /\ IF ~Missed(row) THEN UNCHANGED unpriced
     ELSE IF Len(queue) < QueueSize
     THEN queue' = Append(queue, UnpricedKey(row)) /\ UNCHANGED <<counts, lost>>
     ELSE lost' = lost \cup {UnpricedKey(row)} /\ UNCHANGED <<queue, counts>>

Asks(row) == row.key \in Keys

\* The answer to the row, remembered; a key of the vault, or none, is not asked
\* for.
Consult(row) == IF Asks(row) THEN Remember(row.key, row.time) ELSE UNCHANGED cached

\* r is enriched and its fact inserted.
Project(r) ==
  /\ facts[r] = NoFact
  /\ facts' = [facts EXCEPT ![r] = Fact(ods[r],
                IF Asks(ods[r]) THEN Answer(ods[r].key, ods[r].time) ELSE NoEntry)]
  /\ Enqueue(ods[r]) /\ Consult(ods[r])
  /\ UNCHANGED <<ods, control, replays, prices>>

\* r is enriched for nothing: in a transaction that is rolled back, which the
\* cache and the queue are not, or again, after a commit that took effect and
\* reported an error.
Replay(r) ==
  /\ replays < MaxReplays
  /\ replays' = replays + 1
  /\ Enqueue(ods[r]) /\ Consult(ods[r])
  /\ UNCHANGED <<ods, control, facts, prices>>

\* The read fails: nothing is cached, the row is to be retried.
LookupFails(r) ==
  /\ replays < MaxReplays
  /\ replays' = replays + 1
  /\ LET k == ods[r].key IN
       /\ k \in Keys /\ ~Hit(k, ods[r].time)
       /\ recent' = IF cache[k] = NoEntry THEN recent ELSE Append(Without(recent, k), k)
  /\ Enqueue(ods[r])
  /\ UNCHANGED <<ods, control, cache, facts, prices>>

\* Seeded fault: the row is only inserted, not counted again.
DrainInsertOnly ==
  /\ queue # <<>>
  /\ queue' = Tail(queue)
  /\ counts' = [counts EXCEPT ![Head(queue)] = @]
  /\ UNCHANGED lost
  /\ UNCHANGED <<ods, control, cached, facts, replays, misses, prices>>

\* UnpricedQueue.Run: one upsert per item, which may fail.
Drain ==
  /\ queue # <<>>
  /\ queue' = Tail(queue)
  /\ \/ counts' = [counts EXCEPT ![Head(queue)] = @ + 1] /\ UNCHANGED lost
     \/ lost' = lost \cup {Head(queue)} /\ UNCHANGED counts
  /\ UNCHANGED <<ods, control, cached, facts, replays, misses, prices>>

\* Seeded fault: the insert that found the row closes the others.
EnsuredIfPresent(s, snaps) ==
  IF snaps[s] = "absent" THEN [snaps EXCEPT ![s] = "open"]
  ELSE [x \in Releases |-> IF x # s /\ snaps[x] = "open" THEN "closed" ELSE snaps[x]]

\* EnsureSnapshot, both statements: the one that inserts s closes the others.
Ensured(s, snaps) ==
  IF snaps[s] # "absent" THEN snaps
  ELSE [x \in Releases |-> IF x = s THEN "open"
                           ELSE IF snaps[x] = "open" THEN "closed" ELSE snaps[x]]

\* The collector starts anew, with release s; a failure of EnsureSnapshot, at
\* the insert or at the closing, is logged and that is all.
Start(s) ==
  /\ starts < MaxStarts
  /\ starts' = starts + 1
  /\ running' = s
  /\ \/ snapshots' = Ensured(s, snapshots) /\ UNCHANGED unclosed
     \/ UNCHANGED <<snapshots, unclosed>>
     \/ /\ snapshots[s] = "absent"
        /\ snapshots' = [snapshots EXCEPT ![s] = "open"]
        /\ unclosed' = TRUE
  /\ cache' = [k \in Keys |-> NoEntry] /\ recent' = <<>>
  /\ queue' = <<>> /\ lost' = lost \cup {queue[i] : i \in DOMAIN queue}
  /\ UNCHANGED <<ods, control, facts, replays, misses, counts>>

----------------------------------------------------------------------------
(* Specification.                                                          *)

Init ==
  /\ ods \in OdsRows
  /\ until = [e \in Events |-> 0] /\ now = 0
  /\ cache = [k \in Keys |-> NoEntry] /\ recent = <<>>
  /\ facts = [r \in Rows |-> NoFact] /\ replays = 0
  /\ misses = [m \in UnpricedKeys |-> 0]
  /\ queue = <<>> /\ counts = [m \in UnpricedKeys |-> 0] /\ lost = {}
  /\ running \in Releases /\ starts = 1 /\ unclosed = FALSE
  /\ snapshots = [s \in Releases |-> IF s = running THEN "open" ELSE "absent"]

Next ==
  \/ \E e \in Events : Publish(e) \/ Revoke(e)
  \/ Tick
  \/ \E r \in Rows : Project(r) \/ Replay(r) \/ LookupFails(r)
  \/ Drain
  \/ \E s \in Releases : Start(s)

Spec == Init /\ [][Next]_vars

----------------------------------------------------------------------------
(* Properties.                                                             *)

Projected == {r \in Rows : facts[r] # NoFact}
Verified == {r \in Projected : facts[r].answer.event # None}

\* The control event a fact was decided by is the one the table named for the
\* row's own time, at some moment less than a TTL before the projection: cached
\* for another time, evicted, superseded or revoked meanwhile, and whichever
\* order the control events were written in (cached_control_reader.go).
ServedWithinTTL ==
  \A r \in Verified :
    LET a == facts[r].answer IN
    /\ a.event = Find(ods[r].key, ods[r].time, a.table)
    /\ facts[r].at = a.readAt \/ facts[r].at - a.readAt < TTL

\* A user is billed only for what the control event of the key confirms: nothing
\* that identifies him, in the row or filled into the fact, speaks against it.
\* And what is neither billed to him nor minted in his vault is no normal usage
\* of his (applyControlEvent).
BilledConfirmed ==
  \A r \in Projected :
    LET f == facts[r] IN
    /\ f.verdict.billing = "org_and_user" =>
         /\ r \in Verified
         /\ LET c == Control[f.answer.event] IN
            /\ ods[r].org = c.org
            /\ \A x \in {"account", "seat", "binding", "credential", "provider"} :
                 ods[r][x] \in {c[x], Absent} \/ c[x] = Absent
            /\ \A x \in DOMAIN f.identity : f.identity[x] = c[x] \/ c[x] = Absent
    /\ f.verdict.scope = "normal" /\ f.verdict.completion # "personal_vault_key" =>
         f.verdict.billing = "org_and_user"

\* A row that reports a total of tokens is never hidden as non-generation
\* traffic, whatever path it came by, nor is one whose proxy named no path; and
\* hiding a row takes nothing away from who is billed for it.  The total is the
\* one that came with the row: see TokensProveGeneration (applyGenerationScope).
TokensAudited ==
  \A r \in Projected : facts[r].verdict.scope = "non_generation" =>
    /\ ods[r].path # Absent
    /\ ods[r].total = <<>> \/ ods[r].total[1] <= 0
    /\ r \in Verified => facts[r].verdict.billing = Ownership(ods[r],
                           Control[facts[r].answer.event]).billing

\* "Tokens are ground truth that generation happened": a row that counts tokens
\* of an answer is not hidden.  It fails where such a row leaves its total out.
TokensProveGeneration ==
  \A r \in Projected :
    ods[r].tokens.output > 0 => facts[r].verdict.scope # "non_generation"

\* A fact has the price of the highest layer that applied at the row's time,
\* however late it is projected: no history entry begins between the one used
\* and the event, and a native list entry is never overridden by another one
\* that goes by its name (Lookup, buildCanonicalIndex).  A list price
\* costs what the edge estimates with, where the context is not long
\* (buildSummaryFrom).
PricedInForce ==
  \A r \in Projected :
    LET row == ods[r]
        p == facts[r].price
        H == HistoryOf(row.code, row.model)
    IN row.model # Absent =>
       /\ p.source # "overrides" /\ row.org # Absent =>
            OverridesFor(row.org, row.code, row.model) = {}
       /\ p.source = "history" => \A i \in H : History[i].from \notin (p.from + 1)..row.time
       /\ p.source \in {"litellm", "litellm_normalized", "unknown"} =>
            \A i \in H : History[i].from > row.time
       /\ p.source = "litellm_normalized" /\ Bare[row.model] \in Native =>
            p.rates = Tiered(ListPrice(Bare[row.model]), Context(row))
       /\ p.source = "litellm" /\ row.model \in DOMAIN Summary(Pooled)
            /\ Context(row) <= Threshold =>
              Cost(p.rates, row.tokens) = Cost(Summary(Pooled)[row.model], row.tokens)

Queued(m) == Cardinality({i \in DOMAIN queue : queue[i] = m})

\* A fact without a price is on the list of unpriced models or about to be,
\* unless a miss was dropped or lost; and event_count counts no miss twice
\* (UnpricedQueue).
UnpricedListed ==
  \A m \in UnpricedKeys :
    /\ counts[m] + Queued(m) <= misses[m]
    /\ m \notin lost => counts[m] + Queued(m) = misses[m]
    /\ \A r \in Projected :
         /\ UnpricedKey(ods[r]) = m /\ ods[r].model # Absent
         /\ facts[r].price = Unknown /\ m \notin lost
         => counts[m] + Queued(m) > 0

\* "UPSERT is idempotent so this stays correct across restart/replay".
UnpricedCountAccurate ==
  \A m \in UnpricedKeys :
    counts[m] <= Cardinality({r \in Rows : Missed(ods[r]) /\ UnpricedKey(ods[r]) = m})

\* However releases alternate, at most one price snapshot is open, unless a
\* statement that closes the others has failed (EnsureSnapshot).
AtMostOneOpen ==
  ~unclosed => Cardinality({s \in Releases : snapshots[s] = "open"}) <= 1

\* The cache is "semantically equivalent" to the table: what it answers, the
\* table would have answered for the same key and time.
SameAnswer ==
  \A r \in Projected : facts[r].answer # NoEntry =>
    facts[r].answer.event = Find(ods[r].key, ods[r].time, facts[r].answer.table)
=============================================================================
