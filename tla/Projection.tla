----------------------------- MODULE Projection -----------------------------
(***************************************************************************)
(* The projector worker and the quota materializer it drives.  The worker  *)
(* turns pending ODS rows into DWD facts, a batch in one transaction or, if *)
(* that fails, record by record; every new fact makes the materializer     *)
(* recompute the counters of the subjects its seat belongs to, record the  *)
(* thresholds crossed, and raise alerts.                                   *)
(*                                                                         *)
(* There is one worker (worker.go: "single instance only").  What runs     *)
(* beside it is ingest, the clock, the administrator, and failures: each   *)
(* step of the worker is a stretch of code with at most one effect that    *)
(* survives a crash.                                                       *)
(***************************************************************************)
EXTENDS Integers, FiniteSets, FiniteSetsExt

CONSTANTS
  N,                   \* bound: ODS rows have ods_id 1..N
  BatchSize,           \* rows of one scan
  DeadLetterThreshold, \* deadLetterThreshold
  MaxFaults,           \* bound: failures and restarts in a behaviour
  Canary,              \* rows of the liveness probe
  Quarantined,         \* rows whose content hash failed at ingest
  Seat, Day,           \* seat_id and UTC date of each row
  Month, Week,         \* billing period and ISO week of each day
  Usage,               \* Usage[metric][row]: tokens, and usd (0 when unpriced)
  Subjects,            \* quota subjects
  InitiallyEnabled,    \* those enabled from the start
  NoSubject,           \* filler of a worker that works on none
  Members,             \* subjectSeatIDs of each subject
  Rules                \* rules of each subject: metric, period, limit, thresholds

Records == 1..N
Days == {Day[r] : r \in Records}
Metrics == {"tokens", "usd"}

\* periodKey: any other period, weekly and monthly apart, has one key for ever.
Key(period, day) ==
  <<period, CASE period = "daily"   -> day
              [] period = "weekly"  -> Week[day]
              [] period = "monthly" -> Month[day]
              [] OTHER              -> "all">>

\* distinctPeriods
PeriodsOf(s) == {q.period : q \in Rules[s]} \ {""}

Bucket(s, m, period, day) == [subject |-> s, metric |-> m, key |-> Key(period, day)]
Buckets == UNION {{Bucket(s, m, q, d) :
                    m \in Metrics, q \in PeriodsOf(s), d \in Days} : s \in Subjects}
Pcts == UNION {{t.pct : t \in q.thresholds} : q \in UNION {Rules[s] : s \in Subjects}}

ASSUME BoundAssumption ==
  /\ N \in Nat /\ MaxFaults \in Nat
  /\ BatchSize \in Nat \ {0} /\ DeadLetterThreshold \in Nat \ {0}
ASSUME RecordAssumption ==
  /\ Canary \subseteq Records /\ Quarantined \subseteq Records
  /\ Day \in [Records -> Nat \ {0}] /\ NoSubject \notin Subjects
  /\ Usage \in [Metrics -> [Records -> Nat]]
  /\ InitiallyEnabled \subseteq Subjects
\* A threshold knows its place (at) in the list of the subject's rules, which
\* is the order the code looks at them in.  Nothing else is required of rules:
\* several may limit one metric and period, and thresholds may share a pct.
ASSUME RuleAssumption ==
  \A s \in Subjects : \A q \in Rules[s] :
    /\ q.limit \in Int
    /\ \A t \in q.thresholds : t.pct \in Int /\ t.at \in Nat
    /\ \A r \in Rules[s] : \A t \in q.thresholds, u \in r.thresholds :
         t.at = u.at => t = u

VARIABLES
  status,       \* usage_event_ods.dwd_status
  tries,        \* usage_event_ods.dwd_retry_count
  facts,        \* usage_fact_dwd: the rows that have a fact
  checkpoint,   \* usage_dwd_projector_tasks.last_scanned_ods_id
  enabled,      \* quota_subject: the enabled subjects
  cache,        \* the subjects the materializer last loaded
  loaded,       \* it has loaded them since the collector started
  rows,         \* quota_counter: the buckets that have a row
  covered,      \* quota_counter.used_amount: the facts its SUM covered
  triggered,    \* quota_counter.triggered_thresholds
  posts,        \* alerts handed over whose goroutine has not ended yet
  alerts,       \* alerts that reached control, of each bucket and threshold
  unsent,       \* history: those whose POST failed or was cut by a stop
  pushed,       \* subjects whose seats' sync_version was bumped
  work,         \* what the worker is doing
  faults,       \* failures and restarts so far
  interrupted   \* one of them cut quota work short

ods == <<status, tries>>
config == <<enabled, cache, loaded>>
mail == <<posts, alerts, unsent>>
counters == <<rows, covered, triggered, posts, alerts, unsent, pushed>>
vars == <<ods, facts, checkpoint, config, counters, work, faults,
          interrupted>>

Statuses == {"none", "pending", "retry", "projected", "dead_letter",
             "quarantined"}
Calls == [seat : {Seat[r] : r \in Records}, day : Days, moved : SUBSET Metrics]
QuotaPCs == {"call", "subject", "recompute", "cross", "mark"}
Work == [pc : {"idle", "tx", "one", "settle"} \cup QuotaPCs,
         batch : SUBSET Records, top : 0..N, fetched : [Records -> Nat], todo : SUBSET Calls,
         day : Days \cup {0}, moved : SUBSET Metrics,
         subs : SUBSET Subjects, sub : Subjects \cup {NoSubject},
         buckets : SUBSET Buckets, results : SUBSET Buckets,
         newly : SUBSET Pcts, hard : BOOLEAN]

Idle == [pc |-> "idle", batch |-> {}, top |-> 0,
         fetched |-> [r \in Records |-> 0], todo |-> {}, day |-> 0,
         moved |-> {}, subs |-> {}, sub |-> NoSubject, buckets |-> {},
         results |-> {}, newly |-> {}, hard |-> FALSE]

TypeOK ==
  /\ status \in [Records -> Statuses]
  /\ tries \in [Records -> 0..(DeadLetterThreshold - 1)]
  /\ facts \subseteq Records
  /\ checkpoint \in 0..N
  /\ enabled \subseteq Subjects /\ cache \subseteq Subjects /\ loaded \in BOOLEAN
  /\ rows \subseteq Buckets
  /\ covered \in [Buckets -> SUBSET Records]
  /\ triggered \in [Buckets -> SUBSET Pcts]
  /\ posts \in [Buckets -> [Pcts -> Nat]]
  /\ alerts \in [Buckets -> [Pcts -> Nat]]
  /\ unsent \subseteq Buckets \X Pcts
  /\ pushed \subseteq Subjects
  /\ work \in Work
  /\ faults \in 0..MaxFaults /\ interrupted \in BOOLEAN

Init ==
  /\ status = [r \in Records |-> "none"]
  /\ tries = [r \in Records |-> 0]
  /\ facts = {}
  /\ checkpoint = 0
  /\ enabled = InitiallyEnabled /\ cache = {} /\ loaded = FALSE
  /\ rows = {}
  /\ covered = [b \in Buckets |-> {}]
  /\ triggered = [b \in Buckets |-> {}]
  /\ posts = [b \in Buckets |-> [p \in Pcts |-> 0]]
  /\ alerts = [b \in Buckets |-> [p \in Pcts |-> 0]]
  /\ unsent = {}
  /\ pushed = {}
  /\ work = Idle
  /\ faults = 0 /\ interrupted = FALSE

----------------------------------------------------------------------------
(* The surroundings.                                                       *)

\* Ingest commits a row.  Rows need not become visible in the order of ods_id.
Arrive(r) ==
  /\ status[r] = "none"
  /\ status' = [status EXCEPT ![r] = IF r \in Quarantined THEN "quarantined"
                                     ELSE "pending"]
  /\ UNCHANGED <<tries, facts, checkpoint, config, counters, work,
                 faults, interrupted>>

\* The administrator enables a quota subject.
Enable(s) ==
  /\ s \notin enabled
  /\ enabled' = enabled \cup {s}
  /\ UNCHANGED <<ods, facts, checkpoint, cache, loaded, counters, work, faults,
                 interrupted>>

\* A failure; quota says whether it cuts quota work short.
Fault(quota) ==
  /\ faults < MaxFaults
  /\ faults' = faults + 1
  /\ interrupted' = (interrupted \/ quota)

NoFault == UNCHANGED <<faults, interrupted>>

----------------------------------------------------------------------------
(* The scan: FetchPending, then projectBatchTx.                            *)

\* Seeded fault: the scan goes on from the checkpoint.
FetchAboveCheckpoint(S) ==
  LET T == {r \in S : r > checkpoint} IN
  {r \in T : Cardinality({q \in T : q < r}) < BatchSize}

\* ORDER BY ods_id LIMIT batchSize
Fetch(S) == {r \in S : Cardinality({q \in S : q < r}) < BatchSize}

With(x) == {r \in Records : status[r] = x}

\* What is pending, and what is to be retried and due by now.
FetchPending ==
  /\ work.pc = "idle"
  /\ \E due \in SUBSET With("retry") :
       LET batch == Fetch(With("pending") \cup due) IN
       /\ batch # {}
       /\ work' = [Idle EXCEPT !.pc = "tx", !.batch = batch, !.top = Max(batch),
                               !.fetched = tries]
  /\ UNCHANGED <<ods, facts, checkpoint, config, counters>> /\ NoFault

\* Seeded fault: a row has one retry less than the threshold allows.
DeadEarly(r) == work.fetched[r] + 2 >= DeadLetterThreshold

\* handleErrorOn, from the retry count that was fetched.
Dead(r) == work.fetched[r] + 1 >= DeadLetterThreshold
Failed(r) == IF Dead(r) THEN "dead_letter" ELSE "retry"

Retried(r) == IF Dead(r) THEN tries[r] ELSE work.fetched[r] + 1

\* Seeded fault: only the first of the debounced facts says what is moved.
MovedByFirst(S) == {m \in Metrics : Usage[m][Min(S)] > 0}

\* Metrics a fact moves, and the call of OnFact for a set of facts of one key.
Moved(S) == {m \in Metrics : \E r \in S : Usage[m][r] > 0}
Call(S, r) == [seat |-> Seat[r], day |-> Day[r],
               moved |-> Moved({q \in S : Seat[q] = Seat[r] /\ Day[q] = Day[r]})]

\* Seeded fault: the records that failed are marked with the rest.
TxEffectMarksAll(E) ==
  /\ status' = [r \in Records |-> IF r \in work.batch THEN "projected"
                                  ELSE status[r]]
  /\ facts' = facts \cup (work.batch \ (E \cup Canary))
  /\ checkpoint' = work.top
  /\ UNCHANGED tries

\* The rows, facts and checkpoint as the transaction leaves them when
\* enrichment (or a logical insert failure) fails for the records of E.
TxEffect(E) ==
  /\ status' = [r \in Records |-> IF r \in E THEN Failed(r)
                                  ELSE IF r \in work.batch THEN "projected"
                                  ELSE status[r]]
  /\ tries' = [r \in Records |-> IF r \in E THEN Retried(r) ELSE tries[r]]
  /\ facts' = facts \cup (work.batch \ (E \cup Canary))
  /\ checkpoint' = work.top

NewFacts(E) == work.batch \ (E \cup Canary \cup facts)

\* After the commit, OnFact once for each (seat, billing period, day) of the
\* facts that are new.
AfterCommit(new) ==
  IF new = {} THEN Idle
  ELSE [Idle EXCEPT !.pc = "call", !.todo = {Call(new, r) : r \in new}]

TxCommit ==
  /\ work.pc = "tx"
  /\ \E E \in SUBSET (work.batch \ Canary) :
       /\ TxEffect(E)
       /\ work' = AfterCommit(NewFacts(E))
  /\ UNCHANGED <<config, counters>> /\ NoFault

\* The attempt fails and is replayed record by record: it was rolled back, or
\* the commit reported an error after it took effect.
TxFails ==
  /\ work.pc = "tx"
  /\ \/ UNCHANGED <<ods, facts, checkpoint>> /\ Fault(FALSE)
     \/ \E E \in SUBSET (work.batch \ Canary) : TxEffect(E) /\ Fault(NewFacts(E) # {})
  /\ work' = [work EXCEPT !.pc = "one"]
  /\ UNCHANGED <<config, counters>>

----------------------------------------------------------------------------
(* The replay: projectPerEvent.                                            *)

Rest(w, r) == [w EXCEPT !.batch = @ \ {r}, !.pc = "one"]

First(r) == r \in work.batch /\ \A q \in work.batch : r <= q

\* Enrichment, or the insert, fails: a retry, or a dead letter.
ProjectFails(r) ==
  /\ work.pc = "one" /\ First(r) /\ r \notin Canary
  /\ status' = [status EXCEPT ![r] = Failed(r)]
  /\ tries' = [tries EXCEPT ![r] = Retried(r)]
  /\ work' = Rest(work, r)
  /\ UNCHANGED <<facts, checkpoint, config, counters>> /\ NoFault

\* The fact is inserted; if it is new, OnFact comes before MarkProjected.
ProjectInsert(r) ==
  /\ work.pc = "one" /\ First(r)
  /\ LET new == {r} \ (Canary \cup facts) IN
       /\ facts' = facts \cup new
       /\ work' = IF new = {} THEN [work EXCEPT !.pc = "settle"]
                  ELSE [work EXCEPT !.pc = "call", !.todo = {Call(new, r)}]
  /\ UNCHANGED <<ods, checkpoint, config, counters>> /\ NoFault

MarkProjected(r) ==
  /\ work.pc = "settle" /\ First(r)
  /\ status' = [status EXCEPT ![r] = "projected"]
  /\ work' = Rest(work, r)
  /\ UNCHANGED <<tries, facts, checkpoint, config, counters>> /\ NoFault

Checkpointed ==
  /\ work.pc = "one" /\ work.batch = {}
  /\ \/ checkpoint' = work.top /\ NoFault
     \/ UNCHANGED checkpoint /\ Fault(FALSE)
  /\ work' = Idle
  /\ UNCHANGED <<ods, facts, config, counters>>

\* A mark fails: the row stays as it is and the scan goes on.
MarkFails(r) ==
  /\ work.pc \in {"one", "settle"} /\ First(r)
  /\ Fault(FALSE)
  /\ work' = Rest(work, r)
  /\ UNCHANGED <<ods, facts, checkpoint, config, counters>>

----------------------------------------------------------------------------
(* OnFact: ensureConfig, then applyToSubject for each subject of the seat.  *)

\* The next subject, the next call, or back to the record.
NextSubject(w) ==
  IF w.subs # {} THEN [w EXCEPT !.pc = "subject"]
  ELSE IF w.todo # {} THEN [w EXCEPT !.pc = "call"]
  ELSE IF w.batch # {} THEN [w EXCEPT !.pc = "settle", !.day = 0, !.moved = {},
                                      !.sub = NoSubject]
  ELSE Idle

\* The configuration is loaded when its 30 s are over; if the load fails the
\* one loaded before serves on.
OnFact ==
  /\ work.pc = "call"
  /\ \/ cache' = enabled /\ loaded' = TRUE /\ NoFault
     \/ loaded /\ UNCHANGED <<cache, loaded>> /\ NoFault
     \/ ~loaded /\ UNCHANGED <<cache, loaded>> /\ Fault(TRUE)
  /\ \E c \in work.todo :
       work' = NextSubject([work EXCEPT
                 !.todo = @ \ {c}, !.day = c.day, !.moved = c.moved,
                 !.subs = {s \in cache' : c.seat \in Members[s]}])
  /\ UNCHANGED <<ods, facts, checkpoint, enabled, counters>>

\* Both metrics, where the fact moved them, for every period the rules name.
Touched(s) == {Bucket(s, m, q, work.day) : m \in work.moved, q \in PeriodsOf(s)}

ApplyToSubject ==
  /\ work.pc = "subject"
  /\ \E s \in work.subs :
       LET w == [work EXCEPT !.subs = @ \ {s}, !.sub = s, !.buckets = Touched(s)]
       IN work' = IF Touched(s) = {} THEN NextSubject(w)
                  ELSE [w EXCEPT !.pc = "recompute"]
  /\ UNCHANGED <<ods, facts, checkpoint, config, counters>> /\ NoFault

\* The facts whose usage the SUM of a bucket adds up.
SummedFacts(b) ==
  {r \in facts : /\ Seat[r] \in Members[b.subject]
                 /\ b.key = Key(b.key[1], Day[r])
                 /\ Usage[b.metric][r] > 0}

\* RecomputeFromDWD, bucket by bucket: an absolute SET of the counter, which
\* keeps what was triggered.  A bucket whose recompute fails, before or after
\* the counter is written, is left out of the results.
Recompute ==
  /\ work.pc = "recompute"
  /\ LET b == CHOOSE b \in work.buckets : TRUE
         Then(results) == [work EXCEPT
           !.pc = IF work.buckets = {b} THEN "cross" ELSE "recompute",
           !.buckets = @ \ {b}, !.results = results]
     IN \/ /\ covered' = [covered EXCEPT ![b] = SummedFacts(b)]
           /\ rows' = rows \cup {b}
           /\ \/ work' = Then(work.results \cup {b}) /\ NoFault
              \/ work' = Then(work.results) /\ Fault(TRUE)
        \/ /\ work' = Then(work.results)
           /\ UNCHANGED <<rows, covered>> /\ Fault(TRUE)
  /\ UNCHANGED <<ods, facts, checkpoint, config, triggered, mail, pushed>>

----------------------------------------------------------------------------
(* Threshold crossings.                                                    *)

\* SUM: as many units as each of the facts has used.
Used(b) == Cardinality(UNION {{r} \X (1..Usage[b.metric][r]) : r \in covered[b]})

\* The rules that limit a bucket, and the thresholds its usage has reached.
RulesFor(b) == {q \in Rules[b.subject] : /\ q.metric = b.metric
                                         /\ q.period = b.key[1]
                                         /\ q.limit > 0}
Crossed(b) ==
  UNION {{t \in q.thresholds : Used(b) * 100 >= q.limit * t.pct} : q \in RulesFor(b)}

\* Seeded fault: what was triggered before is not looked at.
NewlyAgain(b) ==
  {t \in Crossed(b) : \A u \in Crossed(b) : u.pct = t.pct => t.at <= u.at}

\* Thresholds newly crossed: of those that share a pct the first counts, since
\* it joins the triggered ones before the next is looked at.
Newly(b) ==
  {t \in Crossed(b) : /\ t.pct \notin triggered[b]
                      /\ \A u \in Crossed(b) : u.pct = t.pct => t.at <= u.at}

\* What is looked at and found, in the step that hands the alerts to notify.
Judge(b) ==
  work' = [work EXCEPT
    !.pc = IF Newly(b) = {} THEN "cross" ELSE "mark",
    !.results = @ \ {b},
    !.buckets = IF Newly(b) = {} THEN {} ELSE {b},
    !.newly = {t.pct : t \in Newly(b)},
    !.hard = @ \/ \E t \in Newly(b) : t.block]

\* NotifyCrossing only starts the goroutine that posts.
NotifyCrossing(b, pcts) ==
  posts' = [posts EXCEPT ![b] = [p \in Pcts |-> IF p \in pcts THEN @[p] + 1 ELSE @[p]]]

Notified(b) == {t.pct : t \in {t \in Newly(b) : t.notify}}

\* Seeded fault: only the highest of the thresholds newly crossed is alerted.
CrossHighest ==
  /\ work.pc = "cross"
  /\ \E b \in work.results :
       /\ NotifyCrossing(b, {p \in Notified(b) : \A u \in Newly(b) : u.pct <= p})
       /\ Judge(b)
  /\ UNCHANGED <<ods, facts, checkpoint, config, rows, covered, triggered,
                 alerts, unsent, pushed>> /\ NoFault

\* Alerts for the thresholds newly crossed are handed over before they are
\* recorded.
Cross ==
  /\ work.pc = "cross"
  /\ \E b \in work.results : NotifyCrossing(b, Notified(b)) /\ Judge(b)
  /\ UNCHANGED <<ods, facts, checkpoint, config, rows, covered, triggered,
                 alerts, unsent, pushed>> /\ NoFault

\* MarkTriggered, which may fail.
Mark ==
  /\ work.pc = "mark"
  /\ \/ /\ triggered' = [b \in Buckets |-> IF b \in work.buckets
                                           THEN triggered[b] \cup work.newly
                                           ELSE triggered[b]]
        /\ NoFault
     \/ UNCHANGED triggered /\ Fault(TRUE)
  /\ work' = [work EXCEPT !.pc = "cross", !.buckets = {}, !.newly = {}]
  /\ UNCHANGED <<ods, facts, checkpoint, config, rows, covered, mail, pushed>>

\* A hard block newly crossed bumps sync_version of the subject's seats.
CrossDone ==
  /\ work.pc = "cross" /\ work.results = {}
  /\ \/ /\ pushed' = IF work.hard THEN pushed \cup {work.sub} ELSE pushed
        /\ NoFault
     \/ work.hard /\ UNCHANGED pushed /\ Fault(TRUE)
  /\ work' = NextSubject([work EXCEPT !.hard = FALSE])
  /\ UNCHANGED <<ods, facts, checkpoint, config, rows, covered, triggered, mail>>

\* The goroutine's POST reaches control, or not; nobody hears which.
PostEnds(b, p) ==
  /\ posts[b][p] > 0
  /\ posts' = [posts EXCEPT ![b][p] = @ - 1]
  /\ \/ alerts' = [alerts EXCEPT ![b][p] = @ + 1] /\ UNCHANGED unsent /\ NoFault
     \/ unsent' = unsent \cup {<<b, p>>} /\ UNCHANGED alerts /\ Fault(FALSE)
  /\ UNCHANGED <<ods, facts, checkpoint, config, rows, covered, triggered,
                 pushed, work>>

\* The collector stops and starts again: the worker's state, the loaded
\* configuration and the alerts on their way are gone.
Restart ==
  /\ Fault(work.pc \in QuotaPCs)
  /\ work' = Idle
  /\ cache' = {} /\ loaded' = FALSE
  /\ posts' = [b \in Buckets |-> [p \in Pcts |-> 0]]
  /\ unsent' = unsent \cup {x \in Buckets \X Pcts : posts[x[1]][x[2]] > 0}
  /\ UNCHANGED <<ods, facts, checkpoint, enabled, rows, covered, triggered,
                 alerts, pushed>>

----------------------------------------------------------------------------
(* Specification.                                                          *)

Worker ==
  \/ FetchPending \/ TxCommit \/ TxFails \/ Checkpointed
  \/ \E r \in Records : \/ ProjectFails(r) \/ ProjectInsert(r)
                        \/ MarkProjected(r) \/ MarkFails(r)
  \/ OnFact \/ ApplyToSubject \/ Recompute \/ Cross \/ Mark \/ CrossDone

Next ==
  \/ Worker \/ Restart
  \/ \E b \in Buckets, p \in Pcts : PostEnds(b, p)
  \/ \E r \in Records : Arrive(r)
  \/ \E s \in Subjects : Enable(s)

Spec == Init /\ [][Next]_vars

\* The worker runs; a row that is fetched as soon as it is due cannot be passed
\* over for ever, since the time of a retry comes.
FairSpec ==
  /\ Spec
  /\ WF_vars(Worker)
  /\ \A r \in Records : SF_vars(FetchPending /\ r \in work'.batch)

----------------------------------------------------------------------------
(* Properties.                                                             *)

Billable == Records \ (Canary \cup Quarantined)

\* A row that is settled as projected has its fact, through every rollback,
\* ambiguous commit, replay and crash; and only what is to be billed has one:
\* neither the probe's rows nor quarantined ones (projectOneOn, InsertEvent).
ProjectedExactly ==
  /\ \A r \in Billable : status[r] = "projected" => r \in facts
  /\ facts \subseteq Billable

\* No row is given up before all its retries were used, however often an
\* attempt was rolled back or repeated (handleErrorOn).
DeadLetterEarned ==
  \A r \in Records : status[r] = "dead_letter" =>
    tries[r] = DeadLetterThreshold - 1

\* The thresholds a bucket has at a percentage: none, one or several.
At(b, p) == {t \in UNION {q.thresholds : q \in RulesFor(b)} : t.pct = p}

\* When the worker is at rest, and nothing cut quota work short, each counter
\* is the sum over the facts, each threshold it reaches is recorded, and a hard
\* block among them was pushed, however calls were debounced (OnFact).  A subject
\* that was always enabled lacks no counter: without a row there is no usage.
\* Thresholds that share a percentage share its record, so of the push this is
\* true only where all of them are hard blocks.
CountersCurrent ==
  work.pc = "idle" /\ ~interrupted =>
    /\ \A b \in rows \cup {b \in Buckets : b.subject \in InitiallyEnabled} :
         covered[b] = SummedFacts(b)
    /\ \A b \in rows :
         /\ triggered[b] = {t.pct : t \in Crossed(b)}
         /\ \A p \in triggered[b] :
              (\A t \in At(b, p) : t.block) => b.subject \in pushed

\* A crossing is recorded only after its alert was handed over, also when the
\* collector stops in between: one that is on record, and asks for a
\* notification, has reached control, is on its way, or was lost by its own
\* POST, which nobody repeats (applyToSubject, NotifyCrossing).
AlertedAtLeastOnce ==
  \A b \in rows : \A p \in triggered[b] :
    (\A t \in At(b, p) : t.notify) =>
      alerts[b][p] >= 1 \/ posts[b][p] >= 1 \/ <<b, p>> \in unsent

\* Somebody is told of every crossing on record in the end.  Not so: a POST that
\* fails or is cut by a stop is not repeated, and the record suppresses the next.
EveryCrossingTold ==
  \A b \in rows : \A p \in triggered[b] :
    (\A t \in At(b, p) : t.notify) => alerts[b][p] + posts[b][p] >= 1

\* A threshold is alerted "at most once per period" (CrossingAlert), as long as
\* nothing came between the alert and its record.
AlertedAtMostOnce ==
  ~interrupted => \A b \in Buckets, p \in Pcts : alerts[b][p] + posts[b][p] <= 1

\* The counters are the DWD's truth at rest: "restart-safe, drift-free"
\* (RecomputeFromDWD).
CountersRestartSafe ==
  work.pc = "idle" => \A b \in rows : covered[b] = SummedFacts(b)

\* Every row ends up projected, quarantined or in the dead letters.
EverySettles ==
  \A r \in Records :
    status[r] = "pending" ~> status[r] \in {"projected", "dead_letter"}
=============================================================================
