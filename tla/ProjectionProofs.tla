-------------------------- MODULE ProjectionProofs --------------------------
(***************************************************************************)
(* Types; what is settled as projected has its fact; no row is given up    *)
(* early; alerts and counters: for every number of rows, size of a batch,  *)
(* retry threshold, quota configuration and number of faults.              *)
(***************************************************************************)
EXTENDS Projection, FiniteCollections, FiniteSetTheorems, TLAPS

----------------------------------------------------------------------------
(* Types.                                                                  *)

RowTypes ==
  /\ status \in [Records -> Statuses]
  /\ tries \in [Records -> 0..(DeadLetterThreshold - 1)]
  /\ facts \subseteq Records /\ checkpoint \in 0..N

ConfigTypes == enabled \subseteq Subjects /\ cache \subseteq Subjects /\ loaded \in BOOLEAN

CounterTypes ==
  /\ rows \subseteq Buckets /\ covered \in [Buckets -> SUBSET Records]
  /\ triggered \in [Buckets -> SUBSET Pcts]
  /\ posts \in [Buckets -> [Pcts -> Nat]] /\ alerts \in [Buckets -> [Pcts -> Nat]]
  /\ unsent \subseteq Buckets \X Pcts /\ pushed \subseteq Subjects

FaultTypes == faults \in 0..MaxFaults /\ interrupted \in BOOLEAN

\* The subjects left have a day to work on, a recompute its buckets, and what
\* comes of it its subject.
Going(w) == w \in Work /\ (w.subs # {} => w.day \in Days)
Ready(w) ==
  /\ Going(w)
  /\ w.pc = "recompute" => w.buckets # {}
  /\ w.pc \in {"recompute", "cross", "mark"} => w.sub \in Subjects

Typed == RowTypes /\ ConfigTypes /\ CounterTypes /\ FaultTypes /\ Ready(work)

LEMMA Parameters ==
  /\ N \in Nat /\ MaxFaults \in Nat /\ DeadLetterThreshold \in Nat \ {0}
  /\ Quarantined \subseteq Records /\ Canary \subseteq Records
  /\ InitiallyEnabled \subseteq Subjects
  BY BoundAssumption, RecordAssumption

LEMMA IdleFacts ==
  /\ Idle \in Work /\ Idle.pc = "idle" /\ Idle.batch = {} /\ Idle.subs = {}
  BY Parameters DEF Idle, Work

LEMMA NextSubjectFacts ==
  ASSUME NEW w, Going(w)
  PROVE  /\ Going(NextSubject(w)) /\ NextSubject(w).pc \in {"subject", "call", "settle", "idle"}
         /\ NextSubject(w).batch = w.batch
         /\ NextSubject(w).batch # {} => NextSubject(w).fetched = w.fetched
<1>1. CASE w.subs # {}
  <2>1. NextSubject(w) = [w EXCEPT !.pc = "subject"]
    BY <1>1 DEF NextSubject
  <2> QED
    BY <2>1 DEF Going, Work, QuotaPCs
<1>2. CASE w.subs = {} /\ w.todo # {}
  <2>1. NextSubject(w) = [w EXCEPT !.pc = "call"]
    BY <1>2 DEF NextSubject
  <2> QED
    BY <2>1 DEF Going, Work, QuotaPCs
<1>3. CASE w.subs = {} /\ w.todo = {} /\ w.batch # {}
  <2>1. NextSubject(w) = [w EXCEPT !.pc = "settle", !.day = 0, !.moved = {},
                                   !.sub = NoSubject]
    BY <1>3 DEF NextSubject
  <2> QED
    BY <2>1, <1>3 DEF Going, Work
<1>4. CASE w.subs = {} /\ w.todo = {} /\ w.batch = {}
  BY <1>4, IdleFacts DEF NextSubject, Going
<1> QED
  BY <1>1, <1>2, <1>3, <1>4

LEMMA CallType ==
  ASSUME NEW S, NEW r \in Records
  PROVE  Call(S, r) \in Calls
  BY DEF Call, Calls, Days, Moved

LEMMA BucketType ==
  ASSUME NEW s \in Subjects, NEW m \in Metrics, NEW q \in PeriodsOf(s), NEW d \in Days
  PROVE  Bucket(s, m, q, d) \in Buckets
  BY DEF Buckets

LEMMA CrossedType ==
  ASSUME NEW b \in Buckets, NEW t \in Crossed(b)
  PROVE  t.pct \in Pcts /\ t \in At(b, t.pct)
<1>1. b.subject \in Subjects
  BY DEF Buckets, Bucket
<1>2. PICK q \in RulesFor(b) : t \in q.thresholds
  BY DEF Crossed
<1>3. q \in Rules[b.subject]
  BY DEF RulesFor
<1> QED
  BY <1>1, <1>2, <1>3 DEF Pcts, At

LEMMA TypedInit == Init => Typed
<1> SUFFICES ASSUME Init PROVE Typed
  OBVIOUS
<1>1. /\ status = [r \in Records |-> "none"] /\ tries = [r \in Records |-> 0]
      /\ facts = {} /\ checkpoint = 0 /\ faults = 0 /\ interrupted = FALSE
      /\ enabled = InitiallyEnabled /\ cache = {} /\ loaded = FALSE /\ work = Idle
  BY DEF Init
<1>2. RowTypes
  BY <1>1, Parameters DEF RowTypes, Statuses
<1>3. ConfigTypes /\ FaultTypes
  <2>1. loaded \in BOOLEAN /\ interrupted \in BOOLEAN
    BY <1>1, Zenon
  <2> QED
    BY <1>1, <2>1, Parameters DEF ConfigTypes, FaultTypes
<1>4. CounterTypes
  <2>1. /\ rows = {} /\ covered = [b \in Buckets |-> {}] /\ pushed = {}
        /\ triggered = [b \in Buckets |-> {}] /\ unsent = {}
        /\ posts = [b \in Buckets |-> [p \in Pcts |-> 0]]
        /\ alerts = [b \in Buckets |-> [p \in Pcts |-> 0]]
    BY DEF Init
  <2> QED
    BY <2>1 DEF CounterTypes
<1>5. Ready(work)
  BY <1>1, IdleFacts DEF Ready, Going
<1> QED
  BY <1>2, <1>3, <1>4, <1>5 DEF Typed

LEMMA FaultKeeps ==
  ASSUME FaultTypes, NEW q \in BOOLEAN, Fault(q) \/ NoFault
  PROVE  FaultTypes'
  BY Parameters DEF FaultTypes, Fault, NoFault

\* The transaction's effect on the rows.
LEMMA RecordFacts ==
  ASSUME Typed, NEW r \in Records
  PROVE  /\ Failed(r) \in Statuses
         /\ Retried(r) \in 0..(DeadLetterThreshold - 1)
  BY Parameters DEF Typed, RowTypes, Ready, Going, Work, Failed, Retried, Dead, Statuses

\* The transaction's effect on the rows.
LEMMA TxEffectTypes ==
  ASSUME Typed, NEW E \in SUBSET (work.batch \ Canary), TxEffect(E)
  PROVE  RowTypes'
<1>1. work.batch \in SUBSET Records /\ work.top \in 0..N
  BY DEF Typed, Ready, Going, Work
<1>2. status' \in [Records -> Statuses]
  BY <1>1, RecordFacts DEF Typed, RowTypes, TxEffect, Statuses
<1>3. tries' \in [Records -> 0..(DeadLetterThreshold - 1)]
  BY <1>1, RecordFacts DEF Typed, RowTypes, TxEffect
<1>4. facts' \subseteq Records /\ checkpoint' \in 0..N
  BY <1>1 DEF Typed, RowTypes, TxEffect
<1> QED
  BY <1>2, <1>3, <1>4 DEF RowTypes

\* The steps of a scan.
LEMMA FetchTyped ==
  ASSUME Typed, FetchPending
  PROVE  Typed'
<1>1. PICK due \in SUBSET With("retry") :
        LET batch == Fetch(With("pending") \cup due) IN
        /\ batch # {}
        /\ work' = [Idle EXCEPT !.pc = "tx", !.batch = batch, !.top = Max(batch),
                                !.fetched = tries]
  BY DEF FetchPending
<1> DEFINE batch == Fetch(With("pending") \cup due)
<1>2. batch \in SUBSET (0..N) /\ batch \subseteq Records /\ batch # {}
  BY <1>1, Parameters DEF Fetch, With, Records
<1>3. Max(batch) \in 0..N
  BY <1>2, GreatestBounded, Parameters
<1>4. tries \in [Records -> Nat]
  BY Parameters DEF Typed, RowTypes
<1> HIDE DEF batch
<1>5. Ready(work')
  BY <1>1, <1>2, <1>3, <1>4, IdleFacts DEF Ready, Going, Work, batch
<1> QED
  BY <1>5 DEF FetchPending, Typed, RowTypes, ConfigTypes, CounterTypes, FaultTypes, ods,
              config, counters, NoFault

LEMMA TxCommitTyped ==
  ASSUME Typed, TxCommit
  PROVE  Typed'
<1>1. PICK E \in SUBSET (work.batch \ Canary) :
        TxEffect(E) /\ work' = AfterCommit(NewFacts(E))
  BY DEF TxCommit
<1>2. RowTypes'
  BY <1>1, TxEffectTypes
<1>3. NewFacts(E) \subseteq Records
  BY DEF Typed, Ready, Going, Work, NewFacts
<1>4. {Call(NewFacts(E), r) : r \in NewFacts(E)} \in SUBSET Calls
  BY <1>3, CallType
<1>5. Ready(work')
  BY <1>1, <1>4, IdleFacts DEF Ready, Going, Work, AfterCommit, QuotaPCs
<1> QED
  BY <1>2, <1>5 DEF TxCommit, Typed, ConfigTypes, CounterTypes, FaultTypes, config,
                    counters, NoFault

LEMMA TxFailsTyped ==
  ASSUME Typed, TxFails
  PROVE  Typed'
<1>1. RowTypes'
  BY TxEffectTypes DEF TxFails, Typed, RowTypes, ods
<1>2. FaultTypes'
  BY FaultKeeps DEF TxFails, Typed
<1>3. Ready(work')
  BY DEF TxFails, Typed, Ready, Going, Work
<1> QED
  BY <1>1, <1>2, <1>3 DEF TxFails, Typed, ConfigTypes, CounterTypes, config, counters

\* The steps of the replay: the worker's record is in its batch.
LEMMA RestType ==
  ASSUME Typed, NEW r \in Records
  PROVE  /\ Ready(Rest(work, r)) /\ Rest(work, r).pc = "one"
         /\ Rest(work, r).batch = work.batch \ {r}
         /\ Rest(work, r).fetched = work.fetched
  BY DEF Typed, Ready, Going, Work, Rest

LEMMA ReplayTyped ==
  ASSUME Typed, NEW r \in Records,
         ProjectFails(r) \/ ProjectInsert(r) \/ MarkProjected(r) \/ MarkFails(r)
  PROVE  Typed'
<1>1. CASE ProjectFails(r)
  <2>1. RowTypes'
    BY <1>1, RecordFacts DEF ProjectFails, Typed, RowTypes
  <2> QED
    BY <1>1, <2>1, RestType DEF ProjectFails, Typed, ConfigTypes, CounterTypes, FaultTypes,
                                config, counters, NoFault
<1>2. CASE ProjectInsert(r)
  <2> DEFINE new == {r} \ (Canary \cup facts)
  <2>1. RowTypes'
    BY <1>2 DEF ProjectInsert, Typed, RowTypes, ods
  <2>2. Call(new, r) \in Calls
    BY CallType
  <2>3. \/ work' = [work EXCEPT !.pc = "settle"]
        \/ work' = [work EXCEPT !.pc = "call", !.todo = {Call(new, r)}]
    BY <1>2 DEF ProjectInsert
  <2> HIDE DEF new
  <2>4. Ready([work EXCEPT !.pc = "settle"])
    BY DEF Typed, Ready, Going, Work
  <2>5. Ready([work EXCEPT !.pc = "call", !.todo = {Call(new, r)}])
    BY <2>2 DEF Typed, Ready, Going, Work, QuotaPCs
  <2> QED
    BY <1>2, <2>1, <2>3, <2>4, <2>5 DEF ProjectInsert, Typed, ConfigTypes, CounterTypes, FaultTypes,
                            config, counters, NoFault
<1>3. CASE MarkProjected(r)
  <2>1. RowTypes'
    BY <1>3 DEF MarkProjected, Typed, RowTypes, Statuses
  <2> QED
    BY <1>3, <2>1, RestType DEF MarkProjected, Typed, ConfigTypes, CounterTypes,
                                FaultTypes, config, counters, NoFault
<1>4. CASE MarkFails(r)
  BY <1>4, RestType, FaultKeeps DEF MarkFails, Typed, RowTypes, ConfigTypes, CounterTypes,
                                    ods, config, counters
<1> QED
  BY <1>1, <1>2, <1>3, <1>4

LEMMA CheckpointedTyped ==
  ASSUME Typed, Checkpointed
  PROVE  Typed'
<1>1. RowTypes'
  BY DEF Checkpointed, Typed, RowTypes, Ready, Going, Work, ods
<1>2. FaultTypes'
  BY FaultKeeps DEF Checkpointed, Typed
<1> QED
  BY <1>1, <1>2, IdleFacts DEF Checkpointed, Typed, Ready, Going, ConfigTypes,
                               CounterTypes, config, counters

\* The steps of the quota work, which touch no row and leave the batch.
BatchKept ==
  work'.batch = work.batch /\ (work'.batch # {} => work'.fetched = work.fetched)

LEMMA OnFactTyped ==
  ASSUME Typed, OnFact
  PROVE  Typed' /\ BatchKept /\ work'.pc # "mark"
<1>1. ConfigTypes' /\ FaultTypes'
  BY FaultKeeps DEF OnFact, Typed, ConfigTypes
<1>2. PICK c \in work.todo :
        work' = NextSubject([work EXCEPT
                  !.todo = @ \ {c}, !.day = c.day, !.moved = c.moved,
                  !.subs = {s \in cache' : c.seat \in Members[s]}])
  BY DEF OnFact
<1>3. c.day \in Days /\ c.moved \in SUBSET Metrics /\ cache' \subseteq Subjects
  BY <1>1 DEF Typed, Ready, Going, Work, Calls, ConfigTypes
<1>4. Going([work EXCEPT !.todo = @ \ {c}, !.day = c.day, !.moved = c.moved,
                         !.subs = {s \in cache' : c.seat \in Members[s]}])
  BY <1>3 DEF Typed, Ready, Going, Work
<1>5. Ready(work') /\ work'.pc # "mark"
  BY <1>2, <1>4, NextSubjectFacts DEF Ready
<1>6. BatchKept
  BY <1>2, <1>4, NextSubjectFacts DEF BatchKept, Typed, Ready, Going, Work
<1> QED
  BY <1>1, <1>5, <1>6 DEF OnFact, Typed, RowTypes, CounterTypes, ods, counters

LEMMA ApplyTyped ==
  ASSUME Typed, ApplyToSubject
  PROVE  Typed' /\ BatchKept /\ work'.pc # "mark"
<1> DEFINE Chosen(s) == [work EXCEPT !.subs = @ \ {s}, !.sub = s, !.buckets = Touched(s)]
<1>1. PICK s \in work.subs :
        work' = IF Touched(s) = {} THEN NextSubject(Chosen(s))
                ELSE [Chosen(s) EXCEPT !.pc = "recompute"]
  BY Zenon DEF ApplyToSubject
<1>2. s \in Subjects /\ work.day \in Days /\ work.moved \in SUBSET Metrics
  BY DEF Typed, Ready, Going, Work
<1>3. Touched(s) \in SUBSET Buckets
  BY <1>2, BucketType DEF Touched
<1> DEFINE w == Chosen(s)
<1>4. work' = IF Touched(s) = {} THEN NextSubject(w) ELSE [w EXCEPT !.pc = "recompute"]
  BY <1>1
<1>5. /\ Going(w) /\ w.buckets = Touched(s) /\ w.sub \in Subjects
      /\ w.batch = work.batch /\ w.fetched = work.fetched
  BY <1>2, <1>3 DEF Typed, Ready, Going, Work
<1> HIDE DEF w
<1>6. Ready(NextSubject(w)) /\ NextSubject(w).pc # "mark"
  BY <1>5, NextSubjectFacts DEF Ready
<1>7. Touched(s) # {} => /\ Ready([w EXCEPT !.pc = "recompute"])
                        /\ [w EXCEPT !.pc = "recompute"].pc = "recompute"
  BY <1>5 DEF Ready, Going, Work, QuotaPCs
<1>8. Ready(work') /\ work'.pc # "mark"
  BY <1>4, <1>6, <1>7
<1>9. BatchKept
  BY <1>4, <1>5, NextSubjectFacts DEF BatchKept, Going, Work
<1> QED
  BY <1>8, <1>9 DEF ApplyToSubject, Typed, RowTypes, ConfigTypes, CounterTypes, FaultTypes, ods,
              config, counters, NoFault

LEMMA RecomputeTyped ==
  ASSUME Typed, Recompute
  PROVE  Typed' /\ BatchKept /\ work'.pc # "mark"
<1> DEFINE b == CHOOSE x \in work.buckets : TRUE
<1>1. work.pc = "recompute" /\ b \in work.buckets /\ b \in Buckets
  BY DEF Recompute, Typed, Ready, Going, Work
<1>2. /\ rows' \subseteq Buckets /\ covered' \in [Buckets -> SUBSET Records]
  <2>1. \/ rows' = rows \cup {b} /\ covered' = [covered EXCEPT ![b] = SummedFacts(b)]
        \/ UNCHANGED <<rows, covered>>
    BY Zenon DEF Recompute
  <2>2. SummedFacts(b) \in SUBSET Records
    BY DEF Typed, RowTypes, SummedFacts
  <2> HIDE DEF b
  <2> QED
    BY <1>1, <2>1, <2>2 DEF Typed, CounterTypes
<1>3. FaultTypes'
  BY FaultKeeps DEF Recompute, Typed
<1>4. PICK results \in {work.results \cup {b}, work.results} :
        work' = [work EXCEPT !.pc = IF work.buckets = {b} THEN "cross" ELSE "recompute",
                             !.buckets = @ \ {b}, !.results = results]
  BY Zenon DEF Recompute
<1> HIDE DEF b
<1>5. Going(work') /\ work'.sub \in Subjects
  BY <1>1, <1>4 DEF Typed, Ready, Going, Work, QuotaPCs
<1>6. work'.pc = "recompute" => work'.buckets # {}
  BY <1>1, <1>4 DEF Typed, Ready, Going, Work
<1>7. Ready(work')
  BY <1>5, <1>6 DEF Ready
<1>8. BatchKept /\ work'.pc # "mark"
  BY <1>4 DEF BatchKept, Typed, Ready, Going, Work
<1> QED
  BY <1>2, <1>3, <1>7, <1>8 DEF Recompute, Typed, RowTypes, ConfigTypes, CounterTypes, ods, config,
                                mail

LEMMA CrossTyped ==
  ASSUME Typed, Cross
  PROVE  Typed' /\ BatchKept
<1>1. PICK b \in work.results : NotifyCrossing(b, Notified(b)) /\ Judge(b)
  BY DEF Cross
<1>2. b \in Buckets
  BY DEF Typed, Ready, Going, Work
<1>3. {t.pct : t \in Newly(b)} \in SUBSET Pcts
  BY <1>2, CrossedType DEF Newly
<1>4. posts' \in [Buckets -> [Pcts -> Nat]]
  BY <1>1, <1>2 DEF Typed, CounterTypes, NotifyCrossing
<1>5. work.sub \in Subjects /\ work.pc = "cross"
  BY DEF Cross, Typed, Ready
<1>6. Going(work') /\ work'.pc \in {"cross", "mark"} /\ work'.sub = work.sub
  BY <1>1, <1>2, <1>3 DEF Judge, Typed, Ready, Going, Work, QuotaPCs
<1>7. Ready(work')
  BY <1>5, <1>6 DEF Ready
<1>8. BatchKept
  BY <1>1 DEF Judge, BatchKept, Typed, Ready, Going, Work
<1> QED
  BY <1>4, <1>7, <1>8 DEF Cross, Typed, RowTypes, ConfigTypes, CounterTypes, FaultTypes, ods,
                          config, NoFault

LEMMA MarkTyped ==
  ASSUME Typed, Mark
  PROVE  Typed' /\ BatchKept
<1>1. FaultTypes'
  BY FaultKeeps DEF Mark, Typed
<1>2. triggered' \in [Buckets -> SUBSET Pcts]
  <2>1. work.newly \in SUBSET Pcts
    BY DEF Typed, Ready, Going, Work
  <2>2. \A b \in Buckets : triggered[b] \cup work.newly \in SUBSET Pcts
    BY <2>1 DEF Typed, CounterTypes
  <2>3. \/ triggered' = [b \in Buckets |-> IF b \in work.buckets
                                           THEN triggered[b] \cup work.newly
                                           ELSE triggered[b]]
        \/ UNCHANGED triggered
    BY DEF Mark
  <2> QED
    BY <2>2, <2>3 DEF Typed, CounterTypes
<1>3. Ready(work')
  BY DEF Mark, Typed, Ready, Going, Work, QuotaPCs
<1>4. BatchKept
  BY DEF BatchKept, Mark, Typed, Ready, Going, Work
<1> QED
  BY <1>1, <1>2, <1>3, <1>4 DEF Mark, Typed, RowTypes, ConfigTypes, CounterTypes, ods, config, mail

LEMMA CrossDoneTyped ==
  ASSUME Typed, CrossDone
  PROVE  Typed' /\ BatchKept /\ work'.pc # "mark"
<1>1. FaultTypes'
  BY FaultKeeps DEF CrossDone, Typed
<1>2. pushed' \subseteq Subjects
  <2>1. work.sub \in Subjects
    BY DEF CrossDone, Typed, Ready
  <2>2. pushed' \in {pushed, pushed \cup {work.sub}}
    BY DEF CrossDone
  <2> QED
    BY <2>1, <2>2 DEF Typed, CounterTypes
<1>3. Going([work EXCEPT !.hard = FALSE])
  BY DEF Typed, Ready, Going, Work
<1>4. Ready(work') /\ work'.pc # "mark"
  BY <1>3, NextSubjectFacts DEF CrossDone, Ready
<1>5. BatchKept
  BY <1>3, NextSubjectFacts DEF BatchKept, CrossDone, Typed, Ready, Going, Work
<1> QED
  BY <1>1, <1>2, <1>4, <1>5 DEF CrossDone, Typed, RowTypes, ConfigTypes, CounterTypes, ods, config,
                                mail

\* A count in a table of counts goes up or down by one.
LEMMA TableStep ==
  ASSUME NEW f \in [Buckets -> [Pcts -> Nat]], NEW b \in Buckets, NEW p \in Pcts,
         NEW x \in Nat
  PROVE  /\ [f EXCEPT ![b][p] = x] \in [Buckets -> [Pcts -> Nat]]
         /\ \A c \in Buckets, q \in Pcts :
              [f EXCEPT ![b][p] = x][c][q] = IF c = b /\ q = p THEN x ELSE f[c][q]
<1>1. [f EXCEPT ![b][p] = x] = [f EXCEPT ![b] = [f[b] EXCEPT ![p] = x]]
  OBVIOUS
<1>2. [f[b] EXCEPT ![p] = x] \in [Pcts -> Nat]
  OBVIOUS
<1> QED
  BY <1>1, <1>2

LEMMA PostFacts ==
  ASSUME CounterTypes, NEW b \in Buckets, NEW p \in Pcts, PostEnds(b, p)
  PROVE  /\ posts' \in [Buckets -> [Pcts -> Nat]] /\ alerts' \in [Buckets -> [Pcts -> Nat]]
         /\ posts'[b][p] = posts[b][p] - 1
         /\ \/ alerts'[b][p] = alerts[b][p] + 1
            \/ alerts'[b][p] = alerts[b][p] /\ <<b, p>> \in unsent'
         /\ unsent \subseteq unsent' /\ unsent' \subseteq unsent \cup {<<b, p>>}
         /\ \A c \in Buckets, q \in Pcts : ~(c = b /\ q = p) =>
              posts'[c][q] = posts[c][q] /\ alerts'[c][q] = alerts[c][q]
<1>1. posts[b][p] \in Nat /\ alerts[b][p] \in Nat /\ posts[b][p] > 0
  BY DEF CounterTypes, PostEnds
<1>2. posts[b][p] - 1 \in Nat /\ alerts[b][p] + 1 \in Nat
  BY <1>1
<1>3. /\ posts \in [Buckets -> [Pcts -> Nat]] /\ alerts \in [Buckets -> [Pcts -> Nat]]
      /\ posts' = [posts EXCEPT ![b][p] = posts[b][p] - 1]
      /\ \/ alerts' = [alerts EXCEPT ![b][p] = alerts[b][p] + 1] /\ UNCHANGED unsent
         \/ unsent' = unsent \cup {<<b, p>>} /\ UNCHANGED alerts
  BY DEF CounterTypes, PostEnds
<1>4. /\ posts' \in [Buckets -> [Pcts -> Nat]]
      /\ \A c \in Buckets, q \in Pcts :
           posts'[c][q] = IF c = b /\ q = p THEN posts[b][p] - 1 ELSE posts[c][q]
  BY <1>2, <1>3, TableStep
<1>5. CASE alerts' = [alerts EXCEPT ![b][p] = alerts[b][p] + 1] /\ UNCHANGED unsent
  <2>1. /\ alerts' \in [Buckets -> [Pcts -> Nat]]
        /\ \A c \in Buckets, q \in Pcts :
             alerts'[c][q] = IF c = b /\ q = p THEN alerts[b][p] + 1 ELSE alerts[c][q]
    BY <1>2, <1>3, <1>5, TableStep
  <2> QED
    BY <1>4, <1>5, <2>1
<1>6. CASE unsent' = unsent \cup {<<b, p>>} /\ UNCHANGED alerts
  BY <1>3, <1>4, <1>6
<1> QED
  BY <1>3, <1>5, <1>6

\* The surroundings.
LEMMA SurroundingsTyped ==
  ASSUME Typed,
         \/ \E r \in Records : Arrive(r)
         \/ \E s \in Subjects : Enable(s)
         \/ \E b \in Buckets, p \in Pcts : PostEnds(b, p)
         \/ Restart
  PROVE  Typed'
<1>1. ASSUME NEW r \in Records, Arrive(r) PROVE Typed'
  <2>1. RowTypes'
    BY <1>1 DEF Arrive, Typed, RowTypes, Statuses
  <2> QED
    BY <1>1, <2>1 DEF Arrive, Typed, ConfigTypes, CounterTypes, FaultTypes, config, counters
<1>2. ASSUME NEW s \in Subjects, Enable(s) PROVE Typed'
  <2>1. ConfigTypes'
    BY <1>2 DEF Enable, Typed, ConfigTypes
  <2> QED
    BY <1>2, <2>1 DEF Enable, Typed, RowTypes, CounterTypes, FaultTypes, ods, counters
<1>3. ASSUME NEW b \in Buckets, NEW p \in Pcts, PostEnds(b, p) PROVE Typed'
  <2>1. FaultTypes'
    BY <1>3, FaultKeeps DEF PostEnds, Typed
  <2>2. unsent' \subseteq Buckets \X Pcts
    <3>1. unsent' \subseteq unsent \cup {<<b, p>>}
      BY <1>3, PostFacts DEF Typed
    <3> QED
      BY <3>1 DEF Typed, CounterTypes
  <2>3. CounterTypes'
    <3>1. CounterTypes /\ UNCHANGED <<rows, covered, triggered, pushed>>
      BY <1>3 DEF PostEnds, Typed
    <3>2. posts' \in [Buckets -> [Pcts -> Nat]] /\ alerts' \in [Buckets -> [Pcts -> Nat]]
      BY <1>3, <3>1, PostFacts
    <3> QED
      BY <2>2, <3>1, <3>2 DEF CounterTypes
  <2> QED
    BY <1>3, <2>1, <2>3 DEF PostEnds, Typed, RowTypes, ConfigTypes, ods, config
<1>4. CASE Restart
  <2>1. FaultTypes'
    BY <1>4, Parameters DEF Restart, Fault, Typed, FaultTypes
  <2>2. ConfigTypes'
    <3>1. loaded' \in BOOLEAN
      BY <1>4, Zenon DEF Restart
    <3> QED
      BY <1>4, <3>1 DEF Restart, Typed, ConfigTypes
  <2>3. CounterTypes'
    BY <1>4 DEF Restart, Typed, CounterTypes
  <2> QED
    BY <1>4, <2>1, <2>2, <2>3, IdleFacts DEF Restart, Typed, RowTypes, Ready, Going, ods
<1> QED
  BY <1>1, <1>2, <1>3, <1>4

LEMMA TypedInvariant == Spec => []Typed
<1>1. Typed /\ [Next]_vars => Typed'
  <2> SUFFICES ASSUME Typed, [Next]_vars PROVE Typed'
    OBVIOUS
  <2>1. CASE UNCHANGED vars
    BY <2>1 DEF vars, Typed, RowTypes, ConfigTypes, CounterTypes, FaultTypes, ods, config,
                counters
  <2>2. CASE Worker
    BY <2>2, FetchTyped, TxCommitTyped, TxFailsTyped, CheckpointedTyped, ReplayTyped,
       OnFactTyped, ApplyTyped, RecomputeTyped, CrossTyped, MarkTyped, CrossDoneTyped
       DEF Worker
  <2> QED
    BY <2>1, <2>2, SurroundingsTyped DEF Next
<1> QED
  BY <1>1, TypedInit, PTL DEF Spec

\* Every variable has its type: checkpoints and retry counts stay within their
\* bounds, and quota work is about buckets that rules name.
THEOREM ProjectionTyped == Spec => []TypeOK
<1>1. Typed => TypeOK
  BY DEF Typed, TypeOK, RowTypes, ConfigTypes, CounterTypes, FaultTypes, Ready, Going
<1> QED
  BY <1>1, TypedInvariant, PTL

----------------------------------------------------------------------------
(* Rows and facts.                                                         *)

\* A quarantined row is never fetched, so nothing is done with it.
QuarantineKept ==
  \A r \in Quarantined : r \notin work.batch /\ status[r] \in {"none", "quarantined"}

\* Replayed one by one, a record that is past its insert has a fact, or is the
\* probe's: the quota work comes between the insert and the mark.
InsertedFirst ==
  work.pc \in QuotaPCs \cup {"settle"} =>
    \A r \in Records : First(r) => r \in facts \cup Canary

\* A row in hand has the retry count it was fetched with, or the next one, of a
\* transaction that took effect and was reported to have failed.
RetriesCounted ==
  \A r \in work.batch :
    \/ tries[r] = work.fetched[r]
    \/ ~Dead(r) /\ tries[r] = work.fetched[r] + 1

Settling ==
  QuarantineKept /\ InsertedFirst /\ RetriesCounted /\ ProjectedExactly /\ DeadLetterEarned

LEMMA WorkFacts ==
  ASSUME Typed
  PROVE  /\ work.batch \in SUBSET Records /\ work.fetched \in [Records -> Nat]
         /\ work.pc \in {"idle", "tx", "one", "settle"} \cup QuotaPCs
         /\ \A r \in Records : tries[r] \in 0..(DeadLetterThreshold - 1)
         /\ status \in [Records -> Statuses] /\ facts \subseteq Records
         /\ tries \in [Records -> 0..(DeadLetterThreshold - 1)]
  BY DEF Typed, Ready, Going, Work, RowTypes

\* A retry count that is written is the next one, or the last.
LEMMA RetriedFacts ==
  ASSUME Typed, RetriesCounted, NEW r \in work.batch
  PROVE  /\ Dead(r) => Retried(r) = DeadLetterThreshold - 1 /\ Retried(r) = work.fetched[r]
         /\ ~Dead(r) => Retried(r) = work.fetched[r] + 1
         /\ Failed(r) = IF Dead(r) THEN "dead_letter" ELSE "retry"
  BY WorkFacts, Parameters DEF RetriesCounted, Retried, Dead, Failed

LEMMA SettlingInit == Init => Settling
<1> SUFFICES ASSUME Init PROVE Settling
  OBVIOUS
<1>1. /\ status = [r \in Records |-> "none"] /\ tries = [r \in Records |-> 0]
      /\ facts = {} /\ work = Idle
  BY DEF Init
<1>2. QuarantineKept /\ RetriesCounted /\ InsertedFirst
  BY <1>1, IdleFacts, Parameters DEF QuarantineKept, RetriesCounted, InsertedFirst, QuotaPCs
<1>3. ProjectedExactly /\ DeadLetterEarned
  BY <1>1 DEF ProjectedExactly, DeadLetterEarned, Billable
<1> QED
  BY <1>2, <1>3 DEF Settling

LEMMA FetchSettling ==
  ASSUME Typed, Settling, FetchPending
  PROVE  Settling'
<1>1. PICK due \in SUBSET With("retry") :
        LET batch == Fetch(With("pending") \cup due) IN
        /\ batch # {}
        /\ work' = [Idle EXCEPT !.pc = "tx", !.batch = batch, !.top = Max(batch),
                                !.fetched = tries]
  BY DEF FetchPending
<1> DEFINE batch == Fetch(With("pending") \cup due)
<1>2. \A r \in batch : r \in Records /\ status[r] \in {"pending", "retry"}
  BY DEF Fetch, With
<1>3. work'.batch = batch /\ work'.fetched = tries /\ work'.pc = "tx"
  BY <1>1, IdleFacts DEF Work
<1>4. UNCHANGED <<status, tries, facts>>
  BY DEF FetchPending, ods
<1> HIDE DEF batch
<1>5. QuarantineKept' /\ InsertedFirst' /\ RetriesCounted'
  BY <1>2, <1>3, <1>4 DEF Settling, QuarantineKept, InsertedFirst, RetriesCounted, QuotaPCs
<1> QED
  BY <1>4, <1>5 DEF Settling, ProjectedExactly, DeadLetterEarned

\* The transaction, whatever it is reported as.
LEMMA TxEffectSettling ==
  ASSUME Typed, Settling, NEW E \in SUBSET (work.batch \ Canary), TxEffect(E)
  PROVE  /\ ProjectedExactly' /\ DeadLetterEarned'
         /\ \A r \in Quarantined : status'[r] \in {"none", "quarantined"}
         /\ \A r \in work.batch :
              \/ tries'[r] = work.fetched[r]
              \/ ~Dead(r) /\ tries'[r] = work.fetched[r] + 1
<1>1. /\ work.batch \in SUBSET Records /\ work.batch \cap Quarantined = {}
      /\ Quarantined \subseteq Records
  BY WorkFacts, Parameters DEF Settling, QuarantineKept
<1>2. ASSUME NEW r \in Records
      PROVE  /\ status'[r] = IF r \in E THEN Failed(r)
                             ELSE IF r \in work.batch THEN "projected" ELSE status[r]
             /\ tries'[r] = IF r \in E THEN Retried(r) ELSE tries[r]
  BY DEF TxEffect
<1>3. facts' = facts \cup (work.batch \ (E \cup Canary))
  BY DEF TxEffect
<1>4. ASSUME NEW r \in E
      PROVE  /\ r \in Records /\ status'[r] \in {"dead_letter", "retry"}
             /\ status'[r] = "dead_letter" => tries'[r] = DeadLetterThreshold - 1
             /\ \/ tries'[r] = work.fetched[r]
                \/ ~Dead(r) /\ tries'[r] = work.fetched[r] + 1
  BY <1>1, <1>2, RetriedFacts DEF Settling
<1>5. ProjectedExactly'
  BY <1>1, <1>2, <1>3, <1>4 DEF Settling, ProjectedExactly, Billable
<1>6. DeadLetterEarned'
  BY <1>2, <1>4 DEF Settling, DeadLetterEarned
<1>7. \A r \in Quarantined : status'[r] \in {"none", "quarantined"}
  BY <1>1, <1>2 DEF Settling, QuarantineKept
<1>8. \A r \in work.batch :
        \/ tries'[r] = work.fetched[r]
        \/ ~Dead(r) /\ tries'[r] = work.fetched[r] + 1
  BY <1>1, <1>2, <1>4 DEF Settling, RetriesCounted
<1> QED
  BY <1>5, <1>6, <1>7, <1>8

LEMMA TxSettling ==
  ASSUME Typed, Settling, TxCommit \/ TxFails
  PROVE  Settling'
<1>1. CASE TxCommit
  <2>1. PICK E \in SUBSET (work.batch \ Canary) :
          TxEffect(E) /\ work' = AfterCommit(NewFacts(E))
    BY <1>1 DEF TxCommit
  <2>2. work'.batch = {}
    BY <2>1, IdleFacts DEF AfterCommit, Work
  <2>3. QuarantineKept' /\ InsertedFirst' /\ RetriesCounted'
    BY <2>1, <2>2, TxEffectSettling DEF QuarantineKept, InsertedFirst, First, RetriesCounted
  <2> QED
    BY <2>1, <2>3, TxEffectSettling DEF Settling
<1>2. CASE TxFails
  <2>1. work'.pc = "one" /\ work'.batch = work.batch /\ work'.fetched = work.fetched
    BY <1>2 DEF TxFails, Typed, Ready, Going, Work
  <2>2. InsertedFirst'
    BY <2>1 DEF InsertedFirst, QuotaPCs
  <2>3. CASE UNCHANGED <<ods, facts>>
    BY <2>1, <2>2, <2>3 DEF Settling, QuarantineKept, RetriesCounted, Dead, ProjectedExactly,
                            DeadLetterEarned, ods
  <2>4. ASSUME NEW E \in SUBSET (work.batch \ Canary), TxEffect(E) PROVE Settling'
    <3>1. QuarantineKept' /\ RetriesCounted'
      BY <2>1, <2>4, TxEffectSettling DEF Settling, QuarantineKept, RetriesCounted, Dead
    <3> QED
      BY <2>2, <2>4, <3>1, TxEffectSettling DEF Settling
  <2> QED
    BY <1>2, <2>3, <2>4 DEF TxFails
<1> QED
  BY <1>1, <1>2

\* The record in hand is the only first one, and no quarantined one.
LEMMA FirstFacts ==
  ASSUME Typed, Settling, NEW r \in Records, First(r)
  PROVE  /\ r \in work.batch /\ r \notin Quarantined
         /\ \A q \in Records : First(q) => q = r
         /\ r \in Int
  BY WorkFacts, Parameters DEF First, Settling, QuarantineKept, Records

\* What is left of the batch when one record is done with.
LEMMA RestSettling ==
  ASSUME Typed, Settling, NEW r \in Records, First(r), work' = Rest(work, r),
         \A q \in Records \ {r} : status'[q] = status[q] /\ tries'[q] = tries[q]
  PROVE  /\ InsertedFirst' /\ RetriesCounted'
         /\ \A q \in Quarantined : q \notin work'.batch /\ status'[q] = status[q]
<1>1. /\ work'.pc = "one" /\ work'.batch = work.batch \ {r}
      /\ work'.fetched = work.fetched /\ work.batch \in SUBSET Records
  BY RestType, WorkFacts
<1>2. InsertedFirst'
  BY <1>1 DEF InsertedFirst, QuotaPCs
<1>3. RetriesCounted'
  BY <1>1 DEF Settling, RetriesCounted, Dead
<1>4. \A q \in Quarantined : q \notin work'.batch /\ status'[q] = status[q]
  BY <1>1, FirstFacts, Parameters DEF Settling, QuarantineKept
<1> QED
  BY <1>2, <1>3, <1>4

LEMMA ReplaySettling ==
  ASSUME Typed, Settling, NEW r \in Records,
         ProjectFails(r) \/ MarkProjected(r) \/ MarkFails(r)
  PROVE  Settling'
<1>1. First(r) /\ work' = Rest(work, r) /\ UNCHANGED facts
  BY DEF ProjectFails, MarkProjected, MarkFails
<1>2. r \in work.batch /\ r \notin Quarantined
  BY <1>1, FirstFacts
<1>3. /\ status' = status \/ \E x : status' = [status EXCEPT ![r] = x]
      /\ tries' = tries \/ \E x : tries' = [tries EXCEPT ![r] = x]
  BY DEF ProjectFails, MarkProjected, MarkFails, ods
<1>4. \A q \in Records \ {r} : status'[q] = status[q] /\ tries'[q] = tries[q]
  BY <1>3, WorkFacts
<1>5. QuarantineKept' /\ InsertedFirst' /\ RetriesCounted'
  BY <1>1, <1>4, RestSettling DEF Settling, QuarantineKept
<1>6. /\ status'[r] = "projected" => status[r] = "projected" \/ r \in facts \cup Canary
      /\ status'[r] = "dead_letter" => tries'[r] = DeadLetterThreshold - 1
  <2>1. CASE ProjectFails(r)
    <3>1. status'[r] = Failed(r) /\ tries'[r] = Retried(r)
      BY <2>1, WorkFacts DEF ProjectFails
    <3> QED
      BY <3>1, <1>2, RetriedFacts DEF Settling
  <2>2. CASE MarkProjected(r)
    <3>1. status'[r] = "projected" /\ r \in facts \cup Canary
      BY <2>2, WorkFacts DEF MarkProjected, Settling, InsertedFirst
    <3> QED
      BY <3>1
  <2>3. CASE MarkFails(r)
    BY <2>3 DEF MarkFails, ods, Settling, DeadLetterEarned
  <2> QED
    BY <2>1, <2>2, <2>3
<1>7. ProjectedExactly'
  BY <1>1, <1>4, <1>6 DEF Settling, ProjectedExactly, Billable
<1>8. DeadLetterEarned'
  BY <1>4, <1>6 DEF Settling, DeadLetterEarned
<1> QED
  BY <1>5, <1>7, <1>8 DEF Settling

LEMMA InsertSettling ==
  ASSUME Typed, Settling, NEW r \in Records, ProjectInsert(r)
  PROVE  Settling'
<1> DEFINE new == {r} \ (Canary \cup facts)
<1>1. /\ First(r) /\ facts' = facts \cup new /\ UNCHANGED <<status, tries>>
      /\ \/ work' = [work EXCEPT !.pc = "settle"]
         \/ work' = [work EXCEPT !.pc = "call", !.todo = {Call(new, r)}]
  BY DEF ProjectInsert, ods
<1>2. work'.batch = work.batch /\ work'.fetched = work.fetched
  BY <1>1 DEF Typed, Ready, Going, Work
<1>3. r \in facts' \cup Canary
  BY <1>1
<1>4. InsertedFirst'
  BY <1>1, <1>2, <1>3, FirstFacts DEF InsertedFirst, First
<1>5. QuarantineKept' /\ RetriesCounted' /\ DeadLetterEarned'
  BY <1>1, <1>2 DEF Settling, QuarantineKept, RetriesCounted, Dead, DeadLetterEarned
<1>6. ProjectedExactly'
  BY <1>1, FirstFacts DEF Settling, ProjectedExactly, Billable
<1> QED
  BY <1>4, <1>5, <1>6 DEF Settling

\* A step that leaves rows, facts and batch alone, and is past the insert only if
\* the one before was.
LEMMA StutterSettling ==
  ASSUME Typed, Settling, UNCHANGED <<status, tries, facts>>,
         work'.batch \in {work.batch, {}},
         work'.batch # {} => work'.fetched = work.fetched,
         work'.batch # {} /\ work'.pc \in QuotaPCs \cup {"settle"} =>
           work.pc \in QuotaPCs \cup {"settle"}
  PROVE  Settling'
<1>1. QuarantineKept'
  BY DEF Settling, QuarantineKept
<1>2. RetriesCounted'
  BY DEF Settling, RetriesCounted, Dead
<1>3. InsertedFirst'
  BY DEF Settling, InsertedFirst, First
<1> QED
  BY <1>1, <1>2, <1>3 DEF Settling, ProjectedExactly, DeadLetterEarned

LEMMA QuotaSettling ==
  ASSUME Typed, Settling,
         OnFact \/ ApplyToSubject \/ Recompute \/ Cross \/ Mark \/ CrossDone
  PROVE  Settling'
<1>1. UNCHANGED <<status, tries, facts>> /\ work.pc \in QuotaPCs
  BY DEF OnFact, ApplyToSubject, Recompute, Cross, Mark, CrossDone, ods, QuotaPCs
<1>2. BatchKept
  BY OnFactTyped, ApplyTyped, RecomputeTyped, CrossTyped, MarkTyped, CrossDoneTyped
<1> QED
  BY <1>1, <1>2, StutterSettling DEF BatchKept

\* The surroundings: a row arrives with a status that settles nothing.
LEMMA SurroundingsSettling ==
  ASSUME Typed, Settling,
         \/ \E r \in Records : Arrive(r)
         \/ \E s \in Subjects : Enable(s)
         \/ \E b \in Buckets, p \in Pcts : PostEnds(b, p)
         \/ Restart \/ Checkpointed \/ UNCHANGED vars
  PROVE  Settling'
<1>1. ASSUME NEW r \in Records, Arrive(r) PROVE Settling'
  <2>1. /\ status' = [status EXCEPT ![r] = IF r \in Quarantined THEN "quarantined"
                                           ELSE "pending"]
        /\ UNCHANGED <<tries, facts, work>> /\ status \in [Records -> Statuses]
    BY <1>1, WorkFacts DEF Arrive
  <2>2. QuarantineKept'
    BY <2>1, Parameters DEF Settling, QuarantineKept
  <2>3. InsertedFirst' /\ RetriesCounted'
    BY <2>1 DEF Settling, InsertedFirst, First, RetriesCounted, Dead
  <2>4. ProjectedExactly' /\ DeadLetterEarned'
    BY <2>1 DEF Settling, ProjectedExactly, DeadLetterEarned, Billable
  <2> QED
    BY <2>2, <2>3, <2>4 DEF Settling
<1>2. ASSUME NEW s \in Subjects, Enable(s) PROVE Settling'
  BY <1>2, StutterSettling DEF Enable, ods, counters
<1>3. CASE Restart
  BY <1>3, IdleFacts, StutterSettling DEF Restart, ods
<1>4. CASE Checkpointed
  BY <1>4, IdleFacts, StutterSettling DEF Checkpointed, ods
<1>5. CASE UNCHANGED vars
  BY <1>5, StutterSettling DEF vars, ods
<1>6. ASSUME NEW b \in Buckets, NEW p \in Pcts, PostEnds(b, p) PROVE Settling'
  BY <1>6, StutterSettling DEF PostEnds, ods
<1> QED
  BY <1>1, <1>2, <1>3, <1>4, <1>5, <1>6

LEMMA SettlingInvariant == Spec => []Settling
<1>1. Typed /\ Settling /\ [Next]_vars => Settling'
  <2> SUFFICES ASSUME Typed, Settling, [Next]_vars PROVE Settling'
    OBVIOUS
  <2>1. CASE Worker
    BY <2>1, FetchSettling, TxSettling, ReplaySettling, InsertSettling, QuotaSettling,
       SurroundingsSettling DEF Worker
  <2> QED
    BY <2>1, SurroundingsSettling DEF Next
<1> QED
  BY <1>1, SettlingInit, TypedInvariant, PTL DEF Spec

----------------------------------------------------------------------------
(* Alerts.                                                                 *)

\* The alert has been handed over; every threshold of the percentage asks for one.
Handed(b, p) == alerts[b][p] >= 1 \/ posts[b][p] >= 1 \/ <<b, p>> \in unsent
ToTell(b, p) == \A t \in At(b, p) : t.notify

\* An alert precedes its record: it was given for what is recorded, and for what
\* is about to be.
AlertFirst ==
  /\ \A b \in Buckets : \A p \in triggered[b] : ToTell(b, p) => Handed(b, p)
  /\ work.pc = "mark" =>
       \A b \in work.buckets : \A p \in work.newly : ToTell(b, p) => Handed(b, p)

\* And it is given once: what was alerted is recorded, or about to be.
AlertOnce ==
  ~interrupted => \A b \in Buckets, p \in Pcts :
    /\ alerts[b][p] + posts[b][p] <= 1
    /\ alerts[b][p] + posts[b][p] = 1 =>
         \/ p \in triggered[b]
         \/ work.pc = "mark" /\ b \in work.buckets /\ p \in work.newly

\* What is newly crossed is all that is crossed and not on record: of the
\* thresholds of one percentage one comes first.
LEMMA NewlyFacts ==
  ASSUME NEW b \in Buckets
  PROVE  /\ Newly(b) \subseteq Crossed(b)
         /\ {t.pct : t \in Newly(b)} = {t.pct : t \in Crossed(b)} \ triggered[b]
<1>1. b.subject \in Subjects
  BY DEF Buckets, Bucket
<1>2. \A t \in Crossed(b) : t.at \in Nat
  BY <1>1, RuleAssumption DEF Crossed, RulesFor
<1>3. ASSUME NEW t \in Crossed(b), t.pct \notin triggered[b]
      PROVE  \E u \in Newly(b) : u.pct = t.pct
  <2> DEFINE S == {u.at : u \in {u \in Crossed(b) : u.pct = t.pct}}
  <2>1. S \in SUBSET Nat /\ S # {}
    BY <1>2
  <2>2. Min(S) \in S /\ \A x \in S : Min(S) <= x
    <3> HIDE DEF S
    <3> QED
      BY <2>1, LeastNatural
  <2>3. PICK u \in Crossed(b) : u.pct = t.pct /\ u.at = Min(S)
    BY <2>2
  <2>4. \A v \in Crossed(b) : v.pct = t.pct => u.at <= v.at
    BY <2>2, <2>3
  <2> QED
    BY <1>3, <2>3, <2>4 DEF Newly
<1> QED
  BY <1>3 DEF Newly

LEMMA AlertInit == Init => AlertFirst /\ AlertOnce
<1> SUFFICES ASSUME Init PROVE AlertFirst /\ AlertOnce
  OBVIOUS
<1>1. /\ triggered = [b \in Buckets |-> {}] /\ work.pc = "idle"
      /\ alerts = [b \in Buckets |-> [p \in Pcts |-> 0]]
      /\ posts = [b \in Buckets |-> [p \in Pcts |-> 0]]
  BY IdleFacts DEF Init
<1> QED
  BY <1>1 DEF AlertFirst, AlertOnce

\* What was handed over, and what is to be told, in the next state.
LEMMA HandedSame ==
  ASSUME UNCHANGED <<posts, alerts, unsent>>
  PROVE  \A b, p : Handed(b, p)' = Handed(b, p)
  BY DEF Handed

LEMMA ToTellSame == \A b, p : ToTell(b, p)' = ToTell(b, p)
  BY DEF ToTell, At, RulesFor

LEMMA CrossAlerts ==
  ASSUME Typed, AlertFirst, AlertOnce, Cross
  PROVE  AlertFirst' /\ AlertOnce'
<1>1. PICK b \in work.results : NotifyCrossing(b, Notified(b)) /\ Judge(b)
  BY DEF Cross
<1>2. /\ b \in Buckets /\ alerts \in [Buckets -> [Pcts -> Nat]]
      /\ posts \in [Buckets -> [Pcts -> Nat]] /\ triggered \in [Buckets -> SUBSET Pcts]
      /\ UNCHANGED <<triggered, alerts, unsent, interrupted>> /\ work.pc = "cross"
  BY DEF Cross, Typed, Ready, Going, Work, CounterTypes, NoFault
<1>3. /\ work'.pc \in {"cross", "mark"} /\ work'.newly = {t.pct : t \in Newly(b)}
      /\ work'.buckets \subseteq {b}
      /\ Newly(b) # {} => work'.buckets = {b} /\ work'.pc = "mark"
  BY <1>1 DEF Judge, Typed, Ready, Going, Work
<1>4. /\ \A p \in work'.newly : p \in Pcts /\ p \notin triggered[b]
      /\ Notified(b) \subseteq work'.newly
  BY <1>2, <1>3, NewlyFacts, CrossedType DEF Notified
<1>5. ASSUME NEW c \in Buckets, NEW p \in Pcts
      PROVE  /\ posts'[c][p] \in Nat /\ posts[c][p] \in Nat /\ alerts[c][p] \in Nat
             /\ posts'[c][p] = IF c = b /\ p \in Notified(b) THEN posts[c][p] + 1
                               ELSE posts[c][p]
  BY <1>1, <1>2 DEF NotifyCrossing
<1>6. ASSUME NEW c \in Buckets, NEW p \in triggered[c], ToTell(c, p)
      PROVE  Handed(c, p)'
  <2>1. p \in Pcts /\ Handed(c, p)
    BY <1>2, <1>6 DEF AlertFirst
  <2> QED
    BY <1>2, <1>5, <2>1 DEF Handed
<1>7. ASSUME NEW p \in work'.newly, ToTell(b, p)
      PROVE  Handed(b, p)'
  <2>1. PICK t \in Newly(b) : t.pct = p
    BY <1>3
  <2>2. t \in At(b, p)
    BY <1>2, <2>1, NewlyFacts, CrossedType
  <2>3. p \in Notified(b)
    BY <1>7, <2>1, <2>2 DEF ToTell, Notified
  <2> QED
    BY <1>2, <1>4, <1>5, <2>3 DEF Handed
<1>8. AlertFirst'
  BY <1>2, <1>3, <1>6, <1>7, ToTellSame DEF AlertFirst
<1>9. ASSUME ~interrupted, NEW c \in Buckets, NEW p \in Pcts
      PROVE  /\ alerts[c][p] + posts'[c][p] <= 1
             /\ alerts[c][p] + posts'[c][p] = 1 =>
                  \/ p \in triggered[c]
                  \/ work'.pc = "mark" /\ c \in work'.buckets /\ p \in work'.newly
  <2>1. CASE c = b /\ p \in Notified(b)
    <3>1. p \notin triggered[b] /\ p \in work'.newly /\ work'.pc = "mark" /\ b \in work'.buckets
      BY <1>3, <1>4, <2>1
    <3>2. alerts[b][p] + posts[b][p] <= 1 /\ alerts[b][p] + posts[b][p] # 1
      BY <1>2, <1>9, <2>1, <3>1 DEF AlertOnce
    <3> QED
      BY <1>5, <2>1, <3>1, <3>2
  <2>2. CASE ~(c = b /\ p \in Notified(b))
    BY <1>2, <1>5, <1>9, <2>2 DEF AlertOnce
  <2> QED
    BY <2>1, <2>2
<1>10. AlertOnce'
  BY <1>2, <1>9 DEF AlertOnce
<1> QED
  BY <1>8, <1>10

LEMMA MarkAlerts ==
  ASSUME Typed, AlertFirst, AlertOnce, Mark
  PROVE  AlertFirst' /\ AlertOnce'
<1>1. /\ UNCHANGED <<posts, alerts, unsent>> /\ work.pc = "mark" /\ work'.pc = "cross"
      /\ triggered \in [Buckets -> SUBSET Pcts]
  BY DEF Mark, Typed, Ready, Going, Work, CounterTypes, mail
<1>2. CASE triggered' = [b \in Buckets |-> IF b \in work.buckets
                                           THEN triggered[b] \cup work.newly
                                           ELSE triggered[b]] /\ NoFault
  BY <1>1, <1>2, HandedSame, ToTellSame DEF AlertFirst, AlertOnce, NoFault
<1>3. CASE UNCHANGED triggered /\ Fault(TRUE)
  BY <1>1, <1>3, HandedSame, ToTellSame DEF AlertFirst, AlertOnce, Fault
<1> QED
  BY <1>2, <1>3 DEF Mark

\* A post ends: it reached control, or is known as unsent.
LEMMA PostAlerts ==
  ASSUME Typed, AlertFirst, AlertOnce, NEW b \in Buckets, NEW p \in Pcts, PostEnds(b, p)
  PROVE  AlertFirst' /\ AlertOnce'
<1>1. /\ posts \in [Buckets -> [Pcts -> Nat]] /\ alerts \in [Buckets -> [Pcts -> Nat]]
      /\ triggered \in [Buckets -> SUBSET Pcts] /\ work.newly \subseteq Pcts
      /\ work.buckets \subseteq Buckets /\ CounterTypes
      /\ UNCHANGED <<triggered, work>> /\ (~interrupted' => ~interrupted)
  <2>1. ~interrupted' => ~interrupted
    BY Zenon DEF PostEnds, NoFault, Fault
  <2>2. UNCHANGED <<triggered, work>>
    BY DEF PostEnds
  <2> QED
    BY <2>1, <2>2 DEF Typed, CounterTypes, Ready, Going, Work
<1>2. ASSUME NEW c \in Buckets, NEW q \in Pcts
      PROVE  /\ posts[c][q] \in Nat /\ alerts[c][q] \in Nat
             /\ Handed(c, q) => Handed(c, q)'
             /\ alerts'[c][q] + posts'[c][q] <= alerts[c][q] + posts[c][q]
             /\ alerts'[c][q] + posts'[c][q] \in Nat
  <2>1. /\ \A x \in Buckets, y \in Pcts : ~(x = b /\ y = p) =>
             posts'[x][y] = posts[x][y] /\ alerts'[x][y] = alerts[x][y]
        /\ unsent \subseteq unsent'
    <3>1. CounterTypes
      BY <1>1
    <3> QED
      BY <3>1, PostFacts
  <2>2. CASE c = b /\ q = p
    BY <1>1, <2>2, PostFacts DEF Handed
  <2>3. CASE ~(c = b /\ q = p)
    <3>1. posts'[c][q] = posts[c][q] /\ alerts'[c][q] = alerts[c][q]
      BY <2>3, <2>1
    <3>2. unsent \subseteq unsent'
      BY <2>1
    <3>3. posts[c][q] \in Nat /\ alerts[c][q] \in Nat
      BY <1>1
    <3> QED
      BY <3>1, <3>3, <3>2 DEF Handed
  <2> QED
    BY <2>2, <2>3
<1>3. AlertFirst'
  <2>1. \A c \in Buckets : \A q \in triggered'[c] : ToTell(c, q)' => Handed(c, q)'
    BY <1>1, <1>2, ToTellSame DEF AlertFirst
  <2>2. ASSUME work'.pc = "mark", NEW c \in work'.buckets, NEW q \in work'.newly, ToTell(c, q)'
        PROVE  Handed(c, q)'
    <3>1. /\ c \in work.buckets /\ q \in work.newly /\ work.pc = "mark" /\ ToTell(c, q)
          /\ c \in Buckets /\ q \in Pcts
      BY <1>1, <2>2, ToTellSame
    <3>2. Handed(c, q)
      BY <3>1 DEF AlertFirst
    <3> QED
      BY <1>2, <3>1, <3>2
  <2> QED
    BY <2>1, <2>2 DEF AlertFirst
<1>4. AlertOnce'
  <2> SUFFICES ASSUME ~interrupted', NEW c \in Buckets, NEW q \in Pcts
               PROVE  /\ alerts'[c][q] + posts'[c][q] <= 1
                      /\ alerts'[c][q] + posts'[c][q] = 1 =>
                           \/ q \in triggered'[c]
                           \/ work'.pc = "mark" /\ c \in work'.buckets /\ q \in work'.newly
    BY DEF AlertOnce
  <2>1. /\ alerts[c][q] + posts[c][q] <= 1
        /\ alerts[c][q] + posts[c][q] = 1 =>
             \/ q \in triggered[c]
             \/ work.pc = "mark" /\ c \in work.buckets /\ q \in work.newly
    BY <1>1 DEF AlertOnce
  <2> QED
    BY <1>1, <1>2, <2>1
<1> QED
  BY <1>3, <1>4

\* A stop of the collector loses what was on its way, and is the only other step
\* that leaves the record of an alert undone.
LEMMA RestartAlerts ==
  ASSUME Typed, AlertFirst, AlertOnce, Restart
  PROVE  AlertFirst' /\ AlertOnce'
<1>1. /\ posts \in [Buckets -> [Pcts -> Nat]] /\ alerts \in [Buckets -> [Pcts -> Nat]]
      /\ triggered \in [Buckets -> SUBSET Pcts]
      /\ posts' = [b \in Buckets |-> [p \in Pcts |-> 0]]
      /\ unsent' = unsent \cup {x \in Buckets \X Pcts : posts[x[1]][x[2]] > 0}
      /\ UNCHANGED <<triggered, alerts>>
  BY DEF Restart, Typed, CounterTypes
<1>2. work'.pc # "mark" /\ (~interrupted' => work.pc # "mark" /\ ~interrupted)
  BY IdleFacts DEF Restart, Fault, QuotaPCs
<1>3. ASSUME NEW b \in Buckets, NEW p \in Pcts, Handed(b, p) PROVE Handed(b, p)'
  BY <1>1, <1>3 DEF Handed
<1>4. AlertFirst'
  BY <1>1, <1>2, <1>3, ToTellSame DEF AlertFirst
<1>5. AlertOnce'
  <2>1. \A b \in Buckets, p \in Pcts :
          /\ alerts'[b][p] + posts'[b][p] <= alerts[b][p] + posts[b][p]
          /\ alerts'[b][p] + posts'[b][p] \in Nat /\ alerts[b][p] + posts[b][p] \in Nat
    BY <1>1
  <2> QED
    BY <1>1, <1>2, <2>1 DEF AlertOnce
<1> QED
  BY <1>4, <1>5

\* Every other step leaves what was alerted and recorded.
LEMMA OtherAlerts ==
  ASSUME Typed, AlertFirst, AlertOnce, [Next]_vars, ~Cross, ~Mark, ~Restart,
         ~\E b \in Buckets, p \in Pcts : PostEnds(b, p)
  PROVE  AlertFirst' /\ AlertOnce'
<1>1. UNCHANGED <<posts, alerts, unsent, triggered>>
  BY DEF Next, Worker, FetchPending, TxCommit, TxFails, Checkpointed, ProjectFails,
         ProjectInsert, MarkProjected, MarkFails, OnFact, ApplyToSubject, Recompute,
         CrossDone, Arrive, Enable, counters, mail, vars
<1>2. ~interrupted' => ~interrupted
  BY DEF Next, Worker, FetchPending, TxCommit, TxFails, Checkpointed, ProjectFails,
         ProjectInsert, MarkProjected, MarkFails, OnFact, ApplyToSubject, Recompute,
         CrossDone, Arrive, Enable, NoFault, Fault, vars
<1>3. \/ UNCHANGED work
      \/ work.pc # "mark" /\ work'.pc # "mark"
  <2>1. CASE FetchPending \/ TxCommit \/ TxFails
    <3>1. work.pc # "mark"
      BY <2>1 DEF FetchPending, TxCommit, TxFails
    <3>2. work'.pc # "mark"
      BY <2>1, IdleFacts DEF FetchPending, TxCommit, TxFails, AfterCommit, Work, Typed, Ready,
                             Going
    <3> QED
      BY <3>1, <3>2
  <2>2. ASSUME NEW r \in Records,
               ProjectFails(r) \/ ProjectInsert(r) \/ MarkProjected(r) \/ MarkFails(r)
        PROVE  work.pc # "mark" /\ work'.pc # "mark"
    BY <2>2, RestType DEF ProjectFails, ProjectInsert, MarkProjected, MarkFails, Typed, Ready,
                          Going, Work
  <2>3. CASE Checkpointed
    BY <2>3, IdleFacts DEF Checkpointed
  <2>4. CASE OnFact \/ ApplyToSubject \/ Recompute \/ CrossDone
    BY <2>4, OnFactTyped, ApplyTyped, RecomputeTyped, CrossDoneTyped
       DEF OnFact, ApplyToSubject, Recompute, CrossDone
  <2>5. CASE \/ \E r \in Records : Arrive(r)
             \/ \E s \in Subjects : Enable(s)
             \/ UNCHANGED vars
    BY <2>5 DEF Arrive, Enable, vars
  <2> QED
    BY <2>1, <2>2, <2>3, <2>4, <2>5 DEF Next, Worker
<1>4. CASE UNCHANGED work
  BY <1>1, <1>2, <1>4, HandedSame, ToTellSame DEF AlertFirst, AlertOnce
<1>5. CASE work.pc # "mark" /\ work'.pc # "mark"
  BY <1>1, <1>2, <1>5, HandedSame, ToTellSame DEF AlertFirst, AlertOnce
<1> QED
  BY <1>3, <1>4, <1>5

LEMMA AlertInvariant == Spec => [](AlertFirst /\ AlertOnce)
<1>1. Typed /\ AlertFirst /\ AlertOnce /\ [Next]_vars => (AlertFirst /\ AlertOnce)'
  BY CrossAlerts, MarkAlerts, PostAlerts, RestartAlerts, OtherAlerts
<1> QED
  BY <1>1, AlertInit, TypedInvariant, PTL DEF Spec

----------------------------------------------------------------------------
(* What a counter adds up to.                                              *)

Units(m, S) == UNION {{r} \X (1..Usage[m][r]) : r \in S}

LEMMA UnitsFinite ==
  ASSUME NEW m \in Metrics, NEW S \in SUBSET Records
  PROVE  IsFiniteSet(Units(m, S))
<1> DEFINE Of(r) == {r} \X (1..Usage[m][r])
           Parts == {Of(r) : r \in S}
           f == [r \in S |-> Of(r)]
<1>1. IsFiniteSet(S)
  <2>1. IsFiniteSet(Records)
    BY Parameters, FS_Interval DEF Records
  <2> QED
    BY <2>1, FS_Subset
<1>2. IsFiniteSet(Parts)
  <2>1. f \in Surjection(S, Parts)
    BY DEF Surjection
  <2> QED
    BY <1>1, <2>1, FS_Surjection DEF ExistsSurjection
<1>3. ASSUME NEW r \in S PROVE IsFiniteSet(Of(r))
  <2>1. Usage[m][r] \in Nat
    BY RecordAssumption
  <2>2. IsFiniteSet({r})
    BY FS_Singleton
  <2>3. IsFiniteSet(1..Usage[m][r])
    BY <2>1, FS_Interval
  <2> QED
    BY <2>2, <2>3, FS_Product
<1>4. ASSUME NEW P \in Parts PROVE IsFiniteSet(P)
  <2>1. PICK r \in S : P = Of(r)
    OBVIOUS
  <2> HIDE DEF Of
  <2> QED
    BY <1>3, <2>1
<1>5. IsFiniteSet(UNION Parts)
  <2> HIDE DEF Parts
  <2> QED
    BY <1>2, <1>4, FS_UNION
<1> QED
  BY <1>5 DEF Units

LEMMA UnitsGrow ==
  ASSUME NEW m \in Metrics, NEW S \in SUBSET Records, NEW T \in SUBSET Records, S \subseteq T
  PROVE  /\ Cardinality(Units(m, S)) \in Nat /\ Cardinality(Units(m, T)) \in Nat
         /\ Cardinality(Units(m, S)) <= Cardinality(Units(m, T))
<1>1. Units(m, S) \subseteq Units(m, T)
  BY DEF Units
<1> QED
  BY <1>1, UnitsFinite, FS_Subset, FS_CardinalityType

\* A counter that covers more crosses no fewer thresholds.
LEMMA CrossedGrows ==
  ASSUME NEW b \in Buckets, CounterTypes, CounterTypes', covered[b] \subseteq covered'[b]
  PROVE  Crossed(b) \subseteq Crossed(b)'
<1>1. b.metric \in Metrics /\ b.subject \in Subjects
  BY DEF Buckets, Bucket
<1>2. Used(b) = Cardinality(Units(b.metric, covered[b]))
  BY DEF Used, Units
<1>3. Used(b)' = Cardinality(Units(b.metric, covered'[b]))
  BY DEF Used, Units
<1>4. Used(b) \in Nat /\ Used(b)' \in Nat /\ Used(b) <= Used(b)'
  BY <1>1, <1>2, <1>3, UnitsGrow DEF CounterTypes
<1> SUFFICES ASSUME NEW t \in Crossed(b) PROVE t \in Crossed(b)'
  OBVIOUS
<1>5. PICK q \in RulesFor(b) : t \in q.thresholds /\ Used(b) * 100 >= q.limit * t.pct
  BY DEF Crossed
<1>6. q.limit * t.pct \in Int
  BY <1>1, <1>5, RuleAssumption DEF RulesFor
<1>7. Used(b)' * 100 >= q.limit * t.pct
  <2>1. \A x \in Int : Used(b) * 100 >= x => Used(b)' * 100 >= x
    BY <1>4
  <2> QED
    BY <1>5, <1>6, <2>1
<1> QED
  BY <1>5, <1>7 DEF Crossed

----------------------------------------------------------------------------
(* The counters.  Every fact that moves a counter is owed a recomputation,  *)
(* in a call, a subject or a bucket the worker still holds, until the SUM   *)
(* has been taken, every counter that was recomputed waits to be judged and *)
(* marked, and a hard block waits to be pushed.                             *)

\* The bucket is to be recomputed by what w holds.
Owed(w, b) ==
  \/ \E c \in w.todo : /\ c.seat \in Members[b.subject] /\ b.metric \in c.moved
                       /\ b.key = Key(b.key[1], c.day)
  \/ /\ b.subject \in w.subs /\ b.metric \in w.moved
     /\ b.key = Key(b.key[1], w.day)
  \/ w.pc = "recompute" /\ b \in w.buckets

\* Its thresholds are not waiting to be looked at, or recorded.
Marking(b) == work.pc = "mark" /\ b \in work.buckets
Judged(b) == b \notin work.results /\ ~Marking(b)
Marks(b) == triggered[b] \cup IF Marking(b) THEN work.newly ELSE {}

\* The counters there are, and those of the subjects always enabled.
Counted(b) == b \in rows \/ b.subject \in InitiallyEnabled

\* Where the worker holds what.
RowPCs == {"idle", "tx", "one", "settle"}
Orderly(w) ==
  /\ w.pc \in RowPCs \cup {"call"} => w.subs = {}
  /\ w.pc \in RowPCs => w.todo = {}
  /\ w.pc \in RowPCs \cup {"call", "subject"} => w.results = {} /\ w.buckets = {} /\ ~w.hard
  /\ w.pc = "cross" => w.buckets = {}
  /\ \A b \in w.results \cup w.buckets : b.subject = w.sub

\* What is being marked.
MarksNew ==
  work.pc = "mark" =>
    \E b \in Buckets \ work.results : /\ work.buckets = {b}
                                      /\ work.newly = {t.pct : t \in Newly(b)}

\* The worker knows the subjects it works on, and those of the counters.
Known ==
  /\ InitiallyEnabled \subseteq enabled /\ cache \subseteq enabled /\ work.subs \subseteq cache
  /\ work.pc \in {"recompute", "cross", "mark"} => work.sub \in cache
  /\ \A b \in Buckets : Counted(b) => b.subject \in enabled /\ (loaded => b.subject \in cache)

Summed ==
  \A b \in Buckets :
    /\ covered[b] \subseteq SummedFacts(b)
    /\ Counted(b) => covered[b] = SummedFacts(b) \/ Owed(work, b)

Recorded ==
  \A b \in Buckets :
    /\ triggered[b] \subseteq {t.pct : t \in Crossed(b)}
    /\ b \in rows /\ Judged(b) => triggered[b] = {t.pct : t \in Crossed(b)}

\* Every threshold of the percentage is a hard block.
ToBlock(b, p) == \A t \in At(b, p) : t.block

Blocked ==
  \A b \in Buckets : \A p \in Marks(b) :
    ToBlock(b, p) => b.subject \in pushed \/ (work.hard /\ work.sub = b.subject)

Current ==
  /\ Orderly(work) /\ MarksNew /\ Known
  /\ ~interrupted => Summed /\ Recorded /\ Blocked

LEMMA CurrentInit == Init => Current
<1> SUFFICES ASSUME Init PROVE Current
  OBVIOUS
<1>1. /\ work = Idle /\ rows = {} /\ facts = {} /\ cache = {} /\ loaded = FALSE
      /\ enabled = InitiallyEnabled
      /\ covered = [b \in Buckets |-> {}] /\ triggered = [b \in Buckets |-> {}]
  BY DEF Init
<1>2. work.pc = "idle" /\ Orderly(work) /\ work.subs = {}
  BY <1>1 DEF Idle, Orderly, RowPCs
<1>3. MarksNew /\ Known
  BY <1>1, <1>2 DEF MarksNew, Known, Counted
<1>4. Summed
  BY <1>1 DEF Summed, SummedFacts
<1>5. Recorded /\ Blocked
  BY <1>1, <1>2 DEF Recorded, Blocked, Marks, Marking
<1> QED
  BY <1>2, <1>3, <1>4, <1>5 DEF Current

\* What the SUM of a counter covers decides what it crosses.
LEMMA CrossedSame ==
  ASSUME NEW b, covered'[b] = covered[b]
  PROVE  Crossed(b)' = Crossed(b)
  BY DEF Crossed, Used

LEMMA ToBlockSame == \A b, p : ToBlock(b, p)' = ToBlock(b, p)
  BY DEF ToBlock, At, RulesFor

LEMMA SummedSame ==
  ASSUME NEW b, facts' = facts
  PROVE  SummedFacts(b)' = SummedFacts(b)
  BY DEF SummedFacts

\* A step of the rows, with no quota work in hand.
LEMMA RowStep ==
  ASSUME Typed, Current, UNCHANGED <<enabled, rows, covered, triggered, pushed>>,
         UNCHANGED <<cache, loaded>> \/ (cache' = {} /\ loaded' = FALSE),
         work'.pc \in RowPCs, work'.todo = {}, work'.subs = {}, work'.results = {},
         work'.buckets = {}, ~work'.hard,
         ~interrupted' => ~interrupted /\ facts' = facts /\ work.pc \in RowPCs
  PROVE  Current'
<1>1. Orderly(work)'
  BY DEF Orderly, RowPCs
<1>2. MarksNew' /\ Known'
  BY DEF MarksNew, Known, Current, RowPCs, Counted
<1>3. ASSUME ~interrupted'
      PROVE  Summed' /\ Recorded' /\ Blocked'
  <2>1. /\ Summed /\ Recorded /\ Blocked /\ facts' = facts /\ Orderly(work)
        /\ work.pc \in RowPCs
    BY <1>3 DEF Current
  <2>2. work.todo = {} /\ work.subs = {} /\ work.results = {} /\ ~work.hard
    BY <2>1 DEF Orderly
  <2>3. Summed'
    <3>1. \A b : ~Owed(work, b)
      BY <2>1, <2>2 DEF Owed, RowPCs
    <3> QED
      BY <2>1, <3>1, SummedSame DEF Summed, Counted
  <2>4. Recorded'
    <3>1. \A b : Judged(b)
      BY <2>1, <2>2 DEF Judged, Marking, RowPCs
    <3> QED
      BY <2>1, <3>1, CrossedSame DEF Recorded
  <2>5. Blocked'
    BY <2>1, <2>2, ToBlockSame DEF Blocked, Marks, Marking, RowPCs
  <2> QED
    BY <2>3, <2>4, <2>5
<1> QED
  BY <1>1, <1>2, <1>3 DEF Current

\* Rows become facts, and each of them is owed to every counter it moves.
LEMMA FactStep ==
  ASSUME Typed, Typed', Current, UNCHANGED <<enabled, rows, covered, triggered, pushed>>,
         UNCHANGED <<cache, loaded, interrupted>>, work.pc \in RowPCs,
         NEW new \in SUBSET Records, facts' = facts \cup new, work'.pc = "call",
         work'.todo = {Call(new, r) : r \in new}, work'.subs = {}, work'.results = {},
         work'.buckets = {}, ~work'.hard
  PROVE  Current'
<1>1. Orderly(work)'
  BY DEF Orderly, RowPCs
<1>2. MarksNew' /\ Known'
  BY DEF MarksNew, Known, Current, RowPCs, Counted
<1>3. ASSUME ~interrupted'
      PROVE  Summed' /\ Recorded' /\ Blocked'
  <2>1. Summed /\ Recorded /\ Blocked /\ Orderly(work)
    BY <1>3 DEF Current
  <2>2. work.todo = {} /\ work.subs = {} /\ work.results = {} /\ ~work.hard
    BY <2>1 DEF Orderly
  <2>3. ASSUME NEW b \in Buckets, NEW r \in new, r \in SummedFacts(b)'
        PROVE  Owed(work', b)
    <3> DEFINE c == Call(new, r)
    <3>1. /\ Seat[r] \in Members[b.subject] /\ Usage[b.metric][r] > 0
          /\ b.key = Key(b.key[1], Day[r]) /\ b.metric \in Metrics
      BY <2>3 DEF SummedFacts, Buckets, Bucket
    <3>2. c.seat = Seat[r] /\ c.day = Day[r] /\ b.metric \in c.moved
      BY <3>1 DEF Call, Moved
    <3>3. c \in work'.todo
      OBVIOUS
    <3> HIDE DEF c
    <3> QED
      BY <3>1, <3>2, <3>3 DEF Owed
  <2>4. Summed'
    <3> SUFFICES ASSUME NEW b \in Buckets
                 PROVE  /\ covered[b] \subseteq SummedFacts(b)'
                        /\ Counted(b) => covered[b] = SummedFacts(b)' \/ Owed(work', b)
      BY DEF Summed, Counted
    <3>1. /\ SummedFacts(b) \subseteq SummedFacts(b)'
          /\ SummedFacts(b)' \subseteq SummedFacts(b) \cup new
      BY DEF SummedFacts
    <3>2. ~Owed(work, b)
      BY <2>2 DEF Owed, RowPCs
    <3>3. /\ covered[b] \subseteq SummedFacts(b)
          /\ Counted(b) => covered[b] = SummedFacts(b)
      BY <2>1, <3>2 DEF Summed
    <3>4. CASE \E r \in new : r \in SummedFacts(b)'
      BY <2>3, <3>1, <3>3, <3>4
    <3>5. CASE ~\E r \in new : r \in SummedFacts(b)'
      <4>1. SummedFacts(b)' = SummedFacts(b)
        BY <3>1, <3>5
      <4> QED
        BY <3>3, <4>1
    <3> QED
      BY <3>4, <3>5
  <2>5. Recorded'
    <3>1. \A b : Judged(b)
      BY <2>1, <2>2 DEF Judged, Marking, RowPCs
    <3> QED
      BY <2>1, <3>1, CrossedSame DEF Recorded
  <2>6. Blocked'
    BY <2>1, <2>2, ToBlockSame DEF Blocked, Marks, Marking, RowPCs
  <2> QED
    BY <2>4, <2>5, <2>6
<1> QED
  BY <1>1, <1>2, <1>3 DEF Current

\* What the worker holds between records, and when it is idle.
Bare(w) ==
  /\ w.pc \in RowPCs /\ w.todo = {} /\ w.subs = {} /\ w.results = {} /\ w.buckets = {}
  /\ ~w.hard

LEMMA BareFacts ==
  ASSUME Typed, Current
  PROVE  /\ Bare(Idle)
         /\ work.pc \in RowPCs => Bare(work)
         /\ work.pc \in RowPCs => \A r \in Records : Bare(Rest(work, r))
<1>1. Bare(Idle)
  BY DEF Bare, Idle, RowPCs
<1>2. work.pc \in RowPCs => Bare(work)
  BY DEF Current, Orderly, Bare
<1>3. ASSUME Bare(work), NEW r \in Records PROVE Bare(Rest(work, r))
  BY <1>3 DEF Bare, Rest, Typed, Ready, Going, Work, RowPCs
<1> QED
  BY <1>1, <1>2, <1>3

LEMMA FetchCurrent ==
  ASSUME Typed, Current, FetchPending
  PROVE  Current'
<1>1. PICK batch : work' = [Idle EXCEPT !.pc = "tx", !.batch = batch, !.top = Max(batch),
                                        !.fetched = tries]
  BY DEF FetchPending
<1>2. Bare(work')
  BY <1>1 DEF Bare, Idle, RowPCs
<1> QED
  BY <1>2, RowStep DEF FetchPending, Bare, RowPCs, config, counters, NoFault

LEMMA TxCommitCurrent ==
  ASSUME Typed, Typed', Current, TxCommit
  PROVE  Current'
<1>1. PICK E \in SUBSET (work.batch \ Canary) : TxEffect(E) /\ work' = AfterCommit(NewFacts(E))
  BY DEF TxCommit
<1>2. /\ work.pc \in RowPCs /\ UNCHANGED <<enabled, cache, loaded, rows, covered, triggered>>
      /\ UNCHANGED <<pushed, interrupted>>
  BY DEF TxCommit, RowPCs, config, counters, NoFault
<1>3. NewFacts(E) \subseteq Records /\ facts' = facts \cup NewFacts(E)
  BY <1>1 DEF NewFacts, TxEffect, Typed, Ready, Going, Work
<1>4. CASE NewFacts(E) = {}
  <2>1. work' = Idle /\ facts' = facts
    BY <1>1, <1>3, <1>4 DEF AfterCommit
  <2> QED
    BY <1>2, <2>1, BareFacts, RowStep DEF Bare
<1>5. CASE NewFacts(E) # {}
  <2> DEFINE calls == {Call(NewFacts(E), r) : r \in NewFacts(E)}
  <2>1. work' = [Idle EXCEPT !.pc = "call", !.todo = calls]
    BY <1>1, <1>5 DEF AfterCommit
  <2>2. /\ work'.pc = "call" /\ work'.todo = calls /\ work'.subs = {} /\ work'.results = {}
        /\ work'.buckets = {} /\ ~work'.hard
    <3> HIDE DEF calls
    <3> QED
      BY <2>1 DEF Idle
  <2> QED
    BY <1>2, <1>3, <2>2, FactStep
<1> QED
  BY <1>4, <1>5

LEMMA TxFailsCurrent ==
  ASSUME Typed, Current, TxFails
  PROVE  Current'
<1>1. /\ work.pc \in RowPCs /\ UNCHANGED <<enabled, cache, loaded, rows, covered, triggered>>
      /\ UNCHANGED pushed
  BY DEF TxFails, RowPCs, config, counters
<1>2. Bare(work')
  BY <1>1, BareFacts DEF TxFails, Bare, Typed, Ready, Going, Work, RowPCs
<1>3. ~interrupted' => ~interrupted /\ facts' = facts
  <2>1. CASE UNCHANGED <<ods, facts, checkpoint>> /\ Fault(FALSE)
    BY <2>1 DEF Fault
  <2>2. ASSUME NEW E \in SUBSET (work.batch \ Canary), TxEffect(E), Fault(NewFacts(E) # {})
        PROVE  ~interrupted' => ~interrupted /\ facts' = facts
    BY <2>2 DEF Fault, TxEffect, NewFacts
  <2> QED
    BY <2>1, <2>2 DEF TxFails
<1> QED
  BY <1>1, <1>2, <1>3, RowStep DEF Bare

LEMMA ReplayCurrent ==
  ASSUME Typed, Typed', Current, NEW r \in Records,
         ProjectFails(r) \/ ProjectInsert(r) \/ MarkProjected(r) \/ MarkFails(r)
  PROVE  Current'
<1>1. /\ work.pc \in RowPCs /\ UNCHANGED <<enabled, cache, loaded, rows, covered, triggered>>
      /\ UNCHANGED pushed /\ (~interrupted' => ~interrupted)
  <2>1. CASE ProjectFails(r)
    BY <2>1 DEF ProjectFails, RowPCs, config, counters, NoFault
  <2>2. CASE ProjectInsert(r)
    BY <2>2 DEF ProjectInsert, RowPCs, config, counters, NoFault
  <2>3. CASE MarkProjected(r)
    BY <2>3 DEF MarkProjected, RowPCs, config, counters, NoFault
  <2>4. CASE MarkFails(r)
    BY <2>4 DEF MarkFails, RowPCs, config, counters, Fault
  <2> QED
    BY <2>1, <2>2, <2>3, <2>4
<1>2. CASE ProjectFails(r) \/ MarkProjected(r) \/ MarkFails(r)
  <2>1. Bare(work') /\ facts' = facts
    BY <1>1, <1>2, BareFacts DEF ProjectFails, MarkProjected, MarkFails
  <2> QED
    BY <1>1, <2>1, RowStep DEF Bare
<1>3. CASE ProjectInsert(r)
  <2> DEFINE new == {r} \ (Canary \cup facts)
  <2>1. /\ facts' = facts \cup new /\ UNCHANGED interrupted
        /\ work' = IF new = {} THEN [work EXCEPT !.pc = "settle"]
                   ELSE [work EXCEPT !.pc = "call", !.todo = {Call(new, r)}]
    BY <1>3 DEF ProjectInsert, NoFault
  <2>2. Bare(work)
    BY <1>1, BareFacts
  <2>3. CASE new = {}
    <3>1. Bare(work') /\ facts' = facts
      BY <2>1, <2>2, <2>3 DEF Bare, Typed, Ready, Going, Work, RowPCs
    <3> QED
      BY <1>1, <3>1, RowStep DEF Bare
  <2>4. CASE new # {}
    <3>1. {Call(new, q) : q \in new} = {Call(new, r)} /\ new \in SUBSET Records
      BY <2>4
    <3> HIDE DEF new
    <3>2. /\ work'.pc = "call" /\ work'.todo = {Call(new, q) : q \in new}
          /\ work'.subs = {} /\ work'.results = {} /\ work'.buckets = {} /\ ~work'.hard
      BY <2>1, <2>2, <2>4, <3>1 DEF Bare, Typed, Ready, Going, Work
    <3> QED
      BY <1>1, <2>1, <3>1, <3>2, FactStep
  <2> QED
    BY <2>3, <2>4
<1> QED
  BY <1>2, <1>3

LEMMA CheckpointedCurrent ==
  ASSUME Typed, Current, Checkpointed
  PROVE  Current'
<1>1. /\ UNCHANGED <<facts, enabled, cache, loaded, rows, covered, triggered, pushed>>
      /\ work.pc \in RowPCs /\ work' = Idle
  BY DEF Checkpointed, RowPCs, config, counters
<1>2. ~interrupted' => ~interrupted
  BY DEF Checkpointed, NoFault, Fault
<1> QED
  BY <1>1, <1>2, BareFacts, RowStep DEF Bare

\* A restart outside quota work finds nothing owed.
LEMMA RestartCurrent ==
  ASSUME Typed, Current, Restart
  PROVE  Current'
<1>1. ~interrupted' => ~interrupted /\ work.pc \in RowPCs
  BY DEF Restart, Fault, QuotaPCs, RowPCs, Typed, Ready, Going, Work
<1>2. /\ UNCHANGED <<enabled, rows, covered, triggered, pushed>> /\ facts' = facts
      /\ cache' = {} /\ loaded' = FALSE /\ Bare(work')
  BY BareFacts DEF Restart, counters
<1> QED
  BY <1>1, <1>2, RowStep DEF Bare

\* Ingest, and the administrator, who lets no counter become stale.
LEMMA SurroundingsCurrent ==
  ASSUME Typed, Current,
         \/ \E r \in Records : Arrive(r)
         \/ \E s \in Subjects : Enable(s)
         \/ \E b \in Buckets, p \in Pcts : PostEnds(b, p)
         \/ UNCHANGED vars
  PROVE  Current'
<1>1. /\ UNCHANGED <<facts, cache, loaded, rows, covered, triggered, pushed, work>>
      /\ ~interrupted' => ~interrupted
      /\ enabled \subseteq enabled'
  <2>1. ASSUME NEW r \in Records, Arrive(r) PROVE /\ UNCHANGED <<facts, cache, loaded, rows, covered, triggered, pushed, work>>
               /\ (~interrupted' => ~interrupted) /\ enabled \subseteq enabled'
    BY <2>1 DEF Arrive, counters, config
  <2>2. ASSUME NEW s \in Subjects, Enable(s) PROVE /\ UNCHANGED <<facts, cache, loaded, rows, covered, triggered, pushed, work>>
               /\ (~interrupted' => ~interrupted) /\ enabled \subseteq enabled'
    BY <2>2 DEF Enable, counters
  <2>3. ASSUME NEW b \in Buckets, NEW p \in Pcts, PostEnds(b, p) PROVE /\ UNCHANGED <<facts, cache, loaded, rows, covered, triggered, pushed, work>>
               /\ (~interrupted' => ~interrupted) /\ enabled \subseteq enabled'
    <3>1. ~interrupted' => ~interrupted
      BY <2>3, Zenon DEF PostEnds, NoFault, Fault
    <3> QED
      BY <2>3, <3>1 DEF PostEnds, config
  <2>4. CASE UNCHANGED vars
    BY <2>4 DEF counters, config, vars
  <2> QED
    BY <2>1, <2>2, <2>3, <2>4
<1>2. Orderly(work)' /\ Known'
  BY <1>1 DEF Current, Orderly, Known, Counted
<1>3. MarksNew'
  <2>1. \A b : Newly(b)' = Newly(b)
    BY <1>1, CrossedSame DEF Newly
  <2> QED
    BY <1>1, <2>1 DEF Current, MarksNew
<1>4. Summed => Summed'
  BY <1>1, SummedSame DEF Summed, Counted
<1>5. Recorded => Recorded'
  BY <1>1, CrossedSame DEF Recorded, Judged, Marking
<1>6. Blocked => Blocked'
  BY <1>1, ToBlockSame DEF Blocked, Marks, Marking
<1> QED
  BY <1>1, <1>2, <1>3, <1>4, <1>5, <1>6 DEF Current

\* On to the next subject or call, nothing that is owed is dropped.
LEMMA OnwardFacts ==
  ASSUME NEW w, Going(w), w.results = {}, w.buckets = {}, ~w.hard
  PROVE  /\ Orderly(NextSubject(w))
         /\ NextSubject(w).pc \in RowPCs \cup {"call", "subject"}
         /\ NextSubject(w).subs = w.subs
         /\ NextSubject(w).results = {} /\ ~NextSubject(w).hard
         /\ \A b : Owed(w, b) => Owed(NextSubject(w), b)
<1>1. CASE w.subs # {}
  <2>1. NextSubject(w) = [w EXCEPT !.pc = "subject"]
    BY <1>1 DEF NextSubject
  <2> QED
    BY <2>1 DEF Going, Work, QuotaPCs, Orderly, RowPCs, Owed
<1>2. CASE w.subs = {} /\ w.todo # {}
  <2>1. NextSubject(w) = [w EXCEPT !.pc = "call"]
    BY <1>2 DEF NextSubject
  <2> QED
    BY <1>2, <2>1 DEF Going, Work, QuotaPCs, Orderly, RowPCs, Owed
<1>3. CASE w.subs = {} /\ w.todo = {} /\ w.batch # {}
  <2>1. NextSubject(w) = [w EXCEPT !.pc = "settle", !.day = 0, !.moved = {},
                                   !.sub = NoSubject]
    BY <1>3 DEF NextSubject
  <2> QED
    BY <2>1, <1>3 DEF Going, Work, Orderly, RowPCs, Owed
<1>4. CASE w.subs = {} /\ w.todo = {} /\ w.batch = {}
  <2>1. NextSubject(w) = Idle
    BY <1>4 DEF NextSubject
  <2>2. \A b : ~Owed(w, b)
    BY <1>4 DEF Owed
  <2> QED
    BY <1>4, <2>1, <2>2 DEF Idle, Orderly, RowPCs
<1> QED
  BY <1>1, <1>2, <1>3, <1>4

\* A step with nothing to judge before or after it.
LEMMA NothingJudged ==
  ASSUME Recorded, Blocked, UNCHANGED <<rows, covered, triggered, pushed>>,
         work.results = {}, work.pc # "mark", ~work.hard, work'.results = {}, work'.pc # "mark"
  PROVE  Recorded' /\ Blocked'
<1>1. Recorded'
  BY CrossedSame DEF Recorded, Judged, Marking
<1>2. Blocked'
  BY ToBlockSame DEF Blocked, Marks, Marking
<1> QED
  BY <1>1, <1>2

LEMMA OnFactCurrent ==
  ASSUME Typed, Typed', Current, OnFact
  PROVE  Current'
<1>1. PICK c \in work.todo :
        work' = NextSubject([work EXCEPT !.todo = @ \ {c}, !.day = c.day, !.moved = c.moved,
                                         !.subs = {s \in cache' : c.seat \in Members[s]}])
  BY DEF OnFact
<1> DEFINE w == [work EXCEPT !.todo = @ \ {c}, !.day = c.day, !.moved = c.moved,
                             !.subs = {s \in cache' : c.seat \in Members[s]}]
<1>2. /\ UNCHANGED <<facts, enabled, rows, covered, triggered, pushed>> /\ work.pc = "call"
      /\ \/ cache' = enabled /\ loaded' /\ UNCHANGED interrupted
         \/ loaded /\ UNCHANGED <<cache, loaded, interrupted>>
         \/ ~loaded /\ UNCHANGED <<cache, loaded>> /\ interrupted'
  BY DEF OnFact, counters, NoFault, Fault
<1>3. /\ work.results = {} /\ work.buckets = {} /\ ~work.hard /\ work.subs = {}
      /\ work \in Work /\ c \in Calls /\ cache' \subseteq Subjects
  BY <1>2 DEF Current, Orderly, Typed, ConfigTypes, Ready, Going, Work
<1>4. /\ Going(w) /\ w.results = {} /\ w.buckets = {} /\ ~w.hard
      /\ w.subs = {s \in cache' : c.seat \in Members[s]} /\ w.todo = work.todo \ {c}
      /\ w.day = c.day /\ w.moved = c.moved
  BY <1>3 DEF Going, Work, Calls
<1> HIDE DEF w
<1>5. work' = NextSubject(w)
  BY <1>1 DEF w
<1>6. Orderly(work') /\ MarksNew'
  BY <1>4, <1>5, OnwardFacts DEF MarksNew, RowPCs
<1>7. Known'
  <2>1. work'.subs \subseteq cache' /\ work'.pc \notin {"recompute", "cross", "mark"}
    BY <1>4, <1>5, OnwardFacts DEF RowPCs
  <2> QED
    BY <1>2, <2>1 DEF Current, Known, Counted
<1>8. ASSUME ~interrupted' PROVE Summed'
  <2>1. Summed /\ \A b \in Buckets : Counted(b) => b.subject \in cache'
    BY <1>2, <1>8 DEF Current, Known
  <2>2. ASSUME NEW b \in Buckets, Counted(b), Owed(work, b)
        PROVE  Owed(work', b)
    <3>1. PICK e \in work.todo : /\ e.seat \in Members[b.subject] /\ b.metric \in e.moved
                                 /\ b.key = Key(b.key[1], e.day)
      BY <1>2, <1>3, <2>2 DEF Owed
    <3>2. Owed(w, b)
      BY <1>4, <2>1, <2>2, <3>1 DEF Owed
    <3> QED
      BY <1>4, <1>5, <3>2, OnwardFacts
  <2> QED
    BY <1>2, <2>1, <2>2, SummedSame DEF Summed, Counted
<1>9. ASSUME ~interrupted' PROVE Recorded' /\ Blocked'
  <2>1. work'.results = {} /\ work'.pc # "mark"
    BY <1>4, <1>5, OnwardFacts DEF RowPCs
  <2> QED
    BY <1>2, <1>3, <1>9, <2>1, NothingJudged DEF Current
<1> QED
  BY <1>6, <1>7, <1>8, <1>9 DEF Current

\* What a subject owes for the day and metrics in hand is what is touched.
LEMMA TouchedFacts ==
  ASSUME NEW b \in Buckets, b.metric \in work.moved,
         b.key = Key(b.key[1], work.day)
  PROVE  b \in Touched(b.subject)
<1>1. PICK s \in Subjects : \E m \in Metrics, p \in PeriodsOf(s), d \in Days :
        b = Bucket(s, m, p, d)
  BY DEF Buckets
<1>2. PICK m \in Metrics, p \in PeriodsOf(s), d \in Days : b = Bucket(s, m, p, d)
  BY <1>1
<1>3. b.subject = s /\ b.metric = m /\ b.key = Key(p, d)
  BY <1>2 DEF Bucket
<1>4. b.key[1] = p
  BY <1>3 DEF Key
<1>5. b = Bucket(b.subject, b.metric, p, work.day)
  BY <1>2, <1>3, <1>4 DEF Bucket
<1> QED
  BY <1>2, <1>3, <1>5 DEF Touched

LEMMA ApplyCurrent ==
  ASSUME Typed, Typed', Current, ApplyToSubject
  PROVE  Current'
<1>1. PICK s \in work.subs :
        work' = IF Touched(s) = {}
                THEN NextSubject([work EXCEPT !.subs = @ \ {s}, !.sub = s,
                                              !.buckets = Touched(s)])
                ELSE [work EXCEPT !.subs = @ \ {s}, !.sub = s, !.buckets = Touched(s),
                                  !.pc = "recompute"]
  BY DEF ApplyToSubject, Typed, Ready, Going, Work
<1> DEFINE w == [work EXCEPT !.subs = @ \ {s}, !.sub = s, !.buckets = Touched(s)]
<1>2. /\ UNCHANGED <<facts, enabled, cache, loaded, rows, covered, triggered, pushed>>
      /\ work.pc = "subject" /\ UNCHANGED interrupted
  BY DEF ApplyToSubject, config, counters, NoFault
<1>3. /\ work.results = {} /\ work.buckets = {} /\ ~work.hard /\ work.subs \subseteq cache
      /\ work \in Work /\ work.subs \subseteq Subjects /\ work.day \in Days
  BY <1>2 DEF Current, Orderly, Known, Typed, Ready, Going, Work
<1>4. Touched(s) \subseteq Buckets /\ \A b \in Touched(s) : b.subject = s
  BY <1>3, BucketType DEF Touched, Work, Bucket
<1>5. /\ w.results = {} /\ ~w.hard /\ w.subs = work.subs \ {s} /\ w.todo = work.todo
      /\ w.day = work.day /\ w.moved = work.moved /\ w.buckets = Touched(s) /\ w.sub = s
  BY <1>3 DEF Work
<1>6. Going(w)
  BY <1>3, <1>4 DEF Going, Work
<1>7. /\ Orderly(work') /\ work'.results = {} /\ work'.pc # "mark" /\ work'.pc # "cross"
      /\ work'.subs = work.subs \ {s} /\ (work'.pc = "recompute" => work'.sub = s)
  <2>1. CASE Touched(s) = {}
    BY <1>1, <1>5, <1>6, <2>1, OnwardFacts DEF RowPCs
  <2>2. CASE Touched(s) # {}
    BY <1>1, <1>3, <1>4, <2>2 DEF Orderly, RowPCs, Work
  <2> QED
    BY <2>1, <2>2
<1>8. MarksNew' /\ Known'
  BY <1>2, <1>3, <1>7 DEF MarksNew, Known, Counted, Current
<1>9. ASSUME NEW b \in Buckets, Owed(work, b) PROVE Owed(work', b)
  <2>1. Owed(w, b) \/ b \in Touched(s)
    <3>1. CASE \E c \in work.todo : /\ c.seat \in Members[b.subject] /\ b.metric \in c.moved
                                    /\ b.key = Key(b.key[1], c.day)
      BY <1>5, <3>1 DEF Owed
    <3>2. CASE /\ b.subject \in work.subs /\ b.metric \in work.moved
               /\ b.key = Key(b.key[1], work.day)
      BY <1>5, <3>2, TouchedFacts DEF Owed
    <3> QED
      BY <1>2, <1>9, <3>1, <3>2 DEF Owed
  <2>2. CASE Touched(s) = {}
    BY <1>1, <1>5, <1>6, <2>1, <2>2, OnwardFacts
  <2>3. CASE Touched(s) # {}
    <3>1. /\ work'.pc = "recompute" /\ work'.buckets = Touched(s) /\ work'.todo = w.todo
          /\ work'.subs = w.subs /\ work'.day = w.day /\ work'.moved = w.moved
      BY <1>1, <1>3, <2>3 DEF Work
    <3>2. w.pc # "recompute"
      BY <1>2, <1>3 DEF Work
    <3> HIDE DEF w
    <3> QED
      BY <2>1, <3>1, <3>2 DEF Owed
  <2> QED
    BY <2>2, <2>3
<1>10. Summed => Summed'
  BY <1>2, <1>9, SummedSame DEF Summed, Counted
<1>11. Recorded /\ Blocked => Recorded' /\ Blocked'
  BY <1>2, <1>3, <1>7, NothingJudged
<1> QED
  BY <1>2, <1>7, <1>8, <1>10, <1>11 DEF Current

\* A counter is set to its SUM, and waits to be judged.
LEMMA RecomputeCurrent ==
  ASSUME Typed, Typed', Current, Recompute
  PROVE  Current'
<1>1. /\ work.pc = "recompute" /\ work.buckets # {} /\ work \in Work
      /\ UNCHANGED <<facts, enabled, cache, loaded, triggered, pushed>>
  BY DEF Recompute, Typed, Ready, Going, config
<1>2. PICK b \in work.buckets :
        \E results :
          /\ work' = [work EXCEPT !.pc = IF work.buckets = {b} THEN "cross" ELSE "recompute",
                                  !.buckets = @ \ {b}, !.results = results]
          /\ \/ /\ covered' = [covered EXCEPT ![b] = SummedFacts(b)] /\ rows' = rows \cup {b}
                /\ results = work.results \cup {b} /\ UNCHANGED interrupted
             \/ rows' \subseteq rows \cup {b} /\ results = work.results /\ interrupted'
  <2> DEFINE b == CHOOSE b \in work.buckets : TRUE
  <2>1. b \in work.buckets
    BY <1>1
  <2> QED
    BY <2>1 DEF Recompute, NoFault, Fault
<1>3. /\ b \in Buckets /\ work.buckets \subseteq Buckets /\ work.results \subseteq Buckets
      /\ Orderly(work) /\ Known /\ b.subject = work.sub
  BY <1>1 DEF Work, Current, Orderly
<1>4. /\ work'.pc = (IF work.buckets = {b} THEN "cross" ELSE "recompute")
      /\ work'.buckets = work.buckets \ {b} /\ work'.results \subseteq work.results \cup {b}
      /\ work'.todo = work.todo /\ work'.subs = work.subs /\ work'.day = work.day
      /\ work'.moved = work.moved /\ work'.sub = work.sub /\ work'.hard = work.hard
      /\ rows' \subseteq rows \cup {b}
  BY <1>1, <1>2 DEF Work
<1>5. Orderly(work') /\ MarksNew'
  BY <1>1, <1>3, <1>4 DEF Orderly, RowPCs, MarksNew
<1>6. Known'
  BY <1>1, <1>3, <1>4 DEF Known, Counted
<1>7. ASSUME ~interrupted' PROVE Summed' /\ Recorded' /\ Blocked'
  <2>1. /\ Summed /\ Recorded /\ Blocked
        /\ covered' = [covered EXCEPT ![b] = SummedFacts(b)] /\ rows' = rows \cup {b}
        /\ work'.results = work.results \cup {b}
    BY <1>1, <1>2, <1>7 DEF Current, Work
  <2>2. covered \in [Buckets -> SUBSET Records]
    BY DEF Typed, CounterTypes
  <2>3. ASSUME NEW e \in Buckets, e # b, Owed(work, e) PROVE Owed(work', e)
    BY <1>1, <1>4, <2>3 DEF Owed
  <2>4. Summed'
    <3>1. \A e \in Buckets : covered'[e] = IF e = b THEN SummedFacts(e) ELSE covered[e]
      BY <2>1, <2>2
    <3>2. \A e \in Buckets \ {b} : Counted(e)' = Counted(e)
      BY <2>1 DEF Counted
    <3> QED
      BY <1>1, <2>1, <2>3, <3>1, <3>2, SummedSame DEF Summed
  <2>5. Recorded'
    <3> SUFFICES ASSUME NEW e \in Buckets
                 PROVE  /\ triggered[e] \subseteq {t.pct : t \in Crossed(e)'}
                        /\ e \in rows' /\ Judged(e)' => triggered[e] = {t.pct : t \in Crossed(e)'}
      BY <1>1 DEF Recorded
    <3>1. CASE e = b
      <4>1. covered[b] \subseteq covered'[b]
        BY <1>3, <2>1, <2>2 DEF Summed
      <4>2. Crossed(b) \subseteq Crossed(b)'
        BY <1>3, <4>1, CrossedGrows DEF Typed
      <4>3. ~Judged(b)'
        BY <2>1 DEF Judged
      <4> QED
        BY <1>3, <2>1, <3>1, <4>2, <4>3 DEF Recorded
    <3>2. CASE e # b
      <4>1. Crossed(e)' = Crossed(e)
        BY <2>1, <2>2, <3>2, CrossedSame
      <4>2. (e \in rows' <=> e \in rows) /\ (Judged(e)' => Judged(e))
        BY <1>1, <2>1, <3>2 DEF Judged, Marking
      <4> QED
        BY <2>1, <4>1, <4>2 DEF Recorded
    <3> QED
      BY <3>1, <3>2
  <2>6. Blocked'
    BY <1>1, <1>4, <2>1, ToBlockSame DEF Blocked, Marks, Marking
  <2> QED
    BY <2>4, <2>5, <2>6
<1> QED
  BY <1>5, <1>6, <1>7 DEF Current

\* A counter is judged: what it newly crossed is what is to be marked.
LEMMA CrossCurrent ==
  ASSUME Typed, Current, Cross
  PROVE  Current'
<1>1. PICK b \in work.results : Judge(b)
  BY DEF Cross
<1>2. /\ work.pc = "cross" /\ work \in Work
      /\ UNCHANGED <<facts, enabled, cache, loaded, rows, covered, triggered, pushed>>
      /\ UNCHANGED interrupted
  BY DEF Cross, Typed, Ready, Going, config, NoFault
<1>3. /\ b \in Buckets /\ Orderly(work) /\ Known /\ b.subject = work.sub
      /\ work.results \subseteq Buckets /\ work.buckets = {}
  BY <1>2 DEF Work, Current, Orderly
<1>4. /\ work'.pc = (IF Newly(b) = {} THEN "cross" ELSE "mark")
      /\ work'.results = work.results \ {b}
      /\ work'.buckets = (IF Newly(b) = {} THEN {} ELSE {b})
      /\ work'.newly = {t.pct : t \in Newly(b)}
      /\ work'.hard = (work.hard \/ \E t \in Newly(b) : t.block)
  BY <1>1, <1>2 DEF Work, Judge
<1>5. /\ work'.todo = work.todo /\ work'.subs = work.subs /\ work'.day = work.day
      /\ work'.moved = work.moved /\ work'.sub = work.sub
  BY <1>1, <1>2 DEF Work, Judge
<1>6. Orderly(work')
  BY <1>2, <1>3, <1>4, <1>5 DEF Orderly, RowPCs
<1>7. MarksNew'
  <2>1. Newly(b)' = Newly(b)
    BY <1>2, CrossedSame DEF Newly
  <2> QED
    BY <1>3, <1>4, <2>1 DEF MarksNew
<1>8. Known'
  BY <1>2, <1>3, <1>4, <1>5 DEF Known, Counted
<1>9. ASSUME ~interrupted' PROVE Summed' /\ Recorded' /\ Blocked'
  <2>1. Summed /\ Recorded /\ Blocked
    BY <1>2, <1>9 DEF Current
  <2>2. Summed'
    <3>1. \A e : Owed(work, e) => Owed(work', e)
      BY <1>2, <1>5 DEF Owed
    <3> QED
      BY <1>2, <2>1, <3>1, SummedSame DEF Summed, Counted
  <2>3. Recorded'
    <3> SUFFICES ASSUME NEW e \in Buckets, e \in rows, Judged(e)'
                 PROVE  triggered[e] = {t.pct : t \in Crossed(e)}
      BY <1>2, <2>1, CrossedSame DEF Recorded
    <3>1. CASE e = b
      <4>1. Newly(b) = {}
        BY <1>4, <3>1 DEF Judged, Marking
      <4> QED
        BY <2>1, <3>1, <4>1, NewlyFacts DEF Recorded
    <3>2. CASE e # b
      <4>1. Judged(e)
        BY <1>2, <1>4, <3>2 DEF Judged, Marking
      <4> QED
        BY <2>1, <4>1 DEF Recorded
    <3> QED
      BY <3>1, <3>2
  <2>4. Blocked'
    <3> SUFFICES ASSUME NEW e \in Buckets, NEW p \in Marks(e)', ToBlock(e, p)
                 PROVE  e.subject \in pushed \/ (work'.hard /\ work.sub = e.subject)
      BY <1>2, <1>5, ToBlockSame DEF Blocked
    <3>1. CASE p \in triggered[e]
      BY <1>4, <2>1, <3>1 DEF Blocked, Marks
    <3>2. CASE e = b /\ p \in {t.pct : t \in Newly(b)}
      <4>1. PICK t \in Newly(b) : t.pct = p
        BY <3>2
      <4>2. t.block
        BY <1>3, <3>2, <4>1, NewlyFacts, CrossedType DEF ToBlock
      <4> QED
        BY <1>3, <1>4, <3>2, <4>1, <4>2
    <3>3. p \in triggered[e] \/ (e = b /\ p \in {t.pct : t \in Newly(b)})
      BY <1>2, <1>4 DEF Marks, Marking
    <3> QED
      BY <3>1, <3>2, <3>3
  <2> QED
    BY <2>2, <2>3, <2>4
<1> QED
  BY <1>6, <1>7, <1>8, <1>9 DEF Current

\* What is marked is all that was newly crossed.
LEMMA MarkCurrent ==
  ASSUME Typed, Current, Mark
  PROVE  Current'
<1>1. /\ work.pc = "mark" /\ work \in Work
      /\ work' = [work EXCEPT !.pc = "cross", !.buckets = {}, !.newly = {}]
      /\ UNCHANGED <<facts, enabled, cache, loaded, rows, covered, pushed>>
      /\ \/ /\ triggered' = [e \in Buckets |-> IF e \in work.buckets
                                               THEN triggered[e] \cup work.newly
                                               ELSE triggered[e]]
            /\ UNCHANGED interrupted
         \/ interrupted'
  BY DEF Mark, Typed, Ready, Going, config, NoFault, Fault
<1>2. /\ work'.pc = "cross" /\ work'.buckets = {} /\ work'.results = work.results
      /\ work'.todo = work.todo /\ work'.subs = work.subs /\ work'.day = work.day
      /\ work'.moved = work.moved /\ work'.sub = work.sub /\ work'.hard = work.hard
  BY <1>1 DEF Work
<1>3. Orderly(work') /\ MarksNew' /\ Known'
  BY <1>1, <1>2 DEF Current, Orderly, RowPCs, MarksNew, Known, Counted
<1>4. ASSUME ~interrupted' PROVE Summed' /\ Recorded' /\ Blocked'
  <2>1. /\ Summed /\ Recorded /\ Blocked
        /\ \A e \in Buckets : triggered'[e] = IF e \in work.buckets
                                              THEN triggered[e] \cup work.newly
                                              ELSE triggered[e]
    <3>1. /\ UNCHANGED interrupted
          /\ triggered' = [e \in Buckets |-> IF e \in work.buckets
                                             THEN triggered[e] \cup work.newly
                                             ELSE triggered[e]]
      BY <1>1, <1>4
    <3> QED
      BY <1>4, <3>1 DEF Current
  <2>2. PICK b \in Buckets \ work.results :
          work.buckets = {b} /\ work.newly = {t.pct : t \in Newly(b)}
    BY <1>1 DEF Current, MarksNew
  <2>3. Summed'
    <3>1. \A e : Owed(work, e) => Owed(work', e)
      BY <1>1, <1>2 DEF Owed
    <3> QED
      BY <1>1, <2>1, <3>1, SummedSame DEF Summed, Counted
  <2>4. Recorded'
    <3> SUFFICES ASSUME NEW e \in Buckets
                 PROVE  /\ triggered'[e] \subseteq {t.pct : t \in Crossed(e)}
                        /\ e \in rows /\ Judged(e)' => triggered'[e] = {t.pct : t \in Crossed(e)}
      BY <1>1, CrossedSame DEF Recorded
    <3>1. CASE e = b
      <4>1. triggered[b] \subseteq {t.pct : t \in Crossed(b)}
        BY <2>1 DEF Recorded
      <4>2. triggered'[b] = triggered[b] \cup {t.pct : t \in Newly(b)}
        BY <2>1, <2>2
      <4> QED
        BY <2>2, <3>1, <4>1, <4>2, NewlyFacts
    <3>2. CASE e # b
      <4>1. triggered'[e] = triggered[e] /\ (Judged(e)' => Judged(e))
        BY <1>2, <2>1, <2>2, <3>2 DEF Judged, Marking
      <4> QED
        BY <2>1, <4>1 DEF Recorded
    <3> QED
      BY <3>1, <3>2
  <2>5. Blocked'
    <3>1. \A e \in Buckets : Marks(e)' = Marks(e)
      BY <1>1, <1>2, <2>1 DEF Marks, Marking
    <3> QED
      BY <1>1, <1>2, <2>1, <3>1, ToBlockSame DEF Blocked
  <2> QED
    BY <2>3, <2>4, <2>5
<1> QED
  BY <1>3, <1>4 DEF Current

\* All are judged and marked, and a hard block is pushed.
LEMMA CrossDoneCurrent ==
  ASSUME Typed, Current, CrossDone
  PROVE  Current'
<1> DEFINE w == [work EXCEPT !.hard = FALSE]
<1>1. /\ work.pc = "cross" /\ work.results = {} /\ work' = NextSubject(w)
      /\ UNCHANGED <<facts, enabled, cache, loaded, rows, covered, triggered>>
      /\ \/ /\ pushed' = IF work.hard THEN pushed \cup {work.sub} ELSE pushed
            /\ UNCHANGED interrupted
         \/ interrupted'
  BY DEF CrossDone, config, NoFault, Fault
<1>2. /\ Going(w) /\ w.results = {} /\ w.buckets = {} /\ ~w.hard /\ w.subs = work.subs
      /\ \A b : Owed(work, b) => Owed(w, b)
  BY <1>1 DEF Typed, Ready, Going, Work, Current, Orderly, Owed
<1> HIDE DEF w
<1>3. /\ Orderly(work') /\ work'.subs = work.subs /\ work'.results = {}
      /\ work'.pc \notin {"recompute", "cross", "mark"}
      /\ \A b : Owed(work, b) => Owed(work', b)
  BY <1>1, <1>2, OnwardFacts DEF RowPCs
<1>4. MarksNew' /\ Known'
  BY <1>1, <1>3 DEF Current, MarksNew, Known, Counted
<1>5. ASSUME ~interrupted' PROVE Summed' /\ Recorded' /\ Blocked'
  <2>1. /\ Summed /\ Recorded /\ Blocked
        /\ pushed' = IF work.hard THEN pushed \cup {work.sub} ELSE pushed
    BY <1>1, <1>5 DEF Current
  <2>2. Summed'
    BY <1>1, <1>3, <2>1, SummedSame DEF Summed, Counted
  <2>3. Recorded'
    BY <1>1, <2>1, CrossedSame DEF Recorded, Judged, Marking
  <2>4. Blocked'
    BY <1>1, <1>3, <2>1, ToBlockSame DEF Blocked, Marks, Marking
  <2> QED
    BY <2>2, <2>3, <2>4
<1> QED
  BY <1>3, <1>4, <1>5 DEF Current

LEMMA CurrentInvariant == Spec => []Current
<1>1. ASSUME Typed, Typed', Current, [Next]_vars PROVE Current'
  <2>1. CASE FetchPending \/ TxCommit \/ TxFails \/ Checkpointed \/ Restart
    BY <1>1, <2>1, FetchCurrent, TxCommitCurrent, TxFailsCurrent, CheckpointedCurrent,
       RestartCurrent
  <2>2. ASSUME NEW r \in Records,
               ProjectFails(r) \/ ProjectInsert(r) \/ MarkProjected(r) \/ MarkFails(r)
        PROVE  Current'
    BY <1>1, <2>2, ReplayCurrent
  <2>3. CASE OnFact \/ ApplyToSubject \/ Recompute
    BY <1>1, <2>3, OnFactCurrent, ApplyCurrent, RecomputeCurrent
  <2>4. CASE Cross \/ Mark \/ CrossDone
    BY <1>1, <2>4, CrossCurrent, MarkCurrent, CrossDoneCurrent
  <2>5. CASE \/ \E r \in Records : Arrive(r)
             \/ \E s \in Subjects : Enable(s)
             \/ \E b \in Buckets, p \in Pcts : PostEnds(b, p)
             \/ UNCHANGED vars
    BY <1>1, <2>5, SurroundingsCurrent
  <2> QED
    BY <1>1, <2>1, <2>2, <2>3, <2>4, <2>5 DEF Next, Worker
<1> QED
  BY <1>1, CurrentInit, TypedInvariant, PTL DEF Spec

----------------------------------------------------------------------------
(* Theorems.                                                               *)

\* A row that is settled as projected has its fact, through every rollback,
\* ambiguous commit, replay and crash, and only what is to be billed has one.
THEOREM ProjectedHasFact == Spec => []ProjectedExactly
<1>1. Settling => ProjectedExactly
  BY DEF Settling
<1> QED
  BY <1>1, SettlingInvariant, PTL

\* No row is given up before all its retries were used, however often an attempt
\* was rolled back or repeated.
THEOREM NothingGivenUpEarly == Spec => []DeadLetterEarned
<1>1. Settling => DeadLetterEarned
  BY DEF Settling
<1> QED
  BY <1>1, SettlingInvariant, PTL

\* A crossing is recorded only after its alert was handed over, also when the
\* collector stops in between: one on record that asks for a notification has
\* reached control, is on its way, or was lost by its own POST.
THEOREM RecordedWasAlerted == Spec => []AlertedAtLeastOnce
<1>1. Typed /\ AlertFirst => AlertedAtLeastOnce
  BY DEF Typed, CounterTypes, AlertFirst, AlertedAtLeastOnce, Handed, ToTell
<1> QED
  BY <1>1, AlertInvariant, TypedInvariant, PTL

\* A threshold is alerted at most once per period, as long as nothing came between
\* an alert and its record.
THEOREM AlertedOncePerPeriod == Spec => []AlertedAtMostOnce
<1>1. AlertOnce => AlertedAtMostOnce
  BY DEF AlertOnce, AlertedAtMostOnce
<1> QED
  BY <1>1, AlertInvariant, PTL
\* When the worker is at rest, and nothing cut quota work short, each counter is the
\* sum over the facts, each threshold it reaches is recorded, and a hard block among
\* them was pushed: nothing is owed, judged or marked any more.  The rules of a
\* subject may share a metric, a period and a percentage.
THEOREM CountersSettled == Spec => []CountersCurrent
<1>1. Typed /\ Current => CountersCurrent
  <2> SUFFICES ASSUME Typed, Current, work.pc = "idle", ~interrupted
               PROVE  /\ \A b \in Buckets : Counted(b) => covered[b] = SummedFacts(b)
                      /\ \A b \in rows : /\ triggered[b] = {t.pct : t \in Crossed(b)}
                                        /\ \A p \in triggered[b] :
                                             ToBlock(b, p) => b.subject \in pushed
    BY DEF CountersCurrent, Counted, Typed, CounterTypes, ToBlock
  <2>1. Bare(work) /\ Summed /\ Recorded /\ Blocked /\ rows \subseteq Buckets
    BY BareFacts DEF Current, RowPCs, Typed, CounterTypes
  <2>2. \A b : ~Owed(work, b) /\ Judged(b)
    BY <2>1 DEF Bare, Owed, Judged, Marking
  <2>3. \A b \in rows : triggered[b] = {t.pct : t \in Crossed(b)}
    BY <2>1, <2>2 DEF Recorded
  <2>4. ASSUME NEW b \in rows, NEW p \in triggered[b], ToBlock(b, p)
        PROVE  b.subject \in pushed
    BY <2>1, <2>4 DEF Blocked, Bare, Marks
  <2> QED
    BY <2>1, <2>2, <2>3, <2>4 DEF Summed
<1> QED
  BY <1>1, CurrentInvariant, TypedInvariant, PTL
=============================================================================
