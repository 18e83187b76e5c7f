------------------------- MODULE ConversationProofs -------------------------
(***************************************************************************)
(* Conversation implements DeliveryContract, so no turn is lost, and what  *)
(* its rows, its cursor and its quarantine may rely on: for every set of   *)
(* orgs, number of handlers, assignment of numbers to turns, scan limit    *)
(* and combination of faults.                                              *)
(***************************************************************************)
EXTENDS Conversation, FiniteCollections, FiniteSetTheorems, TLAPS

----------------------------------------------------------------------------
(* The invariant.                                                          *)

\* Turns that some proxy logged, whatever became of them.
Sent == {t \in Turns : fate[t] \in {"logged", "acked", "pruned"}}

\* Turns that are stored, or that nothing will ever store.
Dealt == records \cup refused

\* The values contiguous_seq may have, of one row and in an answer.
Reached(o) == {m \in Marks : \A s \in Seqs : s <= m => s \in Present(o)}
Answerable == {m \in Marks : \A s \in Seqs : s <= m => Accounted(s)}

SameNumber(t, u) == OrgOf[u] = OrgOf[t] /\ SeqOf[u] = SeqOf[t]
Named(out) == {x[1] : x \in out}

\* A decision to flag a turn has a reason that survives until it is carried
\* out: a stored turn of the number, or one stored with it and not flagged.
Founded(out) ==
  \A x \in out : x[2] =>
    \/ \E u \in records : SameNumber(x[1], u)
    \/ \E y \in out : ~y[2] /\ <<y[1], TRUE>> \notin out /\ SameNumber(x[1], y[1])

\* A handler's turns were logged, and its answer is covered.
Base == {r \in Request :
  /\ r.batch \subseteq Sent /\ r.todo \subseteq r.batch
  /\ Named(r.out) \subseteq r.batch
  /\ r.reply \in Answerable}

PerRecord == {"owner", "insert"}
OnRow == {"zip", "seen", "write"}

\* What it holds between two statements stays true until it is used: which
\* turns it has dealt with if it is to answer 200, and which numbers the row
\* it works on has no hole below.
Good == {r \in Base :
  /\ r.pc \in OnRow \cup {"record"} => r.org \in Orgs
  /\ r.pc \in OnRow => r.contiguous \in Reached(r.org)
  /\ r.pc \in {"tx", "commit"} => r.batch # {}
  /\ r.pc \in PerRecord => r.todo # {}
  /\ r.pc = "commit" => r.batch \subseteq Dealt \cup Named(r.out)
  /\ r.pc \in PerRecord /\ r.ok => r.batch \ r.todo \subseteq Dealt
  /\ r.pc = "insert" => \E c \in BOOLEAN : r.out = {<<First(r), c>>}
  /\ r.pc \notin PerRecord \cup {"tx", "commit"} /\ r.ok => r.batch \subseteq Dealt
  /\ r.pc \in {"tx", "commit", "insert"} => Founded(r.out)
  /\ r.pc = "record" => r.seqs # {}}

TableTypes ==
  /\ fate \in [Turns -> Fates] /\ refused \subseteq Bad
  /\ flagged \subseteq records /\ records \subseteq Turns
  /\ ledger \subseteq Orgs \X Seqs
  /\ row \in [Orgs -> Watermark]

RowsReached == \A o \in Orgs : row[o].contiguous \in Reached(o)

\* Every number that is stored has an owner.
Owned == \A t \in records : \E u \in records \ flagged : SameNumber(t, u)

\* What the tables keep of what was promised.
Kept == records \subseteq Sent /\ RowsReached /\ AckedStored /\ Owned

Inv == TableTypes /\ Kept /\ req \in [Procs -> Good] /\ faults \in 0..MaxFaults

----------------------------------------------------------------------------
(* Numbers and requests.                                                   *)

LEMMA Numbers ==
  /\ MaxSeq \in Nat /\ 0 \in Marks
  /\ \A t \in Turns : SeqOf[t] \in Seqs /\ OrgOf[t] \in Orgs /\ t \in Nat
  /\ \A m \in Marks : m \in Nat
  /\ \A s \in Seqs : s \in Marks
<1> DEFINE T == {SeqOf[t] : t \in Turns}
<1>1. IsFiniteSet(Turns)
  BY TurnAssumption, FS_Interval DEF Turns
<1>2. SeqOf \in Surjection(Turns, T)
  BY TurnAssumption DEF Surjection
<1>3. IsFiniteSet(T)
  BY <1>1, <1>2, FS_Surjection
<1>4. IsFiniteSet(T \cup {0}) /\ T \cup {0} \in SUBSET Nat /\ T \cup {0} # {}
  BY <1>3, FS_AddElement, TurnAssumption
<1>5. MaxSeq \in T \cup {0} /\ \A x \in T \cup {0} : x <= MaxSeq
  BY <1>4, GreatestFinite DEF MaxSeq
<1>6. MaxSeq \in Nat
  BY <1>4, <1>5
<1>7. \A t \in Turns : SeqOf[t] \in 1..MaxSeq
  <2> SUFFICES ASSUME NEW t \in Turns PROVE SeqOf[t] \in 1..MaxSeq
    OBVIOUS
  <2>1. SeqOf[t] \in Nat \ {0} /\ SeqOf[t] <= MaxSeq
    BY <1>5, TurnAssumption
  <2> QED
    BY <2>1, <1>6
<1>8. \A t \in Turns : t \in Nat
  BY TurnAssumption DEF Turns
<1> QED
  BY <1>6, <1>7, <1>8, TurnAssumption DEF Seqs, Marks

LEMMA GreatestMark ==
  ASSUME NEW S \in SUBSET Marks, S # {}
  PROVE  Max(S) \in S /\ \A x \in S : x <= Max(S)
  BY Numbers, GreatestBounded DEF Marks

LEMMA IdleFacts ==
  Idle \in Request /\ Idle \in Good /\ Idle \in Good'
<1>1. Idle \in Request
  BY Numbers DEF Idle, Request, PCs
<1>2. 0 \in Answerable /\ 0 \in Answerable'
  BY Numbers DEF Answerable, Seqs
<1>3. Idle \in Base /\ Idle \in Base'
  BY <1>1, <1>2 DEF Base, Idle, Named
<1>4. Idle.pc = "idle" /\ Idle.batch = {}
  BY DEF Idle
<1> QED
  BY <1>1, <1>3, <1>4 DEF Good, OnRow, PerRecord

\* Records, the ledger and the logs only grow.
Grows ==
  /\ records \subseteq records' /\ ledger \subseteq ledger'
  /\ refused' = refused /\ Sent \subseteq Sent'

LEMMA PresentGrows ==
  ASSUME Grows, NEW o
  PROVE  Present(o) \subseteq Present(o)'
  BY DEF Grows, Present, SeqsIn

LEMMA ReachedGrows ==
  ASSUME Grows
  PROVE  /\ Answerable \subseteq Answerable'
         /\ \A o : Reached(o) \subseteq Reached(o)'
         /\ \A s : Accounted(s) => Accounted(s)'
<1>1. \A s : Accounted(s) => Accounted(s)'
  BY PresentGrows DEF Accounted
<1>2. \A o : Reached(o) \subseteq Reached(o)'
  BY PresentGrows DEF Reached
<1> QED
  BY <1>1, <1>2 DEF Answerable

\* So what a handler holds stays good while others work.
LEMMA GoodKept ==
  ASSUME Grows
  PROVE  Base \subseteq Base' /\ Good \subseteq Good'
<1>1. Base \subseteq Base'
  BY ReachedGrows DEF Base, Grows
<1>2. Dealt \subseteq Dealt'
  BY DEF Dealt, Grows
<1>3. ASSUME NEW out, Founded(out) PROVE Founded(out)'
  BY <1>3 DEF Founded, Grows
<1>4. ASSUME NEW r \in Good PROVE r \in Good'
  <2>1. r \in Base' /\ (r.pc \in {"tx", "commit", "insert"} => Founded(r.out)')
    BY <1>1, <1>3, <1>4 DEF Good
  <2>2. r.pc \in OnRow => r.contiguous \in Reached(r.org)'
    BY <1>4, ReachedGrows DEF Good
  <2> QED
    BY <1>2, <1>4, <2>1, <2>2 DEF Good
<1> QED
  BY <1>1, <1>4

\* Continue, Leave and Advance, once the turns in hand are dealt with.
LEMMA ContinueGood ==
  ASSUME NEW r \in Base', r.ok => r.batch \subseteq Dealt'
  PROVE  Continue(r) \in Good'
<1>1. r \in Request
  BY DEF Base
<1>2. CASE r.orgs # {}
  <2> DEFINE c == [r EXCEPT !.pc = "advance", !.org = NoOrg, !.contiguous = 0,
                            !.maxSeen = 0]
  <2>1. c \in Request
    BY <1>1, Numbers DEF Request, PCs
  <2>2. /\ c.pc = "advance" /\ c.batch = r.batch /\ c.todo = r.todo /\ c.out = r.out
        /\ c.ok = r.ok /\ c.reply = r.reply
    BY <1>1 DEF Request
  <2>3. c \in Base'
    BY <2>1, <2>2 DEF Base
  <2>4. c \in Good'
    BY <2>2, <2>3 DEF Good, OnRow, PerRecord
  <2> QED
    BY <1>2, <2>4 DEF Continue
<1>3. CASE r.orgs = {} /\ r.op = "batch"
  <2> DEFINE c == [Idle EXCEPT !.pc = "reply", !.op = "batch", !.batch = r.batch,
                               !.ok = r.ok, !.reply = r.reply]
  <2>1. c \in Request
    BY <1>1, IdleFacts DEF Request, PCs
  <2>2. /\ c.pc = "reply" /\ c.batch = r.batch /\ c.todo = {} /\ c.out = {}
        /\ c.ok = r.ok /\ c.reply = r.reply
    BY DEF Idle
  <2>3. c \in Base'
    BY <2>1, <2>2 DEF Base, Named
  <2>4. c \in Good'
    BY <2>2, <2>3 DEF Good, OnRow, PerRecord
  <2> QED
    BY <1>3, <2>4 DEF Continue
<1>4. CASE r.orgs = {} /\ r.op # "batch" /\ r.finds # {}
  <2> DEFINE c == [Idle EXCEPT !.pc = "scan", !.op = "promote", !.finds = r.finds]
  <2>1. c \in Request
    BY <1>1, IdleFacts DEF Request, PCs
  <2>2. /\ c.pc = "scan" /\ c.batch = {} /\ c.todo = {} /\ c.out = {}
        /\ c.reply = Idle.reply
    BY DEF Idle
  <2>3. c \in Base'
    BY <2>1, <2>2, IdleFacts DEF Base, Named, Good
  <2>4. c \in Good'
    BY <2>2, <2>3 DEF Good, OnRow, PerRecord
  <2> QED
    BY <1>4, <2>4 DEF Continue
<1>5. CASE r.orgs = {} /\ r.op # "batch" /\ r.finds = {}
  BY <1>5, IdleFacts DEF Continue
<1> QED
  BY <1>2, <1>3, <1>4, <1>5

LEMMA LeaveGood ==
  ASSUME NEW r \in Base', r.ok => r.batch \subseteq Dealt'
  PROVE  Leave(r) \in Good'
<1> DEFINE q == [r EXCEPT !.orgs = @ \ {r.org}]
<1>1. r \in Request
  BY DEF Base
<1>2. /\ q \in Request /\ q.batch = r.batch /\ q.todo = r.todo /\ q.out = r.out
      /\ q.ok = r.ok /\ q.reply = r.reply
  BY <1>1 DEF Request
<1>3. q \in Base'
  BY <1>2 DEF Base
<1> QED
  BY <1>2, <1>3, ContinueGood DEF Leave

LEMMA AdvanceGood ==
  ASSUME NEW r \in Base', r.ok => r.batch \subseteq Dealt'
  PROVE  Advance(r) \in Good'
<1> DEFINE q == Advance(r)
<1>1. r \in Request
  BY DEF Base
<1>2. /\ q \in Request /\ q.batch = r.batch /\ q.todo = r.todo /\ q.out = r.out
      /\ q.ok = r.ok /\ q.reply = r.reply /\ q.pc \in {"reply", "advance"}
  BY <1>1 DEF Advance, Request, PCs
<1>3. q \in Base'
  BY <1>2 DEF Base
<1> QED
  BY <1>2, <1>3 DEF Good, OnRow, PerRecord

LEMMA FirstTodo ==
  ASSUME NEW r \in Request, r.todo # {}
  PROVE  First(r) \in r.todo
<1>1. r.todo \in SUBSET Nat
  BY Numbers DEF Request
<1> QED
  BY <1>1, LeastNatural DEF First

\* A record of the replay is dealt with.
LEMMA DoneGood ==
  ASSUME NEW r \in Base', r.ok => r.batch \ r.todo \subseteq Dealt',
         r.ok => First(r) \in Dealt'
  PROVE  Done(r) \in Good'
<1> DEFINE d == [r EXCEPT !.todo = @ \ {First(r)}, !.out = {}]
<1>1. r \in Request
  BY DEF Base
<1>2. /\ d \in Request /\ d.batch = r.batch /\ d.todo = r.todo \ {First(r)} /\ d.out = {}
      /\ d.ok = r.ok /\ d.reply = r.reply
  BY <1>1 DEF Request
<1>3. d \in Base' /\ (d.ok => d.batch \ d.todo \subseteq Dealt')
  BY <1>2 DEF Base, Named
<1>4. CASE d.todo = {}
  BY <1>3, <1>4, AdvanceGood DEF Done
<1>5. CASE d.todo # {}
  <2> DEFINE c == [d EXCEPT !.pc = "owner"]
  <2>1. /\ c \in Request /\ c.batch = d.batch /\ c.todo = d.todo /\ c.out = d.out
        /\ c.ok = d.ok /\ c.reply = d.reply /\ c.pc = "owner"
    BY <1>2 DEF Request, PCs
  <2>2. c \in Base'
    BY <1>3, <2>1 DEF Base
  <2>3. c \in Good'
    BY <1>3, <1>5, <2>1, <2>2 DEF Good, OnRow, PerRecord
  <2> QED
    BY <1>5, <2>3 DEF Done
<1> QED
  BY <1>4, <1>5

----------------------------------------------------------------------------
(* What a step does to the tables.                                         *)

LEMMA Quiet ==
  ASSUME Inv, UNCHANGED <<fate, refused, tables>>
  PROVE  Grows /\ TableTypes' /\ Kept'
<1>1. UNCHANGED <<fate, refused, records, flagged, ledger, row>>
  BY DEF tables
<1>2. Grows
  BY <1>1 DEF Grows, Sent
<1>3. TableTypes'
  BY <1>1 DEF Inv, TableTypes
<1>4. Sent' = Sent /\ RowsReached' /\ AckedStored' /\ Owned'
  BY <1>1, <1>2, ReachedGrows
  DEF Sent, Inv, Kept, RowsReached, AckedStored, Owned
<1> QED
  BY <1>1, <1>2, <1>3, <1>4 DEF Inv, Kept

\* A step of one process that leaves it with something good.
LEMMA StepGood ==
  ASSUME Inv, Grows, NEW p \in Procs, NEW r \in Good', req' = [req EXCEPT ![p] = r]
  PROVE  req' \in [Procs -> Good']
<1>1. \A q \in Procs : req[q] \in Good'
  BY GoodKept DEF Inv
<1> QED
  BY <1>1 DEF Inv

\* Storing turns that were logged, with flags that have a reason.
LEMMA StoreFacts ==
  ASSUME Inv, NEW out \in SUBSET (Turns \X BOOLEAN), Named(out) \subseteq Sent,
         Founded(out), Store(out), UNCHANGED <<fate, refused, ledger, row>>
  PROVE  Grows /\ TableTypes' /\ Kept' /\ Dealt \cup Named(out) \subseteq Dealt'
<1>1. records' = records \cup Named(out) /\ Named(out) \subseteq Turns
  BY DEF Store, Named
<1>2. flagged' = flagged \cup {x[1] : x \in {y \in out : y[2] /\ y[1] \notin records}}
  BY DEF Store
<1>3. Grows /\ Sent' = Sent
  BY <1>1 DEF Grows, Sent
<1>4. flagged' \subseteq records'
  BY <1>1, <1>2 DEF Inv, TableTypes, Named
<1>5. TableTypes'
  BY <1>1, <1>4 DEF Inv, TableTypes
<1>6. RowsReached' /\ AckedStored'
  BY <1>1, <1>3, ReachedGrows DEF Inv, Kept, RowsReached, AckedStored
<1>7. \A u \in records \ flagged : u \in records' \ flagged'
  BY <1>1, <1>2
<1>8. ASSUME NEW t \in records, NEW u \in Turns, SameNumber(u, t)
      PROVE  \E w \in records' \ flagged' : SameNumber(u, w)
  BY <1>7, <1>8 DEF Inv, Kept, Owned, SameNumber
<1>9. ASSUME NEW t \in records' PROVE \E u \in records' \ flagged' : SameNumber(t, u)
  <2>1. t \in Turns
    BY <1>5 DEF TableTypes
  <2>2. CASE t \in records
    BY <1>8, <2>1, <2>2 DEF SameNumber
  <2>3. CASE t \notin records
    <3>1. t \in Named(out)
      BY <1>1, <2>3
    <3>2. CASE t \notin flagged'
      BY <3>2 DEF SameNumber
    <3>3. CASE t \in flagged'
      <4>1. PICK x \in out : x[1] = t /\ x[2]
        BY <1>2, <2>3, <3>3 DEF Inv, TableTypes
      <4>2. CASE \E u \in records : SameNumber(t, u)
        BY <1>8, <2>1, <4>2
      <4>3. CASE ~\E u \in records : SameNumber(t, u)
        <5>1. PICK y \in out : ~y[2] /\ <<y[1], TRUE>> \notin out /\ SameNumber(t, y[1])
          BY <4>1, <4>3 DEF Founded
        <5>2. y[1] \in records' /\ y[1] \notin records
          BY <1>1, <4>3, <5>1 DEF Named
        <5>3. y[1] \notin flagged'
          <6>1. y[1] \notin flagged
            BY <5>2 DEF Inv, TableTypes
          <6>2. ASSUME NEW z \in out, z[2], z[1] = y[1] PROVE FALSE
            <7>1. PICK a \in Turns, b \in BOOLEAN : z = <<a, b>>
              BY <6>2
            <7>2. a = y[1] /\ (b = TRUE \/ b = FALSE) /\ b
              BY <6>2, <7>1
            <7>3. b = TRUE
              BY <7>2
            <7> QED
              BY <5>1, <6>2, <7>1, <7>2, <7>3
          <6> QED
            BY <1>2, <6>1, <6>2
        <5> QED
          BY <5>1, <5>2, <5>3
      <4> QED
        BY <4>2, <4>3
    <3> QED
      BY <3>2, <3>3
  <2> QED
    BY <2>2, <2>3
<1>10. records' \subseteq Sent'
  BY <1>1, <1>3 DEF Inv, Kept
<1> QED
  BY <1>1, <1>3, <1>5, <1>6, <1>9, <1>10 DEF Kept, Owned, Dealt

LEMMA SettledInv ==
  ASSUME Inv, Grows, TableTypes', Kept', faults' \in 0..MaxFaults,
         NEW p \in Procs, NEW r \in Good', req' = [req EXCEPT ![p] = r]
  PROVE  Inv'
  BY StepGood DEF Inv

LEMMA QuietInv ==
  ASSUME Inv, UNCHANGED <<fate, refused, tables>>, UNCHANGED faults \/ Fault,
         NEW p \in Procs, NEW r \in Good', req' = [req EXCEPT ![p] = r]
  PROVE  Inv'
<1>1. faults' \in 0..MaxFaults
  BY LimitAssumption DEF Inv, Fault
<1> QED
  BY <1>1, Quiet, SettledInv

----------------------------------------------------------------------------
(* The proxies, time and restarts.                                         *)

LEMMA IssueInv ==
  ASSUME Inv, NEW t \in Turns, Issue(t)
  PROVE  Inv'
<1>1. /\ UNCHANGED <<refused, records, flagged, ledger, row, req, faults>>
      /\ fate[t] = "new"
  BY DEF Issue, tables
<1>2. PICK f \in {"logged", "lost"} : fate' = [fate EXCEPT ![t] = f]
  BY DEF Issue
<1>3. fate \in [Turns -> Fates]
  BY DEF Inv, TableTypes
<1>4. Grows
  BY <1>1, <1>2, <1>3 DEF Grows, Sent
<1>5. TableTypes'
  BY <1>1, <1>2 DEF Inv, TableTypes, Fates
<1>6. AckedStored'
  BY <1>1, <1>2, <1>3 DEF Inv, Kept, AckedStored
<1>7. RowsReached' /\ Owned' /\ records' \subseteq Sent'
  BY <1>1, <1>4, ReachedGrows DEF Inv, Kept, RowsReached, Owned, Grows
<1>8. req' \in [Procs -> Good']
  BY <1>1, <1>4, GoodKept DEF Inv
<1> QED
  BY <1>1, <1>5, <1>6, <1>7, <1>8 DEF Inv, Kept

LEMMA AgeInv ==
  ASSUME Inv, NEW o \in Orgs, Age(o)
  PROVE  Inv'
<1>1. /\ UNCHANGED <<fate, refused, records, flagged, ledger, req, faults>>
      /\ row' = [row EXCEPT ![o].age = "stale"]
  BY DEF Age
<1>2. Grows
  BY <1>1 DEF Grows, Sent
<1>3. row' \in [Orgs -> Watermark] /\ \A x \in Orgs : row'[x].contiguous = row[x].contiguous
  BY <1>1 DEF Inv, TableTypes, Watermark
<1>4. TableTypes'
  BY <1>1, <1>3 DEF Inv, TableTypes
<1>5. RowsReached'
  BY <1>2, <1>3, ReachedGrows DEF Inv, Kept, RowsReached
<1>6. AckedStored' /\ Owned' /\ records' \subseteq Sent'
  BY <1>1, <1>2 DEF Inv, Kept, AckedStored, Owned, Grows
<1>7. req' \in [Procs -> Good']
  BY <1>1, <1>2, GoodKept DEF Inv
<1> QED
  BY <1>1, <1>4, <1>5, <1>6, <1>7 DEF Inv, Kept

LEMMA RestartInv ==
  ASSUME Inv, Restart
  PROVE  Inv'
<1>1. /\ UNCHANGED <<fate, refused, tables>> /\ Fault
      /\ req' = [p \in Procs |-> Idle]
  BY DEF Restart
<1>2. req' \in [Procs -> Good']
  BY <1>1, IdleFacts
<1>3. faults' \in 0..MaxFaults
  BY <1>1, LimitAssumption DEF Inv, Fault
<1> QED
  BY <1>1, <1>2, <1>3, Quiet DEF Inv

\* A request that is read and not yet worked on.
LEMMA SendBatchInv ==
  ASSUME Inv, NEW p \in Procs, SendBatch(p)
  PROVE  Inv'
<1>1. PICK x \in {ProxyOf[t] : t \in Turns} : \E S \in (SUBSET Logged(x)) \ {{}} :
        req' = [req EXCEPT ![p] = [Idle EXCEPT !.pc = "tx", !.op = "batch",
                                     !.batch = S, !.allocated = Allocated(x)]]
  BY DEF SendBatch
<1>2. PICK S \in (SUBSET Logged(x)) \ {{}} :
        req' = [req EXCEPT ![p] = [Idle EXCEPT !.pc = "tx", !.op = "batch",
                                     !.batch = S, !.allocated = Allocated(x)]]
  BY <1>1
<1>3. S # {} /\ S \subseteq Turns /\ S \subseteq Sent
  BY <1>2 DEF Logged, Sent
<1>4. Allocated(x) \in Marks
  <2> DEFINE T == {0} \cup {SeqOf[t] : t \in {u \in Turns : ProxyOf[u] = x /\ fate[u] # "new"}}
  <2>1. T \in SUBSET Marks /\ T # {}
    BY Numbers
  <2>2. Max(T) \in T
    BY <2>1, GreatestMark
  <2> QED
    BY <2>1, <2>2 DEF Allocated
<1> DEFINE r == [Idle EXCEPT !.pc = "tx", !.op = "batch", !.batch = S,
                             !.allocated = Allocated(x)]
<1>5. UNCHANGED <<fate, refused, tables>> /\ UNCHANGED faults
  BY DEF SendBatch
<1>6. r \in Request
  BY <1>3, <1>4, IdleFacts DEF Request, PCs
<1>7. /\ r.pc = "tx" /\ r.batch = S /\ r.todo = {} /\ r.out = {} /\ r.reply = Idle.reply
  BY DEF Idle
<1>8. S \subseteq Sent'
  BY <1>3, <1>5, Quiet DEF Grows
<1>9. r \in Base'
  BY <1>6, <1>7, <1>8, IdleFacts DEF Base, Named, Good
<1>10. r \in Good'
  BY <1>3, <1>7, <1>9 DEF Good, OnRow, PerRecord, Founded
<1> HIDE DEF r
<1>11. req' = [req EXCEPT ![p] = r]
  BY <1>2 DEF r
<1> QED
  BY <1>5, <1>10, <1>11, QuietInv

LEMMA ScanInv ==
  ASSUME Inv, NEW p \in Procs, Scan(p)
  PROVE  Inv'
<1> DEFINE gaps == {o \in Orgs : Stale(row[o])}
           F == {[org |-> o, lo |-> row[o].contiguous, hi |-> Ceiling(row[o])] : o \in gaps}
           r == [Idle EXCEPT !.pc = "scan", !.op = "promote", !.finds = F]
<1>1. UNCHANGED <<fate, refused, tables>> /\ UNCHANGED faults
  BY DEF Scan
<1>2. req' = [req EXCEPT ![p] = r]
  BY DEF Scan
<1>3. F \in SUBSET [org : Orgs, lo : Marks, hi : Marks]
  <2> SUFFICES ASSUME NEW o \in Orgs
               PROVE  row[o].contiguous \in Marks /\ Ceiling(row[o]) \in Marks
    OBVIOUS
  <2>1. row[o] \in Watermark
    BY DEF Inv, TableTypes
  <2> QED
    BY <2>1 DEF Watermark, Ceiling, Greatest
<1>4. r \in Request
  BY <1>3, IdleFacts DEF Request, PCs
<1>5. r.pc = "scan" /\ r.batch = {} /\ r.todo = {} /\ r.out = {} /\ r.reply = Idle.reply
  BY DEF Idle
<1>6. r \in Base'
  BY <1>4, <1>5, IdleFacts DEF Base, Named, Good
<1>7. r \in Good'
  BY <1>5, <1>6 DEF Good, OnRow, PerRecord
<1> HIDE DEF r
<1> QED
  BY <1>1, <1>2, <1>7, QuietInv

----------------------------------------------------------------------------
(* The batch.                                                              *)

LEMMA ReqFacts ==
  ASSUME Inv, NEW p \in Procs
  PROVE  /\ req[p] \in Request /\ req[p] \in Base /\ req[p] \in Good
         /\ req[p].batch \subseteq Turns
  BY DEF Inv, Good, Base, Request

LEMMA NamedPairs ==
  ASSUME NEW A, NEW g \in [A -> BOOLEAN]
  PROVE  /\ Named({<<t, g[t]>> : t \in A}) = A
         /\ {<<t, g[t]>> : t \in A} \subseteq A \X BOOLEAN
<1> DEFINE out == {<<t, g[t]>> : t \in A}
<1>1. \A t \in A : g[t] \in BOOLEAN
  OBVIOUS
<1>2. out \subseteq A \X BOOLEAN
  BY <1>1
<1>3. ASSUME NEW t \in A PROVE t \in Named(out)
  <2>1. <<t, g[t]>> \in out /\ <<t, g[t]>>[1] = t
    OBVIOUS
  <2> HIDE DEF out
  <2> QED
    BY <2>1 DEF Named
<1>4. ASSUME NEW x \in Named(out) PROVE x \in A
  <2>1. PICK y \in out : x = y[1]
    BY DEF Named
  <2> QED
    BY <1>2, <2>1
<1> QED
  BY <1>2, <1>3, <1>4

\* The least of the new turns of a number finds no rival: it is not flagged.
LEMMA DecisionsFounded ==
  ASSUME NEW new \in SUBSET Turns,
         NEW out, out = {<<t, Rivals(records \cup {u \in new : u < t}, t) # {}>> : t \in new}
  PROVE  Founded(out)
<1> DEFINE Seen(t) == records \cup {u \in new : u < t}
<1> SUFFICES ASSUME NEW x \in out, x[2], ~\E u \in records : SameNumber(x[1], u)
             PROVE  \E y \in out : ~y[2] /\ <<y[1], TRUE>> \notin out /\ SameNumber(x[1], y[1])
  BY DEF Founded
<1>1. PICK t \in new : x = <<t, Rivals(Seen(t), t) # {}>>
  OBVIOUS
<1> DEFINE K == {u \in new : SameNumber(t, u)}
<1>2. K \in SUBSET Nat /\ t \in K
  BY Numbers DEF SameNumber
<1>3. Min(K) \in K /\ \A u \in K : Min(K) <= u
  BY <1>2, LeastNatural
<1>4. PICK m \in K : \A u \in K : m <= u
  BY <1>3
<1>5. m \in new /\ SameNumber(t, m)
  OBVIOUS
<1>6. ASSUME NEW u \in Rivals(Seen(m), m) PROVE FALSE
  <2>1. u \in Seen(m) /\ SameNumber(m, u)
    BY <1>6 DEF Rivals, SameNumber
  <2>2. SameNumber(t, u)
    BY <2>1, <1>5 DEF SameNumber
  <2>3. u \notin records
    BY <1>1, <2>2
  <2>4. u \in K /\ u < m
    BY <2>1, <2>2, <2>3
  <2>5. u \in Int /\ m \in Int /\ m <= u
    BY <1>2, <1>4, <2>4
  <2> QED
    BY <2>4, <2>5
<1>7. Rivals(Seen(m), m) = {}
  BY <1>6
<1>8. <<m, FALSE>> \in out
  BY <1>5, <1>7
<1>9. <<m, TRUE>> \notin out
  BY <1>7
<1> QED
  BY <1>1, <1>5, <1>8, <1>9

LEMMA IngestInTxInv ==
  ASSUME Inv, NEW p \in Procs, IngestInTx(p)
  PROVE  Inv'
<1> DEFINE q == req[p]
           S == q.batch \ refused
           new == S \ records
           out == {<<t, Rivals(records \cup {u \in new : u < t}, t) # {}>> : t \in new}
           r == [q EXCEPT !.pc = "commit", !.orgs = {OrgOf[t] : t \in S}, !.out = out]
<1>1. /\ q.pc = "tx" /\ UNCHANGED <<fate, refused, tables>> /\ UNCHANGED faults
      /\ req' = [req EXCEPT ![p] = r]
  BY DEF IngestInTx
<1>2. /\ q \in Request /\ q \in Base /\ q \in Good /\ q.batch \subseteq Turns
  BY ReqFacts
<1>3. out \in SUBSET (Turns \X BOOLEAN) /\ Named(out) = new /\ Founded(out)
  <2>1. new \in SUBSET Turns
    BY <1>2
  <2> DEFINE g == [t \in new |-> Rivals(records \cup {u \in new : u < t}, t) # {}]
  <2>2. g \in [new -> BOOLEAN] /\ out = {<<t, g[t]>> : t \in new}
    OBVIOUS
  <2> HIDE DEF g, new, out
  <2>3. Named(out) = new /\ out \subseteq new \X BOOLEAN
    BY <2>2, NamedPairs
  <2>4. out \in SUBSET (Turns \X BOOLEAN)
    BY <2>1, <2>3
  <2> USE DEF out
  <2>5. Founded(out)
    BY <2>1, DecisionsFounded
  <2> QED
    BY <2>3, <2>4, <2>5
<1>4. {OrgOf[t] : t \in S} \subseteq Orgs
  BY <1>2, Numbers
<1>5. new \subseteq q.batch /\ q.batch \subseteq Dealt \cup new
  BY DEF Dealt
<1> HIDE DEF out, S, new
<1>6. r \in Request
  BY <1>2, <1>3, <1>4 DEF Request, PCs
<1>7. /\ r.pc = "commit" /\ r.batch = q.batch /\ r.todo = q.todo /\ r.out = out
      /\ r.reply = q.reply
  BY <1>2 DEF Request
<1>8. r \in Base
  BY <1>2, <1>3, <1>5, <1>6, <1>7 DEF Base
<1>9. r \in Good
  BY <1>1, <1>2, <1>3, <1>5, <1>7, <1>8 DEF Good, OnRow, PerRecord
<1>10. r \in Good'
  BY <1>1, <1>9, Quiet, GoodKept
<1> HIDE DEF r
<1> QED
  BY <1>1, <1>10, QuietInv

\* What a commit does, whatever is reported of it.
LEMMA Committed ==
  ASSUME Inv, NEW p \in Procs, req[p].pc \in {"tx", "commit", "insert"},
         Store(req[p].out), UNCHANGED <<fate, refused, ledger, row>>
  PROVE  /\ Grows /\ TableTypes' /\ Kept'
         /\ Dealt \cup Named(req[p].out) \subseteq Dealt'
<1>1. /\ req[p] \in Request /\ req[p].batch \subseteq Sent
      /\ Named(req[p].out) \subseteq req[p].batch /\ Founded(req[p].out)
  BY ReqFacts DEF Good, Base
<1>2. req[p].out \in SUBSET (Turns \X BOOLEAN)
  BY <1>1 DEF Request
<1> QED
  BY <1>1, <1>2, StoreFacts

LEMMA CommitInv ==
  ASSUME Inv, NEW p \in Procs, Commit(p)
  PROVE  Inv'
<1> DEFINE q == req[p]
           d == [q EXCEPT !.out = {}]
<1>1. /\ q.pc = "commit" /\ Store(q.out) /\ UNCHANGED <<fate, refused, ledger, row>>
      /\ UNCHANGED faults /\ req' = [req EXCEPT ![p] = Advance(d)]
  BY DEF Commit
<1>2. /\ Grows /\ TableTypes' /\ Kept' /\ Dealt \cup Named(q.out) \subseteq Dealt'
  BY <1>1, Committed
<1>3. q \in Request /\ q \in Base' /\ q.batch \subseteq Dealt'
  BY <1>1, <1>2, ReqFacts, GoodKept DEF Good
<1>4. /\ d \in Request /\ d.batch = q.batch /\ d.todo = q.todo /\ d.out = {}
      /\ d.reply = q.reply
  BY <1>3 DEF Request
<1>5. d \in Base'
  BY <1>3, <1>4 DEF Base, Named
<1>6. Advance(d) \in Good'
  BY <1>3, <1>4, <1>5, AdvanceGood
<1> HIDE DEF d
<1>7. faults' \in 0..MaxFaults
  BY <1>1 DEF Inv
<1> QED
  BY <1>1, <1>2, <1>6, <1>7, SettledInv

LEMMA TxFailsInv ==
  ASSUME Inv, NEW p \in Procs, TxFails(p)
  PROVE  Inv'
<1> DEFINE q == req[p]
           d == [q EXCEPT !.pc = "owner", !.todo = q.batch, !.out = {}, !.orgs = {}]
<1>1. /\ q.pc \in {"tx", "commit"} /\ UNCHANGED <<fate, refused, ledger, row>>
      /\ UNCHANGED faults /\ req' = [req EXCEPT ![p] = d]
  BY DEF TxFails
<1>2. UNCHANGED <<records, flagged>> \/ Store(q.out)
  BY DEF TxFails
<1>3. Grows /\ TableTypes' /\ Kept'
  <2>1. CASE UNCHANGED <<records, flagged>>
    BY <1>1, <2>1, Quiet DEF tables
  <2>2. CASE Store(q.out)
    BY <1>1, <2>2, Committed
  <2> QED
    BY <1>2, <2>1, <2>2
<1>4. q \in Request /\ q \in Base' /\ q.batch # {}
  BY <1>1, <1>3, ReqFacts, GoodKept DEF Good
<1>5. /\ d \in Request /\ d.batch = q.batch /\ d.todo = q.batch /\ d.out = {}
      /\ d.reply = q.reply /\ d.pc = "owner"
  BY <1>4 DEF Request, PCs
<1>6. d \in Base'
  BY <1>4, <1>5 DEF Base, Named
<1>7. d \in Good'
  BY <1>4, <1>5, <1>6 DEF Good, OnRow, PerRecord
<1> HIDE DEF d
<1>8. faults' \in 0..MaxFaults
  BY <1>1 DEF Inv
<1> QED
  BY <1>1, <1>3, <1>7, <1>8, SettledInv

LEMMA SeqOwnerInv ==
  ASSUME Inv, NEW p \in Procs, SeqOwner(p)
  PROVE  Inv'
<1> DEFINE q == req[p]
<1>1. /\ q.pc = "owner" /\ UNCHANGED <<fate, refused, tables>> /\ UNCHANGED faults
  BY DEF SeqOwner
<1>2. Grows
  BY <1>1, Quiet
<1>3. /\ q \in Request /\ q \in Base' /\ q \in Good' /\ q \in Good /\ q.todo # {}
      /\ q.batch \subseteq Turns /\ q.todo \subseteq q.batch
  BY <1>1, <1>2, ReqFacts, GoodKept DEF Good, PerRecord, Base
<1>4. PICK t \in q.todo : t = First(q)
  BY <1>3, FirstTodo
<1>5. q.ok => q.batch \ q.todo \subseteq Dealt'
  BY <1>1, <1>3 DEF Good, PerRecord
<1>6. CASE t \in refused /\ req' = [req EXCEPT ![p] = Done(q)]
  <2>1. First(q) \in Dealt'
    BY <1>1, <1>4, <1>6 DEF Dealt
  <2>2. Done(q) \in Good'
    BY <1>3, <1>5, <2>1, DoneGood
  <2> QED
    BY <1>1, <1>6, <2>2, QuietInv
<1>7. ASSUME NEW c \in BOOLEAN, c => Rivals(records, t) # {},
             req' = [req EXCEPT ![p] = [q EXCEPT !.pc = "insert", !.out = {<<t, c>>}]]
      PROVE  Inv'
  <2> DEFINE one == {<<t, c>>}
  <2>1. Founded(one)'
    <3>1. CASE c = TRUE
      <4>1. \E u \in records' : SameNumber(t, u)
        BY <1>1, <1>7, <3>1 DEF Rivals, SameNumber, tables
      <4>2. \A x \in one : x[1] = t
        OBVIOUS
      <4> HIDE DEF one
      <4> QED
        BY <4>1, <4>2 DEF Founded
    <3>2. CASE c = FALSE
      <4>1. \A x \in one : x[2] = FALSE
        BY <3>2
      <4> HIDE DEF one
      <4> QED
        BY <4>1 DEF Founded
    <3> QED
      BY <3>1, <3>2
  <2>2. /\ one \in SUBSET (Turns \X BOOLEAN) /\ Named(one) \subseteq q.batch
        /\ \E b \in BOOLEAN : one = {<<t, b>>}
    <3>1. t \in q.batch /\ t \in Turns
      BY <1>3
    <3>2. one \in SUBSET (Turns \X BOOLEAN)
      BY <1>7, <3>1
    <3>3. Named(one) = {t}
      BY DEF Named
    <3>4. \E b \in BOOLEAN : one = {<<t, b>>}
      BY <1>7, Zenon
    <3> QED
      BY <3>1, <3>2, <3>3, <3>4
  <2>3. PICK r : r = [q EXCEPT !.pc = "insert", !.out = one]
    OBVIOUS
  <2> HIDE DEF one
  <2>4. /\ r \in Request /\ r.batch = q.batch /\ r.todo = q.todo /\ r.out = one
        /\ r.reply = q.reply /\ r.ok = q.ok /\ r.pc = "insert"
    BY <1>3, <2>2, <2>3 DEF Request, PCs
  <2>5. r \in Base'
    BY <1>3, <2>2, <2>4 DEF Base
  <2>6. \E b \in BOOLEAN : r.out = {<<First(r), b>>}
    BY <1>4, <2>2, <2>4 DEF First
  <2>7. Founded(r.out)'
    BY <2>1, <2>4
  <2>8. r.ok => r.batch \ r.todo \subseteq Dealt'
    BY <1>5, <2>4
  <2>9. r \in Good'
    BY <1>3, <2>4, <2>5, <2>6, <2>7, <2>8 DEF Good, OnRow, PerRecord
  <2>10. req' = [req EXCEPT ![p] = r]
    BY <1>7, <2>3 DEF one
  <2> QED
    BY <1>1, <2>9, <2>10, QuietInv
<1> QED
  BY <1>4, <1>6, <1>7 DEF SeqOwner

LEMMA InsertRecordInv ==
  ASSUME Inv, NEW p \in Procs, InsertRecord(p)
  PROVE  Inv'
<1> DEFINE q == req[p]
           d == [q EXCEPT !.orgs = @ \cup {OrgOf[First(q)]}]
<1>1. /\ q.pc = "insert" /\ Store(q.out) /\ UNCHANGED <<fate, refused, ledger, row>>
      /\ UNCHANGED faults /\ req' = [req EXCEPT ![p] = Done(d)]
  BY DEF InsertRecord
<1>2. /\ Grows /\ TableTypes' /\ Kept' /\ Dealt \cup Named(q.out) \subseteq Dealt'
  BY <1>1, Committed
<1>3. /\ q \in Request /\ q \in Base' /\ q \in Good /\ q.todo # {} /\ q.batch \subseteq Turns
      /\ q.todo \subseteq q.batch
  BY <1>1, <1>2, ReqFacts, GoodKept DEF Good, PerRecord, Base
<1>4. First(q) \in q.todo /\ OrgOf[First(q)] \in Orgs
  BY <1>3, FirstTodo, Numbers
<1>5. First(q) \in Dealt'
  <2>1. PICK c \in BOOLEAN : q.out = {<<First(q), c>>}
    BY <1>1, <1>3 DEF Good
  <2> QED
    BY <1>2, <2>1 DEF Named
<1>6. /\ d \in Request /\ d.batch = q.batch /\ d.todo = q.todo /\ d.out = q.out
      /\ d.reply = q.reply /\ d.ok = q.ok
  BY <1>3, <1>4 DEF Request
<1>7. d \in Base' /\ First(d) = First(q)
  BY <1>3, <1>6 DEF Base, First
<1>8. d.ok => d.batch \ d.todo \subseteq Dealt'
  BY <1>1, <1>2, <1>3, <1>6 DEF Good, PerRecord
<1> HIDE DEF d
<1>9. Done(d) \in Good'
  BY <1>5, <1>7, <1>8, DoneGood
<1>10. faults' \in 0..MaxFaults
  BY <1>1 DEF Inv
<1> QED
  BY <1>1, <1>2, <1>9, <1>10, SettledInv

LEMMA RecordFailsInv ==
  ASSUME Inv, NEW p \in Procs, RecordFails(p)
  PROVE  Inv'
<1> DEFINE q == req[p]
           d == [q EXCEPT !.ok = FALSE]
<1>1. /\ q.pc = "insert" /\ UNCHANGED <<fate, refused, tables>> /\ Fault
      /\ req' = [req EXCEPT ![p] = Done(d)]
  BY DEF RecordFails
<1>2. q \in Request /\ q \in Base'
  BY <1>1, Quiet, ReqFacts, GoodKept
<1>3. FALSE \in BOOLEAN
  OBVIOUS
<1>4. /\ d \in Request /\ d.batch = q.batch /\ d.todo = q.todo /\ d.out = q.out
      /\ d.reply = q.reply /\ d.ok = FALSE
  BY <1>2, <1>3 DEF Request
<1>5. d \in Base'
  BY <1>2, <1>4 DEF Base
<1> HIDE DEF d
<1>6. Done(d) \in Good'
  BY <1>4, <1>5, DoneGood
<1> QED
  BY <1>1, <1>6, QuietInv

\* A 200 is for turns that are dealt with, and its prune for numbers that are.
LEMMA AnsweredFacts ==
  ASSUME Inv, NEW p \in Procs, req[p].pc = "reply", req[p].ok
  PROVE  /\ Answered(req[p]) \in [Turns -> Fates]
         /\ \A t \in Turns :
              \/ Answered(req[p])[t] = fate[t]
              \/ /\ fate[t] \in {"logged", "acked"}
                 /\ Answered(req[p])[t] = "pruned" /\ Accounted(SeqOf[t])
              \/ /\ fate[t] \in {"logged", "acked"}
                 /\ Answered(req[p])[t] = "acked" /\ t \in Dealt
<1> DEFINE q == req[p]
           x == ProxyOf[CHOOSE t \in q.batch : TRUE]
           live == {t \in Turns : fate[t] \in {"logged", "acked"} /\ ProxyOf[t] = x}
           f(t) == IF t \in live /\ SeqOf[t] <= q.reply THEN "pruned"
                   ELSE IF t \in live \cap q.batch THEN "acked" ELSE fate[t]
<1>1. Answered(q) = [t \in Turns |-> f(t)]
  BY DEF Answered
<1>2. fate \in [Turns -> Fates] /\ q.reply \in Answerable /\ q.batch \subseteq Dealt
  BY ReqFacts DEF Good, Base, PerRecord, Inv, TableTypes
<1>3. ASSUME NEW t \in Turns
      PROVE  /\ f(t) \in Fates
             /\ \/ f(t) = fate[t]
                \/ fate[t] \in {"logged", "acked"} /\ f(t) = "pruned" /\ Accounted(SeqOf[t])
                \/ fate[t] \in {"logged", "acked"} /\ f(t) = "acked" /\ t \in Dealt
  <2>1. CASE t \in live /\ SeqOf[t] <= q.reply
    <3>1. Accounted(SeqOf[t])
      BY <1>2, <2>1, Numbers DEF Answerable
    <3> QED
      BY <2>1, <3>1 DEF Fates
  <2>2. CASE ~(t \in live /\ SeqOf[t] <= q.reply) /\ t \in live \cap q.batch
    BY <1>2, <2>2 DEF Fates
  <2>3. CASE ~(t \in live /\ SeqOf[t] <= q.reply) /\ t \notin live \cap q.batch
    BY <1>2, <2>3
  <2> QED
    BY <2>1, <2>2, <2>3
<1> HIDE DEF f
<1> QED
  BY <1>1, <1>3

LEMMA ReplyInv ==
  ASSUME Inv, NEW p \in Procs, Reply(p)
  PROVE  Inv'
<1>1. /\ req[p].pc = "reply" /\ UNCHANGED <<refused, tables>>
      /\ req' = [req EXCEPT ![p] = Idle]
  BY DEF Reply
<1>2. CASE UNCHANGED fate /\ (UNCHANGED faults \/ Fault)
  BY <1>1, <1>2, IdleFacts, QuietInv
<1>3. CASE req[p].ok /\ fate' = Answered(req[p]) /\ UNCHANGED faults
  <2>1. /\ fate' \in [Turns -> Fates]
        /\ \A t \in Turns : \/ fate'[t] = fate[t]
                            \/ fate[t] \in {"logged", "acked"} /\ fate'[t] = "pruned"
                            \/ fate[t] \in {"logged", "acked"} /\ fate'[t] = "acked" /\ t \in Dealt
    BY <1>1, <1>3, AnsweredFacts
  <2>2. Grows
    BY <1>1, <2>1 DEF Grows, Sent, tables
  <2>3. TableTypes'
    BY <1>1, <2>1 DEF Inv, TableTypes, tables
  <2>4. AckedStored'
    BY <1>1, <2>1 DEF Inv, Kept, AckedStored, Dealt, tables
  <2>5. RowsReached' /\ Owned' /\ records' \subseteq Sent'
    BY <1>1, <2>2, ReachedGrows DEF Inv, Kept, RowsReached, Owned, Grows, tables
  <2>6. faults' \in 0..MaxFaults
    BY <1>3 DEF Inv
  <2> QED
    BY <1>1, <2>2, <2>3, <2>4, <2>5, <2>6, IdleFacts, SettledInv DEF Kept
<1> QED
  BY <1>2, <1>3 DEF Reply

----------------------------------------------------------------------------
(* The rows.                                                               *)

\* A step of a process that works on a row and is not yet done with it.
LEMMA OnRowGood ==
  ASSUME Inv, Grows, NEW p \in Procs, NEW r \in Request,
         req[p].pc \in {"advance", "zip", "seen"}, r.pc \in OnRow, r.org \in Orgs,
         r.contiguous \in Reached(r.org),
         r.batch = req[p].batch, r.todo = req[p].todo, r.out = req[p].out,
         r.ok = req[p].ok, r.reply = req[p].reply
  PROVE  r \in Good'
<1>1. req[p] \in Good
  BY ReqFacts
<1>2. r \in Good
  BY <1>1 DEF Good, Base, OnRow, PerRecord
<1> QED
  BY <1>2, GoodKept

LEMMA AdvanceReadInv ==
  ASSUME Inv, NEW p \in Procs, AdvanceRead(p)
  PROVE  Inv'
<1> DEFINE q == req[p]
<1>1. q.pc = "advance" /\ UNCHANGED <<fate, refused, tables>> /\ UNCHANGED faults
  BY DEF AdvanceRead
<1>2. PICK o \in q.orgs :
        req' = [req EXCEPT ![p] = [q EXCEPT !.pc = "zip", !.org = o,
                                            !.contiguous = row[o].contiguous]]
  BY DEF AdvanceRead
<1> DEFINE r == [q EXCEPT !.pc = "zip", !.org = o, !.contiguous = row[o].contiguous]
<1>3. q \in Request /\ o \in Orgs
  BY <1>2, ReqFacts DEF Request
<1>4. row[o].contiguous \in Reached(o) /\ row[o].contiguous \in Marks
  BY <1>3 DEF Inv, Kept, RowsReached, Reached
<1>5. /\ r \in Request /\ r.pc = "zip" /\ r.org = o /\ r.contiguous = row[o].contiguous
      /\ r.batch = q.batch /\ r.todo = q.todo /\ r.out = q.out /\ r.ok = q.ok
      /\ r.reply = q.reply
  BY <1>3, <1>4 DEF Request, PCs
<1> HIDE DEF r
<1>6. r \in Good'
  BY <1>1, <1>3, <1>4, <1>5, Quiet, OnRowGood DEF OnRow
<1>7. req' = [req EXCEPT ![p] = r]
  BY <1>2 DEF r
<1> QED
  BY <1>1, <1>6, <1>7, QuietInv

\* The zipper walks over what is present, from where there is no hole.
LEMMA ZippedReached ==
  ASSUME NEW o, NEW c \in Reached(o)
  PROVE  Zipped(o, c) \in Reached(o)
<1> DEFINE T == {d \in c..MaxSeq : d <= c + ScanLimit /\ Window(c, d) \subseteq Present(o)}
<1>1. c \in Marks /\ c \in Int /\ MaxSeq \in Nat /\ ScanLimit \in Nat
  BY Numbers, LimitAssumption DEF Reached
<1>2. c \in T /\ T \in SUBSET Marks
  BY <1>1 DEF Marks, Window, Seqs
<1>3. Max(T) \in T
  BY <1>2, GreatestMark
<1>4. PICK z \in T : z = Zipped(o, c)
  BY <1>3 DEF Zipped
<1>5. ASSUME NEW s \in Seqs, s <= z PROVE s \in Present(o)
  <2>1. s \in Int /\ z \in Int /\ z <= c + ScanLimit
    BY <1>1, <1>2, Numbers DEF Seqs
  <2>2. CASE s <= c
    BY <2>2 DEF Reached
  <2>3. CASE ~(s <= c)
    <3>1. c < s /\ s <= c + ScanLimit
      BY <1>1, <1>5, <2>1, <2>3
    <3>2. s \in Window(c, z)
      BY <1>5, <3>1 DEF Window
    <3> QED
      BY <3>2
  <2> QED
    BY <2>2, <2>3
<1> QED
  BY <1>2, <1>4, <1>5 DEF Reached

LEMMA AdvanceZipInv ==
  ASSUME Inv, NEW p \in Procs, AdvanceZip(p)
  PROVE  Inv'
<1> DEFINE q == req[p]
           z == Zipped(q.org, q.contiguous)
           r == [q EXCEPT !.pc = "seen", !.contiguous = z]
<1>1. /\ q.pc = "zip" /\ UNCHANGED <<fate, refused, tables>> /\ UNCHANGED faults
      /\ req' = [req EXCEPT ![p] = r]
  BY DEF AdvanceZip
<1>2. q \in Request /\ q.org \in Orgs /\ q.contiguous \in Reached(q.org)
  BY <1>1, ReqFacts DEF Good, OnRow
<1>3. z \in Reached(q.org) /\ z \in Marks
  BY <1>2, ZippedReached DEF Reached
<1> HIDE DEF z
<1>4. /\ r \in Request /\ r.pc = "seen" /\ r.org = q.org /\ r.contiguous = z
      /\ r.batch = q.batch /\ r.todo = q.todo /\ r.out = q.out /\ r.ok = q.ok
      /\ r.reply = q.reply
  BY <1>2, <1>3 DEF Request, PCs
<1> HIDE DEF r
<1>5. r \in Good'
  BY <1>1, <1>2, <1>3, <1>4, Quiet, OnRowGood DEF OnRow
<1> QED
  BY <1>1, <1>5, QuietInv

LEMMA AdvanceMaxSeenInv ==
  ASSUME Inv, NEW p \in Procs, AdvanceMaxSeen(p)
  PROVE  Inv'
<1> DEFINE q == req[p]
           m == Max({0} \cup SeqsIn(records, q.org))
           r == [q EXCEPT !.pc = "write", !.maxSeen = m]
<1>1. /\ q.pc = "seen" /\ UNCHANGED <<fate, refused, tables>> /\ UNCHANGED faults
      /\ req' = [req EXCEPT ![p] = r]
  BY DEF AdvanceMaxSeen
<1>2. q \in Request /\ q.org \in Orgs /\ q.contiguous \in Reached(q.org)
  BY <1>1, ReqFacts DEF Good, OnRow
<1>3. m \in Marks
  <2>1. {0} \cup SeqsIn(records, q.org) \in SUBSET Marks
    BY Numbers DEF SeqsIn, Inv, TableTypes
  <2> QED
    BY <2>1, GreatestMark
<1> HIDE DEF m
<1>4. /\ r \in Request /\ r.pc = "write" /\ r.org = q.org /\ r.contiguous = q.contiguous
      /\ r.batch = q.batch /\ r.todo = q.todo /\ r.out = q.out /\ r.ok = q.ok
      /\ r.reply = q.reply
  BY <1>2, <1>3 DEF Request, PCs
<1> HIDE DEF r
<1>5. r \in Good'
  BY <1>1, <1>2, <1>4, Quiet, OnRowGood DEF OnRow
<1> QED
  BY <1>1, <1>5, QuietInv

\* Leaving a row leaves the turns in hand as they were.
LEMMA LeftGood ==
  ASSUME Inv, Grows, NEW p \in Procs, NEW r \in Request,
         req[p].pc \notin PerRecord \cup {"tx", "commit"}, r.reply \in Answerable',
         r.batch = req[p].batch, r.todo = req[p].todo, r.out = req[p].out,
         r.ok = req[p].ok
  PROVE  Leave(r) \in Good' /\ Continue(r) \in Good'
<1>1. req[p] \in Good /\ req[p] \in Good' /\ req[p] \in Base'
  BY ReqFacts, GoodKept
<1>2. r \in Base' /\ (r.ok => r.batch \subseteq Dealt')
  BY <1>1 DEF Good, Base
<1> QED
  BY <1>2, LeaveGood, ContinueGood

LEMMA AdvanceWriteInv ==
  ASSUME Inv, NEW p \in Procs, AdvanceWrite(p)
  PROVE  Inv'
<1> DEFINE q == req[p]
           o == q.org
           r == [q EXCEPT !.reply = q.contiguous]
<1>1. /\ q.pc = "write" /\ row' = [row EXCEPT ![o] = Upserted(row[o], q)]
      /\ req' = [req EXCEPT ![p] = Leave(r)]
      /\ UNCHANGED <<fate, refused, records, flagged, ledger, faults>>
  BY DEF AdvanceWrite
<1>2. q \in Request /\ o \in Orgs /\ q.contiguous \in Reached(o)
  BY <1>1, ReqFacts DEF Good, OnRow
<1>3. Grows
  BY <1>1 DEF Grows, Sent
<1>4. /\ Upserted(row[o], q) \in Watermark
      /\ Upserted(row[o], q).contiguous = q.contiguous
  <2>1. row[o] \in Watermark
    BY <1>2 DEF Inv, TableTypes
  <2> QED
    BY <1>2, <2>1 DEF Upserted, Watermark, Greatest, Request
<1>5. TableTypes'
  BY <1>1, <1>4 DEF Inv, TableTypes
<1>6. RowsReached'
  <2> SUFFICES ASSUME NEW x \in Orgs PROVE row'[x].contiguous \in Reached(x)'
    BY DEF RowsReached
  <2>1. row'[x].contiguous \in Reached(x)
    BY <1>1, <1>2, <1>4 DEF Inv, Kept, RowsReached, TableTypes
  <2> QED
    BY <1>3, <2>1, ReachedGrows
<1>7. AckedStored' /\ Owned' /\ records' \subseteq Sent'
  BY <1>1, <1>3 DEF Inv, Kept, AckedStored, Owned, Grows
<1>8. q.contiguous \in Answerable'
  <2>1. q.contiguous \in Answerable
    BY <1>2 DEF Answerable, Reached, Accounted
  <2> QED
    BY <1>3, <2>1, ReachedGrows
<1>9. /\ r \in Request /\ r.reply = q.contiguous
      /\ r.batch = q.batch /\ r.todo = q.todo /\ r.out = q.out /\ r.ok = q.ok
  BY <1>2 DEF Request
<1> HIDE DEF r
<1>10. Leave(r) \in Good'
  BY <1>1, <1>3, <1>8, <1>9, LeftGood DEF PerRecord
<1>11. faults' \in 0..MaxFaults
  BY <1>1 DEF Inv
<1> QED
  BY <1>1, <1>3, <1>5, <1>6, <1>7, <1>10, <1>11, SettledInv DEF Kept

LEMMA EnumerateInv ==
  ASSUME Inv, NEW p \in Procs, Enumerate(p)
  PROVE  Inv'
<1> DEFINE q == req[p]
<1>1. q.pc = "scan" /\ UNCHANGED <<fate, refused, tables>> /\ UNCHANGED faults
  BY DEF Enumerate
<1>2. PICK f \in q.finds :
        req' = [req EXCEPT ![p] =
          IF Missing(f) = {} THEN Continue([q EXCEPT !.finds = @ \ {f}])
          ELSE [[q EXCEPT !.finds = @ \ {f}]
                  EXCEPT !.pc = "record", !.org = f.org, !.orgs = {f.org},
                         !.seqs = Missing(f)]]
  BY DEF Enumerate
<1> DEFINE rest == [q EXCEPT !.finds = @ \ {f}]
<1>3. q \in Request /\ q \in Good /\ f.org \in Orgs /\ q.reply \in Answerable'
  <2>1. q \in Request /\ q \in Good /\ q.reply \in Answerable
    BY ReqFacts DEF Good, Base
  <2>2. f.org \in Orgs
    BY <1>2, <2>1 DEF Request
  <2> QED
    BY <1>1, <2>1, <2>2, Quiet, ReachedGrows
<1>4. /\ rest \in Request /\ rest.batch = q.batch /\ rest.todo = q.todo
      /\ rest.out = q.out /\ rest.ok = q.ok /\ rest.reply = q.reply
  BY <1>3 DEF Request
<1> HIDE DEF rest
<1>5. CASE Missing(f) = {}
  <2>1. Continue(rest) \in Good'
    BY <1>1, <1>3, <1>4, Quiet, LeftGood DEF PerRecord
  <2>2. req' = [req EXCEPT ![p] = Continue(rest)]
    BY <1>2, <1>5 DEF rest
  <2> QED
    BY <1>1, <2>1, <2>2, QuietInv
<1>6. CASE Missing(f) # {}
  <2> DEFINE r == [rest EXCEPT !.pc = "record", !.org = f.org, !.orgs = {f.org},
                               !.seqs = Missing(f)]
  <2>1. Missing(f) \subseteq Seqs
    BY DEF Missing, Window
  <2>2. /\ r \in Request /\ r.pc = "record" /\ r.org = f.org /\ r.seqs = Missing(f)
        /\ r.batch = q.batch /\ r.todo = q.todo /\ r.out = q.out /\ r.ok = q.ok
        /\ r.reply = q.reply
    BY <1>3, <1>4, <2>1 DEF Request, PCs
  <2>3. req' = [req EXCEPT ![p] = r]
    BY <1>2, <1>6 DEF rest
  <2> HIDE DEF r
  <2>4. r \in Good
    BY <1>1, <1>3, <1>6, <2>2 DEF Good, Base, OnRow, PerRecord
  <2>5. r \in Good'
    BY <1>1, <2>4, Quiet, GoodKept
  <2> QED
    BY <1>1, <2>3, <2>5, QuietInv
<1> QED
  BY <1>5, <1>6

LEMMA RecordLossInv ==
  ASSUME Inv, NEW p \in Procs, RecordLoss(p)
  PROVE  Inv'
<1> DEFINE q == req[p]
<1>1. q \in Request /\ q \in Good /\ q.pc = "record" /\ q.org \in Orgs /\ q.seqs # {}
  BY ReqFacts DEF RecordLoss, Good
<1>2. PICK s \in q.seqs : s = Min(q.seqs)
  <2>1. q.seqs \in SUBSET Nat
    BY <1>1, Numbers DEF Request, Marks
  <2> QED
    BY <1>1, <2>1, LeastNatural
<1>3. /\ UNCHANGED <<fate, refused, records, flagged, row>> /\ UNCHANGED faults
      /\ ledger' = ledger \cup {<<q.org, s>>}
  BY <1>2 DEF RecordLoss
<1>4. req' = [req EXCEPT ![p] =
                IF q.seqs = {s} THEN Continue([q EXCEPT !.seqs = {}])
                ELSE [q EXCEPT !.seqs = q.seqs \ {s}]]
  BY <1>2 DEF RecordLoss
<1>5. Grows
  BY <1>3 DEF Grows, Sent
<1>6. TableTypes'
  BY <1>1, <1>2, <1>3 DEF Inv, TableTypes, Request
<1>7. Kept'
  BY <1>3, <1>5, ReachedGrows DEF Inv, Kept, RowsReached, AckedStored, Owned, Grows
<1>8. faults' \in 0..MaxFaults
  BY <1>3 DEF Inv
<1>9. CASE q.seqs = {s}
  <2> DEFINE r == [q EXCEPT !.seqs = {}]
  <2>1. /\ r \in Request /\ r.batch = q.batch /\ r.todo = q.todo /\ r.out = q.out
        /\ r.ok = q.ok /\ r.reply = q.reply
    BY <1>1 DEF Request
  <2>2. q.reply \in Answerable'
    BY <1>1, <1>5, ReachedGrows DEF Good, Base
  <2>3. req' = [req EXCEPT ![p] = Continue(r)]
    BY <1>4, <1>9
  <2> HIDE DEF r
  <2>4. Continue(r) \in Good'
    BY <1>1, <1>5, <2>1, <2>2, LeftGood DEF PerRecord
  <2> QED
    BY <1>5, <1>6, <1>7, <1>8, <2>3, <2>4, SettledInv
<1>10. CASE q.seqs # {s}
  <2> DEFINE r == [q EXCEPT !.seqs = q.seqs \ {s}]
  <2>1. /\ r \in Request /\ r.batch = q.batch /\ r.todo = q.todo /\ r.out = q.out
        /\ r.ok = q.ok /\ r.reply = q.reply /\ r.pc = q.pc /\ r.org = q.org
        /\ r.seqs = q.seqs \ {s}
    BY <1>1 DEF Request
  <2>2. q.seqs \ {s} # {}
    BY <1>2, <1>10
  <2>3. req' = [req EXCEPT ![p] = r]
    BY <1>4, <1>10
  <2> HIDE DEF r
  <2>4. r \in Good
    BY <1>1, <2>1, <2>2 DEF Good, Base, OnRow, PerRecord
  <2>5. r \in Good'
    BY <1>5, <2>4, GoodKept
  <2> QED
    BY <1>5, <1>6, <1>7, <1>8, <2>3, <2>5, SettledInv
<1> QED
  BY <1>9, <1>10

LEMMA StatementFailsInv ==
  ASSUME Inv, NEW p \in Procs, StatementFails(p)
  PROVE  Inv'
<1> DEFINE q == req[p]
           r == [q EXCEPT !.seqs = {}]
<1>1. /\ q.pc \in {"write", "record"} /\ UNCHANGED <<fate, refused, tables>> /\ Fault
      /\ req' = [req EXCEPT ![p] = Leave(r)]
  BY DEF StatementFails
<1>2. q \in Request /\ q.reply \in Answerable'
  BY <1>1, Quiet, ReqFacts, ReachedGrows DEF Good, Base
<1>3. /\ r \in Request /\ r.batch = q.batch /\ r.todo = q.todo /\ r.out = q.out
      /\ r.ok = q.ok /\ r.reply = q.reply
  BY <1>2 DEF Request
<1> HIDE DEF r
<1>4. Leave(r) \in Good'
  BY <1>1, <1>2, <1>3, Quiet, LeftGood DEF PerRecord
<1> QED
  BY <1>1, <1>4, QuietInv

----------------------------------------------------------------------------
(* The invariant holds.                                                    *)

LEMMA InitInv == Init => Inv
<1> SUFFICES ASSUME Init PROVE Inv
  OBVIOUS
<1>1. /\ fate = [t \in Turns |-> "new"] /\ refused \subseteq Bad
      /\ records = {} /\ flagged = {} /\ ledger = {}
      /\ row = [o \in Orgs |-> NoRow] /\ req = [p \in Procs |-> Idle] /\ faults = 0
  BY DEF Init
<1>2. NoRow \in Watermark /\ NoRow.contiguous = 0
  BY Numbers DEF NoRow, Watermark
<1>3. TableTypes
  BY <1>1, <1>2 DEF TableTypes, Fates
<1>4. RowsReached
  <2>1. \A s \in Seqs : ~(s <= 0)
    BY Numbers DEF Seqs
  <2> QED
    BY <1>1, <1>2, <2>1, Numbers DEF RowsReached, Reached
<1>5. AckedStored /\ Owned /\ records \subseteq Sent
  BY <1>1 DEF AckedStored, Owned
<1>6. faults \in 0..MaxFaults
  BY <1>1, LimitAssumption
<1>7. req \in [Procs -> Good]
  BY <1>1, IdleFacts
<1> QED
  BY <1>3, <1>4, <1>5, <1>6, <1>7 DEF Inv, Kept

LEMMA NextInv == Inv /\ [Next]_vars => Inv'
<1> SUFFICES ASSUME Inv, [Next]_vars PROVE Inv'
  OBVIOUS
<1>1. CASE UNCHANGED vars
  <2>1. UNCHANGED <<fate, refused, tables>> /\ UNCHANGED <<req, faults>>
    BY <1>1 DEF vars, tables
  <2>2. Grows /\ TableTypes' /\ Kept'
    BY <2>1, Quiet
  <2> QED
    BY <2>1, <2>2, GoodKept DEF Inv
<1>2. CASE Restart
  BY <1>2, RestartInv
<1>3. ASSUME NEW t \in Turns, Issue(t) PROVE Inv'
  BY <1>3, IssueInv
<1>4. ASSUME NEW o \in Orgs, Age(o) PROVE Inv'
  BY <1>4, AgeInv
<1>5. ASSUME NEW p \in Procs, SendBatch(p) \/ Scan(p) PROVE Inv'
  BY <1>5, SendBatchInv, ScanInv
<1>6. ASSUME NEW p \in Procs, Handle(p) PROVE Inv'
  BY <1>6, IngestInTxInv, CommitInv, TxFailsInv, SeqOwnerInv, InsertRecordInv,
     RecordFailsInv, ReplyInv, AdvanceReadInv, AdvanceZipInv, AdvanceMaxSeenInv,
     AdvanceWriteInv, EnumerateInv, RecordLossInv, StatementFailsInv DEF Handle
<1> QED
  BY <1>1, <1>2, <1>3, <1>4, <1>5, <1>6 DEF Next

LEMMA Invariance == Spec => []Inv
  BY InitInv, NextInv, PTL DEF Spec

----------------------------------------------------------------------------
(* Theorems.                                                               *)

\* Every variable has its type.
THEOREM ConversationTyped == Spec => []TypeOK
<1>1. Inv => TypeOK
  BY DEF Inv, TypeOK, TableTypes, Good, Base
<1> QED
  BY <1>1, Invariance, PTL

\* The cursor passes no turn that could have been stored and was not: whatever
\* is replayed, repeated or answered late, a 200 is for turns that are dealt with
\* (HandleBatch).
THEOREM CursorSafety == Spec => []AckedStored
<1>1. Inv => AckedStored
  BY DEF Inv, Kept
<1> QED
  BY <1>1, Invariance, PTL

\* contiguous_seq of a row passes no hole of its org, although the four
\* statements that advance it race with others (AdvanceWatermark).
THEOREM NoHolePassed == Spec => []ContiguousAccounted
<1>1. Inv => ContiguousAccounted
  BY DEF Inv, Kept, RowsReached, Reached, ContiguousAccounted
<1> QED
  BY <1>1, Invariance, PTL

\* No turn is quarantined unless an accepted turn of its org owns its number,
\* however stale the decision was when it was carried out (ingestOne, SeqOwner).
THEOREM QuarantineFounded == Spec => []QuarantinedHasOwner
<1>1. Inv => QuarantinedHasOwner
  BY DEF Inv, Kept, TableTypes, Owned, SameNumber, QuarantinedHasOwner
<1> QED
  BY <1>1, Invariance, PTL

----------------------------------------------------------------------------
(* The contract.                                                           *)

\* What the contract sees of the answers.
Answers == {t \in Turns : t \in refused \/ Accounted(SeqOf[t])}

\* What each step may change of what the contract sees.
LEMMA ContractFrame ==
  ASSUME [Next]_vars
  PROVE  \/ UNCHANGED <<fate, refused, records, ledger>>
         \/ \E t \in Turns : Issue(t)
         \/ \E p \in Procs : Commit(p) \/ TxFails(p) \/ InsertRecord(p)
         \/ \E p \in Procs : RecordLoss(p)
         \/ \E p \in Procs : Reply(p)
  BY DEF Next, vars, tables, Restart, Age, SendBatch, Scan, Handle, IngestInTx,
         SeqOwner, RecordFails, AdvanceRead, AdvanceZip, AdvanceMaxSeen,
         AdvanceWrite, Enumerate, StatementFails

LEMMA ContractInit == Init => Contract!Init
<1> SUFFICES ASSUME Init PROVE Contract!Init
  OBVIOUS
<1>1. /\ {t \in Turns : fate[t] = "logged"} = {} /\ records = {}
      /\ {t \in Turns : fate[t] \in {"logged", "acked", "pruned"}} = {}
  BY DEF Init
<1> QED
  BY <1>1 DEF Contract!Init

\* A step that stores, or files as lost, only adds to what is answered for.
LEMMA AnswersGrow ==
  ASSUME Grows
  PROVE  Answers' = Answers \cup Answers'
  BY ReachedGrows DEF Answers, Grows

\* The statements of a batch that write store turns that were logged.
LEMMA BatchStores ==
  ASSUME Inv, NEW p \in Procs, Commit(p) \/ TxFails(p) \/ InsertRecord(p)
  PROVE  /\ UNCHANGED <<fate, refused, ledger>> /\ Grows
         /\ \E S \in SUBSET Sent : records' = records \cup S
<1>1. /\ req[p].pc \in {"tx", "commit", "insert"} /\ UNCHANGED <<fate, refused, ledger, row>>
      /\ UNCHANGED records \/ Store(req[p].out)
  BY DEF Commit, TxFails, InsertRecord
<1>2. Named(req[p].out) \subseteq Sent
  BY ReqFacts DEF Base
<1>3. CASE UNCHANGED records
  <2>1. records' = records \cup {}
    BY <1>3
  <2>2. UNCHANGED <<fate, refused, ledger>> /\ Grows
    BY <1>1, <1>3 DEF Grows, Sent
  <2> QED
    BY <2>1, <2>2
<1>4. CASE Store(req[p].out)
  <2>1. records' = records \cup Named(req[p].out)
    BY <1>4 DEF Store, Named
  <2> QED
    BY <1>1, <1>2, <1>4, <2>1, Committed
<1> QED
  BY <1>1, <1>3, <1>4

LEMMA ContractStep ==
  ASSUME Inv, Inv', [Next]_vars
  PROVE  [Contract!Next]_(Contract!vars)
<1> DEFINE Wal == {t \in Turns : fate[t] = "logged"}
           New == Contract!Next
<1>1. fate \in [Turns -> Fates] /\ records \subseteq Turns /\ Answers \subseteq Turns
  BY DEF Inv, TableTypes, Answers
<1>2. CASE UNCHANGED <<fate, refused, records, ledger>>
  <2>1. UNCHANGED <<Wal, Sent, records, Answers>>
    BY <1>2 DEF Sent, Answers, Accounted, Present
  <2> QED
    BY <2>1 DEF Contract!vars, Sent, Answers
<1>3. ASSUME NEW t \in Turns, Issue(t) PROVE [New]_(Contract!vars)
  <2>1. /\ fate[t] = "new" /\ UNCHANGED <<refused, records, ledger>>
    BY <1>3 DEF Issue, tables
  <2>2. PICK f \in {"logged", "lost"} : fate' = [fate EXCEPT ![t] = f]
    BY <1>3 DEF Issue
  <2>3. UNCHANGED <<records, Answers>>
    BY <2>1 DEF Answers, Accounted, Present
  <2>4. CASE f = "logged"
    <3>1. Wal' = Wal \cup {t} /\ Sent' = Sent \cup {t} /\ t \notin Sent
      BY <1>1, <2>1, <2>2, <2>4 DEF Sent
    <3>2. Contract!Log(t)
      BY <2>3, <3>1 DEF Contract!Log, Sent, Answers
    <3> QED
      BY <3>2 DEF Contract!Next
  <2>5. CASE f = "lost"
    <3>1. Wal' = Wal /\ Sent' = Sent
      BY <1>1, <2>1, <2>2, <2>5 DEF Sent
    <3> QED
      BY <2>3, <3>1 DEF Contract!vars, Sent, Answers
  <2> QED
    BY <2>4, <2>5
<1>4. ASSUME NEW p \in Procs, Commit(p) \/ TxFails(p) \/ InsertRecord(p) PROVE New
  <2>1. UNCHANGED <<fate, refused, ledger>> /\ Grows
    BY <1>4, BatchStores
  <2>2. PICK S \in SUBSET Sent : records' = records \cup S
    BY <1>4, BatchStores
  <2>3. UNCHANGED <<Wal, Sent>> /\ Answers' = Answers \cup Answers'
    BY <2>1, AnswersGrow DEF Sent
  <2>4. S \subseteq Answers' /\ Answers' \in SUBSET Turns
    <3>1. ASSUME NEW t \in S PROVE t \in Answers'
      <4>1. t \in Turns /\ t \in records' /\ OrgOf[t] \in Orgs
        BY <2>2, Numbers DEF Sent
      <4>2. SeqOf[t] \in Present(OrgOf[t])'
        BY <4>1 DEF Present, SeqsIn
      <4> QED
        BY <4>1, <4>2 DEF Answers, Accounted
    <3> QED
      BY <3>1 DEF Answers
  <2>5. Contract!Store(S)
    BY <2>2, <2>3, <2>4 DEF Contract!Store, Sent, Answers
  <2>6. S \in SUBSET Turns
    BY DEF Sent
  <2> QED
    BY <2>5, <2>6 DEF Contract!Next
<1>5. ASSUME NEW p \in Procs, RecordLoss(p) PROVE New
  <2>1. UNCHANGED <<fate, refused, records>> /\ ledger \subseteq ledger'
    BY <1>5 DEF RecordLoss
  <2>2. Grows
    BY <2>1 DEF Grows, Sent
  <2>3. UNCHANGED <<Wal, Sent>> /\ Answers' = Answers \cup Answers' /\ Answers' \in SUBSET Turns
    BY <2>1, <2>2, AnswersGrow DEF Sent, Answers
  <2>4. PICK A \in SUBSET Turns : A = Answers'
    BY <2>3
  <2>5. Contract!WriteOff(A)
    BY <2>1, <2>3, <2>4 DEF Contract!WriteOff, Sent, Answers
  <2> QED
    BY <2>5 DEF Contract!Next
<1>6. ASSUME NEW p \in Procs, Reply(p) PROVE New
  <2>1. PICK S \in SUBSET Turns : S = {t \in Turns : fate[t] = "logged" /\ fate'[t] # "logged"}
    OBVIOUS
  <2>2. UNCHANGED <<refused, records, ledger>> /\ req[p].pc = "reply"
    BY <1>6 DEF Reply, tables
  <2>3. /\ fate' \in [Turns -> Fates]
        /\ \A t \in Turns :
             \/ fate'[t] = fate[t]
             \/ /\ fate[t] \in {"logged", "acked"} /\ fate'[t] \in {"acked", "pruned"}
                /\ t \in Answers
    <3>1. CASE fate' = fate
      BY <1>1, <3>1
    <3>2. CASE req[p].ok /\ fate' = Answered(req[p])
      <4>1. \A t \in Dealt \cap Turns : t \in Answers
        <5> SUFFICES ASSUME NEW t \in Turns, t \in records PROVE Accounted(SeqOf[t])
          BY DEF Dealt, Answers
        <5>1. SeqOf[t] \in Present(OrgOf[t]) /\ OrgOf[t] \in Orgs
          BY Numbers DEF Present, SeqsIn
        <5> QED
          BY <5>1 DEF Accounted
      <4> QED
        BY <2>2, <3>2, <4>1, AnsweredFacts DEF Answers
    <3> QED
      BY <1>6, <3>1, <3>2 DEF Reply
  <2>4. Wal' = Wal \ S /\ Sent' = Sent /\ S \subseteq Answers
    BY <1>1, <2>1, <2>3 DEF Sent
  <2>5. UNCHANGED <<records, Answers>>
    BY <2>2 DEF Answers, Accounted, Present
  <2>6. Contract!Forget(S)
    BY <2>4, <2>5 DEF Contract!Forget, Sent, Answers
  <2> QED
    BY <2>6 DEF Contract!Next
<1> QED
  BY <1>2, <1>3, <1>4, <1>5, <1>6, ContractFrame

\* The conversation channel implements the contract: a turn leaves the WAL only
\* when it, or a turn with its number, is stored, refused for good or written
\* off, although the cursor and the prune both let go of turns.
THEOREM ConversationContract == Spec => ImplementsContract
<1>1. Inv /\ Inv' /\ [Next]_vars => [Contract!Next]_(Contract!vars)
  BY ContractStep
<1> QED
  BY <1>1, ContractInit, Invariance, PTL
  DEF Spec, ImplementsContract, Contract!Spec

\* What the contract is for: a turn the proxy logged is still in its WAL, or is
\* stored, refused for good or answered for by its number, and nothing is stored
\* that was not logged.
THEOREM NoTurnLost == Spec => []Contract!NothingLost
<1>1. Contract!Init => Contract!NothingLost
  BY DEF Contract!Init, Contract!NothingLost
<1>2. Contract!NothingLost /\ [Contract!Next]_(Contract!vars) => Contract!NothingLost'
  <2> SUFFICES ASSUME Contract!NothingLost, [Contract!Next]_(Contract!vars)
               PROVE  Contract!NothingLost'
    OBVIOUS
  <2>1. ASSUME NEW e \in Turns, Contract!Log(e) PROVE Contract!NothingLost'
    BY <2>1 DEF Contract!NothingLost, Contract!Log
  <2>2. ASSUME NEW S \in SUBSET Turns, Contract!Store(S) PROVE Contract!NothingLost'
    BY <2>2 DEF Contract!NothingLost, Contract!Store
  <2>3. ASSUME NEW S \in SUBSET Turns, Contract!WriteOff(S) PROVE Contract!NothingLost'
    BY <2>3 DEF Contract!NothingLost, Contract!WriteOff
  <2>4. ASSUME NEW S \in SUBSET Turns, Contract!Forget(S) PROVE Contract!NothingLost'
    BY <2>4 DEF Contract!NothingLost, Contract!Forget
  <2>5. CASE UNCHANGED Contract!vars
    BY <2>5 DEF Contract!NothingLost, Contract!vars
  <2> QED
    BY <2>1, <2>2, <2>3, <2>4, <2>5 DEF Contract!Next
<1> QED
  BY <1>1, <1>2, ConversationContract, PTL DEF ImplementsContract, Contract!Spec

=============================================================================
