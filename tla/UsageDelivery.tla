--------------------------- MODULE UsageDelivery ---------------------------
(***************************************************************************)
(* Delivery integrity of usage events between one proxy (one source_id)    *)
(* and the collector: the ODS, the known-loss ledger and the per-(org,     *)
(* source) watermark rows, and every handler that reads or writes them:    *)
(* POST usage-events:batch, GET diagnostics/gaps, POST confirm-lost, POST  *)
(* stream-switch, and the gap scan that promotes stale gaps to known loss. *)
(*                                                                         *)
(* Every handler runs on its own goroutine over a connection pool, with no *)
(* transaction around its statements except the batch insert, so a handler *)
(* is a process and one SQL statement is one step.  Different sources      *)
(* never share a row of a query, so one source is modelled, with the       *)
(* several orgs its events may be attributed to.                           *)
(***************************************************************************)
EXTENDS Integers, FiniteSets

CONSTANTS
  Orgs,        \* orgs the source's events are attributed to
  NoOrg,       \* filler for a process that works on no watermark row
  Procs,       \* goroutines of the collector that may touch the tables
  MaxSeq,      \* bound: the source hands out sequence numbers 1..MaxSeq
  OrgOf,       \* the org of the event each sequence number is given to
  Poison,      \* events the collector can never store (validation, F2)
  ScanLimit,   \* advanceWatermarkScanLimit
  Ops,         \* operations of this configuration
  Faults,      \* faults of this configuration
  TrustClient  \* the proxy confirms only what a gaps answer named

Seqs == 1..MaxSeq
Marks == 0..MaxSeq

OpNames == {"batch", "gaps", "confirm", "switch", "promote"}

ASSUME OrgsAssumption == NoOrg \notin Orgs
ASSUME SeqAssumption ==
  MaxSeq \in Nat /\ OrgOf \in [Seqs -> Orgs] /\ Poison \subseteq Seqs
ASSUME LimitAssumption == ScanLimit \in Nat \ {0}
ASSUME ConfigAssumption ==
  /\ Ops \subseteq OpNames
  /\ Faults \subseteq {"tx", "event", "statement", "reply", "restart"}
  /\ TrustClient \in BOOLEAN

VARIABLES
  fate,        \* proxy: what became of each sequence number
  alloc,       \* proxy: allocator high-water
  undeclared,  \* proxy: orgs whose row has yet to acknowledge the stream floor
  gaps,        \* proxy: last gaps answer for each org
  ods,         \* usage_event_ods: source_seq values stored
  ledger,      \* usage_known_loss_ledger: <<org, seq>>
  row,         \* usage_source_watermark, one row per org
  req,         \* what each process is doing
  raced        \* history: the races that were lost, and by whom

client == <<fate, alloc, undeclared, gaps>>
tables == <<ods, ledger, row>>
vars == <<fate, alloc, undeclared, gaps, ods, ledger, row, req, raced>>

Fates == {"free", "logged", "pruned", "lost", "terminated"}
Ages == {"absent", "null", "fresh", "stale"}
Watermark == [contiguous : Marks, maxSeen : Marks, allocated : Marks,
              floor : Marks, age : Ages]
Finding == [org : Orgs, lo : Marks, hi : Marks]
PCs == {"idle", "tx", "event", "advance", "zip", "seen", "write", "reply",
        "scan", "record", "ceiling", "present", "gapEnum",
        "floorUpdate", "floorSeed", "floorRead"}
Request == [pc : PCs, op : {"none"} \cup OpNames, org : Orgs \cup {NoOrg},
            orgs : SUBSET Orgs, seqs : SUBSET Seqs, finds : SUBSET Finding,
            contiguous : Marks, maxSeen : Marks, allocated : Marks,
            reply : Marks, ok : BOOLEAN]

\* What may be raced: an org's declaration, between its UPDATE and its INSERT, by
\* the INSERT of another handler; its contiguous_seq, by an advance that read it
\* earlier; a number about to be ledgered, by its event.  And a number that was
\* never an event's may be claimed lost though no gaps answer named it.
Races == ({"overrun", "lowered"} \X Orgs) \cup ({"overtaken", "claimed"} \X Seqs)

NoRow == [contiguous |-> 0, maxSeen |-> 0, allocated |-> 0, floor |-> 0,
          age |-> "absent"]
Idle == [pc |-> "idle", op |-> "none", org |-> NoOrg, orgs |-> {},
         seqs |-> {}, finds |-> {}, contiguous |-> 0, maxSeen |-> 0,
         allocated |-> 0, reply |-> 0, ok |-> TRUE]

TypeOK ==
  /\ fate \in [Seqs -> Fates]
  /\ alloc \in Marks
  /\ undeclared \subseteq Orgs
  /\ gaps \in [Orgs -> SUBSET Seqs]
  /\ ods \subseteq Seqs
  /\ ledger \subseteq Orgs \X Seqs
  /\ row \in [Orgs -> Watermark]
  /\ req \in [Procs -> Request]
  /\ raced \subseteq Races

Init ==
  /\ fate = [s \in Seqs |-> "free"]
  /\ alloc = 0
  /\ undeclared = {}
  /\ gaps = [o \in Orgs |-> {}]
  /\ ods = {}
  /\ ledger = {}
  /\ row = [o \in Orgs |-> NoRow]
  /\ req = [p \in Procs |-> Idle]
  /\ raced = {}

----------------------------------------------------------------------------
(* What the statements read.                                               *)

Wal == {s \in Seqs : fate[s] = "logged"}

Greatest(a, b) == IF a > b THEN a ELSE b

\* presentSeqSet: received in ODS or ledgered, across every org of the source.
Present == ods \cup {s \in Seqs : \E o \in Orgs : <<o, s>> \in ledger}

\* The scan window of a call that starts at lo.
Window(lo, hi) == {s \in Seqs : lo < s /\ s <= hi /\ s <= lo + ScanLimit}

\* Seeded fault: the walk ends one step too far.
ZippedOneOff(c, d) ==
  \E e \in c..MaxSeq :
    /\ \A s \in Window(c, e) : s \in Present
    /\ e + 1 \notin Present
    /\ d = Greatest(c, e + 1)

\* The zipper: d is where the walk from c stops.
Zipped(c, d) ==
  /\ \A s \in Window(c, d) : s \in Present
  /\ d <= c + ScanLimit
  /\ d < c + ScanLimit => d + 1 \notin Present

\* SELECT COALESCE(MAX(source_seq), 0)
HighestSeen(m) == m \in ods \cup {0} /\ \A s \in ods : s <= m

Ceiling(w) == Greatest(w.maxSeen, w.allocated)

\* Seeded fault: a tail gap is not promoted.
PromotableMiddle(w) == w.contiguous < w.maxSeen /\ w.age = "stale"

Promotable(w) == w.contiguous < Ceiling(w) /\ w.age = "stale"

----------------------------------------------------------------------------
(* The proxy.  Its code is not in this repository: these actions are what  *)
(* the collector's handlers and comments rely on.                          *)

\* The proxy hands the next sequence number to an event and appends it to its
\* WAL, or dies after the reservation and before the append.
Issue ==
  /\ alloc < MaxSeq
  /\ undeclared = {}
  /\ alloc' = alloc + 1
  /\ \E f \in {"logged", "lost"} : fate' = [fate EXCEPT ![alloc + 1] = f]
  /\ UNCHANGED <<undeclared, gaps, tables, req, raced>>

\* The numbering restarts above a declared floor: the span up to it is never
\* issued.  The proxy switches with an empty WAL and issues nothing until the
\* row of every org has acknowledged the floor.
SwitchStream ==
  /\ "switch" \in Ops
  /\ undeclared = {} /\ Wal = {}
  /\ \E f \in Seqs :
       /\ alloc < f
       /\ alloc' = f
       /\ fate' = [s \in Seqs |-> IF alloc < s /\ s <= f THEN "terminated"
                                  ELSE fate[s]]
  /\ undeclared' = Orgs
  /\ UNCHANGED <<gaps, tables, req, raced>>

\* A batch of events from the WAL, new or sent before.  It carries the
\* allocator high-water, or nothing (0) from an older proxy.
SendBatch(p) ==
  /\ "batch" \in Ops
  /\ req[p].pc = "idle"
  /\ \E S \in (SUBSET Wal) \ {{}}, a \in {0, alloc} :
       req' = [req EXCEPT ![p] = [Idle EXCEPT !.pc = "tx", !.op = "batch",
                                              !.seqs = S, !.allocated = a]]
  /\ UNCHANGED <<client, tables, raced>>

\* A declaration of the floor; sent again until a reply acknowledges it.
DeclareFloor(p) ==
  /\ req[p].pc = "idle"
  /\ \E o \in undeclared :
       req' = [req EXCEPT ![p] = [Idle EXCEPT !.pc = "floorUpdate",
                                              !.op = "switch", !.org = o,
                                              !.contiguous = alloc]]
  /\ UNCHANGED <<client, tables, raced>>

\* The proxy declares unrecoverable what its WAL does not hold of the gaps
\* answer; one that is not trusted declares anything.
SendConfirmLost(p) ==
  /\ "confirm" \in Ops
  /\ req[p].pc = "idle"
  /\ \E o \in Orgs :
       /\ TrustClient => gaps[o] # {}
       /\ \E S \in IF TrustClient THEN {gaps[o] \ Wal} ELSE SUBSET Seqs :
            req' = [req EXCEPT ![p] =
                      IF S = {}
                      THEN [Idle EXCEPT !.pc = "advance", !.op = "confirm",
                                        !.orgs = {o}]
                      ELSE [Idle EXCEPT !.pc = "ceiling", !.op = "confirm",
                                        !.org = o, !.orgs = {o}, !.seqs = S]]
       /\ raced' = raced \cup {<<"claimed", s>> : s \in
            {x \in req'[p].seqs \ gaps[o] : fate[x] \in {"free", "terminated"}}}
       /\ gaps' = [gaps EXCEPT ![o] = {}]
  /\ UNCHANGED <<fate, alloc, undeclared, tables>>

----------------------------------------------------------------------------
(* What a process does next once a watermark row is done with.             *)

Continue(r) ==
  IF r.orgs # {} THEN [r EXCEPT !.pc = "advance", !.org = NoOrg, !.seqs = {},
                                !.contiguous = 0, !.maxSeen = 0]
  ELSE IF r.op = "batch" THEN [Idle EXCEPT !.pc = "reply", !.op = "batch",
                                           !.reply = r.reply, !.ok = r.ok]
  ELSE IF r.finds # {} THEN [Idle EXCEPT !.pc = "scan", !.op = "promote",
                                         !.finds = r.finds]
  ELSE Idle

\* The row is finished with, whether its statements succeeded or not.
Leave(r) == Continue([r EXCEPT !.orgs = @ \ {r.org}])

----------------------------------------------------------------------------
(* IngestBatch: one transaction, else a replay event by event.             *)

OrgsOf(S) == {OrgOf[s] : s \in S}

\* Numbers stored now that a handler found absent and is about to ledger.
Overtaken ==
  {s \in ods' \ ods : \E q \in Procs : req[q].pc = "record" /\ s \in req[q].seqs}

NoteOvertaken == raced' = raced \cup {<<"overtaken", s>> : s \in Overtaken}

\* The whole batch commits; terminally rejected events touch no row.
BatchTxCommit(p) ==
  /\ req[p].pc = "tx"
  /\ LET stored == req[p].seqs \ Poison IN
       /\ ods' = ods \cup stored
       /\ req' = [req EXCEPT ![p] = Continue([@ EXCEPT !.orgs = OrgsOf(stored)])]
  /\ NoteOvertaken
  /\ UNCHANGED <<client, ledger, row>>

\* Begin, a statement or the commit fails.  A commit that reported an error
\* may still have taken effect.
BatchTxFails(p) ==
  /\ "tx" \in Faults
  /\ req[p].pc = "tx"
  /\ ods' \in {ods, ods \cup (req[p].seqs \ Poison)}
  /\ req' = [req EXCEPT ![p].pc = "event"]
  /\ NoteOvertaken
  /\ UNCHANGED <<client, ledger, row>>

\* One event on the autocommit path: stored (or found to be a duplicate),
\* rejected for good, or failed on a transient storage error.
ReplayEvent(p) ==
  /\ req[p].pc = "event"
  /\ \E s \in req[p].seqs :
       /\ \A t \in req[p].seqs : s <= t
       /\ LET rest == [req[p] EXCEPT !.seqs = @ \ {s}]
              Then(r) == IF r.seqs = {} THEN Continue(r) ELSE r
          IN \/ /\ s \notin Poison
                /\ ods' = ods \cup {s}
                /\ req' = [req EXCEPT ![p] =
                             Then([rest EXCEPT !.orgs = @ \cup {OrgOf[s]}])]
             \/ /\ s \in Poison
                /\ req' = [req EXCEPT ![p] = Then(rest)]
                /\ UNCHANGED ods
             \/ /\ "event" \in Faults
                /\ req' = [req EXCEPT ![p] = Then([rest EXCEPT !.ok = FALSE])]
                /\ UNCHANGED ods
  /\ NoteOvertaken
  /\ UNCHANGED <<client, ledger, row>>

\* The answer: 200 with the contiguous high-water, on which the proxy prunes
\* its WAL, or 503 with none.  It may be lost, or read after others.
BatchReply(p) ==
  /\ req[p].pc = "reply"
  /\ \/ fate' = [s \in Seqs |->
                   IF fate[s] = "logged" /\ req[p].ok /\ s <= req[p].reply
                   THEN "pruned" ELSE fate[s]]
     \/ "reply" \in Faults /\ UNCHANGED fate
  /\ req' = [req EXCEPT ![p] = Idle]
  /\ UNCHANGED <<alloc, undeclared, gaps, tables, raced>>

----------------------------------------------------------------------------
(* AdvanceWatermark, statement by statement.                               *)

AdvanceRead(p) ==
  /\ req[p].pc = "advance"
  /\ \E o \in req[p].orgs :
       req' = [req EXCEPT ![p].pc = "zip", ![p].org = o,
                          ![p].contiguous = row[o].contiguous]
  /\ UNCHANGED <<client, tables, raced>>

AdvanceZip(p) ==
  /\ req[p].pc = "zip"
  /\ \E d \in req[p].contiguous..MaxSeq :
       /\ Zipped(req[p].contiguous, d)
       /\ req' = [req EXCEPT ![p].pc = "seen", ![p].contiguous = d]
  /\ UNCHANGED <<client, tables, raced>>

AdvanceMaxSeen(p) ==
  /\ req[p].pc = "seen"
  /\ \E m \in Marks :
       /\ HighestSeen(m)
       /\ req' = [req EXCEPT ![p].pc = "write", ![p].maxSeen = m]
  /\ UNCHANGED <<client, tables, raced>>

\* The upsert: contiguous_seq is set, the other two marks only raised.
Upserted(w, r) ==
  [contiguous |-> r.contiguous,
   maxSeen    |-> Greatest(w.maxSeen, r.maxSeen),
   allocated  |-> Greatest(w.allocated, r.allocated),
   floor      |-> w.floor,
   age        |-> "fresh"]

NoteLowered(p) ==
  raced' = raced \cup {<<"lowered", o>> : o \in {x \in {req[p].org} :
                                                  req[p].contiguous < row[x].contiguous}}

\* Seeded fault: the answer carries max_seen_seq.
AdvanceWriteSeen(p) ==
  /\ req[p].pc = "write"
  /\ row' = [row EXCEPT ![req[p].org] = Upserted(@, req[p])]
  /\ req' = [req EXCEPT ![p] = Leave([@ EXCEPT !.reply = req[p].maxSeen])]
  /\ NoteLowered(p)
  /\ UNCHANGED <<client, ods, ledger>>

AdvanceWrite(p) ==
  /\ req[p].pc = "write"
  /\ row' = [row EXCEPT ![req[p].org] = Upserted(@, req[p])]
  /\ req' = [req EXCEPT ![p] = Leave([@ EXCEPT !.reply = req[p].contiguous])]
  /\ NoteLowered(p)
  /\ UNCHANGED <<client, ods, ledger>>

----------------------------------------------------------------------------
(* The gap scan and its promotions, RecordKnownLoss.                       *)

Missing(lo, hi) == Window(lo, hi) \ Present

\* detectGaps on the ticker, or ScanNow for a reconcile request.
Scan(p) ==
  /\ "promote" \in Ops
  /\ req[p].pc = "idle"
  /\ LET stale == {o \in Orgs : Promotable(row[o])} IN
       /\ stale # {}
       /\ req' = [req EXCEPT ![p] =
                    [Idle EXCEPT !.pc = "scan", !.op = "promote",
                                 !.finds = {[org |-> o,
                                             lo |-> row[o].contiguous,
                                             hi |-> Ceiling(row[o])] : o \in stale}]]
  /\ UNCHANGED <<client, tables, raced>>

\* promoteKnownLoss: the range is the one the scan saw.
Enumerate(p) ==
  /\ req[p].pc = "scan"
  /\ \E f \in req[p].finds :
       LET missing == Missing(f.lo, f.hi)
           rest == [req[p] EXCEPT !.finds = @ \ {f}]
       IN req' = [req EXCEPT ![p] =
                    IF missing = {} THEN Continue(rest)
                    ELSE [rest EXCEPT !.pc = "record", !.org = f.org,
                                      !.orgs = {f.org}, !.seqs = missing]]
  /\ UNCHANGED <<client, tables, raced>>

\* One INSERT OR IGNORE per sequence number, then AdvanceWatermark.
RecordLoss(p) ==
  /\ req[p].pc = "record"
  /\ \E s \in req[p].seqs :
       /\ \A t \in req[p].seqs : s <= t
       /\ ledger' = ledger \cup {<<req[p].org, s>>}
       /\ req' = [req EXCEPT ![p] = IF req[p].seqs = {s} THEN Continue(@)
                                    ELSE [@ EXCEPT !.seqs = req[p].seqs \ {s}]]
  /\ UNCHANGED <<client, ods, row, raced>>

----------------------------------------------------------------------------
(* GapSeqs and ConfirmLost.                                                *)

GapsRow(p) ==
  /\ "gaps" \in Ops
  /\ req[p].pc = "idle"
  /\ \E o \in Orgs :
       /\ row[o].age # "absent"
       /\ req' = [req EXCEPT ![p] =
                    [Idle EXCEPT !.pc = "gapEnum", !.op = "gaps", !.org = o,
                                 !.contiguous = row[o].contiguous,
                                 !.maxSeen = Ceiling(row[o])]]
  /\ UNCHANGED <<client, tables, raced>>

GapsEnumerate(p) ==
  /\ req[p].pc = "gapEnum"
  /\ gaps' = [gaps EXCEPT ![req[p].org] =
                Missing(req[p].contiguous, req[p].maxSeen)]
  /\ req' = [req EXCEPT ![p] = Idle]
  /\ UNCHANGED <<fate, alloc, undeclared, tables, raced>>

ConfirmCeiling(p) ==
  /\ req[p].pc = "ceiling"
  /\ req' = [req EXCEPT ![p].pc = "present",
                        ![p].maxSeen = Ceiling(row[req[p].org])]
  /\ UNCHANGED <<client, tables, raced>>

\* Seeded fault: what is present is not looked at.
AbsentUnchecked(r) == {s \in r.seqs : s <= r.maxSeen}

\* Seeded fault: a confirmed number is taken at its word.
AbsentUnbounded(r) == r.seqs \ Present

\* Only what is absent and within what the proxy allocated is ledgered.
Absent(r) == {s \in r.seqs : s <= r.maxSeen /\ s \notin Present}

ConfirmPresent(p) ==
  /\ req[p].pc = "present"
  /\ req' = [req EXCEPT ![p] =
               IF Absent(@) = {} THEN Continue(@)
               ELSE [@ EXCEPT !.pc = "record", !.seqs = Absent(req[p]),
                              !.maxSeen = 0]]
  /\ UNCHANGED <<client, tables, raced>>

----------------------------------------------------------------------------
(* ApplyStreamFloor.                                                       *)

Floored(w, f) == [w EXCEPT !.floor = f,
                           !.contiguous = IF @ < f THEN f ELSE @]

\* Seeded fault: the guard of the UPDATE is dropped.
FloorUpdateUnguarded(p) ==
  /\ req[p].pc = "floorUpdate"
  /\ LET o == req[p].org
         matches == row[o].age # "absent"
     IN /\ row' = IF matches THEN [row EXCEPT ![o] = Floored(@, req[p].contiguous)]
                  ELSE row
        /\ req' = [req EXCEPT ![p].pc = IF matches THEN "floorRead"
                                        ELSE "floorSeed"]
  /\ UNCHANGED <<client, ods, ledger, raced>>

\* UPDATE ... WHERE stream_floor_seq < floor.
FloorUpdate(p) ==
  /\ req[p].pc = "floorUpdate"
  /\ LET o == req[p].org
         f == req[p].contiguous
         matches == row[o].age # "absent" /\ row[o].floor < f
     IN /\ row' = IF matches THEN [row EXCEPT ![o] = Floored(@, f)] ELSE row
        /\ req' = [req EXCEPT ![p].pc = IF matches THEN "floorRead"
                                        ELSE "floorSeed"]
  /\ UNCHANGED <<client, ods, ledger, raced>>

NoteOverrun(p) ==
  raced' = raced \cup {<<"overrun", o>> : o \in {x \in {req[p].org} :
                         row[x].age # "absent" /\ row[x].floor < req[p].contiguous}}

\* Seeded faults: the missing row is not inserted, or inserted at zero.
FloorSeedSkipped(p) ==
  /\ req[p].pc = "floorSeed"
  /\ req' = [req EXCEPT ![p].pc = "floorRead"]
  /\ NoteOverrun(p)
  /\ UNCHANGED <<client, tables>>

FloorSeedAtZero(p) ==
  /\ req[p].pc = "floorSeed"
  /\ LET o == req[p].org IN
       row' = IF row[o].age # "absent" THEN row
              ELSE [row EXCEPT ![o].age = "null",
                               ![o].floor = req[p].contiguous]
  /\ req' = [req EXCEPT ![p].pc = "floorRead"]
  /\ NoteOverrun(p)
  /\ UNCHANGED <<client, ods, ledger>>

\* INSERT OR IGNORE of the row of a lane that has delivered nothing.
FloorSeed(p) ==
  /\ req[p].pc = "floorSeed"
  /\ LET o == req[p].org IN
       row' = IF row[o].age # "absent" THEN row
              ELSE [row EXCEPT ![o] =
                      [Floored(NoRow, req[p].contiguous) EXCEPT !.age = "null"]]
  /\ req' = [req EXCEPT ![p].pc = "floorRead"]
  /\ NoteOverrun(p)
  /\ UNCHANGED <<client, ods, ledger>>

\* The answer acknowledges the declaration the proxy is waiting for.
FloorRead(p) ==
  /\ req[p].pc = "floorRead"
  /\ \/ /\ req[p].contiguous = alloc
        /\ undeclared' = undeclared \ {req[p].org}
     \/ /\ req[p].contiguous # alloc \/ "reply" \in Faults
        /\ UNCHANGED undeclared
  /\ req' = [req EXCEPT ![p] = Idle]
  /\ UNCHANGED <<fate, alloc, gaps, tables, raced>>

----------------------------------------------------------------------------
(* Time and faults.                                                        *)

\* updated_at of the row passes KnownLossTimeout.
Age(o) ==
  /\ "promote" \in Ops
  /\ row[o].age = "fresh"
  /\ row' = [row EXCEPT ![o].age = "stale"]
  /\ UNCHANGED <<client, ods, ledger, req, raced>>

\* A statement fails: the handler logs it and goes on with the next row or
\* finding, or answers 500.  (A failed first statement of a row leaves the
\* same state as a failed second one.)
StatementFails(p) ==
  /\ "statement" \in Faults
  /\ req[p].pc \in {"zip", "seen", "write", "record", "ceiling", "present",
                   "gapEnum", "floorUpdate", "floorSeed", "floorRead"}
  /\ req' = [req EXCEPT ![p] = Leave(@)]
  /\ UNCHANGED <<client, tables, raced>>

\* The collector stops and starts again: every request in flight is gone.
Restart ==
  /\ "restart" \in Faults
  /\ \E p \in Procs : req[p] # Idle
  /\ req' = [p \in Procs |-> Idle]
  /\ UNCHANGED <<client, tables, raced>>

----------------------------------------------------------------------------
(* Specification.                                                          *)

Proxy(p) == SendBatch(p) \/ DeclareFloor(p) \/ SendConfirmLost(p)

\* The steps of a request once it has been received.
Handle(p) ==
  \/ BatchTxCommit(p) \/ BatchTxFails(p) \/ ReplayEvent(p) \/ BatchReply(p)
  \/ AdvanceRead(p) \/ AdvanceZip(p) \/ AdvanceMaxSeen(p) \/ AdvanceWrite(p)
  \/ Enumerate(p) \/ RecordLoss(p)
  \/ GapsEnumerate(p) \/ ConfirmCeiling(p) \/ ConfirmPresent(p)
  \/ FloorUpdate(p) \/ FloorSeed(p) \/ FloorRead(p)
  \/ StatementFails(p)

Next ==
  \/ Issue \/ SwitchStream \/ Restart
  \/ \E o \in Orgs : Age(o)
  \/ \E p \in Procs : Proxy(p) \/ Scan(p) \/ GapsRow(p) \/ Handle(p)

Spec == Init /\ [][Next]_vars

\* A request that was received is carried through; a row with no traffic goes
\* stale; the ticker finds a row that is stale time and again.
Fairness ==
  /\ \A p \in Procs : WF_vars(Handle(p)) /\ SF_vars(Scan(p))
  /\ \A o \in Orgs : WF_vars(Age(o))

FairSpec == Spec /\ Fairness

----------------------------------------------------------------------------
(* Properties.                                                             *)

\* The proxy never prunes from its WAL an event the collector has neither
\* stored nor recorded as a known loss, whatever answers were lost, delayed or
\* computed by handlers that raced (AdvanceWatermark's "may safely prune").
PruneSafe == \A s \in Seqs : fate[s] = "pruned" => s \in Present

\* contiguous_seq of a row never passes a hole: each sequence number up to it
\* is stored, ledgered, or terminated by the row's own stream floor.
ContiguousAccounted ==
  \A o \in Orgs, s \in Seqs :
    s <= row[o].contiguous => s \in Present \/ s <= row[o].floor

\* No sequence number above what the row knows to be allocated or received
\* enters the ledger, even when the proxy confirms arbitrary ones.
LedgerBounded == \A l \in ledger : l[2] <= Ceiling(row[l[1]])

\* The inductive invariant behind PruneSafe and ContiguousAccounted: every
\* sequence number that a row, a handler between two statements, or an answer
\* on its way back counts as contiguous is accounted for; a floor, also one
\* still being declared, only covers numbers that are settled at the proxy; and
\* a batch carries only events the proxy logged.
Settled == {"pruned", "lost", "terminated"}

Accounted(s, o) == s \in Present \/ s <= row[o].floor

Working == {"zip", "seen", "write", "record", "ceiling", "present", "gapEnum",
            "floorUpdate", "floorSeed", "floorRead"}

NumbersInOrder == \A s \in Seqs : fate[s] = "free" <=> alloc < s

StreamSettled ==
  undeclared # {} => \A s \in Seqs : s <= alloc => fate[s] \in Settled

FloorsSettled ==
  \A o \in Orgs, s \in Seqs : s <= row[o].floor => fate[s] \in Settled

AbsentRowEmpty == \A o \in Orgs : row[o].age = "absent" => row[o] = NoRow

OrgKnown == \A p \in Procs : req[p].pc \in Working => req[p].org \in Orgs

DeclarationsSettled ==
  \A p \in Procs : req[p].pc \in {"floorUpdate", "floorSeed"} =>
    \A s \in Seqs : s <= req[p].contiguous => fate[s] \in Settled

ReadsAccounted ==
  \A p \in Procs : req[p].pc \in {"zip", "seen", "write"} =>
    \A s \in Seqs : s <= req[p].contiguous => Accounted(s, req[p].org)

RepliesAccounted ==
  \A p \in Procs, s \in Seqs :
    s <= req[p].reply => \E o \in Orgs : Accounted(s, o)

BatchesLogged ==
  \A p \in Procs : req[p].pc \in {"tx", "event"} =>
    \A s \in req[p].seqs : fate[s] \in {"logged", "pruned"}

Inductive ==
  /\ NumbersInOrder /\ StreamSettled /\ FloorsSettled /\ AbsentRowEmpty
  /\ OrgKnown /\ DeclarationsSettled /\ ReadsAccounted /\ RepliesAccounted
  /\ BatchesLogged

\* A late or stale batch never lowers max_seen, client_allocated or the floor.
HighWatersMonotone ==
  [][\A o \in Orgs : /\ row[o].maxSeen <= row'[o].maxSeen
                     /\ row[o].allocated <= row'[o].allocated
                     /\ row[o].floor <= row'[o].floor]_row

\* Once the proxy has its acknowledgements and numbers on, every row holds the
\* floor above the span that was terminated (repository_sql.go:437), however often
\* the floor was declared, unless a row came in between the UPDATE and the INSERT of
\* a declaration.
FloorRecorded ==
  undeclared = {} =>
    \A o \in Orgs, s \in Seqs :
      fate[s] = "terminated" /\ <<"overrun", o>> \notin raced => s <= row[o].floor

\* A sequence number that is in the ODS is never marked lost (repository.go's
\* ConfirmLost, promoteKnownLoss), unless its event was stored after the handler
\* that marks it had found it absent.
LossIsGenuine ==
  [][\A l \in ledger' \ ledger : l[2] \in ods => <<"overtaken", l[2]>> \in raced]_ledger

\* A terminated sequence number, never given to an event, is not filed as a loss,
\* unless the proxy claimed it unasked, or a race took the floor or the mark of the
\* row away under it.
TerminatedNotLost ==
  \A l \in ledger :
    fate[l[2]] = "terminated" =>
      raced \cap {<<"overrun", l[1]>>, <<"lowered", l[1]>>, <<"claimed", l[2]>>} # {}

\* The source has gone silent: no batch is sent or being handled.
Quiet == \A p \in Procs : req[p].op # "batch"

Known(s) == \E o \in Orgs : s <= Ceiling(row[o])

Settling(s) == s \in Present \/ \E o \in Orgs : s <= row[o].floor

\* The row is a window or more behind, and all of the window is there: a scan
\* finds nothing missing and leaves without advancing the row (worker.go:335).
Stalled(o) ==
  /\ row[o].contiguous + ScanLimit < Ceiling(row[o])
  /\ Missing(row[o].contiguous, Ceiling(row[o])) = {}

\* Once the source is silent, the scans account for every sequence number a row
\* knows of, window after window (worker.go:318), unless a row that knows of it
\* stalls.
QuietKnownAccounted ==
  <>[]Quiet =>
    \A s \in Seqs :
      Known(s) ~> (Settling(s) \/ \E o \in Orgs : s <= Ceiling(row[o]) /\ Stalled(o))

\* The proxy's log, the ODS and the ledger keep the contract of DeliveryContract
\* through every lost answer, replayed batch, raced watermark and restart: the
\* collector stores only what was logged, and the proxy lets go only of what is
\* stored or ledgered.  A number that was never given to an event, or was lost
\* before the append, is nobody's event.
Contract ==
  INSTANCE DeliveryContract
    WITH Events    <- Seqs,
         kept      <- Wal,
         logged    <- {s \in Seqs : fate[s] \in {"logged", "pruned"}},
         stored    <- ods,
         accounted <- Present

ImplementsContract == Contract!Spec

----------------------------------------------------------------------------
(* What the comments of the code say and the code does not do.             *)

\* The floor and contiguous_seq are written by one statement, "so the two can
\* never disagree" (repository_sql.go:417): no row has a floor above its
\* contiguous_seq.
FloorHonoured == \A o \in Orgs : row[o].floor <= row[o].contiguous

\* "All watermark columns are monotonic: a late/stale batch can never lower a
\* high-water mark" (repository.go:27): nor contiguous_seq.
ContiguousMonotone ==
  [][\A o \in Orgs : row[o].contiguous <= row'[o].contiguous]_row

\* "Every seq is either in ODS or known-lost, no third state" (repository_sql.go:257),
\* also of a source that stays active.
KnownAccounted == \A s \in Seqs : Known(s) ~> Settling(s)

\* The same of a source that falls silent, however far behind its rows are.
QuietAllAccounted == <>[]Quiet => KnownAccounted

\* Once the source is silent, a row whose gap is stale is brought up to date by
\* the scans: "the post-promotion settled state" of ScanNow (worker.go:283).
QuietGapCloses ==
  <>[]Quiet =>
    \A o \in Orgs : Promotable(row[o]) ~> row[o].contiguous = Ceiling(row[o])
=============================================================================
