---------------------------- MODULE Conversation ----------------------------
(***************************************************************************)
(* The conversation-audit channel: proxies upload turns from a content     *)
(* WAL, the collector stores them, quarantines a turn whose sequence       *)
(* number another turn owns, advances a watermark per org, and a worker    *)
(* files aged gaps as known loss.                                          *)
(*                                                                         *)
(* It is the usage channel's twin with tables of its own and differs from  *)
(* it where it matters: what is present is asked org by org, a sequence    *)
(* number may be claimed by two turns, and the answer to a batch also      *)
(* moves the proxy's cursor, after which a turn is not sent again.         *)
(*                                                                         *)
(* One source_id is modelled.  Several proxies may use it (a vault that    *)
(* was copied), which is how two turns come to claim one number.           *)
(***************************************************************************)
EXTENDS Integers, FiniteSets, FiniteSetsExt

CONSTANTS
  Orgs,       \* orgs the turns belong to
  NoOrg,      \* filler for a process that works on no watermark row
  Procs,      \* goroutines: HTTP handlers, and the known-loss worker
  MaxTurn,    \* bound: turns 1..MaxTurn are made
  SeqOf,      \* the source_seq each turn claims
  OrgOf,      \* the org of each turn, after the pin
  ProxyOf,    \* the proxy whose WAL holds each turn
  Bad,        \* turns that may be malformed
  ScanLimit,  \* advanceWatermarkScanLimit
  MaxFaults   \* bound: failed statements, lost answers and restarts (a
              \* transaction may fail any number of times)

Turns == 1..MaxTurn
MaxSeq == Max({SeqOf[t] : t \in Turns} \cup {0})
Seqs == 1..MaxSeq
Marks == 0..MaxSeq

ASSUME OrgsAssumption == NoOrg \notin Orgs
ASSUME TurnAssumption ==
  /\ MaxTurn \in Nat /\ SeqOf \in [Turns -> Nat \ {0}]
  /\ OrgOf \in [Turns -> Orgs] /\ Bad \subseteq Turns /\ Turns = DOMAIN ProxyOf
ASSUME LimitAssumption == ScanLimit \in Nat \ {0} /\ MaxFaults \in Nat

VARIABLES
  fate,     \* proxies: what became of each turn
  refused,  \* turns that validate() or a column constraint refuses for good
  records,  \* conversation_records: turns stored
  flagged,  \* those of them with ingest_status = 'quarantined'
  ledger,   \* conversation_known_loss_ledger: <<org, seq>>
  row,      \* conversation_source_watermark, one row per org
  req,      \* what each process is doing
  faults    \* how many of those there were

tables == <<records, flagged, ledger, row>>
vars == <<fate, refused, records, flagged, ledger, row, req, faults>>

\* acked: a 200 moved the cursor past it; lost: it never reached the WAL.
Fates == {"new", "logged", "acked", "pruned", "lost"}
Watermark == [contiguous : Marks, maxSeen : Marks, allocated : Marks,
              age : {"absent", "fresh", "stale"}]
PCs == {"idle", "tx", "commit", "owner", "insert", "advance", "zip",
        "seen", "write", "reply", "scan", "record"}
Request == [pc : PCs, op : {"none", "batch", "promote"},
            batch : SUBSET Turns, todo : SUBSET Turns,
            out : SUBSET (Turns \X BOOLEAN), ok : BOOLEAN,
            orgs : SUBSET Orgs, org : Orgs \cup {NoOrg},
            finds : SUBSET [org : Orgs, lo : Marks, hi : Marks],
            seqs : SUBSET Seqs, contiguous : Marks, maxSeen : Marks,
            allocated : Marks, reply : Marks]

NoRow == [contiguous |-> 0, maxSeen |-> 0, allocated |-> 0, age |-> "absent"]
Idle == [pc |-> "idle", op |-> "none", batch |-> {}, todo |-> {}, out |-> {}, ok |-> TRUE, orgs |-> {},
         org |-> NoOrg, finds |-> {}, seqs |-> {}, contiguous |-> 0,
         maxSeen |-> 0, allocated |-> 0, reply |-> 0]

TypeOK ==
  /\ fate \in [Turns -> Fates] /\ refused \subseteq Bad
  /\ flagged \subseteq records /\ records \subseteq Turns
  /\ ledger \subseteq Orgs \X Seqs
  /\ row \in [Orgs -> Watermark]
  /\ req \in [Procs -> Request]
  /\ faults \in 0..MaxFaults

Init ==
  /\ fate = [t \in Turns |-> "new"] /\ refused \in SUBSET Bad
  /\ records = {} /\ flagged = {} /\ ledger = {}
  /\ row = [o \in Orgs |-> NoRow]
  /\ req = [p \in Procs |-> Idle]
  /\ faults = 0

----------------------------------------------------------------------------
(* What the statements read.                                               *)

Greatest(a, b) == IF a > b THEN a ELSE b

SeqsIn(S, o) == {SeqOf[t] : t \in {u \in S : OrgOf[u] = o}}

\* presentSeqSet: stored or ledgered, of this org alone.
Present(o) == SeqsIn(records, o) \cup {s \in Seqs : <<o, s>> \in ledger}

Window(lo, hi) == {s \in Seqs : lo < s /\ s <= hi /\ s <= lo + ScanLimit}

\* Seeded fault: the walk takes one step more than it looked at.
ZippedOneOff(o, c) ==
  Max({d \in c..MaxSeq : d <= c + ScanLimit /\ Window(c, d - 1) \subseteq Present(o)})

\* Where the zipper stops that starts at c.
Zipped(o, c) ==
  Max({d \in c..MaxSeq : d <= c + ScanLimit /\ Window(c, d) \subseteq Present(o)})

Ceiling(w) == Greatest(w.maxSeen, w.allocated)

Logged(x) == {t \in Turns : fate[t] = "logged" /\ ProxyOf[t] = x}

\* The allocator of a proxy.
Allocated(x) ==
  Max({0} \cup {SeqOf[t] : t \in {u \in Turns : ProxyOf[u] = x /\ fate[u] # "new"}})

Fault == faults < MaxFaults /\ faults' = faults + 1

----------------------------------------------------------------------------
(* The proxies, as the handlers and comments rely on them.                 *)

\* A turn is numbered, in order, and written to the WAL, or dropped by it.
Issue(t) ==
  /\ fate[t] = "new"
  /\ \A u \in Turns : SeqOf[u] < SeqOf[t] => fate[u] # "new"
  /\ \E f \in {"logged", "lost"} : fate' = [fate EXCEPT ![t] = f]
  /\ UNCHANGED <<refused, tables, req, faults>>

\* An upload of one proxy, with its allocator high-water.
SendBatch(p) ==
  /\ req[p].pc = "idle"
  /\ \E x \in {ProxyOf[t] : t \in Turns} :
       \E S \in (SUBSET Logged(x)) \ {{}} :
         req' = [req EXCEPT ![p] =
                   [Idle EXCEPT !.pc = "tx", !.op = "batch", !.batch = S,
                                !.allocated = Allocated(x)]]
  /\ UNCHANGED <<fate, refused, tables, faults>>

----------------------------------------------------------------------------
(* IngestBatch: ingestBatchTx, else ingestPerRecord; ingestOne for each.    *)

Rivals(S, t) == {u \in S \ {t} : OrgOf[u] = OrgOf[t] /\ SeqOf[u] = SeqOf[t]}

\* Once the records are dealt with.
Advance(r) == [r EXCEPT !.pc = IF r.orgs = {} THEN "reply" ELSE "advance"]

\* ingestOne for each record inside the transaction, which sees what was
\* committed before and the batch's own inserts.  Each statement reads at a
\* moment of its own; the records of a batch are independent but for those of
\* one number, so one moment stands for all.
IngestInTx(p) ==
  /\ req[p].pc = "tx"
  /\ LET S == req[p].batch \ refused
         new == S \ records
         Seen(t) == records \cup {u \in new : u < t}
     IN req' = [req EXCEPT ![p] =
          [@ EXCEPT !.pc = "commit", !.orgs = {OrgOf[t] : t \in S},
                    !.out = {<<t, Rivals(Seen(t), t) # {}>> : t \in new}]]
  /\ UNCHANGED <<fate, refused, tables, faults>>

\* Seeded fault: the flag of a turn already stored is overwritten.
StoreReplacing(out) ==
  /\ records' = records \cup {x[1] : x \in out}
  /\ flagged' = flagged \cup {x[1] : x \in {y \in out : y[2]}}

\* Another handler may have stored a turn meanwhile.
Store(out) ==
  /\ records' = records \cup {x[1] : x \in out}
  /\ flagged' = flagged \cup {x[1] : x \in {y \in out : y[2] /\ y[1] \notin records}}

Commit(p) ==
  /\ req[p].pc = "commit"
  /\ Store(req[p].out)
  /\ req' = [req EXCEPT ![p] = Advance([@ EXCEPT !.out = {}])]
  /\ UNCHANGED <<fate, refused, ledger, row, faults>>

\* A statement fails and the attempt is rolled back, or the commit reports an
\* error, and may have taken effect; the batch is replayed record by record.
TxFails(p) ==
  /\ req[p].pc \in {"tx", "commit"}
  /\ \/ UNCHANGED <<records, flagged>>
     \/ Store(req[p].out)
  /\ req' = [req EXCEPT ![p] = [@ EXCEPT !.pc = "owner", !.todo = req[p].batch,
                                         !.out = {}, !.orgs = {}]]
  /\ UNCHANGED <<fate, refused, ledger, row, faults>>

First(r) == Min(r.todo)

Done(r) ==
  LET d == [r EXCEPT !.todo = @ \ {First(r)}, !.out = {}] IN
  IF d.todo = {} THEN Advance(d) ELSE [d EXCEPT !.pc = "owner"]

\* ingestPerRecord: validate(), then SeqOwner, any one of the records with the
\* number (LIMIT 1).
SeqOwner(p) ==
  /\ req[p].pc = "owner"
  /\ LET t == First(req[p]) IN
     \/ t \in refused /\ req' = [req EXCEPT ![p] = Done(@)]
     \/ /\ t \notin refused
        /\ \E c \in BOOLEAN :
             /\ c => Rivals(records, t) # {}
             /\ ~c => t \in records \/ Rivals(records, t) = {}
             /\ req' = [req EXCEPT ![p] = [@ EXCEPT !.pc = "insert",
                                                    !.out = {<<t, c>>}]]
  /\ UNCHANGED <<fate, refused, tables, faults>>

\* InsertRecord: stored once, flagged if the number was another's.
InsertRecord(p) ==
  /\ req[p].pc = "insert"
  /\ Store(req[p].out)
  /\ LET r == [req[p] EXCEPT !.orgs = @ \cup {OrgOf[First(req[p])]}] IN
       req' = [req EXCEPT ![p] = Done(r)]
  /\ UNCHANGED <<fate, refused, ledger, row, faults>>

\* Seeded fault: a storage error leaves the batch's answer a 200.
RecordRejected(p) ==
  /\ Fault
  /\ req[p].pc = "insert"
  /\ req' = [req EXCEPT ![p] = Done(@)]
  /\ UNCHANGED <<fate, refused, tables>>

\* A storage error on the autocommit path is transient: the answer is a 503.
\* (A failed SeqOwner leaves what a failed InsertRecord does.)
RecordFails(p) ==
  /\ Fault
  /\ req[p].pc = "insert"
  /\ req' = [req EXCEPT ![p] = Done([@ EXCEPT !.ok = FALSE])]
  /\ UNCHANGED <<fate, refused, tables>>

\* A 200 moves the cursor past the turns of the batch and prunes the proxy's
\* WAL up to contiguous_seq.
Answered(r) ==
  LET x == ProxyOf[CHOOSE t \in r.batch : TRUE]
      live == {t \in Turns : fate[t] \in {"logged", "acked"} /\ ProxyOf[t] = x}
  IN [t \in Turns |-> IF t \in live /\ SeqOf[t] <= r.reply THEN "pruned"
                      ELSE IF t \in live \cap r.batch THEN "acked"
                      ELSE fate[t]]

\* The answer, a 200 or a 503; it may be lost, or read after others.
Reply(p) ==
  /\ req[p].pc = "reply"
  /\ \/ fate' = (IF req[p].ok THEN Answered(req[p]) ELSE fate) /\ UNCHANGED faults
     \/ UNCHANGED fate /\ Fault
  /\ req' = [req EXCEPT ![p] = Idle]
  /\ UNCHANGED <<refused, tables>>

----------------------------------------------------------------------------
(* AdvanceWatermark, statement by statement.                               *)

\* What follows when a row is done with, whether it succeeded or not.
Continue(r) ==
  IF r.orgs # {} THEN [r EXCEPT !.pc = "advance", !.org = NoOrg,
                                !.contiguous = 0, !.maxSeen = 0]
  ELSE IF r.op = "batch"
  THEN [Idle EXCEPT !.pc = "reply", !.op = "batch", !.batch = r.batch,
                    !.ok = r.ok, !.reply = r.reply]
  ELSE IF r.finds # {}
  THEN [Idle EXCEPT !.pc = "scan", !.op = "promote", !.finds = r.finds]
  ELSE Idle

Leave(r) == Continue([r EXCEPT !.orgs = @ \ {r.org}])

AdvanceRead(p) ==
  /\ req[p].pc = "advance"
  /\ \E o \in req[p].orgs :
       req' = [req EXCEPT ![p] = [@ EXCEPT !.pc = "zip", !.org = o,
                                           !.contiguous = row[o].contiguous]]
  /\ UNCHANGED <<fate, refused, tables, faults>>

AdvanceZip(p) ==
  /\ req[p].pc = "zip"
  /\ req' = [req EXCEPT ![p] =
               [@ EXCEPT !.pc = "seen",
                         !.contiguous = Zipped(req[p].org, req[p].contiguous)]]
  /\ UNCHANGED <<fate, refused, tables, faults>>

AdvanceMaxSeen(p) ==
  /\ req[p].pc = "seen"
  /\ req' = [req EXCEPT ![p] =
               [@ EXCEPT !.pc = "write",
                         !.maxSeen = Max({0} \cup SeqsIn(records, req[p].org))]]
  /\ UNCHANGED <<fate, refused, tables, faults>>

Upserted(w, r) ==
  [contiguous |-> r.contiguous,
   maxSeen    |-> Greatest(w.maxSeen, r.maxSeen),
   allocated  |-> Greatest(w.allocated, r.allocated),
   age        |-> "fresh"]

\* Seeded fault: the answer carries the largest number seen.
AdvanceWriteSeen(p) ==
  /\ req[p].pc = "write"
  /\ row' = [row EXCEPT ![req[p].org] = Upserted(@, req[p])]
  /\ req' = [req EXCEPT ![p] = Leave([@ EXCEPT !.reply = req[p].maxSeen])]
  /\ UNCHANGED <<fate, refused, records, flagged, ledger, faults>>

\* The upsert, and the value for the answer's source, of whichever org is last.
AdvanceWrite(p) ==
  /\ req[p].pc = "write"
  /\ row' = [row EXCEPT ![req[p].org] = Upserted(@, req[p])]
  /\ req' = [req EXCEPT ![p] = Leave([@ EXCEPT !.reply = req[p].contiguous])]
  /\ UNCHANGED <<fate, refused, records, flagged, ledger, faults>>

----------------------------------------------------------------------------
(* KnownLossWorker.PromoteOnce.                                            *)

\* ScanStaleGaps.
Stale(w) == w.contiguous < Ceiling(w) /\ w.age = "stale"

\* One worker: a tick ends before the next.
Scan(p) ==
  /\ req[p].pc = "idle" /\ \A q \in Procs : req[q].op # "promote"
  /\ LET gaps == {o \in Orgs : Stale(row[o])} IN
       /\ gaps # {}
       /\ req' = [req EXCEPT ![p] =
                    [Idle EXCEPT !.pc = "scan", !.op = "promote",
                       !.finds = {[org |-> o, lo |-> row[o].contiguous,
                                   hi |-> Ceiling(row[o])] : o \in gaps}]]
  /\ UNCHANGED <<fate, refused, tables, faults>>

\* EnumerateMissingSeqs.
Missing(f) == Window(f.lo, f.hi) \ Present(f.org)

Enumerate(p) ==
  /\ req[p].pc = "scan"
  /\ \E f \in req[p].finds :
       LET rest == [req[p] EXCEPT !.finds = @ \ {f}] IN
       req' = [req EXCEPT ![p] =
                 IF Missing(f) = {} THEN Continue(rest)
                 ELSE [rest EXCEPT !.pc = "record", !.org = f.org,
                                   !.orgs = {f.org}, !.seqs = Missing(f)]]
  /\ UNCHANGED <<fate, refused, tables, faults>>

\* RecordKnownLoss: one INSERT OR IGNORE for each, then AdvanceWatermark.
RecordLoss(p) ==
  /\ req[p].pc = "record"
  /\ LET s == Min(req[p].seqs) IN
       /\ ledger' = ledger \cup {<<req[p].org, s>>}
       /\ req' = [req EXCEPT ![p] =
                    IF req[p].seqs = {s} THEN Continue([@ EXCEPT !.seqs = {}])
                    ELSE [@ EXCEPT !.seqs = req[p].seqs \ {s}]]
  /\ UNCHANGED <<fate, refused, records, flagged, row, faults>>

----------------------------------------------------------------------------
(* Time and faults.                                                        *)

\* last_event_at of the row passes the timeout.
Age(o) ==
  /\ row[o].age = "fresh"
  /\ row' = [row EXCEPT ![o].age = "stale"]
  /\ UNCHANGED <<fate, refused, records, flagged, ledger, req, faults>>

\* A statement fails outside the batch: logged, and on with the next row.  (A
\* failed read of AdvanceWatermark leaves what a failed upsert does.)
StatementFails(p) ==
  /\ Fault
  /\ req[p].pc \in {"write", "record"}
  /\ req' = [req EXCEPT ![p] = Leave([@ EXCEPT !.seqs = {}])]
  /\ UNCHANGED <<fate, refused, tables>>

Restart ==
  /\ Fault
  /\ \E p \in Procs : req[p] # Idle
  /\ req' = [p \in Procs |-> Idle]
  /\ UNCHANGED <<fate, refused, tables>>

Handle(p) ==
  \/ IngestInTx(p) \/ Commit(p) \/ TxFails(p)
  \/ SeqOwner(p) \/ InsertRecord(p) \/ RecordFails(p) \/ Reply(p)
  \/ AdvanceRead(p) \/ AdvanceZip(p) \/ AdvanceMaxSeen(p) \/ AdvanceWrite(p)
  \/ Enumerate(p) \/ RecordLoss(p) \/ StatementFails(p)

Next ==
  \/ Restart
  \/ \E t \in Turns : Issue(t)
  \/ \E o \in Orgs : Age(o)
  \/ \E p \in Procs : SendBatch(p) \/ Scan(p) \/ Handle(p)

Spec == Init /\ [][Next]_vars

----------------------------------------------------------------------------
(* Properties.                                                             *)

\* A number is accounted for when a turn that claims it is stored, or it is
\* filed as lost.
Accounted(s) == \E o \in Orgs : s \in Present(o)

\* The cursor passes no turn that could have been stored and was not: "a 200
\* would let the proxy's content-WAL cursor advance past the record" (HandleBatch).
AckedStored == \A t \in Turns : fate[t] = "acked" => t \in records \cup refused

\* contiguous_seq of a row passes no hole of its org (AdvanceWatermark).
ContiguousAccounted ==
  \A o \in Orgs, s \in Seqs : s <= row[o].contiguous => s \in Present(o)

\* A quarantined turn has a number that an accepted turn of its org owns: none
\* is flagged as pollution alone (ingestOne), through rollbacks and replays.
QuarantinedHasOwner ==
  \A t \in flagged : \E u \in records \ flagged :
    OrgOf[u] = OrgOf[t] /\ SeqOf[u] = SeqOf[t]

\* Of the turns that claim one number, one is accepted (SeqOwner).
OneAccepted ==
  \A t, u \in records \ flagged :
    OrgOf[u] = OrgOf[t] /\ SeqOf[u] = SeqOf[t] => t = u

\* No number that is stored is filed as lost: what is promoted is "neither
\* stored in conversation_records nor already in the known-loss ledger".
LossIsGenuine ==
  [][\A l \in ledger' \ ledger : \A t \in records : SeqOf[t] # l[2]]_ledger

\* The channel keeps the contract of DeliveryContract although it has two ways
\* to let go of a turn, the cursor and the prune: a turn is forgotten only once
\* it is stored, refused for good, or its number is answered for by a turn that
\* claims it too or by the ledger.
Contract ==
  INSTANCE DeliveryContract
    WITH Events    <- Turns,
         kept      <- {t \in Turns : fate[t] = "logged"},
         logged    <- {t \in Turns : fate[t] \in {"logged", "acked", "pruned"}},
         stored    <- records,
         accounted <- {t \in Turns : t \in refused \/ Accounted(SeqOf[t])}

ImplementsContract == Contract!Spec
=============================================================================
